-------------------------- MODULE DataPacketsSafety ---------------------------
(***************************************************************************)
(* Reads and writes are exact: the invariants of DataPackets, for every    *)
(* memory, every set of requests, every size of the buffer and any number  *)
(* of requests.                                                            *)
(***************************************************************************)
EXTENDS DataPacketsProofs, SequenceTheorems

-----------------------------------------------------------------------------
(* Scripts: an operation, then the rest *)

IsScript(s) == s \in Seq({s[i] : i \in 1..Len(s)})

LEMMA ScriptOf ==
  ASSUME NEW S, NEW s \in Seq(S)
  PROVE  IsScript(s)
<1>1. Len(s) \in Nat /\ s = [i \in 1..Len(s) |-> s[i]]
  OBVIOUS
<1> QED
  BY <1>1 DEF IsScript

LEMMA OneOperation ==
  ASSUME NEW op
  PROVE  IsScript(<<op>>) /\ <<op>>[1] = op
<1>1. <<op>> \in Seq({op})
  OBVIOUS
<1> QED
  BY <1>1, ScriptOf

LEMMA NoOperation == IsScript(<<>>)
<1>1. <<>> \in Seq({})
  OBVIOUS
<1> QED
  BY <1>1, ScriptOf

\* Two scripts are sequences over one set.
LEMMA Common ==
  ASSUME NEW s, NEW t, IsScript(s), IsScript(t)
  PROVE  \E S : s \in Seq(S) /\ t \in Seq(S)
<1> DEFINE A == {s[i] : i \in 1..Len(s)}
           B == {t[i] : i \in 1..Len(t)}
<1>1. s \in Seq(A) /\ t \in Seq(B)
  BY DEF IsScript
<1> HIDE DEF A, B
<1>2. s \in Seq(A \cup B) /\ t \in Seq(A \cup B)
  BY <1>1
<1> QED
  BY <1>2

LEMMA Chain ==
  ASSUME NEW s, NEW t, IsScript(s), IsScript(t)
  PROVE  IsScript(s \o t)
<1>1. PICK S : s \in Seq(S) /\ t \in Seq(S)
  BY Common
<1> QED
  BY <1>1, ConcatProperties, ScriptOf

LEMMA Regroup ==
  ASSUME NEW s, NEW t, NEW u, IsScript(s), IsScript(t), IsScript(u)
  PROVE  (s \o t) \o u = s \o (t \o u)
<1> DEFINE A == {s[i] : i \in 1..Len(s)}
           B == {t[i] : i \in 1..Len(t)}
           C == {u[i] : i \in 1..Len(u)}
           S == A \cup B \cup C
<1>1. s \in Seq(A) /\ t \in Seq(B) /\ u \in Seq(C)
  BY DEF IsScript
<1> HIDE DEF A, B, C
<1>2. s \in Seq(S) /\ t \in Seq(S) /\ u \in Seq(S)
  BY <1>1
<1> HIDE DEF S
<1> QED
  BY <1>2, ConcatAssociative

\* One script after another.
Then(s, rest) == s \o rest

LEMMA ThenIsScript ==
  ASSUME NEW s, NEW rest, IsScript(s), IsScript(rest)
  PROVE  IsScript(Then(s, rest))
BY Chain DEF Then

LEMMA ThenThen ==
  ASSUME NEW s, NEW t, NEW rest, IsScript(s), IsScript(t), IsScript(rest)
  PROVE  Then(s \o t, rest) = Then(s, Then(t, rest))
BY Regroup DEF Then

LEMMA ThenNothing ==
  ASSUME NEW s, IsScript(s)
  PROVE  Then(s, <<>>) = s /\ Then(<<>>, s) = s
BY ConcatEmptySeq DEF IsScript, Then

LEMMA ThenFour ==
  ASSUME NEW p, NEW q, NEW r, NEW s, NEW rest,
         IsScript(p), IsScript(q), IsScript(r), IsScript(s), IsScript(rest)
  PROVE  /\ Then(((p \o q) \o r) \o s, rest) = Then(p, Then(q, Then(r, Then(s, rest))))
         /\ IsScript(((p \o q) \o r) \o s)
<1> DEFINE pq == p \o q
           pqr == pq \o r
<1>1. IsScript(pq)
  BY Chain
<1>2. Then(pq, Then(r, Then(s, rest))) = Then(p, Then(q, Then(r, Then(s, rest))))
  BY ThenIsScript, ThenThen
<1> HIDE DEF pq
<1>3. IsScript(pqr)
  BY <1>1, Chain
<1>4. Then(pqr, Then(s, rest)) = Then(pq, Then(r, Then(s, rest)))
  BY <1>1, ThenIsScript, ThenThen
<1> HIDE DEF pqr
<1>5. IsScript(pqr \o s)
  BY <1>3, Chain
<1>6. Then(pqr \o s, rest) = Then(pqr, Then(s, rest))
  BY <1>3, ThenThen
<1> QED
  BY <1>2, <1>4, <1>5, <1>6 DEF pq, pqr

LEMMA First ==
  ASSUME NEW op, NEW rest, IsScript(rest)
  PROVE  /\ Then(<<op>>, rest) # <<>>
         /\ Head(Then(<<op>>, rest)) = op /\ Tail(Then(<<op>>, rest)) = rest
<1> DEFINE s == <<op>> \o rest
<1>1. PICK S : <<op>> \in Seq(S) /\ rest \in Seq(S)
  BY OneOperation, Common
<1>2. Len(<<op>>) = 1 /\ <<op>>[1] = op
  OBVIOUS
<1>3. /\ s \in Seq(S) /\ Len(s) = 1 + Len(rest)
      /\ \A i \in 1..(1 + Len(rest)) : s[i] = IF i <= 1 THEN op ELSE rest[i - 1]
  BY <1>1, <1>2, ConcatProperties
<1> HIDE DEF s
<1>4. Len(rest) \in Nat /\ s # <<>> /\ Head(s) = op
  BY <1>1, <1>3
<1>5. Tail(s) = rest
  <2>1. /\ Tail(s) \in Seq(S) /\ Len(Tail(s)) = Len(rest)
        /\ \A i \in 1..Len(rest) : Tail(s)[i] = s[i + 1]
    BY <1>3, <1>4, HeadTailProperties
  <2>2. \A i \in 1..Len(rest) : Tail(s)[i] = rest[i]
    BY <1>3, <1>4, <2>1
  <2> QED
    BY <1>1, <2>1, <2>2
<1> QED
  BY <1>4, <1>5 DEF s, Then

\* A row of k + 1 operations is its first one and a row of k.
LEMMA Row ==
  ASSUME NEW k \in Nat, NEW f
  PROVE  /\ IsScript([i \in 1..k |-> f[i]])
         /\ [i \in 1..(k + 1) |-> f[i]] = <<f[1]>> \o [i \in 1..k |-> f[i + 1]]
         /\ IsScript([i \in 1..k |-> f[i + 1]])
<1> DEFINE S == {f[i] : i \in 1..(k + 1)}
           s == [i \in 1..(k + 1) |-> f[i]]
           t == [i \in 1..k |-> f[i + 1]]
           u == [i \in 1..k |-> f[i]]
<1>1. s \in Seq(S) /\ t \in Seq(S) /\ u \in Seq(S) /\ <<f[1]>> \in Seq(S)
  OBVIOUS
<1>2. Len(s) = k + 1 /\ Len(t) = k /\ Len(<<f[1]>>) = 1
  OBVIOUS
<1>3. /\ <<f[1]>> \o t \in Seq(S) /\ Len(<<f[1]>> \o t) = 1 + k
      /\ \A i \in 1..(1 + k) : (<<f[1]>> \o t)[i] = IF i <= 1 THEN f[1] ELSE f[(i - 1) + 1]
  BY <1>1, <1>2, ConcatProperties
<1>4. \A i \in 1..(k + 1) : s[i] = (<<f[1]>> \o t)[i]
  BY <1>3
<1>5. s = <<f[1]>> \o t
  BY <1>1, <1>2, <1>3, <1>4
<1> QED
  BY <1>1, <1>5, ScriptOf

-----------------------------------------------------------------------------
(* One operation of the debug module *)

Operation ==
  \/ LoadProg \/ SetData0 \/ SetData1 \/ RunProg \/ SetAuto \/ GetGpr \/ SetGpr \/ GetData0
  \/ ModifyWords \/ ModifyHigh \/ PutReply

\* The first operation of the script says which action can be taken.
LEMMA WhichOperation ==
  ASSUME Operation
  PROVE  /\ script # <<>>
         /\ Head(script).do = "prog" => LoadProg
         /\ Head(script).do = "data0" => SetData0
         /\ Head(script).do = "data1" => SetData1
         /\ Head(script).do = "exec" => RunProg
         /\ Head(script).do = "auto" => SetAuto
         /\ Head(script).do = "transfer" => GetGpr
         /\ Head(script).do = "transferBack" => SetGpr
         /\ Head(script).do = "get" => GetData0
         /\ Head(script).do = "modify" => ModifyWords
         /\ Head(script).do = "modify16high" => ModifyHigh
         /\ Head(script).do = "put" => PutReply
<1> DEFINE At(name) == script # <<>> /\ Head(script).do = name
<1>1. LoadProg => At("prog")
  BY DEF LoadProg, Op
<1>2. SetData0 => At("data0")
  BY DEF SetData0, Op
<1>3. SetData1 => At("data1")
  BY DEF SetData1, Op
<1>4. RunProg => At("exec")
  BY DEF RunProg, Op
<1>5. SetAuto => At("auto")
  BY DEF SetAuto, Op
<1>6. GetGpr => At("transfer")
  BY DEF GetGpr, Op
<1>7. SetGpr => At("transferBack")
  BY DEF SetGpr, Op
<1>8. GetData0 => At("get")
  BY DEF GetData0, Op
<1>9. ModifyWords => At("modify")
  BY DEF ModifyWords, Op
<1>10. ModifyHigh => At("modify16high")
  BY DEF ModifyHigh, Op
<1>11. PutReply => At("put")
  BY DEF PutReply, Op
<1> QED
  BY <1>1, <1>2, <1>3, <1>4, <1>5, <1>6, <1>7, <1>8, <1>9, <1>10, <1>11 DEF Operation

LEMMA ProgStep ==
  ASSUME NEW p, NEW rest, IsScript(rest), script = Then(Prog(p), rest), Operation
  PROVE  /\ script' = rest /\ progbuf' = p
         /\ data0' \in {data0, AppWord} /\ command' \in {command, "transfer"}
         /\ UNCHANGED <<mem, gpr, data1, autoexec, cmder, got, handlerVars>>
<1> DEFINE op == [do |-> "prog", prog |-> p]
<1>1. Head(script) = op /\ Tail(script) = rest
  BY First DEF Prog
<1>2. LoadProg
  BY <1>1, WhichOperation
<1>3. op.prog = p
  OBVIOUS
<1> HIDE DEF op
<1> QED
  BY <1>1, <1>2, <1>3 DEF LoadProg, Following

LEMMA Data1Step ==
  ASSUME NEW a, NEW write, NEW rest, IsScript(rest), script = Then(Data1(a, write), rest), Operation
  PROVE  /\ script' = rest /\ data1' = [addr |-> a, write |-> write]
         /\ UNCHANGED <<mem, gpr, progbuf, data0, command, autoexec, cmder, got, handlerVars>>
<1> DEFINE op == [do |-> "data1", addr |-> a, write |-> write]
<1>1. Head(script) = op /\ Tail(script) = rest
  BY First DEF Data1
<1>2. SetData1
  BY <1>1, WhichOperation
<1>3. op.addr = a /\ op.write = write
  OBVIOUS
<1> HIDE DEF op
<1> QED
  BY <1>1, <1>2, <1>3 DEF SetData1, Following

LEMMA Data0Step ==
  ASSUME NEW w, NEW rest, IsScript(rest), script = Then(Data0(w), rest), Operation
  PROVE  /\ script' = rest /\ Touch(w)
         /\ UNCHANGED <<gpr, progbuf, command, autoexec, got, handlerVars>>
<1> DEFINE op == [do |-> "data0", word |-> w]
<1>1. Head(script) = op /\ Tail(script) = rest
  BY First DEF Data0
<1>2. SetData0
  BY <1>1, WhichOperation
<1>3. op.word = w
  OBVIOUS
<1> QED
  BY <1>1, <1>2, <1>3 DEF SetData0, Following

LEMMA ExecStep ==
  ASSUME NEW rest, IsScript(rest), script = Then(Exec, rest), Operation
  PROVE  /\ script' = rest /\ command' = "exec" /\ RunProgbuf(data0)
         /\ UNCHANGED <<gpr, progbuf, autoexec, got, handlerVars>>
<1> DEFINE op == [do |-> "exec"]
<1>1. Head(script) = op /\ Tail(script) = rest
  BY First DEF Exec
<1>2. RunProg
  BY <1>1, WhichOperation
<1> QED
  BY <1>1, <1>2 DEF RunProg, Following

LEMMA AutoStep ==
  ASSUME NEW on, NEW rest, IsScript(rest), script = Then(SwitchAuto(on), rest), Operation
  PROVE  /\ script' = rest /\ autoexec' = on
         /\ UNCHANGED <<mem, gpr, progbuf, data0, data1, command, cmder, got, handlerVars>>
<1> DEFINE op == [do |-> "auto", on |-> on]
<1>1. Head(script) = op /\ Tail(script) = rest
  BY First DEF SwitchAuto
<1>2. SetAuto
  BY <1>1, WhichOperation
<1>3. op.on = on
  OBVIOUS
<1> HIDE DEF op
<1> QED
  BY <1>1, <1>2, <1>3 DEF SetAuto, Following

LEMMA GetStep ==
  ASSUME NEW rest, IsScript(rest), script = Then(Get, rest), Operation
  PROVE  /\ script' = rest /\ got' = Append(got, data0) /\ Touch(data0)
         /\ UNCHANGED <<gpr, progbuf, command, autoexec, handlerVars>>
<1> DEFINE op == [do |-> "get"]
<1>1. Head(script) = op /\ Tail(script) = rest
  BY First DEF Get
<1>2. GetData0
  BY <1>1, WhichOperation
<1> QED
  BY <1>1, <1>2 DEF GetData0, Following

-----------------------------------------------------------------------------
(* Reading and writing an aligned word *)

Clean == autoexec = FALSE /\ cmder = FALSE
PortTypes ==
  /\ progbuf \in {"none", "get_set_u32", "get_block_aligned", "set_block_aligned"}
  /\ data0 \in Word /\ data1 \in [addr : Nat, write : BOOLEAN]
  /\ command \in {"none", "exec", "transfer"}
MemTyped == mem \in [Ram -> Byte]

\* A word of RAM.
WordAt(b) == b \in Nat /\ \A i \in 0..3 : b + i \in Ram

LEMMA ConstantWords ==
  /\ AppWord \in Word /\ ZeroWord \in Word
  /\ \A i \in 0..3 : App(i) \in Byte /\ Gpr(i) \in Byte
  /\ Zero \in Byte /\ Unknown \in Byte /\ Mixed \in Byte
<1>1. /\ \A i \in 0..3 : App(i) \in Byte /\ Gpr(i) \in Byte
      /\ Zero \in Byte /\ Unknown \in Byte /\ Mixed \in Byte
  BY DEF Byte
<1> QED
  BY <1>1 DEF AppWord, ZeroWord, Word

LEMMA MemWordTyped ==
  ASSUME NEW m \in [Ram -> Byte], NEW b, WordAt(b)
  PROVE  MemWord(m, b) \in Word /\ ~Faults(b)
<1>1. \A i \in 0..3 : m[b + i] \in Byte
  BY DEF WordAt
<1>2. b + 0 \in Ram /\ b + 0 = b
  BY DEF WordAt
<1> QED
  BY <1>1, <1>2 DEF MemWord, Word, Faults

LEMMA StoredTyped ==
  ASSUME NEW m \in [Ram -> Byte], NEW b \in Nat, NEW w \in Word
  PROVE  Stored(m, b, w) \in [Ram -> Byte]
<1> SUFFICES ASSUME NEW x \in Ram
             PROVE  (IF x - b \in 0..3 THEN w[x - b] ELSE m[x]) \in Byte
  BY DEF Stored
<1> QED
  BY DEF Word

LoadFrom(b) == Data1(b, FALSE)
StoreTo(b) == Data1(b, TRUE)

Fetching(b, rest) ==
  \/ script = Then(get_mem_u32_aligned(b), rest)
  \/ script = Then(LoadFrom(b), Then(Exec, Then(Get, rest))) /\ progbuf = "get_set_u32"
  \/ /\ script = Then(Exec, Then(Get, rest))
     /\ progbuf = "get_set_u32" /\ data1 = [addr |-> b, write |-> FALSE]
  \/ script = Then(Get, rest) /\ data0 = MemWord(mem, b)

Storing(b, w, rest) ==
  \/ script = Then(set_mem_u32_aligned(b, w), rest)
  \/ script = Then(Data0(w), Then(StoreTo(b), Then(Exec, rest))) /\ progbuf = "get_set_u32"
  \/ script = Then(StoreTo(b), Then(Exec, rest)) /\ progbuf = "get_set_u32" /\ data0 = w
  \/ /\ script = Then(Exec, rest) /\ progbuf = "get_set_u32" /\ data0 = w
     /\ data1 = [addr |-> b, write |-> TRUE]

LEMMA OperationScripts ==
  ASSUME NEW a, NEW p, NEW w
  PROVE  /\ IsScript(Prog(p)) /\ IsScript(Data0(w)) /\ IsScript(Exec) /\ IsScript(Get)
         /\ IsScript(LoadFrom(a)) /\ IsScript(StoreTo(a))
BY OneOperation DEF Prog, Data0, Data1, Exec, Get, LoadFrom, StoreTo

LEMMA FetchScript ==
  ASSUME NEW b, NEW rest, IsScript(rest)
  PROVE  /\ Then(get_mem_u32_aligned(b), rest) =
              Then(Prog("get_set_u32"), Then(LoadFrom(b), Then(Exec, Then(Get, rest))))
         /\ IsScript(Then(Get, rest)) /\ IsScript(Then(Exec, Then(Get, rest)))
         /\ IsScript(Then(LoadFrom(b), Then(Exec, Then(Get, rest))))
         /\ IsScript(get_mem_u32_aligned(b))
<1> DEFINE p == Prog("get_set_u32")
           d == LoadFrom(b)
<1>1. IsScript(p) /\ IsScript(d) /\ IsScript(Exec) /\ IsScript(Get)
  BY OperationScripts
<1>2. get_mem_u32_aligned(b) = ((p \o d) \o Exec) \o Get
  BY DEF get_mem_u32_aligned, LoadFrom
<1> HIDE DEF p, d
<1>3. /\ Then(((p \o d) \o Exec) \o Get, rest) = Then(p, Then(d, Then(Exec, Then(Get, rest))))
      /\ IsScript(((p \o d) \o Exec) \o Get)
  BY <1>1, ThenFour
<1>4. /\ IsScript(Then(Get, rest)) /\ IsScript(Then(Exec, Then(Get, rest)))
      /\ IsScript(Then(d, Then(Exec, Then(Get, rest))))
  BY <1>1, ThenIsScript
<1> QED
  BY <1>2, <1>3, <1>4 DEF p, d

LEMMA StoreScript ==
  ASSUME NEW b, NEW w, NEW rest, IsScript(rest)
  PROVE  /\ Then(set_mem_u32_aligned(b, w), rest) =
              Then(Prog("get_set_u32"), Then(Data0(w), Then(StoreTo(b), Then(Exec, rest))))
         /\ IsScript(Then(Exec, rest)) /\ IsScript(Then(StoreTo(b), Then(Exec, rest)))
         /\ IsScript(Then(Data0(w), Then(StoreTo(b), Then(Exec, rest))))
         /\ IsScript(set_mem_u32_aligned(b, w))
<1> DEFINE p == Prog("get_set_u32")
           v == Data0(w)
           d == StoreTo(b)
<1>1. IsScript(p) /\ IsScript(v) /\ IsScript(d) /\ IsScript(Exec)
  BY OperationScripts
<1>2. set_mem_u32_aligned(b, w) = ((p \o v) \o d) \o Exec
  BY DEF set_mem_u32_aligned, StoreTo
<1> HIDE DEF p, v, d
<1>3. /\ Then(((p \o v) \o d) \o Exec, rest) = Then(p, Then(v, Then(d, Then(Exec, rest))))
      /\ IsScript(((p \o v) \o d) \o Exec)
  BY <1>1, ThenFour
<1>4. /\ IsScript(Then(Exec, rest)) /\ IsScript(Then(d, Then(Exec, rest)))
      /\ IsScript(Then(v, Then(d, Then(Exec, rest))))
  BY <1>1, ThenIsScript
<1> QED
  BY <1>2, <1>3, <1>4 DEF p, v, d

\* A word is being read and nothing but the debug module changes, or it was read.
LEMMA FetchStep ==
  ASSUME NEW b, WordAt(b), NEW rest, IsScript(rest), Clean, PortTypes, MemTyped,
         Fetching(b, rest), Operation
  PROVE  /\ Clean' /\ PortTypes' /\ UNCHANGED <<mem, gpr, handlerVars>>
         /\ \/ Fetching(b, rest)' /\ got' = got
            \/ script' = rest /\ got' = Append(got, MemWord(mem, b))
<1> USE DEF Clean, PortTypes
<1>0. MemWord(mem, b) \in Word /\ ~Faults(b) /\ b \in Nat /\ AppWord \in Word
  BY MemWordTyped, ConstantWords DEF MemTyped, WordAt
<1> DEFINE e == Then(Exec, Then(Get, rest))
<1>1. CASE script = Then(get_mem_u32_aligned(b), rest)
  <2>1. script = Then(Prog("get_set_u32"), Then(LoadFrom(b), e)) /\ IsScript(Then(LoadFrom(b), e))
    BY <1>1, FetchScript
  <2> HIDE DEF e
  <2>2. /\ script' = Then(LoadFrom(b), e) /\ progbuf' = "get_set_u32"
        /\ data0' \in {data0, AppWord} /\ command' \in {command, "transfer"}
        /\ UNCHANGED <<mem, gpr, data1, autoexec, cmder, got, handlerVars>>
    BY <2>1, ProgStep
  <2> QED
    BY <1>0, <2>2 DEF Fetching, e
<1>2. CASE script = Then(LoadFrom(b), e) /\ progbuf = "get_set_u32"
  <2>1. IsScript(e)
    BY FetchScript
  <2> HIDE DEF e
  <2>2. /\ script' = e /\ data1' = [addr |-> b, write |-> FALSE]
        /\ UNCHANGED <<mem, gpr, progbuf, data0, command, autoexec, cmder, got, handlerVars>>
    BY <1>2, <2>1, Data1Step DEF LoadFrom, StoreTo
  <2> QED
    BY <1>0, <1>2, <2>2 DEF Fetching, e
<1>3. CASE /\ script = e
           /\ progbuf = "get_set_u32" /\ data1 = [addr |-> b, write |-> FALSE]
  <2>1. IsScript(Then(Get, rest))
    BY FetchScript
  <2>2. /\ script' = Then(Get, rest) /\ command' = "exec" /\ RunProgbuf(data0)
        /\ UNCHANGED <<gpr, progbuf, autoexec, got, handlerVars>>
    BY <1>3, <2>1, ExecStep
  <2>3. data0' = MemWord(mem, b) /\ UNCHANGED <<mem, data1, cmder>>
    BY <1>0, <1>3, <2>2 DEF RunProgbuf
  <2> QED
    BY <1>0, <2>2, <2>3 DEF Fetching
<1>4. CASE script = Then(Get, rest) /\ data0 = MemWord(mem, b)
  <2>1. /\ script' = rest /\ got' = Append(got, data0) /\ Touch(data0)
        /\ UNCHANGED <<gpr, progbuf, command, autoexec, handlerVars>>
    BY <1>4, GetStep
  <2>2. UNCHANGED <<mem, data0, data1, cmder>>
    BY <2>1 DEF Touch
  <2> QED
    BY <1>4, <2>1, <2>2
<1> QED
  BY <1>1, <1>2, <1>3, <1>4 DEF Fetching

\* A word is being written, which is not there yet, or it was written.
LEMMA StoreStep ==
  ASSUME NEW b, WordAt(b), NEW w \in Word, NEW rest, IsScript(rest), Clean, PortTypes,
         Storing(b, w, rest), Operation
  PROVE  /\ Clean' /\ PortTypes' /\ UNCHANGED <<gpr, got, handlerVars>>
         /\ \/ Storing(b, w, rest)' /\ mem' = mem
            \/ script' = rest /\ mem' = Stored(mem, b, w)
<1> USE DEF Clean, PortTypes
<1>0. ~Faults(b) /\ b \in Nat /\ AppWord \in Word
  <2>1. b + 0 \in Ram /\ b \in Nat
    BY DEF WordAt
  <2> QED
    BY <2>1, ConstantWords DEF Faults
<1> DEFINE e == Then(Exec, rest)
           d == Then(StoreTo(b), e)
<1>1. CASE script = Then(set_mem_u32_aligned(b, w), rest)
  <2>1. IsScript(Then(Data0(w), d))
    BY StoreScript
  <2>0. script = Then(Prog("get_set_u32"), Then(Data0(w), d))
    BY <1>1, StoreScript
  <2> HIDE DEF d
  <2>2. /\ script' = Then(Data0(w), d) /\ progbuf' = "get_set_u32"
        /\ data0' \in {data0, AppWord} /\ command' \in {command, "transfer"}
        /\ UNCHANGED <<mem, gpr, data1, autoexec, cmder, got, handlerVars>>
    BY <2>0, <2>1, ProgStep
  <2> QED
    BY <1>0, <2>2 DEF Storing, d
<1>2. CASE script = Then(Data0(w), d) /\ progbuf = "get_set_u32"
  <2>1. IsScript(d)
    BY StoreScript
  <2> HIDE DEF d
  <2>2. /\ script' = d /\ Touch(w)
        /\ UNCHANGED <<gpr, progbuf, command, autoexec, got, handlerVars>>
    BY <1>2, <2>1, Data0Step
  <2>3. data0' = w /\ UNCHANGED <<mem, data1, cmder>>
    BY <2>2 DEF Touch
  <2> QED
    BY <1>0, <1>2, <2>2, <2>3 DEF Storing, d
<1>3. CASE script = d /\ progbuf = "get_set_u32" /\ data0 = w
  <2>1. IsScript(e)
    BY StoreScript
  <2> HIDE DEF e
  <2>2. /\ script' = e /\ data1' = [addr |-> b, write |-> TRUE]
        /\ UNCHANGED <<mem, gpr, progbuf, data0, command, autoexec, cmder, got, handlerVars>>
    BY <1>3, <2>1, Data1Step DEF LoadFrom, StoreTo
  <2> QED
    BY <1>0, <1>3, <2>2 DEF Storing, e
<1>4. CASE /\ script = e /\ progbuf = "get_set_u32" /\ data0 = w
           /\ data1 = [addr |-> b, write |-> TRUE]
  <2>1. /\ script' = rest /\ command' = "exec" /\ RunProgbuf(data0)
        /\ UNCHANGED <<gpr, progbuf, autoexec, got, handlerVars>>
    BY <1>4, ExecStep
  <2>2. mem' = Stored(mem, b, w) /\ data0' = w /\ UNCHANGED <<data1, cmder>>
    BY <1>0, <1>4, <2>1 DEF RunProgbuf
  <2> QED
    BY <1>0, <2>1, <2>2
<1> QED
  BY <1>1, <1>2, <1>3, <1>4 DEF Storing

-----------------------------------------------------------------------------
(* Reading the one or two words that an access of n bytes at a lies in *)

Covered(a, n) == \A i \in 0..(n - 1) : a + i \in Ram
Crosses(a, n) == Offset(a) + n > 4
Low(a) == MemWord(mem, Aligned(a))
High(a) == MemWord(mem, Aligned(a) + 4)
WordsRead(a, n) == IF Crosses(a, n) THEN <<Low(a), High(a)>> ELSE <<Low(a)>>
SecondRead(a, n, rest) ==
  IF Crosses(a, n) THEN Then(get_mem_u32_aligned(Aligned(a) + 4), rest) ELSE rest

Reading(a, n, rest) ==
  \/ Fetching(Aligned(a), SecondRead(a, n, rest)) /\ got = <<>>
  \/ Crosses(a, n) /\ Fetching(Aligned(a) + 4, rest) /\ got = <<Low(a)>>

\* RAM is made of whole words.
LEMMA WordsCovered ==
  ASSUME NEW a \in Nat, NEW n \in {1, 2, 4}, Covered(a, n)
  PROVE  /\ WordAt(Aligned(a)) /\ a \in Ram
         /\ Crosses(a, n) => WordAt(Aligned(a) + 4)
<1>1. a + 0 \in Ram /\ a + 0 = a /\ a + (n - 1) \in Ram
  BY DEF Covered
<1>2. \A i \in 0..3 : Aligned(a) + i \in Ram /\ Aligned(a + (n - 1)) + i \in Ram
  BY <1>1, DataPacketsAssumption
<1>3. Aligned(a) \in Nat
  BY WordSplit
<1>4. Crosses(a, n) => Aligned(a + (n - 1)) = Aligned(a) + 4
  BY DEF Crosses, Aligned, Offset
<1> QED
  BY <1>1, <1>2, <1>3, <1>4 DEF WordAt

LEMMA ReadOfScript ==
  ASSUME NEW a, NEW n, NEW rest, IsScript(rest)
  PROVE  /\ ReadOf(a, n) \o rest = Then(get_mem_u32_aligned(Aligned(a)), SecondRead(a, n, rest))
         /\ IsScript(SecondRead(a, n, rest))
<1> DEFINE g == get_mem_u32_aligned(Aligned(a))
           h == get_mem_u32_aligned(Aligned(a) + 4)
<1>1. IsScript(g) /\ IsScript(h) /\ IsScript(<<>>)
  BY FetchScript, NoOperation
<1>2. ReadOf(a, n) = IF Crosses(a, n) THEN g \o h ELSE g \o <<>>
  BY DEF ReadOf, Crosses
<1>3. SecondRead(a, n, rest) = IF Crosses(a, n) THEN Then(h, rest) ELSE rest
  BY DEF SecondRead
<1> HIDE DEF g, h
<1>4. Then(g \o h, rest) = Then(g, Then(h, rest))
  BY <1>1, ThenThen
<1>5. Then(g \o <<>>, rest) = Then(g, rest)
  <2>1. Then(g, <<>>) = g
    BY <1>1, ThenNothing
  <2> QED
    BY <2>1 DEF Then
<1>6. IsScript(Then(h, rest))
  BY <1>1, ThenIsScript
<1>7. ReadOf(a, n) \o rest = Then(ReadOf(a, n), rest)
  BY DEF Then
<1>8. CASE Crosses(a, n)
  BY <1>2, <1>3, <1>4, <1>6, <1>7, <1>8 DEF g
<1>9. CASE ~Crosses(a, n)
  BY <1>2, <1>3, <1>5, <1>7, <1>9 DEF g
<1> QED
  BY <1>8, <1>9

LEMMA AppendOne ==
  ASSUME NEW x, NEW y
  PROVE  Append(<<x>>, y) = <<x, y>>
<1>1. <<x>> \in Seq({x, y}) /\ <<x, y>> \in Seq({x, y}) /\ Len(<<x>>) = 1
  OBVIOUS
<1>2. /\ Append(<<x>>, y) \in Seq({x, y}) /\ Len(Append(<<x>>, y)) = 2
      /\ \A i \in 1..1 : Append(<<x>>, y)[i] = <<x>>[i]
      /\ Append(<<x>>, y)[2] = y
  BY <1>1, AppendProperties
<1>3. Len(<<x, y>>) = 2 /\ \A i \in 1..2 : Append(<<x>>, y)[i] = <<x, y>>[i]
  BY <1>2
<1> QED
  BY <1>1, <1>2, <1>3, SeqEqual

LEMMA ReadingStep ==
  ASSUME NEW a \in Nat, NEW n \in {1, 2, 4}, Covered(a, n), NEW rest, IsScript(rest),
         Clean, PortTypes, MemTyped, Reading(a, n, rest), Operation
  PROVE  /\ Clean' /\ PortTypes' /\ UNCHANGED <<mem, gpr, handlerVars>>
         /\ \/ Reading(a, n, rest)'
            \/ script' = rest /\ got' = WordsRead(a, n)
<1>1. WordAt(Aligned(a)) /\ (Crosses(a, n) => WordAt(Aligned(a) + 4))
  BY WordsCovered
<1>2. CASE Fetching(Aligned(a), SecondRead(a, n, rest)) /\ got = <<>>
  <2> DEFINE next == SecondRead(a, n, rest)
             b == Aligned(a)
  <2>1. IsScript(next) /\ WordAt(b) /\ Fetching(b, next)
    BY <1>1, <1>2, ReadOfScript
  <2>2. next = IF Crosses(a, n) THEN Then(get_mem_u32_aligned(b + 4), rest) ELSE rest
    BY DEF SecondRead
  <2> HIDE DEF next, b
  <2>3. /\ Clean' /\ PortTypes' /\ UNCHANGED <<mem, gpr, handlerVars>>
        /\ \/ Fetching(b, next)' /\ got' = got
           \/ script' = next /\ got' = Append(got, MemWord(mem, b))
    BY <2>1, FetchStep
  <2>4. CASE Fetching(b, next)' /\ got' = got
    BY <1>2, <2>3, <2>4 DEF Reading, next, b
  <2>5. CASE script' = next /\ got' = Append(got, MemWord(mem, b))
    <3>1. got' = <<Low(a)>> /\ Low(a)' = Low(a)
      BY <1>2, <2>3, <2>5 DEF Low, b
    <3>2. CASE Crosses(a, n)
      <4>1. Fetching(b + 4, rest)'
        BY <2>2, <2>5, <3>2 DEF Fetching
      <4> QED
        BY <2>3, <3>1, <3>2, <4>1 DEF Reading, b
    <3>3. CASE ~Crosses(a, n)
      BY <2>2, <2>3, <2>5, <3>1, <3>3 DEF WordsRead
    <3> QED
      BY <3>2, <3>3
  <2> QED
    BY <2>3, <2>4, <2>5
<1>3. CASE Crosses(a, n) /\ Fetching(Aligned(a) + 4, rest) /\ got = <<Low(a)>>
  <2> DEFINE b == Aligned(a) + 4
  <2>1. WordAt(b) /\ Fetching(b, rest)
    BY <1>1, <1>3
  <2> HIDE DEF b
  <2>2. /\ Clean' /\ PortTypes' /\ UNCHANGED <<mem, gpr, handlerVars>>
        /\ \/ Fetching(b, rest)' /\ got' = got
           \/ script' = rest /\ got' = Append(got, MemWord(mem, b))
    BY <2>1, FetchStep
  <2>3. Low(a)' = Low(a)
    BY <2>2 DEF Low
  <2>4. CASE Fetching(b, rest)' /\ got' = got
    BY <1>3, <2>2, <2>3, <2>4 DEF Reading, b
  <2>5. CASE script' = rest /\ got' = Append(got, MemWord(mem, b))
    <3>1. got' = <<Low(a), High(a)>>
      BY <1>3, <2>5, AppendOne DEF High, b
    <3> QED
      BY <1>3, <2>2, <2>5, <3>1 DEF WordsRead
  <2> QED
    BY <2>2, <2>4, <2>5
<1> QED
  BY <1>2, <1>3 DEF Reading

LEMMA WordsReadTyped ==
  ASSUME NEW a \in Nat, NEW n \in {1, 2, 4}, Covered(a, n), MemTyped
  PROVE  /\ Low(a) \in Word /\ WordsRead(a, n) \in Seq(Word)
         /\ Crosses(a, n) => High(a) \in Word
<1>1. WordAt(Aligned(a)) /\ (Crosses(a, n) => WordAt(Aligned(a) + 4))
  BY WordsCovered
<1>2. Low(a) \in Word /\ (Crosses(a, n) => High(a) \in Word)
  BY <1>1, MemWordTyped DEF MemTyped, Low, High
<1> QED
  BY <1>2 DEF WordsRead

-----------------------------------------------------------------------------
(* The bytes read are put in the answer *)

Kind(n) == IF n = 4 THEN "u32" ELSE IF n = 2 THEN "u16" ELSE "u8"
PutOf(a, n) == Put(Kind(n), Offset(a))
ReadBytes(a, n) == [i \in 1..n |-> mem[a + i - 1]]

LEMMA PutStep ==
  ASSUME NEW kind, NEW offset, script = Put(kind, offset), Operation
  PROVE  /\ script' = <<>> /\ got' = <<>>
         /\ LET hi == IF Len(got) > 1 THEN got[2] ELSE ZeroWord
            IN  reply' = reply \o
                  (CASE kind = "u32" -> Bytes(Read32(got[1], hi, offset), 4)
                     [] kind = "u16" -> Bytes(Read16(got[1], hi, offset), 2)
                     [] kind = "u8" -> Bytes(Read8(got[1], offset), 1)
                     [] kind = "blob" -> Blob(got))
         /\ UNCHANGED <<mem, gpr, dmVars, at, left, status, histVars>>
<1> DEFINE op == [do |-> "put", kind |-> kind, offset |-> offset]
<1>1. IsScript(<<op>>) /\ IsScript(<<>>) /\ Then(<<op>>, <<>>) = <<op>>
  BY OneOperation, NoOperation, ThenNothing
<1>2. Head(script) = op /\ Tail(script) = <<>>
  BY <1>1, First DEF Put
<1>3. op.do = "put" /\ op.kind = kind /\ op.offset = offset
  OBVIOUS
<1> HIDE DEF op
<1>4. PutReply
  BY <1>2, <1>3, WhichOperation
<1> QED
  BY <1>2, <1>3, <1>4 DEF PutReply, Following

\* What get_mem_u32, _u16 and _u8 return is the bytes at the address.
LEMMA AnswerOfWords ==
  ASSUME NEW a \in Nat, NEW n \in {1, 2, 4}, Covered(a, n), MemTyped,
         script = PutOf(a, n), got = WordsRead(a, n), Operation
  PROVE  /\ script' = <<>> /\ got' = <<>> /\ reply' = reply \o ReadBytes(a, n)
         /\ UNCHANGED <<mem, gpr, dmVars, at, left, status, histVars>>
<1> DEFINE k == Offset(a)
           hi == IF Len(got) > 1 THEN got[2] ELSE ZeroWord
           lo == got[1]
<1>1. /\ script' = <<>> /\ got' = <<>>
      /\ reply' = reply \o
           (CASE Kind(n) = "u32" -> Bytes(Read32(lo, hi, k), 4)
              [] Kind(n) = "u16" -> Bytes(Read16(lo, hi, k), 2)
              [] Kind(n) = "u8" -> Bytes(Read8(lo, k), 1)
              [] Kind(n) = "blob" -> Blob(got))
      /\ UNCHANGED <<mem, gpr, dmVars, at, left, status, histVars>>
  BY PutStep DEF PutOf
<1>2. lo = Low(a) /\ (Crosses(a, n) => hi = High(a)) /\ k \in 0..3
  BY WordSplit DEF WordsRead
<1>3. /\ \A i \in 0..3 : Read32(Low(a), High(a), k)[i] = mem[a + i]
      /\ \A i \in 0..1 : Read16(Low(a), High(a), k)[i] = mem[a + i]
      /\ Read8(Low(a), k)[0] = mem[a]
  BY UnalignedReadIsExact DEF Low, High
<1> HIDE DEF lo, hi
<1>4. CASE n = 4
  <2>1. Read32(lo, hi, k) = Read32(Low(a), High(a), k)
    BY <1>2, <1>4 DEF Read32, Crosses
  <2>2. Bytes(Read32(lo, hi, k), 4) = ReadBytes(a, n)
    <3>1. \A i \in 1..4 : Read32(lo, hi, k)[i - 1] = mem[a + i - 1]
      BY <1>3, <2>1
    <3> QED
      BY <1>4, <3>1 DEF Bytes, ReadBytes
  <2>3. Kind(n) = "u32"
    BY <1>4 DEF Kind
  <2> QED
    BY <1>1, <2>2, <2>3
<1>5. CASE n = 2
  <2>1. Read16(lo, hi, k) = Read16(Low(a), High(a), k)
    BY <1>2, <1>5 DEF Read16, Crosses
  <2>2. Bytes(Read16(lo, hi, k), 2) = ReadBytes(a, n)
    <3>1. \A i \in 1..2 : Read16(lo, hi, k)[i - 1] = mem[a + i - 1]
      BY <1>3, <2>1
    <3> QED
      BY <1>5, <3>1 DEF Bytes, ReadBytes
  <2>3. Kind(n) = "u16"
    BY <1>5 DEF Kind
  <2> QED
    BY <1>1, <2>2, <2>3
<1>6. CASE n = 1
  <2>2. Bytes(Read8(lo, k), 1) = ReadBytes(a, n)
    <3>1. \A i \in 1..1 : Read8(lo, k)[i - 1] = mem[a + i - 1]
      BY <1>2, <1>3
    <3> QED
      BY <1>6, <3>1 DEF Bytes, ReadBytes
  <2>3. Kind(n) = "u8"
    BY <1>6 DEF Kind
  <2> QED
    BY <1>1, <2>2, <2>3
<1> QED
  BY <1>1, <1>4, <1>5, <1>6

LEMMA FunctionIsSeq ==
  ASSUME NEW n \in Nat, NEW S, NEW s \in [1..n -> S]
  PROVE  s \in Seq(S) /\ Len(s) = n
OBVIOUS

LEMMA SameSeq ==
  ASSUME NEW S, NEW s \in Seq(S), NEW t \in Seq(S), NEW n \in Nat, Len(s) = n, Len(t) = n,
         \A i \in 1..n : s[i] = t[i]
  PROVE  s = t
OBVIOUS

\* The bytes from b on, k of them and then n more.
LEMMA BytesJoin ==
  ASSUME NEW f, NEW b \in Nat, NEW k \in Nat, NEW n \in Nat
  PROVE  [i \in 1..k |-> f[b + i - 1]] \o [i \in 1..n |-> f[b + k + i - 1]] =
           [i \in 1..(k + n) |-> f[b + i - 1]]
<1> DEFINE S == {f[b + i - 1] : i \in 1..(k + n)}
           s == [i \in 1..k |-> f[b + i - 1]]
           t == [i \in 1..n |-> f[b + k + i - 1]]
           u == [i \in 1..(k + n) |-> f[b + i - 1]]
<1>1. \A i \in 1..n : b + k + i - 1 = b + (k + i) - 1 /\ k + i \in 1..(k + n)
  OBVIOUS
<1>5. \A j \in 1..(k + n) : f[b + j - 1] \in S
  OBVIOUS
<1> HIDE DEF S
<1>6. s \in [1..k -> S] /\ t \in [1..n -> S] /\ u \in [1..(k + n) -> S]
  BY <1>1, <1>5
<1>2. s \in Seq(S) /\ t \in Seq(S) /\ u \in Seq(S) /\ Len(s) = k /\ Len(t) = n /\ Len(u) = k + n
  <2>1. k + n \in Nat
    OBVIOUS
  <2> HIDE DEF s, t, u
  <2> QED
    BY <1>6, <2>1, FunctionIsSeq
<1>3. /\ s \o t \in Seq(S) /\ Len(s \o t) = k + n
      /\ \A i \in 1..(k + n) : (s \o t)[i] = IF i <= k THEN s[i] ELSE t[i - k]
  BY <1>2, ConcatProperties
<1>4. \A i \in 1..(k + n) : (s \o t)[i] = u[i]
  <2> SUFFICES ASSUME NEW i \in 1..(k + n) PROVE (s \o t)[i] = u[i]
    OBVIOUS
  <2>1. CASE i <= k
    BY <1>3, <2>1
  <2>2. CASE i > k
    <3>1. i - k \in 1..n /\ b + k + (i - k) - 1 = b + i - 1 /\ ~(i <= k)
      BY <2>2
    <3>2. t[i - k] = f[b + k + (i - k) - 1]
      BY <3>1
    <3> QED
      BY <1>3, <3>1, <3>2
  <2> QED
    BY <2>1, <2>2
<1>7. k + n \in Nat
  OBVIOUS
<1>8. s \o t = u
  <2> HIDE DEF s, t, u
  <2> QED
    BY <1>2, <1>3, <1>4, <1>7, SameSeq
<1> QED
  BY <1>8, Zenon

-----------------------------------------------------------------------------
(* Memory with n bytes written at a *)

Patch(m, a, n, w) == [x \in Ram |-> IF x - a \in 0..(n - 1) THEN w[x - a] ELSE m[x]]
\* A value of n bytes in a word.
Value(w, n) == w \in Word /\ \A i \in n..3 : w[i] = Zero

LEMMA PatchTyped ==
  ASSUME NEW m \in [Ram -> Byte], NEW a \in Nat, NEW n \in 0..4, NEW w \in Word
  PROVE  Patch(m, a, n, w) \in [Ram -> Byte]
<1> SUFFICES ASSUME NEW x \in Ram
             PROVE  (IF x - a \in 0..(n - 1) THEN w[x - a] ELSE m[x]) \in Byte
  BY DEF Patch
<1>1. x - a \in 0..(n - 1) => x - a \in 0..3
  OBVIOUS
<1> QED
  BY <1>1 DEF Word

LEMMA PatchNone ==
  ASSUME NEW m \in [Ram -> Byte], NEW a \in Nat, NEW w
  PROVE  Patch(m, a, 0, w) = m
BY RamIsNat DEF Patch

LEMMA OrTyped ==
  ASSUME NEW v \in Word, NEW w \in Word
  PROVE  Or(v, w) \in Word
BY ConstantWords DEF Or, Word

LEMMA ShiftTyped ==
  ASSUME NEW w \in Word, NEW n \in Nat, NEW bytes
  PROVE  Shr(w, n) \in Word /\ Shl(w, n) \in Word /\ Keep(w, bytes) \in Word
<1>1. Zero \in Byte /\ \A i \in 0..3 : w[i] \in Byte
  BY ConstantWords DEF Word
<1>2. \A i \in 0..3 : (i + n <= 3 => i + n \in 0..3) /\ (i - n >= 0 => i - n \in 0..3)
  OBVIOUS
<1>3. Shr(w, n) \in Word
  BY <1>1, <1>2 DEF Shr, Word
<1>4. Shl(w, n) \in Word
  BY <1>1, <1>2 DEF Shl, Word
<1>5. Keep(w, bytes) \in Word
  BY <1>1 DEF Keep, Word
<1> QED
  BY <1>3, <1>4, <1>5

LEMMA PartsTyped ==
  ASSUME NEW v \in Word, NEW w \in Word, NEW k \in 0..3
  PROVE  /\ Low32(v, w, k) \in Word /\ High32(v, w, k) \in Word
         /\ Low16(v, w, k) \in Word /\ High16(v, w) \in Word /\ Low8(v, w, k) \in Word
<1>1. k \in Nat /\ 4 - k \in Nat /\ 1 \in Nat
  OBVIOUS
<1>2. Shl(w, k) \in Word /\ Shr(w, 4 - k) \in Word /\ Shr(w, 1) \in Word
  BY <1>1, ShiftTyped
<1>3. \A bytes : Keep(v, bytes) \in Word
  BY <1>1, ShiftTyped
<1> QED
  BY <1>2, <1>3, OrTyped DEF Low32, High32, Low16, High16, Low8

LEMMA PatchWord ==
  ASSUME NEW m, NEW b \in Nat, NEW w
  PROVE  Stored(m, b, w) = Patch(m, b, 4, w)
BY DEF Stored, Patch

\* The first word of an unaligned 32-bit write holds its first bytes.
LEMMA PatchLow32 ==
  ASSUME NEW m, NEW a \in Nat, NEW w, Offset(a) # 0
  PROVE  Stored(m, Aligned(a), Low32(MemWord(m, Aligned(a)), w, Offset(a))) =
           Patch(m, a, 4 - Offset(a), w)
<1> DEFINE b == Aligned(a)
           k == Offset(a)
           lo == Low32(MemWord(m, b), w, k)
<1>1. k \in 1..3 /\ b \in Nat /\ a = b + k
  BY WordSplit
<1>2. ASSUME NEW i \in 0..3
      PROVE  lo[i] = IF i < k THEN m[b + i] ELSE w[i - k]
  <2>1. Keep(MemWord(m, b), 0..(k - 1))[i] = IF i < k THEN m[b + i] ELSE Zero
    BY <1>1 DEF Keep, MemWord
  <2>2. Shl(w, k)[i] = IF i < k THEN Zero ELSE w[i - k]
    BY <1>1 DEF Shl
  <2> QED
    BY <2>1, <2>2, OrZero DEF Low32
<1> HIDE DEF b, k, lo
<1>3. ASSUME NEW x \in Ram
      PROVE  Stored(m, b, lo)[x] = IF x - a \in 0..(4 - k - 1) THEN w[x - a] ELSE m[x]
  <2>1. Stored(m, b, lo)[x] = IF x - b \in 0..3 THEN lo[x - b] ELSE m[x]
    BY <1>1, StoredAt
  <2>2. x \in Nat /\ b + (x - b) = x /\ (x - b) - k = x - a
    BY <1>1, RamIsNat
  <2>3. x - a \in 0..(4 - k - 1) <=> x - b \in 0..3 /\ ~(x - b < k)
    BY <1>1, <2>2
  <2>4. CASE x - b \in 0..3
    BY <1>2, <2>1, <2>2, <2>3, <2>4
  <2>5. CASE x - b \notin 0..3
    BY <2>1, <2>3, <2>5
  <2> QED
    BY <2>4, <2>5
<1>4. Stored(m, b, lo) = [x \in Ram |-> Stored(m, b, lo)[x]]
  BY DEF Stored
<1>5. Stored(m, b, lo) = Patch(m, a, 4 - k, w)
  BY <1>3, <1>4 DEF Patch
<1> QED
  BY <1>5 DEF b, k, lo

LEMMA PatchBoth32 ==
  ASSUME NEW m, NEW a \in Nat, NEW w, Offset(a) # 0, WordAt(Aligned(a)), WordAt(Aligned(a) + 4)
  PROVE  Stored(Patch(m, a, 4 - Offset(a), w), Aligned(a) + 4,
                High32(MemWord(m, Aligned(a) + 4), w, Offset(a))) = Patch(m, a, 4, w)
<1> DEFINE b == Aligned(a)
           k == Offset(a)
           lo == Low32(MemWord(m, b), w, k)
           hi == High32(MemWord(m, b + 4), w, k)
           both == Stored(Stored(m, b, lo), b + 4, hi)
<1>1. \A i \in 0..3 : Aligned(a) + i \in Ram /\ Aligned(a) + 4 + i \in Ram
  BY DEF WordAt
<1>2. \A x \in Ram : both[x] = IF x - a \in 0..3 THEN w[x - a] ELSE m[x]
  BY <1>1, UnalignedWriteIsExact
<1>3. both = [x \in Ram |-> both[x]]
  BY DEF Stored
<1>4. Stored(m, b, lo) = Patch(m, a, 4 - k, w)
  BY PatchLow32
<1> HIDE DEF both
<1>5. both = Patch(m, a, 4, w)
  BY <1>2, <1>3 DEF Patch
<1> QED
  BY <1>4, <1>5 DEF both

LEMMA PatchLow8 ==
  ASSUME NEW m, NEW a \in Nat, NEW w, Value(w, 1)
  PROVE  Stored(m, Aligned(a), Low8(MemWord(m, Aligned(a)), w, Offset(a))) = Patch(m, a, 1, w)
<1> DEFINE s == Stored(m, Aligned(a), Low8(MemWord(m, Aligned(a)), w, Offset(a)))
<1>1. \A x \in Ram : s[x] = IF x = a THEN w[0] ELSE m[x]
  BY ByteWriteIsExact DEF Value
<1>2. s = [x \in Ram |-> s[x]]
  BY DEF Stored
<1>3. \A x \in Ram : /\ x - a \in 0..(1 - 1) <=> x = a
                     /\ x = a => x - a = 0
  <2> SUFFICES ASSUME NEW x \in Ram
               PROVE  (x - a \in 0..(1 - 1) <=> x = a) /\ (x = a => x - a = 0)
    OBVIOUS
  <2>1. x \in Nat
    BY RamIsNat
  <2> QED
    BY <2>1
<1> HIDE DEF s
<1>4. s = Patch(m, a, 1, w)
  BY <1>1, <1>2, <1>3 DEF Patch
<1> QED
  BY <1>4 DEF s

\* The first word of a 16-bit write holds both its bytes, or the first one.
LEMMA PatchLow16 ==
  ASSUME NEW m, NEW a \in Nat, NEW w, Value(w, 2), WordAt(Aligned(a))
  PROVE  Stored(m, Aligned(a), Low16(MemWord(m, Aligned(a)), w, Offset(a))) =
           Patch(m, a, IF Offset(a) = 3 THEN 1 ELSE 2, w)
<1> DEFINE b == Aligned(a)
           k == Offset(a)
           lo == Low16(MemWord(m, b), w, k)
           n == IF k = 3 THEN 1 ELSE 2
<1>1. k \in 0..3 /\ b \in Nat /\ a = b + k
  BY WordSplit
<1>2. ASSUME NEW i \in 0..3
      PROVE  lo[i] = IF i = k \/ i = k + 1 THEN w[i - k] ELSE m[b + i]
  <2>1. Keep(MemWord(m, b), (0..3) \ {k, k + 1})[i] =
          IF i = k \/ i = k + 1 THEN Zero ELSE m[b + i]
    BY <1>1 DEF Keep, MemWord
  <2>2. Shl(w, k)[i] = IF i < k THEN Zero ELSE w[i - k]
    BY <1>1 DEF Shl
  <2>3. i > k + 1 => w[i - k] = Zero
    BY <1>1 DEF Value
  <2>4. (i = k \/ i = k + 1) => Shl(w, k)[i] = w[i - k]
    BY <1>1, <2>2
  <2>5. ~(i = k \/ i = k + 1) => Shl(w, k)[i] = Zero
    BY <1>1, <2>2, <2>3
  <2> QED
    BY <2>1, <2>4, <2>5, OrZero DEF Low16
<1> HIDE DEF b, k, lo
<1>3. ASSUME NEW x \in Ram
      PROVE  Stored(m, b, lo)[x] = IF x - a \in 0..(n - 1) THEN w[x - a] ELSE m[x]
  <2>1. Stored(m, b, lo)[x] = IF x - b \in 0..3 THEN lo[x - b] ELSE m[x]
    BY <1>1, StoredAt
  <2>2. x \in Nat /\ b + (x - b) = x /\ (x - b) - k = x - a
    BY <1>1, RamIsNat
  <2>3. x - a \in 0..(n - 1) <=> x - b \in 0..3 /\ (x - b = k \/ x - b = k + 1)
    BY <1>1, <2>2
  <2>4. CASE x - b \in 0..3
    BY <1>2, <2>1, <2>2, <2>3, <2>4
  <2>5. CASE x - b \notin 0..3
    BY <2>1, <2>3, <2>5
  <2> QED
    BY <2>4, <2>5
<1>4. Stored(m, b, lo) = [x \in Ram |-> Stored(m, b, lo)[x]]
  BY DEF Stored
<1> HIDE DEF n
<1>5. Stored(m, b, lo) = Patch(m, a, n, w)
  BY <1>3, <1>4 DEF Patch
<1> QED
  BY <1>5 DEF b, k, lo, n

LEMMA PatchBoth16 ==
  ASSUME NEW m, NEW a \in Nat, NEW w, Value(w, 2), WordAt(Aligned(a)), Offset(a) = 3
  PROVE  Stored(Patch(m, a, 1, w), Aligned(a) + 4, High16(MemWord(m, Aligned(a) + 4), w)) =
           Patch(m, a, 2, w)
<1> DEFINE b == Aligned(a)
           k == Offset(a)
           once == Stored(m, b, Low16(MemWord(m, b), w, k))
           hi == High16(MemWord(m, b + 4), w)
           both == Stored(once, b + 4, hi)
<1>1. (\A i \in 0..3 : Aligned(a) + i \in Ram) /\ (\A i \in 2..3 : w[i] = Zero)
  BY DEF WordAt, Value
<1>2. \A x \in Ram : (IF k = 3 THEN both ELSE once)[x] = IF x - a \in 0..1 THEN w[x - a] ELSE m[x]
  BY <1>1, HalfwordWriteIsExact
<1>3. both = [x \in Ram |-> both[x]]
  BY DEF Stored
<1>4. once = Patch(m, a, 1, w)
  BY PatchLow16
<1> HIDE DEF both
<1>5. k = 3 /\ 0..(2 - 1) = 0..1
  OBVIOUS
<1> HIDE DEF once, k
<1>6. both = Patch(m, a, 2, w)
  BY <1>2, <1>3, <1>5 DEF Patch
<1> QED
  BY <1>4, <1>6 DEF both, once

\* The word after the one that was patched is as it was.
LEMMA NextWordKept ==
  ASSUME NEW m, NEW a \in Nat, NEW n \in Nat, NEW w, Offset(a) + n <= 4, WordAt(Aligned(a) + 4)
  PROVE  MemWord(Patch(m, a, n, w), Aligned(a) + 4) = MemWord(m, Aligned(a) + 4)
<1> DEFINE b == Aligned(a)
           k == Offset(a)
<1>1. k \in 0..3 /\ b \in Nat /\ a = b + k
  BY WordSplit
<1>2. ASSUME NEW i \in 0..3
      PROVE  Patch(m, a, n, w)[b + 4 + i] = m[b + 4 + i]
  <2>1. b + 4 + i \in Ram
    BY DEF WordAt
  <2>2. (b + 4 + i) - a \notin 0..(n - 1)
    BY <1>1
  <2> QED
    BY <2>1, <2>2 DEF Patch
<1> QED
  BY <1>2 DEF MemWord

-----------------------------------------------------------------------------
(* Writing n bytes at a: m is the memory before *)

Low32Of(m, a, w) == Low32(MemWord(m, Aligned(a)), w, Offset(a))
High32Of(m, a, w) == High32(MemWord(m, Aligned(a) + 4), w, Offset(a))
Low16Of(m, a, w) == Low16(MemWord(m, Aligned(a)), w, Offset(a))
High16Of(m, a, w) == High16(MemWord(m, Aligned(a) + 4), w)
Low8Of(m, a, w) == Low8(MemWord(m, Aligned(a)), w, Offset(a))

LEMMA ModifyStep ==
  ASSUME NEW a, NEW n, NEW w, NEW rest, IsScript(rest), script = Then(Modify(a, n, w), rest),
         Operation
  PROVE  /\ got' = <<>> /\ UNCHANGED <<mem, gpr, dmVars, handlerVars>>
         /\ n = 4 =>
              script' = Then(set_mem_u32_aligned(Aligned(a), Low32(got[1], w, Offset(a))),
                             Then(set_mem_u32_aligned(Aligned(a) + 4, High32(got[2], w, Offset(a))),
                                  rest))
         /\ n = 2 =>
              script' = Then(set_mem_u32_aligned(Aligned(a), Low16(got[1], w, Offset(a))), rest)
         /\ n = 1 =>
              script' = Then(set_mem_u32_aligned(Aligned(a), Low8(got[1], w, Offset(a))), rest)
<1> DEFINE op == [do |-> "modify", addr |-> a, size |-> n, word |-> w]
           s == set_mem_u32_aligned(Aligned(a), Low32(got[1], w, Offset(a)))
           t == set_mem_u32_aligned(Aligned(a) + 4, High32(got[2], w, Offset(a)))
           u == set_mem_u32_aligned(Aligned(a), Low16(got[1], w, Offset(a)))
           v == set_mem_u32_aligned(Aligned(a), Low8(got[1], w, Offset(a)))
<1>1. Head(script) = op /\ Tail(script) = rest
  BY First DEF Modify
<1>2. op.do = "modify" /\ op.addr = a /\ op.size = n /\ op.word = w
  OBVIOUS
<1> HIDE DEF op
<1>3. ModifyWords
  BY <1>1, <1>2, WhichOperation
<1>4. script' = (IF n = 4 THEN s \o t ELSE IF n = 2 THEN u ELSE v) \o rest
  <2>1. script' =
          (IF op.size = 4
           THEN set_mem_u32_aligned(Aligned(op.addr), Low32(got[1], op.word, Offset(op.addr)))
                  \o set_mem_u32_aligned(Aligned(op.addr) + 4,
                                         High32(got[2], op.word, Offset(op.addr)))
           ELSE set_mem_u32_aligned(Aligned(op.addr),
                                    IF op.size = 2 THEN Low16(got[1], op.word, Offset(op.addr))
                                    ELSE Low8(got[1], op.word, Offset(op.addr)))) \o rest
    BY <1>1, <1>3 DEF ModifyWords
  <2>2. CASE n = 4
    BY <1>2, <2>1, <2>2
  <2>3. CASE n = 2
    BY <1>2, <2>1, <2>3
  <2>4. CASE n # 4 /\ n # 2
    BY <1>2, <2>1, <2>4
  <2> QED
    BY <2>2, <2>3, <2>4
<1>5. got' = <<>> /\ UNCHANGED <<mem, gpr, dmVars, handlerVars>>
  BY <1>3 DEF ModifyWords
<1>6. IsScript(s) /\ IsScript(t)
  BY StoreScript
<1> HIDE DEF s, t, u, v
<1>7. Then(s \o t, rest) = Then(s, Then(t, rest))
  BY <1>6, ThenThen
<1>8. script' = Then(IF n = 4 THEN s \o t ELSE IF n = 2 THEN u ELSE v, rest)
  BY <1>4 DEF Then
<1>9. /\ n = 4 => script' = Then(s, Then(t, rest))
      /\ n = 2 => script' = Then(u, rest)
      /\ n = 1 => script' = Then(v, rest)
  BY <1>7, <1>8
<1> QED
  BY <1>5, <1>9 DEF s, t, u, v

LEMMA ModifyHighStep ==
  ASSUME NEW a, NEW w, script = Modify16High(a, w), Operation
  PROVE  /\ got' = <<>> /\ UNCHANGED <<mem, gpr, dmVars, handlerVars>>
         /\ script' = Then(set_mem_u32_aligned(Aligned(a) + 4, High16(got[1], w)), <<>>)
<1> DEFINE op == [do |-> "modify16high", addr |-> a, word |-> w]
<1>1. IsScript(<<op>>) /\ IsScript(<<>>) /\ Then(<<op>>, <<>>) = <<op>>
  BY OneOperation, NoOperation, ThenNothing
<1>2. Head(script) = op /\ Tail(script) = <<>>
  BY <1>1, First DEF Modify16High
<1>3. op.do = "modify16high" /\ op.addr = a /\ op.word = w
  OBVIOUS
<1> HIDE DEF op
<1>4. ModifyHigh
  BY <1>2, <1>3, WhichOperation
<1> QED
  BY <1>2, <1>3, <1>4 DEF ModifyHigh, Then

\* set_mem_u32 at an aligned address.
WritingWord(a, w, m) == Storing(a, w, <<>>) /\ got = <<>> /\ mem = m

LEMMA WritingWordStep ==
  ASSUME NEW a, WordAt(a), NEW w \in Word, NEW m, Clean, PortTypes,
         WritingWord(a, w, m), Operation
  PROVE  /\ Clean' /\ PortTypes' /\ UNCHANGED <<gpr, handlerVars>>
         /\ \/ WritingWord(a, w, m)'
            \/ script' = <<>> /\ got' = <<>> /\ mem' = Patch(m, a, 4, w)
<1>1. IsScript(<<>>) /\ a \in Nat
  BY NoOperation DEF WordAt
<1>2. /\ Clean' /\ PortTypes' /\ UNCHANGED <<gpr, got, handlerVars>>
      /\ \/ Storing(a, w, <<>>)' /\ mem' = mem
         \/ script' = <<>> /\ mem' = Stored(mem, a, w)
  BY <1>1, StoreStep DEF WritingWord
<1> QED
  BY <1>1, <1>2, PatchWord DEF WritingWord

\* set_mem_u8.
Writing8(a, w, m) ==
  \/ Reading(a, 1, Modify(a, 1, w)) /\ mem = m
  \/ script = Modify(a, 1, w) /\ got = WordsRead(a, 1) /\ mem = m
  \/ Storing(Aligned(a), Low8Of(m, a, w), <<>>) /\ got = <<>> /\ mem = m

LEMMA ModifyScripts ==
  ASSUME NEW a, NEW n, NEW w
  PROVE  /\ IsScript(Modify(a, n, w)) /\ Then(Modify(a, n, w), <<>>) = Modify(a, n, w)
         /\ IsScript(Modify16High(a, w)) /\ IsScript(<<>>)
BY OneOperation, NoOperation, ThenNothing DEF Modify, Modify16High

LEMMA Writing8Step ==
  ASSUME NEW a \in Nat, Covered(a, 1), NEW w, Value(w, 1), NEW m \in [Ram -> Byte],
         Clean, PortTypes, Writing8(a, w, m), Operation
  PROVE  /\ Clean' /\ PortTypes' /\ UNCHANGED <<gpr, handlerVars>>
         /\ \/ Writing8(a, w, m)'
            \/ script' = <<>> /\ got' = <<>> /\ mem' = Patch(m, a, 1, w)
<1>1. /\ IsScript(Modify(a, 1, w)) /\ IsScript(<<>>)
      /\ Then(Modify(a, 1, w), <<>>) = Modify(a, 1, w)
  BY ModifyScripts
<1>2. WordAt(Aligned(a)) /\ Aligned(a) \in Nat /\ Offset(a) \in 0..3
  BY WordsCovered, WordSplit
<1>3. mem = m => MemTyped
  BY DEF MemTyped
<1>4. CASE Reading(a, 1, Modify(a, 1, w)) /\ mem = m
  <2>1. /\ Clean' /\ PortTypes' /\ UNCHANGED <<mem, gpr, handlerVars>>
        /\ \/ Reading(a, 1, Modify(a, 1, w))'
           \/ script' = Modify(a, 1, w) /\ got' = WordsRead(a, 1)
    BY <1>1, <1>3, <1>4, ReadingStep
  <2>2. WordsRead(a, 1)' = WordsRead(a, 1)
    BY <2>1 DEF WordsRead, Low, High
  <2> QED
    BY <1>4, <2>1, <2>2 DEF Writing8
<1>5. CASE script = Modify(a, 1, w) /\ got = WordsRead(a, 1) /\ mem = m
  <2>1. script = Then(Modify(a, 1, w), <<>>)
    BY <1>1, <1>5
  <2>2. /\ got' = <<>> /\ UNCHANGED <<mem, gpr, dmVars, handlerVars>>
        /\ script' = Then(set_mem_u32_aligned(Aligned(a), Low8(got[1], w, Offset(a))), <<>>)
    BY <1>1, <2>1, ModifyStep
  <2>3. got[1] = MemWord(m, Aligned(a))
    BY <1>5 DEF WordsRead, Low
  <2>4. script' = Then(set_mem_u32_aligned(Aligned(a), Low8Of(m, a, w)), <<>>)
    BY <2>2, <2>3 DEF Low8Of
  <2>5. Clean' /\ PortTypes' /\ UNCHANGED <<gpr, handlerVars>>
    BY <2>2 DEF Clean, PortTypes, dmVars
  <2> QED
    BY <1>5, <2>2, <2>4, <2>5 DEF Writing8, Storing
<1>6. CASE Storing(Aligned(a), Low8Of(m, a, w), <<>>) /\ got = <<>> /\ mem = m
  <2> DEFINE b == Aligned(a)
             v == Low8Of(m, a, w)
  <2>1. v \in Word
    BY <1>2, MemWordTyped, PartsTyped DEF Value, Low8Of
  <2>2. Stored(m, b, v) = Patch(m, a, 1, w)
    BY PatchLow8 DEF Low8Of
  <2>3. Storing(b, v, <<>>) /\ WordAt(b)
    BY <1>2, <1>6
  <2> HIDE DEF b, v
  <2>4. /\ Clean' /\ PortTypes' /\ UNCHANGED <<gpr, got, handlerVars>>
        /\ \/ Storing(b, v, <<>>)' /\ mem' = mem
           \/ script' = <<>> /\ mem' = Stored(mem, b, v)
    BY <1>1, <2>1, <2>3, StoreStep
  <2> QED
    BY <1>6, <2>2, <2>4 DEF Writing8, b, v
<1> QED
  BY <1>4, <1>5, <1>6 DEF Writing8

\* set_mem_u32 at any other address.
Writing32(a, w, m) ==
  \/ Reading(a, 4, Modify(a, 4, w)) /\ mem = m
  \/ script = Modify(a, 4, w) /\ got = WordsRead(a, 4) /\ mem = m
  \/ /\ Storing(Aligned(a), Low32Of(m, a, w),
                Then(set_mem_u32_aligned(Aligned(a) + 4, High32Of(m, a, w)), <<>>))
     /\ got = <<>> /\ mem = m
  \/ /\ Storing(Aligned(a) + 4, High32Of(m, a, w), <<>>)
     /\ got = <<>> /\ mem = Patch(m, a, 4 - Offset(a), w)

LEMMA Writing32Step ==
  ASSUME NEW a \in Nat, Covered(a, 4), Offset(a) # 0, NEW w \in Word, NEW m \in [Ram -> Byte],
         Clean, PortTypes, Writing32(a, w, m), Operation
  PROVE  /\ Clean' /\ PortTypes' /\ UNCHANGED <<gpr, handlerVars>>
         /\ \/ Writing32(a, w, m)'
            \/ script' = <<>> /\ got' = <<>> /\ mem' = Patch(m, a, 4, w)
<1> DEFINE b == Aligned(a)
           c == Aligned(a) + 4
           lo == Low32Of(m, a, w)
           hi == High32Of(m, a, w)
           second == Then(set_mem_u32_aligned(c, hi), <<>>)
           half == Patch(m, a, 4 - Offset(a), w)
<1>1. /\ IsScript(Modify(a, 4, w)) /\ IsScript(<<>>)
      /\ Then(Modify(a, 4, w), <<>>) = Modify(a, 4, w)
  BY ModifyScripts
<1>2. Crosses(a, 4) /\ Offset(a) \in 0..3
  BY WordSplit DEF Crosses
<1>3. WordAt(b) /\ WordAt(c)
  BY <1>2, WordsCovered
<1>4. mem = m => MemTyped
  BY DEF MemTyped
<1>5. lo \in Word /\ hi \in Word
  BY <1>2, <1>3, MemWordTyped, PartsTyped DEF Low32Of, High32Of
<1>6. IsScript(second)
  BY <1>1, StoreScript, ThenIsScript
<1>7. Stored(m, b, lo) = half
  BY PatchLow32 DEF Low32Of
<1>8. Stored(half, c, hi) = Patch(m, a, 4, w)
  BY <1>3, PatchBoth32 DEF High32Of
<1>9. CASE Reading(a, 4, Modify(a, 4, w)) /\ mem = m
  <2>1. /\ Clean' /\ PortTypes' /\ UNCHANGED <<mem, gpr, handlerVars>>
        /\ \/ Reading(a, 4, Modify(a, 4, w))'
           \/ script' = Modify(a, 4, w) /\ got' = WordsRead(a, 4)
    BY <1>1, <1>4, <1>9, ReadingStep
  <2>2. WordsRead(a, 4)' = WordsRead(a, 4)
    BY <2>1 DEF WordsRead, Low, High
  <2> QED
    BY <1>9, <2>1, <2>2 DEF Writing32
<1>10. CASE script = Modify(a, 4, w) /\ got = WordsRead(a, 4) /\ mem = m
  <2>1. script = Then(Modify(a, 4, w), <<>>)
    BY <1>1, <1>10
  <2>2. /\ got' = <<>> /\ UNCHANGED <<mem, gpr, dmVars, handlerVars>>
        /\ script' = Then(set_mem_u32_aligned(b, Low32(got[1], w, Offset(a))),
                          Then(set_mem_u32_aligned(c, High32(got[2], w, Offset(a))), <<>>))
    BY <1>1, <2>1, ModifyStep
  <2>3. got[1] = MemWord(m, b) /\ got[2] = MemWord(m, c)
    BY <1>2, <1>10 DEF WordsRead, Low, High
  <2>4. script' = Then(set_mem_u32_aligned(b, lo), second)
    BY <2>2, <2>3 DEF Low32Of, High32Of
  <2>5. Clean' /\ PortTypes' /\ UNCHANGED <<gpr, handlerVars>>
    BY <2>2 DEF Clean, PortTypes, dmVars
  <2> QED
    BY <1>10, <2>2, <2>4, <2>5 DEF Writing32, Storing
<1> HIDE DEF b, c, lo, hi, half
<1>11. CASE Storing(b, lo, second) /\ got = <<>> /\ mem = m
  <2> HIDE DEF second
  <2>1. /\ Clean' /\ PortTypes' /\ UNCHANGED <<gpr, got, handlerVars>>
        /\ \/ Storing(b, lo, second)' /\ mem' = mem
           \/ script' = second /\ mem' = Stored(mem, b, lo)
    BY <1>3, <1>5, <1>6, <1>11, StoreStep
  <2>2. CASE Storing(b, lo, second)' /\ mem' = mem
    BY <1>11, <2>1, <2>2 DEF Writing32, b, c, lo, hi, second
  <2>3. CASE script' = second /\ mem' = Stored(mem, b, lo)
    <3>1. Storing(c, hi, <<>>)'
      BY <2>3 DEF Storing, second
    <3>2. mem' = half /\ got' = <<>>
      BY <1>7, <1>11, <2>1, <2>3
    <3> QED
      BY <2>1, <3>1, <3>2 DEF Writing32, c, hi, half
  <2> QED
    BY <2>1, <2>2, <2>3
<1>12. CASE Storing(c, hi, <<>>) /\ got = <<>> /\ mem = half
  <2>1. /\ Clean' /\ PortTypes' /\ UNCHANGED <<gpr, got, handlerVars>>
        /\ \/ Storing(c, hi, <<>>)' /\ mem' = mem
           \/ script' = <<>> /\ mem' = Stored(mem, c, hi)
    BY <1>1, <1>3, <1>5, <1>12, StoreStep
  <2> QED
    BY <1>8, <1>12, <2>1 DEF Writing32, c, hi, half
<1> QED
  BY <1>9, <1>10, <1>11, <1>12 DEF Writing32, b, c, lo, hi, second, half

\* set_mem_u16.
HighPart(a, w) ==
  IF Offset(a) = 3 THEN Then(get_mem_u32_aligned(Aligned(a) + 4), Modify16High(a, w)) ELSE <<>>
Writing16(a, w, m) ==
  \/ /\ Fetching(Aligned(a), Then(Modify(a, 2, w), HighPart(a, w)))
     /\ got = <<>> /\ mem = m
  \/ /\ script = Then(Modify(a, 2, w), HighPart(a, w))
     /\ got = <<MemWord(m, Aligned(a))>> /\ mem = m
  \/ Storing(Aligned(a), Low16Of(m, a, w), HighPart(a, w)) /\ got = <<>> /\ mem = m
  \/ /\ Offset(a) = 3 /\ mem = Patch(m, a, 1, w)
     /\ \/ Fetching(Aligned(a) + 4, Modify16High(a, w)) /\ got = <<>>
        \/ script = Modify16High(a, w) /\ got = <<MemWord(m, Aligned(a) + 4)>>
        \/ Storing(Aligned(a) + 4, High16Of(m, a, w), <<>>) /\ got = <<>>

LEMMA AppendNone == \A x : Append(<<>>, x) = <<x>>
OBVIOUS

LEMMA HighPartScript ==
  ASSUME NEW a, NEW w
  PROVE  /\ IsScript(HighPart(a, w))
         /\ IsScript(Then(Modify(a, 2, w), HighPart(a, w)))
<1>1. IsScript(get_mem_u32_aligned(Aligned(a) + 4)) /\ IsScript(Modify16High(a, w))
  BY FetchScript, ModifyScripts
<1>2. IsScript(Then(get_mem_u32_aligned(Aligned(a) + 4), Modify16High(a, w)))
  BY <1>1, ThenIsScript
<1>3. IsScript(HighPart(a, w))
  BY <1>2, NoOperation DEF HighPart
<1> QED
  BY <1>3, ModifyScripts, ThenIsScript

LEMMA Writing16Step ==
  ASSUME NEW a \in Nat, Covered(a, 2), NEW w, Value(w, 2), NEW m \in [Ram -> Byte],
         Clean, PortTypes, Writing16(a, w, m), Operation
  PROVE  /\ Clean' /\ PortTypes' /\ UNCHANGED <<gpr, handlerVars>>
         /\ \/ Writing16(a, w, m)'
            \/ script' = <<>> /\ got' = <<>> /\ mem' = Patch(m, a, 2, w)
<1> DEFINE b == Aligned(a)
           c == Aligned(a) + 4
           lo == Low16Of(m, a, w)
           hi == High16Of(m, a, w)
           part == HighPart(a, w)
           rest == Then(Modify(a, 2, w), part)
           high == Modify16High(a, w)
           one == Patch(m, a, 1, w)
<1>1. IsScript(part) /\ IsScript(rest) /\ IsScript(high) /\ IsScript(<<>>)
  BY HighPartScript, ModifyScripts
<1>2. Offset(a) \in 0..3 /\ w \in Word /\ (Offset(a) = 3 => Crosses(a, 2))
  BY WordSplit DEF Crosses, Value
<1>3. WordAt(b) /\ (Offset(a) = 3 => WordAt(c))
  BY <1>2, WordsCovered
<1>4. (mem = m => MemTyped) /\ (mem = one => MemTyped)
  BY <1>2, PatchTyped DEF MemTyped
<1>5. lo \in Word /\ (Offset(a) = 3 => hi \in Word)
  BY <1>2, <1>3, MemWordTyped, PartsTyped DEF Low16Of, High16Of
<1>6. part = IF Offset(a) = 3 THEN Then(get_mem_u32_aligned(c), high) ELSE <<>>
  BY DEF HighPart
<1>7. Stored(m, b, lo) = IF Offset(a) = 3 THEN one ELSE Patch(m, a, 2, w)
  BY <1>3, PatchLow16 DEF Low16Of
<1>8. Offset(a) = 3 => Stored(one, c, hi) = Patch(m, a, 2, w)
  BY <1>3, PatchBoth16 DEF High16Of
<1>9. Offset(a) = 3 => MemWord(one, c) = MemWord(m, c)
  BY <1>3, NextWordKept
<1>10. ASSUME script = rest, got = <<MemWord(m, b)>>, mem = m
       PROVE  /\ Clean' /\ PortTypes' /\ UNCHANGED <<gpr, handlerVars>>
              /\ Writing16(a, w, m)'
  <2>1. /\ got' = <<>> /\ UNCHANGED <<mem, gpr, dmVars, handlerVars>>
        /\ script' = Then(set_mem_u32_aligned(b, Low16(got[1], w, Offset(a))), part)
    BY <1>1, <1>10, ModifyStep
  <2>2. script' = Then(set_mem_u32_aligned(b, lo), part)
    BY <1>10, <2>1 DEF Low16Of
  <2>3. Clean' /\ PortTypes' /\ UNCHANGED <<gpr, handlerVars>>
    BY <2>1 DEF Clean, PortTypes, dmVars
  <2> QED
    BY <1>10, <2>1, <2>2, <2>3 DEF Writing16, Storing
<1>11. ASSUME Offset(a) = 3, mem = one, script = high, got = <<MemWord(m, c)>>
       PROVE  /\ Clean' /\ PortTypes' /\ UNCHANGED <<gpr, handlerVars>>
              /\ Writing16(a, w, m)'
  <2>1. /\ got' = <<>> /\ UNCHANGED <<mem, gpr, dmVars, handlerVars>>
        /\ script' = Then(set_mem_u32_aligned(c, High16(got[1], w)), <<>>)
    BY <1>11, ModifyHighStep
  <2>2. script' = Then(set_mem_u32_aligned(c, hi), <<>>)
    BY <1>11, <2>1 DEF High16Of
  <2>3. Clean' /\ PortTypes' /\ UNCHANGED <<gpr, handlerVars>>
    BY <2>1 DEF Clean, PortTypes, dmVars
  <2> QED
    BY <1>11, <2>1, <2>2, <2>3 DEF Writing16, Storing
<1> HIDE DEF b, c, lo, hi, part, rest, high, one
<1>12. CASE Fetching(b, rest) /\ got = <<>> /\ mem = m
  <2>1. /\ Clean' /\ PortTypes' /\ UNCHANGED <<mem, gpr, handlerVars>>
        /\ \/ Fetching(b, rest)' /\ got' = got
           \/ script' = rest /\ got' = Append(got, MemWord(mem, b))
    BY <1>1, <1>3, <1>4, <1>12, FetchStep
  <2>2. CASE Fetching(b, rest)' /\ got' = got
    BY <1>12, <2>1, <2>2 DEF Writing16, b, rest, part
  <2>3. CASE script' = rest /\ got' = Append(got, MemWord(mem, b))
    <3>1. got' = <<MemWord(m, b)>> /\ mem' = m
      BY <1>12, <2>1, <2>3, AppendNone
    <3> QED
      BY <2>1, <2>3, <3>1 DEF Writing16, b, rest, part
  <2> QED
    BY <2>1, <2>2, <2>3
<1>13. CASE Storing(b, lo, part) /\ got = <<>> /\ mem = m
  <2>1. /\ Clean' /\ PortTypes' /\ UNCHANGED <<gpr, got, handlerVars>>
        /\ \/ Storing(b, lo, part)' /\ mem' = mem
           \/ script' = part /\ mem' = Stored(mem, b, lo)
    BY <1>1, <1>3, <1>5, <1>13, StoreStep
  <2>2. CASE Storing(b, lo, part)' /\ mem' = mem
    BY <1>13, <2>1, <2>2 DEF Writing16, b, lo, part
  <2>3. CASE script' = part /\ mem' = Stored(mem, b, lo)
    <3>1. CASE Offset(a) = 3
      <4>1. Fetching(c, high)' /\ mem' = one /\ got' = <<>>
        BY <1>6, <1>7, <1>13, <2>1, <2>3, <3>1 DEF Fetching
      <4> QED
        BY <2>1, <3>1, <4>1 DEF Writing16, c, high, one
    <3>2. CASE Offset(a) # 3
      BY <1>6, <1>7, <1>13, <2>1, <2>3, <3>2
    <3> QED
      BY <3>1, <3>2
  <2> QED
    BY <2>1, <2>2, <2>3
<1>14. CASE Offset(a) = 3 /\ mem = one /\ Fetching(c, high) /\ got = <<>>
  <2>1. /\ Clean' /\ PortTypes' /\ UNCHANGED <<mem, gpr, handlerVars>>
        /\ \/ Fetching(c, high)' /\ got' = got
           \/ script' = high /\ got' = Append(got, MemWord(mem, c))
    BY <1>1, <1>3, <1>4, <1>14, FetchStep
  <2>2. CASE Fetching(c, high)' /\ got' = got
    BY <1>14, <2>1, <2>2 DEF Writing16, c, high, one
  <2>3. CASE script' = high /\ got' = Append(got, MemWord(mem, c))
    <3>1. got' = <<MemWord(m, c)>> /\ mem' = one
      BY <1>9, <1>14, <2>1, <2>3, AppendNone
    <3> QED
      BY <1>14, <2>1, <2>3, <3>1 DEF Writing16, c, high, one
  <2> QED
    BY <2>1, <2>2, <2>3
<1>15. CASE Offset(a) = 3 /\ mem = one /\ Storing(c, hi, <<>>) /\ got = <<>>
  <2>1. /\ Clean' /\ PortTypes' /\ UNCHANGED <<gpr, got, handlerVars>>
        /\ \/ Storing(c, hi, <<>>)' /\ mem' = mem
           \/ script' = <<>> /\ mem' = Stored(mem, c, hi)
    BY <1>1, <1>3, <1>5, <1>15, StoreStep
  <2> QED
    BY <1>8, <1>15, <2>1 DEF Writing16, c, hi, one
<1>16. \/ Fetching(b, rest) /\ got = <<>> /\ mem = m
       \/ script = rest /\ got = <<MemWord(m, b)>> /\ mem = m
       \/ Storing(b, lo, part) /\ got = <<>> /\ mem = m
       \/ Offset(a) = 3 /\ mem = one /\ Fetching(c, high) /\ got = <<>>
       \/ Offset(a) = 3 /\ mem = one /\ script = high /\ got = <<MemWord(m, c)>>
       \/ Offset(a) = 3 /\ mem = one /\ Storing(c, hi, <<>>) /\ got = <<>>
  BY DEF Writing16, b, c, lo, hi, part, rest, high, one
<1> QED
  BY <1>10, <1>11, <1>12, <1>13, <1>14, <1>15, <1>16

-----------------------------------------------------------------------------
(* Any of the writes *)

Writing(a, n, w, m) ==
  \/ n = 4 /\ Offset(a) = 0 /\ WritingWord(a, w, m)
  \/ n = 4 /\ Offset(a) # 0 /\ Writing32(a, w, m)
  \/ n = 2 /\ Writing16(a, w, m)
  \/ n = 1 /\ Writing8(a, w, m)

LEMMA WritingStep ==
  ASSUME NEW a \in Nat, NEW n \in {1, 2, 4}, Covered(a, n), NEW w, Value(w, n),
         NEW m \in [Ram -> Byte], Clean, PortTypes, Writing(a, n, w, m), Operation
  PROVE  /\ Clean' /\ PortTypes' /\ UNCHANGED <<gpr, handlerVars>>
         /\ \/ Writing(a, n, w, m)'
            \/ script' = <<>> /\ got' = <<>> /\ mem' = Patch(m, a, n, w)
<1>0. w \in Word
  BY DEF Value
<1>1. CASE n = 4 /\ Offset(a) = 0 /\ WritingWord(a, w, m)
  <2>1. Aligned(a) = a /\ WordAt(Aligned(a))
    BY <1>1, WordsCovered DEF Aligned, Offset
  <2>2. WordAt(a)
    BY <2>1
  <2> QED
    BY <1>0, <1>1, <2>2, WritingWordStep DEF Writing
<1>2. CASE n = 4 /\ Offset(a) # 0 /\ Writing32(a, w, m)
  BY <1>0, <1>2, Writing32Step DEF Writing
<1>3. CASE n = 2 /\ Writing16(a, w, m)
  BY <1>3, Writing16Step DEF Writing
<1>4. CASE n = 1 /\ Writing8(a, w, m)
  BY <1>4, Writing8Step DEF Writing
<1> QED
  BY <1>1, <1>2, <1>3, <1>4 DEF Writing

LEMMA FetchingRuns ==
  ASSUME NEW b, NEW rest, IsScript(rest), Fetching(b, rest)
  PROVE  script # <<>>
<1>1. Then(get_mem_u32_aligned(b), rest) # <<>>
  <2>1. /\ Then(get_mem_u32_aligned(b), rest) =
             Then(Prog("get_set_u32"), Then(LoadFrom(b), Then(Exec, Then(Get, rest))))
        /\ IsScript(Then(LoadFrom(b), Then(Exec, Then(Get, rest))))
    BY FetchScript
  <2> QED
    BY <2>1, First DEF Prog
<1>2. Then(LoadFrom(b), Then(Exec, Then(Get, rest))) # <<>>
  BY FetchScript, First DEF LoadFrom, Data1
<1>3. Then(Exec, Then(Get, rest)) # <<>>
  BY FetchScript, First DEF Exec
<1>4. Then(Get, rest) # <<>>
  BY First DEF Get
<1> QED
  BY <1>1, <1>2, <1>3, <1>4 DEF Fetching

LEMMA StoringRuns ==
  ASSUME NEW b, NEW w, NEW rest, IsScript(rest), Storing(b, w, rest)
  PROVE  script # <<>>
<1>1. Then(set_mem_u32_aligned(b, w), rest) # <<>>
  <2>1. /\ Then(set_mem_u32_aligned(b, w), rest) =
             Then(Prog("get_set_u32"), Then(Data0(w), Then(StoreTo(b), Then(Exec, rest))))
        /\ IsScript(Then(Data0(w), Then(StoreTo(b), Then(Exec, rest))))
    BY StoreScript
  <2> QED
    BY <2>1, First DEF Prog
<1>2. Then(Data0(w), Then(StoreTo(b), Then(Exec, rest))) # <<>>
  BY StoreScript, First DEF Data0
<1>3. Then(StoreTo(b), Then(Exec, rest)) # <<>>
  BY StoreScript, First DEF StoreTo, Data1
<1>4. Then(Exec, rest) # <<>>
  BY First DEF Exec
<1> QED
  BY <1>1, <1>2, <1>3, <1>4 DEF Storing

LEMMA ReadingRuns ==
  ASSUME NEW a \in Nat, NEW n \in {1, 2, 4}, Covered(a, n), NEW rest, IsScript(rest), MemTyped,
         Reading(a, n, rest)
  PROVE  script # <<>> /\ got \in Seq(Word)
<1>1. Low(a) \in Word
  BY WordsReadTyped
<1>2. got = <<>> \/ got = <<Low(a)>>
  BY DEF Reading
<1>3. <<>> \in Seq(Word) /\ <<Low(a)>> \in Seq(Word)
  BY <1>1
<1>4. got \in Seq(Word)
  BY <1>2, <1>3
<1> QED
  BY <1>4, FetchingRuns, ReadOfScript DEF Reading

\* While a write runs, the memory is the one before with the first bytes written.
LEMMA WritingRuns ==
  ASSUME NEW a \in Nat, NEW n \in {1, 2, 4}, Covered(a, n), NEW w, Value(w, n),
         NEW m \in [Ram -> Byte], Writing(a, n, w, m)
  PROVE  /\ script # <<>> /\ got \in Seq(Word)
         /\ \E j \in 0..n : mem = Patch(m, a, j, w)
<1>0. /\ IsScript(Modify(a, n, w)) /\ IsScript(<<>>) /\ Modify(a, n, w) # <<>>
      /\ Modify16High(a, w) # <<>> /\ IsScript(Modify16High(a, w))
  BY ModifyScripts DEF Modify, Modify16High
<1>1. mem = m => mem = Patch(m, a, 0, w) /\ MemTyped
  BY PatchNone DEF MemTyped
<1>2. <<>> \in Seq(Word) /\ 0 \in 0..n
  OBVIOUS
<1>3. WordAt(Aligned(a)) /\ (Crosses(a, n) => WordAt(Aligned(a) + 4)) /\ Offset(a) \in 0..3
  BY WordsCovered, WordSplit
<1>4. CASE n = 4 /\ Offset(a) = 0 /\ WritingWord(a, w, m)
  BY <1>0, <1>1, <1>2, <1>4, StoringRuns DEF WritingWord
<1>5. CASE n = 4 /\ Offset(a) # 0 /\ Writing32(a, w, m)
  <2> DEFINE second == Then(set_mem_u32_aligned(Aligned(a) + 4, High32Of(m, a, w)), <<>>)
             half == Patch(m, a, 4 - Offset(a), w)
  <2>1. IsScript(second)
    BY <1>0, StoreScript, ThenIsScript
  <2>2. 4 - Offset(a) \in 0..n
    BY <1>3, <1>5
  <2> HIDE DEF second, half
  <2>3. CASE Reading(a, 4, Modify(a, 4, w)) /\ mem = m
    BY <1>0, <1>1, <1>2, <1>5, <2>3, ReadingRuns
  <2>4. CASE script = Modify(a, 4, w) /\ got = WordsRead(a, 4) /\ mem = m
    BY <1>0, <1>1, <1>2, <1>5, <2>4, WordsReadTyped
  <2>5. CASE Storing(Aligned(a), Low32Of(m, a, w), second) /\ got = <<>> /\ mem = m
    BY <1>1, <1>2, <2>1, <2>5, StoringRuns
  <2>6. CASE Storing(Aligned(a) + 4, High32Of(m, a, w), <<>>) /\ got = <<>> /\ mem = half
    BY <1>0, <1>2, <2>2, <2>6, StoringRuns DEF half
  <2> QED
    BY <1>5, <2>3, <2>4, <2>5, <2>6 DEF Writing32, second, half
<1>6. CASE n = 2 /\ Writing16(a, w, m)
  <2> DEFINE part == HighPart(a, w)
             rest == Then(Modify(a, 2, w), part)
  <2>1. IsScript(part) /\ IsScript(rest)
    BY HighPartScript
  <2>2. rest # <<>>
    BY <2>1, First DEF Modify
  <2>3. /\ <<MemWord(m, Aligned(a))>> \in Seq(Word)
        /\ Offset(a) = 3 => <<MemWord(m, Aligned(a) + 4)>> \in Seq(Word)
    BY <1>3, <1>6, MemWordTyped DEF Crosses
  <2>4. 1 \in 0..n
    OBVIOUS
  <2> HIDE DEF part, rest
  <2>5. CASE Fetching(Aligned(a), rest) /\ got = <<>> /\ mem = m
    BY <1>1, <1>2, <2>1, <2>5, FetchingRuns
  <2>6. CASE script = rest /\ got = <<MemWord(m, Aligned(a))>> /\ mem = m
    BY <1>1, <1>2, <2>2, <2>3, <2>6
  <2>7. CASE Storing(Aligned(a), Low16Of(m, a, w), part) /\ got = <<>> /\ mem = m
    BY <1>1, <1>2, <2>1, <2>7, StoringRuns
  <2>8. CASE /\ Offset(a) = 3 /\ mem = Patch(m, a, 1, w)
             /\ Fetching(Aligned(a) + 4, Modify16High(a, w)) /\ got = <<>>
    BY <1>0, <1>2, <2>4, <2>8, FetchingRuns
  <2>9. CASE /\ Offset(a) = 3 /\ mem = Patch(m, a, 1, w)
             /\ script = Modify16High(a, w) /\ got = <<MemWord(m, Aligned(a) + 4)>>
    BY <1>0, <2>3, <2>4, <2>9
  <2>10. CASE /\ Offset(a) = 3 /\ mem = Patch(m, a, 1, w)
              /\ Storing(Aligned(a) + 4, High16Of(m, a, w), <<>>) /\ got = <<>>
    BY <1>0, <1>2, <2>4, <2>10, StoringRuns
  <2> QED
    BY <1>6, <2>5, <2>6, <2>7, <2>8, <2>9, <2>10 DEF Writing16, part, rest
<1>7. CASE n = 1 /\ Writing8(a, w, m)
  <2>1. CASE Reading(a, 1, Modify(a, 1, w)) /\ mem = m
    BY <1>0, <1>1, <1>2, <1>7, <2>1, ReadingRuns
  <2>2. CASE script = Modify(a, 1, w) /\ got = WordsRead(a, 1) /\ mem = m
    BY <1>0, <1>1, <1>2, <1>7, <2>2, WordsReadTyped
  <2>3. CASE Storing(Aligned(a), Low8Of(m, a, w), <<>>) /\ got = <<>> /\ mem = m
    BY <1>0, <1>1, <1>2, <2>3, StoringRuns
  <2> QED
    BY <1>7, <2>1, <2>2, <2>3 DEF Writing8
<1> QED
  BY <1>4, <1>5, <1>6, <1>7 DEF Writing

\* The operations of set_mem_u32, _u16 and _u8 start the write.
LEMMA WritingStarts ==
  ASSUME NEW a \in Nat, NEW n \in {1, 2, 4}, NEW w, NEW m,
         script' = set_mem(a, n, w), got' = <<>>, mem' = m
  PROVE  Writing(a, n, w, m)'
<1>1. /\ IsScript(Modify(a, n, w)) /\ IsScript(Modify16High(a, w)) /\ IsScript(<<>>)
      /\ IsScript(get_mem_u32_aligned(Aligned(a))) /\ IsScript(set_mem_u32_aligned(a, w))
      /\ IsScript(HighPart(a, w))
  BY ModifyScripts, FetchScript, StoreScript, HighPartScript
<1>2. CASE n = 4 /\ Offset(a) = 0
  <2>1. script' = Then(set_mem_u32_aligned(a, w), <<>>)
    BY <1>1, <1>2, ThenNothing DEF set_mem
  <2> QED
    BY <1>2, <2>1 DEF Writing, WritingWord, Storing
<1>3. CASE n = 2
  <2> DEFINE g == get_mem_u32_aligned(Aligned(a))
             part == HighPart(a, w)
  <2>1. script' = (g \o Modify(a, 2, w)) \o part
    BY <1>3 DEF set_mem, HighPart, Then
  <2>2. IsScript(g) /\ IsScript(part) /\ IsScript(Modify(a, 2, w))
    BY <1>1, <1>3
  <2> HIDE DEF g, part
  <2>3. script' = Then(g, Then(Modify(a, 2, w), part))
    <3>1. Then(g \o Modify(a, 2, w), part) = Then(g, Then(Modify(a, 2, w), part))
      BY <2>2, ThenThen
    <3> QED
      BY <2>1, <3>1 DEF Then
  <2> QED
    BY <1>3, <2>3 DEF Writing, Writing16, Fetching, g, part
<1>4. CASE n = 1 \/ (n = 4 /\ Offset(a) # 0)
  <2>1. script' = ReadOf(a, n) \o Modify(a, n, w)
    <3>1. ~(n = 4 /\ Offset(a) = 0) /\ n # 2
      BY <1>4
    <3> QED
      BY <3>1, Zenon DEF set_mem
  <2>2. script' = Then(get_mem_u32_aligned(Aligned(a)), SecondRead(a, n, Modify(a, n, w)))
    BY <1>1, <2>1, ReadOfScript
  <2>3. Reading(a, n, Modify(a, n, w))'
    BY <2>2 DEF Reading, Fetching
  <2> QED
    BY <1>4, <2>3 DEF Writing, Writing8, Writing32
<1> QED
  BY <1>2, <1>3, <1>4
-----------------------------------------------------------------------------
(* Block transfers *)

AutoOn == SwitchAuto(TRUE)
AutoOff == SwitchAuto(FALSE)

LEMMA AutoScripts == IsScript(AutoOn) /\ IsScript(AutoOff)
<1>1. \A op : IsScript(<<op>>)
  BY OneOperation
<1> QED
  BY <1>1, Zenon DEF AutoOn, AutoOff, SwitchAuto

LEMMA AutoOnStep ==
  ASSUME NEW rest, IsScript(rest), script = Then(AutoOn, rest), Operation
  PROVE  /\ script' = rest /\ autoexec' = TRUE
         /\ UNCHANGED <<mem, gpr, progbuf, data0, data1, command, cmder, got, handlerVars>>
BY AutoStep, Zenon DEF AutoOn

LEMMA AutoOffStep ==
  ASSUME NEW rest, IsScript(rest), script = Then(AutoOff, rest), Operation
  PROVE  /\ script' = rest /\ autoexec' = FALSE
         /\ UNCHANGED <<mem, gpr, progbuf, data0, data1, command, cmder, got, handlerVars>>
BY AutoStep, Zenon DEF AutoOff

LEMMA AutoOnRuns == ASSUME NEW rest, IsScript(rest) PROVE Then(AutoOn, rest) # <<>> /\ Then(AutoOff, rest) # <<>>
<1>1. \A op : Then(<<op>>, rest) # <<>>
  BY First
<1> QED
  BY <1>1, Zenon DEF AutoOn, AutoOff, SwitchAuto

\* k reads of DATA0, and then the rest.
Gets(k) == [i \in 1..k |-> Get[1]]

LEMMA GetsScript ==
  ASSUME NEW k \in Nat, NEW rest, IsScript(rest)
  PROVE  /\ IsScript(Gets(k)) /\ IsScript(Then(Gets(k), rest))
         /\ Then(Gets(0), rest) = rest
         /\ Then(Gets(k + 1), rest) = Then(Get, Then(Gets(k), rest))
<1> DEFINE f == [i \in Nat |-> Get[1]]
<1>1. /\ IsScript([i \in 1..k |-> f[i]])
      /\ [i \in 1..(k + 1) |-> f[i]] = <<f[1]>> \o [i \in 1..k |-> f[i + 1]]
  BY Row
<1>2. /\ [i \in 1..k |-> f[i]] = Gets(k) /\ [i \in 1..k |-> f[i + 1]] = Gets(k)
      /\ [i \in 1..(k + 1) |-> f[i]] = Gets(k + 1)
  BY DEF Gets
<1>3. <<f[1]>> = Get
  BY DEF Get
<1> HIDE DEF f
<1>4. IsScript(Gets(k)) /\ Gets(k + 1) = Get \o Gets(k)
  BY <1>1, <1>2, <1>3
<1>5. Gets(0) = <<>>
  BY DEF Gets
<1>6. IsScript(Get)
  BY OperationScripts
<1>7. Then(Get \o Gets(k), rest) = Then(Get, Then(Gets(k), rest))
  BY <1>4, <1>6, ThenThen
<1> QED
  BY <1>4, <1>5, <1>7, ThenNothing, ThenIsScript

\* get_block_aligned reads W words at a for the answer.
BlobPut == Put("blob", 0)
BlockEnd == Then(AutoOff, Then(Get, BlobPut))
WordsFrom(a, k) == [i \in 1..k |-> MemWord(mem, a + 4 * (i - 1))]
ReadingBlock(a, W) ==
  \/ /\ script = Then(Prog("get_block_aligned"),
                      Then(LoadFrom(a), Then(Exec, Then(AutoOn, Then(Gets(W - 1), BlockEnd)))))
     /\ Clean /\ got = <<>>
  \/ /\ script = Then(LoadFrom(a), Then(Exec, Then(AutoOn, Then(Gets(W - 1), BlockEnd))))
     /\ Clean /\ got = <<>> /\ progbuf = "get_block_aligned"
  \/ /\ script = Then(Exec, Then(AutoOn, Then(Gets(W - 1), BlockEnd)))
     /\ Clean /\ got = <<>> /\ progbuf = "get_block_aligned"
     /\ data1 = [addr |-> a, write |-> FALSE]
  \/ /\ script = Then(AutoOn, Then(Gets(W - 1), BlockEnd))
     /\ Clean /\ got = <<>> /\ progbuf = "get_block_aligned" /\ command = "exec"
     /\ data1.addr = a + 4 /\ data0 = MemWord(mem, a)
  \/ \E j \in 1..W :
       /\ script = Then(Gets(W - j), BlockEnd)
       /\ autoexec = TRUE /\ cmder = FALSE
       /\ progbuf = "get_block_aligned" /\ command = "exec"
       /\ data1.addr = a + 4 * j /\ data0 = MemWord(mem, a + 4 * (j - 1))
       /\ got = WordsFrom(a, j - 1)
  \/ /\ script = Then(Get, BlobPut)
     /\ Clean /\ got = WordsFrom(a, W - 1) /\ data0 = MemWord(mem, a + 4 * (W - 1))
  \/ script = BlobPut /\ Clean /\ got = WordsFrom(a, W)

LEMMA BlockEndScripts ==
  /\ IsScript(BlobPut) /\ Then(BlobPut, <<>>) = BlobPut /\ BlobPut # <<>>
  /\ IsScript(Then(Get, BlobPut)) /\ IsScript(BlockEnd)
<1>1. /\ IsScript(BlobPut) /\ Then(BlobPut, <<>>) = BlobPut /\ BlobPut # <<>>
  BY OneOperation, ThenNothing DEF BlobPut, Put
<1>2. IsScript(Then(Get, BlobPut))
  BY <1>1, OperationScripts, ThenIsScript
<1>3. IsScript(BlockEnd)
  BY <1>2, AutoScripts, ThenIsScript DEF BlockEnd
<1> QED
  BY <1>1, <1>2, <1>3

LEMMA ReadBlockScript ==
  ASSUME NEW a, NEW W \in Nat \ {0}
  PROVE  /\ get_block_aligned(a, W) \o Put("blob", 0) =
              Then(Prog("get_block_aligned"),
                   Then(LoadFrom(a), Then(Exec, Then(AutoOn, Then(Gets(W - 1), BlockEnd)))))
         /\ IsScript(Then(Gets(W - 1), BlockEnd))
         /\ IsScript(Then(AutoOn, Then(Gets(W - 1), BlockEnd)))
         /\ IsScript(Then(Exec, Then(AutoOn, Then(Gets(W - 1), BlockEnd))))
         /\ IsScript(Then(LoadFrom(a), Then(Exec, Then(AutoOn, Then(Gets(W - 1), BlockEnd)))))
<1> DEFINE p == Prog("get_block_aligned")
           d == LoadFrom(a)
           g == Gets(W - 1)
           start == ((p \o d) \o Exec) \o AutoOn
           reads == start \o g
           off == reads \o AutoOff
           rest == Then(g, BlockEnd)
<1>1. IsScript(p) /\ IsScript(d) /\ IsScript(Exec) /\ IsScript(Get)
  BY OperationScripts
<1>2. IsScript(AutoOn) /\ IsScript(AutoOff)
  BY AutoScripts
<1>3. IsScript(g) /\ IsScript(rest) /\ W - 1 \in Nat
  <2>1. W - 1 \in Nat
    OBVIOUS
  <2> QED
    BY <2>1, GetsScript, BlockEndScripts
<1>4. get_block_aligned(a, W) = off \o Get
  BY DEF get_block_aligned, LoadFrom, AutoOn, AutoOff, Gets
<1> HIDE DEF p, d, g, rest
<1>5. IsScript(start) /\ Then(start, rest) = Then(p, Then(d, Then(Exec, Then(AutoOn, rest))))
  BY <1>1, <1>2, <1>3, ThenFour
<1>9. /\ IsScript(Then(AutoOn, rest)) /\ IsScript(Then(Exec, Then(AutoOn, rest)))
      /\ IsScript(Then(d, Then(Exec, Then(AutoOn, rest))))
  BY <1>1, <1>2, <1>3, ThenIsScript
<1> HIDE DEF start
<1>6. IsScript(reads) /\ Then(reads, BlockEnd) = Then(start, rest)
  <2>1. Then(start \o g, BlockEnd) = Then(start, Then(g, BlockEnd))
    BY <1>3, <1>5, BlockEndScripts, ThenThen
  <2> QED
    BY <1>3, <1>5, <2>1, Chain DEF rest
<1> HIDE DEF reads
<1>7. IsScript(off) /\ Then(off, Then(Get, BlobPut)) = Then(reads, BlockEnd)
  <2>1. Then(reads \o AutoOff, Then(Get, BlobPut)) = Then(reads, Then(AutoOff, Then(Get, BlobPut)))
    BY <1>2, <1>6, BlockEndScripts, ThenThen
  <2> QED
    BY <1>2, <1>6, <2>1, Chain DEF BlockEnd
<1> HIDE DEF off
<1>8. Then(off \o Get, BlobPut) = Then(off, Then(Get, BlobPut))
  BY <1>1, <1>7, BlockEndScripts, ThenThen
<1>10. get_block_aligned(a, W) \o Put("blob", 0) = Then(off \o Get, BlobPut)
  BY <1>4 DEF Then, BlobPut
<1> QED
  BY <1>3, <1>5, <1>6, <1>7, <1>8, <1>9, <1>10 DEF p, d, g, rest

LEMMA BlockWords ==
  ASSUME NEW a \in Nat, NEW W \in Nat \ {0}, Covered(a, 4 * W), NEW j \in 0..(W - 1)
  PROVE  WordAt(a + 4 * j)
<1>1. a + 4 * j \in Nat
  OBVIOUS
<1>2. ASSUME NEW i \in 0..3 PROVE a + 4 * j + i \in Ram
  <2>1. 4 * j + i \in 0..(4 * W - 1) /\ a + 4 * j + i = a + (4 * j + i)
    OBVIOUS
  <2>2. a + (4 * j + i) \in Ram
    BY <2>1 DEF Covered
  <2> QED
    BY <2>1, <2>2
<1> QED
  BY <1>1, <1>2 DEF WordAt

LEMMA WordsFromNext ==
  ASSUME NEW a \in Nat, NEW k \in Nat, MemTyped, \A j \in 0..k : WordAt(a + 4 * j)
  PROVE  /\ WordsFrom(a, k) \in Seq(Word) /\ Len(WordsFrom(a, k)) = k
         /\ Append(WordsFrom(a, k), MemWord(mem, a + 4 * k)) = WordsFrom(a, k + 1)
         /\ WordsFrom(a, k + 1) \in Seq(Word)
<1> DEFINE s == WordsFrom(a, k)
           t == WordsFrom(a, k + 1)
           w == MemWord(mem, a + 4 * k)
<1>1. \A j \in 0..k : MemWord(mem, a + 4 * j) \in Word
  BY MemWordTyped DEF MemTyped
<1>2. ASSUME NEW i \in 1..(k + 1)
      PROVE  MemWord(mem, a + 4 * (i - 1)) \in Word
  <2>1. i - 1 \in 0..k
    OBVIOUS
  <2> QED
    BY <1>1, <2>1
<1>3. s \in [1..k -> Word] /\ t \in [1..(k + 1) -> Word] /\ w \in Word
  BY <1>1, <1>2 DEF WordsFrom
<1>4. /\ \A i \in 1..k : s[i] = t[i]
      /\ t[k + 1] = w
  BY DEF WordsFrom
<1> HIDE DEF s, t, w
<1>5. s \in Seq(Word) /\ Len(s) = k /\ t \in Seq(Word) /\ Len(t) = k + 1
  BY <1>3, FunctionIsSeq
<1>6. /\ Append(s, w) \in Seq(Word) /\ Len(Append(s, w)) = k + 1
      /\ \A i \in 1..k : Append(s, w)[i] = s[i]
      /\ Append(s, w)[k + 1] = w
  BY <1>3, <1>5, AppendProperties
<1>7. \A i \in 1..(k + 1) : Append(s, w)[i] = t[i]
  BY <1>4, <1>6
<1>8. Append(s, w) = t
  BY <1>5, <1>6, <1>7, SeqEqual
<1> QED
  BY <1>5, <1>8 DEF s, t, w

\* The blob of the words is the bytes, in order.
LEMMA BlobOfWords ==
  ASSUME NEW a \in Nat, NEW W \in Nat \ {0}, Len(WordsFrom(a, W)) = W
  PROVE  Blob(WordsFrom(a, W)) = ReadBytes(a, 4 * W)
<1>1. ASSUME NEW i \in 1..(4 * W)
      PROVE  WordsFrom(a, W)[(i + 3) \div 4][(i - 1) % 4] = mem[a + i - 1]
  <2> DEFINE q == (i + 3) \div 4
             r == (i - 1) % 4
  <2>1. q \in 1..W /\ r \in 0..3 /\ a + 4 * (q - 1) + r = a + i - 1
    OBVIOUS
  <2> HIDE DEF q, r
  <2>2. WordsFrom(a, W)[q] = MemWord(mem, a + 4 * (q - 1))
    BY <2>1 DEF WordsFrom
  <2>3. MemWord(mem, a + 4 * (q - 1))[r] = mem[a + 4 * (q - 1) + r]
    BY <2>1 DEF MemWord
  <2> QED
    BY <2>1, <2>2, <2>3 DEF q, r
<1> QED
  BY <1>1 DEF Blob, ReadBytes

LEMMA BlobPutStep ==
  ASSUME NEW a \in Nat, NEW W \in Nat \ {0}, script = BlobPut, got = WordsFrom(a, W),
         Len(WordsFrom(a, W)) = W, Operation
  PROVE  /\ script' = <<>> /\ got' = <<>> /\ reply' = reply \o ReadBytes(a, 4 * W)
         /\ UNCHANGED <<mem, gpr, dmVars, at, left, status, histVars>>
<1> DEFINE kind == "blob"
<1>1. /\ script' = <<>> /\ got' = <<>>
      /\ LET hi == IF Len(got) > 1 THEN got[2] ELSE ZeroWord
         IN  reply' = reply \o
               (CASE kind = "u32" -> Bytes(Read32(got[1], hi, 0), 4)
                  [] kind = "u16" -> Bytes(Read16(got[1], hi, 0), 2)
                  [] kind = "u8" -> Bytes(Read8(got[1], 0), 1)
                  [] kind = "blob" -> Blob(got))
      /\ UNCHANGED <<mem, gpr, dmVars, at, left, status, histVars>>
  BY PutStep DEF BlobPut
<1>2. reply' = reply \o Blob(got)
  BY <1>1
<1> QED
  BY <1>1, <1>2, BlobOfWords

LEMMA ReadingBlockStep ==
  ASSUME NEW a \in Nat, NEW W \in Nat \ {0}, Covered(a, 4 * W), PortTypes, MemTyped,
         ReadingBlock(a, W), Operation
  PROVE  /\ PortTypes' /\ UNCHANGED <<mem, gpr, at, left, status, histVars>>
         /\ \/ ReadingBlock(a, W)' /\ reply' = reply
            \/ /\ script' = <<>> /\ got' = <<>> /\ Clean'
               /\ reply' = reply \o ReadBytes(a, 4 * W)
<1> DEFINE g == Then(Gets(W - 1), BlockEnd)
           e == Then(AutoOn, g)
           d == Then(Exec, e)
           s == Then(LoadFrom(a), d)
           loaded == progbuf = "get_block_aligned"
<1>1. IsScript(g) /\ IsScript(e) /\ IsScript(d) /\ IsScript(s)
  BY ReadBlockScript
<1>2. \A j \in 0..(W - 1) : WordAt(a + 4 * j) /\ MemWord(mem, a + 4 * j) \in Word /\ ~Faults(a + 4 * j)
  BY BlockWords, MemWordTyped DEF MemTyped
<1>3. a + 4 * 0 = a /\ 0 \in 0..(W - 1) /\ W - 1 \in 0..(W - 1)
  OBVIOUS
<1>4. MemWord(mem, a) \in Word /\ ~Faults(a) /\ AppWord \in Word
  <2>1. MemWord(mem, a + 4 * 0) \in Word /\ ~Faults(a + 4 * 0)
    BY <1>2, <1>3
  <2> QED
    BY <1>3, <2>1, ConstantWords
<1>5. ASSUME script = Then(Prog("get_block_aligned"), s), Clean, got = <<>>
      PROVE  /\ PortTypes' /\ UNCHANGED <<mem, gpr, handlerVars>>
             /\ script' = s /\ Clean' /\ got' = <<>> /\ progbuf' = "get_block_aligned"
  <2> HIDE DEF s
  <2>1. /\ script' = s /\ progbuf' = "get_block_aligned"
        /\ data0' \in {data0, AppWord} /\ command' \in {command, "transfer"}
        /\ UNCHANGED <<mem, gpr, data1, autoexec, cmder, got, handlerVars>>
    BY <1>1, <1>5, ProgStep
  <2> QED
    BY <1>4, <1>5, <2>1 DEF PortTypes, Clean
<1>6. ASSUME script = s, Clean, got = <<>>, loaded
      PROVE  /\ PortTypes' /\ UNCHANGED <<mem, gpr, handlerVars>>
             /\ script' = d /\ Clean' /\ got' = <<>> /\ progbuf' = "get_block_aligned"
             /\ data1' = [addr |-> a, write |-> FALSE]
  <2> HIDE DEF d
  <2>1. /\ script' = d /\ data1' = [addr |-> a, write |-> FALSE]
        /\ UNCHANGED <<mem, gpr, progbuf, data0, command, autoexec, cmder, got, handlerVars>>
    BY <1>1, <1>6, Data1Step DEF LoadFrom
  <2> QED
    BY <1>6, <2>1 DEF PortTypes, Clean
<1>7. ASSUME script = d, Clean, got = <<>>, loaded, data1 = [addr |-> a, write |-> FALSE]
      PROVE  /\ PortTypes' /\ UNCHANGED <<mem, gpr, handlerVars>>
             /\ script' = e /\ Clean' /\ got' = <<>> /\ progbuf' = "get_block_aligned"
             /\ command' = "exec" /\ data1'.addr = a + 4 /\ data0' = MemWord(mem, a)
  <2> HIDE DEF e
  <2>1. /\ script' = e /\ command' = "exec" /\ RunProgbuf(data0)
        /\ UNCHANGED <<gpr, progbuf, autoexec, got, handlerVars>>
    BY <1>1, <1>7, ExecStep
  <2>2. /\ mem' = mem /\ data0' = MemWord(mem, a) /\ data1' = [data1 EXCEPT !.addr = a + 4]
        /\ cmder' = cmder
    BY <1>4, <1>7, <2>1 DEF RunProgbuf, Clean
  <2>3. data1' \in [addr : Nat, write : BOOLEAN] /\ data1'.addr = a + 4
    BY <2>2 DEF PortTypes
  <2> QED
    BY <1>4, <1>7, <2>1, <2>2, <2>3 DEF PortTypes, Clean
<1>8. ASSUME script = e, Clean, got = <<>>, loaded, command = "exec", data1.addr = a + 4,
             data0 = MemWord(mem, a)
      PROVE  /\ PortTypes' /\ UNCHANGED <<mem, gpr, handlerVars, progbuf, data0, data1, command>>
             /\ script' = g /\ autoexec' = TRUE /\ cmder' = FALSE /\ got' = <<>>
  <2> HIDE DEF g
  <2>1. /\ script' = g /\ autoexec' = TRUE
        /\ UNCHANGED <<mem, gpr, progbuf, data0, data1, command, cmder, got, handlerVars>>
    BY <1>1, <1>8, AutoOnStep
  <2> QED
    BY <1>8, <2>1 DEF PortTypes, Clean
<1>9. ASSUME NEW j \in 1..W, script = Then(Gets(W - j), BlockEnd), autoexec = TRUE, cmder = FALSE,
             loaded, command = "exec", data1.addr = a + 4 * j,
             data0 = MemWord(mem, a + 4 * (j - 1)), got = WordsFrom(a, j - 1), j # W
      PROVE  /\ PortTypes' /\ UNCHANGED <<mem, gpr, handlerVars>>
             /\ script' = Then(Gets(W - (j + 1)), BlockEnd) /\ autoexec' = TRUE /\ cmder' = FALSE
             /\ progbuf' = "get_block_aligned" /\ command' = "exec"
             /\ data1'.addr = a + 4 * (j + 1) /\ data0' = MemWord(mem, a + 4 * j)
             /\ got' = WordsFrom(a, j)
  <2> DEFINE k == W - (j + 1)
             rest == Then(Gets(k), BlockEnd)
  <2>1. k \in Nat /\ W - j = k + 1 /\ j \in 0..(W - 1) /\ a + 4 * j + 4 = a + 4 * (j + 1)
    BY <1>9
  <2> HIDE DEF k
  <2>2. IsScript(rest) /\ Then(Gets(k + 1), BlockEnd) = Then(Get, rest)
    BY <2>1, GetsScript, BlockEndScripts
  <2> HIDE DEF rest
  <2>3. script = Then(Get, rest)
    BY <1>9, <2>1, <2>2
  <2>4. /\ script' = rest /\ got' = Append(got, data0) /\ Touch(data0)
        /\ UNCHANGED <<gpr, progbuf, command, autoexec, handlerVars>>
    BY <2>2, <2>3, GetStep
  <2>5. RunProgbuf(data0)
    BY <1>9, <2>4 DEF Touch
  <2>6. MemWord(mem, a + 4 * j) \in Word /\ ~Faults(a + 4 * j)
    BY <1>2, <2>1
  <2>7. /\ mem' = mem /\ data0' = MemWord(mem, a + 4 * j) /\ cmder' = cmder
        /\ data1' = [data1 EXCEPT !.addr = a + 4 * j + 4]
    BY <1>9, <2>5, <2>6 DEF RunProgbuf
  <2>8. data1' \in [addr : Nat, write : BOOLEAN] /\ data1'.addr = a + 4 * (j + 1)
    BY <2>1, <2>7 DEF PortTypes
  <2>9. got' = WordsFrom(a, j)
    <3>1. j - 1 \in Nat /\ (j - 1) + 1 = j /\ \A x \in 0..(j - 1) : WordAt(a + 4 * x)
      BY <1>2, <1>9
    <3>2. Append(WordsFrom(a, j - 1), MemWord(mem, a + 4 * (j - 1))) = WordsFrom(a, (j - 1) + 1)
      BY <3>1, WordsFromNext
    <3> QED
      BY <1>9, <2>4, <3>1, <3>2
  <2>10. PortTypes'
    BY <2>4, <2>6, <2>7, <2>8 DEF PortTypes
  <2> QED
    BY <1>9, <2>4, <2>7, <2>8, <2>9, <2>10 DEF rest, k
<1>10. ASSUME script = Then(Gets(W - W), BlockEnd), cmder = FALSE,
              data0 = MemWord(mem, a + 4 * (W - 1)), got = WordsFrom(a, W - 1)
       PROVE  /\ PortTypes' /\ UNCHANGED <<mem, gpr, handlerVars>>
              /\ script' = Then(Get, BlobPut) /\ Clean' /\ got' = WordsFrom(a, W - 1)
              /\ data0' = MemWord(mem, a + 4 * (W - 1))
  <2>1. W - W = 0 /\ 0 \in Nat
    OBVIOUS
  <2>2. Then(Gets(0), BlockEnd) = BlockEnd
    BY <2>1, GetsScript, BlockEndScripts
  <2>3. script = Then(AutoOff, Then(Get, BlobPut))
    BY <1>10, <2>1, <2>2 DEF BlockEnd
  <2>4. /\ script' = Then(Get, BlobPut) /\ autoexec' = FALSE
        /\ UNCHANGED <<mem, gpr, progbuf, data0, data1, command, cmder, got, handlerVars>>
    BY <2>3, BlockEndScripts, AutoOffStep
  <2>5. WordsFrom(a, W - 1)' = WordsFrom(a, W - 1)
    BY <2>4 DEF WordsFrom
  <2> QED
    BY <1>10, <2>4, <2>5 DEF PortTypes, Clean
<1>11. ASSUME script = Then(Get, BlobPut), Clean, got = WordsFrom(a, W - 1),
              data0 = MemWord(mem, a + 4 * (W - 1))
       PROVE  /\ PortTypes' /\ UNCHANGED <<mem, gpr, handlerVars>>
              /\ script' = BlobPut /\ Clean' /\ got' = WordsFrom(a, W)
  <2>1. /\ script' = BlobPut /\ got' = Append(got, data0) /\ Touch(data0)
        /\ UNCHANGED <<gpr, progbuf, command, autoexec, handlerVars>>
    BY <1>11, BlockEndScripts, GetStep
  <2>2. UNCHANGED <<mem, data0, data1, cmder>>
    BY <1>11, <2>1 DEF Touch, Clean
  <2>3. W - 1 \in Nat /\ (W - 1) + 1 = W /\ \A x \in 0..(W - 1) : WordAt(a + 4 * x)
    BY <1>2
  <2>4. Append(WordsFrom(a, W - 1), MemWord(mem, a + 4 * (W - 1))) = WordsFrom(a, (W - 1) + 1)
    BY <2>3, WordsFromNext
  <2>5. got' = WordsFrom(a, W)
    BY <1>11, <2>1, <2>3, <2>4
  <2> QED
    BY <1>11, <2>1, <2>2, <2>5 DEF PortTypes, Clean
<1>12. ASSUME script = BlobPut, Clean, got = WordsFrom(a, W)
       PROVE  /\ PortTypes' /\ UNCHANGED <<mem, gpr, at, left, status, histVars>>
              /\ script' = <<>> /\ got' = <<>> /\ Clean' /\ reply' = reply \o ReadBytes(a, 4 * W)
  <2>1. Len(WordsFrom(a, W)) = W
    <3>1. W - 1 \in Nat /\ (W - 1) + 1 = W /\ \A x \in 0..(W - 1) : WordAt(a + 4 * x)
      BY <1>2
    <3>2. WordsFrom(a, W) = [i \in 1..W |-> MemWord(mem, a + 4 * (i - 1))]
      BY DEF WordsFrom
    <3> QED
      BY <3>2
  <2>2. /\ script' = <<>> /\ got' = <<>> /\ reply' = reply \o ReadBytes(a, 4 * W)
        /\ UNCHANGED <<mem, gpr, dmVars, at, left, status, histVars>>
    BY <1>12, <2>1, BlobPutStep
  <2> QED
    BY <1>12, <2>2 DEF PortTypes, Clean, dmVars
\* The next stage, where it is the same memory that is read.
<1>13. mem' = mem => \A k : WordsFrom(a, k)' = WordsFrom(a, k)
  BY DEF WordsFrom
<1>14. CASE script = Then(Prog("get_block_aligned"), s) /\ Clean /\ got = <<>>
  BY <1>5, <1>14 DEF ReadingBlock, handlerVars
<1>15. CASE script = s /\ Clean /\ got = <<>> /\ loaded
  BY <1>6, <1>15 DEF ReadingBlock, handlerVars
<1>16. CASE /\ script = d /\ Clean /\ got = <<>> /\ loaded
            /\ data1 = [addr |-> a, write |-> FALSE]
  BY <1>7, <1>16 DEF ReadingBlock, handlerVars
<1>17. CASE /\ script = e /\ Clean /\ got = <<>> /\ loaded /\ command = "exec"
            /\ data1.addr = a + 4 /\ data0 = MemWord(mem, a)
  <2> DEFINE j == 1
  <2>1. j \in 1..W /\ a + 4 * j = a + 4 /\ a + 4 * (j - 1) = a
    OBVIOUS
  <2>2. /\ PortTypes' /\ UNCHANGED <<mem, gpr, handlerVars, progbuf, data0, data1, command>>
        /\ script' = g /\ autoexec' = TRUE /\ cmder' = FALSE /\ got' = <<>>
    BY <1>8, <1>17
  <2>3. WordsFrom(a, j - 1)' = <<>>
    BY DEF WordsFrom
  <2> HIDE DEF j
  <2>4. /\ script' = Then(Gets(W - j), BlockEnd)
        /\ data1'.addr = a + 4 * j /\ data0' = MemWord(mem, a + 4 * (j - 1))'
        /\ got' = WordsFrom(a, j - 1)' /\ progbuf' = "get_block_aligned" /\ command' = "exec"
    BY <1>17, <2>1, <2>2, <2>3 DEF j
  <2>5. ReadingBlock(a, W)'
    BY <2>1, <2>2, <2>4 DEF ReadingBlock
  <2> QED
    BY <2>2, <2>5 DEF handlerVars
<1>18. ASSUME NEW j \in 1..W, script = Then(Gets(W - j), BlockEnd), autoexec = TRUE, cmder = FALSE,
              loaded, command = "exec", data1.addr = a + 4 * j,
              data0 = MemWord(mem, a + 4 * (j - 1)), got = WordsFrom(a, j - 1)
       PROVE  /\ PortTypes' /\ UNCHANGED <<mem, gpr, at, left, status, histVars>>
              /\ ReadingBlock(a, W)' /\ reply' = reply
  <2>1. CASE j # W
    <3> DEFINE next == j + 1
    <3>1. next \in 1..W /\ next - 1 = j
      BY <2>1
    <3>2. /\ PortTypes' /\ UNCHANGED <<mem, gpr, handlerVars>>
          /\ script' = Then(Gets(W - next), BlockEnd) /\ autoexec' = TRUE /\ cmder' = FALSE
          /\ progbuf' = "get_block_aligned" /\ command' = "exec"
          /\ data1'.addr = a + 4 * next /\ data0' = MemWord(mem, a + 4 * j)
          /\ got' = WordsFrom(a, j)
      BY <1>9, <1>18, <2>1
    <3> HIDE DEF next
    <3>3. got' = WordsFrom(a, next - 1)' /\ data0' = MemWord(mem, a + 4 * (next - 1))'
      BY <1>13, <3>1, <3>2
    <3>4. ReadingBlock(a, W)'
      BY <3>1, <3>2, <3>3 DEF ReadingBlock
    <3> QED
      BY <3>2, <3>4 DEF handlerVars
  <2>2. CASE j = W
    <3>1. /\ PortTypes' /\ UNCHANGED <<mem, gpr, handlerVars>>
          /\ script' = Then(Get, BlobPut) /\ Clean' /\ got' = WordsFrom(a, W - 1)
          /\ data0' = MemWord(mem, a + 4 * (W - 1))
      BY <1>10, <1>18, <2>2
    <3>2. got' = WordsFrom(a, W - 1)' /\ data0' = MemWord(mem, a + 4 * (W - 1))'
      BY <1>13, <3>1
    <3>3. ReadingBlock(a, W)'
      BY <3>1, <3>2 DEF ReadingBlock
    <3> QED
      BY <3>1, <3>3 DEF handlerVars
  <2> QED
    BY <2>1, <2>2
<1>19. CASE /\ script = Then(Get, BlobPut) /\ Clean /\ got = WordsFrom(a, W - 1)
            /\ data0 = MemWord(mem, a + 4 * (W - 1))
  BY <1>11, <1>13, <1>19 DEF ReadingBlock, handlerVars
<1>20. CASE script = BlobPut /\ Clean /\ got = WordsFrom(a, W)
  BY <1>12, <1>20
<1> QED
  BY <1>14, <1>15, <1>16, <1>17, <1>18, <1>19, <1>20 DEF ReadingBlock

\* set_block_aligned writes the W words at a: m is the memory before.
DataOps(ws, j, k) == [i \in 1..k |-> Data0(ws[i + j])[1]]
BlockPatch(m, a, j, ws) ==
  [x \in Ram |-> IF x - a \in 0..(4 * j - 1) THEN ws[(x - a) \div 4 + 1][(x - a) % 4] ELSE m[x]]
WritingBlock(a, W, m, ws) ==
  \/ /\ script = Then(Prog("set_block_aligned"), Then(LoadFrom(a), Then(Data0(ws[1]),
                   Then(Exec, Then(AutoOn, Then(DataOps(ws, 1, W - 1), AutoOff))))))
     /\ Clean /\ got = <<>> /\ mem = m
  \/ /\ script = Then(LoadFrom(a), Then(Data0(ws[1]),
                   Then(Exec, Then(AutoOn, Then(DataOps(ws, 1, W - 1), AutoOff)))))
     /\ Clean /\ got = <<>> /\ mem = m /\ progbuf = "set_block_aligned"
  \/ /\ script = Then(Data0(ws[1]), Then(Exec, Then(AutoOn, Then(DataOps(ws, 1, W - 1), AutoOff))))
     /\ Clean /\ got = <<>> /\ mem = m /\ progbuf = "set_block_aligned" /\ data1.addr = a
  \/ /\ script = Then(Exec, Then(AutoOn, Then(DataOps(ws, 1, W - 1), AutoOff)))
     /\ Clean /\ got = <<>> /\ mem = m /\ progbuf = "set_block_aligned" /\ data1.addr = a
     /\ data0 = ws[1]
  \/ /\ script = Then(AutoOn, Then(DataOps(ws, 1, W - 1), AutoOff))
     /\ Clean /\ got = <<>> /\ mem = BlockPatch(m, a, 1, ws) /\ progbuf = "set_block_aligned"
     /\ command = "exec" /\ data1.addr = a + 4
  \/ \E j \in 1..W :
       /\ script = Then(DataOps(ws, j, W - j), AutoOff)
       /\ autoexec = TRUE /\ cmder = FALSE /\ got = <<>> /\ mem = BlockPatch(m, a, j, ws)
       /\ progbuf = "set_block_aligned" /\ command = "exec" /\ data1.addr = a + 4 * j

LEMMA DataOpsScript ==
  ASSUME NEW ws, NEW j \in Nat, NEW k \in Nat, NEW rest, IsScript(rest)
  PROVE  /\ IsScript(DataOps(ws, j, k)) /\ IsScript(Then(DataOps(ws, j, k), rest))
         /\ Then(DataOps(ws, j, 0), rest) = rest
         /\ Then(DataOps(ws, j, k + 1), rest) =
              Then(Data0(ws[j + 1]), Then(DataOps(ws, j + 1, k), rest))
         /\ IsScript(Then(DataOps(ws, j + 1, k), rest))
<1> DEFINE op(i) == Data0(ws[i + j])[1]
           f == [i \in Nat |-> op(i)]
<1>1. /\ IsScript([i \in 1..k |-> f[i]])
      /\ [i \in 1..(k + 1) |-> f[i]] = <<f[1]>> \o [i \in 1..k |-> f[i + 1]]
      /\ IsScript([i \in 1..k |-> f[i + 1]])
  BY Row
<1>2. \A i \in Nat : (i + 1) + j = i + (j + 1) /\ i + 1 \in Nat
  OBVIOUS
<1>3. /\ [i \in 1..k |-> f[i]] = DataOps(ws, j, k)
      /\ [i \in 1..(k + 1) |-> f[i]] = DataOps(ws, j, k + 1)
  BY DEF DataOps
<1>4. [i \in 1..k |-> f[i + 1]] = DataOps(ws, j + 1, k)
  <2>1. \A i \in 1..k : f[i + 1] = op(i + 1) /\ op(i + 1) = Data0(ws[i + (j + 1)])[1]
    BY <1>2
  <2> HIDE DEF f
  <2> QED
    BY <2>1 DEF DataOps
<1>5. <<f[1]>> = Data0(ws[j + 1])
  <2>1. f[1] = op(1) /\ op(1) = Data0(ws[j + 1])[1]
    OBVIOUS
  <2>2. <<Data0(ws[j + 1])[1]>> = Data0(ws[j + 1])
    BY DEF Data0
  <2> QED
    BY <2>1, <2>2
<1> HIDE DEF f
<1>6. /\ IsScript(DataOps(ws, j, k)) /\ IsScript(DataOps(ws, j + 1, k))
      /\ DataOps(ws, j, k + 1) = Data0(ws[j + 1]) \o DataOps(ws, j + 1, k)
  BY <1>1, <1>3, <1>4, <1>5
<1>7. DataOps(ws, j, 0) = <<>>
  BY DEF DataOps
<1>8. IsScript(Data0(ws[j + 1]))
  BY OperationScripts
<1>9. Then(Data0(ws[j + 1]) \o DataOps(ws, j + 1, k), rest) =
        Then(Data0(ws[j + 1]), Then(DataOps(ws, j + 1, k), rest))
  BY <1>6, <1>8, ThenThen
<1> QED
  BY <1>6, <1>7, <1>9, ThenNothing, ThenIsScript

LEMMA DataOpsNext ==
  ASSUME NEW ws, NEW j \in Nat, NEW k \in Nat, NEW rest, IsScript(rest)
  PROVE  Then(DataOps(ws, j, k + 1), rest) =
           Then(Data0(ws[j + 1]), Then(DataOps(ws, j + 1, k), rest))
BY DataOpsScript

LEMMA WriteBlockScript ==
  ASSUME NEW a, NEW W \in Nat \ {0}, NEW ws, Len(ws) = W
  PROVE  /\ set_block_aligned(a, ws) =
              Then(Prog("set_block_aligned"), Then(LoadFrom(a), Then(Data0(ws[1]),
                Then(Exec, Then(AutoOn, Then(DataOps(ws, 1, W - 1), AutoOff))))))
         /\ IsScript(Then(DataOps(ws, 1, W - 1), AutoOff))
         /\ IsScript(Then(AutoOn, Then(DataOps(ws, 1, W - 1), AutoOff)))
         /\ IsScript(Then(Exec, Then(AutoOn, Then(DataOps(ws, 1, W - 1), AutoOff))))
         /\ IsScript(Then(Data0(ws[1]),
                Then(Exec, Then(AutoOn, Then(DataOps(ws, 1, W - 1), AutoOff)))))
         /\ IsScript(Then(LoadFrom(a), Then(Data0(ws[1]),
                Then(Exec, Then(AutoOn, Then(DataOps(ws, 1, W - 1), AutoOff))))))
<1> DEFINE p == Prog("set_block_aligned")
           d == LoadFrom(a)
           v == Data0(ws[1])
           g == DataOps(ws, 1, W - 1)
           start == ((p \o d) \o v) \o Exec
           on == start \o AutoOn
           data == on \o g
           rest == Then(g, AutoOff)
           auto == Then(AutoOn, rest)
<1>1. IsScript(p) /\ IsScript(d) /\ IsScript(v) /\ IsScript(Exec)
  BY OperationScripts
<1>2. IsScript(AutoOn) /\ IsScript(AutoOff)
  BY AutoScripts
<1>3. IsScript(g) /\ IsScript(rest)
  <2>1. W - 1 \in Nat /\ 1 \in Nat
    OBVIOUS
  <2> QED
    BY <1>2, <2>1, DataOpsScript
<1>4. set_block_aligned(a, ws) = data \o AutoOff
  BY DEF set_block_aligned, LoadFrom, AutoOn, AutoOff, DataOps
<1> HIDE DEF p, d, v, g, rest
<1>5. IsScript(auto)
  BY <1>2, <1>3, ThenIsScript
<1> HIDE DEF auto
<1>6. IsScript(start) /\ Then(start, auto) = Then(p, Then(d, Then(v, Then(Exec, auto))))
  BY <1>1, <1>5, ThenFour
<1>7. /\ IsScript(Then(Exec, auto)) /\ IsScript(Then(v, Then(Exec, auto)))
      /\ IsScript(Then(d, Then(v, Then(Exec, auto))))
  BY <1>1, <1>5, ThenIsScript
<1> HIDE DEF start
<1>8. IsScript(on) /\ Then(on, rest) = Then(start, auto)
  <2>1. Then(start \o AutoOn, rest) = Then(start, Then(AutoOn, rest))
    BY <1>2, <1>3, <1>6, ThenThen
  <2> QED
    BY <1>2, <1>6, <2>1, Chain DEF auto
<1> HIDE DEF on
<1>9. Then(on \o g, AutoOff) = Then(on, Then(g, AutoOff))
  BY <1>2, <1>3, <1>8, ThenThen
<1>10. set_block_aligned(a, ws) = Then(on \o g, AutoOff)
  BY <1>4 DEF Then
<1>11. set_block_aligned(a, ws) = Then(p, Then(d, Then(v, Then(Exec, auto))))
  BY <1>6, <1>8, <1>9, <1>10 DEF rest
<1> QED
  BY <1>3, <1>5, <1>7, <1>11 DEF p, d, v, g, rest, auto

\* One more word in memory.
LEMMA BlockPatchNext ==
  ASSUME NEW m \in [Ram -> Byte], NEW a \in Nat, NEW j \in Nat, NEW ws
  PROVE  /\ Stored(BlockPatch(m, a, j, ws), a + 4 * j, ws[j + 1]) = BlockPatch(m, a, j + 1, ws)
         /\ BlockPatch(m, a, 0, ws) = m
<1> DEFINE s == BlockPatch(m, a, j, ws)
           b == a + 4 * j
           w == ws[j + 1]
           k == j + 1
<1>1. ASSUME NEW x \in Ram
      PROVE  Stored(s, b, w)[x] =
               IF x - a \in 0..(4 * k - 1) THEN ws[(x - a) \div 4 + 1][(x - a) % 4] ELSE m[x]
  <2>1. x \in Nat /\ b \in Nat
    BY RamIsNat
  <2>2. Stored(s, b, w)[x] = IF x - b \in 0..3 THEN w[x - b] ELSE s[x]
    <3> HIDE DEF s, b, w
    <3> QED
      BY <2>1, StoredAt
  <2>3. s[x] = IF x - a \in 0..(4 * j - 1) THEN ws[(x - a) \div 4 + 1][(x - a) % 4] ELSE m[x]
    BY DEF BlockPatch
  <2> HIDE DEF s, w
  <2>4. CASE x - b \in 0..3
    <3>1. x - a \in 0..(4 * k - 1) /\ (x - a) \div 4 + 1 = j + 1 /\ (x - a) % 4 = x - b
      BY <2>1, <2>4
    <3> QED
      BY <2>2, <2>4, <3>1 DEF w
  <2>5. CASE x - b \notin 0..3
    <3>1. x - a \in 0..(4 * k - 1) <=> x - a \in 0..(4 * j - 1)
      BY <2>1, <2>5
    <3> QED
      BY <2>2, <2>3, <2>5, <3>1
  <2> QED
    BY <2>4, <2>5
<1>2. Stored(s, b, w) = [x \in Ram |-> Stored(s, b, w)[x]]
  BY DEF Stored
<1>3. BlockPatch(m, a, 0, ws) = m
  BY DEF BlockPatch
<1> HIDE DEF s, b, w, k
<1>4. Stored(s, b, w) = BlockPatch(m, a, k, ws)
  BY <1>1, <1>2 DEF BlockPatch
<1> QED
  BY <1>3, <1>4 DEF s, b, w, k

LEMMA WritingBlockStep ==
  ASSUME NEW a \in Nat, NEW W \in Nat \ {0}, Covered(a, 4 * W), NEW m \in [Ram -> Byte],
         NEW ws, \A i \in 1..W : ws[i] \in Word, PortTypes, WritingBlock(a, W, m, ws), Operation
  PROVE  /\ PortTypes' /\ UNCHANGED <<gpr, handlerVars>>
         /\ \/ WritingBlock(a, W, m, ws)'
            \/ script' = <<>> /\ got' = <<>> /\ Clean' /\ mem' = BlockPatch(m, a, W, ws)
<1> DEFINE g == Then(DataOps(ws, 1, W - 1), AutoOff)
           e == Then(AutoOn, g)
           x == Then(Exec, e)
           v == Then(Data0(ws[1]), x)
           s == Then(LoadFrom(a), v)
           loaded == progbuf = "set_block_aligned"
           one == BlockPatch(m, a, 1, ws)
<1>1. IsScript(g) /\ IsScript(e) /\ IsScript(x) /\ IsScript(v) /\ IsScript(s)
  <2> DEFINE words == [i \in 1..W |-> ws[i]]
  <2>1. W - 1 \in Nat /\ 1 \in Nat
    OBVIOUS
  <2>2. IsScript(g)
    BY <2>1, AutoScripts, DataOpsScript
  <2> HIDE DEF g
  <2>3. IsScript(e)
    BY <2>2, AutoScripts, ThenIsScript
  <2> HIDE DEF e
  <2>4. IsScript(x)
    BY <2>3, OperationScripts, ThenIsScript
  <2> HIDE DEF x
  <2>5. IsScript(v)
    BY <2>4, OperationScripts, ThenIsScript
  <2> HIDE DEF v
  <2>6. IsScript(s)
    BY <2>5, OperationScripts, ThenIsScript
  <2> QED
    BY <2>2, <2>3, <2>4, <2>5, <2>6
<1>2. \A j \in 0..(W - 1) : ~Faults(a + 4 * j)
  <2> SUFFICES ASSUME NEW j \in 0..(W - 1) PROVE ~Faults(a + 4 * j)
    OBVIOUS
  <2>1. a + 4 * j + 0 \in Ram /\ a + 4 * j + 0 = a + 4 * j
    BY BlockWords DEF WordAt
  <2> QED
    BY <2>1 DEF Faults
<1>3. a + 4 * 0 = a /\ 0 \in 0..(W - 1) /\ 1 \in 1..W /\ 0 + 1 = 1
  OBVIOUS
<1>4. ~Faults(a) /\ AppWord \in Word /\ ws[1] \in Word
  BY <1>2, <1>3, ConstantWords
<1>5. ASSUME script = Then(Prog("set_block_aligned"), s), Clean, got = <<>>
      PROVE  /\ PortTypes' /\ UNCHANGED <<mem, gpr, handlerVars>>
             /\ script' = s /\ Clean' /\ got' = <<>> /\ progbuf' = "set_block_aligned"
  <2> HIDE DEF s
  <2>1. /\ script' = s /\ progbuf' = "set_block_aligned"
        /\ data0' \in {data0, AppWord} /\ command' \in {command, "transfer"}
        /\ UNCHANGED <<mem, gpr, data1, autoexec, cmder, got, handlerVars>>
    BY <1>1, <1>5, ProgStep
  <2> QED
    BY <1>4, <1>5, <2>1 DEF PortTypes, Clean
<1>6. ASSUME script = s, Clean, got = <<>>, loaded
      PROVE  /\ PortTypes' /\ UNCHANGED <<mem, gpr, handlerVars>>
             /\ script' = v /\ Clean' /\ got' = <<>> /\ progbuf' = "set_block_aligned"
             /\ data1'.addr = a
  <2> HIDE DEF v
  <2>1. /\ script' = v /\ data1' = [addr |-> a, write |-> FALSE]
        /\ UNCHANGED <<mem, gpr, progbuf, data0, command, autoexec, cmder, got, handlerVars>>
    BY <1>1, <1>6, Data1Step DEF LoadFrom
  <2> QED
    BY <1>6, <2>1 DEF PortTypes, Clean
<1>7. ASSUME script = v, Clean, got = <<>>, loaded
      PROVE  /\ PortTypes' /\ UNCHANGED <<mem, gpr, handlerVars>>
             /\ script' = x /\ Clean' /\ got' = <<>> /\ progbuf' = "set_block_aligned"
             /\ data1' = data1 /\ data0' = ws[1]
  <2> HIDE DEF x
  <2>1. /\ script' = x /\ Touch(ws[1])
        /\ UNCHANGED <<gpr, progbuf, command, autoexec, got, handlerVars>>
    BY <1>1, <1>7, Data0Step
  <2>2. data0' = ws[1] /\ UNCHANGED <<mem, data1, cmder>>
    BY <1>7, <2>1 DEF Touch, Clean
  <2> QED
    BY <1>4, <1>7, <2>1, <2>2 DEF PortTypes, Clean
<1>8. ASSUME script = x, Clean, got = <<>>, loaded, data1.addr = a, data0 = ws[1], mem = m
      PROVE  /\ PortTypes' /\ UNCHANGED <<gpr, handlerVars>>
             /\ script' = e /\ Clean' /\ got' = <<>> /\ progbuf' = "set_block_aligned"
             /\ command' = "exec" /\ data1'.addr = a + 4 /\ mem' = one
  <2> HIDE DEF e
  <2>1. /\ script' = e /\ command' = "exec" /\ RunProgbuf(data0)
        /\ UNCHANGED <<gpr, progbuf, autoexec, got, handlerVars>>
    BY <1>1, <1>8, ExecStep
  <2>2. /\ mem' = Stored(mem, a, data0) /\ data0' = data0
        /\ data1' = [data1 EXCEPT !.addr = a + 4] /\ cmder' = cmder
    BY <1>4, <1>8, <2>1 DEF RunProgbuf, Clean
  <2>3. data1' \in [addr : Nat, write : BOOLEAN] /\ data1'.addr = a + 4
    BY <2>2 DEF PortTypes
  <2>4. mem' = one
    <3>1. /\ Stored(BlockPatch(m, a, 0, ws), a + 4 * 0, ws[0 + 1]) = BlockPatch(m, a, 0 + 1, ws)
          /\ BlockPatch(m, a, 0, ws) = m
      BY <1>3, BlockPatchNext
    <3> QED
      BY <1>3, <1>8, <2>2, <3>1
  <2> QED
    BY <1>8, <2>1, <2>2, <2>3, <2>4 DEF PortTypes, Clean
<1>9. ASSUME script = e, Clean, got = <<>>, loaded, command = "exec", data1.addr = a + 4
      PROVE  /\ PortTypes' /\ UNCHANGED <<mem, gpr, handlerVars, progbuf, data1, command>>
             /\ script' = g /\ autoexec' = TRUE /\ cmder' = FALSE /\ got' = <<>>
  <2> HIDE DEF g
  <2>1. /\ script' = g /\ autoexec' = TRUE
        /\ UNCHANGED <<mem, gpr, progbuf, data0, data1, command, cmder, got, handlerVars>>
    BY <1>1, <1>9, AutoOnStep
  <2> QED
    BY <1>9, <2>1 DEF PortTypes, Clean
<1>10. ASSUME NEW j \in 1..W, script = Then(DataOps(ws, j, W - j), AutoOff), autoexec = TRUE,
              cmder = FALSE, got = <<>>, mem = BlockPatch(m, a, j, ws),
              loaded, command = "exec", data1.addr = a + 4 * j, j # W
       PROVE  /\ PortTypes' /\ UNCHANGED <<gpr, handlerVars>>
              /\ script' = Then(DataOps(ws, j + 1, W - (j + 1)), AutoOff)
              /\ autoexec' = TRUE /\ cmder' = FALSE /\ got' = <<>>
              /\ mem' = BlockPatch(m, a, j + 1, ws)
              /\ progbuf' = "set_block_aligned" /\ command' = "exec"
              /\ data1'.addr = a + 4 * (j + 1)
  <2> DEFINE k == W - (j + 1)
             rest == Then(DataOps(ws, j + 1, k), AutoOff)
             w == ws[j + 1]
  <2>1. /\ k \in Nat /\ W - j = k + 1 /\ j \in 0..(W - 1) /\ a + 4 * j + 4 = a + 4 * (j + 1)
        /\ j + 1 \in 1..W /\ j \in Nat
    BY <1>10
  <2>2. w \in Word /\ ~Faults(a + 4 * j)
    BY <1>2, <2>1
  <2> HIDE DEF k
  <2>3. IsScript(rest) /\ Then(DataOps(ws, j, k + 1), AutoOff) = Then(Data0(w), rest)
    <3>1. IsScript(AutoOff) /\ j \in Nat /\ k \in Nat
      BY <2>1, AutoScripts
    <3>2. Then(DataOps(ws, j, k + 1), AutoOff) =
            Then(Data0(ws[j + 1]), Then(DataOps(ws, j + 1, k), AutoOff))
      BY <3>1, DataOpsScript
    <3>3. IsScript(Then(DataOps(ws, j + 1, k), AutoOff))
      BY <3>1, DataOpsScript
    <3> QED
      BY <3>2, <3>3
  <2>4. Stored(BlockPatch(m, a, j, ws), a + 4 * j, w) = BlockPatch(m, a, j + 1, ws)
    BY <2>1, BlockPatchNext
  <2> HIDE DEF rest, w
  <2>5. script = Then(Data0(w), rest)
    BY <1>10, <2>1, <2>3
  <2>6. /\ script' = rest /\ Touch(w)
        /\ UNCHANGED <<gpr, progbuf, command, autoexec, got, handlerVars>>
    BY <2>3, <2>5, Data0Step
  <2>7. RunProgbuf(w)
    BY <1>10, <2>6 DEF Touch
  <2>8. /\ mem' = Stored(mem, a + 4 * j, w) /\ data0' = w /\ cmder' = cmder
        /\ data1' = [data1 EXCEPT !.addr = a + 4 * j + 4]
    BY <1>10, <2>2, <2>7 DEF RunProgbuf
  <2>9. data1' \in [addr : Nat, write : BOOLEAN] /\ data1'.addr = a + 4 * (j + 1)
    <3>1. a + 4 * (j + 1) \in Nat /\ data1' = [data1 EXCEPT !.addr = a + 4 * (j + 1)]
      BY <2>1, <2>8
    <3> QED
      BY <3>1 DEF PortTypes
  <2>10. PortTypes'
    BY <2>2, <2>6, <2>8, <2>9 DEF PortTypes
  <2>11. mem' = BlockPatch(m, a, j + 1, ws)
    BY <1>10, <2>4, <2>8
  <2> QED
    BY <1>10, <2>6, <2>8, <2>9, <2>10, <2>11 DEF rest, k
<1>11. ASSUME script = Then(DataOps(ws, W, W - W), AutoOff), cmder = FALSE, got = <<>>,
              mem = BlockPatch(m, a, W, ws)
       PROVE  /\ PortTypes' /\ UNCHANGED <<gpr, handlerVars>>
              /\ script' = <<>> /\ got' = <<>> /\ Clean' /\ mem' = BlockPatch(m, a, W, ws)
  <2>1. W - W = 0 /\ 0 \in Nat /\ W \in Nat
    OBVIOUS
  <2>2. Then(DataOps(ws, W, 0), AutoOff) = AutoOff
    BY <2>1, DataOpsScript, AutoScripts
  <2>3. Then(AutoOff, <<>>) = AutoOff /\ IsScript(<<>>)
    BY AutoScripts, ThenNothing, NoOperation
  <2>4. script = Then(AutoOff, <<>>)
    BY <1>11, <2>1, <2>2, <2>3
  <2>5. /\ script' = <<>> /\ autoexec' = FALSE
        /\ UNCHANGED <<mem, gpr, progbuf, data0, data1, command, cmder, got, handlerVars>>
    BY <2>3, <2>4, AutoOffStep
  <2> QED
    BY <1>11, <2>5 DEF PortTypes, Clean
<1>12. CASE script = Then(Prog("set_block_aligned"), s) /\ Clean /\ got = <<>> /\ mem = m
  BY <1>5, <1>12 DEF WritingBlock
<1>13. CASE script = s /\ Clean /\ got = <<>> /\ mem = m /\ loaded
  BY <1>6, <1>13 DEF WritingBlock
<1>14. CASE script = v /\ Clean /\ got = <<>> /\ mem = m /\ loaded /\ data1.addr = a
  BY <1>7, <1>14 DEF WritingBlock
<1>15. CASE /\ script = x /\ Clean /\ got = <<>> /\ mem = m /\ loaded /\ data1.addr = a
            /\ data0 = ws[1]
  BY <1>8, <1>15 DEF WritingBlock
<1>16. CASE /\ script = e /\ Clean /\ got = <<>> /\ mem = one /\ loaded /\ command = "exec"
            /\ data1.addr = a + 4
  <2> DEFINE j == 1
  <2>1. j \in 1..W /\ a + 4 * j = a + 4
    OBVIOUS
  <2>2. /\ PortTypes' /\ UNCHANGED <<mem, gpr, handlerVars, progbuf, data1, command>>
        /\ script' = g /\ autoexec' = TRUE /\ cmder' = FALSE /\ got' = <<>>
    BY <1>9, <1>16
  <2> HIDE DEF j
  <2>3. /\ script' = Then(DataOps(ws, j, W - j), AutoOff) /\ mem' = BlockPatch(m, a, j, ws)
        /\ data1'.addr = a + 4 * j /\ progbuf' = "set_block_aligned" /\ command' = "exec"
    BY <1>16, <2>1, <2>2 DEF j
  <2>4. WritingBlock(a, W, m, ws)'
    BY <2>1, <2>2, <2>3 DEF WritingBlock
  <2> QED
    BY <2>2, <2>4
<1>17. ASSUME NEW j \in 1..W, script = Then(DataOps(ws, j, W - j), AutoOff), autoexec = TRUE,
              cmder = FALSE, got = <<>>, mem = BlockPatch(m, a, j, ws),
              loaded, command = "exec", data1.addr = a + 4 * j
       PROVE  /\ PortTypes' /\ UNCHANGED <<gpr, handlerVars>>
              /\ \/ WritingBlock(a, W, m, ws)'
                 \/ script' = <<>> /\ got' = <<>> /\ Clean' /\ mem' = BlockPatch(m, a, W, ws)
  <2>1. CASE j # W
    <3> DEFINE next == j + 1
    <3>1. next \in 1..W
      BY <2>1
    <3>2. /\ PortTypes' /\ UNCHANGED <<gpr, handlerVars>>
          /\ script' = Then(DataOps(ws, next, W - next), AutoOff)
          /\ autoexec' = TRUE /\ cmder' = FALSE /\ got' = <<>>
          /\ mem' = BlockPatch(m, a, next, ws)
          /\ progbuf' = "set_block_aligned" /\ command' = "exec"
          /\ data1'.addr = a + 4 * next
      BY <1>10, <1>17, <2>1
    <3> HIDE DEF next
    <3>3. WritingBlock(a, W, m, ws)'
      BY <3>1, <3>2 DEF WritingBlock
    <3> QED
      BY <3>2, <3>3
  <2>2. CASE j = W
    BY <1>11, <1>17, <2>2
  <2> QED
    BY <2>1, <2>2
<1> QED
  BY <1>12, <1>13, <1>14, <1>15, <1>16, <1>17 DEF WritingBlock

-----------------------------------------------------------------------------
(* Registers *)

Transfer == <<[do |-> "transfer"]>>
TransferBack == <<[do |-> "transferBack"]>>
GprPut == Put("u32", 0)

\* handle_p gets the register for the answer.
ReadingGpr ==
  \/ script = Then(Transfer, Then(Get, GprPut)) /\ got = <<>>
  \/ script = Then(Get, GprPut) /\ got = <<>> /\ data0 = gpr
  \/ script = GprPut /\ got = <<gpr>>

\* handle_P sets it.
WritingGpr(w) ==
  /\ got = <<>>
  /\ \/ script = Then(Data0(w), TransferBack)
     \/ script = TransferBack /\ data0 = w

-----------------------------------------------------------------------------
(* The inductive invariant *)

\* The first bytes of the request, up to the address x, are read or written.
ReadTo(x) == [i \in 1..(x - asked.at) |-> before[asked.at + i - 1]]
WrittenTo(x) ==
  [a \in Ram |-> IF asked.at <= a /\ a < x THEN <<count, a - asked.at>> ELSE before[a]]
NewWords(W) == [i \in 1..W |-> NewWord(4 * (i - 1), 4)]

\* The handler stands in the request, at its start or end when it takes one turn,
\* and no M packet takes the block path.
Position ==
  /\ count \in 1..MaxRequests /\ (asked.do = "M" => InBytes(asked))
  /\ asked.at <= at /\ at + left = asked.at + asked.len
  /\ asked.do \notin {"m", "M"} /\ left # 0 => at = asked.at

\* Between two accesses of the handler.
Idle ==
  /\ script = <<>> /\ got = <<>> /\ autoexec = FALSE
  /\ asked.do \in {"m", "p", "P"} => mem = before
  /\ asked.do = "m" => reply = ReadTo(at)
  /\ asked.do \in {"M", "set", "block"} => mem = WrittenTo(at)
  /\ asked.do = "p" => IF left = 0 THEN reply = Bytes(gpr, 4) ELSE reply = <<>>

\* In one of the n bytes at a.
ReadingTurn(a, n) ==
  \/ /\ n \in {1, 2, 4} /\ Clean
     /\ \/ Reading(a, n, PutOf(a, n))
        \/ script = PutOf(a, n) /\ got = WordsRead(a, n)
  \/ n # 0 /\ Offset(n) = 0 /\ ReadingBlock(a, n \div 4)

RunningRead ==
  /\ asked.do = "m" /\ mem = before
  /\ \E a \in asked.at..at : reply = ReadTo(a) /\ ReadingTurn(a, at - a)
RunningWrite ==
  /\ asked.do \in {"M", "set"} /\ Clean
  /\ \E a \in asked.at..at :
       /\ at - a \in {1, 2, 4}
       /\ Writing(a, at - a, NewWord(a - asked.at, at - a), WrittenTo(a))
RunningBlock ==
  /\ asked.do = "block" /\ left = 0 /\ asked.len # 0
  /\ WritingBlock(asked.at, asked.len \div 4, before, NewWords(asked.len \div 4))
RunningGpr ==
  /\ mem = before /\ left = 0 /\ Clean
  /\ \/ asked.do = "p" /\ reply = <<>> /\ ReadingGpr
     \/ asked.do = "P" /\ WritingGpr(TakeHex(Bytes(NewWord(0, 4), 4)))
Running == RunningRead \/ RunningWrite \/ RunningBlock \/ RunningGpr

IInv ==
  /\ TypeOK /\ cmder = FALSE /\ NothingElseTouched
  /\ status = "ready" => script = <<>> /\ autoexec = FALSE
  /\ status = "answered" => Position /\ Idle /\ left = 0
  /\ status = "busy" => Position /\ (Idle \/ Running)

-----------------------------------------------------------------------------
(* What holds while an access runs *)

LEMMA GprScripts ==
  /\ IsScript(Transfer) /\ IsScript(TransferBack) /\ IsScript(GprPut) /\ IsScript(Then(Get, GprPut))
  /\ Transfer # <<>> /\ TransferBack # <<>> /\ GprPut # <<>>
  /\ Then(TransferBack, <<>>) = TransferBack
<1>1. IsScript(Transfer) /\ IsScript(TransferBack) /\ IsScript(GprPut)
  BY OneOperation DEF Transfer, TransferBack, GprPut, Put
<1>2. Transfer # <<>> /\ TransferBack # <<>> /\ GprPut # <<>>
  BY DEF Transfer, TransferBack, GprPut, Put
<1> QED
  BY <1>1, <1>2, OperationScripts, ThenIsScript, ThenNothing

\* handle_p's answer is the register.
LEMMA ReadingGprStep ==
  ASSUME gpr \in Word, Clean, PortTypes, ReadingGpr, Operation
  PROVE  /\ Clean' /\ PortTypes' /\ UNCHANGED <<mem, gpr, at, left, status, histVars>>
         /\ \/ ReadingGpr' /\ reply' = reply /\ got' \in Seq(Word)
            \/ script' = <<>> /\ got' = <<>> /\ reply' = reply \o Bytes(gpr, 4)
<1>1. CASE script = Then(Transfer, Then(Get, GprPut)) /\ got = <<>>
  <2> DEFINE op == [do |-> "transfer"]
             rest == Then(Get, GprPut)
  <2>1. IsScript(rest) /\ op.do = "transfer"
    BY GprScripts
  <2> HIDE DEF rest
  <2>2. Head(script) = op /\ Tail(script) = rest
    BY <1>1, <2>1, First DEF Transfer, rest
  <2>3. GetGpr
    BY <2>2, <2>1, WhichOperation
  <2>4. /\ script' = rest /\ command' = "transfer" /\ data0' = gpr
        /\ UNCHANGED <<mem, gpr, progbuf, data1, autoexec, cmder, got, handlerVars>>
    BY <2>2, <2>3 DEF GetGpr, Following
  <2>5. got' = <<>> /\ <<>> \in Seq(Word)
    BY <1>1, <2>4
  <2>6. Clean' /\ PortTypes'
    BY <2>4 DEF Clean, PortTypes
  <2> QED
    BY <2>4, <2>5, <2>6 DEF ReadingGpr, rest, handlerVars
<1>2. CASE script = Then(Get, GprPut) /\ got = <<>> /\ data0 = gpr
  <2>1. /\ script' = GprPut /\ got' = Append(got, data0) /\ Touch(data0)
        /\ UNCHANGED <<gpr, progbuf, command, autoexec, handlerVars>>
    BY <1>2, GprScripts, GetStep
  <2>2. UNCHANGED <<mem, data0, data1, cmder>>
    BY <2>1 DEF Touch, Clean
  <2>3. got' = <<gpr>> /\ <<gpr>> \in Seq(Word)
    BY <1>2, <2>1, AppendNone
  <2>4. Clean' /\ PortTypes'
    BY <2>1, <2>2 DEF Clean, PortTypes
  <2> QED
    BY <2>1, <2>2, <2>3, <2>4 DEF ReadingGpr, handlerVars
<1>3. CASE script = GprPut /\ got = <<gpr>>
  <2> DEFINE kind == "u32"
             hi == IF Len(got) > 1 THEN got[2] ELSE ZeroWord
  <2>1. /\ script' = <<>> /\ got' = <<>>
        /\ reply' = reply \o
             (CASE kind = "u32" -> Bytes(Read32(got[1], hi, 0), 4)
                [] kind = "u16" -> Bytes(Read16(got[1], hi, 0), 2)
                [] kind = "u8" -> Bytes(Read8(got[1], 0), 1)
                [] kind = "blob" -> Blob(got))
        /\ UNCHANGED <<mem, gpr, dmVars, at, left, status, histVars>>
    BY <1>3, PutStep DEF GprPut
  <2>2. got[1] = gpr
    BY <1>3
  <2>3. Read32(got[1], hi, 0) = gpr
    BY <2>2 DEF Read32
  <2>4. reply' = reply \o Bytes(gpr, 4)
    BY <2>1, <2>3
  <2> QED
    BY <2>1, <2>4 DEF Clean, PortTypes, dmVars
<1> QED
  BY <1>1, <1>2, <1>3 DEF ReadingGpr

LEMMA WritingGprStep ==
  ASSUME NEW w \in Word, gpr \in Word, Clean, PortTypes, WritingGpr(w), Operation
  PROVE  /\ Clean' /\ PortTypes' /\ gpr' \in Word /\ UNCHANGED <<mem, handlerVars>>
         /\ got' = <<>> /\ (WritingGpr(w)' \/ script' = <<>>)
<1>1. CASE script = Then(Data0(w), TransferBack) /\ got = <<>>
  <2>1. /\ script' = TransferBack /\ Touch(w)
        /\ UNCHANGED <<gpr, progbuf, command, autoexec, got, handlerVars>>
    BY <1>1, GprScripts, Data0Step
  <2>2. data0' = w /\ UNCHANGED <<mem, data1, cmder>>
    BY <2>1 DEF Touch, Clean
  <2> QED
    BY <1>1, <2>1, <2>2 DEF WritingGpr, Clean, PortTypes
<1>2. CASE script = TransferBack /\ data0 = w /\ got = <<>>
  <2> DEFINE op == [do |-> "transferBack"]
  <2>1. script = Then(<<op>>, <<>>) /\ IsScript(<<>>)
    BY <1>2, GprScripts, NoOperation DEF TransferBack
  <2>2. Head(script) = op /\ Tail(script) = <<>> /\ op.do = "transferBack"
    BY <2>1, First
  <2>3. SetGpr
    BY <2>2, WhichOperation
  <2>4. /\ script' = <<>> /\ command' = "transfer" /\ gpr' = data0
        /\ UNCHANGED <<mem, progbuf, data0, data1, autoexec, cmder, got, handlerVars>>
    BY <2>2, <2>3 DEF SetGpr, Following
  <2> QED
    BY <1>2, <2>4 DEF Clean, PortTypes
<1> QED
  BY <1>1, <1>2 DEF WritingGpr

LEMMA GprRuns ==
  ASSUME gpr \in Word, NEW w
  PROVE  /\ ReadingGpr => script # <<>> /\ got \in Seq(Word)
         /\ WritingGpr(w) => script # <<>> /\ got \in Seq(Word)
<1>1. <<>> \in Seq(Word) /\ <<gpr>> \in Seq(Word)
  OBVIOUS
<1>2. Then(Transfer, Then(Get, GprPut)) # <<>>
  BY GprScripts, First DEF Transfer
<1>3. Then(Get, GprPut) # <<>>
  BY GprScripts, First DEF Get
<1>4. Then(Data0(w), TransferBack) # <<>>
  BY GprScripts, First DEF Data0
<1> QED
  BY <1>1, <1>2, <1>3, <1>4, GprScripts DEF ReadingGpr, WritingGpr

LEMMA ReadingBlockRuns ==
  ASSUME NEW a \in Nat, NEW W \in Nat \ {0}, Covered(a, 4 * W), MemTyped, ReadingBlock(a, W)
  PROVE  script # <<>> /\ got \in Seq(Word)
<1> DEFINE g == Then(Gets(W - 1), BlockEnd)
           e == Then(AutoOn, g)
           d == Then(Exec, e)
           s == Then(LoadFrom(a), d)
<1>1. IsScript(g) /\ IsScript(e) /\ IsScript(d) /\ IsScript(s)
  BY ReadBlockScript
<1>2. /\ s # <<>> /\ d # <<>> /\ e # <<>> /\ Then(Prog("get_block_aligned"), s) # <<>>
      /\ Then(Get, BlobPut) # <<>> /\ BlobPut # <<>> /\ BlockEnd # <<>>
  <2> HIDE DEF g, e, d, s
  <2>1. Then(LoadFrom(a), d) # <<>>
    BY <1>1, First DEF LoadFrom, Data1
  <2>2. Then(Exec, e) # <<>>
    BY <1>1, First DEF Exec
  <2>3. Then(AutoOn, g) # <<>>
    BY <1>1, AutoOnRuns
  <2>4. Then(Prog("get_block_aligned"), s) # <<>>
    BY <1>1, First DEF Prog
  <2>5. Then(Get, BlobPut) # <<>>
    BY BlockEndScripts, First DEF Get
  <2>6. BlobPut # <<>> /\ BlockEnd # <<>>
    BY BlockEndScripts, AutoOnRuns DEF BlockEnd
  <2> QED
    BY <2>1, <2>2, <2>3, <2>4, <2>5, <2>6 DEF e, d, s
<1>3. \A j \in 1..W : Then(Gets(W - j), BlockEnd) # <<>>
  <2> SUFFICES ASSUME NEW j \in 1..W PROVE Then(Gets(W - j), BlockEnd) # <<>>
    OBVIOUS
  <2>1. CASE j = W
    <3>1. W - j = 0 /\ 0 \in Nat
      BY <2>1
    <3> QED
      BY <1>2, <3>1, GetsScript, BlockEndScripts
  <2>2. CASE j # W
    <3> DEFINE k == W - (j + 1)
               rest == Then(Gets(k), BlockEnd)
    <3>1. k \in Nat /\ W - j = k + 1
      BY <2>2
    <3> HIDE DEF k
    <3>2. IsScript(rest) /\ Then(Gets(k + 1), BlockEnd) = Then(Get, rest)
      BY <3>1, GetsScript, BlockEndScripts
    <3> HIDE DEF rest
    <3>3. Then(Get, rest) # <<>>
      BY <3>2, First DEF Get
    <3> QED
      BY <3>1, <3>2, <3>3
  <2> QED
    BY <2>1, <2>2
<1>4. \A k \in 0..W : WordsFrom(a, k) \in Seq(Word)
  <2>1. ASSUME NEW k \in 0..(W - 1)
        PROVE  WordsFrom(a, k) \in Seq(Word) /\ WordsFrom(a, k + 1) \in Seq(Word)
    <3>1. k \in Nat /\ \A j \in 0..k : j \in 0..(W - 1)
      OBVIOUS
    <3>2. \A j \in 0..k : WordAt(a + 4 * j)
      BY <3>1, BlockWords
    <3> QED
      BY <3>1, <3>2, WordsFromNext
  <2>2. W - 1 \in 0..(W - 1) /\ (W - 1) + 1 = W
    OBVIOUS
  <2>3. WordsFrom(a, W) \in Seq(Word)
    BY <2>1, <2>2
  <2>4. \A k \in 0..W : k = W \/ k \in 0..(W - 1)
    OBVIOUS
  <2> QED
    BY <2>1, <2>3, <2>4
<1>5. <<>> \in Seq(Word) /\ W \in 0..W /\ W - 1 \in 0..W /\ \A j \in 1..W : j - 1 \in 0..W
  OBVIOUS
<1>6. \/ script \in {Then(Prog("get_block_aligned"), s), s, d, e} /\ got = <<>>
      \/ \E j \in 1..W : script = Then(Gets(W - j), BlockEnd) /\ got = WordsFrom(a, j - 1)
      \/ script = Then(Get, BlobPut) /\ got = WordsFrom(a, W - 1)
      \/ script = BlobPut /\ got = WordsFrom(a, W)
  BY DEF ReadingBlock
<1> HIDE DEF g, e, d, s
<1> QED
  BY <1>2, <1>3, <1>4, <1>5, <1>6

LEMMA DataOpsRun ==
  ASSUME NEW ws, NEW j \in Nat, NEW n \in Nat
  PROVE  Then(DataOps(ws, j, n), AutoOff) # <<>>
<1>1. IsScript(AutoOff) /\ Then(AutoOff, <<>>) # <<>> /\ Then(AutoOff, <<>>) = AutoOff
  BY AutoScripts, NoOperation, AutoOnRuns, ThenNothing
<1>2. CASE n = 0
  BY <1>1, <1>2, DataOpsScript
<1>3. ASSUME NEW k \in Nat, n = k + 1
      PROVE  Then(DataOps(ws, j, n), AutoOff) # <<>>
  <2> DEFINE rest == Then(DataOps(ws, j + 1, k), AutoOff)
  <2>0. IsScript(AutoOff) /\ j \in Nat /\ k \in Nat
    BY <1>1
  <2>1. Then(DataOps(ws, j, k + 1), AutoOff) =
          Then(Data0(ws[j + 1]), Then(DataOps(ws, j + 1, k), AutoOff))
    BY <2>0, DataOpsNext
  <2>2. IsScript(rest)
    BY <2>0, DataOpsScript
  <2> HIDE DEF rest
  <2>3. Then(Data0(ws[j + 1]), rest) # <<>>
    BY <2>2, First DEF Data0
  <2> QED
    BY <1>3, <2>1, <2>3 DEF rest
<1>4. n = 0 \/ \E k \in Nat : n = k + 1
  <2>1. n # 0 => n - 1 \in Nat /\ n = (n - 1) + 1
    OBVIOUS
  <2> QED
    BY <2>1
<1> QED
  BY <1>2, <1>3, <1>4

\* While the block is written, the memory is the one before with the first words written.
LEMMA WritingBlockRuns ==
  ASSUME NEW a \in Nat, NEW W \in Nat \ {0}, NEW m \in [Ram -> Byte], NEW ws, Len(ws) = W,
         WritingBlock(a, W, m, ws)
  PROVE  /\ script # <<>> /\ got \in Seq(Word)
         /\ \E j \in 0..W : mem = BlockPatch(m, a, j, ws)
<1> DEFINE g == Then(DataOps(ws, 1, W - 1), AutoOff)
           e == Then(AutoOn, g)
           x == Then(Exec, e)
           v == Then(Data0(ws[1]), x)
           s == Then(LoadFrom(a), v)
<1>1. IsScript(g) /\ IsScript(e) /\ IsScript(x) /\ IsScript(v) /\ IsScript(s)
  BY WriteBlockScript
<1>2. /\ s # <<>> /\ v # <<>> /\ x # <<>> /\ e # <<>> /\ Then(Prog("set_block_aligned"), s) # <<>>
  <2> HIDE DEF g, e, x, v, s
  <2>1. Then(LoadFrom(a), v) # <<>>
    BY <1>1, First DEF LoadFrom, Data1
  <2>2. Then(Data0(ws[1]), x) # <<>>
    BY <1>1, First DEF Data0
  <2>3. Then(Exec, e) # <<>>
    BY <1>1, First DEF Exec
  <2>4. Then(AutoOn, g) # <<>>
    BY <1>1, AutoOnRuns
  <2>5. Then(Prog("set_block_aligned"), s) # <<>>
    BY <1>1, First DEF Prog
  <2> QED
    BY <2>1, <2>2, <2>3, <2>4, <2>5 DEF e, x, v, s
<1>3. \A j \in 1..W : Then(DataOps(ws, j, W - j), AutoOff) # <<>>
  <2> SUFFICES ASSUME NEW j \in 1..W PROVE Then(DataOps(ws, j, W - j), AutoOff) # <<>>
    OBVIOUS
  <2>1. j \in Nat /\ W - j \in Nat
    OBVIOUS
  <2> QED
    BY <2>1, DataOpsRun
<1>4. <<>> \in Seq(Word) /\ 0 \in 0..W /\ 1 \in 0..W /\ \A j \in 1..W : j \in 0..W
  OBVIOUS
<1>5. BlockPatch(m, a, 0, ws) = m
  <2>1. 0 \in Nat
    OBVIOUS
  <2> QED
    BY <2>1, BlockPatchNext
<1>6. /\ got = <<>>
      /\ \/ script \in {Then(Prog("set_block_aligned"), s), s, v, x} /\ mem = m
         \/ script = e /\ mem = BlockPatch(m, a, 1, ws)
         \/ \E j \in 1..W :
              script = Then(DataOps(ws, j, W - j), AutoOff) /\ mem = BlockPatch(m, a, j, ws)
  BY DEF WritingBlock
<1> HIDE DEF g, e, x, v, s
<1> QED
  BY <1>2, <1>3, <1>4, <1>5, <1>6

\* The operations of each handler start its access.
LEMMA ReadingStarts ==
  ASSUME NEW a, NEW n, NEW k, script' = ReadOf(a, n) \o Put(Kind(n), k), got' = <<>>, k = Offset(a)
  PROVE  Reading(a, n, PutOf(a, n))'
<1>1. IsScript(PutOf(a, n))
  BY OneOperation DEF PutOf, Put
<1>2. script' = ReadOf(a, n) \o PutOf(a, n)
  BY DEF PutOf
<1>3. script' = Then(get_mem_u32_aligned(Aligned(a)), SecondRead(a, n, PutOf(a, n)))
  BY <1>1, <1>2, ReadOfScript
<1> QED
  BY <1>3 DEF Reading, Fetching

LEMMA ReadingBlockStarts ==
  ASSUME NEW a, NEW W \in Nat \ {0}, script' = get_block_aligned(a, W) \o Put("blob", 0),
         got' = <<>>, Clean'
  PROVE  ReadingBlock(a, W)'
BY ReadBlockScript DEF ReadingBlock

LEMMA WritingBlockStarts ==
  ASSUME NEW a, NEW W \in Nat \ {0}, NEW ws, Len(ws) = W, NEW m,
         script' = set_block_aligned(a, ws), got' = <<>>, mem' = m, Clean'
  PROVE  WritingBlock(a, W, m, ws)'
BY WriteBlockScript DEF WritingBlock

LEMMA ReadingGprStarts ==
  ASSUME script' = <<[do |-> "transfer"]>> \o Get \o Put("u32", 0), got' = <<>>
  PROVE  ReadingGpr'
<1>1. script' = (Transfer \o Get) \o GprPut
  BY DEF Transfer, GprPut
<1>2. IsScript(Transfer) /\ IsScript(Get) /\ IsScript(GprPut)
  BY GprScripts, OperationScripts
<1>3. Then(Transfer \o Get, GprPut) = Then(Transfer, Then(Get, GprPut))
  BY <1>2, ThenThen
<1>4. script' = Then(Transfer, Then(Get, GprPut))
  BY <1>1, <1>3 DEF Then
<1> QED
  BY <1>4 DEF ReadingGpr

LEMMA WritingGprStarts ==
  ASSUME NEW w, script' = Data0(w) \o <<[do |-> "transferBack"]>>, got' = <<>>
  PROVE  WritingGpr(w)'
BY DEF WritingGpr, Then, TransferBack

-----------------------------------------------------------------------------
(* The bytes of the request, so far *)

LEMMA RequestTyped ==
  ASSUME asked \in Request
  PROVE  /\ asked.at \in Nat /\ asked.len \in Nat
         /\ asked.do \in {"m", "M", "set", "block", "p", "P"}
         /\ asked.do \notin {"p", "P"} => \A x \in asked.at..(asked.at + asked.len - 1) : x \in Ram
         /\ asked.do = "set" => asked.len \in {1, 2, 4}
         /\ asked.do = "block" => Offset(asked.at) = 0 /\ Offset(asked.len) = 0
         /\ asked.do \in {"p", "P"} => asked.len = 4
BY DataPacketsAssumption

LEMMA TurnCovered ==
  ASSUME asked \in Request, asked.do \notin {"p", "P"}, NEW a \in Nat, NEW n \in Nat,
         asked.at <= a, a + n <= asked.at + asked.len
  PROVE  Covered(a, n) /\ \A i \in 0..(n - 1) : a + i \in Touched
<1>1. \A i \in 0..(n - 1) : a + i \in asked.at..(asked.at + asked.len - 1)
  BY RequestTyped
<1> QED
  BY <1>1, RequestTyped DEF Covered, Touched

LEMMA ReadOn ==
  ASSUME asked \in Request, NEW a \in Nat, NEW n \in Nat, asked.at <= a, mem = before
  PROVE  ReadTo(a) \o ReadBytes(a, n) = ReadTo(a + n)
<1> DEFINE b == asked.at
           k == a - b
           f == before
           next == a + n
<1>1. b \in Nat /\ k \in Nat /\ a = b + k /\ next - b = k + n
  BY RequestTyped
<1>2. ReadTo(a) = [i \in 1..k |-> f[b + i - 1]]
  BY DEF ReadTo
<1> HIDE DEF k, next
<1>3. ReadTo(next) = [i \in 1..(next - b) |-> f[b + i - 1]]
  BY DEF ReadTo
<1>4. ReadBytes(a, n) = [i \in 1..n |-> f[a + i - 1]]
  BY DEF ReadBytes
<1> HIDE DEF b, f
<1>5. [i \in 1..k |-> f[b + i - 1]] \o [i \in 1..n |-> f[b + k + i - 1]] =
        [i \in 1..(k + n) |-> f[b + i - 1]]
  BY <1>1, BytesJoin
<1>6. ReadTo(next) = [i \in 1..(k + n) |-> f[b + i - 1]]
  BY <1>1, <1>3
<1>7. ReadBytes(a, n) = [i \in 1..n |-> f[b + k + i - 1]]
  BY <1>1, <1>4
<1> QED
  BY <1>2, <1>5, <1>6, <1>7 DEF next

LEMMA ReadTyped ==
  ASSUME asked \in Request, asked.do \notin {"p", "P"}, before \in [Ram -> Byte], NEW a \in Nat,
         asked.at <= a, a <= asked.at + asked.len
  PROVE  ReadTo(a) \in Seq(Byte)
<1>1. a - asked.at \in Nat
  BY RequestTyped
<1>2. ASSUME NEW i \in 1..(a - asked.at)
      PROVE  before[asked.at + i - 1] \in Byte
  <2>1. asked.at + i - 1 \in asked.at..(asked.at + asked.len - 1)
    BY RequestTyped
  <2> QED
    BY <2>1, RequestTyped
<1>3. ReadTo(a) \in [1..(a - asked.at) -> Byte]
  BY <1>2 DEF ReadTo
<1> QED
  BY <1>1, <1>3, FunctionIsSeq

LEMMA NewTyped ==
  ASSUME count \in 1..MaxRequests, NEW i \in Nat, NEW n \in Nat
  PROVE  Value(NewWord(i, n), n)
<1>1. \A k \in 0..3 : New(i + k) \in Byte /\ Zero \in Byte
  BY DEF New, Byte
<1> QED
  BY <1>1 DEF Value, NewWord, Word

LEMMA WrittenTyped ==
  ASSUME asked \in Request, before \in [Ram -> Byte], count \in 1..MaxRequests, NEW x
  PROVE  WrittenTo(x) \in [Ram -> Byte]
<1>1. ASSUME NEW a \in Ram, asked.at <= a
      PROVE  <<count, a - asked.at>> \in Byte
  <2>1. a - asked.at \in Nat
    BY <1>1, RamIsNat, RequestTyped
  <2> QED
    BY <2>1 DEF Byte
<1> QED
  BY <1>1 DEF WrittenTo

\* The bytes of a turn of handle_M are the next ones of the request.
LEMMA WrittenOn ==
  ASSUME asked \in Request, NEW a \in Nat, NEW n \in {1, 2, 4}, asked.at <= a
  PROVE  Patch(WrittenTo(a), a, n, NewWord(a - asked.at, n)) = WrittenTo(a + n)
<1> DEFINE w == NewWord(a - asked.at, n)
<1>1. ASSUME NEW x \in Ram
      PROVE  (IF x - a \in 0..(n - 1) THEN w[x - a] ELSE WrittenTo(a)[x]) = WrittenTo(a + n)[x]
  <2>1. x \in Nat /\ asked.at \in Nat
    BY RamIsNat, RequestTyped
  <2>2. /\ WrittenTo(a)[x] = IF asked.at <= x /\ x < a THEN <<count, x - asked.at>> ELSE before[x]
        /\ WrittenTo(a + n)[x] =
             IF asked.at <= x /\ x < a + n THEN <<count, x - asked.at>> ELSE before[x]
    BY DEF WrittenTo
  <2>3. CASE x - a \in 0..(n - 1)
    <3>1. x - a \in 0..3 /\ x - a < n /\ asked.at <= x /\ x < a + n
      BY <2>1, <2>3
    <3>2. (a - asked.at) + (x - a) = x - asked.at
      BY <2>1
    <3>3. w[x - a] = <<count, (a - asked.at) + (x - a)>>
      BY <3>1 DEF NewWord, New
    <3> QED
      BY <2>2, <2>3, <3>1, <3>2, <3>3
  <2>4. CASE x - a \notin 0..(n - 1)
    <3>1. asked.at <= x /\ x < a <=> asked.at <= x /\ x < a + n
      BY <2>1, <2>4
    <3> QED
      BY <2>2, <2>4, <3>1
  <2> QED
    BY <2>3, <2>4
<1>2. WrittenTo(a + n) = [x \in Ram |-> WrittenTo(a + n)[x]]
  BY DEF WrittenTo
<1> HIDE DEF w
<1>3. Patch(WrittenTo(a), a, n, w) = WrittenTo(a + n)
  BY <1>1, <1>2 DEF Patch
<1> QED
  BY <1>3 DEF w

\* So are those of a block.
LEMMA BlockWritten ==
  ASSUME asked \in Request, NEW W \in Nat, NEW j \in 0..W
  PROVE  BlockPatch(before, asked.at, j, NewWords(W)) = WrittenTo(asked.at + 4 * j)
<1> DEFINE b == asked.at
           ws == NewWords(W)
<1>1. ASSUME NEW x \in Ram
      PROVE  (IF x - b \in 0..(4 * j - 1) THEN ws[(x - b) \div 4 + 1][(x - b) % 4] ELSE before[x]) =
               WrittenTo(b + 4 * j)[x]
  <2>1. x \in Nat /\ b \in Nat
    BY RamIsNat, RequestTyped
  <2>2. WrittenTo(b + 4 * j)[x] = IF b <= x /\ x < b + 4 * j THEN <<count, x - b>> ELSE before[x]
    BY DEF WrittenTo
  <2>3. x - b \in 0..(4 * j - 1) <=> b <= x /\ x < b + 4 * j
    BY <2>1
  <2>4. CASE x - b \in 0..(4 * j - 1)
    <3> DEFINE q == (x - b) \div 4
               r == (x - b) % 4
    <3>1. q + 1 \in 1..W /\ r \in 0..3 /\ 4 * ((q + 1) - 1) + r = x - b
      BY <2>1, <2>4
    <3> HIDE DEF q, r
    <3>2. ws[q + 1] = NewWord(4 * ((q + 1) - 1), 4)
      BY <3>1 DEF NewWords
    <3>3. NewWord(4 * ((q + 1) - 1), 4)[r] = <<count, 4 * ((q + 1) - 1) + r>>
      BY <3>1 DEF NewWord, New
    <3>4. ws[q + 1][r] = <<count, x - b>>
      BY <3>1, <3>2, <3>3
    <3> QED
      BY <2>2, <2>3, <2>4, <3>4 DEF q, r
  <2>5. CASE x - b \notin 0..(4 * j - 1)
    BY <2>2, <2>3, <2>5
  <2> QED
    BY <2>4, <2>5
<1>2. WrittenTo(b + 4 * j) = [x \in Ram |-> WrittenTo(b + 4 * j)[x]]
  BY DEF WrittenTo
<1> HIDE DEF b, ws
<1>3. BlockPatch(before, b, j, ws) = WrittenTo(b + 4 * j)
  BY <1>1, <1>2 DEF BlockPatch
<1> QED
  BY <1>3 DEF b, ws

-----------------------------------------------------------------------------
(* In every state of an access *)

Histories ==
  /\ before \in [Ram -> Byte] /\ gpr \in Word /\ asked \in Request
  /\ at \in Nat /\ left \in Nat /\ Position

InAccess ==
  /\ got \in Seq(Word) /\ MemTyped /\ NothingElseTouched
  /\ autoexec \in BOOLEAN /\ cmder = FALSE

LEMMA WrittenTouches ==
  ASSUME Histories, asked.do \in {"M", "set", "block"}, NEW a \in Nat, asked.at <= a,
         a <= asked.at + asked.len, mem = WrittenTo(a)
  PROVE  MemTyped /\ NothingElseTouched
<1>1. MemTyped
  BY WrittenTyped DEF MemTyped, Histories, Position
<1>2. ASSUME NEW x \in Ram, mem[x] # before[x]
      PROVE  x \in Touched
  <2>1. asked.at <= x /\ x < a /\ x \in Nat
    BY <1>2, RamIsNat DEF WrittenTo
  <2> QED
    BY <2>1, RequestTyped DEF Touched, Histories
<1> QED
  BY <1>1, <1>2 DEF NothingElseTouched

LEMMA RunningReadHolds ==
  ASSUME Histories, RunningRead
  PROVE  script # <<>> /\ InAccess
<1>1. asked.do = "m" /\ mem = before /\ asked \in Request /\ asked.at \in Nat /\ asked.len \in Nat
  BY RequestTyped DEF RunningRead, Histories
<1>2. PICK a \in asked.at..at : ReadingTurn(a, at - a)
  BY DEF RunningRead
<1> DEFINE n == at - a
<1>3. a \in Nat /\ n \in Nat /\ asked.at <= a /\ a + n <= asked.at + asked.len
  BY <1>1, <1>2 DEF Histories, Position
<1>4. ReadingTurn(a, n)
  BY <1>2
<1> HIDE DEF n
<1>5. Covered(a, n)
  BY <1>1, <1>3, TurnCovered
<1>6. MemTyped /\ NothingElseTouched
  BY <1>1 DEF MemTyped, NothingElseTouched, Histories
<1>7. CASE n \in {1, 2, 4} /\ Clean /\ Reading(a, n, PutOf(a, n))
  <2>1. IsScript(PutOf(a, n))
    BY OneOperation DEF PutOf, Put
  <2>2. script # <<>> /\ got \in Seq(Word)
    BY <1>3, <1>5, <1>6, <1>7, <2>1, ReadingRuns
  <2> QED
    BY <1>6, <1>7, <2>2 DEF InAccess, Clean
<1>8. CASE n \in {1, 2, 4} /\ Clean /\ script = PutOf(a, n) /\ got = WordsRead(a, n)
  <2>1. PutOf(a, n) # <<>>
    BY DEF PutOf, Put
  <2>2. got \in Seq(Word)
    BY <1>3, <1>5, <1>6, <1>8, WordsReadTyped
  <2> QED
    BY <1>6, <1>8, <2>1, <2>2 DEF InAccess, Clean
<1>9. CASE n # 0 /\ Offset(n) = 0 /\ ReadingBlock(a, n \div 4)
  <2> DEFINE W == n \div 4
  <2>1. W \in Nat \ {0} /\ 4 * W = n
    BY <1>3, <1>9 DEF Offset
  <2>2. ReadingBlock(a, W)
    BY <1>9
  <2> HIDE DEF W
  <2>3. script # <<>> /\ got \in Seq(Word)
    BY <1>3, <1>5, <1>6, <2>1, <2>2, ReadingBlockRuns
  <2>4. autoexec \in BOOLEAN /\ cmder = FALSE
    BY <2>2 DEF ReadingBlock, Clean
  <2> QED
    BY <1>6, <2>3, <2>4 DEF InAccess
<1> QED
  BY <1>4, <1>7, <1>8, <1>9 DEF ReadingTurn

LEMMA RunningWriteHolds ==
  ASSUME Histories, RunningWrite
  PROVE  script # <<>> /\ InAccess
<1>1. /\ asked.do \in {"M", "set"} /\ Clean /\ asked \in Request /\ asked.at \in Nat
      /\ asked.len \in Nat /\ count \in 1..MaxRequests
  BY RequestTyped DEF RunningWrite, Histories, Position
<1>2. PICK a \in asked.at..at :
        /\ at - a \in {1, 2, 4}
        /\ Writing(a, at - a, NewWord(a - asked.at, at - a), WrittenTo(a))
  BY DEF RunningWrite
<1> DEFINE n == at - a
           w == NewWord(a - asked.at, n)
           m == WrittenTo(a)
<1>3. /\ a \in Nat /\ n \in {1, 2, 4} /\ n \in Nat /\ asked.at <= a /\ a - asked.at \in Nat
      /\ a + n <= asked.at + asked.len
  BY <1>1, <1>2 DEF Histories, Position
<1>4. Writing(a, n, w, m)
  BY <1>2
<1>5. Covered(a, n) /\ \A i \in 0..(n - 1) : a + i \in Touched
  <2> HIDE DEF n
  <2> QED
    BY <1>1, <1>3, TurnCovered
<1>6. Value(w, n) /\ m \in [Ram -> Byte]
  <2> HIDE DEF n
  <2> QED
    BY <1>1, <1>3, NewTyped, WrittenTyped DEF Histories
<1> HIDE DEF n, w, m
<1>7. /\ script # <<>> /\ got \in Seq(Word)
      /\ \E j \in 0..n : mem = Patch(m, a, j, w)
  BY <1>3, <1>4, <1>5, <1>6, WritingRuns
<1>8. PICK j \in 0..n : mem = Patch(m, a, j, w)
  BY <1>7
<1>9. MemTyped
  <2>1. j \in 0..4 /\ w \in Word
    BY <1>3, <1>6 DEF Value
  <2> QED
    BY <1>3, <1>6, <1>8, <2>1, PatchTyped DEF MemTyped
<1>10. ASSUME NEW x \in Ram, mem[x] # before[x]
       PROVE  x \in Touched
  <2>1. x \in Nat
    BY RamIsNat
  <2>2. CASE x - a \in 0..(j - 1)
    <3>1. x - a \in 0..(n - 1) /\ a + (x - a) = x
      BY <1>3, <2>1, <2>2
    <3> QED
      BY <1>5, <3>1
  <2>3. CASE x - a \notin 0..(j - 1)
    <3>1. m[x] # before[x]
      BY <1>8, <1>10, <2>3 DEF Patch
    <3>2. asked.at <= x /\ x < a
      BY <3>1 DEF m, WrittenTo
    <3> QED
      BY <1>1, <1>3, <2>1, <3>2 DEF Touched
  <2> QED
    BY <2>2, <2>3
<1> QED
  BY <1>1, <1>7, <1>9, <1>10 DEF InAccess, NothingElseTouched, Clean

LEMMA NewWordsTyped ==
  ASSUME count \in 1..MaxRequests, NEW W \in Nat
  PROVE  Len(NewWords(W)) = W /\ \A i \in 1..W : NewWords(W)[i] \in Word
<1>1. ASSUME NEW i \in 1..W
      PROVE  NewWord(4 * (i - 1), 4) \in Word
  <2>1. 4 * (i - 1) \in Nat /\ 4 \in Nat
    OBVIOUS
  <2> QED
    BY <2>1, NewTyped DEF Value
<1>2. NewWords(W) \in [1..W -> Word]
  BY <1>1 DEF NewWords
<1>3. Len(NewWords(W)) = W
  BY <1>2, FunctionIsSeq
<1> QED
  BY <1>2, <1>3

LEMMA RunningBlockHolds ==
  ASSUME Histories, RunningBlock
  PROVE  script # <<>> /\ InAccess
<1> DEFINE W == asked.len \div 4
           ws == NewWords(W)
           a == asked.at
<1>1. /\ asked.do = "block" /\ asked \in Request /\ a \in Nat /\ W \in Nat \ {0}
      /\ asked.len = 4 * W /\ count \in 1..MaxRequests
  BY RequestTyped DEF RunningBlock, Histories, Position, Offset
<1>2. WritingBlock(a, W, before, ws) /\ before \in [Ram -> Byte]
  BY DEF RunningBlock, Histories
<1>3. autoexec \in BOOLEAN /\ cmder = FALSE
  BY <1>2 DEF WritingBlock, Clean
<1> HIDE DEF W
<1>4. Len(ws) = W
  BY <1>1, NewWordsTyped
<1> HIDE DEF ws, a
<1>5. /\ script # <<>> /\ got \in Seq(Word)
      /\ \E j \in 0..W : mem = BlockPatch(before, a, j, ws)
  BY <1>1, <1>2, <1>4, WritingBlockRuns
<1>6. PICK j \in 0..W : mem = BlockPatch(before, a, j, ws)
  BY <1>5
<1>7. mem = WrittenTo(asked.at + 4 * j)
  BY <1>1, <1>6, BlockWritten DEF a, ws
<1>8. asked.at + 4 * j \in Nat /\ asked.at <= asked.at + 4 * j
      /\ asked.at + 4 * j <= asked.at + asked.len
  BY <1>1 DEF a
<1>9. MemTyped /\ NothingElseTouched
  <2>1. asked.do \in {"M", "set", "block"}
    BY <1>1
  <2> QED
    BY <1>7, <1>8, <2>1, WrittenTouches
<1> QED
  BY <1>3, <1>5, <1>9 DEF InAccess

LEMMA RunningGprHolds ==
  ASSUME Histories, RunningGpr
  PROVE  script # <<>> /\ InAccess
<1>1. mem = before /\ Clean /\ gpr \in Word /\ before \in [Ram -> Byte]
  BY DEF RunningGpr, Histories
<1>2. script # <<>> /\ got \in Seq(Word)
  BY <1>1, GprRuns DEF RunningGpr
<1> QED
  BY <1>1, <1>2 DEF InAccess, Clean, MemTyped, NothingElseTouched

\* The script runs, and nothing but the request's bytes is touched.
LEMMA RunningHolds == Histories /\ Running => script # <<>> /\ InAccess
BY RunningReadHolds, RunningWriteHolds, RunningBlockHolds, RunningGprHolds DEF Running

LEMMA IdleHolds == Histories /\ Idle /\ cmder = FALSE => InAccess
<1> SUFFICES ASSUME Histories, Idle, cmder = FALSE
             PROVE  InAccess
  OBVIOUS
<1>1. got \in Seq(Word) /\ autoexec \in BOOLEAN
  <2>1. got = <<>> /\ autoexec = FALSE
    BY DEF Idle
  <2>2. <<>> \in Seq(Word)
    OBVIOUS
  <2> QED
    BY <2>1, <2>2
<1>2. CASE asked.do \in {"m", "p", "P"}
  BY <1>1, <1>2 DEF Idle, Histories, InAccess, MemTyped, NothingElseTouched
<1>3. CASE asked.do \in {"M", "set", "block"}
  <2>1. mem = WrittenTo(at)
    BY <1>3 DEF Idle
  <2>2. at \in Nat /\ asked.at <= at /\ at <= asked.at + asked.len
    BY RequestTyped DEF Histories, Position
  <2>3. MemTyped /\ NothingElseTouched
    BY <1>3, <2>1, <2>2, WrittenTouches
  <2> QED
    BY <1>1, <2>3 DEF InAccess
<1> QED
  BY <1>2, <1>3, RequestTyped DEF Histories

-----------------------------------------------------------------------------
(* One operation of an access *)

LEMMA ReadingTurnStep ==
  ASSUME NEW a \in Nat, NEW n \in Nat, Covered(a, n), PortTypes, MemTyped,
         ReadingTurn(a, n), Operation
  PROVE  /\ PortTypes' /\ UNCHANGED <<mem, gpr, at, left, status, histVars>>
         /\ \/ ReadingTurn(a, n)' /\ reply' = reply
            \/ /\ script' = <<>> /\ got' = <<>> /\ Clean'
               /\ reply' = reply \o ReadBytes(a, n)
<1>1. CASE n \in {1, 2, 4} /\ Clean /\ Reading(a, n, PutOf(a, n))
  <2>1. IsScript(PutOf(a, n))
    BY OneOperation DEF PutOf, Put
  <2>2. /\ Clean' /\ PortTypes' /\ UNCHANGED <<mem, gpr, handlerVars>>
        /\ \/ Reading(a, n, PutOf(a, n))'
           \/ script' = PutOf(a, n) /\ got' = WordsRead(a, n)
    BY <1>1, <2>1, ReadingStep
  <2>3. WordsRead(a, n)' = WordsRead(a, n)
    BY <2>2 DEF WordsRead, Low, High
  <2> QED
    BY <1>1, <2>2, <2>3 DEF ReadingTurn, handlerVars
<1>2. CASE n \in {1, 2, 4} /\ Clean /\ script = PutOf(a, n) /\ got = WordsRead(a, n)
  <2>1. /\ script' = <<>> /\ got' = <<>> /\ reply' = reply \o ReadBytes(a, n)
        /\ UNCHANGED <<mem, gpr, dmVars, at, left, status, histVars>>
    BY <1>2, AnswerOfWords
  <2>2. Clean' /\ PortTypes'
    BY <1>2, <2>1 DEF dmVars, Clean, PortTypes
  <2> QED
    BY <2>1, <2>2
<1>3. CASE n # 0 /\ Offset(n) = 0 /\ ReadingBlock(a, n \div 4)
  <2> DEFINE W == n \div 4
  <2>1. W \in Nat \ {0} /\ 4 * W = n
    BY <1>3 DEF Offset
  <2>2. ReadingBlock(a, W)
    BY <1>3
  <2> HIDE DEF W
  <2>3. Covered(a, 4 * W)
    BY <2>1
  <2>4. /\ PortTypes' /\ UNCHANGED <<mem, gpr, at, left, status, histVars>>
        /\ \/ ReadingBlock(a, W)' /\ reply' = reply
           \/ /\ script' = <<>> /\ got' = <<>> /\ Clean'
              /\ reply' = reply \o ReadBytes(a, 4 * W)
    BY <2>1, <2>2, <2>3, ReadingBlockStep
  <2>5. CASE ReadingBlock(a, W)' /\ reply' = reply
    BY <1>3, <2>4, <2>5 DEF ReadingTurn, W
  <2>6. CASE script' = <<>> /\ got' = <<>> /\ Clean' /\ reply' = reply \o ReadBytes(a, 4 * W)
    BY <2>1, <2>4, <2>6
  <2> QED
    BY <2>4, <2>5, <2>6
<1> QED
  BY <1>1, <1>2, <1>3 DEF ReadingTurn

\* What an operation leaves: the access goes on, or it is over.
GoesOn ==
  /\ PortTypes' /\ gpr' \in Word /\ reply' \in Seq(Byte)
  /\ UNCHANGED <<at, left, status, histVars>> /\ cmder' = FALSE
  /\ Running' \/ Idle'

LEMMA ReadOperation ==
  ASSUME Histories, PortTypes, RunningRead, Operation
  PROVE  GoesOn
<1>1. /\ asked.do = "m" /\ asked.do \notin {"p", "P"} /\ mem = before /\ asked \in Request
      /\ asked.at \in Nat /\ asked.len \in Nat /\ gpr \in Word /\ before \in [Ram -> Byte]
  BY RequestTyped DEF RunningRead, Histories
<1>2. PICK a \in asked.at..at : reply = ReadTo(a) /\ ReadingTurn(a, at - a)
  BY DEF RunningRead
<1>3. PICK n : n = at - a
  OBVIOUS
<1>4. /\ a \in Nat /\ n \in Nat /\ asked.at <= a /\ a + n = at /\ at <= asked.at + asked.len
      /\ a <= asked.at + asked.len /\ a + n <= asked.at + asked.len /\ asked.at <= at
  BY <1>1, <1>2, <1>3 DEF Histories, Position
<1>5. Covered(a, n)
  BY <1>1, <1>4, TurnCovered
<1>6. MemTyped /\ ReadingTurn(a, n)
  BY <1>1, <1>2, <1>3 DEF MemTyped
<1>7. /\ PortTypes' /\ UNCHANGED <<mem, gpr, at, left, status, histVars>>
      /\ \/ ReadingTurn(a, n)' /\ reply' = reply
         \/ /\ script' = <<>> /\ got' = <<>> /\ Clean'
            /\ reply' = reply \o ReadBytes(a, n)
  BY <1>4, <1>5, <1>6, ReadingTurnStep
<1>8. UNCHANGED <<asked, count, before, at, mem>>
  BY <1>7 DEF histVars
<1>9. CASE ReadingTurn(a, n)' /\ reply' = reply
  <2>1. ReadTo(a)' = ReadTo(a)
    BY <1>8 DEF ReadTo
  <2>2. a \in asked'.at..at' /\ n = at' - a
    BY <1>2, <1>3, <1>8
  <2>3. ReadingTurn(a, at - a)'
    BY <1>9, <2>2
  <2>4. RunningRead'
    BY <1>1, <1>2, <1>8, <1>9, <2>1, <2>2, <2>3 DEF RunningRead
  <2>5. cmder' = FALSE
    BY <1>9 DEF ReadingTurn, Clean, ReadingBlock
  <2>6. reply' \in Seq(Byte)
    BY <1>1, <1>2, <1>4, <1>9, ReadTyped
  <2> QED
    BY <1>1, <1>7, <2>4, <2>5, <2>6 DEF GoesOn, Running
<1>10. CASE script' = <<>> /\ got' = <<>> /\ Clean' /\ reply' = reply \o ReadBytes(a, n)
  <2>1. reply' = ReadTo(at)
    <3>1. ReadTo(a) \o ReadBytes(a, n) = ReadTo(a + n)
      BY <1>1, <1>4, ReadOn
    <3> QED
      BY <1>2, <1>4, <1>10, <3>1
  <2>2. reply' = ReadTo(at)'
    BY <1>8, <2>1 DEF ReadTo
  <2>3. reply' \in Seq(Byte)
    <3>1. at \in Nat
      BY DEF Histories
    <3> QED
      BY <1>1, <1>4, <2>1, <3>1, ReadTyped
  <2>4. Idle'
    BY <1>1, <1>8, <1>10, <2>2 DEF Idle, Clean
  <2> QED
    BY <1>1, <1>7, <1>10, <2>3, <2>4 DEF GoesOn, Clean
<1> QED
  BY <1>7, <1>9, <1>10

LEMMA WriteOperation ==
  ASSUME Histories, PortTypes, reply \in Seq(Byte), RunningWrite, Operation
  PROVE  GoesOn
<1>1. /\ asked.do \in {"M", "set"} /\ asked.do \notin {"p", "P"} /\ Clean /\ asked \in Request
      /\ asked.at \in Nat /\ asked.len \in Nat /\ count \in 1..MaxRequests /\ gpr \in Word
      /\ before \in [Ram -> Byte]
  BY RequestTyped DEF RunningWrite, Histories, Position
<1>2. PICK a \in asked.at..at :
        /\ at - a \in {1, 2, 4}
        /\ Writing(a, at - a, NewWord(a - asked.at, at - a), WrittenTo(a))
  BY DEF RunningWrite
<1>3. PICK n : n = at - a
  OBVIOUS
<1>4. /\ a \in Nat /\ n \in {1, 2, 4} /\ n \in Nat /\ asked.at <= a /\ a - asked.at \in Nat
      /\ a + n = at /\ a + n <= asked.at + asked.len
  BY <1>1, <1>2, <1>3 DEF Histories, Position
<1>5. PICK w : w = NewWord(a - asked.at, n)
  OBVIOUS
<1>6. PICK m : m = WrittenTo(a)
  OBVIOUS
<1>7. Covered(a, n)
  BY <1>1, <1>4, TurnCovered
<1>8. Value(w, n) /\ m \in [Ram -> Byte]
  BY <1>1, <1>4, <1>5, <1>6, NewTyped, WrittenTyped
<1>9. Writing(a, n, w, m)
  BY <1>2, <1>3, <1>5, <1>6
<1>10. /\ Clean' /\ PortTypes' /\ UNCHANGED <<gpr, handlerVars>>
       /\ \/ Writing(a, n, w, m)'
          \/ script' = <<>> /\ got' = <<>> /\ mem' = Patch(m, a, n, w)
  BY <1>1, <1>4, <1>7, <1>8, <1>9, WritingStep
<1>11. UNCHANGED <<asked, count, before, at, left, status, reply>>
  BY <1>10 DEF histVars, handlerVars
<1>12. CASE Writing(a, n, w, m)'
  <2>1. w = NewWord(a - asked.at, n)' /\ m = WrittenTo(a)'
    BY <1>5, <1>6, <1>11 DEF NewWord, New, WrittenTo
  <2>2. a \in asked'.at..at' /\ n = at' - a
    BY <1>2, <1>3, <1>11
  <2>3. Writing(a, at - a, NewWord(a - asked.at, at - a), WrittenTo(a))'
    BY <1>12, <2>1, <2>2
  <2>4. RunningWrite'
    BY <1>1, <1>4, <1>10, <1>11, <2>2, <2>3 DEF RunningWrite
  <2> QED
    BY <1>1, <1>10, <1>11, <2>4 DEF GoesOn, Running, Clean, histVars
<1>13. CASE script' = <<>> /\ got' = <<>> /\ mem' = Patch(m, a, n, w)
  <2>1. mem' = WrittenTo(at)
    BY <1>1, <1>4, <1>5, <1>6, <1>13, WrittenOn
  <2>2. mem' = WrittenTo(at)'
    BY <1>11, <2>1 DEF WrittenTo
  <2>3. Idle'
    BY <1>1, <1>10, <1>11, <1>13, <2>2 DEF Idle, Clean
  <2> QED
    BY <1>1, <1>10, <1>11, <2>3 DEF GoesOn, Clean, histVars
<1> QED
  BY <1>10, <1>12, <1>13

LEMMA BlockOperation ==
  ASSUME Histories, PortTypes, reply \in Seq(Byte), RunningBlock, Operation
  PROVE  GoesOn
<1>1. /\ asked.do = "block" /\ asked \in Request /\ asked.at \in Nat /\ left = 0
      /\ asked.len \in Nat /\ asked.len # 0 /\ Offset(asked.len) = 0
      /\ count \in 1..MaxRequests /\ before \in [Ram -> Byte] /\ gpr \in Word
  BY RequestTyped DEF RunningBlock, Histories, Position
<1>2. PICK W : W = asked.len \div 4
  OBVIOUS
<1>3. PICK ws : ws = NewWords(W)
  OBVIOUS
<1>4. PICK a, m : a = asked.at /\ m = before
  OBVIOUS
<1>5. W \in Nat \ {0} /\ asked.len = 4 * W
  BY <1>1, <1>2 DEF Offset
<1>6. a \in Nat /\ at = a + 4 * W /\ m \in [Ram -> Byte]
  BY <1>1, <1>4, <1>5 DEF Histories, Position
<1>7. Covered(a, 4 * W)
  <2>1. 4 * W \in Nat /\ asked.at <= a /\ a + 4 * W <= asked.at + asked.len
    BY <1>1, <1>4, <1>5
  <2>2. asked.do \notin {"p", "P"}
    BY <1>1
  <2> QED
    BY <1>1, <1>6, <2>1, <2>2, TurnCovered
<1>8. \A i \in 1..W : ws[i] \in Word
  <2>1. W \in Nat
    BY <1>5
  <2> QED
    BY <1>1, <1>3, <2>1, NewWordsTyped
<1>9. WritingBlock(a, W, m, ws)
  BY <1>2, <1>3, <1>4 DEF RunningBlock
<1>10. /\ PortTypes' /\ UNCHANGED <<gpr, handlerVars>>
       /\ \/ WritingBlock(a, W, m, ws)'
          \/ script' = <<>> /\ got' = <<>> /\ Clean' /\ mem' = BlockPatch(m, a, W, ws)
  BY <1>5, <1>6, <1>7, <1>8, <1>9, WritingBlockStep
<1>11. UNCHANGED <<asked, count, before, at, left, status, reply>>
  BY <1>10 DEF histVars, handlerVars
<1>12. CASE WritingBlock(a, W, m, ws)'
  <2>1. ws = NewWords(W)' /\ W = (asked.len \div 4)' /\ a = asked'.at /\ m = before'
    BY <1>2, <1>3, <1>4, <1>11 DEF NewWords, NewWord, New
  <2>2. WritingBlock(asked.at, asked.len \div 4, before, NewWords(asked.len \div 4))'
    BY <1>12, <2>1
  <2>3. RunningBlock'
    BY <1>1, <1>11, <2>2 DEF RunningBlock
  <2>4. cmder' = FALSE
    BY <1>12 DEF WritingBlock, Clean
  <2> QED
    BY <1>1, <1>10, <1>11, <2>3, <2>4 DEF GoesOn, Running, histVars
<1>13. CASE script' = <<>> /\ got' = <<>> /\ Clean' /\ mem' = BlockPatch(m, a, W, ws)
  <2>1. mem' = WrittenTo(at)
    <3>1. W \in Nat /\ W \in 0..W
      BY <1>5
    <3>2. BlockPatch(before, asked.at, W, NewWords(W)) = WrittenTo(asked.at + 4 * W)
      BY <1>1, <3>1, BlockWritten
    <3> QED
      BY <1>3, <1>4, <1>6, <1>13, <3>2
  <2>2. mem' = WrittenTo(at)'
    BY <1>11, <2>1 DEF WrittenTo
  <2>3. Idle'
    BY <1>1, <1>11, <1>13, <2>2 DEF Idle, Clean
  <2> QED
    BY <1>1, <1>10, <1>11, <1>13, <2>3 DEF GoesOn, Clean, histVars
<1> QED
  BY <1>10, <1>12, <1>13

LEMMA GprTyped ==
  ASSUME count \in 1..MaxRequests
  PROVE  TakeHex(Bytes(NewWord(0, 4), 4)) \in Word
<1> DEFINE v == NewWord(0, 4)
           b == Bytes(v, 4)
<1>1. v \in Word
  <2>1. 0 \in Nat /\ 4 \in Nat
    OBVIOUS
  <2> QED
    BY <2>1, NewTyped DEF Value
<1> HIDE DEF v
<1>2. \A i \in 0..3 : b[4 - i] = v[4 - i - 1] /\ 4 - i - 1 \in 0..3
  BY DEF Bytes
<1>3. \A i \in 0..3 : b[4 - i] \in Byte
  BY <1>1, <1>2 DEF Word
<1> HIDE DEF b
<1>4. TakeHex(b) \in Word
  BY <1>3 DEF TakeHex, Word
<1> QED
  BY <1>4 DEF b, v

LEMMA GprOperation ==
  ASSUME Histories, PortTypes, reply \in Seq(Byte), RunningGpr, Operation
  PROVE  GoesOn
<1>1. /\ mem = before /\ left = 0 /\ Clean /\ gpr \in Word /\ count \in 1..MaxRequests
  BY DEF RunningGpr, Histories, Position
<1>2. CASE asked.do = "p" /\ reply = <<>> /\ ReadingGpr
  <2>1. /\ Clean' /\ PortTypes' /\ UNCHANGED <<mem, gpr, at, left, status, histVars>>
        /\ \/ ReadingGpr' /\ reply' = reply /\ got' \in Seq(Word)
           \/ script' = <<>> /\ got' = <<>> /\ reply' = reply \o Bytes(gpr, 4)
    BY <1>1, <1>2, ReadingGprStep
  <2>2. UNCHANGED <<asked, count, before>>
    BY <2>1 DEF histVars
  <2>3. CASE ReadingGpr' /\ reply' = reply
    <3>1. RunningGpr'
      BY <1>1, <1>2, <2>1, <2>2, <2>3 DEF RunningGpr
    <3>2. reply' \in Seq(Byte)
      BY <2>3
    <3> QED
      BY <1>1, <2>1, <3>1, <3>2 DEF GoesOn, Running, Clean
  <2>4. CASE script' = <<>> /\ got' = <<>> /\ reply' = reply \o Bytes(gpr, 4)
    <3>1. Bytes(gpr, 4) \in Seq(Byte)
      <4>1. \A i \in 1..4 : i - 1 \in 0..3 /\ gpr[i - 1] \in Byte
        BY <1>1 DEF Word
      <4>2. Bytes(gpr, 4) \in [1..4 -> Byte] /\ 4 \in Nat
        BY <4>1 DEF Bytes
      <4> QED
        BY <4>2, FunctionIsSeq
    <3>2. reply' = Bytes(gpr, 4)
      <4>1. \A s \in Seq(Byte) : <<>> \o s = s
        OBVIOUS
      <4> QED
        BY <1>2, <2>4, <3>1, <4>1
    <3>3. Bytes(gpr, 4)' = Bytes(gpr, 4)
      BY <2>1 DEF Bytes
    <3>4. asked'.do = "p" /\ left' = 0 /\ mem' = before' /\ autoexec' = FALSE
      BY <1>1, <1>2, <2>1, <2>2 DEF Clean
    <3>5. Idle'
      BY <2>4, <3>2, <3>3, <3>4 DEF Idle
    <3> QED
      BY <1>1, <2>1, <3>1, <3>2, <3>5 DEF GoesOn, Clean
  <2> QED
    BY <2>1, <2>3, <2>4
<1>3. CASE asked.do = "P" /\ WritingGpr(TakeHex(Bytes(NewWord(0, 4), 4)))
  <2>1. PICK w : w = TakeHex(Bytes(NewWord(0, 4), 4))
    OBVIOUS
  <2>2. w \in Word /\ WritingGpr(w)
    BY <1>1, <1>3, <2>1, GprTyped
  <2>3. /\ Clean' /\ PortTypes' /\ gpr' \in Word /\ UNCHANGED <<mem, handlerVars>>
        /\ got' = <<>> /\ (WritingGpr(w)' \/ script' = <<>>)
    BY <1>1, <2>2, WritingGprStep
  <2>4. UNCHANGED <<asked, count, before, at, left, status, reply>>
    BY <2>3 DEF histVars, handlerVars
  <2>5. CASE WritingGpr(w)'
    <3>1. w = TakeHex(Bytes(NewWord(0, 4), 4))'
      BY <2>1, <2>4 DEF TakeHex, Bytes, NewWord, New
    <3>2. WritingGpr(TakeHex(Bytes(NewWord(0, 4), 4)))'
      BY <2>5, <3>1
    <3>3. RunningGpr'
      BY <1>1, <1>3, <2>3, <2>4, <3>2 DEF RunningGpr
    <3> QED
      BY <2>3, <2>4, <3>3 DEF GoesOn, Running, Clean, histVars
  <2>6. CASE script' = <<>>
    <3>1. Idle'
      BY <1>1, <1>3, <2>3, <2>4, <2>6 DEF Idle, Clean
    <3> QED
      BY <2>3, <2>4, <3>1 DEF GoesOn, Clean, histVars
  <2> QED
    BY <2>3, <2>5, <2>6
<1> QED
  BY <1>2, <1>3 DEF RunningGpr

LEMMA AccessOperation ==
  ASSUME Histories, PortTypes, reply \in Seq(Byte), Running, Operation
  PROVE  GoesOn
BY ReadOperation, WriteOperation, BlockOperation, GprOperation DEF Running

-----------------------------------------------------------------------------
(* A turn of a handler starts an access *)

Waiting == status = "busy" /\ script = <<>> /\ left # 0
SameAccess == UNCHANGED <<mem, gpr, dmVars, saved, got, reply, status, histVars>>

LEMMA WaitingIsIdle ==
  ASSUME IInv, status = "busy", script = <<>>
  PROVE  /\ Histories /\ Position /\ Idle /\ got = <<>> /\ Clean
         /\ asked.at \in Nat /\ asked.len \in Nat
<1>1. Histories
  BY DEF IInv, Histories, TypeOK
<1>2. Idle /\ Position
  BY <1>1, RunningHolds DEF IInv
<1> QED
  BY <1>1, <1>2, RequestTyped DEF Idle, Clean, IInv, Histories

LEMMA TurnKeeps ==
  ASSUME IInv, Waiting, SameAccess, NEW n \in 1..left, at' = at + n, left' = left - n,
         asked.do \in {"m", "M"} \/ n = left, Running'
  PROVE  IInv'
<1>1. Position /\ asked.at \in Nat /\ asked.len \in Nat /\ at \in Nat /\ left \in Nat
  BY WaitingIsIdle DEF Waiting, Histories
<1>2. TypeOK
  BY DEF IInv
<1>3. TypeOK'
  BY <1>1, <1>2 DEF TypeOK, SameAccess, dmVars, histVars
<1>4. UNCHANGED <<mem, status, asked, count, before, cmder>>
  BY DEF SameAccess, dmVars, histVars
<1>5. Position'
  BY <1>1, <1>4 DEF Position, InBytes
<1>6. NothingElseTouched'
  BY <1>4 DEF IInv, NothingElseTouched, Touched
<1> QED
  BY <1>3, <1>4, <1>5, <1>6 DEF IInv, Waiting

LEMMA ChunkIsWords ==
  ASSUME NEW n \in Nat, n >= 4
  PROVE  /\ Chunk(n) \in 1..n /\ Offset(Chunk(n)) = 0
         /\ Chunk(n) \div 4 \in Nat \ {0} /\ 4 * (Chunk(n) \div 4) = Chunk(n)
<1>1. BufBytes \in Nat \ {0} /\ BufBytes % 4 = 0
  BY DataPacketsAssumption DEF Offset
<1>2. n - (n % 4) \in 4..n /\ (n - (n % 4)) % 4 = 0
  OBVIOUS
<1>3. Chunk(n) \in 1..n /\ Chunk(n) % 4 = 0
  BY <1>1, <1>2 DEF Chunk, Aligned
<1> QED
  BY <1>3 DEF Offset

LEMMA ReadTurnStarts ==
  ASSUME IInv, Waiting, SameAccess, asked.do = "m", NEW n \in 1..left, NEW a, a = at,
         at' = a + n, left' = left - n, ReadingTurn(a, n)'
  PROVE  IInv'
<1>1. Idle /\ Histories /\ Position /\ asked.at \in Nat /\ a \in Nat /\ left \in Nat
  BY WaitingIsIdle DEF Waiting, Histories
<1>2. UNCHANGED <<mem, asked, before, reply>>
  BY DEF SameAccess, histVars
<1>3. reply = ReadTo(a) /\ mem = before
  BY <1>1 DEF Idle
<1>4. reply' = ReadTo(a)'
  BY <1>2, <1>3 DEF ReadTo
<1>5. a \in asked'.at..at' /\ n = at' - a
  BY <1>1, <1>2 DEF Position
<1>6. ReadingTurn(a, at - a)'
  BY <1>5
<1>7. RunningRead'
  BY <1>2, <1>3, <1>4, <1>5, <1>6 DEF RunningRead
<1> QED
  BY <1>7, TurnKeeps DEF Running

LEMMA handle_mKeeps ==
  ASSUME IInv, handle_m
  PROVE  IInv'
<1>1. Waiting /\ asked.do = "m" /\ SameAccess
  BY DEF handle_m, Waiting, SameAccess
<1>2. /\ Idle /\ Histories /\ got = <<>> /\ Clean /\ at \in Nat /\ left \in Nat /\ left # 0
  BY <1>1, WaitingIsIdle DEF Waiting, Histories
<1>3. got' = <<>> /\ Clean'
  BY <1>1, <1>2 DEF SameAccess, dmVars, Clean
<1>4. PICK a : a = at
  OBVIOUS
<1>5. ASSUME NEW n \in {1, 2, 4}, n <= left, Turn(n, ReadOf(at, n) \o Put(Kind(n), Offset(at)))
      PROVE  IInv'
  <2>1. script' = ReadOf(a, n) \o Put(Kind(n), Offset(a)) /\ at' = a + n /\ left' = left - n
    BY <1>4, <1>5 DEF Turn
  <2>2. Reading(a, n, PutOf(a, n))'
    BY <1>3, <2>1, ReadingStarts
  <2>3. ReadingTurn(a, n)'
    BY <1>3, <2>2 DEF ReadingTurn
  <2>4. n \in 1..left
    BY <1>2, <1>5
  <2> QED
    BY <1>1, <1>4, <2>1, <2>3, <2>4, ReadTurnStarts
<1>6. ASSUME left >= 4,
             Turn(Chunk(left), get_block_aligned(at, Chunk(left) \div 4) \o Put("blob", 0))
      PROVE  IInv'
  <2>1. PICK n : n = Chunk(left)
    OBVIOUS
  <2>2. PICK W : W = n \div 4
    OBVIOUS
  <2>3. n \in 1..left /\ Offset(n) = 0 /\ W \in Nat \ {0}
    BY <1>2, <1>6, <2>1, <2>2, ChunkIsWords
  <2>4. script' = get_block_aligned(a, W) \o Put("blob", 0) /\ at' = a + n /\ left' = left - n
    BY <1>4, <1>6, <2>1, <2>2 DEF Turn
  <2>5. ReadingBlock(a, W)'
    BY <1>3, <2>3, <2>4, ReadingBlockStarts
  <2>6. ReadingTurn(a, n)'
    BY <1>2, <2>2, <2>3, <2>5 DEF ReadingTurn
  <2> QED
    BY <1>1, <1>4, <2>3, <2>4, <2>6, ReadTurnStarts
<1>7. Kind(2) = "u16" /\ Kind(4) = "u32" /\ Kind(1) = "u8"
  BY DEF Kind
<1>8. \/ left = 2 /\ Turn(2, ReadOf(at, 2) \o Put("u16", Offset(at)))
      \/ left = 4 /\ Turn(4, ReadOf(at, 4) \o Put("u32", Offset(at)))
      \/ /\ left >= 4
         /\ Turn(Chunk(left), get_block_aligned(at, Chunk(left) \div 4) \o Put("blob", 0))
      \/ Turn(1, ReadOf(at, 1) \o Put("u8", Offset(at)))
  BY DEF handle_m
<1> QED
  BY <1>2, <1>5, <1>6, <1>7, <1>8

LEMMA WriteTurnStarts ==
  ASSUME IInv, Waiting, SameAccess, asked.do \in {"M", "set"}, NEW n \in {1, 2, 4}, n <= left,
         asked.do = "M" \/ n = left, NEW i, i = at - asked.at, Turn(n, set_mem(at, n, NewWord(i, n)))
  PROVE  IInv'
<1>1. /\ Idle /\ Histories /\ Position /\ got = <<>> /\ Clean /\ at \in Nat /\ left \in Nat
      /\ asked.at \in Nat
  BY WaitingIsIdle DEF Waiting, Histories
<1>2. UNCHANGED <<mem, asked, before, count, got, autoexec, cmder>>
  BY DEF SameAccess, dmVars, histVars
<1>3. PICK a : a = at
  OBVIOUS
<1>4. PICK w : w = NewWord(a - asked.at, n)
  OBVIOUS
<1>5. PICK m : m = WrittenTo(a)
  OBVIOUS
<1>6. script' = set_mem(a, n, w) /\ at' = a + n /\ left' = left - n
  BY <1>3, <1>4 DEF Turn
<1>7. mem' = m /\ got' = <<>> /\ Clean'
  BY <1>1, <1>2, <1>3, <1>5 DEF Idle, Clean
<1>8. Writing(a, n, w, m)'
  BY <1>1, <1>3, <1>6, <1>7, WritingStarts
<1>9. w = NewWord(a - asked.at, n)' /\ m = WrittenTo(a)'
  BY <1>2, <1>4, <1>5 DEF NewWord, New, WrittenTo
<1>10. a \in asked'.at..at' /\ n = at' - a
  BY <1>1, <1>2, <1>3, <1>6 DEF Position
<1>11. Writing(a, at - a, NewWord(a - asked.at, at - a), WrittenTo(a))'
  BY <1>8, <1>9, <1>10
<1>12. RunningWrite'
  BY <1>2, <1>7, <1>10, <1>11 DEF RunningWrite
<1>13. n \in 1..left /\ at' = at + n
  BY <1>1, <1>3, <1>6
<1> QED
  BY <1>6, <1>12, <1>13, TurnKeeps DEF Running

\* No M packet takes the block path, so take_blob never fails before.
LEMMA handle_MKeeps ==
  ASSUME IInv, handle_M
  PROVE  IInv'
<1>1. Waiting /\ asked.do = "M" /\ SameAccess
  BY DEF handle_M, Waiting, SameAccess
<1>2. /\ Position /\ at \in Nat /\ left \in Nat /\ left # 0 /\ asked.at \in Nat /\ asked.len \in Nat
  BY <1>1, WaitingIsIdle DEF Waiting, Histories
<1>3. \A a \in asked.at..(asked.at + asked.len - 4) : Offset(a) # 0
  BY <1>1, <1>2 DEF Position, InBytes
<1>4. ~(Offset(at) = 0 /\ left >= 4)
  <2>1. left >= 4 => at \in asked.at..(asked.at + asked.len - 4)
    BY <1>2 DEF Position
  <2> QED
    BY <1>3, <2>1
<1>5. ~Failed
  <2> SUFFICES ASSUME NEW a \in Ram, a >= asked.at, Offset(a) = 0, a + 4 <= asked.at + asked.len
               PROVE  FALSE
    BY DEF Failed
  <2>1. a \in asked.at..(asked.at + asked.len - 4)
    BY <1>2, RamIsNat
  <2> QED
    BY <1>3, <2>1
<1>6. Turn(1, set_mem(at, 1, NewWord(Done, 1)))
  BY <1>4, <1>5 DEF handle_M
<1>7. PICK i : i = Done
  OBVIOUS
<1>8. i = at - asked.at
  BY <1>2, <1>7 DEF Done, Position
<1>9. Turn(1, set_mem(at, 1, NewWord(i, 1))) /\ 1 <= left
  BY <1>2, <1>6, <1>7
<1> QED
  BY <1>1, <1>8, <1>9, WriteTurnStarts

LEMMA CallSetKeeps ==
  ASSUME IInv, CallSet
  PROVE  IInv'
<1>1. Waiting /\ asked.do = "set" /\ SameAccess
  BY DEF CallSet, Waiting, SameAccess
<1>2. /\ Position /\ at \in Nat /\ left \in Nat /\ left # 0 /\ asked.at \in Nat /\ asked.len \in Nat
      /\ asked \in Request
  BY <1>1, WaitingIsIdle DEF Waiting, Histories
<1>3. at = asked.at /\ left = asked.len /\ left \in {1, 2, 4}
  BY <1>1, <1>2, RequestTyped DEF Position
<1>4. PICK n : n = left
  OBVIOUS
<1>5. PICK i : i = 0
  OBVIOUS
<1>6. Turn(n, set_mem(at, n, NewWord(i, n)))
  BY <1>4, <1>5 DEF CallSet
<1>7. i = at - asked.at /\ n \in {1, 2, 4} /\ n <= left
  BY <1>2, <1>3, <1>4, <1>5
<1> QED
  BY <1>1, <1>4, <1>6, <1>7, WriteTurnStarts

LEMMA CallSetBlockKeeps ==
  ASSUME IInv, CallSetBlock
  PROVE  IInv'
<1>1. Waiting /\ asked.do = "block" /\ SameAccess
  BY DEF CallSetBlock, Waiting, SameAccess
<1>2. /\ Idle /\ Position /\ at \in Nat /\ left \in Nat /\ left # 0 /\ got = <<>> /\ Clean
      /\ asked.at \in Nat /\ asked.len \in Nat /\ asked \in Request /\ count \in 1..MaxRequests
      /\ before \in [Ram -> Byte]
  BY <1>1, WaitingIsIdle DEF Waiting, Histories, Position
<1>3. at = asked.at /\ left = asked.len /\ Offset(asked.len) = 0
  BY <1>1, <1>2, RequestTyped DEF Position
<1>4. UNCHANGED <<mem, asked, before, count, got, autoexec, cmder>>
  BY <1>1 DEF SameAccess, dmVars, histVars
<1>5. PICK W : W = asked.len \div 4
  OBVIOUS
<1>6. W \in Nat \ {0}
  BY <1>2, <1>3, <1>5 DEF Offset
<1>7. PICK ws : ws = NewWords(W)
  OBVIOUS
<1>8. PICK a, m : a = asked.at /\ m = before
  OBVIOUS
<1>9. Len(ws) = W
  BY <1>2, <1>6, <1>7, NewWordsTyped
<1>10. mem = before
  <2>1. mem = WrittenTo(at)
    BY <1>1, <1>2 DEF Idle
  <2>2. \A x \in Ram : ~(asked.at <= x /\ x < at)
    <3> SUFFICES ASSUME NEW x \in Ram PROVE ~(asked.at <= x /\ x < at)
      OBVIOUS
    <3>1. x \in Nat
      BY RamIsNat
    <3> QED
      BY <1>2, <1>3, <3>1
  <2>3. WrittenTo(at) = before
    BY <1>2, <2>2 DEF WrittenTo
  <2> QED
    BY <2>1, <2>3
<1>11. script' = set_block_aligned(a, ws) /\ at' = at + left /\ left' = left - left
  <2>1. NewWords(W) = [i \in 1..(left \div 4) |-> NewWord(4 * (i - 1), 4)]
    BY <1>3, <1>5 DEF NewWords
  <2> QED
    BY <1>3, <1>7, <1>8, <2>1 DEF CallSetBlock, Turn
<1>12. mem' = m /\ got' = <<>> /\ Clean'
  BY <1>2, <1>4, <1>8, <1>10 DEF Clean
<1>13. WritingBlock(a, W, m, ws)'
  BY <1>6, <1>9, <1>11, <1>12, WritingBlockStarts
<1>14. ws = NewWords(W)' /\ W = (asked.len \div 4)' /\ a = asked'.at /\ m = before'
  BY <1>4, <1>5, <1>7, <1>8 DEF NewWords, NewWord, New
<1>15. WritingBlock(asked.at, asked.len \div 4, before, NewWords(asked.len \div 4))'
  BY <1>13, <1>14
<1>16. left' = 0 /\ left \in 1..left
  BY <1>2, <1>11
<1>17. RunningBlock'
  BY <1>1, <1>2, <1>3, <1>4, <1>15, <1>16 DEF RunningBlock
<1> QED
  BY <1>1, <1>11, <1>16, <1>17, TurnKeeps DEF Running

LEMMA handle_pKeeps ==
  ASSUME IInv, handle_p
  PROVE  IInv'
<1>1. Waiting /\ asked.do = "p" /\ SameAccess
  BY DEF handle_p, Waiting, SameAccess
<1>2. Idle /\ left \in Nat /\ left # 0 /\ got = <<>> /\ Clean
  BY <1>1, WaitingIsIdle DEF Waiting, Histories
<1>3. UNCHANGED <<mem, asked, before, got, reply, autoexec, cmder>>
  BY <1>1 DEF SameAccess, dmVars, histVars
<1>4. /\ script' = <<[do |-> "transfer"]>> \o Get \o Put("u32", 0)
      /\ at' = at + left /\ left' = left - left
  BY DEF handle_p, Turn
<1>5. ReadingGpr'
  BY <1>2, <1>3, <1>4, ReadingGprStarts
<1>6. left' = 0 /\ left \in 1..left
  BY <1>2, <1>4
<1>7. mem = before /\ reply = <<>>
  BY <1>1, <1>2 DEF Idle
<1>8. RunningGpr'
  BY <1>1, <1>2, <1>3, <1>5, <1>6, <1>7 DEF RunningGpr, Clean
<1> QED
  BY <1>1, <1>4, <1>6, <1>8, TurnKeeps DEF Running

LEMMA handle_PKeeps ==
  ASSUME IInv, handle_P
  PROVE  IInv'
<1>1. Waiting /\ asked.do = "P" /\ SameAccess
  BY DEF handle_P, Waiting, SameAccess
<1>2. Idle /\ left \in Nat /\ left # 0 /\ got = <<>> /\ Clean
  BY <1>1, WaitingIsIdle DEF Waiting, Histories
<1>3. UNCHANGED <<mem, asked, before, count, got, autoexec, cmder>>
  BY <1>1 DEF SameAccess, dmVars, histVars
<1>4. PICK w : w = TakeHex(Bytes(NewWord(0, 4), 4))
  OBVIOUS
<1>5. /\ script' = Data0(w) \o <<[do |-> "transferBack"]>>
      /\ at' = at + left /\ left' = left - left
  BY <1>4 DEF handle_P, Turn
<1>6. WritingGpr(w)'
  BY <1>2, <1>3, <1>5, WritingGprStarts
<1>7. w = TakeHex(Bytes(NewWord(0, 4), 4))'
  BY <1>3, <1>4 DEF TakeHex, Bytes, NewWord, New
<1>8. left' = 0 /\ left \in 1..left
  BY <1>2, <1>5
<1>9. WritingGpr(TakeHex(Bytes(NewWord(0, 4), 4)))'
  BY <1>6, <1>7
<1>10. RunningGpr'
  BY <1>1, <1>2, <1>3, <1>8, <1>9 DEF RunningGpr, Clean, Idle
<1> QED
  BY <1>1, <1>5, <1>8, <1>10, TurnKeeps DEF Running

-----------------------------------------------------------------------------
(* The other steps *)

LEMMA IdleStays ==
  ASSUME Idle, UNCHANGED <<script, got, autoexec, mem, asked, before, count, at, left, reply, gpr>>
  PROVE  Idle'
BY DEF Idle, ReadTo, WrittenTo, Bytes

LEMMA AnswerKeeps ==
  ASSUME IInv, Answer
  PROVE  IInv'
<1>1. /\ status = "busy" /\ script = <<>> /\ left = 0 /\ status' = "answered"
      /\ UNCHANGED <<mem, gpr, dmVars, saved, script, got, at, left, reply, histVars>>
  BY DEF Answer
<1>2. Idle /\ Position
  BY <1>1, WaitingIsIdle
<1>3. UNCHANGED <<script, got, autoexec, mem, asked, before, count, at, left, reply, gpr, cmder>>
  BY <1>1 DEF dmVars, histVars
<1>4. Idle' /\ Position'
  BY <1>2, <1>3, IdleStays DEF Position, InBytes
<1>5. TypeOK
  BY DEF IInv
<1>6. TypeOK'
  BY <1>1, <1>5 DEF TypeOK, dmVars, histVars
<1>7. NothingElseTouched'
  BY <1>3 DEF IInv, NothingElseTouched, Touched
<1> QED
  BY <1>1, <1>3, <1>4, <1>6, <1>7 DEF IInv

LEMMA ReceiveKeeps ==
  ASSUME IInv, NEW r \in Request, r.do = "M" => InBytes(r), Receive(r)
  PROVE  IInv'
<1>1. /\ status # "busy" /\ count < MaxRequests
      /\ status' = "busy" /\ asked' = r /\ count' = count + 1 /\ before' = mem
      /\ at' = r.at /\ left' = r.len /\ reply' = <<>> /\ got' = <<>>
      /\ UNCHANGED <<mem, gpr, dmVars, saved, script>>
  BY DEF Receive
<1>2. TypeOK
  BY DEF IInv
<1>3. /\ r.at \in Nat /\ r.len \in Nat /\ (r.do = "p" => r.len = 4)
      /\ r.do \in {"m", "M", "set", "block", "p", "P"}
  BY DataPacketsAssumption
<1>4. script = <<>> /\ autoexec = FALSE
  BY <1>1, <1>2 DEF IInv, Idle, TypeOK
<1>5. MaxRequests \in Nat /\ <<>> \in Seq(Byte) /\ <<>> \in Seq(Word)
  BY DataPacketsAssumption
<1>6. TypeOK'
  <2>1. count' \in 0..MaxRequests
    BY <1>1, <1>2, <1>5 DEF TypeOK
  <2> QED
    BY <1>1, <1>2, <1>3, <1>5, <2>1 DEF TypeOK, dmVars
<1>7. Position'
  <2>1. count' \in 1..MaxRequests
    BY <1>1, <1>2, <1>5 DEF TypeOK
  <2>2. asked'.at <= at' /\ at' + left' = asked'.at + asked'.len /\ at' = asked'.at
    BY <1>1, <1>3
  <2> QED
    BY <1>1, <2>1, <2>2 DEF Position, InBytes
<1>8. Idle'
  <2>1. script' = <<>> /\ got' = <<>> /\ autoexec' = FALSE /\ mem' = before' /\ reply' = <<>>
    BY <1>1, <1>4 DEF dmVars
  <2>2. reply' = ReadTo(at)'
    <3>1. at' - asked'.at = 0
      BY <1>1, <1>3
    <3> QED
      BY <2>1, <3>1 DEF ReadTo
  <2>3. mem' = WrittenTo(at)'
    <3>1. \A x \in Ram : ~(asked'.at <= x /\ x < at')
      BY <1>1, <1>3, RamIsNat
    <3>2. before' \in [Ram -> Byte]
      BY <1>1, <1>2 DEF TypeOK
    <3>3. WrittenTo(at)' = before'
      BY <3>1, <3>2 DEF WrittenTo
    <3> QED
      BY <2>1, <3>3
  <2>4. asked'.do = "p" => left' # 0
    BY <1>1, <1>3
  <2> QED
    BY <2>1, <2>2, <2>3, <2>4 DEF Idle
<1>9. NothingElseTouched'
  BY <1>1 DEF NothingElseTouched
<1> QED
  BY <1>1, <1>6, <1>7, <1>8, <1>9 DEF IInv, dmVars

LEMMA RanAndStoppedKeeps ==
  ASSUME IInv, RanAndStopped
  PROVE  IInv'
<1>1. /\ status # "busy" /\ saved' = FALSE
      /\ UNCHANGED <<mem, gpr, dmVars, script, got, at, left, reply, status, histVars>>
  BY DEF RanAndStopped
<1>2. UNCHANGED <<script, got, autoexec, mem, asked, before, count, at, left, reply, gpr, cmder>>
  BY <1>1 DEF dmVars, histVars
<1>3. TypeOK
  BY DEF IInv
<1>4. TypeOK'
  BY <1>1, <1>3 DEF TypeOK, dmVars, histVars
<1>5. NothingElseTouched'
  BY <1>2 DEF IInv, NothingElseTouched, Touched
<1>6. (Idle => Idle') /\ (Position => Position')
  BY <1>2, IdleStays DEF Position, InBytes
<1> QED
  BY <1>1, <1>2, <1>4, <1>5, <1>6 DEF IInv

\* A restart leaves the bytes that were written, and the module reset.
LEMMA RestartKeeps ==
  ASSUME IInv, Restart
  PROVE  IInv'
<1>1. /\ status = "busy" /\ saved' = FALSE /\ script' = <<>> /\ got' = <<>> /\ left' = 0
      /\ reply' = <<>> /\ status' = "ready" /\ UNCHANGED <<mem, gpr, at, histVars>>
  BY DEF Restart
<1>2. /\ progbuf' = "none" /\ data0' = ZeroWord /\ data1' = [addr |-> 0, write |-> FALSE]
      /\ command' = "none" /\ autoexec' = FALSE /\ cmder' = FALSE
  BY DEF Restart, ResetModule
<1>3. TypeOK
  BY DEF IInv
<1>4. <<>> \in Seq(Byte) /\ <<>> \in Seq(Word) /\ data1' \in [addr : Nat, write : BOOLEAN]
  BY <1>2
<1>5. TypeOK'
  BY <1>1, <1>2, <1>3, <1>4, ConstantWords DEF TypeOK, histVars
<1>6. NothingElseTouched'
  BY <1>1 DEF IInv, NothingElseTouched, Touched, histVars
<1> QED
  BY <1>1, <1>2, <1>5, <1>6 DEF IInv

LEMMA OperationKeeps ==
  ASSUME IInv, Operation
  PROVE  IInv'
<1>1. script # <<>>
  BY WhichOperation
<1>2. TypeOK
  BY DEF IInv
<1>3. status = "busy" /\ Position /\ Running
  BY <1>1, <1>2 DEF IInv, Idle, TypeOK
<1>4. Histories /\ PortTypes /\ reply \in Seq(Byte)
  BY <1>2, <1>3 DEF TypeOK, Histories, PortTypes
<1>5. GoesOn
  BY <1>3, <1>4, AccessOperation
<1>6. UNCHANGED <<at, left, status, asked, count, before>>
  BY <1>5 DEF GoesOn, histVars
<1>7. Histories'
  BY <1>3, <1>4, <1>5, <1>6 DEF Histories, Position, InBytes, GoesOn
<1>8. InAccess'
  <2>1. (Histories /\ Running => script # <<>> /\ InAccess)'
    BY RunningHolds, PTL
  <2>2. (Histories /\ Idle /\ cmder = FALSE => InAccess)'
    BY IdleHolds, PTL
  <2> QED
    BY <1>5, <1>7, <2>1, <2>2 DEF GoesOn
<1>9. saved' \in BOOLEAN
  <2>1. saved' = TRUE \/ saved' = saved
    BY DEF Operation, LoadProg, SetData0, SetData1, RunProg, SetAuto, GetGpr, SetGpr, GetData0,
           ModifyWords, ModifyHigh, PutReply
  <2> QED
    BY <1>2, <2>1 DEF TypeOK
<1>10. TypeOK'
  BY <1>2, <1>5, <1>6, <1>7, <1>8, <1>9
     DEF TypeOK, GoesOn, PortTypes, Histories, InAccess, MemTyped
<1> QED
  BY <1>3, <1>5, <1>6, <1>7, <1>8, <1>10 DEF IInv, GoesOn, Histories, InAccess

-----------------------------------------------------------------------------
(* Nothing happens *)

LEMMA ReadingStays ==
  ASSUME NEW a, NEW n, NEW rest, UNCHANGED <<mem, progbuf, data0, data1, script, got>>,
         Reading(a, n, rest)
  PROVE  Reading(a, n, rest)'
<1>1. ASSUME NEW b, NEW s, Fetching(b, s)
      PROVE  Fetching(b, s)'
  BY <1>1 DEF Fetching, MemWord
<1>2. CASE Fetching(Aligned(a), SecondRead(a, n, rest)) /\ got = <<>>
  BY <1>1, <1>2 DEF Reading
<1>3. CASE Crosses(a, n) /\ Fetching(Aligned(a) + 4, rest) /\ got = <<Low(a)>>
  BY <1>1, <1>3 DEF Reading, Low, MemWord
<1> QED
  BY <1>2, <1>3 DEF Reading

LEMMA WritingStays ==
  ASSUME NEW a, NEW n, NEW w, NEW m, UNCHANGED <<mem, progbuf, data0, data1, script, got>>,
         Writing(a, n, w, m)
  PROVE  Writing(a, n, w, m)'
<1>1. ASSUME NEW b, NEW s, Fetching(b, s)
      PROVE  Fetching(b, s)'
  BY <1>1 DEF Fetching, MemWord
<1>2. ASSUME NEW b, NEW v, NEW s, Storing(b, v, s)
      PROVE  Storing(b, v, s)'
  BY <1>2 DEF Storing
<1>3. ASSUME NEW k, NEW s, Reading(a, k, s)
      PROVE  Reading(a, k, s)'
  BY <1>3, ReadingStays
<1>4. \A k : WordsRead(a, k)' = WordsRead(a, k)
  BY DEF WordsRead, Low, High, MemWord
<1>5. WritingWord(a, w, m) => WritingWord(a, w, m)'
  BY <1>2 DEF WritingWord
<1>6. Writing32(a, w, m) => Writing32(a, w, m)'
  BY <1>2, <1>3, <1>4 DEF Writing32
<1>7. Writing16(a, w, m) => Writing16(a, w, m)'
  BY <1>1, <1>2 DEF Writing16
<1>8. Writing8(a, w, m) => Writing8(a, w, m)'
  BY <1>2, <1>3, <1>4 DEF Writing8
<1> QED
  BY <1>5, <1>6, <1>7, <1>8 DEF Writing

LEMMA BlocksStay ==
  ASSUME NEW a, NEW W, NEW m, NEW ws,
         UNCHANGED <<mem, gpr, progbuf, data0, data1, command, autoexec, cmder, script, got>>
  PROVE  /\ ReadingBlock(a, W) => ReadingBlock(a, W)'
         /\ WritingBlock(a, W, m, ws) => WritingBlock(a, W, m, ws)'
         /\ ReadingGpr => ReadingGpr'
         /\ WritingGpr(ws) => WritingGpr(ws)'
<1>1. (\A b : MemWord(mem, b)' = MemWord(mem, b)) /\ \A k : WordsFrom(a, k)' = WordsFrom(a, k)
  BY DEF MemWord, WordsFrom
<1>2. ReadingBlock(a, W) => ReadingBlock(a, W)'
  BY <1>1 DEF ReadingBlock, Clean
<1>3. WritingBlock(a, W, m, ws) => WritingBlock(a, W, m, ws)'
  BY DEF WritingBlock, Clean
<1>4. ReadingGpr => ReadingGpr'
  BY DEF ReadingGpr
<1>5. WritingGpr(ws) => WritingGpr(ws)'
  BY DEF WritingGpr
<1> QED
  BY <1>2, <1>3, <1>4, <1>5

LEMMA RunningStays ==
  ASSUME UNCHANGED vars, Running
  PROVE  Running'
<1>1. UNCHANGED <<mem, gpr, progbuf, data0, data1, command, autoexec, cmder, script, got, at, left,
                  reply, asked, count, before>>
  BY DEF vars, dmVars, histVars
<1>2. Clean => Clean'
  BY <1>1 DEF Clean
<1>3. CASE RunningRead
  <2>1. PICK a \in asked.at..at : reply = ReadTo(a) /\ ReadingTurn(a, at - a)
    BY <1>3 DEF RunningRead
  <2>2. PICK n : n = at - a
    OBVIOUS
  <2>3. PutOf(a, n)' = PutOf(a, n) /\ WordsRead(a, n)' = WordsRead(a, n)
    BY <1>1 DEF PutOf, Put, WordsRead, Low, High, MemWord
  <2>4. ReadingTurn(a, n)
    BY <2>1, <2>2
  <2>5. ReadingTurn(a, n)'
    <3>1. CASE n \in {1, 2, 4} /\ Clean /\ Reading(a, n, PutOf(a, n))
      <4>1. PICK rest : rest = PutOf(a, n)
        OBVIOUS
      <4>2. Reading(a, n, rest)'
        BY <1>1, <3>1, <4>1, ReadingStays
      <4> QED
        BY <1>2, <2>3, <3>1, <4>1, <4>2 DEF ReadingTurn
    <3>2. CASE n \in {1, 2, 4} /\ Clean /\ script = PutOf(a, n) /\ got = WordsRead(a, n)
      BY <1>1, <1>2, <2>3, <3>2 DEF ReadingTurn
    <3>3. CASE n # 0 /\ Offset(n) = 0 /\ ReadingBlock(a, n \div 4)
      BY <1>1, <3>3, BlocksStay DEF ReadingTurn
    <3> QED
      BY <2>4, <3>1, <3>2, <3>3 DEF ReadingTurn
  <2>6. ReadTo(a)' = ReadTo(a)
    BY <1>1 DEF ReadTo
  <2>7. n = at' - a /\ a \in asked'.at..at' /\ reply' = ReadTo(a)'
    BY <1>1, <2>1, <2>2, <2>6
  <2>8. ReadingTurn(a, at - a)'
    BY <2>5, <2>7
  <2> QED
    BY <1>1, <1>3, <2>7, <2>8 DEF Running, RunningRead
<1>4. CASE RunningWrite
  <2>1. PICK a \in asked.at..at :
          /\ at - a \in {1, 2, 4}
          /\ Writing(a, at - a, NewWord(a - asked.at, at - a), WrittenTo(a))
    BY <1>4 DEF RunningWrite
  <2>2. PICK n, w, m : n = at - a /\ w = NewWord(a - asked.at, n) /\ m = WrittenTo(a)
    OBVIOUS
  <2>3. Writing(a, n, w, m)'
    BY <1>1, <2>1, <2>2, WritingStays
  <2>4. n = at' - a /\ w = NewWord(a - asked.at, n)' /\ m = WrittenTo(a)' /\ a \in asked'.at..at'
        /\ n \in {1, 2, 4}
    BY <1>1, <2>1, <2>2 DEF NewWord, New, WrittenTo
  <2>5. Writing(a, at - a, NewWord(a - asked.at, at - a), WrittenTo(a))'
    BY <2>3, <2>4
  <2> QED
    BY <1>1, <1>2, <1>4, <2>4, <2>5 DEF Running, RunningWrite
<1>5. CASE RunningBlock
  <2>1. PICK a, W, m, ws : /\ a = asked.at /\ W = asked.len \div 4 /\ m = before
                           /\ ws = NewWords(W)
    OBVIOUS
  <2>2. WritingBlock(a, W, m, ws)'
    BY <1>1, <1>5, <2>1, BlocksStay DEF RunningBlock
  <2>3. a = asked'.at /\ W = (asked.len \div 4)' /\ m = before' /\ ws = NewWords(W)'
    BY <1>1, <2>1 DEF NewWords, NewWord, New
  <2>4. WritingBlock(asked.at, asked.len \div 4, before, NewWords(asked.len \div 4))'
    BY <2>2, <2>3
  <2> QED
    BY <1>1, <1>5, <2>4 DEF Running, RunningBlock
<1>6. CASE RunningGpr
  <2>1. PICK w : w = TakeHex(Bytes(NewWord(0, 4), 4))
    OBVIOUS
  <2>2. w = TakeHex(Bytes(NewWord(0, 4), 4))'
    BY <1>1, <2>1 DEF TakeHex, Bytes, NewWord, New
  <2>3. (ReadingGpr => ReadingGpr') /\ (WritingGpr(w) => WritingGpr(w)')
    BY <1>1, BlocksStay
  <2>4. WritingGpr(w)' => WritingGpr(TakeHex(Bytes(NewWord(0, 4), 4)))'
    BY <2>2
  <2> QED
    BY <1>1, <1>2, <1>6, <2>1, <2>3, <2>4 DEF Running, RunningGpr
<1> QED
  BY <1>3, <1>4, <1>5, <1>6 DEF Running

LEMMA StutterKeeps ==
  ASSUME IInv, UNCHANGED vars
  PROVE  IInv'
<1>1. UNCHANGED <<mem, gpr, progbuf, data0, data1, command, autoexec, cmder, saved, script, got, at,
                  left, reply, status, asked, count, before>>
  BY DEF vars, dmVars, histVars
<1>2. TypeOK /\ cmder = FALSE /\ NothingElseTouched
  BY DEF IInv
<1>3. TypeOK'
  BY <1>1, <1>2 DEF TypeOK
<1>4. NothingElseTouched'
  BY <1>1, <1>2 DEF NothingElseTouched, Touched
<1>5. (Idle => Idle') /\ (Position => Position') /\ (Running => Running')
  BY <1>1, IdleStays, RunningStays DEF Position, InBytes
<1> QED
  BY <1>1, <1>2, <1>3, <1>4, <1>5 DEF IInv

-----------------------------------------------------------------------------
(* Theorems *)

LEMMA InitHolds == Init => IInv
<1> SUFFICES ASSUME Init PROVE IInv
  OBVIOUS
<1>1. /\ mem = InitialMem /\ before = InitialMem /\ gpr = [i \in 0..3 |-> Gpr(i)]
      /\ progbuf = "none" /\ data0 = ZeroWord /\ data1 = [addr |-> 0, write |-> FALSE]
      /\ command = "none" /\ autoexec = FALSE /\ cmder = FALSE
      /\ saved = FALSE /\ script = <<>> /\ got = <<>> /\ reply = <<>>
      /\ at = 0 /\ left = 0 /\ status = "ready"
      /\ asked \in Request /\ count = 0
  BY DEF Init
<1>2. \A a \in Ram : <<0, a>> \in Byte
  BY DEF Byte
<1>3. InitialMem \in [Ram -> Byte]
  BY <1>2 DEF InitialMem
<1>4. [i \in 0..3 |-> Gpr(i)] \in Word
  BY ConstantWords DEF Word
<1>5. <<>> \in Seq(Byte) /\ <<>> \in Seq(Word)
  OBVIOUS
<1>6. data1 \in [addr : Nat, write : BOOLEAN]
  BY <1>1
<1>7. count \in 0..MaxRequests
  BY <1>1, DataPacketsAssumption
<1>8. TypeOK
  BY <1>1, <1>3, <1>4, <1>5, <1>6, <1>7, ConstantWords DEF TypeOK
<1>9. NothingElseTouched
  BY <1>1 DEF NothingElseTouched
<1> QED
  BY <1>1, <1>8, <1>9 DEF IInv

LEMMA NextKeeps == IInv /\ [Next]_vars => IInv'
<1> SUFFICES ASSUME IInv, [Next]_vars PROVE IInv'
  OBVIOUS
<1>1. CASE Operation
  BY <1>1, OperationKeeps
<1>2. CASE handle_m
  BY <1>2, handle_mKeeps
<1>3. CASE handle_M
  BY <1>3, handle_MKeeps
<1>4. CASE CallSet
  BY <1>4, CallSetKeeps
<1>5. CASE CallSetBlock
  BY <1>5, CallSetBlockKeeps
<1>6. CASE handle_p
  BY <1>6, handle_pKeeps
<1>7. CASE handle_P
  BY <1>7, handle_PKeeps
<1>8. CASE Answer
  BY <1>8, AnswerKeeps
<1>9. ASSUME NEW r \in Request, r.do = "M" => InBytes(r), Receive(r)
      PROVE  IInv'
  BY <1>9, ReceiveKeeps
<1>10. CASE RanAndStopped
  BY <1>10, RanAndStoppedKeeps
<1>11. CASE Restart
  BY <1>11, RestartKeeps
<1>12. CASE UNCHANGED vars
  BY <1>12, StutterKeeps
<1> QED
  BY <1>1, <1>2, <1>3, <1>4, <1>5, <1>6, <1>7, <1>8, <1>9, <1>10, <1>11, <1>12
     DEF Next, Operation

\* Whatever the lengths, addresses and order of the accesses, the debug module
\* operations each of them is made of read and write the bytes it was asked for.
THEOREM AccessInvariant == Spec => []IInv
BY InitHolds, NextKeeps, PTL DEF Spec

\* TypeOK: the accesses give the debug module words, and the answer is bytes.
THEOREM AccessTypeCorrect == Spec => []TypeOK
<1>1. IInv => TypeOK
  BY DEF IInv
<1> QED
  BY <1>1, AccessInvariant, PTL

\* ReadsExact: handle_m answers with the bytes of RAM at its addresses, whatever
\* accesses and chunks it cuts the read into, and handle_p with the register.
THEOREM ReadsAreExact == Spec => []ReadsExact
<1>1. IInv => ReadsExact
  <2> SUFFICES ASSUME IInv, status = "answered" PROVE ReadsExact
    BY DEF ReadsExact, Answered
  <2>1. Position /\ Idle /\ left = 0 /\ asked \in Request /\ at \in Nat
    BY DEF IInv, TypeOK
  <2>2. asked.at \in Nat /\ asked.len \in Nat
    BY <2>1, DataPacketsAssumption
  <2>3. at - asked.at = asked.len
    BY <2>1, <2>2 DEF Position
  <2>4. asked.do = "m" => reply = [i \in 1..asked.len |-> before[asked.at + i - 1]]
    BY <2>1, <2>3 DEF Idle, ReadTo
  <2>5. asked.do = "p" => reply = Bytes(gpr, 4)
    BY <2>1 DEF Idle
  <2> QED
    BY <2>4, <2>5 DEF ReadsExact, Answered
<1> QED
  BY <1>1, AccessInvariant, PTL

\* WritesExact: when set_mem_u8, _u16, _u32 and set_block_aligned, or handle_M's loop
\* over single bytes, have returned, the bytes they were given are in RAM.
THEOREM WritesAreExact == Spec => []WritesExact
<1>1. IInv => WritesExact
  <2> SUFFICES ASSUME IInv, status = "answered", asked.do \in {"M", "set", "block"},
                      NEW a \in Touched
               PROVE  mem[a] = <<count, a - asked.at>>
    BY DEF WritesExact, Answered
  <2>1. Position /\ Idle /\ left = 0 /\ asked \in Request /\ at \in Nat
    BY DEF IInv, TypeOK
  <2>2. asked.at \in Nat /\ asked.len \in Nat /\ a \in Ram
    BY <2>1, DataPacketsAssumption DEF Touched
  <2>3. at = asked.at + asked.len
    BY <2>1, <2>2 DEF Position
  <2>4. asked.at <= a /\ a < at
    BY <2>2, <2>3 DEF Touched
  <2>5. mem = WrittenTo(at)
    BY <2>1 DEF Idle
  <2> QED
    BY <2>2, <2>4, <2>5 DEF WrittenTo
<1> QED
  BY <1>1, AccessInvariant, PTL

\* NothingElseTouched: the words that set_mem_u8, _u16 and _u32 read and write back
\* keep every byte outside of the request, also when a restart falls in between.
THEOREM NothingElseIsTouched == Spec => []NothingElseTouched
<1>1. IInv => NothingElseTouched
  BY DEF IInv
<1> QED
  BY <1>1, AccessInvariant, PTL

\* PortClean: get_block_aligned and set_block_aligned switch autoexec off again on
\* every way out, and no access leaves an error behind that would stop the next.
THEOREM PortIsClean == Spec => []PortClean
<1>1. IInv => PortClean
  BY DEF IInv, PortClean, Idle, TypeOK
<1> QED
  BY <1>1, AccessInvariant, PTL

=============================================================================
