----------------------------- MODULE DataPackets ------------------------------
(***************************************************************************)
(* Reading and writing target memory: packets m and M, RVDebug's accessors *)
(* for 8, 16 and 32 bits at any address, its block transfers, and the      *)
(* debug module registers they go through. One operator per function gives *)
(* the debug module operations it makes, in order; one action makes one of *)
(* them, so that the Pico can restart between any two.                     *)
(*                                                                         *)
(* A word is four bytes, the low one first, so a shift by 8 bits moves     *)
(* bytes. A byte is named after where it came from: <<0, a>> was at        *)
(* address a in the beginning, <<n, i>> is the i-th that request n writes. *)
(***************************************************************************)
EXTENDS Integers, Sequences

CONSTANTS
  Ram,           \* byte addresses, whole words; any other access is an exception
  Request,       \* what is asked, [do, at, len]
  BufBytes,      \* size of the handlers' buffer (1024)
  MaxRequests    \* bound on the requests of a behaviour

Zero == <<-1, 0>>      \* 0x00
Unknown == <<-1, 1>>   \* a byte of handle_M's buffer that nothing was put in
Mixed == <<-1, 2>>     \* two bytes or'ed together
App(i) == <<-2, i>>    \* the application's a0 or a1
Gpr(i) == <<-3, i>>    \* another of its registers

Byte == ({0} \X Ram) \cup ((1..MaxRequests) \X Nat) \cup {Zero, Unknown, Mixed}
          \cup {App(i) : i \in 0..3} \cup {Gpr(i) : i \in 0..3}
Word == [0..3 -> Byte]
ZeroWord == [i \in 0..3 |-> Zero]
AppWord == [i \in 0..3 |-> App(i)]

Offset(addr) == addr % 4
Aligned(addr) == addr - (addr % 4)

ASSUME DataPacketsAssumption ==
  /\ Ram \subseteq Nat
  /\ \A a \in Ram : \A i \in 0..3 : Aligned(a) + i \in Ram
  /\ \A r \in Request :
       /\ r.do \in {"m", "M", "set", "block", "p", "P"} /\ r.at \in Nat /\ r.len \in Nat
       /\ r.at..(r.at + r.len - 1) \subseteq Ram \/ r.do \in {"p", "P"}
       /\ r.do = "set" => r.len \in {1, 2, 4}
       /\ r.do = "block" => Offset(r.at) = 0 /\ Offset(r.len) = 0
       /\ r.do \in {"p", "P"} => r.len = 4
  /\ BufBytes \in Nat \ {0} /\ Offset(BufBytes) = 0
  /\ MaxRequests \in Nat

VARIABLES
  mem,                   \* the target's RAM
  gpr,                   \* a register no debug program clobbers
  progbuf, data0, data1, command, autoexec, cmder,   \* the debug module
  saved,                 \* a0 and a1 are saved: load_prog leaves DATA0 alone
  script,                \* operations left of the access being made
  got,                   \* words read of it
  at, left,              \* handler: address and bytes to go
  reply,                 \* bytes put in the answer
  status,                \* "ready", "busy", "answered"
  asked, count, before   \* history: the request, its number, RAM at its start

dmVars == <<progbuf, data0, data1, command, autoexec, cmder>>
histVars == <<asked, count, before>>
vars == <<mem, gpr, dmVars, saved, script, got, at, left, reply, status, histVars>>

-----------------------------------------------------------------------------
(* Words *)

Shr(w, n) == [i \in 0..3 |-> IF i + n <= 3 THEN w[i + n] ELSE Zero]
Shl(w, n) == [i \in 0..3 |-> IF i - n >= 0 THEN w[i - n] ELSE Zero]
Keep(w, bytes) == [i \in 0..3 |-> IF i \in bytes THEN w[i] ELSE Zero]
Or(v, w) == [i \in 0..3 |-> IF w[i] = Zero THEN v[i] ELSE IF v[i] = Zero THEN w[i] ELSE Mixed]

\* Mutant: the second word is shifted as far as the first.
Read32Same(lo, hi, offset) ==
  IF offset = 0 THEN lo ELSE Or(Shr(lo, offset), Shl(hi, offset))
\* get_mem_u32, _u16 and _u8 of the word at the aligned address and the next one.
Read32(lo, hi, offset) ==
  IF offset = 0 THEN lo ELSE Or(Shr(lo, offset), Shl(hi, 4 - offset))
Read16(lo, hi, offset) == IF offset < 3 THEN Shr(lo, offset) ELSE Or(Shr(lo, 3), Shl(hi, 1))
Read8(lo, offset) == Shr(lo, offset)

\* What set_mem_u32 and _u16 make of the two words; an u16 is a word whose upper
\* bytes are zero.
Low32(lo, data, offset) == Or(Keep(lo, 0..(offset - 1)), Shl(data, offset))
\* Mutant: the mask is one byte too wide.
High32Wide(hi, data, offset) == Or(Keep(hi, (offset + 1)..3), Shr(data, 4 - offset))
High32(hi, data, offset) == Or(Keep(hi, offset..3), Shr(data, 4 - offset))
Low16(lo, data, offset) == Or(Keep(lo, (0..3) \ {offset, offset + 1}), Shl(data, offset))
High16(hi, data) == Or(Keep(hi, 1..3), Shr(data, 1))
Low8(lo, data, offset) == Or(Keep(lo, (0..3) \ {offset}), Shl(data, offset))

-----------------------------------------------------------------------------
(* RVDebug: the operations of each function *)

Prog(p) == <<[do |-> "prog", prog |-> p]>>
Data0(w) == <<[do |-> "data0", word |-> w]>>
Data1(a, write) == <<[do |-> "data1", addr |-> a, write |-> write]>>
Exec == <<[do |-> "exec"]>>
SwitchAuto(on) == <<[do |-> "auto", on |-> on]>>
Get == <<[do |-> "get"]>>

get_mem_u32_aligned(a) == Prog("get_set_u32") \o Data1(a, FALSE) \o Exec \o Get
\* Mutant: DATA0 is loaded before the program is.
set_mem_u32_alignedEarly(a, w) == Data0(w) \o Prog("get_set_u32") \o Data1(a, TRUE) \o Exec
set_mem_u32_aligned(a, w) == Prog("get_set_u32") \o Data0(w) \o Data1(a, TRUE) \o Exec

\* The first run fills DATA0; every read but the last starts the next run.
get_block_aligned(a, words) ==
  Prog("get_block_aligned") \o Data1(a, FALSE) \o Exec \o SwitchAuto(TRUE)
    \o [i \in 1..(words - 1) |-> Get[1]] \o SwitchAuto(FALSE) \o Get

set_block_aligned(a, words) ==
  Prog("set_block_aligned") \o Data1(a, FALSE) \o Data0(words[1]) \o Exec \o SwitchAuto(TRUE)
    \o [i \in 1..(Len(words) - 1) |-> Data0(words[i + 1])[1]] \o SwitchAuto(FALSE)

\* The second word is read when the access crosses into it.
ReadOf(a, size) ==
  get_mem_u32_aligned(Aligned(a))
    \o (IF Offset(a) + size > 4 THEN get_mem_u32_aligned(Aligned(a) + 4) ELSE <<>>)

Modify(a, size, data) == <<[do |-> "modify", addr |-> a, size |-> size, word |-> data]>>
Modify16High(a, data) == <<[do |-> "modify16high", addr |-> a, word |-> data]>>
set_mem(a, size, data) ==
  IF size = 4 /\ Offset(a) = 0 THEN set_mem_u32_aligned(a, data)
  ELSE IF size = 2
  THEN get_mem_u32_aligned(Aligned(a)) \o Modify(a, 2, data)
         \o (IF Offset(a) = 3
             THEN get_mem_u32_aligned(Aligned(a) + 4) \o Modify16High(a, data) ELSE <<>>)
  ELSE ReadOf(a, size) \o Modify(a, size, data)

-----------------------------------------------------------------------------
(* The debug module (external: as RVDebug relies on it) *)

MemWord(m, a) == [i \in 0..3 |-> m[a + i]]
Stored(m, a, w) == [x \in Ram |-> IF x - a \in 0..3 THEN w[x - a] ELSE m[x]]
Faults(a) == a \notin Ram

\* The program buffer runs on DATA0 and DATA1; an exception leaves CMDER set, and
\* nothing runs while it is.
RunProgbuf(d0) ==
  LET a == data1.addr
      store == progbuf = "set_block_aligned" \/ (progbuf = "get_set_u32" /\ data1.write)
  IN  IF cmder THEN data0' = d0 /\ UNCHANGED <<mem, data1, cmder>>
      ELSE IF Faults(a) THEN data0' = d0 /\ cmder' = TRUE /\ UNCHANGED <<mem, data1>>
      ELSE /\ mem' = IF store THEN Stored(mem, a, d0) ELSE mem
           /\ data0' = IF store THEN d0 ELSE MemWord(mem, a)
           /\ data1' = IF progbuf = "get_set_u32" THEN data1 ELSE [data1 EXCEPT !.addr = a + 4]
           /\ UNCHANGED cmder

\* DATA0 is touched; with autoexec on, the last command is repeated.
Touch(d0) ==
  IF autoexec /\ command = "exec" THEN RunProgbuf(d0)
  ELSE /\ data0' = IF autoexec /\ command = "transfer" THEN AppWord ELSE d0
       /\ UNCHANGED <<mem, data1, cmder>>

-----------------------------------------------------------------------------
(* One operation *)

Op(name) == script # <<>> /\ Head(script).do = name
Following == script' = Tail(script)
handlerVars == <<at, left, reply, status, histVars>>

\* load_prog: the registers the program clobbers are read through DATA0, once a stop.
LoadProg ==
  /\ Op("prog") /\ Following
  /\ progbuf' = Head(script).prog
  /\ IF saved THEN UNCHANGED <<data0, command>> ELSE data0' = AppWord /\ command' = "transfer"
  /\ saved' = TRUE
  /\ UNCHANGED <<mem, gpr, data1, autoexec, cmder, got, handlerVars>>

SetData0 ==
  /\ Op("data0") /\ Following
  /\ Touch(Head(script).word)
  /\ UNCHANGED <<gpr, progbuf, command, autoexec, saved, got, handlerVars>>

SetData1 ==
  /\ Op("data1") /\ Following
  /\ data1' = [addr |-> Head(script).addr, write |-> Head(script).write]
  /\ UNCHANGED <<mem, gpr, progbuf, data0, command, autoexec, cmder, saved, got, handlerVars>>

RunProg ==
  /\ Op("exec") /\ Following
  /\ command' = "exec"
  /\ RunProgbuf(data0)
  /\ UNCHANGED <<gpr, progbuf, autoexec, saved, got, handlerVars>>

SetAuto ==
  /\ Op("auto") /\ Following
  /\ autoexec' = Head(script).on
  /\ UNCHANGED <<mem, gpr, progbuf, data0, data1, command, cmder, saved, got, handlerVars>>

\* get_gpr and set_gpr: a command moves the register to or from DATA0.
GetGpr ==
  /\ Op("transfer") /\ Following
  /\ command' = "transfer" /\ data0' = gpr
  /\ UNCHANGED <<mem, gpr, progbuf, data1, autoexec, cmder, saved, got, handlerVars>>

SetGpr ==
  /\ Op("transferBack") /\ Following
  /\ command' = "transfer" /\ gpr' = data0
  /\ UNCHANGED <<mem, progbuf, data0, data1, autoexec, cmder, saved, got, handlerVars>>

GetData0 ==
  /\ Op("get") /\ Following
  /\ got' = Append(got, data0)
  /\ Touch(data0)
  /\ UNCHANGED <<gpr, progbuf, command, autoexec, saved, handlerVars>>

\* set_mem_u32, _u16, _u8: the words that were read are changed and written back.
ModifyWords ==
  /\ Op("modify")
  /\ LET op == Head(script)
         offset == Offset(op.addr)
         lo == Aligned(op.addr)
     IN  script' =
           (IF op.size = 4
            THEN set_mem_u32_aligned(lo, Low32(got[1], op.word, offset))
                   \o set_mem_u32_aligned(lo + 4, High32(got[2], op.word, offset))
            ELSE set_mem_u32_aligned(lo, IF op.size = 2 THEN Low16(got[1], op.word, offset)
                                         ELSE Low8(got[1], op.word, offset)))
             \o Tail(script)
  /\ got' = <<>>
  /\ UNCHANGED <<mem, gpr, dmVars, saved, handlerVars>>

ModifyHigh ==
  /\ Op("modify16high")
  /\ LET op == Head(script)
     IN  script' = set_mem_u32_aligned(Aligned(op.addr) + 4, High16(got[1], op.word)) \o Tail(script)
  /\ got' = <<>>
  /\ UNCHANGED <<mem, gpr, dmVars, saved, handlerVars>>

-----------------------------------------------------------------------------
(* GDBServer *)

\* The first bytes of a word, low one first: put_hex_u8, _u16, _u32.
Bytes(w, n) == [i \in 1..n |-> w[i - 1]]
Blob(words) == [i \in 1..(4 * Len(words)) |-> words[(i + 3) \div 4][(i - 1) % 4]]

Put(kind, offset) == <<[do |-> "put", kind |-> kind, offset |-> offset]>>
PutReply ==
  /\ Op("put") /\ Following
  /\ LET kind == Head(script).kind
         offset == Head(script).offset
         hi == IF Len(got) > 1 THEN got[2] ELSE ZeroWord
     IN  reply' = reply \o
           (CASE kind = "u32" -> Bytes(Read32(got[1], hi, offset), 4)
              [] kind = "u16" -> Bytes(Read16(got[1], hi, offset), 2)
              [] kind = "u8" -> Bytes(Read8(got[1], offset), 1)
              [] kind = "blob" -> Blob(got))
  /\ got' = <<>>
  /\ UNCHANGED <<mem, gpr, dmVars, saved, at, left, status, histVars>>

Turn(n, ops) == script' = ops /\ at' = at + n /\ left' = left - n

\* Mutant: the chunk is rounded up to whole words.
ChunkUp(n) == IF Aligned(n + 3) > BufBytes THEN BufBytes ELSE Aligned(n + 3)
\* The whole words to go, as many as the buffer holds.
Chunk(n) == IF Aligned(n) > BufBytes THEN BufBytes ELSE Aligned(n)

\* One turn of handle_m's loop.
handle_m ==
  /\ status = "busy" /\ asked.do = "m" /\ script = <<>> /\ left # 0
  /\ CASE left = 2 -> Turn(2, ReadOf(at, 2) \o Put("u16", Offset(at)))
       [] left = 4 -> Turn(4, ReadOf(at, 4) \o Put("u32", Offset(at)))
       [] left \notin {2, 4} /\ Offset(at) = 0 /\ left >= 4 ->
            Turn(Chunk(left), get_block_aligned(at, Chunk(left) \div 4) \o Put("blob", 0))
       [] OTHER -> Turn(1, ReadOf(at, 1) \o Put("u8", Offset(at)))
  /\ UNCHANGED <<mem, gpr, dmVars, saved, got, reply, status, histVars>>

\* The i-th byte the request carries, and n of them in a word.
New(i) == <<count, i>>
NewWord(i, n) == [k \in 0..3 |-> IF k < n THEN New(i + k) ELSE Zero]
Done == asked.len - left

\* A turn of handle_M's loop. take_blob compares the packet's cursor with the size
\* of the blob and fails, at its first byte unless the blob is longer than what is
\* before it in the packet; the buffer it was to fill is written all the same, and
\* from then on take_hex returns 0. What the packet is answered with is left out: the
\* E01 set at the end is replaced in handle_packet by E00.
Failed == \E a \in Ram : a >= asked.at /\ a < at /\ Offset(a) = 0 /\ a + 4 <= asked.at + asked.len
handle_M ==
  /\ status = "busy" /\ asked.do = "M" /\ script = <<>> /\ left # 0
  /\ IF Offset(at) = 0 /\ left >= 4
     THEN Turn(Chunk(left), set_block_aligned(at, [i \in 1..(Chunk(left) \div 4) |->
                                                      [k \in 0..3 |-> Unknown]]))
     ELSE Turn(1, set_mem(at, 1, IF Failed THEN ZeroWord ELSE NewWord(Done, 1)))
  /\ UNCHANGED <<mem, gpr, dmVars, saved, got, reply, status, histVars>>

\* run_tests calls the accessors themselves, with the data in a buffer.
CallSet ==
  /\ status = "busy" /\ asked.do = "set" /\ script = <<>> /\ left # 0
  /\ Turn(left, set_mem(at, left, NewWord(0, left)))
  /\ UNCHANGED <<mem, gpr, dmVars, saved, got, reply, status, histVars>>
CallSetBlock ==
  /\ status = "busy" /\ asked.do = "block" /\ script = <<>> /\ left # 0
  /\ Turn(left, set_block_aligned(at, [i \in 1..(left \div 4) |-> NewWord(4 * (i - 1), 4)]))
  /\ UNCHANGED <<mem, gpr, dmVars, saved, got, reply, status, histVars>>

handle_p ==
  /\ status = "busy" /\ asked.do = "p" /\ script = <<>> /\ left # 0
  /\ Turn(left, <<[do |-> "transfer"]>> \o Get \o Put("u32", 0))
  /\ UNCHANGED <<mem, gpr, dmVars, saved, got, reply, status, histVars>>

\* The value is the digits of one number, highest first.
TakeHex(bytes) == [i \in 0..3 |-> bytes[4 - i]]
handle_P ==
  /\ status = "busy" /\ asked.do = "P" /\ script = <<>> /\ left # 0
  /\ Turn(left, Data0(TakeHex(Bytes(NewWord(0, 4), 4))) \o <<[do |-> "transferBack"]>>)
  /\ UNCHANGED <<mem, gpr, dmVars, saved, got, reply, status, histVars>>

Answer ==
  /\ status = "busy" /\ script = <<>> /\ left = 0
  /\ status' = "answered"
  /\ UNCHANGED <<mem, gpr, dmVars, saved, script, got, at, left, reply, histVars>>

-----------------------------------------------------------------------------
Receive(r) ==
  /\ status # "busy" /\ count < MaxRequests
  /\ status' = "busy" /\ asked' = r /\ count' = count + 1 /\ before' = mem
  /\ at' = r.at /\ left' = r.len /\ reply' = <<>> /\ got' = <<>>
  /\ UNCHANGED <<mem, gpr, dmVars, saved, script>>

\* The target ran in between: the copies of a0 and a1 are dropped.
RanAndStopped ==
  /\ status # "busy" /\ saved' = FALSE
  /\ UNCHANGED <<mem, gpr, dmVars, script, got, at, left, reply, status, histVars>>

\* Mutant: the debug module is not reset.
ResetModuleNot == UNCHANGED dmVars
\* PicoSWIO::reset writes 0 and 1 to DMCONTROL.
ResetModule ==
  /\ progbuf' = "none" /\ data0' = ZeroWord /\ data1' = [addr |-> 0, write |-> FALSE]
  /\ command' = "none" /\ autoexec' = FALSE /\ cmder' = FALSE

\* The Pico starts over in the middle of an access.
Restart ==
  /\ status = "busy"
  /\ ResetModule
  /\ saved' = FALSE /\ script' = <<>> /\ got' = <<>> /\ left' = 0 /\ reply' = <<>>
  /\ status' = "ready"
  /\ UNCHANGED <<mem, gpr, at, histVars>>

InitialMem == [a \in Ram |-> <<0, a>>]
Init ==
  /\ mem = InitialMem /\ before = InitialMem /\ gpr = [i \in 0..3 |-> Gpr(i)]
  /\ progbuf = "none" /\ data0 = ZeroWord /\ data1 = [addr |-> 0, write |-> FALSE]
  /\ command = "none" /\ autoexec = FALSE /\ cmder = FALSE
  /\ saved = FALSE /\ script = <<>> /\ got = <<>> /\ reply = <<>>
  /\ at = 0 /\ left = 0 /\ status = "ready"
  /\ asked \in Request /\ count = 0

\* Discipline: no M packet takes handle_M's block path.
InBytes(r) == \A a \in r.at..(r.at + r.len - 4) : Offset(a) # 0

Next ==
  \/ LoadProg \/ SetData0 \/ SetData1 \/ RunProg \/ SetAuto \/ GetGpr \/ SetGpr \/ GetData0
  \/ ModifyWords \/ ModifyHigh \/ PutReply
  \/ handle_m \/ handle_M \/ CallSet \/ CallSetBlock \/ handle_p \/ handle_P \/ Answer
  \/ \E r \in Request : (r.do = "M" => InBytes(r)) /\ Receive(r)
  \/ RanAndStopped \/ Restart

Spec == Init /\ [][Next]_vars

\* GDB writes memory of any size anywhere.
LooseSpec == Init /\ [][Next \/ \E r \in Request : Receive(r)]_vars

-----------------------------------------------------------------------------
TypeOK ==
  /\ mem \in [Ram -> Byte] /\ before \in [Ram -> Byte] /\ gpr \in Word
  /\ progbuf \in {"none", "get_set_u32", "get_block_aligned", "set_block_aligned"}
  /\ data0 \in Word /\ data1 \in [addr : Nat, write : BOOLEAN]
  /\ command \in {"none", "exec", "transfer"}
  /\ autoexec \in BOOLEAN /\ cmder \in BOOLEAN /\ saved \in BOOLEAN
  /\ got \in Seq(Word) /\ reply \in Seq(Byte)
  /\ at \in Nat /\ left \in Nat
  /\ status \in {"ready", "busy", "answered"}
  /\ asked \in Request /\ count \in 0..MaxRequests

Touched == asked.at..(asked.at + asked.len - 1)
Answered(what) == status = "answered" /\ asked.do \in what

\* A read is answered with the bytes at its addresses, in order, however it was
\* cut into 8, 16 and 32 bit accesses and blocks, and whatever the access before
\* it left in the debug module.
ReadsExact ==
  /\ Answered({"m"}) =>
       reply = [i \in 1..asked.len |-> before[asked.at + i - 1]]
  /\ Answered({"p"}) => reply = Bytes(gpr, 4)

\* A write that was answered wrote its bytes, in order.
WritesExact ==
  Answered({"M", "set", "block"}) =>
    \A a \in Touched : mem[a] = <<count, a - asked.at>>

\* No other byte ever changes, not for a moment, and not when a restart cuts a
\* read-modify-write or a block short.
NothingElseTouched ==
  \A a \in Ram : mem[a] # before[a] => a \in Touched /\ asked.do \in {"M", "set", "block"}

\* Between two accesses of RAM autoexec is off and no error is pending: the next
\* access does what it asks for. An access outside RAM is not among the requests: it
\* leaves CMDER set, as run_tests expects of a block past the end, and handle_packet
\* clears it only where PARANOID is defined.
PortClean == status # "busy" => ~autoexec /\ ~cmder
=============================================================================
