----------------------------- MODULE GDBLinkExact -----------------------------
(***************************************************************************)
(* GDBLink over a line that damages nothing and with a GDB that resends    *)
(* nothing: then every byte on the line is determined by the request, the  *)
(* reply and the state of the machine, and the link is the contract's, for *)
(* any requests, also those with a '-' in them.                            *)
(***************************************************************************)
EXTENDS GDBLinkProofs

(* Sums and texts grow byte by byte *)

StepAlike(f, g, n) == f[0] = g[0] /\ \A i \in 1..n : f[i - 1] = g[i - 1] => f[i] = g[i]
Alike(f, g, n) == \A i \in 0..n : f[i] = g[i]

LEMMA SameSteps ==
  ASSUME NEW n \in Nat, NEW f, NEW g, StepAlike(f, g, n)
  PROVE  Alike(f, g, n)
<1> DEFINE same == [i \in 0..n |-> IF f[i] = g[i] THEN 1 ELSE 0]
<1>1. \A i \in 0..n : same[i] \in {1} <=> f[i] = g[i]
  OBVIOUS
<1>2. 0 \in 0..n /\ \A i \in 1..n : i \in 0..n /\ i - 1 \in 0..n
  OBVIOUS
<1> HIDE DEF same
<1>3. PICK T : T = {1}
  OBVIOUS
<1>4. \A i \in 0..n : same[i] \in T
  <2>1. same[0] \in T /\ \A i \in 1..n : same[i - 1] \in T => same[i] \in T
    BY <1>1, <1>2, <1>3 DEF StepAlike
  <2> QED
    BY <2>1, StaysIn
<1> QED
  BY <1>1, <1>3, <1>4 DEF Alike

LEMMA SumEmpty == Sum(<<>>) = 0
<1>1. <<>> \in Seq(Byte) /\ Len(<<>>) = 0
  OBVIOUS
<1>2. PICK sum \in Sums(<<>>) : Sum(<<>>) = sum[Len(<<>>)]
  BY <1>1, SumSteps
<1> QED
  BY <1>1, <1>2 DEF Sums

\* A byte that is read or sent is added to the checksum.
LEMMA SumAppend ==
  ASSUME NEW bytes \in Seq(Byte), NEW c \in Byte
  PROVE  Sum(Append(bytes, c)) = (Sum(bytes) + c) % 256
<1>1. PICK N, more : N = Len(bytes) /\ more = Append(bytes, c)
  OBVIOUS
<1>2. /\ N \in Nat /\ more \in Seq(Byte) /\ Len(more) = N + 1 /\ more[N + 1] = c
      /\ \A i \in 1..N : more[i] = bytes[i]
  BY <1>1
<1>3. PICK f \in Sums(bytes) : Sum(bytes) = f[N]
  BY <1>1, SumSteps
<1>4. PICK g \in Sums(more) : Sum(more) = g[N + 1]
  BY <1>2, SumSteps
<1>5. f[0] = 0 /\ \A i \in 1..N : f[i] = (f[i - 1] + bytes[i]) % 256
  BY <1>1 DEF Sums
<1>6. g[0] = 0 /\ \A i \in 1..(N + 1) : g[i] = (g[i - 1] + more[i]) % 256
  BY <1>2 DEF Sums
<1>7. \A i \in 1..N : i \in 1..(N + 1)
  BY <1>2
<1>8. \A i \in 1..N : f[i - 1] = g[i - 1] => f[i] = g[i]
  BY <1>2, <1>5, <1>6, <1>7
<1>9. \A i \in 0..N : f[i] = g[i]
  <2>1. N \in Nat /\ StepAlike(f, g, N)
    BY <1>2, <1>5, <1>6, <1>8 DEF StepAlike
  <2> QED
    BY <2>1, SameSteps DEF Alike
<1>10. N \in 0..N /\ N + 1 \in 1..(N + 1) /\ N + 1 - 1 = N
  BY <1>2
<1> QED
  BY <1>1, <1>2, <1>3, <1>4, <1>6, <1>9, <1>10

\* more is ss with one more sequence behind it, or in front.
Extended(T, n, ss, more) ==
  /\ ss \in Seq(Seq(T)) /\ more \in Seq(Seq(T)) /\ Len(ss) = n /\ Len(more) = n + 1
  /\ \A i \in 1..n : more[i] = ss[i]
Preceded(T, n, ss, more) ==
  /\ ss \in Seq(Seq(T)) /\ more \in Seq(Seq(T)) /\ Len(ss) = n /\ Len(more) = n + 1
  /\ \A i \in 1..n : more[i + 1] = ss[i]

Then(s, t) == s \o t
Growing(f, n, ss) == f[0] = <<>> /\ \A i \in 1..n : f[i] = Then(f[i - 1], ss[i])

LEMMA ThenTwice ==
  ASSUME NEW T, NEW s \in Seq(T), NEW t \in Seq(T), NEW u \in Seq(T)
  PROVE  Then(Then(s, t), u) = Then(s, Then(t, u))
BY ConcatAssociative DEF Then

LEMMA FlattenOf ==
  ASSUME NEW T, NEW ss \in Seq(Seq(T))
  PROVE  \E f : f \in [0..Len(ss) -> Seq(T)] /\ Growing(f, Len(ss), ss) /\ FlattenSeq(ss) = f[Len(ss)]
BY FlattenSteps DEF Flattens, Growing, Then

LEMMA FlattenAppend ==
  ASSUME NEW T, NEW n \in Nat, NEW ss, NEW more, Extended(T, n, ss, more)
  PROVE  FlattenSeq(more) = FlattenSeq(ss) \o more[n + 1]
<1>0. PICK m \in Nat : m = n + 1
  OBVIOUS
<1>1. /\ ss \in Seq(Seq(T)) /\ more \in Seq(Seq(T)) /\ Len(ss) = n /\ Len(more) = m
      /\ \A i \in 1..n : more[i] = ss[i]
  BY <1>0 DEF Extended
<1>2. PICK f : f \in [0..n -> Seq(T)] /\ Growing(f, n, ss) /\ FlattenSeq(ss) = f[n]
  BY <1>1, FlattenOf
<1>3. PICK g : g \in [0..m -> Seq(T)] /\ Growing(g, m, more) /\ FlattenSeq(more) = g[m]
  BY <1>1, FlattenOf
<1>4. n \in 0..n /\ m \in 1..m /\ m - 1 = n /\ \A i \in 1..n : i \in 1..m
  BY <1>0
<1>5. StepAlike(f, g, n)
  BY <1>1, <1>2, <1>3, <1>4 DEF StepAlike, Growing
<1>6. f[n] = g[n]
  BY <1>4, <1>5, SameSteps DEF Alike
<1>7. g[m] = Then(g[n], more[m])
  BY <1>3, <1>4 DEF Growing
<1> QED
  BY <1>0, <1>2, <1>3, <1>6, <1>7 DEF Then

LEMMA FlattenPrepend ==
  ASSUME NEW T, NEW n \in Nat, NEW ss, NEW more, Preceded(T, n, ss, more)
  PROVE  FlattenSeq(more) = more[1] \o FlattenSeq(ss)
<1>0. PICK m \in Nat : m = n + 1
  OBVIOUS
<1>1. /\ ss \in Seq(Seq(T)) /\ more \in Seq(Seq(T)) /\ Len(ss) = n /\ Len(more) = m
      /\ \A i \in 1..n : more[i + 1] = ss[i]
  BY <1>0 DEF Preceded
<1>2. PICK f : f \in [0..n -> Seq(T)] /\ Growing(f, n, ss) /\ FlattenSeq(ss) = f[n]
  BY <1>1, FlattenOf
<1>3. PICK g : g \in [0..m -> Seq(T)] /\ Growing(g, m, more) /\ FlattenSeq(more) = g[m]
  BY <1>1, FlattenOf
<1>4. /\ 0 \in 0..n /\ n \in 0..n /\ 1 \in 1..m /\ 0 + 1 = 1 /\ 1 - 1 = 0
      /\ \A i \in 1..n : i \in 0..n /\ i - 1 \in 0..n /\ i + 1 \in 1..m /\ i + 1 - 1 = i /\ i - 1 + 1 = i
  BY <1>0
<1>5. PICK first : first = more[1] /\ first \in Seq(T)
  BY <1>1, <1>4
<1> DEFINE u == [i \in 0..n |-> g[i + 1]]
           v == [i \in 0..n |-> Then(first, f[i])]
<1>6. \A i \in 0..n : u[i] = g[i + 1] /\ v[i] = Then(first, f[i])
  BY Zenon
<1> HIDE DEF u, v
<1>7. u[0] = v[0]
  <2>1. u[0] = g[1] /\ v[0] = Then(first, <<>>)
    BY <1>2, <1>4, <1>6 DEF Growing
  <2>2. g[1] = Then(<<>>, first)
    BY <1>3, <1>4, <1>5 DEF Growing
  <2> QED
    BY <1>5, <2>1, <2>2, ConcatEmptySeq DEF Then
<1>8. ASSUME NEW i \in 1..n, u[i - 1] = v[i - 1] PROVE u[i] = v[i]
  <2>1. i \in 0..n /\ i - 1 \in 0..n /\ i + 1 \in 1..m /\ i + 1 - 1 = i /\ i - 1 + 1 = i
    BY <1>4
  <2>2. g[i + 1] = Then(g[i], ss[i])
    BY <1>1, <1>3, <2>1 DEF Growing
  <2>3. u[i] = g[i + 1] /\ v[i] = Then(first, f[i]) /\ u[i - 1] = g[i] /\ v[i - 1] = Then(first, f[i - 1])
    BY <1>6, <2>1
  <2>4. f[i] = Then(f[i - 1], ss[i])
    BY <1>2 DEF Growing
  <2>5. f[i - 1] \in Seq(T) /\ ss[i] \in Seq(T)
    BY <1>1, <1>2, <2>1
  <2>6. Then(Then(first, f[i - 1]), ss[i]) = Then(first, Then(f[i - 1], ss[i]))
    <3>1. PICK s, t : s = f[i - 1] /\ t = ss[i]
      OBVIOUS
    <3>2. s \in Seq(T) /\ t \in Seq(T)
      BY <2>5, <3>1
    <3>3. Then(Then(first, s), t) = Then(first, Then(s, t))
      BY <1>5, <3>2, ThenTwice
    <3> QED
      BY <3>1, <3>3
  <2> QED
    BY <1>8, <2>2, <2>3, <2>4, <2>6
<1>9. u[n] = v[n]
  <2>1. StepAlike(u, v, n)
    BY <1>7, <1>8 DEF StepAlike
  <2> QED
    BY <1>4, <2>1, SameSteps DEF Alike
<1>10. g[m] = Then(first, f[n])
  BY <1>0, <1>4, <1>6, <1>9
<1> QED
  BY <1>2, <1>3, <1>5, <1>10 DEF Then

-----------------------------------------------------------------------------
(* A request on its way: what of it the machine has read, and what is to come *)

Special == {Dollar, Hash, Escape}
Part(b, i) == IF b[i] \in Special THEN <<Escape, Xor20(b[i])>> ELSE <<b[i]>>
Parts(b, k, n) == [i \in 1..n |-> Part(b, k + i)]

Ending(b) == <<Hash, ToHex(Sum(Escaped(b)) \div 16), ToHex(Sum(Escaped(b)) % 16)>>
Text(b, k) == FlattenSeq(Parts(b, 0, k))
Rest(b, k) == FlattenSeq(Parts(b, k, Len(b) - k)) \o Ending(b)

LEMMA PartTyped ==
  ASSUME NEW b \in Seq(Byte), NEW i \in 1..Len(b)
  PROVE  Part(b, i) \in Seq(Byte)
<1>1. b[i] \in Byte /\ Xor20(b[i]) \in Byte /\ Escape \in Byte
  BY XorTyped, SentBytes DEF Sent
<1> QED
  BY <1>1 DEF Part

LEMMA PartsTyped ==
  ASSUME NEW b \in Seq(Byte), NEW k \in Nat, NEW n \in Nat, k + n <= Len(b)
  PROVE  Parts(b, k, n) \in Seq(Seq(Byte)) /\ Len(Parts(b, k, n)) = n
<1>1. \A i \in 1..n : k + i \in 1..Len(b)
  OBVIOUS
<1>2. \A i \in 1..n : Part(b, k + i) \in Seq(Byte)
  BY <1>1, PartTyped
<1>3. PICK T : T = Seq(Byte)
  OBVIOUS
<1>4. Parts(b, k, n) \in [1..n -> T]
  BY <1>2, <1>3 DEF Parts
<1>5. Parts(b, k, n) \in Seq(T) /\ Len(Parts(b, k, n)) = n
  BY <1>4
<1> QED
  BY <1>3, <1>5

LEMMA EndingTyped ==
  ASSUME NEW b \in Seq(Byte), Escaped(b) \in Seq(Byte)
  PROVE  Ending(b) \in Seq(Byte)
<1>1. PICK x \in Byte : x = Sum(Escaped(b))
  BY SumIsByte
<1>2. ToHex(x \div 16) \in Byte /\ ToHex(x % 16) \in Byte /\ Hash \in Byte
  BY Nibbles, HexDigits, SentBytes DEF Sent
<1> QED
  BY <1>1, <1>2 DEF Ending

LEMMA TextTyped ==
  ASSUME NEW b \in Seq(Byte), NEW k \in 0..Len(b)
  PROVE  Text(b, k) \in Seq(Byte)
<1>1. 0 + k <= Len(b) /\ k \in Nat
  OBVIOUS
<1> QED
  BY <1>1, PartsTyped, FlattenTyped DEF Text

LEMMA TextNone ==
  ASSUME NEW b
  PROVE  Text(b, 0) = <<>>
<1>1. Parts(b, 0, 0) = <<>>
  BY DEF Parts
<1> QED
  BY <1>1 DEF Text, FlattenSeq

LEMMA TextAll ==
  ASSUME NEW b \in Seq(Byte)
  PROVE  Text(b, Len(b)) = Escaped(b)
<1>1. \A i \in 1..Len(b) : 0 + i = i
  OBVIOUS
<1>2. Parts(b, 0, Len(b)) =
        [i \in 1..Len(b) |-> IF b[i] \in {Dollar, Hash, Escape} THEN <<Escape, Xor20(b[i])>> ELSE <<b[i]>>]
  BY <1>1 DEF Parts, Part, Special
<1> QED
  BY <1>2 DEF Text, Escaped

LEMMA TextNext ==
  ASSUME NEW b \in Seq(Byte), NEW k \in 0..(Len(b) - 1)
  PROVE  Text(b, k + 1) = Text(b, k) \o Part(b, k + 1)
<1>1. k \in Nat /\ 0 + k <= Len(b) /\ k + 1 \in Nat /\ 0 + (k + 1) <= Len(b)
      /\ k + 1 \in 1..(k + 1) /\ 0 + (k + 1) = k + 1 /\ \A i \in 1..k : i \in 1..(k + 1)
  OBVIOUS
<1>2. /\ \A i \in 1..k : Parts(b, 0, k + 1)[i] = Parts(b, 0, k)[i]
      /\ Parts(b, 0, k + 1)[k + 1] = Part(b, k + 1)
  BY <1>1 DEF Parts
<1>3. Extended(Byte, k, Parts(b, 0, k), Parts(b, 0, k + 1))
  BY <1>1, <1>2, PartsTyped DEF Extended
<1>4. FlattenSeq(Parts(b, 0, k + 1)) = FlattenSeq(Parts(b, 0, k)) \o Parts(b, 0, k + 1)[k + 1]
  <2>1. PICK ss, more : ss = Parts(b, 0, k) /\ more = Parts(b, 0, k + 1)
    OBVIOUS
  <2>2. k \in Nat /\ Extended(Byte, k, ss, more)
    BY <1>1, <1>3, <2>1
  <2>3. FlattenSeq(more) = FlattenSeq(ss) \o more[k + 1]
    BY <2>2, FlattenAppend
  <2> QED
    BY <2>1, <2>3, Zenon
<1> QED
  BY <1>2, <1>4, Zenon DEF Text

LEMMA RestTyped ==
  ASSUME NEW b \in Seq(Byte), NEW k \in 0..Len(b)
  PROVE  Rest(b, k) \in Seq(Byte)
<1>1. k \in Nat /\ Len(b) - k \in Nat /\ k + (Len(b) - k) <= Len(b)
  OBVIOUS
<1>2. FlattenSeq(Parts(b, k, Len(b) - k)) \in Seq(Byte)
  BY <1>1, PartsTyped, FlattenTyped
<1>3. Escaped(b) \in Seq(Byte)
  <2>1. Len(b) \in 0..Len(b)
    OBVIOUS
  <2> QED
    BY <2>1, TextAll, TextTyped
<1>4. Ending(b) \in Seq(Byte)
  BY <1>3, EndingTyped
<1> QED
  BY <1>2, <1>4 DEF Rest

LEMMA RestNone ==
  ASSUME NEW b \in Seq(Byte)
  PROVE  Rest(b, Len(b)) = Ending(b)
<1>1. Len(b) - Len(b) = 0 /\ Len(b) \in 0..Len(b)
  OBVIOUS
<1>2. Parts(b, Len(b), 0) = <<>>
  BY DEF Parts
<1>3. FlattenSeq(Parts(b, Len(b), Len(b) - Len(b))) = <<>>
  BY <1>1, <1>2 DEF FlattenSeq
<1>4. Ending(b) \in Seq(Byte)
  BY <1>1, TextAll, TextTyped, EndingTyped
<1> QED
  BY <1>3, <1>4, ConcatEmptySeq DEF Rest

LEMMA RestNext ==
  ASSUME NEW b \in Seq(Byte), NEW k \in 0..(Len(b) - 1)
  PROVE  Rest(b, k) = Part(b, k + 1) \o Rest(b, k + 1)
<1>1. PICK n \in Nat : n = Len(b) - (k + 1)
  <2>1. Len(b) \in Nat /\ Len(b) - (k + 1) \in Nat
    OBVIOUS
  <2> QED
    BY <2>1
<1>2. /\ k \in Nat /\ k + 1 \in Nat /\ n + 1 \in Nat /\ Len(b) - k = n + 1 /\ k + (n + 1) <= Len(b)
      /\ k + 1 + n <= Len(b) /\ k + 1 \in 1..Len(b) /\ 1 \in 1..(n + 1)
      /\ \A i \in 1..n : i + 1 \in 1..(n + 1) /\ k + (i + 1) = k + 1 + i
      /\ Len(b) \in 0..Len(b)
  BY <1>1
<1>3. /\ \A i \in 1..n : Parts(b, k, n + 1)[i + 1] = Parts(b, k + 1, n)[i]
      /\ Parts(b, k, n + 1)[1] = Part(b, k + 1)
  BY <1>2 DEF Parts
<1>4. Preceded(Byte, n, Parts(b, k + 1, n), Parts(b, k, n + 1))
  BY <1>2, <1>3, PartsTyped DEF Preceded
<1>5. FlattenSeq(Parts(b, k, n + 1)) = Parts(b, k, n + 1)[1] \o FlattenSeq(Parts(b, k + 1, n))
  BY <1>4, FlattenPrepend
<1>6. PICK part, texts, end : /\ part = Part(b, k + 1) /\ texts = FlattenSeq(Parts(b, k + 1, n))
                              /\ end = Ending(b)
  OBVIOUS
<1>7. part \in Seq(Byte) /\ texts \in Seq(Byte) /\ end \in Seq(Byte)
  BY <1>2, <1>6, PartTyped, PartsTyped, FlattenTyped, TextAll, TextTyped, EndingTyped
<1>8. (part \o texts) \o end = part \o (texts \o end)
  BY <1>7, ConcatAssociative
<1>9. Rest(b, k) = (part \o texts) \o end
  BY <1>2, <1>3, <1>5, <1>6 DEF Rest
<1>10. Rest(b, k + 1) = texts \o end
  BY <1>1, <1>6 DEF Rest
<1> QED
  BY <1>6, <1>8, <1>9, <1>10

LEMMA FramedRest ==
  ASSUME NEW b \in Seq(Byte)
  PROVE  Framed(b) = <<Dollar>> \o Rest(b, 0)
<1>1. PICK text, end, dollar : text = Escaped(b) /\ end = Ending(b) /\ dollar = <<Dollar>>
  OBVIOUS
<1>2. Len(b) \in 0..Len(b) /\ Len(b) - 0 = Len(b)
  OBVIOUS
<1>3. text \in Seq(Byte) /\ end \in Seq(Byte) /\ dollar \in Seq(Byte)
  <2>1. Dollar \in Byte
    BY SentBytes DEF Sent
  <2> QED
    BY <1>1, <1>2, <2>1, TextAll, TextTyped, EndingTyped
<1>4. Framed(b) = (dollar \o text) \o end
  BY <1>1 DEF Framed, Ending
<1>5. Rest(b, 0) = text \o end
  BY <1>1, <1>2, TextAll DEF Rest, Text
<1> QED
  BY <1>1, <1>3, <1>4, <1>5, ConcatAssociative

LEMMA HeadAndRest ==
  ASSUME NEW c \in Byte, NEW s \in Seq(Byte)
  PROVE  /\ <<c>> \o s \in Seq(Byte) /\ <<c>> \o s # <<>>
         /\ Head(<<c>> \o s) = c /\ Tail(<<c>> \o s) = s
<1>1. PICK t : t = <<c>> \o s
  OBVIOUS
<1>2. <<c>> \in Seq(Byte) /\ Len(<<c>>) = 1
  OBVIOUS
<1>3. t \in Seq(Byte) /\ Len(t) = 1 + Len(s) /\ Len(s) \in Nat
  BY <1>1, <1>2, ConcatProperties
<1>4. \A i \in 1..(1 + Len(s)) : t[i] = IF i <= 1 THEN c ELSE s[i - 1]
  BY <1>1, <1>2, ConcatProperties
<1>5. t # <<>> /\ Head(t) = c
  BY <1>3, <1>4
<1>6. Tail(t) \in Seq(Byte) /\ Len(Tail(t)) = Len(s) /\ \A i \in 1..Len(s) : Tail(t)[i] = s[i]
  BY <1>3, <1>4
<1>7. Tail(t) = s
  BY <1>6
<1> QED
  BY <1>1, <1>3, <1>5, <1>7

LEMMA RestPlain ==
  ASSUME NEW b \in Seq(Byte), NEW k \in 0..(Len(b) - 1), b[k + 1] \notin Special
  PROVE  Rest(b, k) = <<b[k + 1]>> \o Rest(b, k + 1)
BY RestNext DEF Part

LEMMA RestSpecial ==
  ASSUME NEW b \in Seq(Byte), NEW k \in 0..(Len(b) - 1), b[k + 1] \in Special
  PROVE  Rest(b, k) = <<Escape>> \o (<<Xor20(b[k + 1])>> \o Rest(b, k + 1))
<1>1. k + 1 \in 0..Len(b) /\ k + 1 \in 1..Len(b)
  OBVIOUS
<1>2. PICK e, x, rest : e = <<Escape>> /\ x = <<Xor20(b[k + 1])>> /\ rest = Rest(b, k + 1)
  OBVIOUS
<1>3. Escape \in Byte /\ Xor20(b[k + 1]) \in Byte
  BY <1>1, SentBytes, XorTyped DEF Sent
<1>4. e \in Seq(Byte) /\ x \in Seq(Byte) /\ rest \in Seq(Byte)
  BY <1>1, <1>2, <1>3, RestTyped
<1>5. Part(b, k + 1) = <<Escape, Xor20(b[k + 1])>>
  BY DEF Part
<1>6. <<Escape, Xor20(b[k + 1])>> = e \o x
  BY <1>2, <1>3
<1>7. (e \o x) \o rest = e \o (x \o rest)
  BY <1>4, ConcatAssociative
<1> QED
  BY <1>2, <1>5, <1>6, <1>7, RestNext

LEMMA SumPlain ==
  ASSUME NEW b \in Seq(Byte), NEW k \in 0..(Len(b) - 1), b[k + 1] \notin Special
  PROVE  Sum(Text(b, k + 1)) = (Sum(Text(b, k)) + b[k + 1]) % 256
<1>1. k \in 0..Len(b) /\ b[k + 1] \in Byte
  OBVIOUS
<1>2. PICK text : text = Text(b, k) /\ text \in Seq(Byte)
  BY <1>1, TextTyped
<1>3. Text(b, k + 1) = text \o <<b[k + 1]>>
  BY <1>2, TextNext DEF Part
<1>4. text \o <<b[k + 1]>> = Append(text, b[k + 1])
  BY <1>1, <1>2
<1>5. Sum(Append(text, b[k + 1])) = (Sum(text) + b[k + 1]) % 256
  BY <1>1, <1>2, SumAppend
<1> QED
  BY <1>2, <1>3, <1>4, <1>5

LEMMA SumSpecial ==
  ASSUME NEW b \in Seq(Byte), NEW k \in 0..(Len(b) - 1), b[k + 1] \in Special
  PROVE  Sum(Text(b, k + 1)) = (((Sum(Text(b, k)) + Escape) % 256) + Xor20(b[k + 1])) % 256
<1>1. k \in 0..Len(b) /\ k + 1 \in 1..Len(b)
  OBVIOUS
<1>2. PICK x \in Byte : x = Xor20(b[k + 1])
  BY <1>1, XorTyped
<1>3. PICK text : text = Text(b, k) /\ text \in Seq(Byte)
  BY <1>1, TextTyped
<1>4. Escape \in Byte
  BY SentBytes DEF Sent
<1>5. PICK more : more = Append(text, Escape)
  OBVIOUS
<1>6. more \in Seq(Byte)
  BY <1>3, <1>4, <1>5, AppendProperties
<1>7. Text(b, k + 1) = text \o <<Escape, x>>
  BY <1>2, <1>3, TextNext DEF Part
<1>8. text \o <<Escape, x>> = Append(more, x)
  BY <1>2, <1>3, <1>4, <1>5
<1>9. Sum(Append(text, Escape)) = (Sum(text) + Escape) % 256
  BY <1>3, <1>4, SumAppend
<1>10. Sum(Append(more, x)) = (Sum(more) + x) % 256
  BY <1>2, <1>6, SumAppend
<1> QED
  BY <1>2, <1>3, <1>5, <1>7, <1>8, <1>9, <1>10

\* The machine reads the two digits of a checksum as GDB wrote them.
LEMMA HexBack ==
  ASSUME NEW x \in Byte
  PROVE  Digit(Digit(0, ToHex(x \div 16)), ToHex(x % 16)) = x
<1>1. PICK h, l : h = x \div 16 /\ l = x % 16
  OBVIOUS
<1>2. h \in 0..15 /\ l \in 0..15 /\ x = 16 * h + l
  BY <1>1 DEF Byte
<1>3. \A d \in 0..15 : FromHex(ToHex(d)) = d
  BY DEF FromHex, ToHex
<1>4. Digit(0, ToHex(h)) = h
  <2>1. FromHex(ToHex(h)) = h /\ h # -1 /\ (0 * 16) % 256 = 0
    BY <1>2, <1>3
  <2> QED
    BY <1>2, <2>1 DEF Digit
<1>5. Digit(h, ToHex(l)) = 16 * h + l
  <2>1. FromHex(ToHex(l)) = l /\ l # -1 /\ (h * 16) % 256 = 16 * h
    BY <1>2, <1>3
  <2> QED
    BY <1>2, <2>1 DEF Digit
<1> QED
  BY <1>1, <1>2, <1>4, <1>5

LEMMA XorBack ==
  ASSUME NEW c \in Special
  PROVE  Xor20(Xor20(c)) = c
BY DEF Special, Xor20, Dollar, Hash, Escape

-----------------------------------------------------------------------------
(* The inductive invariant *)

\* What GDB sends outside of requests, and the machine drops where it expects one.
Noise == {Plus, Break}
Expecting(noise) == Current = "IDLE" \/ (state = "RECV_ACK" /\ \E i \in 1..Len(noise) : noise[i] = Plus)

\* The request is on its way, none of it read.
Queued == \E noise \in Seq(Noise) : toPico = noise \o Framed(request) /\ Expecting(noise)

\* k bytes of it are in recv: where the machine is, and what is to come.
At(k) ==
  \/ /\ state = "RECV_PACKET"
     /\ checksum = Sum(Text(request, k)) /\ toPico = Rest(request, k)
  \/ /\ state = "RECV_PACKET_ESCAPE" /\ k < Len(request) /\ request[k + 1] \in Special
     /\ checksum = (Sum(Text(request, k)) + Escape) % 256
     /\ toPico = <<Xor20(request[k + 1])>> \o Rest(request, k + 1)
  \/ /\ state = "RECV_SUFFIX1" /\ k = Len(request)
     /\ checksum = Sum(Escaped(request)) /\ expected_checksum = 0
     /\ toPico = <<ToHex(checksum \div 16), ToHex(checksum % 16)>>
  \/ /\ state = "RECV_SUFFIX2" /\ k = Len(request)
     /\ checksum = Sum(Escaped(request)) /\ expected_checksum = Digit(0, ToHex(checksum \div 16))
     /\ toPico = <<ToHex(checksum % 16)>>
Receiving == \E k \in 0..Len(request) : recv = SubSeq(request, 1, k) /\ At(k)

\* The request was taken; out is what is out of its reply, m bytes of it.
Packet(body) == <<Dollar>> \o body \o <<Hash, ToHex(Sum(body) \div 16), ToHex(Sum(body) % 16)>>
Reply == IF request = Continue THEN Stopped ELSE AnswerOf[request]
Out(m) ==
  \/ state = "SEND_PREFIX" /\ m = 0
  \/ /\ state = "SEND_PACKET" /\ m = 1 + cursor /\ cursor < Len(send)
     /\ checksum = Sum(SubSeq(send, 1, cursor))
  \/ state = "SEND_SUFFIX1" /\ m = Len(send) + 1 /\ checksum = Sum(send)
  \/ state = "SEND_SUFFIX2" /\ m = Len(send) + 2 /\ checksum = Sum(send)
  \/ state = "SEND_SUFFIX3" /\ m = Len(send) + 3 /\ checksum = Sum(send)
  \/ state = "RECV_ACK" /\ m = Len(send) + 4
Replied(out) ==
  \/ state = "RUNNING" /\ request = Continue /\ out = <<>>
  \/ state = "KILLED" /\ request = Kill /\ out = <<>>
  \/ /\ request # Kill /\ send = Reply
     /\ \E m \in 0..(Len(send) + 4) : out = SubSeq(Packet(send), 1, m) /\ Out(m)

Closed == host = "closed" /\ handled = <<>> /\ toHost = <<>>
Resting ==
  /\ host = "ready" /\ handled \in {<<>>, <<request>>} /\ toHost = <<>>
  /\ toPico \in Seq(Noise) /\ Expecting(toPico)
Asking == host = "sent" /\ handled = <<>> /\ toHost = <<>> /\ (Queued \/ Receiving)
Acknowledging ==
  /\ host = "sent" /\ handled = <<request>> /\ toPico = <<>>
  /\ \E out \in Seq(Byte) : toHost = <<Plus>> \o out /\ Replied(out)
Answering == host = "acked" /\ handled = <<request>> /\ toPico \in Seq({Break}) /\ Replied(toHost)

ExactInv == TypeOK /\ (Closed \/ Resting \/ Asking \/ Acknowledging \/ Answering)
LEMMA NoiseBytes == Noise \subseteq Byte /\ {Break} \subseteq Byte /\ {Break} \subseteq Noise
BY DEF Noise, Byte, Plus, Break

LEMMA NoiseTyped ==
  ASSUME NEW s
  PROVE  /\ s \in Seq(Noise) => s \in Seq(Byte)
         /\ s \in Seq({Break}) => s \in Seq(Byte) /\ s \in Seq(Noise)
BY NoiseBytes

\* What an action leaves to GDB.
LEMMA OverlookTyped ==
  ASSUME NEW S, toPico \in Seq(S), Overlook
  PROVE  toPico' \in Seq(S) /\ (toPico = <<>> => toPico' = <<>>)
BY DEF Overlook

LEMMA ReceiveTyped ==
  ASSUME NEW S, toPico \in Seq(S), NEW c, Receive(c)
  PROVE  c \in S /\ toPico' \in Seq(S)
<1>1. toPico # <<>> /\ c = Head(toPico) /\ toPico' = Tail(toPico)
  BY DEF Receive
<1> QED
  BY <1>1, HeadTailProperties

LEMMA ReceiveFront ==
  ASSUME NEW first \in Byte, NEW rest \in Seq(Byte), toPico = <<first>> \o rest,
         NEW c, Receive(c)
  PROVE  c = first /\ toPico' = rest
<1>1. c = Head(<<first>> \o rest) /\ toPico' = Tail(<<first>> \o rest)
  BY DEF Receive
<1> QED
  BY <1>1, HeadAndRest

LEMMA Whole == ASSUME NEW s \in Seq(Byte) PROVE SubSeq(s, 1, Len(s)) = s
OBVIOUS

LEMMA Grown ==
  ASSUME NEW s \in Seq(Byte), NEW k \in 0..(Len(s) - 1)
  PROVE  SubSeq(s, 1, k + 1) = Append(SubSeq(s, 1, k), s[k + 1])
OBVIOUS

\* The states that take no part in an exchange, and those that answer one.
Apart == {"DISCONNECTED", "IDLE"}
Reading == {"RECV_PACKET", "RECV_PACKET_ESCAPE", "RECV_SUFFIX1", "RECV_SUFFIX2"}
Giving == {"RUNNING", "KILLED", "SEND_PREFIX", "SEND_PACKET", "SEND_SUFFIX1", "SEND_SUFFIX2",
             "SEND_SUFFIX3"}

LEMMA StateTells ==
  ASSUME ExactInv
  PROVE  /\ state \in Apart /\ host # "closed" => Resting \/ (Asking /\ Queued)
         /\ state \in Reading /\ host # "closed" => Asking /\ Receiving
         /\ state \in Giving /\ host # "closed" => Acknowledging \/ Answering
         /\ host = "closed" => Closed
<1>1. Queued => state \in Apart \cup {"RECV_ACK"}
  BY DEF Queued, Expecting, Current, Apart
<1>2. Receiving => state \in Reading
  BY DEF Receiving, At, Reading
<1>3. \A out : Replied(out) => state \in Giving \cup {"RECV_ACK"}
  BY DEF Replied, Out, Giving
<1>4. Resting => state \in Apart \cup {"RECV_ACK"} /\ host = "ready"
  BY DEF Resting, Expecting, Current, Apart
<1>5. Asking => state \in Apart \cup Reading \cup {"RECV_ACK"} /\ host = "sent" /\ (Queued \/ Receiving)
  BY <1>1, <1>2 DEF Asking
<1>6. Acknowledging \/ Answering => state \in Giving \cup {"RECV_ACK"} /\ host # "closed"
  BY <1>3 DEF Acknowledging, Answering
<1>7. Closed \/ Resting \/ Asking \/ Acknowledging \/ Answering
  BY DEF ExactInv
<1>8. Apart \cap Reading = {} /\ Apart \cap Giving = {} /\ Reading \cap Giving = {}
      /\ "RECV_ACK" \notin Apart \cup Reading \cup Giving
  BY DEF Apart, Reading, Giving
<1>9. Closed => host = "closed"
  BY DEF Closed
<1> QED
  BY <1>1, <1>2, <1>4, <1>5, <1>6, <1>7, <1>8, <1>9

-----------------------------------------------------------------------------
(* The machine: nothing happens, and taking a request *)

LEMMA ExactTyped ==
  ASSUME ExactInv
  PROVE  /\ TypeOK /\ request \in Request /\ request \in Seq(Byte)
         /\ toPico \in Seq(Byte) /\ toHost \in Seq(Byte) /\ Len(request) \in Nat
BY GDBLinkAssumption DEF ExactInv, TypeOK

LEMMA ConnectExact ==
  ASSUME ExactInv, Connect
  PROVE  ExactInv'
<1>1. /\ host # "closed" /\ state = "DISCONNECTED" /\ state' = "IDLE"
      /\ UNCHANGED <<recv, checksum, expected_checksum, send, cursor, handled, toPico, toHost, hostVars>>
  BY DEF Connect, Connected
<1>2. TypeOK'
  BY <1>1 DEF ExactInv, TypeOK, State, hostVars
<1>3. Resting \/ (Asking /\ Queued)
  BY <1>1, StateTells DEF Apart
<1>4. \A noise : Expecting(noise)'
  BY <1>1 DEF Expecting, Current
<1>5. Resting => Resting'
  BY <1>1, <1>4 DEF Resting, hostVars
<1>6. Queued => Queued'
  BY <1>1, <1>4 DEF Queued, hostVars
<1>7. Asking /\ Queued => Asking'
  BY <1>1, <1>6 DEF Asking, hostVars
<1> QED
  BY <1>2, <1>3, <1>5, <1>7 DEF ExactInv

LEMMA DisconnectedExact ==
  ASSUME ExactInv, Disconnected
  PROVE  ExactInv'
<1>1. /\ host = "closed" /\ state' = "DISCONNECTED" /\ Overlook /\ cursor' = 0
      /\ recv' = <<>> /\ expected_checksum' = 0 /\ send' = <<>> /\ checksum' = 0
      /\ UNCHANGED <<handled, toHost, hostVars>>
  BY DEF Disconnected, Connected, Forget
<1>2. toPico' \in Seq(Byte)
  BY <1>1, ExactTyped, OverlookTyped
<1>3. <<>> \in Seq(Byte) /\ 0 \in Byte /\ cursor' \in 0..Len(send')
  BY <1>1, ByteSum
<1>4. TypeOK'
  BY <1>1, <1>2, <1>3 DEF ExactInv, TypeOK, State, hostVars
<1>5. Closed'
  BY <1>1, StateTells DEF Closed, hostVars
<1> QED
  BY <1>4, <1>5 DEF ExactInv

\* What GDB sent outside of its request is dropped, byte by byte.
LEMMA NoiseDropped ==
  ASSUME NEW noise \in Seq(Noise), noise # <<>>, NEW rest \in Seq(Byte),
         toPico = noise \o rest, NEW c, Receive(c)
  PROVE  /\ c = Head(noise) /\ c \in Noise /\ Tail(noise) \in Seq(Noise)
         /\ toPico' = Tail(noise) \o rest
<1>1. PICK t : t = noise \o rest
  OBVIOUS
<1>2. noise \in Seq(Byte) /\ Len(noise) \in Nat \ {0} /\ Len(rest) \in Nat
  BY NoiseTyped
<1>3. /\ t \in Seq(Byte) /\ Len(t) = Len(noise) + Len(rest) /\ t # <<>>
      /\ \A i \in 1..(Len(noise) + Len(rest)) :
           t[i] = IF i <= Len(noise) THEN noise[i] ELSE rest[i - Len(noise)]
  BY <1>1, <1>2, ConcatProperties
<1>4. Head(t) = Head(noise) /\ Head(noise) \in Noise /\ Tail(noise) \in Seq(Noise)
  BY <1>2, <1>3
<1>5. Tail(t) = Tail(noise) \o rest
  BY <1>1, <1>2
<1> QED
  BY <1>1, <1>4, <1>5 DEF Receive

LEMMA NoNoise ==
  ASSUME NEW rest \in Seq(Byte)
  PROVE  <<>> \o rest = rest
BY ConcatEmptySeq

LEMMA FramedTyped ==
  ASSUME NEW b \in Seq(Byte)
  PROVE  Framed(b) \in Seq(Byte) /\ Rest(b, 0) \in Seq(Byte)
<1>1. 0 \in 0..Len(b)
  OBVIOUS
<1>2. Rest(b, 0) \in Seq(Byte) /\ Dollar \in Byte
  BY <1>1, RestTyped, SentBytes DEF Sent
<1> QED
  BY <1>2, FramedRest, HeadAndRest

LEMMA IdleExact ==
  ASSUME ExactInv, Idle
  PROVE  ExactInv'
<1>1. PICK c \in Byte :
        /\ host # "closed" /\ Current = "IDLE" /\ Receive(c)
        /\ state' = IF c = Dollar THEN "RECV_PACKET" ELSE "IDLE"
        /\ recv' = IF c = Dollar THEN <<>> ELSE recv
        /\ checksum' = IF c = Dollar THEN 0 ELSE checksum
        /\ UNCHANGED <<expected_checksum, send, cursor, handled, toHost, hostVars>>
  BY DEF Idle, Connected
<1>2. state \in Apart
  BY <1>1 DEF Current, Apart
<1>3. toPico' \in Seq(Byte)
  BY <1>1, ExactTyped, ReceiveTyped
<1>4. <<>> \in Seq(Byte) /\ 0 \in Byte
  BY ByteSum
<1>5. TypeOK'
  BY <1>1, <1>3, <1>4 DEF ExactInv, TypeOK, State, hostVars
<1>6. c # Dollar => \A noise : Expecting(noise)'
  BY <1>1 DEF Expecting, Current
<1>7. \A n \in Noise : n # Dollar
  BY DEF Noise, Plus, Break, Dollar
<1>8. CASE Resting
  <2>1. c \in Noise /\ toPico' \in Seq(Noise)
    BY <1>1, <1>8, ReceiveTyped DEF Resting
  <2>2. Resting'
    BY <1>1, <1>6, <1>7, <1>8, <2>1 DEF Resting, hostVars
  <2> QED
    BY <1>5, <2>2 DEF ExactInv
<1>9. CASE Asking /\ Queued
  <2>1. PICK noise \in Seq(Noise) : toPico = noise \o Framed(request)
    BY <1>9 DEF Queued
  <2>2. Framed(request) \in Seq(Byte) /\ Rest(request, 0) \in Seq(Byte) /\ Dollar \in Byte
    BY ExactTyped, FramedTyped, SentBytes DEF Sent
  <2>3. CASE noise # <<>>
    <3>1. c \in Noise /\ Tail(noise) \in Seq(Noise) /\ toPico' = Tail(noise) \o Framed(request)
      BY <1>1, <2>1, <2>2, <2>3, NoiseDropped
    <3>2. Queued'
      BY <1>1, <1>6, <1>7, <3>1 DEF Queued, hostVars
    <3>3. Asking'
      BY <1>1, <1>9, <3>2 DEF Asking, hostVars
    <3> QED
      BY <1>5, <3>3 DEF ExactInv
  <2>4. CASE noise = <<>>
    <3>1. toPico = <<Dollar>> \o Rest(request, 0)
      BY <2>1, <2>2, <2>4, NoNoise, ExactTyped, FramedRest
    <3>2. c = Dollar /\ toPico' = Rest(request, 0)
      BY <1>1, <2>2, <3>1, ReceiveFront
    <3>3. checksum' = Sum(Text(request, 0)) /\ 0 \in 0..Len(request) /\ SubSeq(request, 1, 0) = <<>>
      BY <1>1, <3>2, TextNone, SumEmpty, ExactTyped
    <3>4. Receiving'
      BY <1>1, <3>2, <3>3 DEF Receiving, At, hostVars
    <3>5. Asking'
      BY <1>1, <1>9, <3>4 DEF Asking, hostVars
    <3> QED
      BY <1>5, <3>5 DEF ExactInv
  <2> QED
    BY <2>3, <2>4
<1> QED
  BY <1>1, <1>2, <1>8, <1>9, StateTells

\* The handlers of a byte change recv and the checksum, and the machine moves on.
LEMMA ReadingKeeps ==
  ASSUME ExactInv, Asking, NEW c \in Byte, Receive(c), state' \in State,
         recv' \in Seq(Byte), checksum' \in Byte, expected_checksum' \in Byte,
         Receiving', UNCHANGED <<send, cursor, handled, toHost, hostVars>>
  PROVE  ExactInv'
<1>1. toPico' \in Seq(Byte)
  BY ExactTyped, ReceiveTyped
<1>2. TypeOK'
  BY <1>1 DEF ExactInv, TypeOK, hostVars
<1>3. Asking'
  BY DEF Asking, hostVars
<1> QED
  BY <1>2, <1>3 DEF ExactInv

\* At the end of the request are its '#' and the digits of its checksum.
LEMMA RestEnds ==
  ASSUME NEW b \in Seq(Byte)
  PROVE  \E sum \in Byte :
           /\ sum = Sum(Escaped(b)) /\ sum = Sum(Text(b, Len(b)))
           /\ ToHex(sum \div 16) \in Byte /\ ToHex(sum % 16) \in Byte
           /\ Rest(b, Len(b)) = <<Hash>> \o <<ToHex(sum \div 16), ToHex(sum % 16)>>
           /\ <<ToHex(sum \div 16), ToHex(sum % 16)>> \in Seq(Byte)
<1>1. Len(b) \in 0..Len(b)
  OBVIOUS
<1>2. Text(b, Len(b)) = Escaped(b) /\ Escaped(b) \in Seq(Byte)
  BY <1>1, TextAll, TextTyped
<1>3. PICK sum \in Byte : sum = Sum(Escaped(b))
  BY <1>2, SumIsByte
<1>4. ToHex(sum \div 16) \in Byte /\ ToHex(sum % 16) \in Byte
  BY Nibbles, HexDigits DEF Sent
<1>5. <<Hash, ToHex(sum \div 16), ToHex(sum % 16)>> = <<Hash>> \o <<ToHex(sum \div 16), ToHex(sum % 16)>>
  OBVIOUS
<1>6. <<ToHex(sum \div 16), ToHex(sum % 16)>> \in Seq(Byte)
  BY <1>4
<1>7. Rest(b, Len(b)) = <<Hash, ToHex(sum \div 16), ToHex(sum % 16)>>
  BY <1>3, RestNone DEF Ending
<1> QED
  BY <1>2, <1>3, <1>4, <1>5, <1>6, <1>7

LEMMA RecvPacketExact ==
  ASSUME ExactInv, RecvPacket
  PROVE  ExactInv'
<1>1. PICK c \in Byte :
        /\ host # "closed" /\ state = "RECV_PACKET" /\ Receive(c)
        /\ state' = IF c = Hash THEN "RECV_SUFFIX1"
                    ELSE IF c = Escape THEN "RECV_PACKET_ESCAPE" ELSE "RECV_PACKET"
        /\ expected_checksum' = IF c = Hash THEN 0 ELSE expected_checksum
        /\ checksum' = IF c = Hash THEN checksum ELSE (checksum + c) % 256
        /\ recv' = IF c \in {Hash, Escape} THEN recv ELSE Append(recv, c)
        /\ UNCHANGED <<send, cursor, handled, toHost, hostVars>>
  BY DEF RecvPacket, Connected
<1>2. Asking /\ Receiving
  BY <1>1, StateTells DEF Reading
<1>3. PICK k \in 0..Len(request) : recv = SubSeq(request, 1, k) /\ At(k)
  BY <1>2 DEF Receiving
<1>4. checksum = Sum(Text(request, k)) /\ toPico = Rest(request, k)
  BY <1>1, <1>3 DEF At
<1>5. request \in Seq(Byte) /\ Len(request) \in Nat /\ recv \in Seq(Byte) /\ checksum \in Byte
      /\ expected_checksum \in Byte
  BY ExactTyped DEF TypeOK
<1>6. /\ recv' \in Seq(Byte) /\ checksum' \in Byte /\ expected_checksum' \in Byte /\ state' \in State
      /\ request' = request
  BY <1>1, <1>5, ByteSum DEF State, hostVars
<1>7. Receiving'
  <2>1. CASE k = Len(request)
    <3>1. PICK sum \in Byte :
             /\ sum = Sum(Escaped(request)) /\ sum = Sum(Text(request, Len(request)))
             /\ Rest(request, Len(request)) = <<Hash>> \o <<ToHex(sum \div 16), ToHex(sum % 16)>>
             /\ <<ToHex(sum \div 16), ToHex(sum % 16)>> \in Seq(Byte)
      BY <1>5, RestEnds
    <3>2. Hash \in Byte
      BY SentBytes DEF Sent
    <3>3. c = Hash /\ toPico' = <<ToHex(sum \div 16), ToHex(sum % 16)>>
      BY <1>1, <1>4, <2>1, <3>1, <3>2, ReceiveFront
    <3>4. At(k)'
      BY <1>1, <1>4, <1>6, <2>1, <3>1, <3>3 DEF At
    <3> QED
      BY <1>1, <1>3, <1>6, <3>3, <3>4 DEF Receiving
  <2>2. CASE k # Len(request)
    <3>1. /\ k \in 0..(Len(request) - 1) /\ k + 1 \in 0..Len(request) /\ k + 1 \in 1..Len(request)
          /\ k < Len(request) /\ request[k + 1] \in Byte
      BY <1>5, <2>2
    <3>2. Rest(request, k + 1) \in Seq(Byte)
      BY <1>5, <3>1, RestTyped
    <3>3. CASE request[k + 1] \in Special
      <4>1. PICK rest : rest = <<Xor20(request[k + 1])>> \o Rest(request, k + 1)
        OBVIOUS
      <4>2. rest \in Seq(Byte) /\ Escape \in Byte
        BY <1>5, <3>1, <3>2, <4>1, XorTyped, HeadAndRest, SentBytes DEF Sent
      <4>3. toPico = <<Escape>> \o rest
        BY <1>4, <1>5, <3>1, <3>3, <4>1, RestSpecial
      <4>4. c = Escape /\ toPico' = rest
        BY <1>1, <4>2, <4>3, ReceiveFront
      <4>5. Escape # Hash
        BY DEF Escape, Hash
      <4>6. At(k)'
        BY <1>1, <1>4, <1>6, <3>1, <3>3, <4>1, <4>4, <4>5 DEF At
      <4> QED
        BY <1>1, <1>3, <1>6, <4>4, <4>5, <4>6 DEF Receiving
    <3>4. CASE request[k + 1] \notin Special
      <4>1. toPico = <<request[k + 1]>> \o Rest(request, k + 1)
        BY <1>4, <1>5, <3>1, <3>4, RestPlain
      <4>2. c = request[k + 1] /\ toPico' = Rest(request, k + 1)
        BY <1>1, <3>1, <3>2, <4>1, ReceiveFront
      <4>3. c # Hash /\ c # Escape
        BY <3>4, <4>2 DEF Special
      <4>4. checksum' = Sum(Text(request, k + 1))
        BY <1>1, <1>4, <1>5, <3>1, <3>4, <4>2, <4>3, SumPlain
      <4>5. recv' = SubSeq(request, 1, k + 1)
        BY <1>1, <1>3, <1>5, <3>1, <4>2, <4>3, Grown
      <4>6. At(k + 1)'
        BY <1>1, <1>6, <4>2, <4>3, <4>4 DEF At
      <4> QED
        BY <1>6, <3>1, <4>5, <4>6 DEF Receiving
    <3> QED
      BY <3>3, <3>4
  <2> QED
    BY <2>1, <2>2
<1> QED
  BY <1>1, <1>2, <1>6, <1>7, ReadingKeeps

LEMMA RecvPacketEscapeExact ==
  ASSUME ExactInv, RecvPacketEscape
  PROVE  ExactInv'
<1>1. PICK c \in Byte :
        /\ host # "closed" /\ state = "RECV_PACKET_ESCAPE" /\ Receive(c)
        /\ state' = "RECV_PACKET"
        /\ checksum' = (checksum + c) % 256 /\ recv' = Append(recv, Xor20(c))
        /\ UNCHANGED <<expected_checksum, send, cursor, handled, toHost, hostVars>>
  BY DEF RecvPacketEscape, Connected
<1>2. Asking /\ Receiving
  BY <1>1, StateTells DEF Reading
<1>3. PICK k \in 0..Len(request) : recv = SubSeq(request, 1, k) /\ At(k)
  BY <1>2 DEF Receiving
<1>4. /\ k < Len(request) /\ request[k + 1] \in Special
      /\ checksum = (Sum(Text(request, k)) + Escape) % 256
      /\ toPico = <<Xor20(request[k + 1])>> \o Rest(request, k + 1)
  BY <1>1, <1>3 DEF At
<1>5. request \in Seq(Byte) /\ Len(request) \in Nat /\ recv \in Seq(Byte) /\ checksum \in Byte
      /\ expected_checksum \in Byte
  BY ExactTyped DEF TypeOK
<1>6. /\ k \in 0..(Len(request) - 1) /\ k + 1 \in 0..Len(request) /\ k + 1 \in 1..Len(request)
      /\ request[k + 1] \in Byte
  BY <1>4, <1>5
<1>7. Rest(request, k + 1) \in Seq(Byte) /\ Xor20(request[k + 1]) \in Byte
  BY <1>5, <1>6, RestTyped, XorTyped
<1>8. c = Xor20(request[k + 1]) /\ toPico' = Rest(request, k + 1)
  BY <1>1, <1>4, <1>7, ReceiveFront
<1>9. recv' = SubSeq(request, 1, k + 1)
  BY <1>1, <1>3, <1>4, <1>5, <1>6, <1>8, XorBack, Grown
<1>10. checksum' = Sum(Text(request, k + 1))
  BY <1>1, <1>4, <1>5, <1>6, <1>8, SumSpecial
<1>11. /\ recv' \in Seq(Byte) /\ checksum' \in Byte /\ expected_checksum' \in Byte /\ state' \in State
       /\ request' = request
  BY <1>1, <1>5, ByteSum, XorTyped DEF State, hostVars
<1>12. At(k + 1)'
  BY <1>1, <1>8, <1>10, <1>11 DEF At
<1>13. Receiving'
  BY <1>6, <1>9, <1>11, <1>12 DEF Receiving
<1> QED
  BY <1>1, <1>2, <1>11, <1>13, ReadingKeeps

LEMMA RecvSuffix1Exact ==
  ASSUME ExactInv, RecvSuffix1
  PROVE  ExactInv'
<1>1. PICK c \in Byte :
        /\ host # "closed" /\ state = "RECV_SUFFIX1" /\ Receive(c)
        /\ state' = "RECV_SUFFIX2" /\ expected_checksum' = Digit(expected_checksum, c)
        /\ UNCHANGED <<recv, checksum, send, cursor, handled, toHost, hostVars>>
  BY DEF RecvSuffix1, Connected
<1>2. Asking /\ Receiving
  BY <1>1, StateTells DEF Reading
<1>3. PICK k \in 0..Len(request) : recv = SubSeq(request, 1, k) /\ At(k)
  BY <1>2 DEF Receiving
<1>4. /\ k = Len(request) /\ checksum = Sum(Escaped(request)) /\ expected_checksum = 0
      /\ toPico = <<ToHex(checksum \div 16), ToHex(checksum % 16)>>
  BY <1>1, <1>3 DEF At
<1>5. recv \in Seq(Byte) /\ checksum \in Byte /\ expected_checksum \in Byte
  BY ExactTyped DEF TypeOK
<1>6. ToHex(checksum \div 16) \in Byte /\ ToHex(checksum % 16) \in Byte
  BY <1>5, Nibbles, HexDigits DEF Sent
<1>7. c = ToHex(checksum \div 16) /\ toPico' = <<ToHex(checksum % 16)>>
  <2>1. PICK d, e : d = ToHex(checksum \div 16) /\ e = ToHex(checksum % 16)
    OBVIOUS
  <2>2. d \in Byte /\ <<e>> \in Seq(Byte) /\ <<d, e>> = <<d>> \o <<e>>
    BY <1>6, <2>1
  <2>3. toPico = <<d>> \o <<e>>
    BY <1>4, <2>1, <2>2
  <2>4. c = d /\ toPico' = <<e>>
    BY <1>1, <2>2, <2>3, ReceiveFront
  <2> QED
    BY <2>1, <2>4
<1>8. /\ recv' \in Seq(Byte) /\ checksum' \in Byte /\ expected_checksum' \in Byte /\ state' \in State
      /\ request' = request
  BY <1>1, <1>5, DigitTyped DEF State, hostVars
<1>9. At(k)'
  BY <1>1, <1>4, <1>7, <1>8 DEF At
<1>10. Receiving'
  BY <1>1, <1>3, <1>8, <1>9 DEF Receiving
<1> QED
  BY <1>1, <1>2, <1>8, <1>10, ReadingKeeps

\* An undamaged packet is acknowledged and handled, and what it holds is the request.
LEMMA RecvSuffix2Takes ==
  ASSUME ExactInv, RecvSuffix2
  PROVE  /\ Asking /\ recv = request /\ Put(Plus) /\ handle_packet /\ toPico' = <<>>
         /\ UNCHANGED hostVars /\ recv' = <<>> /\ expected_checksum' = 0 /\ checksum' = 0
<1>1. PICK c \in Byte :
        /\ host # "closed" /\ state = "RECV_SUFFIX2" /\ Receive(c)
        /\ checksum = Digit(expected_checksum, c) => Put(Plus) /\ handle_packet
        /\ recv' = <<>> /\ expected_checksum' = 0 /\ checksum' = 0
        /\ UNCHANGED hostVars
  BY DEF RecvSuffix2, Connected, Forget
<1>2. Asking /\ Receiving
  BY <1>1, StateTells DEF Reading
<1>3. PICK k \in 0..Len(request) : recv = SubSeq(request, 1, k) /\ At(k)
  BY <1>2 DEF Receiving
<1>4. /\ k = Len(request) /\ expected_checksum = Digit(0, ToHex(checksum \div 16))
      /\ toPico = <<ToHex(checksum % 16)>>
  BY <1>1, <1>3 DEF At
<1>5. recv = request
  BY <1>3, <1>4, ExactTyped, Whole
<1>6. checksum \in Byte
  BY ExactTyped DEF TypeOK
<1>7. c = ToHex(checksum % 16) /\ toPico' = <<>>
  BY <1>1, <1>4 DEF Receive
<1>8. checksum = Digit(expected_checksum, c)
  BY <1>4, <1>6, <1>7, HexBack
<1> QED
  BY <1>1, <1>2, <1>5, <1>7, <1>8

-----------------------------------------------------------------------------
(* The machine: answering *)

LEMMA PacketBytes ==
  ASSUME NEW body \in Seq(Byte)
  PROVE  /\ Packet(body) \in Seq(Byte) /\ Len(Packet(body)) = Len(body) + 4
         /\ Packet(body)[1] = Dollar
         /\ \A i \in 1..Len(body) : Packet(body)[i + 1] = body[i]
         /\ Packet(body)[Len(body) + 2] = Hash
         /\ Packet(body)[Len(body) + 3] = ToHex(Sum(body) \div 16)
         /\ Packet(body)[Len(body) + 4] = ToHex(Sum(body) % 16)
<1>1. PICK sum \in Byte : sum = Sum(body)
  BY SumIsByte
<1>2. PICK h, l : h = ToHex(sum \div 16) /\ l = ToHex(sum % 16)
  OBVIOUS
<1>3. h \in Byte /\ l \in Byte /\ Hash \in Byte /\ Dollar \in Byte
  BY <1>2, Nibbles, HexDigits, SentBytes DEF Sent
<1>4. PICK front, back : front = <<Dollar>> \o body /\ back = <<Hash, h, l>>
  OBVIOUS
<1>5. /\ front \in Seq(Byte) /\ Len(front) = Len(body) + 1 /\ front[1] = Dollar
      /\ \A i \in 1..Len(body) : front[i + 1] = body[i]
  <2>1. <<Dollar>> \in Seq(Byte) /\ Len(<<Dollar>>) = 1 /\ <<Dollar>>[1] = Dollar /\ Len(body) \in Nat
    BY <1>3
  <2>2. /\ front \in Seq(Byte) /\ Len(front) = 1 + Len(body)
        /\ \A i \in 1..(1 + Len(body)) : front[i] = IF i <= 1 THEN <<Dollar>>[i] ELSE body[i - 1]
    BY <1>4, <2>1, ConcatProperties
  <2> QED
    BY <2>1, <2>2
<1>6. back \in Seq(Byte) /\ Len(back) = 3 /\ back[1] = Hash /\ back[2] = h /\ back[3] = l
  BY <1>3, <1>4
<1>7. PICK p : p = front \o back
  OBVIOUS
<1>8. /\ p \in Seq(Byte) /\ Len(p) = Len(front) + 3
      /\ \A i \in 1..(Len(front) + 3) : p[i] = IF i <= Len(front) THEN front[i] ELSE back[i - Len(front)]
  <2>1. /\ front \o back \in Seq(Byte) /\ Len(front \o back) = Len(front) + Len(back)
        /\ \A i \in 1..(Len(front) + Len(back)) :
             (front \o back)[i] = IF i <= Len(front) THEN front[i] ELSE back[i - Len(front)]
    BY <1>5, <1>6, ConcatProperties
  <2> QED
    BY <1>6, <1>7, <2>1
<1>9. PICK n \in Nat : n = Len(body)
  OBVIOUS
<1>10. /\ p \in Seq(Byte) /\ Len(p) = n + 4 /\ p[1] = Dollar
       /\ \A i \in 1..n : p[i + 1] = body[i]
       /\ p[n + 2] = Hash /\ p[n + 3] = h /\ p[n + 4] = l
  <2>1. Len(p) = n + 4
    BY <1>5, <1>8, <1>9
  <2>2. p[1] = Dollar /\ \A i \in 1..n : p[i + 1] = body[i]
    BY <1>5, <1>8, <1>9
  <2>3. p[n + 2] = back[1] /\ p[n + 3] = back[2] /\ p[n + 4] = back[3]
    BY <1>5, <1>8, <1>9
  <2> QED
    BY <1>6, <1>8, <2>1, <2>2, <2>3
<1>11. Packet(body) = p
  BY <1>1, <1>2, <1>4, <1>7 DEF Packet
<1> QED
  BY <1>1, <1>2, <1>9, <1>10, <1>11

LEMMA RepliesTyped ==
  ASSUME TypeOK
  PROVE  /\ Stopped \in Seq(Byte) /\ Len(Stopped) \in Nat
         /\ \A r \in Request : AnswerOf[r] \in Seq(Byte) /\ Len(AnswerOf[r]) \in Nat
         /\ send \in Seq(Byte) /\ Len(send) \in Nat
<1>1. Stopped \in Seq(Byte) /\ \A r \in Request : AnswerOf[r] \in Seq(Byte)
  BY GDBLinkAssumption
<1>2. <<>> \in Seq(Byte)
  OBVIOUS
<1>3. send \in Seq(Byte)
  BY <1>1, <1>2 DEF TypeOK
<1> QED
  BY <1>1, <1>3

\* A request that is taken leaves the machine resumed, killed or with its reply.
LEMMA RecvSuffix2Exact ==
  ASSUME ExactInv, RecvSuffix2
  PROVE  ExactInv'
<1>1. /\ Asking /\ recv = request /\ Put(Plus) /\ handle_packet /\ toPico' = <<>>
      /\ UNCHANGED hostVars /\ recv' = <<>> /\ expected_checksum' = 0 /\ checksum' = 0
  BY RecvSuffix2Takes
<1>2. /\ handled' = Append(handled, request) /\ cursor' = 0 /\ request \in Request /\ request' = request
      /\ \/ request = Continue /\ state' = "RUNNING" /\ send' = <<>>
         \/ request = Continue /\ state' = "SEND_PREFIX" /\ send' = Stopped
         \/ request = Kill /\ state' = "KILLED" /\ send' = <<>>
         \/ /\ request \notin {Continue, Kill} /\ state' = "SEND_PREFIX" /\ send' = AnswerOf[request]
  BY <1>1, ExactTyped DEF handle_packet, hostVars
<1>3. handled = <<>> /\ toHost = <<>> /\ host = "sent"
  BY <1>1 DEF Asking
<1>4. handled' = <<request>> /\ toHost' = <<Plus>> /\ toHost' = <<Plus>> \o <<>>
  BY <1>1, <1>2, <1>3 DEF Put
<1>5. Plus \in Byte /\ <<>> \in Seq(Byte) /\ 0 \in Byte
  BY ByteSum, SentBytes DEF Sent
<1>6. send' \in {AnswerOf[r] : r \in Request} \cup {Stopped, <<>>} /\ Len(send') \in Nat
      /\ send' \in Seq(Byte)
  <2>1. Stopped \in Seq(Byte) /\ AnswerOf[request] \in Seq(Byte)
    BY <1>2, ExactTyped, RepliesTyped
  <2>2. send' \in {AnswerOf[request], Stopped, <<>>}
    BY <1>2
  <2>3. send' \in Seq(Byte)
    BY <1>5, <2>1, <2>2
  <2> QED
    BY <1>2, <2>2, <2>3
<1>7. cursor' \in 0..Len(send')
  BY <1>2, <1>6
<1>8. toHost' \in Seq(Byte) /\ handled' \in Seq(Seq(Byte))
  BY <1>4, <1>5, ExactTyped
<1>9. TypeOK'
  BY <1>1, <1>2, <1>5, <1>6, <1>7, <1>8 DEF ExactInv, TypeOK, State, hostVars
<1>10. Replied(<<>>)'
  <2>1. CASE state' = "SEND_PREFIX"
    <3>1. request # Kill /\ send' = Reply'
      BY <1>2, <2>1, GDBLinkAssumption DEF Reply
    <3>2. 0 \in 0..(Len(send') + 4) /\ SubSeq(Packet(send'), 1, 0) = <<>>
      <4>1. PICK p \in Seq(Byte) : p = Packet(send')
        BY <1>6, PacketBytes
      <4> QED
        BY <1>6, <4>1
    <3> QED
      BY <1>2, <2>1, <3>1, <3>2 DEF Replied, Out
  <2>2. CASE state' # "SEND_PREFIX"
    BY <1>2, <2>2 DEF Replied
  <2> QED
    BY <2>1, <2>2
<1>11. Acknowledging'
  BY <1>1, <1>2, <1>3, <1>4, <1>5, <1>10 DEF Acknowledging, hostVars
<1> QED
  BY <1>9, <1>11 DEF ExactInv

Sends == {"SEND_PREFIX", "SEND_PACKET", "SEND_SUFFIX1", "SEND_SUFFIX2", "SEND_SUFFIX3"}
OutOf(out, m) ==
  /\ request # Kill /\ send = Reply /\ m \in 0..(Len(send) + 4)
  /\ out = SubSeq(Packet(send), 1, m) /\ Out(m)

LEMMA OutGrows ==
  ASSUME TypeOK, NEW out, NEW m \in 0..(Len(send) + 3), OutOf(out, m),
         UNCHANGED <<send, request>>, Out(m + 1)'
  PROVE  Replied(Append(out, Packet(send)[m + 1]))' /\ Packet(send)[m + 1] \in Byte
<1>1. PICK p \in Seq(Byte) : p = Packet(send) /\ Len(p) = Len(send) + 4
  BY RepliesTyped, PacketBytes
<1>2. Len(send) \in Nat
  BY RepliesTyped
<1>3. m \in 0..(Len(p) - 1) /\ m + 1 \in 0..(Len(send) + 4) /\ p[m + 1] \in Byte
  BY <1>1, <1>2
<1>4. Append(out, p[m + 1]) = SubSeq(p, 1, m + 1)
  BY <1>1, <1>3, Grown DEF OutOf
<1>5. Packet(send') = p /\ Reply' = send' /\ request' # Kill /\ m + 1 \in 0..(Len(send') + 4)
  BY <1>1, <1>3 DEF OutOf, Reply
<1>6. Replied(Append(out, p[m + 1]))'
  BY <1>1, <1>4, <1>5 DEF Replied
<1> QED
  BY <1>1, <1>3, <1>6

LEMMA SendsOut ==
  ASSUME NEW out, Replied(out), state \in Sends
  PROVE  \E m : OutOf(out, m)
BY DEF Replied, OutOf, Sends

LEMMA SendPrefixOut ==
  ASSUME TypeOK, SendPrefix, NEW out, Replied(out)
  PROVE  \E c \in Byte : Put(c) /\ Replied(Append(out, c))'
<1>1. /\ state = "SEND_PREFIX" /\ Put(Dollar) /\ checksum' = 0 /\ cursor' = 0
      /\ state' = IF send = <<>> THEN "SEND_SUFFIX1" ELSE "SEND_PACKET"
      /\ UNCHANGED <<send, request>>
  BY DEF SendPrefix, hostVars
<1>2. PICK m : OutOf(out, m)
  BY <1>1, SendsOut DEF Sends
<1>3. m = 0
  BY <1>1, <1>2 DEF OutOf, Out
<1>4. send \in Seq(Byte) /\ Len(send) \in Nat /\ (send = <<>> <=> Len(send) = 0)
  BY RepliesTyped
<1>5. SubSeq(send, 1, 0) = <<>> /\ 0 \in 0..(Len(send) + 3) /\ 0 + 1 = 1
  BY <1>4
<1>6. Out(1)'
  <2>1. CASE send = <<>>
    BY <1>1, <1>4, <2>1, SumEmpty DEF Out
  <2>2. CASE send # <<>>
    <3>1. 1 = 1 + cursor' /\ cursor' < Len(send') /\ SubSeq(send', 1, cursor') = <<>>
      BY <1>1, <1>4, <1>5, <2>2
    <3>2. checksum' = Sum(SubSeq(send', 1, cursor'))
      BY <1>1, <3>1, SumEmpty
    <3> QED
      BY <1>1, <2>2, <3>1, <3>2 DEF Out
  <2> QED
    BY <2>1, <2>2
<1>7. Packet(send)[1] = Dollar
  BY <1>4, PacketBytes
<1>8. Replied(Append(out, Packet(send)[1]))' /\ Packet(send)[1] \in Byte
  BY <1>1, <1>2, <1>3, <1>5, <1>6, OutGrows
<1> QED
  BY <1>1, <1>7, <1>8

LEMMA SendPacketOut ==
  ASSUME TypeOK, SendPacket, NEW out, Replied(out)
  PROVE  /\ \E c \in Byte : Put(c) /\ Replied(Append(out, c))'
         /\ cursor' \in 0..Len(send') /\ checksum' \in Byte
<1>1. /\ state = "SEND_PACKET" /\ cursor' = cursor + 1
      /\ state' = IF cursor' = Len(send) THEN "SEND_SUFFIX1" ELSE "SEND_PACKET"
      /\ UNCHANGED <<send, request>>
  BY DEF SendPacket, hostVars
<1>2. PICK m : OutOf(out, m)
  BY <1>1, SendsOut DEF Sends
<1>3. m = 1 + cursor /\ cursor < Len(send) /\ checksum = Sum(SubSeq(send, 1, cursor))
  BY <1>1, <1>2 DEF OutOf, Out
<1>4. send \in Seq(Byte) /\ Len(send) \in Nat /\ cursor \in 0..Len(send) /\ checksum \in Byte
  BY RepliesTyped DEF TypeOK
<1>5. cursor \in 0..(Len(send) - 1) /\ cursor + 1 \in 1..Len(send) /\ m \in 0..(Len(send) + 3)
      /\ cursor + 1 \in 0..Len(send) /\ m + 1 = 1 + (cursor + 1)
  BY <1>3, <1>4
<1>6. PICK c \in Byte : c = send[cursor + 1]
  BY <1>4, <1>5
<1>7. Put(c) /\ checksum' = (checksum + c) % 256
  BY <1>3, <1>6 DEF SendPacket
<1>8. checksum' = Sum(SubSeq(send, 1, cursor + 1))
  <2>1. SubSeq(send, 1, cursor + 1) = Append(SubSeq(send, 1, cursor), c) /\ SubSeq(send, 1, cursor) \in Seq(Byte)
    BY <1>4, <1>5, <1>6, Grown
  <2> QED
    BY <1>3, <1>6, <1>7, <2>1, SumAppend
<1>9. Out(m + 1)'
  <2>1. CASE cursor + 1 = Len(send)
    <3>1. checksum' = Sum(send)
      BY <1>4, <1>8, <2>1, Whole
    <3> QED
      BY <1>1, <1>4, <1>5, <2>1, <3>1 DEF Out
  <2>2. CASE cursor + 1 # Len(send)
    <3>1. cursor' < Len(send') /\ m + 1 = 1 + cursor'
      BY <1>1, <1>4, <1>5, <2>2
    <3> QED
      BY <1>1, <1>8, <2>2, <3>1 DEF Out
  <2> QED
    BY <2>1, <2>2
<1>10. Packet(send)[m + 1] = c
  BY <1>3, <1>4, <1>5, <1>6, PacketBytes
<1>11. Replied(Append(out, c))'
  BY <1>1, <1>2, <1>5, <1>9, <1>10, OutGrows
<1>12. checksum' \in Byte
  BY <1>4, <1>6, <1>7, ByteSum
<1> QED
  BY <1>1, <1>5, <1>6, <1>7, <1>11, <1>12

LEMMA SendSuffixOut ==
  ASSUME TypeOK, SendSuffix1 \/ SendSuffix2 \/ SendSuffix3, NEW out, Replied(out)
  PROVE  \E c \in Byte : Put(c) /\ Replied(Append(out, c))'
<1>1. PICK m : OutOf(out, m)
  BY SendsOut DEF Sends, SendSuffix1, SendSuffix2, SendSuffix3, SendStep
<1>2. send \in Seq(Byte) /\ Len(send) \in Nat
  BY RepliesTyped
<1>3. PICK n \in Nat : n = Len(send)
  BY <1>2
<1>4. UNCHANGED <<send, request, checksum>>
  BY DEF SendSuffix1, SendSuffix2, SendSuffix3, SendStep, hostVars
<1>5. /\ n + 1 \in 0..(n + 3) /\ n + 2 \in 0..(n + 3) /\ n + 3 \in 0..(n + 3)
      /\ n + 1 + 1 = n + 2 /\ n + 2 + 1 = n + 3 /\ n + 3 + 1 = n + 4
  BY <1>3
<1>6. /\ Packet(send)[n + 2] = Hash
      /\ Packet(send)[n + 3] = ToHex(Sum(send) \div 16) /\ Packet(send)[n + 4] = ToHex(Sum(send) % 16)
  BY <1>2, <1>3, PacketBytes
<1>7. CASE SendSuffix1
  <2>1. state = "SEND_SUFFIX1" /\ state' = "SEND_SUFFIX2" /\ Put(Hash)
    BY <1>7 DEF SendSuffix1, SendStep
  <2>2. m = n + 1 /\ checksum = Sum(send)
    BY <1>1, <1>3, <2>1 DEF OutOf, Out
  <2>3. Out(m + 1)'
    BY <1>3, <1>4, <1>5, <2>1, <2>2 DEF Out
  <2> QED
    BY <1>1, <1>3, <1>4, <1>5, <1>6, <2>1, <2>2, <2>3, OutGrows
<1>8. CASE SendSuffix2
  <2>1. state = "SEND_SUFFIX2" /\ state' = "SEND_SUFFIX3" /\ Put(ToHex(checksum \div 16))
    BY <1>8 DEF SendSuffix2, SendStep
  <2>2. m = n + 2 /\ checksum = Sum(send)
    BY <1>1, <1>3, <2>1 DEF OutOf, Out
  <2>3. Out(m + 1)'
    BY <1>3, <1>4, <1>5, <2>1, <2>2 DEF Out
  <2> QED
    BY <1>1, <1>3, <1>4, <1>5, <1>6, <2>1, <2>2, <2>3, OutGrows
<1>9. CASE SendSuffix3
  <2>1. state = "SEND_SUFFIX3" /\ state' = "RECV_ACK" /\ Put(ToHex(checksum % 16))
    BY <1>9 DEF SendSuffix3, SendStep
  <2>2. m = n + 3 /\ checksum = Sum(send)
    BY <1>1, <1>3, <2>1 DEF OutOf, Out
  <2>3. Out(m + 1)'
    BY <1>3, <1>4, <1>5, <2>1, <2>2 DEF Out
  <2> QED
    BY <1>1, <1>3, <1>4, <1>5, <1>6, <2>1, <2>2, <2>3, OutGrows
<1> QED
  BY <1>7, <1>8, <1>9

LEMMA PutTyped ==
  ASSUME TypeOK, NEW c \in Byte, Put(c)
  PROVE  toHost' \in Seq(Byte)
BY DEF Put, TypeOK

\* One more byte of the reply is out; what GDB sends meanwhile is overlooked.
LEMMA SaysMore ==
  ASSUME ExactInv, Acknowledging \/ Answering, Overlook, UNCHANGED <<handled, hostVars>>,
         \A out : Replied(out) => \E c \in Byte : Put(c) /\ Replied(Append(out, c))'
  PROVE  (Acknowledging' \/ Answering') /\ toHost' \in Seq(Byte) /\ toPico' \in Seq(Byte)
<1>0. toPico' \in Seq(Byte)
  BY ExactTyped, OverlookTyped
<1>1. CASE Acknowledging
  <2>1. PICK out \in Seq(Byte) : toHost = <<Plus>> \o out /\ Replied(out)
    BY <1>1 DEF Acknowledging
  <2>2. PICK c \in Byte : Put(c) /\ Replied(Append(out, c))'
    BY <2>1
  <2>3. PICK more : more = Append(out, c)
    OBVIOUS
  <2>4. Append(<<Plus>> \o out, c) = <<Plus>> \o Append(out, c)
    <3>1. <<Plus>> \in Seq(Byte)
      BY SentBytes DEF Sent
    <3> QED
      BY <3>1
  <2>5. toHost' = <<Plus>> \o more
    BY <2>1, <2>2, <2>3, <2>4 DEF Put
  <2>6. toHost' \in Seq(Byte) /\ more \in Seq(Byte)
    BY <2>2, <2>3, ExactTyped, PutTyped
  <2>7. toPico' = <<>>
    <3>1. toPico = <<>>
      BY <1>1 DEF Acknowledging
    <3> QED
      BY <3>1, ExactTyped, OverlookTyped
  <2>8. Acknowledging'
    BY <1>1, <2>2, <2>3, <2>5, <2>6, <2>7 DEF Acknowledging, hostVars
  <2> QED
    BY <1>0, <2>6, <2>8
<1>2. CASE Answering
  <2>1. PICK out : out = toHost /\ Replied(out)
    BY <1>2 DEF Answering
  <2>2. PICK c \in Byte : Put(c) /\ Replied(Append(out, c))'
    BY <2>1
  <2>3. toHost' \in Seq(Byte)
    BY <2>2, ExactTyped, PutTyped
  <2>4. toPico' \in Seq({Break})
    BY <1>2, OverlookTyped DEF Answering
  <2>5. PICK more : more = Append(out, c)
    OBVIOUS
  <2>6. toHost' = more /\ Replied(more)'
    BY <2>1, <2>2, <2>5 DEF Put
  <2>7. Answering'
    BY <1>2, <2>4, <2>6 DEF Answering, hostVars, Replied
  <2> QED
    BY <1>0, <2>3, <2>7
<1> QED
  BY <1>1, <1>2

LEMMA SendPrefixExact ==
  ASSUME ExactInv, SendPrefix
  PROVE  ExactInv'
<1>1. /\ host # "closed" /\ state = "SEND_PREFIX" /\ Overlook /\ checksum' = 0 /\ cursor' = 0
      /\ state' \in {"SEND_SUFFIX1", "SEND_PACKET"}
      /\ UNCHANGED <<recv, expected_checksum, send, handled, hostVars>>
  BY DEF SendPrefix, Connected
<1>2. Acknowledging \/ Answering
  BY <1>1, StateTells DEF Giving
<1>3. \A out : Replied(out) => \E c \in Byte : Put(c) /\ Replied(Append(out, c))'
  BY ExactTyped, SendPrefixOut
<1>4. (Acknowledging' \/ Answering') /\ toHost' \in Seq(Byte) /\ toPico' \in Seq(Byte)
  BY <1>1, <1>2, <1>3, SaysMore
<1>5. 0 \in Byte /\ cursor' \in 0..Len(send')
  BY <1>1, ByteSum, ExactTyped, RepliesTyped
<1>6. TypeOK'
  BY <1>1, <1>4, <1>5 DEF ExactInv, TypeOK, State, hostVars
<1> QED
  BY <1>4, <1>6 DEF ExactInv

LEMMA SendPacketExact ==
  ASSUME ExactInv, SendPacket
  PROVE  ExactInv'
<1>1. /\ host # "closed" /\ state = "SEND_PACKET" /\ Overlook
      /\ state' \in {"SEND_SUFFIX1", "SEND_PACKET"}
      /\ UNCHANGED <<recv, expected_checksum, send, handled, hostVars>>
  BY DEF SendPacket, Connected
<1>2. Acknowledging \/ Answering
  BY <1>1, StateTells DEF Giving
<1>3. \A out : Replied(out) => \E c \in Byte : Put(c) /\ Replied(Append(out, c))'
  BY ExactTyped, SendPacketOut
<1>4. (Acknowledging' \/ Answering') /\ toHost' \in Seq(Byte) /\ toPico' \in Seq(Byte)
  BY <1>1, <1>2, <1>3, SaysMore
<1>5. cursor' \in 0..Len(send') /\ checksum' \in Byte
  <2>1. \E out : Replied(out)
    BY <1>2 DEF Acknowledging, Answering
  <2> QED
    BY <2>1, ExactTyped, SendPacketOut
<1>6. TypeOK'
  BY <1>1, <1>4, <1>5 DEF ExactInv, TypeOK, State, hostVars
<1> QED
  BY <1>4, <1>6 DEF ExactInv

LEMMA SendSuffixExact ==
  ASSUME ExactInv, SendSuffix1 \/ SendSuffix2 \/ SendSuffix3
  PROVE  ExactInv'
<1>1. /\ host # "closed" /\ state \in {"SEND_SUFFIX1", "SEND_SUFFIX2", "SEND_SUFFIX3"} /\ Overlook
      /\ state' \in {"SEND_SUFFIX2", "SEND_SUFFIX3", "RECV_ACK"}
      /\ UNCHANGED <<recv, checksum, expected_checksum, send, cursor, handled, hostVars>>
  BY DEF SendSuffix1, SendSuffix2, SendSuffix3, SendStep, Connected
<1>2. Acknowledging \/ Answering
  BY <1>1, StateTells DEF Giving
<1>3. \A out : Replied(out) => \E c \in Byte : Put(c) /\ Replied(Append(out, c))'
  BY ExactTyped, SendSuffixOut
<1>4. (Acknowledging' \/ Answering') /\ toHost' \in Seq(Byte) /\ toPico' \in Seq(Byte)
  BY <1>1, <1>2, <1>3, SaysMore
<1>5. TypeOK'
  BY <1>1, <1>4 DEF ExactInv, TypeOK, State, hostVars
<1> QED
  BY <1>4, <1>5 DEF ExactInv

\* The acknowledgement that is waited for is in front of everything else.
LEMMA NoiseTail ==
  ASSUME NEW noise \in Seq(Noise), noise # <<>>, \E i \in 1..Len(noise) : noise[i] = Plus
  PROVE  Head(noise) = Plus \/ \E i \in 1..Len(Tail(noise)) : Tail(noise)[i] = Plus
<1>1. PICK i \in 1..Len(noise) : noise[i] = Plus
  OBVIOUS
<1>2. CASE i = 1
  BY <1>1, <1>2
<1>3. CASE i # 1
  <2>1. i - 1 \in 1..Len(Tail(noise)) /\ Tail(noise)[i - 1] = noise[i]
    BY <1>3
  <2> QED
    BY <1>1, <2>1
<1> QED
  BY <1>2, <1>3

LEMMA RecvAckExact ==
  ASSUME ExactInv, RecvAck
  PROVE  ExactInv'
<1>1. PICK c \in Byte :
        /\ host # "closed" /\ state = "RECV_ACK" /\ Receive(c)
        /\ state' = IF c = Plus THEN "IDLE" ELSE IF c = Minus THEN "SEND_PACKET" ELSE "RECV_ACK"
        /\ IF c = Plus THEN send' = <<>> /\ checksum' = 0 /\ cursor' = 0
           ELSE UNCHANGED <<send, checksum, cursor>>
        /\ UNCHANGED <<recv, expected_checksum, handled, toHost, hostVars>>
  BY DEF RecvAck, Connected, Forget
<1>2. toPico' \in Seq(Byte) /\ toPico # <<>> /\ c = Head(toPico)
  BY <1>1, ExactTyped, ReceiveTyped DEF Receive
<1>3. Plus # Break /\ Minus # Plus /\ Minus # Break
  BY DEF Plus, Minus, Break
<1>4. 0 \in Byte /\ 0 \in 0..Len(<<>>)
  BY ByteSum
<1>5. TypeOK'
  <2>1. CASE c = Plus
    BY <1>1, <1>2, <1>4, <2>1 DEF ExactInv, TypeOK, State, hostVars
  <2>2. CASE c # Plus
    BY <1>1, <1>2, <2>2 DEF ExactInv, TypeOK, State, hostVars
  <2> QED
    BY <2>1, <2>2
<1>6. c = Plus => \A noise : Expecting(noise)'
  BY <1>1 DEF Expecting, Current
<1>7. CASE Resting
  <2>1. c \in Noise /\ toPico \in Seq(Noise) /\ toPico' \in Seq(Noise) /\ toPico' = Tail(toPico)
    BY <1>1, <1>7, ReceiveTyped DEF Resting, Receive
  <2>2. c # Plus => Expecting(toPico)' /\ state' = "RECV_ACK"
    <3> SUFFICES ASSUME c # Plus PROVE Expecting(toPico)' /\ state' = "RECV_ACK"
      OBVIOUS
    <3>1. \E i \in 1..Len(toPico) : toPico[i] = Plus
      BY <1>1, <1>7 DEF Resting, Expecting, Current
    <3>2. \E i \in 1..Len(Tail(toPico)) : Tail(toPico)[i] = Plus
      BY <1>2, <2>1, <3>1, NoiseTail
    <3>3. state' = "RECV_ACK"
      BY <1>1, <1>3, <2>1 DEF Noise
    <3> QED
      BY <2>1, <3>2, <3>3 DEF Expecting
  <2>3. Expecting(toPico)'
    <3>1. CASE c = Plus
      BY <1>1, <3>1 DEF Expecting, Current
    <3> QED
      BY <2>2, <3>1
  <2>4. Resting'
    BY <1>1, <1>7, <2>1, <2>3 DEF Resting, hostVars
  <2> QED
    BY <1>5, <2>4 DEF ExactInv
<1>8. CASE Asking
  <2>1. Queued
    BY <1>1, <1>8 DEF Asking, Receiving, At
  <2>2. PICK noise \in Seq(Noise) : toPico = noise \o Framed(request) /\ Expecting(noise)
    BY <2>1 DEF Queued
  <2>3. \E i \in 1..Len(noise) : noise[i] = Plus
    BY <1>1, <2>2 DEF Expecting, Current
  <2>4. noise # <<>>
    BY <2>3
  <2>5. Framed(request) \in Seq(Byte)
    BY ExactTyped, FramedTyped
  <2>6. /\ c = Head(noise) /\ c \in Noise /\ Tail(noise) \in Seq(Noise)
        /\ toPico' = Tail(noise) \o Framed(request)
    BY <1>1, <2>2, <2>4, <2>5, NoiseDropped
  <2>7. PICK later : later = Tail(noise)
    OBVIOUS
  <2>8. Expecting(later)'
    <3>1. CASE c = Plus
      BY <1>6, <3>1
    <3>2. CASE c # Plus
      <4>1. \E i \in 1..Len(later) : later[i] = Plus
        BY <2>3, <2>4, <2>6, <2>7, <3>2, NoiseTail
      <4>2. state' = "RECV_ACK"
        BY <1>1, <1>3, <2>6, <3>2 DEF Noise
      <4> QED
        BY <4>1, <4>2 DEF Expecting
    <3> QED
      BY <3>1, <3>2
  <2>9. Queued'
    BY <1>1, <2>6, <2>7, <2>8 DEF Queued, hostVars
  <2>10. Asking'
    BY <1>1, <1>8, <2>9 DEF Asking, hostVars
  <2> QED
    BY <1>5, <2>10 DEF ExactInv
<1>9. ~Acknowledging
  BY <1>2 DEF Acknowledging
<1>10. CASE Answering
  <2>1. c \in {Break} /\ toPico' \in Seq({Break})
    BY <1>1, <1>10, ReceiveTyped DEF Answering
  <2>2. UNCHANGED <<state, send, checksum, cursor>>
    BY <1>1, <1>3, <2>1
  <2>3. Answering'
    BY <1>1, <1>10, <2>1, <2>2 DEF Answering, Replied, Out, Reply, hostVars
  <2> QED
    BY <1>5, <2>3 DEF ExactInv
<1> QED
  BY <1>1, <1>7, <1>8, <1>9, <1>10 DEF ExactInv, Closed

\* A resumed hart that stops has its report taken the place of a reply.
LEMMA Running ==
  ASSUME ExactInv, state = "RUNNING", host # "closed"
  PROVE  /\ Acknowledging \/ Answering
         /\ request = Continue /\ request # Kill
         /\ Acknowledging => toHost = <<Plus>> \o <<>>
         /\ Answering => toHost = <<>>
<1>1. Acknowledging \/ Answering
  BY StateTells DEF Giving
<1>2. \A out : Replied(out) => request = Continue /\ out = <<>>
  BY DEF Replied, Out
<1>3. request = Continue
  BY <1>1, <1>2 DEF Acknowledging, Answering
<1>4. Acknowledging => toHost = <<Plus>> \o <<>>
  BY <1>2 DEF Acknowledging
<1>5. Answering => toHost = <<>>
  BY <1>2 DEF Answering
<1> QED
  BY <1>1, <1>3, <1>4, <1>5, GDBLinkAssumption

LEMMA ReportExact ==
  ASSUME ExactInv, state = "RUNNING", host # "closed", ReportStop,
         toPico = <<>> => toPico' = <<>>, toPico' \in Seq(Byte),
         toPico \in Seq({Break}) => toPico' \in Seq({Break}),
         UNCHANGED <<recv, checksum, expected_checksum, handled, toHost, hostVars>>
  PROVE  ExactInv' /\ (Acknowledging' \/ Answering')
<1>1. send' = Stopped /\ cursor' = 0 /\ state' = "SEND_PREFIX"
  BY DEF ReportStop
<1>2. /\ Acknowledging \/ Answering
      /\ request = Continue /\ request # Kill
      /\ Acknowledging => toHost = <<Plus>> \o <<>>
      /\ Answering => toHost = <<>>
  BY Running
<1>3. Stopped \in Seq(Byte) /\ Len(Stopped) \in Nat
  BY ExactTyped, RepliesTyped
<1>4. TypeOK'
  <2>1. cursor' \in 0..Len(send')
    BY <1>1, <1>3
  <2> QED
    BY <1>1, <2>1 DEF ExactInv, TypeOK, State, hostVars
<1>5. Replied(<<>>)'
  <2>1. request' # Kill /\ send' = Reply'
    BY <1>1, <1>2 DEF Reply, hostVars
  <2>2. 0 \in 0..(Len(send') + 4) /\ SubSeq(Packet(send'), 1, 0) = <<>>
    <3>1. PICK p \in Seq(Byte) : p = Packet(send')
      BY <1>1, <1>3, PacketBytes
    <3> QED
      BY <1>1, <1>3, <3>1
  <2> QED
    BY <1>1, <2>1, <2>2 DEF Replied, Out
<1>6. <<>> \in Seq(Byte)
  OBVIOUS
<1>7. Acknowledging => Acknowledging'
  BY <1>2, <1>5, <1>6 DEF Acknowledging, hostVars
<1>8. Answering => Answering'
  <2> SUFFICES ASSUME Answering PROVE Answering'
    OBVIOUS
  <2>1. toHost' = <<>>
    BY <1>2
  <2> QED
    BY <1>5, <2>1 DEF Answering, Replied, hostVars
<1> QED
  BY <1>2, <1>4, <1>7, <1>8 DEF ExactInv

LEMMA RunningByteExact ==
  ASSUME ExactInv, RunningByte
  PROVE  ExactInv'
<1>1. PICK c \in Byte :
        /\ host # "closed" /\ state = "RUNNING" /\ Receive(c)
        /\ IF c = Break THEN ReportStop ELSE UNCHANGED <<state, send, cursor>>
        /\ UNCHANGED <<recv, checksum, expected_checksum, handled, toHost, hostVars>>
  BY DEF RunningByte, Connected
<1>2. Acknowledging \/ Answering
  BY <1>1, Running
<1>3. toPico # <<>>
  BY <1>1 DEF Receive
<1>4. Answering
  BY <1>2, <1>3 DEF Acknowledging
<1>5. c \in {Break} /\ toPico' \in Seq({Break}) /\ toPico' \in Seq(Byte)
  BY <1>1, <1>4, ExactTyped, ReceiveTyped DEF Answering
<1> QED
  BY <1>1, <1>3, <1>5, ReportExact

LEMMA RunningPollExact ==
  ASSUME ExactInv, RunningPoll
  PROVE  ExactInv'
<1>1. /\ host # "closed" /\ state = "RUNNING" /\ Overlook /\ ReportStop
      /\ UNCHANGED <<recv, checksum, expected_checksum, handled, toHost, hostVars>>
  BY DEF RunningPoll, Connected
<1>2. /\ toPico = <<>> => toPico' = <<>>
      /\ toPico' \in Seq(Byte)
      /\ toPico \in Seq({Break}) => toPico' \in Seq({Break})
  BY <1>1, ExactTyped, OverlookTyped
<1> QED
  BY <1>1, <1>2, ReportExact

LEMMA KilledExact ==
  ASSUME ExactInv, Killed
  PROVE  ExactInv'
<1>1. PICK c \in Byte :
        /\ host # "closed" /\ state = "KILLED" /\ Receive(c) /\ UNCHANGED <<picoVars, toHost, hostVars>>
  BY DEF Killed, Connected
<1>2. Acknowledging \/ Answering
  BY <1>1, StateTells DEF Giving
<1>3. Answering
  BY <1>1, <1>2 DEF Acknowledging, Receive
<1>4. toPico' \in Seq({Break}) /\ toPico' \in Seq(Byte)
  BY <1>1, <1>3, ExactTyped, ReceiveTyped DEF Answering
<1>5. TypeOK'
  BY <1>1, <1>4 DEF ExactInv, TypeOK, picoVars, hostVars
<1>6. Answering'
  BY <1>1, <1>3, <1>4 DEF Answering, Replied, Out, Reply, picoVars, hostVars
<1> QED
  BY <1>5, <1>6 DEF ExactInv

-----------------------------------------------------------------------------
(* GDB *)

LEMMA OpenExact ==
  ASSUME ExactInv, Open
  PROVE  ExactInv'
<1>1. /\ host = "closed" /\ state = "DISCONNECTED" /\ toPico = <<>> /\ host' = "ready" /\ toHost' = <<>>
      /\ UNCHANGED <<picoVars, toPico, request, answer, broke, retries, faults>>
  BY DEF Open
<1>2. <<>> \in Seq(Byte) /\ <<>> \in Seq(Noise)
  OBVIOUS
<1>3. TypeOK'
  BY <1>1, <1>2 DEF ExactInv, TypeOK, picoVars
<1>4. handled = <<>>
  BY <1>1, StateTells DEF Closed
<1>5. Resting'
  BY <1>1, <1>2, <1>4 DEF Resting, Expecting, Current, picoVars
<1> QED
  BY <1>3, <1>5 DEF ExactInv

LEMMA CloseExact ==
  ASSUME ExactInv, Close
  PROVE  ExactInv'
<1>1. /\ host' = "closed" /\ toHost' = <<>>
      /\ answer' = <<>> /\ handled' = <<>> /\ broke' = FALSE /\ retries' = 0
      /\ UNCHANGED <<state, recv, checksum, expected_checksum, send, cursor, toPico, request, faults>>
  BY DEF Close
<1>2. <<>> \in Seq(Byte) /\ <<>> \in Seq(Seq(Byte)) /\ 0 \in 0..Retries
  BY GDBLinkAssumption
<1>3. TypeOK'
  BY <1>1, <1>2 DEF ExactInv, TypeOK
<1>4. Closed'
  BY <1>1 DEF Closed
<1> QED
  BY <1>3, <1>4 DEF ExactInv

LEMMA AskExact ==
  ASSUME CleanLine, ExactInv, NEW body \in Request, Ask(body)
  PROVE  ExactInv'
<1>1. /\ host = "ready" /\ host' = "sent" /\ request' = body /\ answer' = <<>>
      /\ broke' = FALSE /\ retries' = 0 /\ handled' = <<>> /\ Transmit(body)
      /\ UNCHANGED <<state, recv, checksum, expected_checksum, send, cursor, toHost>>
  BY DEF Ask
<1>2. Resting
  BY <1>1 DEF ExactInv, Closed, Asking, Acknowledging, Answering
<1>3. faults = 0 /\ ~(faults < Faults)
  <2>1. faults \in 0..0
    BY ExactTyped DEF TypeOK, CleanLine
  <2> QED
    BY <2>1 DEF CleanLine
<1>4. toPico' = toPico \o Framed(body) /\ faults' = faults
  BY <1>1, <1>3 DEF Transmit
<1>5. toPico \in Seq(Noise) /\ Expecting(toPico) /\ toHost = <<>>
  BY <1>2 DEF Resting
<1>6. body \in Seq(Byte) /\ <<>> \in Seq(Byte) /\ <<>> \in Seq(Seq(Byte)) /\ 0 \in 0..Retries
  BY GDBLinkAssumption
<1>7. toPico' \in Seq(Byte)
  <2>1. Framed(body) \in Seq(Byte)
    BY <1>6, FramedTyped
  <2> QED
    BY <1>4, <2>1, ExactTyped
<1>8. TypeOK'
  BY <1>1, <1>4, <1>6, <1>7 DEF ExactInv, TypeOK
<1>9. PICK noise \in Seq(Noise) : noise = toPico /\ Expecting(noise)
  BY <1>5
<1>10. Expecting(noise)'
  BY <1>1, <1>9 DEF Expecting, Current
<1>11. Queued'
  BY <1>1, <1>4, <1>9, <1>10 DEF Queued
<1>12. Asking'
  BY <1>1, <1>5, <1>11 DEF Asking
<1> QED
  BY <1>8, <1>12 DEF ExactInv

LEMMA TimeoutExact ==
  ASSUME CleanLine, ExactInv
  PROVE  ~Timeout
<1>1. retries \in 0..0
  BY ExactTyped DEF TypeOK, CleanLine
<1>2. ~(retries < Retries)
  BY <1>1 DEF CleanLine
<1> QED
  BY <1>2 DEF Timeout

\* Where GDB listens for an acknowledgement it finds nothing or a '+'.
LEMMA OnlyPlus ==
  ASSUME ExactInv, host = "sent", toHost # <<>>
  PROVE  /\ Acknowledging
         /\ \E out \in Seq(Byte) : /\ toHost = <<Plus>> \o out /\ Replied(out)
                                   /\ Head(toHost) = Plus /\ Tail(toHost) = out
<1>1. Acknowledging
  BY DEF ExactInv, Closed, Resting, Asking, Answering
<1>2. PICK out \in Seq(Byte) : toHost = <<Plus>> \o out /\ Replied(out)
  BY <1>1 DEF Acknowledging
<1>3. Plus \in Byte
  BY SentBytes DEF Sent
<1>4. Head(toHost) = Plus /\ Tail(toHost) = out
  BY <1>2, <1>3, HeadAndRest
<1> QED
  BY <1>1, <1>2, <1>4

LEMMA ReadNackExact ==
  ASSUME ExactInv
  PROVE  ~ReadNack
<1> SUFFICES ASSUME ReadNack PROVE FALSE
  OBVIOUS
<1>1. host = "sent" /\ toHost # <<>> /\ Head(toHost) = Minus
  BY DEF ReadNack, Heard
<1>2. Head(toHost) = Plus
  BY <1>1, OnlyPlus
<1> QED
  BY <1>1, <1>2 DEF Plus, Minus

LEMMA ReadAckExact ==
  ASSUME ExactInv, ReadAck
  PROVE  ExactInv'
<1>1. /\ host = "sent" /\ toHost # <<>> /\ toHost' = Tail(toHost) /\ host' = "acked"
      /\ UNCHANGED <<picoVars, toPico, request, answer, broke, retries, faults>>
  BY DEF ReadAck, Heard
<1>2. PICK out \in Seq(Byte) : Replied(out) /\ Tail(toHost) = out
  BY <1>1, OnlyPlus
<1>3. Acknowledging
  BY <1>1, OnlyPlus
<1>4. toHost' = out /\ toPico' = <<>> /\ handled' = <<request>> /\ request' = request
  BY <1>1, <1>2, <1>3 DEF Acknowledging, picoVars
<1>5. TypeOK'
  BY <1>1, <1>4 DEF ExactInv, TypeOK, picoVars
<1>6. <<>> \in Seq({Break})
  OBVIOUS
<1>7. Answering'
  BY <1>1, <1>2, <1>4, <1>6 DEF Answering, Replied, Out, Reply, picoVars
<1> QED
  BY <1>5, <1>7 DEF ExactInv

LEMMA CtrlCExact ==
  ASSUME ExactInv, CtrlC
  PROVE  ExactInv'
<1>1. /\ host = "acked" /\ broke' = TRUE /\ toPico' = Append(toPico, Break)
      /\ UNCHANGED <<picoVars, toHost, host, request, answer, retries, faults>>
  BY DEF CtrlC
<1>2. Answering
  BY <1>1 DEF ExactInv, Closed, Resting, Asking, Acknowledging
<1>3. toPico' \in Seq({Break})
  BY <1>1, <1>2 DEF Answering
<1>4. toPico' \in Seq(Byte)
  BY <1>3, NoiseTyped
<1>5. TypeOK'
  BY <1>1, <1>4 DEF ExactInv, TypeOK, picoVars
<1>6. Answering'
  BY <1>1, <1>2, <1>3 DEF Answering, Replied, Out, Reply, picoVars
<1> QED
  BY <1>5, <1>6 DEF ExactInv

\* The first '#' on the line is the one behind the reply, which is all there is:
\* GDB takes the reply that was sent, and takes it whole.
LEMMA TakesReply ==
  ASSUME ExactInv, TakeReply
  PROVE  /\ Answering /\ state = "RECV_ACK" /\ request # Kill /\ send = Reply
         /\ host' = "ready" /\ toPico' = Append(toPico, Plus) /\ toHost' = <<>> /\ answer' = send
         /\ UNCHANGED <<picoVars, request, broke, retries, faults>>
<1>1. PICK n \in Replies :
        /\ host = "acked" /\ host' = "ready" /\ toPico' = Append(toPico, Plus)
        /\ answer' = SubSeq(toHost, 2, n - 3) /\ toHost' = SubSeq(toHost, n + 1, Len(toHost))
        /\ UNCHANGED <<picoVars, request, broke, retries, faults>>
  BY DEF TakeReply
<1>2. /\ n \in 4..Len(toHost) /\ toHost[n - 2] = Hash
      /\ \A i \in 1..(n - 3) : toHost[i] # Hash
  BY <1>1 DEF Replies
<1>3. Answering
  BY <1>1 DEF ExactInv, Closed, Resting, Asking, Acknowledging
<1>4. toHost \in Seq(Byte) /\ Len(toHost) \in Nat /\ toHost # <<>>
  BY <1>2, ExactTyped
<1>5. /\ request # Kill /\ send = Reply
      /\ \E m \in 0..(Len(send) + 4) : toHost = SubSeq(Packet(send), 1, m) /\ Out(m)
  BY <1>3, <1>4 DEF Answering, Replied
<1>6. PICK m \in 0..(Len(send) + 4) : toHost = SubSeq(Packet(send), 1, m) /\ Out(m)
  BY <1>5
<1>7. send \in Seq(Byte) /\ Len(send) \in Nat
  BY ExactTyped, RepliesTyped
<1>8. PICK L \in Nat : L = Len(send)
  BY <1>7
<1>9. PICK p : /\ p = Packet(send) /\ p \in Seq(Byte) /\ Len(p) = L + 4 /\ p[L + 2] = Hash
               /\ p[1] = Dollar /\ \A i \in 1..L : p[i + 1] = send[i]
  BY <1>7, <1>8, PacketBytes
<1>10. Len(toHost) = m /\ \A i \in 1..m : toHost[i] = p[i]
  BY <1>6, <1>8, <1>9
<1>11. n \in 4..m /\ m \in 0..(L + 4) /\ p[n - 2] = Hash
  BY <1>2, <1>6, <1>8, <1>10
<1>12. \A i \in 1..L : send[i] # Hash
  <2>1. CASE request = Continue
    BY <1>5, <1>8, <2>1, RepliesArePlain DEF Reply
  <2>2. CASE request # Continue
    BY <1>5, <1>8, <2>2, RepliesArePlain, ExactTyped DEF Reply
  <2> QED
    BY <2>1, <2>2
<1>13. \A i \in 1..(L + 1) : p[i] # Hash
  <2> SUFFICES ASSUME NEW i \in 1..(L + 1) PROVE p[i] # Hash
    OBVIOUS
  <2>1. CASE i = 1
    BY <1>9, <2>1 DEF Dollar, Hash
  <2>2. CASE i # 1
    <3>1. i - 1 \in 1..L /\ i - 1 + 1 = i
      BY <2>2
    <3> QED
      BY <1>9, <1>12, <3>1
  <2> QED
    BY <2>1, <2>2
<1>14. n = L + 4 /\ m = L + 4
  <2>1. n - 2 \in 1..(L + 2)
    BY <1>11
  <2>2. n - 2 \notin 1..(L + 1)
    BY <1>11, <1>13
  <2> QED
    BY <1>11, <2>1, <2>2
<1>15. state = "RECV_ACK"
  <2>1. m # 0 /\ m # L + 1 /\ m # L + 2 /\ m # L + 3
    BY <1>14
  <2>2. cursor < Len(send) => m # 1 + cursor
    <3>1. cursor \in Nat
      BY <1>7, ExactTyped DEF TypeOK
    <3> QED
      BY <1>8, <1>14, <3>1
  <2> QED
    BY <1>6, <1>8, <2>1, <2>2 DEF Out
<1>16. toHost = p
  BY <1>6, <1>9, <1>14, Whole
<1>17. answer' = send
  <2>1. SubSeq(p, 2, L + 1) \in Seq(Byte) /\ Len(SubSeq(p, 2, L + 1)) = L
        /\ \A i \in 1..L : SubSeq(p, 2, L + 1)[i] = send[i]
    BY <1>8, <1>9
  <2>2. SubSeq(p, 2, L + 1) = send
    BY <1>7, <1>8, <2>1
  <2>3. n - 3 = L + 1
    BY <1>14
  <2> QED
    BY <1>1, <1>16, <2>2, <2>3
<1>18. toHost' = <<>>
  BY <1>1, <1>4, <1>10, <1>14
<1> QED
  BY <1>1, <1>3, <1>5, <1>15, <1>17, <1>18

LEMMA TakeReplyExact ==
  ASSUME ExactInv, TakeReply
  PROVE  ExactInv'
<1>1. /\ Answering /\ state = "RECV_ACK"
      /\ host' = "ready" /\ toPico' = Append(toPico, Plus) /\ toHost' = <<>> /\ answer' = send
      /\ UNCHANGED <<picoVars, request, broke, retries, faults>>
  BY TakesReply
<1>2. toPico \in Seq({Break}) /\ toPico \in Seq(Noise) /\ handled = <<request>>
  BY <1>1, NoiseTyped DEF Answering
<1>3. Plus \in Noise /\ Len(toPico') \in 1..Len(toPico') /\ toPico'[Len(toPico')] = Plus
  BY <1>1, <1>2 DEF Noise
<1>4. toPico' \in Seq(Noise)
  BY <1>1, <1>2, <1>3
<1>5. toPico' \in Seq(Byte) /\ <<>> \in Seq(Byte) /\ answer' \in Seq(Byte)
  <2>1. send \in Seq(Byte)
    BY ExactTyped, RepliesTyped
  <2>2. toPico' \in Seq(Byte)
    BY <1>4, NoiseTyped
  <2> QED
    BY <1>1, <2>1, <2>2
<1>6. TypeOK'
  BY <1>1, <1>5 DEF ExactInv, TypeOK, picoVars
<1>7. Expecting(toPico)'
  BY <1>1, <1>3 DEF Expecting, picoVars
<1>8. Resting'
  BY <1>1, <1>2, <1>4, <1>7 DEF Resting, picoVars
<1> QED
  BY <1>6, <1>8 DEF ExactInv

-----------------------------------------------------------------------------
(* The theorems *)

LEMMA InitExact ==
  ASSUME Init
  PROVE  ExactInv
<1>1. <<>> \in Seq(Byte) /\ <<>> \in Seq(Seq(Byte)) /\ 0 \in Byte /\ 0 \in 0..Retries /\ 0 \in 0..Faults
  BY GDBLinkAssumption, ByteSum
<1>2. send = <<>> /\ cursor \in 0..Len(send)
  BY DEF Init
<1>3. TypeOK
  BY <1>1, <1>2 DEF Init, TypeOK, State
<1>4. Closed
  BY DEF Init, Closed
<1> QED
  BY <1>3, <1>4 DEF ExactInv

LEMMA StutterExact ==
  ASSUME ExactInv, UNCHANGED vars
  PROVE  ExactInv'
<1>1. UNCHANGED <<state, recv, checksum, expected_checksum, send, cursor, handled, toPico, toHost,
                  host, request, answer, broke, retries, faults>>
  BY DEF vars, picoVars, hostVars
<1>2. TypeOK'
  BY <1>1 DEF ExactInv, TypeOK
<1>3. \A noise : Expecting(noise) => Expecting(noise)'
  BY <1>1 DEF Expecting, Current
<1>4. \A out : Replied(out) => Replied(out)'
  BY <1>1 DEF Replied, Out, Reply
<1>5. Closed => Closed'
  BY <1>1 DEF Closed
<1>6. Resting => Resting'
  BY <1>1 DEF Resting, Expecting, Current
<1>7. Queued => Queued'
  BY <1>1, <1>3 DEF Queued
<1>8. Receiving => Receiving'
  BY <1>1 DEF Receiving, At
<1>9. Asking => Asking'
  BY <1>1, <1>7, <1>8 DEF Asking
<1>10. Acknowledging => Acknowledging'
  BY <1>1, <1>4 DEF Acknowledging
<1>11. Answering => Answering'
  BY <1>1 DEF Answering, Replied, Out, Reply
<1> QED
  BY <1>2, <1>5, <1>6, <1>9, <1>10, <1>11 DEF ExactInv

LEMMA UpdateExact ==
  ASSUME ExactInv, Update
  PROVE  ExactInv'
<1>1. CASE Connect          BY <1>1, ConnectExact
<1>2. CASE Disconnected     BY <1>2, DisconnectedExact
<1>3. CASE Idle             BY <1>3, IdleExact
<1>4. CASE RecvPacket       BY <1>4, RecvPacketExact
<1>5. CASE RecvPacketEscape BY <1>5, RecvPacketEscapeExact
<1>6. CASE RecvSuffix1      BY <1>6, RecvSuffix1Exact
<1>7. CASE RecvSuffix2      BY <1>7, RecvSuffix2Exact
<1>8. CASE SendPrefix       BY <1>8, SendPrefixExact
<1>9. CASE SendPacket       BY <1>9, SendPacketExact
<1>10. CASE SendSuffix1 \/ SendSuffix2 \/ SendSuffix3
  BY <1>10, SendSuffixExact
<1>11. CASE RecvAck         BY <1>11, RecvAckExact
<1>12. CASE RunningByte     BY <1>12, RunningByteExact
<1>13. CASE RunningPoll     BY <1>13, RunningPollExact
<1>14. CASE Killed          BY <1>14, KilledExact
<1> QED
  BY <1>1, <1>2, <1>3, <1>4, <1>5, <1>6, <1>7, <1>8, <1>9, <1>10, <1>11, <1>12, <1>13, <1>14 DEF Update

LEMMA NextExact ==
  ASSUME CleanLine, ExactInv, [Next]_vars
  PROVE  ExactInv'
<1>1. CASE Update    BY <1>1, UpdateExact
<1>2. CASE Open      BY <1>2, OpenExact
<1>3. CASE Close     BY <1>3, CloseExact
<1>4. CASE Timeout   BY <1>4, TimeoutExact
<1>5. CASE ReadNack  BY <1>5, ReadNackExact
<1>6. CASE ReadAck   BY <1>6, ReadAckExact
<1>7. CASE TakeReply BY <1>7, TakeReplyExact
<1>8. CASE CtrlC     BY <1>8, CtrlCExact
<1>9. ASSUME NEW body \in Request, Ask(body) PROVE ExactInv'
  BY <1>9, AskExact
<1>10. CASE UNCHANGED vars BY <1>10, StutterExact
<1> QED
  BY <1>1, <1>2, <1>3, <1>4, <1>5, <1>6, <1>7, <1>8, <1>9, <1>10 DEF Next

\* On a clean line every byte is accounted for: what is on the line, in recv and in
\* the checksums is the request and the reply, from the state update is in.
THEOREM CleanLineInvariant == ASSUME CleanLine PROVE Spec => []ExactInv
<1>1. Init => ExactInv
  BY InitExact
<1>2. ExactInv /\ [Next]_vars => ExactInv'
  BY NextExact
<1> QED
  BY <1>1, <1>2, PTL DEF Spec

(* The contract *)

LEMMA PhaseSame ==
  ASSUME UNCHANGED <<host, handled, request, answer>>,
         host = "closed" \/ state' = state
           \/ (state \notin {"RUNNING", "KILLED"} /\ state' \notin {"RUNNING", "KILLED"})
  PROVE  UNCHANGED Contract!contractVars
BY DEF Phase, Contract!contractVars

LEMMA MachineRefines ==
  ASSUME Update, ~RecvSuffix2, ~RunningByte, ~RunningPoll
  PROVE  UNCHANGED Contract!contractVars
<1>1. CASE Connect \/ Idle \/ RecvPacket \/ RecvPacketEscape \/ RecvSuffix1
  <2>1. /\ UNCHANGED <<host, handled, request, answer>>
        /\ state \notin {"RUNNING", "KILLED"} /\ state' \notin {"RUNNING", "KILLED"}
    BY <1>1 DEF Connect, Idle, RecvPacket, RecvPacketEscape, RecvSuffix1, Current, hostVars
  <2> QED
    BY <2>1, PhaseSame
<1>2. CASE SendPrefix \/ SendPacket \/ SendSuffix1 \/ SendSuffix2 \/ SendSuffix3
  <2>1. /\ UNCHANGED <<host, handled, request, answer>>
        /\ state \notin {"RUNNING", "KILLED"} /\ state' \notin {"RUNNING", "KILLED"}
    BY <1>2 DEF SendPrefix, SendPacket, SendSuffix1, SendSuffix2, SendSuffix3, SendStep, hostVars
  <2> QED
    BY <2>1, PhaseSame
<1>3. CASE RecvAck
  <2>1. /\ UNCHANGED <<host, handled, request, answer>>
        /\ state \notin {"RUNNING", "KILLED"} /\ state' \notin {"RUNNING", "KILLED"}
    BY <1>3 DEF RecvAck, hostVars
  <2> QED
    BY <2>1, PhaseSame
<1>4. CASE Disconnected \/ Killed
  <2>1. /\ UNCHANGED <<host, handled, request, answer>>
        /\ host = "closed" \/ state' = state
    BY <1>4 DEF Disconnected, Connected, Killed, picoVars, hostVars
  <2> QED
    BY <2>1, PhaseSame
<1> QED
  BY <1>1, <1>2, <1>3, <1>4 DEF Update

LEMMA PhaseOf ==
  ASSUME ExactInv
  PROVE  /\ Closed => Phase = "closed"
         /\ Resting => Phase = "ready"
         /\ Asking => Phase = "asked"
         /\ Acknowledging \/ Answering =>
              Phase = IF state = "RUNNING" THEN "running" ELSE IF state = "KILLED" THEN "killed" ELSE "answered"
<1>1. <<request>> # <<>>
  OBVIOUS
<1>2. Closed => Phase = "closed"
  BY DEF Closed, Phase
<1>3. Resting => Phase = "ready"
  BY DEF Resting, Phase
<1>4. Asking => Phase = "asked"
  BY DEF Asking, Phase
<1>5. Acknowledging \/ Answering =>
        Phase = IF state = "RUNNING" THEN "running" ELSE IF state = "KILLED" THEN "killed" ELSE "answered"
  BY <1>1 DEF Acknowledging, Answering, Phase
<1> QED
  BY <1>2, <1>3, <1>4, <1>5

LEMMA CarryRefines ==
  ASSUME ExactInv, RecvSuffix2
  PROVE  Contract!Carry
<1>1. /\ Asking /\ recv = request /\ handle_packet /\ UNCHANGED hostVars
  BY RecvSuffix2Takes
<1>2. Phase = "asked" /\ host = "sent" /\ handled = <<>>
  BY <1>1, PhaseOf DEF Asking
<1>3. /\ handled' = <<request>> /\ request \in Request /\ request' = request /\ host' = "sent"
      /\ answer' = answer
      /\ \/ request = Continue /\ state' = "RUNNING"
         \/ request = Continue /\ state' = "SEND_PREFIX"
         \/ request = Kill /\ state' = "KILLED"
         \/ request \notin {Continue, Kill} /\ state' = "SEND_PREFIX"
  BY <1>1, <1>2, ExactTyped DEF handle_packet, hostVars
<1>4. <<request>> # <<>>
  OBVIOUS
<1>5. Phase' = IF state' = "RUNNING" THEN "running" ELSE IF state' = "KILLED" THEN "killed" ELSE "answered"
  BY <1>3, <1>4 DEF Phase
<1> QED
  BY <1>2, <1>3, <1>5, GDBLinkAssumption DEF Contract!Carry

LEMMA StopRefines ==
  ASSUME ExactInv, ExactInv', RunningByte \/ RunningPoll
  PROVE  Contract!Stop \/ UNCHANGED Contract!contractVars
<1>1. /\ host # "closed" /\ state = "RUNNING" /\ (ReportStop \/ UNCHANGED <<state, send, cursor>>)
      /\ UNCHANGED <<host, handled, request, answer>>
  BY DEF RunningByte, RunningPoll, Connected, hostVars
<1>2. CASE UNCHANGED state
  BY <1>1, <1>2, PhaseSame
<1>3. CASE ReportStop
  <2>1. state' = "SEND_PREFIX"
    BY <1>3 DEF ReportStop
  <2>2. Acknowledging \/ Answering
    BY <1>1, Running
  <2>3. Phase = "running" /\ handled = <<request>> /\ host \in {"sent", "acked"}
    BY <1>1, <2>2, PhaseOf DEF Acknowledging, Answering
  <2>4. <<request>> # <<>>
    OBVIOUS
  <2>5. Phase' = "answered"
    BY <1>1, <2>1, <2>3, <2>4 DEF Phase
  <2> QED
    BY <1>1, <2>3, <2>5 DEF Contract!Stop
<1> QED
  BY <1>1, <1>2, <1>3

LEMMA TakeRefines ==
  ASSUME ExactInv, TakeReply
  PROVE  Contract!Take
<1>1. /\ Answering /\ state = "RECV_ACK" /\ send = Reply
      /\ host' = "ready" /\ answer' = send /\ UNCHANGED <<picoVars, request>>
  BY TakesReply
<1>2. Phase = "answered"
  BY <1>1, PhaseOf
<1>3. Phase' = "ready"
  BY <1>1 DEF Answering, Phase, picoVars
<1> QED
  BY <1>1, <1>2, <1>3 DEF Contract!Take, Reply

LEMMA HostRefines ==
  ASSUME ExactInv
  PROVE  /\ Open => Contract!Open
         /\ Close => Contract!Close
         /\ \A body \in Request : Ask(body) => Contract!Ask
         /\ Timeout \/ ReadNack \/ ReadAck \/ CtrlC => UNCHANGED Contract!contractVars
<1>1. ASSUME Open PROVE Contract!Open
  <2>1. /\ host = "closed" /\ host' = "ready" /\ UNCHANGED <<handled, request, answer>>
    BY <1>1 DEF Open, picoVars
  <2>2. handled = <<>>
    BY <2>1, StateTells DEF Closed
  <2>3. Phase = "closed" /\ Phase' = "ready"
    BY <2>1, <2>2 DEF Phase
  <2> QED
    BY <2>1, <2>3 DEF Contract!Open
<1>2. ASSUME Close PROVE Contract!Close
  BY <1>2 DEF Close, Contract!Close, Phase
<1>3. ASSUME NEW body \in Request, Ask(body) PROVE Contract!Ask
  <2>1. /\ host = "ready" /\ host' = "sent" /\ request' = body /\ answer' = <<>> /\ handled' = <<>>
    BY <1>3 DEF Ask
  <2>2. Resting
    BY <2>1 DEF ExactInv, Closed, Asking, Acknowledging, Answering
  <2>3. Phase = "ready" /\ Phase' = "asked"
    BY <2>1, <2>2, PhaseOf DEF Phase
  <2> QED
    BY <2>1, <2>3 DEF Contract!Ask
<1>4. ASSUME Timeout \/ ReadNack \/ CtrlC PROVE UNCHANGED Contract!contractVars
  <2>1. UNCHANGED <<host, handled, request, answer>> /\ state' = state
    BY <1>4 DEF Timeout, ReadNack, CtrlC, picoVars
  <2> QED
    BY <2>1, PhaseSame
<1>5. ASSUME ReadAck PROVE UNCHANGED Contract!contractVars
  <2>1. host = "sent" /\ host' = "acked" /\ UNCHANGED <<handled, request, answer, state>>
    BY <1>5 DEF ReadAck, picoVars
  <2> QED
    BY <2>1 DEF Phase, Contract!contractVars
<1> QED
  BY <1>1, <1>2, <1>3, <1>4, <1>5

LEMMA StepRefines ==
  ASSUME ExactInv, ExactInv', [Next]_vars
  PROVE  [Contract!ContractNext]_(Contract!contractVars)
<1>1. CASE Update
  BY <1>1, MachineRefines, CarryRefines, StopRefines DEF Contract!ContractNext
<1>2. CASE Open \/ Close \/ (\E body \in Request : Ask(body)) \/ Timeout \/ ReadNack \/ ReadAck \/ CtrlC
  BY <1>2, HostRefines DEF Contract!ContractNext
<1>3. CASE TakeReply
  BY <1>3, TakeRefines DEF Contract!ContractNext
<1>4. CASE UNCHANGED vars
  <2>1. UNCHANGED <<host, handled, request, answer>> /\ state' = state
    BY <1>4 DEF vars, picoVars, hostVars
  <2> QED
    BY <2>1, PhaseSame
<1> QED
  BY <1>1, <1>2, <1>3, <1>4 DEF Next

\* On a clean line GDB sees one exchange after another: each request is handled once
\* and with the bytes that were sent, and answered once with its own answer.
THEOREM CleanLineImplementsContract == ASSUME CleanLine PROVE Spec => ImplementsContract
<1>1. Init => Contract!ContractInit
  BY DEF Init, Phase, Contract!ContractInit
<1>2. ExactInv /\ ExactInv' /\ [Next]_vars => [Contract!ContractNext]_(Contract!contractVars)
  BY StepRefines
<1> QED
  BY <1>1, <1>2, CleanLineInvariant, PTL DEF Spec, ImplementsContract, Contract!ContractSpec

(* On a clean line and on any other *)

LEMMA ExactFramed == ExactInv => RepliesFramed
<1> SUFFICES ASSUME ExactInv, toHost # <<>> PROVE Head(toHost) \in {Plus, Minus, Dollar}
  BY DEF RepliesFramed
<1>1. CASE Acknowledging
  BY <1>1, OnlyPlus DEF Acknowledging
<1>2. CASE Answering
  <2>1. PICK m \in 0..(Len(send) + 4) : toHost = SubSeq(Packet(send), 1, m)
    BY <1>2 DEF Answering, Replied
  <2>2. PICK p \in Seq(Byte) : p = Packet(send) /\ p[1] = Dollar /\ Len(p) = Len(send) + 4
    BY ExactTyped, RepliesTyped, PacketBytes
  <2>3. Len(send) \in Nat
    BY ExactTyped, RepliesTyped
  <2>4. Head(toHost) = p[1]
    BY <2>1, <2>2, <2>3
  <2> QED
    BY <2>2, <2>4
<1> QED
  BY <1>1, <1>2 DEF ExactInv, Closed, Resting, Asking

LEMMA ExactAgrees == ExactInv => EndsAgree
<1> SUFFICES ASSUME ExactInv, host = "ready", toPico = <<>>
             PROVE  Current \in Listening
  BY DEF EndsAgree
<1>1. Resting
  BY DEF ExactInv, Closed, Asking, Acknowledging, Answering
<1>2. Current = "IDLE"
  BY <1>1 DEF Resting, Expecting
<1> QED
  BY <1>2 DEF Listening

\* The machine of update stays in its states, and its cursor, its checksums and the
\* bytes on the line stay in their ranges.
THEOREM LinkTypeCorrect == Spec => []TypeOK
<1>1. (IInv => TypeOK) /\ (ExactInv => TypeOK)
  BY DEF IInv, ExactInv
<1>2. CASE CleanLine
  BY <1>1, <1>2, CleanLineInvariant, PTL
<1>3. CASE NothingRefused
  BY <1>1, <1>3, LinkInvariant, PTL
<1> QED
  BY <1>2, <1>3, NoRefusal DEF CleanLine

\* Where GDB looks for an acknowledgement or a packet it finds '+', '-' or '$':
\* update never puts part of a reply, or a byte between two of them, on the line.
THEOREM RepliesAreFramed == Spec => []RepliesFramed
<1>1. CASE CleanLine
  BY <1>1, CleanLineInvariant, ExactFramed, PTL
<1>2. CASE NothingRefused
  BY <1>2, LinkInvariant, LineFramed, PTL
<1> QED
  BY <1>1, <1>2, NoRefusal DEF CleanLine

\* When GDB has its answer and nothing is on the line update is in a state that
\* takes the next packet: it never waits for an acknowledgement GDB will not send.
THEOREM EndsDoAgree == Spec => []EndsAgree
<1>1. CASE CleanLine
  BY <1>1, CleanLineInvariant, ExactAgrees, PTL
<1>2. CASE NothingRefused
  BY <1>2, LinkInvariant, LineAgrees, PTL
<1> QED
  BY <1>1, <1>2, NoRefusal DEF CleanLine

=============================================================================
