---------------------------- MODULE GDBLinkProofs -----------------------------
(***************************************************************************)
(* The safety of GDBLink where requests are damaged and sent again: for    *)
(* requests without a '-', replies without a special byte, any damage and  *)
(* any number of repetitions, what the machine puts on the line parses as  *)
(* acknowledgements and packets, from wherever GDB has read up to, and an  *)
(* exchange that is over leaves the machine waiting for a packet.          *)
(*                                                                         *)
(* A checksum and the escapes of a packet are defined step by step along   *)
(* a sequence. That such a definition has a value, and what it keeps,      *)
(* follows from the least place where it would not.                        *)
(***************************************************************************)
EXTENDS GDBLink, SequenceTheorems, WellFoundedInduction, TLAPS

(* Definitions along 1..n *)

LEMMA LeastNumber ==
  ASSUME NEW S \in SUBSET Nat, S # {}
  PROVE  \E n \in S : \A m \in S : n <= m
<1>1. PICK n \in S : \A m \in S : ~(<<m, n>> \in OpToRel(<, Nat))
  BY NatLessThanWellFounded, WFMin, Zenon
<1>2. SUFFICES ASSUME NEW m \in S PROVE n <= m
  OBVIOUS
<1>3. m < n => <<m, n>> \in OpToRel(<, Nat)
  BY DEF OpToRel
<1>4. m \in Nat /\ n \in Nat
  OBVIOUS
<1>5. ~(m < n)
  BY <1>1, <1>3, Zenon
<1> QED
  BY <1>4, <1>5

\* The functions on 0..m that take the first m steps.
Stepped(T, first, step, m) ==
  {f \in [0..m -> T] : f[0] = first /\ \A i \in 1..m : f[i] = step[i][f[i - 1]]}

\* What is defined step by step along 1..n exists.
LEMMA Stepwise ==
  ASSUME NEW T, NEW n \in Nat, NEW first \in T, NEW step \in [1..n -> [T -> T]]
  PROVE  \E f : f \in Stepped(T, first, step, n)
<1> DEFINE Missing == {m \in 0..n : Stepped(T, first, step, m) = {}}
<1>1. SUFFICES ASSUME Missing # {} PROVE FALSE
  OBVIOUS
<1>2. PICK m \in Missing : \A k \in Missing : m <= k
  <2>1. Missing \in SUBSET Nat
    OBVIOUS
  <2> HIDE DEF Missing
  <2> QED
    BY <1>1, <2>1, LeastNumber
<1>3. m \in 0..n /\ Stepped(T, first, step, m) = {}
  OBVIOUS
<1>4. m # 0
  <2> DEFINE z == [x \in 0..0 |-> first]
  <2>1. z \in [0..0 -> T] /\ z[0] = first
    OBVIOUS
  <2>2. z \in Stepped(T, first, step, 0)
    BY <2>1 DEF Stepped
  <2> QED
    BY <1>3, <2>2
<1>5. m - 1 \in 0..n /\ ~(m <= m - 1) /\ m \in 1..n /\ m - 1 \in 0..(m - 1)
  BY <1>3, <1>4
<1>6. Stepped(T, first, step, m - 1) # {}
  <2>1. m - 1 \in Missing => m <= m - 1
    BY <1>2
  <2> QED
    BY <1>5, <2>1
<1>7. PICK f \in Stepped(T, first, step, m - 1) : TRUE
  BY <1>6
<1>8. f \in [0..(m - 1) -> T] /\ f[0] = first /\ \A i \in 1..(m - 1) : f[i] = step[i][f[i - 1]]
  BY DEF Stepped
<1> DEFINE g == [x \in 0..m |-> IF x = m THEN step[m][f[m - 1]] ELSE f[x]]
<1>9. g \in [0..m -> T]
  <2>1. step[m][f[m - 1]] \in T
    BY <1>5, <1>8
  <2>2. ASSUME NEW x \in 0..m, x # m PROVE f[x] \in T
    BY <1>8, <2>2
  <2> QED
    BY <2>1, <2>2
<1>10. g[0] = first
  BY <1>5, <1>8
<1>11. ASSUME NEW i \in 1..m PROVE g[i] = step[i][g[i - 1]]
  <2>1. CASE i = m
    BY <1>5, <2>1
  <2>2. CASE i # m
    <3>1. i \in 1..(m - 1) /\ i - 1 \in 0..m /\ i - 1 # m
      BY <2>2
    <3> QED
      BY <1>8, <2>2, <3>1
  <2> QED
    BY <2>1, <2>2
<1>12. g \in Stepped(T, first, step, m)
  <2> HIDE DEF g
  <2> QED
    BY <1>9, <1>10, <1>11 DEF Stepped
<1> QED
  BY <1>3, <1>12

\* What holds at the first place and is kept by every step holds all along.
LEMMA StaysIn ==
  ASSUME NEW T, NEW n \in Nat, NEW f, f[0] \in T,
         \A i \in 1..n : f[i - 1] \in T => f[i] \in T
  PROVE  \A i \in 0..n : f[i] \in T
<1> DEFINE Out == {i \in 0..n : f[i] \notin T}
<1>1. SUFFICES ASSUME Out # {} PROVE FALSE
  OBVIOUS
<1>2. PICK m \in Out : \A k \in Out : m <= k
  <2>1. Out \in SUBSET Nat
    OBVIOUS
  <2> HIDE DEF Out
  <2> QED
    BY <1>1, <2>1, LeastNumber
<1>3. m \in 0..n /\ f[m] \notin T
  OBVIOUS
<1>4. m \in 1..n /\ m - 1 \in 0..n /\ ~(m <= m - 1)
  BY <1>3
<1>5. m - 1 \notin Out
  BY <1>2, <1>4
<1> QED
  BY <1>3, <1>4, <1>5

LEMMA ByteSum == 0 \in Byte /\ \A s, b \in Byte : (s + b) % 256 \in Byte
<1>1. ASSUME NEW s \in Byte, NEW b \in Byte PROVE (s + b) % 256 \in Byte
  <2>1. PICK n \in Nat : n = s + b
    BY DEF Byte
  <2>2. n % 256 \in 0..255
    OBVIOUS
  <2> QED
    BY <2>1, <2>2 DEF Byte
<1>2. 0 \in Byte
  BY DEF Byte
<1> QED
  BY <1>1, <1>2

\* A checksum is the last of the sums along its bytes.
Sums(bytes) ==
  {sum \in [0..Len(bytes) -> Byte] :
     sum[0] = 0 /\ \A i \in 1..Len(bytes) : sum[i] = (sum[i - 1] + bytes[i]) % 256}

LEMMA SumSteps ==
  ASSUME NEW bytes \in Seq(Byte)
  PROVE  \E sum \in Sums(bytes) : Sum(bytes) = sum[Len(bytes)]
<1> DEFINE N == Len(bytes)
           step == [i \in 1..N |-> [s \in Byte |-> (s + bytes[i]) % 256]]
           sum[n \in 0..N] == IF n = 0 THEN 0 ELSE (sum[n - 1] + bytes[n]) % 256
<1>0. N \in Nat /\ \A i \in 1..N : bytes[i] \in Byte
  OBVIOUS
<1>1. 0 \in Byte /\ \A s, b \in Byte : (s + b) % 256 \in Byte
  BY ByteSum
<1>2. step \in [1..N -> [Byte -> Byte]]
  BY <1>0, <1>1
<1>3. \A i \in 1..N, s \in Byte : step[i][s] = (s + bytes[i]) % 256
  OBVIOUS
<1> HIDE DEF step
<1>4. PICK f : f \in Stepped(Byte, 0, step, N)
  BY <1>0, <1>1, <1>2, Stepwise
<1>5. f \in [0..N -> Byte] /\ f[0] = 0 /\ \A i \in 1..N : f[i] = step[i][f[i - 1]]
  BY <1>4 DEF Stepped
<1>6. \A i \in 1..N : i - 1 \in 0..N /\ i \in 0..N /\ i # 0
  BY <1>0
<1>7. f = [n \in 0..N |-> IF n = 0 THEN 0 ELSE (f[n - 1] + bytes[n]) % 256]
  BY <1>0, <1>3, <1>5, <1>6
<1>8. sum = [n \in 0..N |-> IF n = 0 THEN 0 ELSE (sum[n - 1] + bytes[n]) % 256]
  BY <1>7
<1> HIDE DEF sum
<1>9. sum[0] = 0 /\ \A i \in 1..N : sum[i] = (sum[i - 1] + bytes[i]) % 256
  BY <1>0, <1>6, <1>8
<1>10. \A i \in 0..N : sum[i] \in Byte
  <2>1. sum[0] \in Byte /\ \A i \in 1..N : sum[i - 1] \in Byte => sum[i] \in Byte
    BY <1>0, <1>1, <1>9
  <2> QED
    BY <1>0, <2>1, StaysIn
<1>11. sum \in [0..N -> Byte]
  <2> DEFINE g == [n \in 0..N |-> IF n = 0 THEN 0 ELSE (sum[n - 1] + bytes[n]) % 256]
  <2>1. sum = g
    BY <1>8
  <2>2. \A n \in 0..N : g[n] \in Byte
    BY <1>8, <1>10
  <2>3. g \in [0..N -> Byte]
    BY <2>2
  <2> HIDE DEF g
  <2> QED
    BY <2>1, <2>3
<1>12. sum \in Sums(bytes)
  BY <1>9, <1>11 DEF Sums
<1>13. Sum(bytes) = sum[N]
  BY DEF Sum, sum
<1> QED
  BY <1>12, <1>13

LEMMA SumIsByte ==
  ASSUME NEW bytes \in Seq(Byte)
  PROVE  Sum(bytes) \in Byte
<1>1. PICK sum \in Sums(bytes) : Sum(bytes) = sum[Len(bytes)]
  BY SumSteps
<1>2. Len(bytes) \in 0..Len(bytes)
  OBVIOUS
<1> QED
  BY <1>1, <1>2 DEF Sums

\* Flattening appends one sequence after the other.
Flattens(T, ss) ==
  {f \in [0..Len(ss) -> Seq(T)] :
     f[0] = <<>> /\ \A i \in 1..Len(ss) : f[i] = f[i - 1] \o ss[i]}

LEMMA FlattenSteps ==
  ASSUME NEW T, NEW ss \in Seq(Seq(T))
  PROVE  \E f \in Flattens(T, ss) : FlattenSeq(ss) = f[Len(ss)]
<1> DEFINE N == Len(ss)
           step == [i \in 1..N |-> [s \in Seq(T) |-> s \o ss[i]]]
           flatten[i \in 1..N] == IF i = 1 THEN ss[i] ELSE flatten[i - 1] \o ss[i]
<1>0. N \in Nat /\ \A i \in 1..N : ss[i] \in Seq(T)
  OBVIOUS
<1>1. CASE N = 0
  <2>1. ss = <<>>
    BY <1>1, EmptySeq
  <2>2. FlattenSeq(ss) = <<>>
    BY <2>1 DEF FlattenSeq
  <2> DEFINE z == [i \in 0..0 |-> <<>>]
  <2>3. <<>> \in Seq(T)
    OBVIOUS
  <2>4. z \in [0..0 -> Seq(T)] /\ z[0] = <<>>
    BY <2>3
  <2> HIDE DEF z
  <2>5. z \in Flattens(T, ss)
    BY <1>0, <1>1, <2>4 DEF Flattens
  <2> QED
    BY <1>1, <2>2, <2>4, <2>5
<1>2. CASE N # 0
  <2>1. step \in [1..N -> [Seq(T) -> Seq(T)]]
    BY <1>0
  <2>2. \A i \in 1..N, s \in Seq(T) : step[i][s] = s \o ss[i]
    OBVIOUS
  <2>3. <<>> \in Seq(T)
    OBVIOUS
  <2> HIDE DEF step
  <2>4. PICK f : f \in Stepped(Seq(T), <<>>, step, N)
    BY <1>0, <2>1, <2>3, Stepwise
  <2>5. f \in [0..N -> Seq(T)] /\ f[0] = <<>> /\ \A i \in 1..N : f[i] = step[i][f[i - 1]]
    BY <2>4 DEF Stepped
  <2> DEFINE g == [i \in 1..N |-> f[i]]
  <2>6. g = [i \in 1..N |-> IF i = 1 THEN ss[i] ELSE g[i - 1] \o ss[i]]
    <3>1. ASSUME NEW i \in 1..N PROVE f[i] = f[i - 1] \o ss[i]
      <4>1. i - 1 \in 0..N
        BY <1>0
      <4> QED
        BY <2>2, <2>5, <4>1
    <3>2. f[1] = ss[1]
      <4>1. 1 \in 1..N /\ 1 - 1 = 0
        BY <1>0, <1>2
      <4>2. f[1] = <<>> \o ss[1] /\ ss[1] \in Seq(T)
        BY <1>0, <2>5, <3>1, <4>1
      <4> QED
        BY <4>2, ConcatEmptySeq
    <3>3. ASSUME NEW i \in 1..N, i # 1 PROVE i - 1 \in 1..N
      BY <1>0, <3>3
    <3> QED
      BY <3>1, <3>2, <3>3
  <2> HIDE DEF g
  <2>7. flatten = [i \in 1..N |-> IF i = 1 THEN ss[i] ELSE flatten[i - 1] \o ss[i]]
    BY <2>6
  <2> HIDE DEF flatten
  <2> DEFINE h == [i \in 0..N |-> IF i = 0 THEN <<>> ELSE flatten[i]]
  <2>8. h[0] \in Seq(T)
    BY <1>0, <2>3
  <2>9. ASSUME NEW i \in 1..N, h[i - 1] \in Seq(T) PROVE h[i] \in Seq(T)
    <3>1. CASE i = 1
      BY <1>0, <1>2, <2>7, <3>1
    <3>2. CASE i # 1
      <4>1. i - 1 \in 1..N /\ i - 1 \in 0..N /\ i \in 0..N
        BY <1>0, <3>2
      <4>2. h[i] = flatten[i] /\ h[i - 1] = flatten[i - 1]
        BY <3>2, <4>1
      <4> HIDE DEF h
      <4>3. h[i] = h[i - 1] \o ss[i]
        BY <2>7, <3>2, <4>2
      <4>4. ss[i] \in Seq(T)
        BY <1>0
      <4> QED
        BY <2>9, <4>3, <4>4
    <3> QED
      BY <3>1, <3>2
  <2>10. \A i \in 0..N : h[i] \in Seq(T)
    <3> HIDE DEF h
    <3> QED
      BY <1>0, <2>8, <2>9, StaysIn
  <2>11. h \in [0..N -> Seq(T)]
    BY <2>10
  <2>12. \A i \in 1..N : h[i] = h[i - 1] \o ss[i]
    <3> SUFFICES ASSUME NEW i \in 1..N PROVE h[i] = h[i - 1] \o ss[i]
      OBVIOUS
    <3>1. CASE i = 1
      <4>1. i \in 0..N /\ i - 1 = 0 /\ i # 0 /\ 0 \in 0..N
        BY <1>0, <3>1
      <4>2. h[i] = flatten[i] /\ h[i - 1] = <<>>
        BY <4>1
      <4> HIDE DEF h
      <4>3. flatten[i] = ss[i]
        BY <2>7, <3>1
      <4>4. ss[i] \in Seq(T)
        BY <1>0
      <4> QED
        BY <4>2, <4>3, <4>4, ConcatEmptySeq
    <3>2. CASE i # 1
      <4>1. i - 1 \in 1..N /\ i - 1 \in 0..N /\ i \in 0..N
        BY <1>0, <3>2
      <4>2. h[i] = flatten[i] /\ h[i - 1] = flatten[i - 1]
        BY <3>2, <4>1
      <4> HIDE DEF h
      <4> QED
        BY <2>7, <3>2, <4>2
    <3> QED
      BY <3>1, <3>2
  <2>13. h[0] = <<>> /\ h[N] = flatten[N]
    BY <1>0, <1>2
  <2> HIDE DEF h
  <2>14. h \in Flattens(T, ss)
    BY <2>11, <2>12, <2>13 DEF Flattens
  <2>15. FlattenSeq(ss) = flatten[N]
    BY <1>2 DEF FlattenSeq, flatten
  <2> QED
    BY <2>13, <2>14, <2>15
<1> QED
  BY <1>1, <1>2

LEMMA FlattenTyped ==
  ASSUME NEW T, NEW ss \in Seq(Seq(T))
  PROVE  FlattenSeq(ss) \in Seq(T)
<1>1. PICK f \in Flattens(T, ss) : FlattenSeq(ss) = f[Len(ss)]
  BY FlattenSteps
<1>2. Len(ss) \in 0..Len(ss)
  OBVIOUS
<1> QED
  BY <1>1, <1>2 DEF Flattens

-----------------------------------------------------------------------------
(* Bytes and packets *)

Sent == Byte \ {Minus}

LEMMA SentBytes ==
  /\ {Dollar, Hash, Escape, Plus, Break} \subseteq Sent
  /\ Minus \in Byte
  /\ \A s : s \in Seq(Sent) => s \in Seq(Byte)
<1>1. /\ {Dollar, Hash, Escape, Plus, Break} \subseteq Sent /\ Minus \in Byte
  BY DEF Sent, Byte, Dollar, Hash, Escape, Plus, Break, Minus
<1>2. Sent \subseteq Byte
  BY DEF Sent
<1> QED
  BY <1>1, <1>2

\* A digit is none of the bytes that mean something to GDB.
LEMMA HexDigits ==
  ASSUME NEW x \in 0..15
  PROVE  ToHex(x) \in Sent /\ ToHex(x) \notin {Dollar, Hash, Plus, Minus}
BY DEF ToHex, Sent, Byte, Dollar, Hash, Plus, Minus

LEMMA Nibbles ==
  ASSUME NEW x \in Byte
  PROVE  x \div 16 \in 0..15 /\ x % 16 \in 0..15
BY DEF Byte

LEMMA XorTyped ==
  ASSUME NEW c \in Byte
  PROVE  Xor20(c) \in Byte
<1>1. c \in 0..255
  BY DEF Byte
<1>2. PICK q \in Nat : q = c \div 32
  BY <1>1
<1>3. q % 2 = 1 => q >= 1
  BY <1>2
<1>4. q >= 1 => c >= 32
  BY <1>1, <1>2
<1>5. q % 2 # 1 => q <= 6
  BY <1>1, <1>2
<1>6. q <= 6 => c <= 223
  BY <1>1, <1>2
<1> QED
  BY <1>1, <1>2, <1>3, <1>4, <1>5, <1>6 DEF Xor20, Byte

LEMMA DigitTyped ==
  ASSUME NEW s \in Byte, NEW c \in Byte
  PROVE  Digit(s, c) \in Byte
<1>1. FromHex(c) \in {-1} \cup 0..15
  BY DEF FromHex, Byte
<1>2. (s * 16) % 256 \in 0..240
  <2>1. s \in 0..255
    BY DEF Byte
  <2>2. (s * 16) % 256 = 16 * (s % 16)
    BY <2>1
  <2>3. s % 16 \in 0..15
    BY <2>1
  <2> QED
    BY <2>2, <2>3
<1>3. PICK m \in 0..240 : m = (s * 16) % 256
  BY <1>2
<1> QED
  BY <1>1, <1>3 DEF Digit, Byte

\* GDB frames a request that holds no '-' in bytes none of which is one.
LEMMA FramedSent ==
  ASSUME NothingRefused, NEW body \in Request
  PROVE  Framed(body) \in Seq(Sent)
<1> DEFINE part == [i \in 1..Len(body) |->
             IF body[i] \in {Dollar, Hash, Escape} THEN <<Escape, Xor20(body[i])>> ELSE <<body[i]>>]
<1>1. body \in Seq(Byte) /\ Len(body) \in Nat /\ \A i \in 1..Len(body) : body[i] \in Sent
  BY GDBLinkAssumption DEF Sent, NothingRefused
<1>2. ASSUME NEW i \in 1..Len(body)
      PROVE  part[i] \in Seq(Sent)
  <2>1. CASE body[i] \in {Dollar, Hash, Escape}
    <3>1. Xor20(body[i]) \in Sent
      BY <2>1 DEF Xor20, Dollar, Hash, Escape, Sent, Byte, Minus
    <3>2. <<Escape, Xor20(body[i])>> \in Seq(Sent)
      BY <3>1, SentBytes
    <3> QED
      BY <2>1, <3>2
  <2>2. CASE body[i] \notin {Dollar, Hash, Escape}
    <3>1. <<body[i]>> \in Seq(Sent)
      BY <1>1
    <3> QED
      BY <2>2, <3>1
  <2> QED
    BY <2>1, <2>2
<1>3. part \in Seq(Seq(Sent))
  BY <1>1, <1>2
<1>4. Escaped(body) \in Seq(Sent)
  BY <1>3, FlattenTyped DEF Escaped
<1> HIDE DEF part
<1>5. PICK text : text = Escaped(body)
  OBVIOUS
<1>6. PICK n \in Byte : n = Sum(text)
  BY <1>4, <1>5, SentBytes, SumIsByte
<1>7. ToHex(n \div 16) \in Sent /\ ToHex(n % 16) \in Sent
  BY Nibbles, HexDigits
<1>8. <<Hash, ToHex(n \div 16), ToHex(n % 16)>> \in Seq(Sent) /\ <<Dollar>> \in Seq(Sent)
  BY <1>7, SentBytes
<1>9. Framed(body) = <<Dollar>> \o text \o <<Hash, ToHex(n \div 16), ToHex(n % 16)>>
  BY <1>5, <1>6 DEF Framed
<1> QED
  BY <1>4, <1>5, <1>8, <1>9

LEMMA DamagedSent ==
  ASSUME NothingRefused, NEW packet \in Seq(Sent), NEW d \in Damaged(packet)
  PROVE  d \in Seq(Sent)
<1>1. CASE \E i \in 1..Len(packet) : d = RemoveAt(packet, i)
  <2>1. PICK i \in 1..Len(packet) : d = SubSeq(packet, 1, i - 1) \o SubSeq(packet, i + 1, Len(packet))
    BY <1>1 DEF RemoveAt
  <2>2. SubSeq(packet, 1, i - 1) \in Seq(Sent) /\ SubSeq(packet, i + 1, Len(packet)) \in Seq(Sent)
    OBVIOUS
  <2> QED
    BY <2>1, <2>2
<1>2. CASE \E i \in 1..Len(packet), c \in Wrong : d = ReplaceAt(packet, i, c)
  <2>1. PICK i \in 1..Len(packet), c \in Wrong : d = [packet EXCEPT ![i] = c]
    BY <1>2 DEF ReplaceAt
  <2>2. c \in Sent
    BY GDBLinkAssumption DEF Sent, NothingRefused
  <2> QED
    BY <2>1, <2>2
<1> QED
  BY <1>1, <1>2 DEF Damaged

\* What is on the line stays there, and what comes after it is no '-'.
Longer(t, u) == Len(t) <= Len(u) /\ \A i \in 1..Len(t) : u[i] = t[i]

LEMMA TransmitSent ==
  ASSUME NothingRefused, NEW body \in Request, toPico \in Seq(Sent), faults \in 0..Faults, Transmit(body)
  PROVE  toPico' \in Seq(Sent) /\ faults' \in 0..Faults /\ Longer(toPico, toPico')
<1>1. ASSUME NEW p \in Seq(Sent), toPico' = toPico \o p
      PROVE  toPico' \in Seq(Sent) /\ Longer(toPico, toPico')
  BY <1>1 DEF Longer
<1>2. CASE toPico' = toPico \o Framed(body) /\ UNCHANGED faults
  BY <1>1, <1>2, FramedSent
<1>3. CASE /\ faults < Faults /\ faults' = faults + 1
           /\ \E packet \in Damaged(Framed(body)) : toPico' = toPico \o packet
  <2>1. PICK packet \in Damaged(Framed(body)) : toPico' = toPico \o packet
    BY <1>3
  <2>2. packet \in Seq(Sent)
    BY FramedSent, DamagedSent
  <2>3. faults' \in 0..Faults
    BY <1>3, GDBLinkAssumption
  <2> QED
    BY <1>1, <2>1, <2>2, <2>3
<1> QED
  BY <1>2, <1>3 DEF Transmit

LEMMA AppendSent ==
  ASSUME toPico \in Seq(Sent), NEW c \in Sent, toPico' = Append(toPico, c)
  PROVE  /\ toPico' \in Seq(Sent) /\ Longer(toPico, toPico')
         /\ Len(toPico') \in 1..Len(toPico') /\ toPico'[Len(toPico')] = c
BY DEF Longer

\* A turn takes one byte off the line, or leaves it.
LEMMA ReceiveSent ==
  ASSUME toPico \in Seq(Sent), NEW c, Receive(c)
  PROVE  c \in Sent /\ c \in Byte /\ toPico' \in Seq(Sent)
<1>1. toPico # <<>> /\ c = Head(toPico) /\ toPico' = Tail(toPico)
  BY DEF Receive
<1> QED
  BY <1>1, HeadTailProperties DEF Sent

LEMMA OverlookSent ==
  ASSUME toPico \in Seq(Sent), Overlook
  PROVE  toPico' \in Seq(Sent)
BY DEF Overlook

-----------------------------------------------------------------------------
(* What is on its way to GDB *)

Kind == {"ack", "start", "body", "hash", "digit1", "digit2"}
Match(k, c) ==
  /\ k = "ack" => c \in {Plus, Minus}
  /\ k = "start" => c = Dollar
  /\ k = "hash" <=> c = Hash
After(k) ==
  IF k \in {"ack", "digit2"} THEN {"ack", "start"}
  ELSE IF k \in {"start", "body"} THEN {"body", "hash"}
  ELSE IF k = "hash" THEN {"digit1"} ELSE {"digit2"}

\* kinds names what each byte of the line is, from the beginning of a packet or an
\* acknowledgement on.
IsParse(line, kinds) ==
  /\ kinds \in [1..Len(line) -> Kind]
  /\ \A i \in 1..Len(line) : Match(kinds[i], line[i])
  /\ line # <<>> => kinds[1] \in {"ack", "start"}
  /\ \A i \in 1..(Len(line) - 1) : kinds[i + 1] \in After(kinds[i])

\* The line parses, and the last byte of it is of one of these kinds.
EndsIn(line, last) ==
  \E kinds : IsParse(line, kinds) /\ (line # <<>> => kinds[Len(line)] \in last)

LEMMA EmptyLine == ASSUME NEW last PROVE EndsIn(<<>>, last)
<1>1. [i \in 1..0 |-> "ack"] \in [1..0 -> Kind] /\ Len(<<>>) = 0
  BY DEF Kind
<1>2. IsParse(<<>>, [i \in 1..0 |-> "ack"])
  BY <1>1 DEF IsParse
<1> QED
  BY <1>2 DEF EndsIn

LEMMA EndsInMore ==
  ASSUME NEW line, NEW last, NEW more, EndsIn(line, last), last \subseteq more
  PROVE  EndsIn(line, more)
BY DEF EndsIn

LEMMA ParseGrows ==
  ASSUME NEW line \in Seq(Byte), NEW last, EndsIn(line, last), NEW c \in Byte,
         NEW k \in Kind, Match(k, c), k \in {"ack", "start"} \/ line # <<>>,
         \A l \in last : k \in After(l)
  PROVE  EndsIn(Append(line, c), {k}) /\ Append(line, c) # <<>>
         /\ Append(line, c)[Len(Append(line, c))] = c /\ Append(line, c) \in Seq(Byte)
<1>1. PICK kinds : IsParse(line, kinds) /\ (line # <<>> => kinds[Len(line)] \in last)
  BY DEF EndsIn
<1>2. PICK t, n : t = Append(line, c) /\ n = Len(line)
  OBVIOUS
<1>3. /\ n \in Nat /\ Len(t) = n + 1 /\ t[n + 1] = c /\ t # <<>> /\ t \in Seq(Byte)
      /\ \A i \in 1..n : t[i] = line[i]
      /\ line # <<>> <=> n # 0
  BY <1>2
<1> DEFINE grown == [i \in 1..(n + 1) |-> IF i = n + 1 THEN k ELSE kinds[i]]
<1>4. kinds \in [1..n -> Kind] /\ (\A i \in 1..n : Match(kinds[i], line[i]))
      /\ (n # 0 => kinds[1] \in {"ack", "start"})
      /\ \A i \in 1..(n - 1) : kinds[i + 1] \in After(kinds[i])
  BY <1>1, <1>2, <1>3 DEF IsParse
<1>5. grown \in [1..(n + 1) -> Kind] /\ grown[n + 1] = k /\ \A i \in 1..n : grown[i] = kinds[i]
  BY <1>3, <1>4
<1> HIDE DEF grown
<1>6. \A i \in 1..(n + 1) : Match(grown[i], t[i])
  <2> SUFFICES ASSUME NEW i \in 1..(n + 1) PROVE Match(grown[i], t[i])
    OBVIOUS
  <2>1. CASE i = n + 1
    BY <1>3, <1>5, <2>1
  <2>2. CASE i # n + 1
    <3>1. i \in 1..n
      BY <1>3, <2>2
    <3> QED
      BY <1>3, <1>4, <1>5, <3>1
  <2> QED
    BY <2>1, <2>2
<1>7. grown[1] \in {"ack", "start"}
  BY <1>3, <1>4, <1>5
<1>8. \A i \in 1..n : grown[i + 1] \in After(grown[i])
  <2> SUFFICES ASSUME NEW i \in 1..n PROVE grown[i + 1] \in After(grown[i])
    OBVIOUS
  <2>1. CASE i = n
    BY <1>1, <1>2, <1>3, <1>5, <2>1
  <2>2. CASE i # n
    <3>1. i \in 1..(n - 1) /\ i + 1 \in 1..n
      BY <1>3, <2>2
    <3> QED
      BY <1>4, <1>5, <3>1
  <2> QED
    BY <2>1, <2>2
<1>9. Len(t) - 1 = n
  BY <1>3
<1>10. IsParse(t, grown) /\ grown[Len(t)] \in {k}
  BY <1>3, <1>5, <1>6, <1>7, <1>8, <1>9 DEF IsParse
<1> QED
  BY <1>2, <1>3, <1>10 DEF EndsIn

\* The n-th byte of the line is the end of an acknowledgement or a packet, and what
\* is left when GDB has read as far as that.
OverAt(line, n, last) ==
  \E kinds : /\ n \in 1..Len(line) /\ IsParse(line, kinds)
            /\ kinds[Len(line)] \in last /\ kinds[n] \in {"ack", "digit2"}
LeftOf(line, n, last, rest) ==
  /\ EndsIn(rest, last) /\ rest \in Seq(Byte)
  /\ rest = <<>> => n = Len(line)
  /\ rest # <<>> => rest[Len(rest)] = line[Len(line)]

LEMMA ParseShrinks ==
  ASSUME NEW line \in Seq(Byte), NEW n, NEW last, OverAt(line, n, last)
  PROVE  LeftOf(line, n, last, SubSeq(line, n + 1, Len(line)))
<1>0. PICK kinds : /\ n \in 1..Len(line) /\ IsParse(line, kinds)
                   /\ kinds[Len(line)] \in last /\ kinds[n] \in {"ack", "digit2"}
  BY DEF OverAt
<1> DEFINE rest == SubSeq(line, n + 1, Len(line))
<1>1. PICK N : N = Len(line) - n
  OBVIOUS
<1>2. /\ N \in Nat /\ n \in Nat /\ rest \in Seq(Byte) /\ Len(rest) = N /\ N + n = Len(line)
      /\ \A i \in 1..N : rest[i] = line[i + n]
      /\ (rest = <<>> <=> N = 0)
  <2>1. n \in Nat /\ Len(line) \in Nat /\ N \in Nat /\ N + n = Len(line) /\ n + 1 \in 1..(Len(line) + 1)
    BY <1>0, <1>1
  <2>2. rest \in Seq(Byte) /\ Len(rest) = N
    BY <1>1, <2>1
  <2>3. \A i \in 1..N : rest[i] = line[i + n]
    BY <1>1, <2>1
  <2>4. rest = <<>> <=> N = 0
    BY <2>2, EmptySeq
  <2> QED
    BY <2>1, <2>2, <2>3, <2>4
<1> DEFINE later == [i \in 1..N |-> kinds[i + n]]
<1>3. \A i \in 1..N : i + n \in 1..Len(line) /\ (i # N => i + n \in 1..(Len(line) - 1))
  BY <1>2
<1>4. kinds \in [1..Len(line) -> Kind] /\ (\A i \in 1..Len(line) : Match(kinds[i], line[i]))
      /\ \A i \in 1..(Len(line) - 1) : kinds[i + 1] \in After(kinds[i])
  BY <1>0 DEF IsParse
<1>5. later \in [1..N -> Kind] /\ \A i \in 1..N : later[i] = kinds[i + n]
  BY <1>3, <1>4
<1> HIDE DEF later, rest
<1>6. \A i \in 1..N : Match(later[i], rest[i])
  BY <1>2, <1>3, <1>4, <1>5
<1>7. N # 0 => later[1] \in {"ack", "start"}
  <2> SUFFICES ASSUME N # 0 PROVE later[1] \in {"ack", "start"}
    OBVIOUS
  <2>1. 1 \in 1..N /\ n \in 1..(Len(line) - 1) /\ 1 + n = n + 1
    BY <1>0, <1>2
  <2>2. kinds[n + 1] \in After(kinds[n])
    BY <1>4, <2>1
  <2> QED
    BY <1>0, <1>5, <2>1, <2>2 DEF After
<1>8. \A i \in 1..(N - 1) : later[i + 1] \in After(later[i])
  <2> SUFFICES ASSUME NEW i \in 1..(N - 1) PROVE later[i + 1] \in After(later[i])
    OBVIOUS
  <2>1. i \in 1..N /\ i + 1 \in 1..N /\ i + n \in 1..(Len(line) - 1) /\ i + 1 + n = i + n + 1
    BY <1>2
  <2> QED
    BY <1>4, <1>5, <2>1
<1>9. N # 0 => later[N] \in last /\ rest[N] = line[Len(line)]
  <2>1. N # 0 => N \in 1..N
    BY <1>2
  <2> QED
    BY <1>0, <1>2, <1>5, <2>1
<1>10. IsParse(rest, later)
  BY <1>2, <1>5, <1>6, <1>7, <1>8 DEF IsParse
<1>11. rest # <<>> => later[Len(rest)] \in last /\ rest[Len(rest)] = line[Len(line)]
  BY <1>2, <1>9
<1>12. EndsIn(rest, last)
  BY <1>10, <1>11 DEF EndsIn
<1>13. rest \in Seq(Byte) /\ (rest = <<>> => n = Len(line))
  BY <1>2
<1> QED
  BY <1>11, <1>12, <1>13 DEF LeftOf, rest

\* Where GDB looks, it finds an acknowledgement or the beginning of a packet.
LEMMA ParseHead ==
  ASSUME NEW line \in Seq(Byte), NEW kinds, IsParse(line, kinds), line # <<>>
  PROVE  /\ 1 \in 1..Len(line) /\ Head(line) = line[1] /\ Tail(line) = SubSeq(line, 2, Len(line))
         /\ line[1] \in {Plus, Minus, Dollar}
         /\ kinds[1] = IF line[1] = Dollar THEN "start" ELSE "ack"
<1>1. 1 \in 1..Len(line) /\ Head(line) = line[1] /\ Tail(line) = SubSeq(line, 2, Len(line))
  OBVIOUS
<1>2. Match(kinds[1], line[1]) /\ kinds[1] \in {"ack", "start"}
  BY <1>1 DEF IsParse
<1> QED
  BY <1>1, <1>2 DEF Match, Plus, Minus, Dollar

\* The first '#' after the beginning of a packet is its end.
LEMMA ParseReply ==
  ASSUME NEW line \in Seq(Byte), NEW kinds, IsParse(line, kinds), NEW n \in 4..Len(line),
         line[1] = Dollar, line[n - 2] = Hash, \A i \in 1..(n - 3) : line[i] # Hash
  PROVE  kinds[n] = "digit2"
<1> DEFINE Other == {i \in 1..(n - 3) : kinds[i] \notin {"start", "body"}}
<1>1. /\ kinds \in [1..Len(line) -> Kind] /\ (\A i \in 1..Len(line) : Match(kinds[i], line[i]))
      /\ \A i \in 1..(Len(line) - 1) : kinds[i + 1] \in After(kinds[i])
  BY DEF IsParse
<1>2. Len(line) \in Nat /\ n \in Nat /\ line # <<>> /\ n >= 4 /\ n <= Len(line)
  OBVIOUS
<1>3. kinds[1] = "start"
  BY <1>2, ParseHead
<1>4. Other = {}
  <2> SUFFICES ASSUME Other # {} PROVE FALSE
    OBVIOUS
  <2>1. PICK m \in Other : \A k \in Other : m <= k
    <3>1. Other \in SUBSET Nat
      BY <1>2
    <3> HIDE DEF Other
    <3> QED
      BY <3>1, LeastNumber
  <2>2. m \in 1..(n - 3) /\ kinds[m] \notin {"start", "body"} /\ m # 1
    BY <1>3
  <2>3. /\ m - 1 \in 1..(n - 3) /\ m - 1 \in 1..(Len(line) - 1) /\ m - 1 + 1 = m
        /\ m \in 1..Len(line) /\ ~(m <= m - 1)
    BY <1>2, <2>2
  <2>4. m - 1 \notin Other
    BY <2>1, <2>3
  <2>5. kinds[m - 1] \in {"start", "body"}
    BY <2>3, <2>4
  <2>6. kinds[m] \in {"body", "hash"}
    BY <1>1, <2>3, <2>5 DEF After
  <2>7. kinds[m] # "hash"
    BY <1>1, <2>2, <2>3 DEF Match
  <2> QED
    BY <2>2, <2>6, <2>7
<1>5. n - 2 \in 1..Len(line) /\ n - 2 \in 1..(Len(line) - 1) /\ n - 1 \in 1..(Len(line) - 1)
      /\ n - 2 + 1 = n - 1 /\ n - 1 + 1 = n
  BY <1>2
<1>6. kinds[n - 2] = "hash"
  BY <1>1, <1>5 DEF Match
<1>7. kinds[n - 1] = "digit1"
  BY <1>1, <1>5, <1>6 DEF After
<1> QED
  BY <1>1, <1>5, <1>7 DEF After

-----------------------------------------------------------------------------
(* The inductive invariant *)

Replying == {"SEND_PACKET", "SEND_SUFFIX1", "SEND_SUFFIX2", "SEND_SUFFIX3"}
Taken == {"SEND_PREFIX", "RUNNING", "KILLED"}

\* What the last byte that the machine has put on the line can be.
LastOf(s) ==
  IF s \in {"SEND_PACKET", "SEND_SUFFIX1"} THEN {"start", "body"}
  ELSE IF s = "SEND_SUFFIX2" THEN {"hash"}
  ELSE IF s = "SEND_SUFFIX3" THEN {"digit1"}
  ELSE IF s = "RECV_ACK" THEN {"digit2"}
  ELSE IF s \in Taken THEN {"ack"} ELSE {"ack", "digit2"}

\* A packet that was taken has its '+' on the line, or GDB has read it and waits; a
\* reply that is out is on the line, or GDB's '+' for it is on the way.
Line ==
  IF host = "closed" THEN toHost = <<>>
  ELSE /\ EndsIn(toHost, LastOf(state))
       /\ state \in Replying => toHost # <<>>
       /\ state \in Taken => IF toHost = <<>> THEN host = "acked" ELSE toHost[Len(toHost)] = Plus
       /\ state = "RECV_ACK" => toHost # <<>> \/ \E i \in 1..Len(toPico) : toPico[i] = Plus

IInv ==
  /\ TypeOK /\ toPico \in Seq(Sent) /\ Line
  /\ state = "SEND_PACKET" => cursor < Len(send)

LEMMA Typed ==
  ASSUME IInv
  PROVE  /\ toPico \in Seq(Sent) /\ recv \in Seq(Byte) /\ checksum \in Byte
         /\ expected_checksum \in Byte /\ toHost \in Seq(Byte) /\ handled \in Seq(Seq(Byte))
         /\ faults \in 0..Faults /\ request \in Request /\ 0 \in Byte
BY DEF IInv, TypeOK, Byte

\* The replies are bytes, none of which is a '#'.
LEMMA ReplyTyped ==
  ASSUME TypeOK
  PROVE  /\ send \in Seq(Byte) /\ Len(send) \in Nat /\ cursor \in Nat
         /\ \A i \in 1..Len(send) : send[i] \in Byte /\ send[i] # Hash
<1>1. send \in {AnswerOf[r] : r \in Request} \cup {Stopped, <<>>} /\ cursor \in 0..Len(send)
  BY DEF TypeOK
<1>2. \A r \in Request : AnswerOf[r] \in Seq(Byte)
  BY GDBLinkAssumption
<1>3. send \in Seq(Byte)
  <2>1. CASE \E r \in Request : send = AnswerOf[r]
    BY <1>2, <2>1
  <2>2. CASE send = Stopped
    BY <2>2, GDBLinkAssumption
  <2>3. CASE send = <<>>
    BY <2>3
  <2> QED
    BY <1>1, <2>1, <2>2, <2>3
<1>4. \A i \in 1..Len(send) : send[i] # Hash
  BY <1>1, RepliesArePlain
<1> QED
  BY <1>1, <1>3, <1>4

\* A step that puts nothing on the line and leaves the machine listening.
LEMMA QuietLine ==
  ASSUME Line, UNCHANGED <<toHost, host>>, LastOf(state) \subseteq LastOf(state'),
         state' \notin Replying \cup Taken \cup {"RECV_ACK"}
  PROVE  Line'
BY EndsInMore DEF Line

LEMMA ConnectKeeps ==
  ASSUME IInv, Connect
  PROVE  IInv'
<1>1. /\ state = "DISCONNECTED" /\ state' = "IDLE"
      /\ UNCHANGED <<recv, checksum, expected_checksum, send, cursor, handled, toPico, toHost, hostVars>>
  BY DEF Connect
<1>2. TypeOK'
  BY <1>1 DEF IInv, TypeOK, State, hostVars
<1>3. Line'
  BY <1>1, QuietLine DEF IInv, LastOf, Replying, Taken, hostVars
<1> QED
  BY <1>1, <1>2, <1>3 DEF IInv

LEMMA DisconnectedKeeps ==
  ASSUME IInv, Disconnected
  PROVE  IInv'
<1>1. /\ ~Connected /\ state' = "DISCONNECTED" /\ Overlook /\ recv' = <<>>
      /\ expected_checksum' = 0 /\ send' = <<>> /\ checksum' = 0 /\ cursor' = 0
      /\ UNCHANGED <<handled, toHost, hostVars>>
  BY DEF Disconnected, Forget
<1>2. toPico' \in Seq(Sent)
  BY <1>1, Typed, OverlookSent
<1>3. <<>> \in Seq(Byte) /\ 0 \in 0..Len(<<>>) /\ toPico' \in Seq(Byte)
  BY <1>2, SentBytes
<1>4. TypeOK'
  BY <1>1, <1>3, Typed DEF IInv, TypeOK, State, hostVars
<1>5. Line'
  BY <1>1 DEF IInv, Line, Connected, hostVars
<1> QED
  BY <1>1, <1>2, <1>4, <1>5 DEF IInv

\* The four states that take a packet in.
LEMMA IdleKeeps ==
  ASSUME IInv, Idle
  PROVE  IInv'
<1>1. PICK c \in Byte :
        /\ Receive(c) /\ state \in {"DISCONNECTED", "IDLE"} /\ state' \in {"RECV_PACKET", "IDLE"}
        /\ recv' \in {<<>>, recv} /\ checksum' \in {0, checksum}
        /\ UNCHANGED <<expected_checksum, send, cursor, handled, toHost, hostVars>>
  BY DEF Idle, Current
<1>2. toPico' \in Seq(Sent) /\ toPico' \in Seq(Byte)
  BY <1>1, Typed, ReceiveSent, SentBytes
<1>3. <<>> \in Seq(Byte)
  OBVIOUS
<1>4. TypeOK'
  BY <1>1, <1>2, <1>3, Typed DEF IInv, TypeOK, State, hostVars
<1>5. Line'
  BY <1>1, QuietLine DEF IInv, LastOf, Replying, Taken, hostVars
<1> QED
  BY <1>1, <1>2, <1>4, <1>5 DEF IInv

LEMMA RecvPacketKeeps ==
  ASSUME IInv, RecvPacket
  PROVE  IInv'
<1>1. PICK c \in Byte :
        /\ Receive(c) /\ state = "RECV_PACKET"
        /\ state' \in {"RECV_SUFFIX1", "RECV_PACKET_ESCAPE", "RECV_PACKET"}
        /\ expected_checksum' \in {0, expected_checksum}
        /\ checksum' \in {checksum, (checksum + c) % 256} /\ recv' \in {recv, Append(recv, c)}
        /\ UNCHANGED <<send, cursor, handled, toHost, hostVars>>
  BY DEF RecvPacket
<1>2. toPico' \in Seq(Sent) /\ toPico' \in Seq(Byte)
  BY <1>1, Typed, ReceiveSent, SentBytes
<1>3. (checksum + c) % 256 \in Byte /\ Append(recv, c) \in Seq(Byte)
  BY <1>1, Typed, ByteSum
<1>4. TypeOK'
  BY <1>1, <1>2, <1>3, Typed DEF IInv, TypeOK, State, hostVars
<1>5. Line'
  BY <1>1, QuietLine DEF IInv, LastOf, Replying, Taken, hostVars
<1> QED
  BY <1>1, <1>2, <1>4, <1>5 DEF IInv

LEMMA RecvPacketEscapeKeeps ==
  ASSUME IInv, RecvPacketEscape
  PROVE  IInv'
<1>1. PICK c \in Byte :
        /\ Receive(c) /\ state = "RECV_PACKET_ESCAPE" /\ state' = "RECV_PACKET"
        /\ checksum' = (checksum + c) % 256 /\ recv' = Append(recv, Xor20(c))
        /\ UNCHANGED <<expected_checksum, send, cursor, handled, toHost, hostVars>>
  BY DEF RecvPacketEscape
<1>2. toPico' \in Seq(Sent) /\ toPico' \in Seq(Byte)
  BY <1>1, Typed, ReceiveSent, SentBytes
<1>3. (checksum + c) % 256 \in Byte /\ Append(recv, Xor20(c)) \in Seq(Byte)
  BY <1>1, Typed, ByteSum, XorTyped
<1>4. TypeOK'
  BY <1>1, <1>2, <1>3 DEF IInv, TypeOK, State, hostVars
<1>5. Line'
  BY <1>1, QuietLine DEF IInv, LastOf, Replying, Taken, hostVars
<1> QED
  BY <1>1, <1>2, <1>4, <1>5 DEF IInv

LEMMA RecvSuffix1Keeps ==
  ASSUME IInv, RecvSuffix1
  PROVE  IInv'
<1>1. PICK c \in Byte :
        /\ Receive(c) /\ state = "RECV_SUFFIX1" /\ state' = "RECV_SUFFIX2"
        /\ expected_checksum' = Digit(expected_checksum, c)
        /\ UNCHANGED <<recv, checksum, send, cursor, handled, toHost, hostVars>>
  BY DEF RecvSuffix1
<1>2. toPico' \in Seq(Sent) /\ toPico' \in Seq(Byte)
  BY <1>1, Typed, ReceiveSent, SentBytes
<1>3. expected_checksum' \in Byte
  BY <1>1, Typed, DigitTyped
<1>4. TypeOK'
  BY <1>1, <1>2, <1>3 DEF IInv, TypeOK, State, hostVars
<1>5. Line'
  BY <1>1, QuietLine DEF IInv, LastOf, Replying, Taken, hostVars
<1> QED
  BY <1>1, <1>2, <1>4, <1>5 DEF IInv

\* What handle_packet leaves to be sent.
LEMMA HandlePacketTyped ==
  ASSUME IInv, handle_packet
  PROVE  /\ handled' \in Seq(Seq(Byte)) /\ state' \in Taken /\ cursor' = 0
         /\ send' \in {AnswerOf[r] : r \in Request} \cup {Stopped, <<>>}
<1>1. /\ handled' = Append(handled, recv) /\ cursor' = 0
      /\ state' \in Taken
      /\ send' \in {AnswerOf[r] : r \in Request} \cup {Stopped, <<>>}
  BY DEF handle_packet, Taken
<1> QED
  BY <1>1, Typed

LEMMA RecvSuffix2Keeps ==
  ASSUME IInv, RecvSuffix2
  PROVE  IInv'
<1>1. PICK c \in Byte :
        /\ Receive(c) /\ state = "RECV_SUFFIX2" /\ host # "closed"
        /\ \/ Put(Plus) /\ handle_packet
           \/ Put(Minus) /\ state' = "IDLE" /\ UNCHANGED <<send, cursor, handled>>
        /\ recv' = <<>> /\ expected_checksum' = 0 /\ checksum' = 0
        /\ UNCHANGED hostVars
  BY DEF RecvSuffix2, Connected, Forget
<1>2. toPico' \in Seq(Sent) /\ toPico' \in Seq(Byte)
  BY <1>1, Typed, ReceiveSent, SentBytes
<1>3. <<>> \in Seq(Byte) /\ Plus \in Byte /\ Minus \in Byte /\ "ack" \in Kind
  BY SentBytes DEF Sent, Kind
<1>4. Match("ack", Plus) /\ Match("ack", Minus) /\ \A l \in {"ack", "digit2"} : "ack" \in After(l)
  BY DEF Match, Plus, Minus, Hash, After
<1>5. EndsIn(toHost, {"ack", "digit2"})
  BY <1>1 DEF IInv, Line, LastOf, Taken
<1>6. PICK d \in {Plus, Minus} :
        /\ toHost' = Append(toHost, d)
        /\ \/ d = Plus /\ handle_packet
           \/ state' = "IDLE" /\ UNCHANGED <<send, cursor, handled>>
  BY <1>1 DEF Put
<1>7. Match("ack", d) /\ d \in Byte
  BY <1>3, <1>4
<1>8. /\ EndsIn(toHost', {"ack"}) /\ toHost' # <<>> /\ toHost'[Len(toHost')] = d
      /\ toHost' \in Seq(Byte)
  <2>1. toHost \in Seq(Byte)
    BY Typed
  <2>2. /\ EndsIn(Append(toHost, d), {"ack"}) /\ Append(toHost, d) # <<>>
        /\ Append(toHost, d)[Len(Append(toHost, d))] = d /\ Append(toHost, d) \in Seq(Byte)
    BY <1>3, <1>4, <1>5, <1>7, <2>1, ParseGrows
  <2> QED
    BY <1>6, <2>2
<1>9. CASE d = Plus /\ handle_packet
  <2>1. /\ handled' \in Seq(Seq(Byte)) /\ state' \in Taken /\ cursor' = 0
        /\ send' \in {AnswerOf[r] : r \in Request} \cup {Stopped, <<>>}
    BY <1>9, HandlePacketTyped
  <2>2. cursor' \in 0..Len(send') /\ state' \in State
    <3>1. send' \in Seq(Byte)
      BY <2>1, <1>3, GDBLinkAssumption
    <3> QED
      BY <2>1, <3>1 DEF Taken, State
  <2>3. TypeOK'
    BY <1>1, <1>2, <1>3, <1>8, <2>1, <2>2, Typed DEF IInv, TypeOK, hostVars
  <2>4. Line'
    BY <1>1, <1>8, <1>9, <2>1 DEF Line, LastOf, Taken, Replying, hostVars
  <2> QED
    BY <1>2, <2>1, <2>3, <2>4 DEF IInv, Taken
<1>10. CASE state' = "IDLE" /\ UNCHANGED <<send, cursor, handled>>
  <2>1. TypeOK'
    BY <1>1, <1>2, <1>3, <1>8, <1>10, Typed DEF IInv, TypeOK, State, hostVars
  <2>2. EndsIn(toHost', LastOf(state'))
    BY <1>8, <1>10, EndsInMore DEF LastOf, Taken
  <2>3. Line'
    BY <1>1, <1>10, <2>2 DEF Line, Taken, Replying, hostVars
  <2> QED
    BY <1>2, <1>10, <2>1, <2>3 DEF IInv
<1> QED
  BY <1>6, <1>9, <1>10

\* A byte of the reply, after what there is of it.
LEMMA PutLine ==
  ASSUME IInv, host # "closed", UNCHANGED host, NEW c \in Byte, Put(c), NEW k \in Kind, Match(k, c),
         \A l \in LastOf(state) : k \in After(l),
         k = "start" \/ state \in Replying,
         LastOf(state') \in {{k}, {"start", "body"}}, k \in LastOf(state'),
         state' \in Replying \cup {"RECV_ACK"}
  PROVE  Line' /\ toHost' \in Seq(Byte)
<1>1. EndsIn(toHost, LastOf(state)) /\ (state \in Replying => toHost # <<>>) /\ toHost \in Seq(Byte)
  BY Typed DEF IInv, Line
<1>2. /\ EndsIn(toHost', {k}) /\ toHost' # <<>> /\ toHost' \in Seq(Byte)
  BY <1>1, ParseGrows DEF Put
<1>3. EndsIn(toHost', LastOf(state'))
  BY <1>2, EndsInMore
<1> QED
  BY <1>2, <1>3 DEF Line, Replying, Taken

LEMMA SendPrefixKeeps ==
  ASSUME IInv, SendPrefix
  PROVE  IInv'
<1>1. /\ host # "closed" /\ state = "SEND_PREFIX" /\ Overlook /\ Put(Dollar)
      /\ checksum' = 0 /\ cursor' = 0
      /\ state' = IF send = <<>> THEN "SEND_SUFFIX1" ELSE "SEND_PACKET"
      /\ UNCHANGED <<recv, expected_checksum, send, handled, hostVars>>
  BY DEF SendPrefix, Connected
<1>2. toPico' \in Seq(Sent) /\ toPico' \in Seq(Byte)
  BY <1>1, Typed, OverlookSent, SentBytes
<1>3. Dollar \in Byte /\ "start" \in Kind /\ Match("start", Dollar)
  BY SentBytes DEF Sent, Kind, Match, Dollar, Hash
<1>4. Line' /\ toHost' \in Seq(Byte)
  <2>1. LastOf(state) = {"ack"} /\ "start" \in After("ack") /\ LastOf(state') = {"start", "body"}
    BY <1>1 DEF LastOf, Taken, After
  <2>2. state' \in Replying \cup {"RECV_ACK"}
    BY <1>1 DEF Replying
  <2>3. UNCHANGED host
    BY <1>1 DEF hostVars
  <2> QED
    BY <1>1, <1>3, <2>1, <2>2, <2>3, PutLine
<1>5. TypeOK
  BY DEF IInv
<1>6. Len(send) \in Nat /\ (state' = "SEND_PACKET" => Len(send) # 0)
  BY <1>1, <1>5, ReplyTyped, EmptySeq
<1>7. TypeOK'
  BY <1>1, <1>2, <1>4, <1>5, <1>6, Typed DEF TypeOK, State, hostVars
<1> QED
  BY <1>1, <1>2, <1>4, <1>6, <1>7 DEF IInv

LEMMA SendPacketKeeps ==
  ASSUME IInv, SendPacket
  PROVE  IInv'
<1>1. TypeOK /\ state = "SEND_PACKET" /\ cursor < Len(send)
  BY DEF IInv, SendPacket
<1>2. cursor + 1 \in 1..Len(send) /\ cursor \in Nat /\ Len(send) \in Nat
  BY <1>1, ReplyTyped
<1>3. PICK c \in Byte : c = send[cursor + 1] /\ c # Hash
  BY <1>1, <1>2, ReplyTyped
<1>4. /\ host # "closed" /\ Overlook /\ Put(c) /\ checksum' = (checksum + c) % 256
      /\ cursor' = cursor + 1
      /\ state' = IF cursor' = Len(send) THEN "SEND_SUFFIX1" ELSE "SEND_PACKET"
      /\ UNCHANGED <<recv, expected_checksum, send, handled, hostVars>>
  BY <1>1, <1>3 DEF SendPacket, Connected
<1>5. toPico' \in Seq(Sent) /\ toPico' \in Seq(Byte)
  BY <1>4, Typed, OverlookSent, SentBytes
<1>6. Line' /\ toHost' \in Seq(Byte)
  <2>1. Match("body", c) /\ "body" \in Kind /\ \A l \in {"start", "body"} : "body" \in After(l)
    BY <1>3 DEF Match, Kind, After
  <2>2. LastOf(state) = {"start", "body"} /\ LastOf(state') = {"start", "body"}
    BY <1>1, <1>4 DEF LastOf
  <2>3. state' \in Replying \cup {"RECV_ACK"} /\ state \in Replying /\ UNCHANGED host
    BY <1>1, <1>4 DEF Replying, hostVars
  <2> QED
    BY <1>4, <2>1, <2>2, <2>3, PutLine
<1>7. checksum' \in Byte
  BY <1>4, Typed, ByteSum
<1>8. cursor' \in 0..Len(send) /\ (state' = "SEND_PACKET" => cursor' < Len(send))
  BY <1>2, <1>4
<1>9. TypeOK'
  BY <1>1, <1>4, <1>5, <1>6, <1>7, <1>8, Typed DEF TypeOK, State, hostVars
<1> QED
  BY <1>4, <1>5, <1>6, <1>8, <1>9 DEF IInv

LEMMA SendStepKeeps ==
  ASSUME IInv, NEW from, NEW c \in Byte, NEW to \in State, SendStep(from, c, to),
         NEW k \in Kind, Match(k, c), \A l \in LastOf(from) : k \in After(l),
         from \in Replying, to \in Replying \cup {"RECV_ACK"}, to # "SEND_PACKET", LastOf(to) = {k}
  PROVE  IInv'
<1>1. /\ host # "closed" /\ state = from /\ Overlook /\ Put(c) /\ state' = to
      /\ UNCHANGED <<recv, checksum, expected_checksum, send, cursor, handled, hostVars>>
  BY DEF SendStep, Connected
<1>2. toPico' \in Seq(Sent) /\ toPico' \in Seq(Byte)
  BY <1>1, Typed, OverlookSent, SentBytes
<1>3. Line' /\ toHost' \in Seq(Byte)
  <2>1. UNCHANGED host
    BY <1>1 DEF hostVars
  <2> QED
    BY <1>1, <2>1, PutLine
<1>4. TypeOK'
  BY <1>1, <1>2, <1>3 DEF IInv, TypeOK, hostVars
<1> QED
  BY <1>1, <1>2, <1>3, <1>4 DEF IInv

LEMMA SendSuffix1Keeps ==
  ASSUME IInv, SendSuffix1
  PROVE  IInv'
<1>1. SendStep("SEND_SUFFIX1", Hash, "SEND_SUFFIX2") /\ Hash \in Byte
  BY SentBytes DEF SendSuffix1, Sent
<1>2. Match("hash", Hash) /\ "hash" \in Kind /\ "SEND_SUFFIX2" \in State
  BY DEF Match, Kind, State
<1>3. /\ \A l \in LastOf("SEND_SUFFIX1") : "hash" \in After(l)
      /\ LastOf("SEND_SUFFIX2") = {"hash"}
      /\ "SEND_SUFFIX1" \in Replying /\ "SEND_SUFFIX2" \in Replying \cup {"RECV_ACK"}
      /\ "SEND_SUFFIX2" # "SEND_PACKET"
  BY DEF LastOf, After, Replying
<1> QED
  BY <1>1, <1>2, <1>3, SendStepKeeps

LEMMA SendSuffix2Keeps ==
  ASSUME IInv, SendSuffix2
  PROVE  IInv'
<1>1. PICK c : c = ToHex(checksum \div 16) /\ c \in Byte /\ c # Hash
  <2>1. PICK x \in 0..15 : x = checksum \div 16
    BY Typed, Nibbles
  <2>2. ToHex(x) \in Byte /\ ToHex(x) # Hash
    BY HexDigits DEF Sent
  <2> QED
    BY <2>1, <2>2
<1>2. SendStep("SEND_SUFFIX2", c, "SEND_SUFFIX3")
  BY <1>1 DEF SendSuffix2
<1>3. Match("digit1", c) /\ "digit1" \in Kind /\ "SEND_SUFFIX3" \in State
  BY <1>1 DEF Match, Kind, State
<1>4. /\ \A l \in LastOf("SEND_SUFFIX2") : "digit1" \in After(l)
      /\ LastOf("SEND_SUFFIX3") = {"digit1"}
      /\ "SEND_SUFFIX2" \in Replying /\ "SEND_SUFFIX3" \in Replying \cup {"RECV_ACK"}
      /\ "SEND_SUFFIX3" # "SEND_PACKET"
  BY DEF LastOf, After, Replying
<1> QED
  BY <1>1, <1>2, <1>3, <1>4, SendStepKeeps

LEMMA SendSuffix3Keeps ==
  ASSUME IInv, SendSuffix3
  PROVE  IInv'
<1>1. PICK c : c = ToHex(checksum % 16) /\ c \in Byte /\ c # Hash
  <2>1. PICK x \in 0..15 : x = checksum % 16
    BY Typed, Nibbles
  <2>2. ToHex(x) \in Byte /\ ToHex(x) # Hash
    BY HexDigits DEF Sent
  <2> QED
    BY <2>1, <2>2
<1>2. SendStep("SEND_SUFFIX3", c, "RECV_ACK")
  BY <1>1 DEF SendSuffix3
<1>3. Match("digit2", c) /\ "digit2" \in Kind /\ "RECV_ACK" \in State
  BY <1>1 DEF Match, Kind, State
<1>4. /\ \A l \in LastOf("SEND_SUFFIX3") : "digit2" \in After(l)
      /\ LastOf("RECV_ACK") = {"digit2"}
      /\ "SEND_SUFFIX3" \in Replying /\ "RECV_ACK" \in Replying \cup {"RECV_ACK"}
      /\ "RECV_ACK" # "SEND_PACKET"
  BY DEF LastOf, After, Replying
<1> QED
  BY <1>1, <1>2, <1>3, <1>4, SendStepKeeps

LEMMA RecvAckKeeps ==
  ASSUME IInv, RecvAck
  PROVE  IInv'
<1>1. PICK c \in Byte :
        /\ Receive(c) /\ host # "closed" /\ state = "RECV_ACK"
        /\ state' = IF c = Plus THEN "IDLE" ELSE IF c = Minus THEN "SEND_PACKET" ELSE "RECV_ACK"
        /\ \/ c = Plus /\ send' = <<>> /\ checksum' = 0 /\ cursor' = 0
           \/ UNCHANGED <<send, checksum, cursor>>
        /\ UNCHANGED <<recv, expected_checksum, handled, toHost, hostVars>>
  BY DEF RecvAck, Connected, Forget
<1>2. c \in Sent /\ toPico' \in Seq(Sent) /\ toPico' \in Seq(Byte)
  BY <1>1, Typed, ReceiveSent, SentBytes
<1>3. state' = IF c = Plus THEN "IDLE" ELSE "RECV_ACK"
  BY <1>1, <1>2 DEF Sent
<1>4. TypeOK
  BY DEF IInv
<1>5. TypeOK'
  <2>1. CASE c = Plus /\ send' = <<>> /\ checksum' = 0 /\ cursor' = 0
    <3>1. cursor' \in 0..Len(send')
      BY <2>1
    <3> QED
      BY <1>1, <1>2, <1>3, <1>4, <2>1, <3>1, Typed DEF TypeOK, State, hostVars
  <2>2. CASE UNCHANGED <<send, checksum, cursor>>
    BY <1>1, <1>2, <1>3, <1>4, <2>2 DEF TypeOK, State, hostVars
  <2> QED
    BY <1>1, <2>1, <2>2
<1>6. Line'
  <2>1. CASE c = Plus
    BY <1>1, <1>3, <2>1, QuietLine DEF IInv, LastOf, Replying, Taken, hostVars
  <2>2. CASE c # Plus
    <3>1. state' = state /\ UNCHANGED <<toHost, host>>
      BY <1>1, <1>3, <2>2 DEF hostVars
    <3>2. ASSUME NEW i \in 1..Len(toPico), toPico[i] = Plus
          PROVE  \E j \in 1..Len(toPico') : toPico'[j] = Plus
      <4>1. toPico # <<>> /\ c = toPico[1] /\ toPico' = Tail(toPico) /\ toPico \in Seq(Sent)
        BY <1>1, Typed DEF Receive
      <4>2. Len(toPico') = Len(toPico) - 1 /\ \A j \in 1..Len(toPico') : toPico'[j] = toPico[j + 1]
        BY <4>1, HeadTailProperties
      <4>3. i # 1 /\ Len(toPico) \in Nat
        BY <2>2, <3>2, <4>1
      <4>4. i - 1 \in 1..Len(toPico') /\ i - 1 + 1 = i
        BY <4>2, <4>3
      <4> QED
        BY <3>2, <4>2, <4>4
    <3> QED
      BY <1>1, <3>1, <3>2 DEF IInv, Line, Replying, Taken
  <2> QED
    BY <2>1, <2>2
<1> QED
  BY <1>2, <1>3, <1>5, <1>6 DEF IInv

\* A stop report takes the place of the reply.
LEMMA StopKeeps ==
  ASSUME IInv, state = "RUNNING", toPico' \in Seq(Sent), ReportStop \/ UNCHANGED <<state, send, cursor>>,
         UNCHANGED <<recv, checksum, expected_checksum, handled, toHost, hostVars>>
  PROVE  IInv'
<1>1. toPico' \in Seq(Byte)
  BY SentBytes
<1>2. /\ state' \in {"RUNNING", "SEND_PREFIX"}
      /\ (send' = Stopped /\ cursor' = 0) \/ UNCHANGED <<send, cursor>>
  BY DEF ReportStop
<1>3. Len(Stopped) \in Nat
  BY GDBLinkAssumption
<1>4. TypeOK'
  BY <1>1, <1>2, <1>3 DEF IInv, TypeOK, State, hostVars
<1>5. Line'
  BY <1>2 DEF IInv, Line, LastOf, Replying, Taken, hostVars
<1> QED
  BY <1>2, <1>4, <1>5 DEF IInv

LEMMA RunningByteKeeps ==
  ASSUME IInv, RunningByte
  PROVE  IInv'
<1>1. PICK c \in Byte :
        /\ Receive(c) /\ state = "RUNNING" /\ (ReportStop \/ UNCHANGED <<state, send, cursor>>)
        /\ UNCHANGED <<recv, checksum, expected_checksum, handled, toHost, hostVars>>
  BY DEF RunningByte
<1>2. toPico' \in Seq(Sent)
  BY <1>1, Typed, ReceiveSent
<1> QED
  BY <1>1, <1>2, StopKeeps

LEMMA RunningPollKeeps ==
  ASSUME IInv, RunningPoll
  PROVE  IInv'
<1>1. /\ state = "RUNNING" /\ Overlook /\ ReportStop
      /\ UNCHANGED <<recv, checksum, expected_checksum, handled, toHost, hostVars>>
  BY DEF RunningPoll
<1>2. toPico' \in Seq(Sent)
  BY <1>1, Typed, OverlookSent
<1> QED
  BY <1>1, <1>2, StopKeeps

LEMMA KilledKeeps ==
  ASSUME IInv, Killed
  PROVE  IInv'
<1>1. PICK c \in Byte : Receive(c) /\ state = "KILLED" /\ UNCHANGED <<picoVars, toHost, hostVars>>
  BY DEF Killed
<1>2. toPico' \in Seq(Sent) /\ toPico' \in Seq(Byte)
  BY <1>1, Typed, ReceiveSent, SentBytes
<1>3. TypeOK'
  BY <1>1, <1>2 DEF IInv, TypeOK, picoVars, hostVars
<1>4. Line'
  BY <1>1 DEF IInv, Line, picoVars, hostVars
<1> QED
  BY <1>1, <1>2, <1>3, <1>4 DEF IInv, picoVars

-----------------------------------------------------------------------------
(* GDB *)

LEMMA OpenKeeps ==
  ASSUME IInv, Open
  PROVE  IInv'
<1>1. /\ state = "DISCONNECTED" /\ host' = "ready" /\ toHost' = <<>>
      /\ UNCHANGED <<picoVars, toPico, request, answer, broke, retries, faults>>
  BY DEF Open
<1>2. <<>> \in Seq(Byte)
  OBVIOUS
<1>3. TypeOK'
  BY <1>1, <1>2 DEF IInv, TypeOK, picoVars
<1>4. Line'
  BY <1>1, EmptyLine DEF Line, LastOf, Replying, Taken, picoVars
<1> QED
  BY <1>1, <1>3, <1>4 DEF IInv, picoVars

LEMMA CloseKeeps ==
  ASSUME IInv, Close
  PROVE  IInv'
<1>1. /\ host' = "closed" /\ toHost' = <<>>
      /\ answer' = <<>> /\ handled' = <<>> /\ broke' = FALSE /\ retries' = 0
      /\ UNCHANGED <<state, recv, checksum, expected_checksum, send, cursor, toPico, request, faults>>
  BY DEF Close
<1>2. <<>> \in Seq(Byte) /\ <<>> \in Seq(Seq(Byte)) /\ 0 \in 0..Retries
  BY GDBLinkAssumption
<1>3. TypeOK'
  BY <1>1, <1>2 DEF IInv, TypeOK
<1>4. Line'
  BY <1>1 DEF Line
<1> QED
  BY <1>1, <1>3, <1>4 DEF IInv

\* A request that goes out again changes nothing of what is on its way back.
LEMMA TransmitLine ==
  ASSUME NothingRefused, IInv, NEW body \in Request, Transmit(body), UNCHANGED <<state, toHost>>,
         host \in {"ready", "sent"}, host' = "sent"
  PROVE  Line' /\ toPico' \in Seq(Sent) /\ toPico' \in Seq(Byte) /\ faults' \in 0..Faults
<1>1. toPico' \in Seq(Sent) /\ faults' \in 0..Faults /\ Longer(toPico, toPico')
  BY Typed, TransmitSent
<1>2. toPico' \in Seq(Byte)
  BY <1>1, SentBytes
<1>3. \A i \in 1..Len(toPico) : i \in 1..Len(toPico') /\ toPico'[i] = toPico[i]
  <2>1. Len(toPico) \in Nat /\ Len(toPico') \in Nat
    BY <1>1, Typed
  <2> QED
    BY <1>1, <2>1 DEF Longer
<1>4. Line'
  BY <1>3 DEF IInv, Line
<1> QED
  BY <1>1, <1>2, <1>4

LEMMA AskKeeps ==
  ASSUME NothingRefused, IInv, NEW body \in Request, Ask(body)
  PROVE  IInv'
<1>1. /\ host = "ready" /\ host' = "sent" /\ request' = body /\ answer' = <<>>
      /\ broke' = FALSE /\ retries' = 0 /\ handled' = <<>> /\ Transmit(body)
      /\ UNCHANGED <<state, recv, checksum, expected_checksum, send, cursor, toHost>>
  BY DEF Ask
<1>2. Line' /\ toPico' \in Seq(Sent) /\ toPico' \in Seq(Byte) /\ faults' \in 0..Faults
  BY <1>1, TransmitLine
<1>3. <<>> \in Seq(Byte) /\ <<>> \in Seq(Seq(Byte)) /\ 0 \in 0..Retries
  BY GDBLinkAssumption
<1>4. TypeOK'
  BY <1>1, <1>2, <1>3 DEF IInv, TypeOK
<1> QED
  BY <1>1, <1>2, <1>4 DEF IInv

LEMMA TimeoutKeeps ==
  ASSUME NothingRefused, IInv, Timeout
  PROVE  IInv'
<1>1. /\ host = "sent" /\ retries < Retries /\ retries' = retries + 1 /\ Transmit(request)
      /\ UNCHANGED <<picoVars, toHost, host, request, answer, broke>>
  BY DEF Timeout
<1>2. Line' /\ toPico' \in Seq(Sent) /\ toPico' \in Seq(Byte) /\ faults' \in 0..Faults
  BY <1>1, Typed, TransmitLine DEF picoVars
<1>3. retries' \in 0..Retries
  BY <1>1, GDBLinkAssumption DEF IInv, TypeOK
<1>4. TypeOK'
  BY <1>1, <1>2, <1>3 DEF IInv, TypeOK, picoVars
<1> QED
  BY <1>1, <1>2, <1>4 DEF IInv, picoVars

\* GDB takes an acknowledgement off the line.
LEMMA HeardAck ==
  ASSUME IInv, host # "closed", NEW c \in {Plus, Minus}, Heard(c)
  PROVE  /\ EndsIn(toHost', LastOf(state)) /\ toHost' \in Seq(Byte)
         /\ state \in Replying => toHost' # <<>>
         /\ state \in Taken => IF toHost' = <<>> THEN c = Plus ELSE toHost'[Len(toHost')] = Plus
         /\ state = "RECV_ACK" => toHost' # <<>>
<1>1. toHost # <<>> /\ Head(toHost) = c /\ toHost' = Tail(toHost) /\ toHost \in Seq(Byte)
  BY Typed DEF Heard
<1>2. PICK kinds : IsParse(toHost, kinds) /\ kinds[Len(toHost)] \in LastOf(state)
  BY <1>1 DEF IInv, Line, EndsIn
<1>3. /\ 1 \in 1..Len(toHost) /\ toHost[1] = c /\ toHost' = SubSeq(toHost, 1 + 1, Len(toHost))
      /\ kinds[1] = "ack"
  <2>1. c # Dollar
    BY DEF Plus, Minus, Dollar
  <2> QED
    BY <1>1, <1>2, <2>1, ParseHead
<1>4. /\ EndsIn(toHost', LastOf(state)) /\ toHost' \in Seq(Byte)
      /\ toHost' = <<>> => 1 = Len(toHost)
      /\ toHost' # <<>> => toHost'[Len(toHost')] = toHost[Len(toHost)]
  <2>1. OverAt(toHost, 1, LastOf(state))
    BY <1>1, <1>2, <1>3, Zenon DEF OverAt
  <2>2. LeftOf(toHost, 1, LastOf(state), SubSeq(toHost, 1 + 1, Len(toHost)))
    BY <1>1, <1>3, <2>1, ParseShrinks
  <2> QED
    BY <1>3, <2>2 DEF LeftOf
<1>5. toHost' = <<>> => "ack" \in LastOf(state)
  BY <1>2, <1>3, <1>4
<1>6. state \in Replying \cup {"RECV_ACK"} => "ack" \notin LastOf(state)
  BY DEF Replying, LastOf
<1>7. state \in Taken => toHost[Len(toHost)] = Plus
  BY <1>1 DEF IInv, Line
<1> QED
  BY <1>3, <1>4, <1>5, <1>6, <1>7

LEMMA ReadNackKeeps ==
  ASSUME NothingRefused, IInv, ReadNack
  PROVE  IInv'
<1>1. /\ host = "sent" /\ Heard(Minus) /\ Transmit(request)
      /\ UNCHANGED <<picoVars, host, request, answer, broke, retries>>
  BY DEF ReadNack
<1>2. toPico' \in Seq(Sent) /\ toPico' \in Seq(Byte) /\ faults' \in 0..Faults
  BY <1>1, Typed, TransmitSent, SentBytes
<1>3. /\ EndsIn(toHost', LastOf(state)) /\ toHost' \in Seq(Byte)
      /\ state \in Replying => toHost' # <<>>
      /\ state \in Taken => IF toHost' = <<>> THEN Minus = Plus ELSE toHost'[Len(toHost')] = Plus
      /\ state = "RECV_ACK" => toHost' # <<>>
  BY <1>1, HeardAck
<1>4. Line'
  BY <1>1, <1>3 DEF Line, picoVars, Minus, Plus
<1>5. TypeOK'
  BY <1>1, <1>2, <1>3 DEF IInv, TypeOK, picoVars
<1> QED
  BY <1>1, <1>2, <1>4, <1>5 DEF IInv, picoVars

LEMMA ReadAckKeeps ==
  ASSUME IInv, ReadAck
  PROVE  IInv'
<1>1. /\ host = "sent" /\ Heard(Plus) /\ host' = "acked"
      /\ UNCHANGED <<picoVars, toPico, request, answer, broke, retries, faults>>
  BY DEF ReadAck
<1>2. /\ EndsIn(toHost', LastOf(state)) /\ toHost' \in Seq(Byte)
      /\ state \in Replying => toHost' # <<>>
      /\ state \in Taken => IF toHost' = <<>> THEN Plus = Plus ELSE toHost'[Len(toHost')] = Plus
      /\ state = "RECV_ACK" => toHost' # <<>>
  BY <1>1, HeardAck
<1>3. Line'
  BY <1>1, <1>2 DEF Line, picoVars
<1>4. TypeOK'
  BY <1>1, <1>2 DEF IInv, TypeOK, picoVars
<1> QED
  BY <1>1, <1>3, <1>4 DEF IInv, picoVars

LEMMA TakeReplyKeeps ==
  ASSUME IInv, TakeReply
  PROVE  IInv'
<1>1. PICK n \in Replies :
        /\ host = "acked" /\ host' = "ready" /\ toPico' = Append(toPico, Plus)
        /\ answer' = SubSeq(toHost, 2, n - 3) /\ toHost' = SubSeq(toHost, n + 1, Len(toHost))
        /\ UNCHANGED <<picoVars, request, broke, retries, faults>>
  BY DEF TakeReply
<1>2. /\ n \in 4..Len(toHost) /\ toHost[1] = Dollar /\ toHost[n - 2] = Hash
      /\ \A i \in 1..(n - 3) : toHost[i] # Hash
  BY DEF Replies
<1>3. toHost \in Seq(Byte) /\ Len(toHost) \in Nat /\ toHost # <<>> /\ n \in 1..Len(toHost)
  BY <1>2, Typed
<1>4. PICK kinds : IsParse(toHost, kinds) /\ kinds[Len(toHost)] \in LastOf(state)
  BY <1>1, <1>3 DEF IInv, Line, EndsIn
<1>5. kinds[n] = "digit2"
  BY <1>2, <1>3, <1>4, ParseReply
<1>6. /\ EndsIn(toHost', LastOf(state)) /\ toHost' \in Seq(Byte)
      /\ toHost' = <<>> => n = Len(toHost)
      /\ toHost' # <<>> => toHost'[Len(toHost')] = toHost[Len(toHost)]
  <2>1. OverAt(toHost, n, LastOf(state))
    BY <1>1, <1>3, <1>4, <1>5, Zenon DEF OverAt
  <2>2. LeftOf(toHost, n, LastOf(state), SubSeq(toHost, n + 1, Len(toHost)))
    BY <1>1, <1>3, <2>1, ParseShrinks
  <2> QED
    BY <1>1, <2>2 DEF LeftOf
<1>7. toHost' = <<>> => "digit2" \in LastOf(state)
  BY <1>4, <1>5, <1>6
<1>8. state \in Replying \cup Taken => "digit2" \notin LastOf(state)
  BY DEF Replying, Taken, LastOf
<1>9. /\ toPico' \in Seq(Sent) /\ Len(toPico') \in 1..Len(toPico') /\ toPico'[Len(toPico')] = Plus
      /\ toPico' \in Seq(Byte)
  BY <1>1, Typed, SentBytes, AppendSent
<1>10. state \in Taken => toHost[Len(toHost)] = Plus
  BY <1>1, <1>3 DEF IInv, Line
<1>11. Line'
  BY <1>1, <1>6, <1>7, <1>8, <1>9, <1>10 DEF Line, picoVars
<1>12. answer' \in Seq(Byte)
  BY <1>1, <1>2, <1>3
<1>13. TypeOK'
  BY <1>1, <1>6, <1>9, <1>12 DEF IInv, TypeOK, picoVars
<1> QED
  BY <1>1, <1>9, <1>11, <1>13 DEF IInv, picoVars

LEMMA CtrlCKeeps ==
  ASSUME IInv, CtrlC
  PROVE  IInv'
<1>1. /\ host = "acked" /\ broke' = TRUE /\ toPico' = Append(toPico, Break)
      /\ UNCHANGED <<picoVars, toHost, host, request, answer, retries, faults>>
  BY DEF CtrlC
<1>2. toPico' \in Seq(Sent) /\ toPico' \in Seq(Byte) /\ Longer(toPico, toPico')
  BY <1>1, Typed, SentBytes, AppendSent
<1>3. \A i \in 1..Len(toPico) : i \in 1..Len(toPico') /\ toPico'[i] = toPico[i]
  <2>1. Len(toPico) \in Nat /\ Len(toPico') \in Nat
    BY <1>2, Typed
  <2> QED
    BY <1>2, <2>1 DEF Longer
<1>4. Line'
  BY <1>1, <1>3 DEF IInv, Line, picoVars
<1>5. TypeOK'
  BY <1>1, <1>2 DEF IInv, TypeOK, picoVars
<1> QED
  BY <1>1, <1>2, <1>4, <1>5 DEF IInv, picoVars

-----------------------------------------------------------------------------
(* The theorems *)

LEMMA InitHolds ==
  ASSUME Init
  PROVE  IInv
<1>1. <<>> \in Seq(Byte) /\ <<>> \in Seq(Seq(Byte)) /\ <<>> \in Seq(Sent)
  OBVIOUS
<1>2. 0 \in Byte /\ 0 \in 0..Retries /\ 0 \in 0..Faults
  BY GDBLinkAssumption DEF Byte
<1>3. send = <<>> /\ cursor \in 0..Len(send)
  BY DEF Init
<1>4. TypeOK
  BY <1>1, <1>2, <1>3 DEF Init, TypeOK, State
<1>5. Line
  BY DEF Init, Line
<1> QED
  BY <1>1, <1>4, <1>5 DEF Init, IInv

LEMMA StutterKeeps ==
  ASSUME IInv, UNCHANGED vars
  PROVE  IInv'
<1>1. UNCHANGED <<state, recv, checksum, expected_checksum, send, cursor, handled, toPico, toHost,
                  host, request, answer, broke, retries, faults>>
  BY DEF vars, picoVars, hostVars
<1>2. TypeOK'
  BY <1>1 DEF IInv, TypeOK
<1>3. Line'
  BY <1>1 DEF IInv, Line
<1> QED
  BY <1>1, <1>2, <1>3 DEF IInv

LEMMA UpdateKeeps ==
  ASSUME IInv, Update
  PROVE  IInv'
<1>1. CASE Connect          BY <1>1, ConnectKeeps
<1>2. CASE Disconnected     BY <1>2, DisconnectedKeeps
<1>3. CASE Idle             BY <1>3, IdleKeeps
<1>4. CASE RecvPacket       BY <1>4, RecvPacketKeeps
<1>5. CASE RecvPacketEscape BY <1>5, RecvPacketEscapeKeeps
<1>6. CASE RecvSuffix1      BY <1>6, RecvSuffix1Keeps
<1>7. CASE RecvSuffix2      BY <1>7, RecvSuffix2Keeps
<1>8. CASE SendPrefix       BY <1>8, SendPrefixKeeps
<1>9. CASE SendPacket       BY <1>9, SendPacketKeeps
<1>10. CASE SendSuffix1     BY <1>10, SendSuffix1Keeps
<1>11. CASE SendSuffix2     BY <1>11, SendSuffix2Keeps
<1>12. CASE SendSuffix3     BY <1>12, SendSuffix3Keeps
<1>13. CASE RecvAck         BY <1>13, RecvAckKeeps
<1>14. CASE RunningByte     BY <1>14, RunningByteKeeps
<1>15. CASE RunningPoll     BY <1>15, RunningPollKeeps
<1>16. CASE Killed          BY <1>16, KilledKeeps
<1> QED
  BY <1>1, <1>2, <1>3, <1>4, <1>5, <1>6, <1>7, <1>8, <1>9, <1>10, <1>11, <1>12, <1>13,
     <1>14, <1>15, <1>16 DEF Update

LEMMA NextKeeps ==
  ASSUME NothingRefused, IInv, [Next]_vars
  PROVE  IInv'
<1>1. CASE Update   BY <1>1, UpdateKeeps
<1>2. CASE Open     BY <1>2, OpenKeeps
<1>3. CASE Close    BY <1>3, CloseKeeps
<1>4. CASE Timeout  BY <1>4, TimeoutKeeps
<1>5. CASE ReadNack BY <1>5, ReadNackKeeps
<1>6. CASE ReadAck  BY <1>6, ReadAckKeeps
<1>7. CASE TakeReply BY <1>7, TakeReplyKeeps
<1>8. CASE CtrlC    BY <1>8, CtrlCKeeps
<1>9. ASSUME NEW body \in Request, Ask(body) PROVE IInv'
  BY <1>9, AskKeeps
<1>10. CASE UNCHANGED vars BY <1>10, StutterKeeps
<1> QED
  BY <1>1, <1>2, <1>3, <1>4, <1>5, <1>6, <1>7, <1>8, <1>9, <1>10 DEF Next

\* What GDBServer::update has put on the line parses, up to a last byte its state
\* tells, whatever requests are damaged, repeated or dropped and wherever the line
\* closes, as long as nothing GDB sends can be taken for a refusal.
THEOREM LinkInvariant == ASSUME NothingRefused PROVE Spec => []IInv
<1>1. Init => IInv
  BY InitHolds
<1>2. IInv /\ [Next]_vars => IInv'
  BY NextKeeps
<1> QED
  BY <1>1, <1>2, PTL DEF Spec

LEMMA LineFramed == IInv => RepliesFramed
<1> SUFFICES ASSUME IInv, toHost # <<>> PROVE Head(toHost) \in {Plus, Minus, Dollar}
  BY DEF RepliesFramed
<1>1. PICK kinds : IsParse(toHost, kinds)
  BY DEF IInv, Line, EndsIn
<1>2. toHost \in Seq(Byte)
  BY Typed
<1> QED
  BY <1>1, <1>2, ParseHead

LEMMA LineAgrees == IInv => EndsAgree
<1> SUFFICES ASSUME IInv, host = "ready", toPico = <<>>, toHost = <<>>
             PROVE  Current \in Listening
  BY DEF EndsAgree
<1>1. state \in State /\ Line
  BY DEF IInv, TypeOK
<1>2. state \notin Replying \cup Taken
  BY <1>1 DEF Line
<1>3. state # "RECV_ACK"
  BY <1>1 DEF Line
<1> QED
  BY <1>1, <1>2, <1>3 DEF State, Replying, Taken, Current, Listening

=============================================================================
