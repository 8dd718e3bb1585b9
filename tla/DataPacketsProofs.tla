-------------------------- MODULE DataPacketsProofs ---------------------------
(***************************************************************************)
(* The accessors' arithmetic, for every address and any contents: cutting  *)
(* an access in two words and shifting the parts reads and writes exactly  *)
(* the bytes it is about.                                                  *)
(***************************************************************************)
EXTENDS DataPackets, TLAPS

LEMMA WordSplit ==
  ASSUME NEW addr \in Nat
  PROVE  /\ Offset(addr) \in 0..3 /\ Aligned(addr) \in Nat
         /\ addr = Aligned(addr) + Offset(addr)
BY DEF Offset, Aligned

\* A byte-wise or is one operand where the other is zero.
LEMMA OrZero ==
  ASSUME NEW v, NEW w, NEW i \in 0..3
  PROVE  /\ w[i] = Zero => Or(v, w)[i] = v[i]
         /\ v[i] = Zero => Or(v, w)[i] = w[i]
BY DEF Or

\* get_mem_u32, get_mem_u16 and get_mem_u8 return the bytes at their address, low
\* one first, for every alignment.
THEOREM UnalignedReadIsExact ==
  ASSUME NEW m, NEW addr \in Nat
  PROVE  LET lo == MemWord(m, Aligned(addr))
             hi == MemWord(m, Aligned(addr) + 4)
             k  == Offset(addr)
         IN  /\ \A i \in 0..3 : Read32(lo, hi, k)[i] = m[addr + i]
             /\ \A i \in 0..1 : Read16(lo, hi, k)[i] = m[addr + i]
             /\ Read8(lo, k)[0] = m[addr]
<1> DEFINE base == Aligned(addr)
           k == Offset(addr)
           lo == MemWord(m, base)
           hi == MemWord(m, base + 4)
<1>1. k \in 0..3 /\ base \in Nat /\ addr = base + k
  BY WordSplit
<1> HIDE DEF base, k
<1>2. \A i \in 0..3 : lo[i] = m[base + i] /\ hi[i] = m[base + 4 + i]
  BY DEF MemWord
<1> HIDE DEF lo, hi
\* A byte of the access is in the first word or in the second.
<1>3. ASSUME NEW i \in 0..3, i + k <= 3
      PROVE  lo[i + k] = m[addr + i]
  <2>1. i + k \in 0..3 /\ base + (i + k) = addr + i
    BY <1>1, <1>3
  <2> QED
    BY <1>2, <2>1
<1>4. ASSUME NEW i \in 0..3, i + k > 3
      PROVE  hi[i - (4 - k)] = m[addr + i]
  <2>1. i - (4 - k) \in 0..3 /\ base + 4 + (i - (4 - k)) = addr + i
    BY <1>1, <1>4
  <2> QED
    BY <1>2, <2>1
<1>5. ASSUME NEW i \in 0..3
      PROVE  Or(Shr(lo, k), Shl(hi, 4 - k))[i] = m[addr + i]
  <2>1. CASE i + k <= 3
    <3>1. Shl(hi, 4 - k)[i] = Zero /\ Shr(lo, k)[i] = lo[i + k]
      BY <1>1, <2>1 DEF Shl, Shr
    <3> QED
      BY <1>3, <2>1, <3>1, OrZero
  <2>2. CASE i + k > 3
    <3>1. Shr(lo, k)[i] = Zero /\ Shl(hi, 4 - k)[i] = hi[i - (4 - k)]
      BY <1>1, <2>2 DEF Shl, Shr
    <3> QED
      BY <1>4, <2>2, <3>1, OrZero
  <2> QED
    BY <1>1, <2>1, <2>2
<1>6. \A i \in 0..3 : Read32(lo, hi, k)[i] = m[addr + i]
  <2>1. CASE k = 0
    BY <1>3, <2>1 DEF Read32
  <2>2. CASE k # 0
    BY <1>5, <2>2 DEF Read32
  <2> QED
    BY <2>1, <2>2
<1>7. \A i \in 0..1 : Read16(lo, hi, k)[i] = m[addr + i]
  <2> SUFFICES ASSUME NEW i \in 0..1 PROVE Read16(lo, hi, k)[i] = m[addr + i]
    OBVIOUS
  <2>1. CASE k < 3
    <3>1. Shr(lo, k)[i] = lo[i + k] /\ i + k <= 3
      BY <1>1, <2>1 DEF Shr
    <3> QED
      BY <1>3, <2>1, <3>1 DEF Read16
  <2>2. CASE k = 3
    BY <1>5, <2>2 DEF Read16
  <2> QED
    BY <1>1, <2>1, <2>2
<1>8. Read8(lo, k)[0] = m[addr]
  <2>1. Shr(lo, k)[0] = lo[0 + k] /\ 0 + k <= 3 /\ addr + 0 = addr
    BY <1>1 DEF Shr
  <2> QED
    BY <1>3, <2>1 DEF Read8
<1> QED
  BY <1>6, <1>7, <1>8 DEF base, k, lo, hi

-----------------------------------------------------------------------------
LEMMA StoredAt ==
  ASSUME NEW m, NEW a \in Nat, NEW w, NEW x \in Ram
  PROVE  Stored(m, a, w)[x] = IF x - a \in 0..3 THEN w[x - a] ELSE m[x]
BY DEF Stored

LEMMA RamIsNat == ASSUME NEW x \in Ram PROVE x \in Nat
BY DataPacketsAssumption

\* set_mem_u32 at an address that is no multiple of four: the two words it writes
\* back hold its bytes at its address and every other byte as it was.
THEOREM UnalignedWriteIsExact ==
  ASSUME NEW m, NEW addr \in Nat, NEW data, Offset(addr) # 0, NEW x \in Ram,
         \A i \in 0..3 : Aligned(addr) + i \in Ram /\ Aligned(addr) + 4 + i \in Ram
  PROVE  LET base == Aligned(addr)
             k == Offset(addr)
             lo == Low32(MemWord(m, base), data, k)
             hi == High32(MemWord(m, base + 4), data, k)
         IN  Stored(Stored(m, base, lo), base + 4, hi)[x] =
               IF x - addr \in 0..3 THEN data[x - addr] ELSE m[x]
<1> DEFINE base == Aligned(addr)
           k == Offset(addr)
           lo == Low32(MemWord(m, base), data, k)
           hi == High32(MemWord(m, base + 4), data, k)
<1>1. k \in 1..3 /\ base \in Nat /\ addr = base + k /\ x \in Nat
  BY WordSplit, RamIsNat
<1>3. ASSUME NEW i \in 0..3
      PROVE  lo[i] = IF i < k THEN m[base + i] ELSE data[i - k]
  <2>1. Keep(MemWord(m, base), 0..(k - 1))[i] = IF i < k THEN m[base + i] ELSE Zero
    BY <1>1 DEF Keep, MemWord
  <2>2. Shl(data, k)[i] = IF i < k THEN Zero ELSE data[i - k]
    BY <1>1 DEF Shl
  <2> QED
    BY <2>1, <2>2, OrZero DEF Low32
<1>4. ASSUME NEW i \in 0..3
      PROVE  hi[i] = IF i < k THEN data[i + (4 - k)] ELSE m[base + 4 + i]
  <2>1. Keep(MemWord(m, base + 4), k..3)[i] = IF i < k THEN Zero ELSE m[base + 4 + i]
    BY <1>1 DEF Keep, MemWord
  <2>2. Shr(data, 4 - k)[i] = IF i < k THEN data[i + (4 - k)] ELSE Zero
    BY <1>1 DEF Shr
  <2> QED
    BY <2>1, <2>2, OrZero DEF High32
<1> SUFFICES Stored(Stored(m, base, lo), base + 4, hi)[x] =
               IF x - addr \in 0..3 THEN data[x - addr] ELSE m[x]
  OBVIOUS
<1> HIDE DEF base, k, lo, hi
<1>2. Stored(Stored(m, base, lo), base + 4, hi)[x] =
        IF x - (base + 4) \in 0..3 THEN hi[x - (base + 4)]
        ELSE IF x - base \in 0..3 THEN lo[x - base] ELSE m[x]
  <2> DEFINE next == base + 4
  <2>1. next \in Nat
    BY <1>1
  <2>2. Stored(m, base, lo)[x] = IF x - base \in 0..3 THEN lo[x - base] ELSE m[x]
    BY <1>1, StoredAt
  <2> DEFINE once == Stored(m, base, lo)
  <2> HIDE DEF next, once
  <2>3. Stored(once, next, hi)[x] = IF x - next \in 0..3 THEN hi[x - next] ELSE once[x]
    BY <2>1, StoredAt
  <2> QED
    BY <2>2, <2>3 DEF next, once
<1>5. CASE x - (base + 4) \in 0..3
  <2>1. DEFINE i == x - (base + 4)
  <2>2. i \in 0..3 /\ base + 4 + i = x /\ i + (4 - k) = x - addr
    BY <1>1, <1>5
  <2>3. i < k <=> x - addr \in 0..3
    BY <1>1, <1>5
  <2> QED
    BY <1>2, <1>4, <1>5, <2>2, <2>3
<1>6. CASE x - base \in 0..3
  <2>1. x - (base + 4) \notin 0..3
    BY <1>1, <1>6
  <2>2. base + (x - base) = x /\ (x - base) - k = x - addr
    BY <1>1, <1>6
  <2>3. x - base < k <=> x - addr \notin 0..3
    BY <1>1, <1>6
  <2> QED
    BY <1>2, <1>3, <1>6, <2>1, <2>2, <2>3
<1>7. CASE x - base \notin 0..3 /\ x - (base + 4) \notin 0..3
  <2>1. x - addr \notin 0..3
    BY <1>1, <1>7
  <2> QED
    BY <1>2, <1>7, <2>1
<1> QED
  BY <1>5, <1>6, <1>7

\* set_mem_u8: the word it writes back holds its byte at its address and every
\* other byte as it was. (A byte is a word whose upper bytes are zero.)
THEOREM ByteWriteIsExact ==
  ASSUME NEW m, NEW addr \in Nat, NEW data, NEW x \in Ram, \A i \in 1..3 : data[i] = Zero
  PROVE  LET base == Aligned(addr)
             lo == Low8(MemWord(m, base), data, Offset(addr))
         IN  Stored(m, base, lo)[x] = IF x = addr THEN data[0] ELSE m[x]
<1> DEFINE base == Aligned(addr)
           k == Offset(addr)
           lo == Low8(MemWord(m, base), data, k)
<1>1. k \in 0..3 /\ base \in Nat /\ addr = base + k /\ x \in Nat
  BY WordSplit, RamIsNat
<1>2. ASSUME NEW i \in 0..3
      PROVE  lo[i] = IF i = k THEN data[0] ELSE m[base + i]
  <2>1. Keep(MemWord(m, base), (0..3) \ {k})[i] = IF i = k THEN Zero ELSE m[base + i]
    BY <1>1 DEF Keep, MemWord
  <2>2. Shl(data, k)[i] = IF i = k THEN data[0] ELSE Zero
    BY <1>1 DEF Shl
  <2> QED
    BY <2>1, <2>2, OrZero DEF Low8
<1> SUFFICES Stored(m, base, lo)[x] = IF x = addr THEN data[0] ELSE m[x]
  OBVIOUS
<1> HIDE DEF base, k, lo
<1>3. Stored(m, base, lo)[x] = IF x - base \in 0..3 THEN lo[x - base] ELSE m[x]
  BY <1>1, StoredAt
<1>4. CASE x - base \in 0..3
  <2>1. base + (x - base) = x /\ (x - base = k <=> x = addr)
    BY <1>1
  <2> QED
    BY <1>2, <1>3, <1>4, <2>1
<1>5. CASE x - base \notin 0..3
  <2>1. x # addr
    BY <1>1, <1>5
  <2> QED
    BY <1>3, <1>5, <2>1
<1> QED
  BY <1>4, <1>5
\* set_mem_u16: one word written back holds its bytes, or two when the second byte
\* falls in the next word, and every other byte is as it was.
THEOREM HalfwordWriteIsExact ==
  ASSUME NEW m, NEW addr \in Nat, NEW data, NEW x \in Ram, \A i \in 2..3 : data[i] = Zero,
         \A i \in 0..3 : Aligned(addr) + i \in Ram
  PROVE  LET base == Aligned(addr)
             k == Offset(addr)
             once == Stored(m, base, Low16(MemWord(m, base), data, k))
             hi == High16(MemWord(m, base + 4), data)
         IN  (IF k = 3 THEN Stored(once, base + 4, hi) ELSE once)[x] =
               IF x - addr \in 0..1 THEN data[x - addr] ELSE m[x]
<1> DEFINE base == Aligned(addr)
           next == base + 4
           k == Offset(addr)
           lo == Low16(MemWord(m, base), data, k)
           hi == High16(MemWord(m, next), data)
           once == Stored(m, base, lo)
<1>1. k \in 0..3 /\ base \in Nat /\ next \in Nat /\ next = base + 4 /\ addr = base + k /\ x \in Nat
  BY WordSplit, RamIsNat
<1>2. ASSUME NEW i \in 0..3
      PROVE  lo[i] = IF i = k \/ i = k + 1 THEN data[i - k] ELSE m[base + i]
  <2>1. Keep(MemWord(m, base), (0..3) \ {k, k + 1})[i] =
          IF i = k \/ i = k + 1 THEN Zero ELSE m[base + i]
    BY <1>1 DEF Keep, MemWord
  <2>2. Shl(data, k)[i] = IF i < k THEN Zero ELSE data[i - k]
    BY <1>1 DEF Shl
  <2>3. i > k + 1 => data[i - k] = Zero
    BY <1>1
  <2>4. (i = k \/ i = k + 1) => Shl(data, k)[i] = data[i - k]
    BY <1>1, <2>2
  <2>5. ~(i = k \/ i = k + 1) => Shl(data, k)[i] = Zero
    BY <1>1, <2>2, <2>3
  <2> QED
    BY <2>1, <2>4, <2>5, OrZero DEF Low16
<1>3. ASSUME NEW i \in 0..3
      PROVE  hi[i] = IF i = 0 THEN data[1] ELSE m[next + i]
  <2>1. Keep(MemWord(m, next), 1..3)[i] = IF i = 0 THEN Zero ELSE m[next + i]
    BY DEF Keep, MemWord
  <2>2. Shr(data, 1)[i] = IF i = 0 THEN data[1] ELSE Zero
    BY DEF Shr
  <2> QED
    BY <2>1, <2>2, OrZero DEF High16
<1> SUFFICES (IF k = 3 THEN Stored(once, next, hi) ELSE once)[x] =
               IF x - addr \in 0..1 THEN data[x - addr] ELSE m[x]
  OBVIOUS
<1> HIDE DEF base, next, k, lo, hi, once
<1>4. once[x] = IF x - base \in 0..3 THEN lo[x - base] ELSE m[x]
  <2>1. base \in Nat
    BY <1>1
  <2> QED
    BY <2>1, StoredAt, Zenon DEF once
<1>5. Stored(once, next, hi)[x] = IF x - next \in 0..3 THEN hi[x - next] ELSE once[x]
  <2>1. next \in Nat
    BY <1>1
  <2> QED
    BY <2>1, StoredAt, Zenon
<1>6. CASE x - base \in 0..3
  <2>1. base + (x - base) = x /\ (x - base) - k = x - addr /\ x - next \notin 0..3
    BY <1>1, <1>6
  <2>2. x - base = k \/ x - base = k + 1 <=> x - addr \in 0..1
    BY <1>1, <1>6
  <2>3. once[x] = IF x - addr \in 0..1 THEN data[x - addr] ELSE m[x]
    BY <1>2, <1>4, <1>6, <2>1, <2>2
  <2> QED
    BY <1>5, <2>1, <2>3
<1>7. CASE x - next \in 0..3
  <2>1. x - base \notin 0..3 /\ next + (x - next) = x
    BY <1>1, <1>7
  <2>2. x - addr \in 0..1 <=> k = 3 /\ x - next = 0
    BY <1>1, <1>7
  <2>3. k = 3 /\ x - next = 0 => x - addr = 1
    BY <1>1
  <2> QED
    BY <1>3, <1>4, <1>5, <1>7, <2>1, <2>2, <2>3
<1>8. CASE x - base \notin 0..3 /\ x - next \notin 0..3
  <2>1. x - addr \notin 0..1
    BY <1>1, <1>8
  <2> QED
    BY <1>4, <1>5, <1>8, <2>1
<1> QED
  BY <1>6, <1>7, <1>8
=============================================================================
