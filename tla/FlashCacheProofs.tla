-------------------------- MODULE FlashCacheProofs ---------------------------
(***************************************************************************)
(* A load is exact, for any set of tracked bytes, any programs and any     *)
(* loads made of whole blocks, with requests repeated and the Pico         *)
(* restarting at will.                                                     *)
(***************************************************************************)
EXTENDS FlashCache, TLAPS

-----------------------------------------------------------------------------
(* Addresses *)

LEMMA PageOfAddress ==
  ASSUME NEW a \in Nat
  PROVE  /\ a % 64 \in 0..63 /\ PageBase(a) \in Nat /\ PageBase(a) % 64 = 0
         /\ a = PageBase(a) + (a % 64)
BY DEF PageBase, PageSize

LEMMA PagesAscend ==
  ASSUME NEW a \in Nat, NEW b \in Nat, a < b
  PROVE  /\ PageBase(a) <= PageBase(b)
         /\ PageBase(a) = PageBase(b) => a % 64 < b % 64
BY DEF PageBase, PageSize

LEMMA AddrIsNat == ASSUME NEW a \in Addr PROVE a \in Nat /\ a % 64 \in Offset /\ a < FlashSize
<1>1. a \in 0..(FlashSize - 1)
  BY FlashCacheAssumption
<1>2. FlashSize = 16384
  BY DEF FlashSize
<1> QED
  BY <1>1, <1>2 DEF Offset, PageSize

LEMMA PlanFacts ==
  ASSUME NEW p \in Plan
  PROVE  /\ EraseOf[p][1] \in Nat /\ EraseOf[p][2] \in Nat
         /\ EraseOf[p][1] % 64 = 0 /\ EraseOf[p][2] % 64 = 0
         /\ DataOf[p] \subseteq Addr /\ DataOf[p] \subseteq Blocks(p) /\ Blocks(p) \subseteq Addr
         /\ \A a \in Blocks(p) : EraseOf[p][1] <= a /\ a < EraseOf[p][1] + EraseOf[p][2]
         /\ EraseOf[p][1] + EraseOf[p][2] <= FlashSize
<1>1. EraseOf[p] \in Nat \X Nat /\ DataOf[p] \in SUBSET Addr
  BY FlashCacheAssumption
<1>2. EraseOf[p][1] \in Nat /\ EraseOf[p][2] \in Nat
  BY <1>1
<1> QED
  BY <1>1, <1>2, FlashCacheAssumption DEF Blocks, In, PageSize

\* The erase loop always finds a unit that fits.
LEMMA UnitFits ==
  ASSUME NEW addr \in Nat, NEW size \in Nat, addr % 64 = 0, size % 64 = 0, size # 0
  PROVE  LET unit == EraseUnit(addr, size)
         IN  /\ unit \in Nat /\ unit > 0 /\ unit <= size
             /\ (addr + unit) % 64 = 0 /\ (size - unit) % 64 = 0
             /\ (IF unit = SectorSize THEN addr - (addr % SectorSize) ELSE addr) = addr
<1> DEFINE unit == EraseUnit(addr, size)
<1>1. CASE addr = 0 /\ size = FlashSize
  BY <1>1, SMT DEF EraseUnit, FlashSize, SectorSize
<1>2. CASE ~(addr = 0 /\ size = FlashSize) /\ addr % SectorSize = 0 /\ size >= SectorSize
  <2>1. unit = 1024
    BY <1>2 DEF EraseUnit, SectorSize
  <2> QED
    BY <1>2, <2>1, SMT DEF SectorSize
<1>3. CASE ~(addr = 0 /\ size = FlashSize) /\ ~(addr % SectorSize = 0 /\ size >= SectorSize)
  <2>1. size >= 64
    BY SMT
  <2>2. unit = 64
    BY <1>3, <2>1, SMT DEF EraseUnit, PageSize
  <2> QED
    BY <2>1, <2>2, SMT DEF SectorSize
<1> QED
  BY <1>1, <1>2, <1>3

-----------------------------------------------------------------------------
(* The invariant in one state *)

LEMMA InitInv == Init => IInv
<1> SUFFICES ASSUME Init PROVE IInv
  OBVIOUS
<1> USE DEF Init, NoPage
<1>1. \A a \in Addr : flash[a] \in Byte \cup {Blank}
  BY DEF Byte
<1>2. TypeOK
  <2>1. flash \in [Addr -> Byte \cup {Blank, Garbled}]
    BY <1>1
  <2>2. erasing \in Nat \X Nat /\ page_cache \in [Offset -> Byte \cup {Blank}]
    BY DEF EmptyPage
  <2>3. /\ page_base = -1 /\ page_bitmap \subseteq Offset /\ writing \subseteq Addr
        /\ left \subseteq DataOf[plan] /\ packet \subseteq DataOf[plan]
        /\ loading \in BOOLEAN /\ plan \in Plan /\ build \in Build
        /\ request \in {"none", "erase", "write", "done"}
    BY Zenon
  <2> HIDE DEF Init, NoPage
  <2>4. page_base \in Int
    BY <2>3
  <2> QED
    BY <2>1, <2>2, <2>3, <2>4 DEF TypeOK
<1>3. NeverGarbled
  BY <1>1, FlashCacheAssumption DEF NeverGarbled
<1> QED
  BY <1>2, <1>3
  DEF IInv, LoadIsExact, CacheInv, EmptyPage, IdleInv, EraseInv, SentInv, OrderInv

LEMMA ByteIsNoBlank == ASSUME NEW b \in Build, NEW a \in Addr
                       PROVE  <<b, a>> \in Byte /\ <<b, a>> # Blank /\ <<b, a>> # Garbled
BY FlashCacheAssumption DEF Byte

LEMMA SentIsData == ASSUME TypeOK PROVE Sent \subseteq DataOf[plan] /\ Sent \subseteq Blocks(plan) /\ Sent \subseteq Addr
BY PlanFacts DEF TypeOK, Sent

\* Once bytes are being written the whole range is erased.
LEMMA BlocksKnown ==
  ASSUME TypeOK, EraseInv, loading, request = "write", NEW a \in Blocks(plan)
  PROVE  flash[a] = Blank \/ (a \in Sent /\ flash[a] = <<build, a>>)
<1>1. plan \in Plan /\ erasing \in Nat \X Nat
  BY DEF TypeOK
<1>2. erasing[1] \in Nat /\ erasing[2] = 0 /\ erasing[1] = EraseOf[plan][1] + EraseOf[plan][2]
  BY <1>1, PlanFacts DEF EraseInv
<1>3. a < erasing[1]
  BY <1>1, <1>2, PlanFacts
<1> QED
  BY <1>3 DEF EraseInv

LEMMA CachedByte ==
  ASSUME TypeOK, CacheInv, NEW a \in Addr, InCache(a)
  PROVE  a \in Sent /\ page_cache[a % PageSize] = <<build, a>>
<1>1. a \in Nat /\ a % 64 \in Offset /\ page_base + (a % 64) = a
  BY AddrIsNat, PageOfAddress DEF InCache
<1> QED
  BY <1>1 DEF CacheInv, InCache, PageSize

\* What is written of the cache is what it holds of the load, no more.
LEMMA WrittenIs ==
  ASSUME TypeOK, CacheInv, EraseInv, loading, request = "write", NEW a \in Addr
  PROVE  Written[a] = IF InCache(a) THEN <<build, a>> ELSE flash[a]
<1>1. CASE InCache(a)
  <2>1. a \in Blocks(plan) /\ page_cache[a % PageSize] = <<build, a>>
    BY <1>1, CachedByte, SentIsData
  <2>2. flash[a] = Blank \/ flash[a] = <<build, a>>
    BY <2>1, BlocksKnown
  <2>3. <<build, a>> # Blank
    BY ByteIsNoBlank DEF TypeOK
  <2> QED
    BY <1>1, <2>1, <2>2, <2>3 DEF Written, Program, InCache
<1>2. CASE PageBase(a) # page_base
  BY <1>2 DEF Written, InCache
<1>3. CASE PageBase(a) = page_base /\ a % PageSize \notin page_bitmap
  <2>1. page_cache[a % PageSize] = Blank
    BY <1>3, AddrIsNat DEF CacheInv, PageSize
  <2> QED
    BY <1>3, <2>1 DEF Written, Program, InCache
<1> QED
  BY <1>1, <1>2, <1>3 DEF InCache

-----------------------------------------------------------------------------
(* The duplicate test *)

\* It drops a byte only if that very byte is in the cache.
LEMMA DroppedIsCached ==
  ASSUME TypeOK, OrderInv, loading, NEW h \in writing, PageBase(h) = page_base,
         NEW tested \in Tested(h % PageSize), tested \cap page_bitmap # {}
  PROVE  h % PageSize \in page_bitmap
<1>1. h \in Nat /\ h % PageSize \in 0..63
  BY AddrIsNat, PageOfAddress DEF TypeOK, PageSize
<1>2. CASE h % PageSize # 31
  <2>1. tested \subseteq {h % PageSize}
    BY <1>1, <1>2 DEF Tested
  <2> QED
    BY <2>1
<1>3. CASE h % PageSize = 31
  <2>1. tested = 31..63
    BY <1>3 DEF Tested
  <2>2. PICK o \in page_bitmap : o \in 31..63
    BY <2>1
  <2>3. ~(o < 31)
    BY <2>2
  <2> QED
    BY <1>3, <2>2, <2>3 DEF OrderInv
<1> QED
  BY <1>2, <1>3

-----------------------------------------------------------------------------
(* The invariant is inductive: one lemma per action *)

\* While nothing is erased, the loop's range is not looked at.
LEMMA PutByteInv ==
  ASSUME IInv, PutByte
  PROVE  IInv'
<1> TypeOK /\ NeverGarbled /\ CacheInv /\ EraseInv /\ SentInv /\ OrderInv
  BY DEF IInv
<1>0. PICK h \in writing : /\ \A other \in writing : h <= other
                          /\ put_flash_cache(h)
                          /\ writing' = writing \ {h}
  BY DEF PutByte
<1>1. /\ loading /\ request = "write" /\ UNCHANGED <<erasing, loading, plan, build, left, request, packet>>
      /\ h \in Sent /\ h \in packet /\ h \in Addr /\ Sent' = Sent
  <2>1. loading
    BY DEF IInv, IdleInv
  <2>2. request = "write" /\ h \in Sent /\ h \in packet
    BY <2>1 DEF EraseInv, SentInv
  <2> QED
    BY <2>1, <2>2, SentIsData DEF PutByte, hostVars, Sent
<1> DEFINE flush  == page_bitmap # {} /\ PageBase(h) # page_base
           bitmap == IF flush THEN {} ELSE page_bitmap
           cache  == IF flush THEN EmptyPage ELSE page_cache
           off    == h % PageSize
<1>2. off \in Offset /\ off \in 0..63 /\ h \in Nat /\ PageBase(h) + off = h /\ PageBase(h) \in Nat
  BY <1>1, AddrIsNat, PageOfAddress DEF PageSize
<1>3. /\ flash' = IF flush THEN Written ELSE flash
      /\ page_base' = PageBase(h)
      /\ page_bitmap' = bitmap \cup {off}
      /\ \A o \in Offset : page_cache'[o] = IF o = off THEN <<build, h>> ELSE cache[o]
      /\ page_cache' \in [Offset -> Byte \cup {Blank}]
  <2>1. PICK tested \in Tested(off) :
          /\ flash' = IF flush THEN Written ELSE flash
          /\ page_base' = PageBase(h)
          /\ page_bitmap' = IF tested \cap bitmap # {} THEN bitmap ELSE bitmap \cup {off}
          /\ page_cache' = IF tested \cap bitmap # {} THEN cache
                           ELSE [cache EXCEPT ![off] = <<build, h>>]
    BY <1>0 DEF put_flash_cache
  <2>2. cache \in [Offset -> Byte \cup {Blank}] /\ <<build, h>> \in Byte
    BY <1>1, ByteIsNoBlank DEF TypeOK, EmptyPage
  <2>3. CASE tested \cap bitmap = {}
    BY <1>2, <2>1, <2>2, <2>3
  <2>4. CASE tested \cap bitmap # {}
    <3>1. ~flush /\ PageBase(h) = page_base
      BY <2>4
    <3>2. off \in page_bitmap
      BY <1>1, <2>4, <3>1, DroppedIsCached
    <3>3. page_cache[off] = <<build, h>>
      BY <1>1, <3>1, <3>2, CachedByte DEF InCache
    <3> QED
      BY <2>1, <2>2, <2>4, <3>1, <3>2, <3>3
  <2> QED
    BY <2>3, <2>4
<1> HIDE DEF flush, bitmap, cache, off
<1>4. \A a \in Addr : flash'[a] = IF flush /\ InCache(a) THEN <<build, a>> ELSE flash[a]
  BY <1>1, <1>3, WrittenIs
<1>5. TypeOK'
  <2>1. flash' \in [Addr -> Byte \cup {Blank, Garbled}]
    <3>1. flash' = [a \in Addr |-> flash'[a]]
      BY <1>3 DEF TypeOK, Written
    <3>2. \A a \in Addr : flash'[a] \in Byte \cup {Blank, Garbled}
      BY <1>4, ByteIsNoBlank DEF TypeOK
    <3> QED
      BY <3>1, <3>2
  <2>2. page_bitmap' \subseteq Offset /\ page_base' \in Int
    <3>1. bitmap \subseteq Offset
      BY DEF bitmap, TypeOK
    <3> QED
      BY <1>2, <1>3, <3>1
  <2> QED
    BY <1>0, <1>1, <1>3, <2>1, <2>2 DEF TypeOK
<1>6. NeverGarbled' /\ LoadIsExact' /\ IdleInv'
  BY <1>1, <1>4, ByteIsNoBlank DEF NeverGarbled, LoadIsExact, IdleInv, TypeOK
<1>7. CacheInv'
  <2> SUFFICES ASSUME NEW o \in Offset
               PROVE  IF o \in page_bitmap'
                      THEN /\ page_base' + o \in Sent' /\ PageBase(page_base' + o) = page_base'
                           /\ (page_base' + o) % PageSize = o
                           /\ page_cache'[o] = <<build', page_base' + o>>
                      ELSE page_cache'[o] = Blank
    BY DEF CacheInv
  <2>1. CASE o = off
    BY <1>1, <1>2, <1>3, <2>1 DEF off
  <2>2. CASE o # off /\ o \in bitmap
    <3>1. o \in page_bitmap /\ page_base = PageBase(h) /\ cache = page_cache
      BY <2>2 DEF bitmap, flush, cache
    <3> QED
      BY <1>1, <1>3, <2>2, <3>1 DEF CacheInv
  <2>3. CASE o # off /\ o \notin bitmap
    <3>1. cache[o] = Blank
      BY <2>3 DEF bitmap, cache, EmptyPage, CacheInv
    <3> QED
      BY <1>3, <2>3, <3>1
  <2> QED
    BY <2>1, <2>2, <2>3
<1>8. EraseInv'
  <2>1. ASSUME NEW a \in Blocks(plan), a < erasing[1]
        PROVE  flash'[a] = Blank \/ (a \in Sent /\ flash'[a] = <<build, a>>)
    <3>1. a \in Addr
      BY DEF Blocks
    <3> QED
      BY <1>1, <1>4, <3>1, BlocksKnown, CachedByte
  <2> QED
    BY <1>1, <2>1 DEF EraseInv
<1>9. SentInv'
  <2>1. ASSUME NEW a \in Sent, a \notin writing \/ a = h
        PROVE  flash'[a] = <<build, a>> \/ InCache(a)'
    <3>1. a \in Addr
      BY SentIsData
    <3>2. CASE a = h
      BY <1>3, <3>2 DEF InCache, off
    <3>3. CASE a # h /\ flash[a] = <<build, a>>
      BY <1>4, <3>1, <3>3
    <3>4. CASE a # h /\ InCache(a) /\ flush
      BY <1>4, <3>1, <3>4
    <3>5. CASE a # h /\ InCache(a) /\ ~flush
      BY <1>3, <3>5 DEF InCache, bitmap, flush
    <3> QED
      BY <1>1, <2>1, <3>2, <3>3, <3>4, <3>5 DEF SentInv
  <2> QED
    BY <1>0, <1>1, <2>1 DEF SentInv
<1>10. OrderInv'
  <2>0. \A a \in writing \ {h} : a \in Nat /\ h < a /\ PageBase(h) <= PageBase(a)
                               /\ (PageBase(a) = PageBase(h) => off < a % PageSize)
    <3>1. \A a \in writing : a \in Nat
      BY AddrIsNat DEF TypeOK
    <3>2. \A a \in writing \ {h} : h < a
      BY <1>0, <1>2, <3>1
    <3> QED
      BY <1>2, <3>1, <3>2, PagesAscend DEF off, PageSize
  <2>1. ASSUME NEW a \in writing', PageBase(a) = page_base'
        PROVE  a % PageSize \in page_bitmap' \/ \A o \in page_bitmap' : o < a % PageSize
    <3>1. a \in writing \ {h} /\ PageBase(a) = PageBase(h) /\ off < a % PageSize
      BY <1>0, <1>3, <2>0, <2>1
    <3>2. CASE bitmap = {}
      BY <1>3, <3>1, <3>2
    <3>3. CASE bitmap # {}
      <4>1. bitmap = page_bitmap /\ PageBase(a) = page_base
        BY <3>1, <3>3 DEF bitmap, flush
      <4> QED
        BY <1>1, <1>3, <3>1, <4>1 DEF OrderInv
    <3> QED
      BY <3>2, <3>3
  <2>2. ASSUME NEW a \in packet \ writing'
        PROVE  /\ PageBase(a) <= page_base'
               /\ PageBase(a) = page_base' => a % PageSize \in page_bitmap'
               /\ \A b \in writing' : a < b /\ page_base' <= PageBase(b)
    <3>0. \A b \in writing' : page_base' <= PageBase(b) /\ h < b
      BY <1>0, <1>3, <2>0
    <3>1. CASE a = h
      BY <1>2, <1>3, <3>0, <3>1 DEF off
    <3>2. CASE a # h
      <4>1. a \in packet \ writing /\ a \in Addr /\ a \in Nat
        BY <1>0, <2>2, <3>2, PlanFacts, AddrIsNat DEF TypeOK
      <4>2. /\ PageBase(a) <= page_base /\ (PageBase(a) = page_base => a % PageSize \in page_bitmap)
            /\ page_base <= PageBase(h) /\ \A b \in writing' : a < b
        BY <1>0, <1>1, <4>1 DEF OrderInv
      <4>3. PageBase(a) \in Nat /\ PageBase(h) \in Nat /\ page_base \in Int
        BY <1>2, <4>1, PageOfAddress DEF TypeOK
      <4>4. PageBase(a) <= PageBase(h)
        BY <4>2, <4>3
      <4>5. ASSUME PageBase(a) = PageBase(h) PROVE a % PageSize \in page_bitmap'
        <5>1. page_base = PageBase(h)
          BY <4>2, <4>3, <4>5
        <5> QED
          BY <1>3, <4>2, <4>5, <5>1 DEF bitmap, flush
      <4> QED
        BY <1>3, <3>0, <4>2, <4>4, <4>5
    <3> QED
      BY <3>1, <3>2
  <2> QED
    BY <1>1, <2>1, <2>2 DEF OrderInv
<1> QED
  BY <1>5, <1>6, <1>7, <1>8, <1>9, <1>10 DEF IInv

\* An erase step empties the next part of the range it is working through, and
\* touches nothing outside the load's blocks.
LEMMA EraseStepDoes ==
  ASSUME IInv, EraseStep
  PROVE  /\ loading /\ request = "erase"
         /\ UNCHANGED <<cacheVars, writing, hostVars>>
         /\ erasing' \in Nat \X Nat /\ erasing'[1] % 64 = 0 /\ erasing'[2] % 64 = 0
         /\ erasing'[1] >= EraseOf[plan][1]
         /\ erasing'[1] + erasing'[2] = EraseOf[plan][1] + EraseOf[plan][2]
         /\ flash' = [a \in Addr |-> flash'[a]]
         /\ \A a \in Addr : flash'[a] = IF erasing[1] <= a /\ a < erasing'[1] THEN Blank ELSE flash[a]
         /\ \A a \in Addr \ Blocks(plan) : flash'[a] = flash[a]
<1> DEFINE addr == erasing[1]
           size == erasing[2]
           unit == EraseUnit(addr, size)
<1>1. loading /\ request = "erase" /\ plan \in Plan
  BY DEF IInv, IdleInv, EraseInv, EraseStep, TypeOK
<1>2. /\ addr \in Nat /\ size \in Nat /\ addr % 64 = 0 /\ size % 64 = 0 /\ size # 0
      /\ addr >= EraseOf[plan][1] /\ addr + size = EraseOf[plan][1] + EraseOf[plan][2]
  BY <1>1 DEF IInv, TypeOK, EraseInv, EraseStep, PageSize
<1>3. /\ unit \in Nat /\ unit > 0 /\ unit <= size
      /\ (addr + unit) % 64 = 0 /\ (size - unit) % 64 = 0
      /\ (IF unit = SectorSize THEN addr - (addr % SectorSize) ELSE addr) = addr
  BY <1>2, UnitFits
<1>4. flash' = Wiped(addr, unit) /\ erasing' = <<addr + unit, size - unit>>
  BY <1>3 DEF EraseStep
<1>5. UNCHANGED <<cacheVars, writing, hostVars>>
  BY DEF EraseStep
<1> HIDE DEF addr, size, unit
<1>6. \A a \in Addr : flash'[a] = IF addr <= a /\ a < addr + unit THEN Blank ELSE flash[a]
  BY <1>4 DEF Wiped, In
<1>7. ASSUME NEW a \in Addr \ Blocks(plan) PROVE flash'[a] = flash[a]
  <2>1. ~(addr <= a /\ a < addr + unit)
    <3>1. a \in Nat /\ EraseOf[plan][1] \in Nat /\ EraseOf[plan][2] \in Nat
      BY <1>1, AddrIsNat, PlanFacts
    <3>2. ~(EraseOf[plan][1] <= a /\ a < EraseOf[plan][1] + EraseOf[plan][2])
      BY DEF Blocks, In
    <3> QED
      BY <1>2, <1>3, <3>1, <3>2
  <2> QED
    BY <1>6, <2>1
<1>8. erasing'[1] = addr + unit /\ erasing'[2] = size - unit /\ erasing' \in Nat \X Nat
  BY <1>2, <1>3, <1>4
<1>9. erasing'[1] >= EraseOf[plan][1] /\ erasing'[1] + erasing'[2] = EraseOf[plan][1] + EraseOf[plan][2]
  BY <1>1, <1>2, <1>3, <1>8, PlanFacts
<1> QED
  BY <1>1, <1>3, <1>4, <1>5, <1>6, <1>7, <1>8, <1>9 DEF Wiped, addr

LEMMA EraseStepInv ==
  ASSUME IInv, EraseStep
  PROVE  IInv'
<1>1. /\ loading /\ request = "erase"
      /\ UNCHANGED <<page_base, page_cache, page_bitmap, writing,
                     loading, plan, build, left, request, packet>>
  BY EraseStepDoes DEF cacheVars, hostVars
<1>2. plan \in Plan /\ Sent' = Sent /\ erasing \in Nat \X Nat
      /\ left = DataOf[plan] /\ page_bitmap = {} /\ packet = {} /\ Sent = {}
  BY <1>1 DEF IInv, TypeOK, Sent, EraseInv
<1>3. \A a \in Addr : flash'[a] \in {flash[a], Blank}
  BY EraseStepDoes
<1>4. TypeOK'
  <2>1. flash' \in [Addr -> Byte \cup {Blank, Garbled}]
    <3>1. \A a \in Addr : flash'[a] \in Byte \cup {Blank, Garbled}
      BY <1>3 DEF IInv, TypeOK
    <3> QED
      BY <3>1, EraseStepDoes
  <2> QED
    BY <1>1, <2>1, EraseStepDoes DEF IInv, TypeOK
<1>5. NeverGarbled' /\ LoadIsExact' /\ IdleInv' /\ CacheInv' /\ OrderInv'
  BY <1>1, <1>2, <1>3, FlashCacheAssumption
  DEF IInv, NeverGarbled, LoadIsExact, IdleInv, CacheInv, OrderInv, InCache
<1>6. EraseInv'
  <2>1. ASSUME NEW a \in Blocks(plan), a < erasing'[1]
        PROVE  flash'[a] = Blank
    <3>1. a \in Addr /\ a \in Nat /\ erasing[1] \in Nat
      BY <1>2, AddrIsNat DEF Blocks
    <3>2. CASE a < erasing[1]
      <4>1. flash[a] = Blank
        BY <1>1, <1>2, <3>2 DEF IInv, EraseInv
      <4> QED
        BY <1>3, <3>1, <4>1
    <3>3. CASE ~(a < erasing[1])
      BY <2>1, <3>1, <3>3, EraseStepDoes
    <3> QED
      BY <3>2, <3>3
  <2> QED
    BY <1>1, <1>2, <2>1, EraseStepDoes DEF EraseInv, PageSize
<1>7. SentInv'
  BY <1>1, <1>2 DEF IInv, SentInv
<1> QED
  BY <1>4, <1>5, <1>6, <1>7 DEF IInv

\* vFlashErase, the first time or again: the whole range is to be erased.
LEMMA EraseRequest ==
  ASSUME NEW p \in Plan, flash_erase(EraseOf[p][1], EraseOf[p][2])
  PROVE  erasing' = EraseOf[p] /\ erasing'[1] = EraseOf[p][1] /\ erasing'[2] = EraseOf[p][2]
         /\ erasing' \in Nat \X Nat
<1>1. EraseOf[p] \in Nat \X Nat
  BY FlashCacheAssumption
<1>2. EraseOf[p] = <<EraseOf[p][1], EraseOf[p][2]>>
  BY <1>1
<1>3. erasing' = <<EraseOf[p][1], EraseOf[p][2]>>
  BY PlanFacts DEF flash_erase, PageSize
<1> QED
  BY <1>1, <1>2, <1>3

LEMMA BeginLoadInv ==
  ASSUME IInv, NEW p \in Plan, NEW b \in Build, BeginLoad(p, b)
  PROVE  IInv'
<1>1. /\ ~loading /\ page_bitmap = {} /\ writing = {}
      /\ UNCHANGED <<flash, page_base, page_cache, page_bitmap, writing>>
      /\ loading' /\ plan' = p /\ build' = b /\ left' = DataOf[p] /\ request' = "erase" /\ packet' = {}
  BY DEF IInv, IdleInv, BeginLoad, cacheVars
<1>2. /\ erasing' \in Nat \X Nat /\ erasing'[1] = EraseOf[p][1] /\ erasing'[2] = EraseOf[p][2]
  BY EraseRequest DEF BeginLoad
<1>3. Sent' = {}
  BY <1>1 DEF Sent
<1>4. TypeOK'
  BY <1>1, <1>2 DEF IInv, TypeOK, BeginLoad
<1>5. NeverGarbled' /\ LoadIsExact' /\ IdleInv' /\ CacheInv' /\ OrderInv' /\ SentInv'
  BY <1>1, <1>3 DEF IInv, NeverGarbled, LoadIsExact, IdleInv, CacheInv, OrderInv, SentInv
<1>6. EraseInv'
  <2>1. \A a \in Blocks(p) : ~(a < erasing'[1])
    BY <1>2, PlanFacts, AddrIsNat
  <2>2. EraseOf[p][1] \in Nat /\ EraseOf[p][1] % 64 = 0 /\ EraseOf[p][2] % 64 = 0
    BY PlanFacts
  <2>3. EraseOf[p][1] >= EraseOf[p][1]
    BY <2>2
  <2> QED
    BY <1>1, <1>2, <2>1, <2>2, <2>3 DEF EraseInv, PageSize
<1> QED
  BY <1>4, <1>5, <1>6 DEF IInv

LEMMA SendWriteInv ==
  ASSUME IInv, SendWrite
  PROVE  IInv'
<1> TypeOK /\ CacheInv /\ EraseInv /\ SentInv /\ OrderInv
  BY DEF IInv
<1>1. PICK some \in SUBSET left :
        /\ some # {}
        /\ \A a \in some, b \in left \ some : a < b
        /\ packet' = some /\ writing' = some /\ left' = left \ some
  BY DEF SendWrite
<1>2. /\ loading /\ erasing[2] = 0 /\ writing = {} /\ request' = "write"
      /\ UNCHANGED <<flash, page_base, page_cache, page_bitmap, erasing, loading, plan, build>>
      /\ left \subseteq DataOf[plan]
  BY DEF SendWrite, Busy, cacheVars, TypeOK
<1>3. Sent' = Sent \cup some /\ left \cap Sent = {}
  BY <1>1, <1>2 DEF Sent
<1>4. \A a \in Sent, b \in some : a < b
  BY <1>1, <1>2 DEF SentInv
<1>5. TypeOK'
  BY <1>1, <1>2, PlanFacts DEF TypeOK
<1>6. NeverGarbled' /\ LoadIsExact' /\ IdleInv' /\ EraseInv'
  BY <1>1, <1>2, <1>3 DEF IInv, NeverGarbled, LoadIsExact, IdleInv, EraseInv
<1>7. CacheInv'
  BY <1>2, <1>3 DEF CacheInv
<1>8. SentInv'
  <2>1. \A a \in Sent', b \in left' : a < b
    BY <1>1, <1>2, <1>3 DEF SentInv
  <2>2. \A a \in Sent' \ writing' : a \in Sent \ writing
    BY <1>1, <1>2, <1>3
  <2> QED
    BY <1>1, <1>2, <1>3, <2>1, <2>2 DEF SentInv, InCache
<1>9. OrderInv'
  <2>1. ASSUME NEW a \in some, PageBase(a) = page_base, NEW o \in page_bitmap
        PROVE  o < a % PageSize
    <3>1. page_base + o \in Sent /\ (page_base + o) % PageSize = o /\ PageBase(page_base + o) = page_base
      BY DEF CacheInv, TypeOK
    <3>2. page_base + o \in Nat /\ a \in Nat /\ page_base + o < a
      BY <1>4, <3>1, SentIsData, PlanFacts, AddrIsNat DEF TypeOK
    <3> QED
      BY <2>1, <3>1, <3>2, PagesAscend DEF PageSize
  <2> QED
    BY <1>1, <1>2, <2>1 DEF OrderInv
<1> QED
  BY <1>5, <1>6, <1>7, <1>8, <1>9 DEF IInv

\* The flush of vFlashDone, while a load is open.
LEMMA FlushDoes ==
  ASSUME IInv, loading, request = "write", flush_flash_cache
  PROVE  /\ page_bitmap' = {} /\ page_base' \in Int /\ page_cache' \in [Offset -> Byte \cup {Blank}]
         /\ flash' = [a \in Addr |-> flash'[a]]
         /\ \A a \in Addr : flash'[a] = IF InCache(a) THEN <<build, a>> ELSE flash[a]
         /\ \A o \in Offset : page_cache'[o] = Blank
<1> TypeOK /\ CacheInv /\ EraseInv
  BY DEF IInv
<1>1. CASE page_base = -1
  <2>1. page_bitmap = {}
    <3>1. SUFFICES ASSUME NEW o \in page_bitmap PROVE FALSE
      OBVIOUS
    <3>2. page_base + o \in Nat /\ PageBase(page_base + o) = -1
      BY <1>1, SentIsData, AddrIsNat DEF CacheInv, TypeOK
    <3> QED
      BY <3>2, PageOfAddress
  <2> QED
    BY <1>1, <2>1 DEF flush_flash_cache, cacheVars, InCache, TypeOK, CacheInv
<1>2. CASE page_base # -1
  <2>1. /\ flash' = IF page_bitmap = {} THEN flash ELSE Written
        /\ page_base' = -1 /\ page_bitmap' = {} /\ page_cache' = EmptyPage
    BY <1>2 DEF flush_flash_cache
  <2>2. \A a \in Addr : flash'[a] = IF InCache(a) THEN <<build, a>> ELSE flash[a]
    BY <2>1, WrittenIs DEF InCache
  <2>3. flash' = [a \in Addr |-> flash'[a]]
    BY <2>1 DEF Written, TypeOK
  <2> QED
    BY <2>1, <2>2, <2>3 DEF EmptyPage
<1> QED
  BY <1>1, <1>2

LEMMA SendDoneInv ==
  ASSUME IInv, SendDone
  PROVE  IInv'
<1> TypeOK /\ CacheInv /\ EraseInv /\ SentInv
  BY DEF IInv
<1>1. /\ loading /\ erasing[2] = 0 /\ writing = {} /\ left = {}
      /\ ~loading' /\ request' = "done" /\ packet' = {}
      /\ UNCHANGED <<erasing, writing, plan, build, left>>
      /\ flush_flash_cache /\ plan \in Plan /\ build \in Build
  BY DEF SendDone, Busy, TypeOK
<1>4. /\ erasing' \in Nat \X Nat /\ writing' \subseteq Addr /\ loading' \in BOOLEAN
      /\ plan' \in Plan /\ build' \in Build
      /\ left' \subseteq DataOf[plan'] /\ packet' \subseteq DataOf[plan']
      /\ request' \in {"none", "erase", "write", "done"}
  BY DEF SendDone, TypeOK
<1>2. CASE request = "write"
  <2>1. \A a \in Addr : flash'[a] = IF InCache(a) THEN <<build, a>> ELSE flash[a]
    BY <1>1, <1>2, FlushDoes
  <2>2. TypeOK'
    <3>1. \A a \in Addr : flash'[a] \in Byte \cup {Blank, Garbled}
      BY <1>1, <2>1, ByteIsNoBlank DEF TypeOK
    <3>2. flash' \in [Addr -> Byte \cup {Blank, Garbled}]
      BY <1>1, <1>2, <3>1, FlushDoes
    <3>3. page_bitmap' = {} /\ page_base' \in Int /\ page_cache' \in [Offset -> Byte \cup {Blank}]
      BY <1>1, <1>2, FlushDoes
    <3>4. page_bitmap' \subseteq Offset
      BY <3>3
    <3> QED
      BY <1>4, <3>2, <3>3, <3>4 DEF TypeOK
  <2>3. LoadIsExact'
    <3>1. Sent = DataOf[plan]
      BY <1>1 DEF Sent
    <3>2. ASSUME NEW a \in Blocks(plan)
          PROVE  flash'[a] = IF a \in DataOf[plan] THEN <<build, a>> ELSE Blank
      <4>1. a \in Addr
        BY DEF Blocks
      <4>2. CASE a \in DataOf[plan]
        BY <1>1, <2>1, <3>1, <4>1, <4>2 DEF SentInv
      <4>3. CASE a \notin DataOf[plan]
        BY <1>1, <1>2, <2>1, <3>1, <4>1, <4>3, BlocksKnown, CachedByte
      <4> QED
        BY <4>2, <4>3
    <3> QED
      BY <1>1, <3>2 DEF LoadIsExact
  <2>4. NeverGarbled'
    BY <1>1, <2>1, ByteIsNoBlank DEF IInv, NeverGarbled
  <2>5. CacheInv' /\ IdleInv'
    BY <1>1, <1>2, FlushDoes DEF CacheInv, IdleInv
  <2> QED
    BY <1>1, <2>2, <2>3, <2>4, <2>5 DEF IInv, EraseInv, SentInv, OrderInv
\* A load without data: done comes right after the erase.
<1>3. CASE request = "erase"
  <2>1. page_bitmap = {} /\ DataOf[plan] = {} /\ Sent = {}
    BY <1>1, <1>3 DEF EraseInv, Sent
  <2>2. /\ flash' = flash /\ page_bitmap' = {} /\ page_base' \in Int
        /\ page_cache' \in [Offset -> Byte \cup {Blank}] /\ \A o \in Offset : page_cache'[o] = Blank
    BY <1>1, <2>1 DEF flush_flash_cache, cacheVars, EmptyPage, TypeOK, CacheInv
  <2>3. \A a \in Blocks(plan) : flash[a] = Blank
    <3>1. erasing \in Nat \X Nat /\ erasing[1] = EraseOf[plan][1] + EraseOf[plan][2]
      BY <1>1, PlanFacts DEF EraseInv, TypeOK
    <3> QED
      BY <1>1, <2>1, <3>1, PlanFacts DEF EraseInv
  <2>4. TypeOK' /\ NeverGarbled'
    <3>1. page_bitmap' \subseteq Offset /\ flash' \in [Addr -> Byte \cup {Blank, Garbled}]
      BY <2>2 DEF TypeOK
    <3>2. TypeOK'
      BY <1>4, <2>2, <3>1 DEF TypeOK
    <3> QED
      BY <2>2, <3>2 DEF IInv, NeverGarbled
  <2>5. LoadIsExact' /\ CacheInv' /\ IdleInv'
    BY <1>1, <2>1, <2>2, <2>3 DEF LoadIsExact, CacheInv, IdleInv
  <2> QED
    BY <1>1, <2>4, <2>5 DEF IInv, EraseInv, SentInv, OrderInv
<1> QED
  BY <1>1, <1>2, <1>3 DEF EraseInv

LEMMA SendAgainInv ==
  ASSUME IInv, SendAgain
  PROVE  IInv'
<1> TypeOK /\ CacheInv /\ IdleInv /\ EraseInv /\ SentInv /\ OrderInv /\ plan \in Plan
  BY DEF IInv, TypeOK
<1>1. /\ erasing[2] = 0 /\ writing = {} /\ Sent' = Sent
      /\ UNCHANGED <<loading, plan, build, left, request, packet>>
  BY DEF SendAgain, Busy, hostVars, Sent
<1>2. CASE request = "erase" /\ flash_erase(EraseOf[plan][1], EraseOf[plan][2])
           /\ UNCHANGED <<flash, cacheVars, writing>>
  <2>1. erasing' \in Nat \X Nat /\ erasing'[1] = EraseOf[plan][1] /\ erasing'[2] = EraseOf[plan][2]
    BY <1>2, EraseRequest
  <2>2. UNCHANGED <<flash, page_base, page_cache, page_bitmap, writing>> /\ loading
    BY <1>2 DEF cacheVars, IdleInv
  <2>3. TypeOK' /\ NeverGarbled' /\ LoadIsExact' /\ IdleInv' /\ CacheInv' /\ OrderInv' /\ SentInv'
    BY <1>1, <1>2, <2>1, <2>2
    DEF IInv, TypeOK, NeverGarbled, LoadIsExact, IdleInv, CacheInv, OrderInv, SentInv, InCache
  <2>4. EraseInv'
    <3>1. \A a \in Blocks(plan) : ~(a < erasing'[1])
      BY <2>1, PlanFacts, AddrIsNat
    <3>2. EraseOf[plan][1] \in Nat /\ EraseOf[plan][1] % 64 = 0 /\ EraseOf[plan][2] % 64 = 0
      BY PlanFacts
    <3>3. EraseOf[plan][1] >= EraseOf[plan][1]
      BY <3>2
    <3> QED
      BY <1>1, <1>2, <2>1, <2>2, <3>1, <3>2, <3>3 DEF EraseInv, PageSize
  <2> QED
    BY <2>3, <2>4 DEF IInv
<1>3. CASE request = "write" /\ writing' = packet /\ UNCHANGED <<flash, cacheVars, erasing>>
  <2>1. UNCHANGED <<flash, page_base, page_cache, page_bitmap, erasing>> /\ loading
    BY <1>3 DEF cacheVars, IdleInv
  <2>2. packet \subseteq Addr
    BY PlanFacts DEF TypeOK
  <2>3. TypeOK' /\ NeverGarbled' /\ LoadIsExact' /\ IdleInv' /\ CacheInv' /\ EraseInv' /\ SentInv'
    BY <1>1, <1>3, <2>1, <2>2
    DEF IInv, TypeOK, NeverGarbled, LoadIsExact, IdleInv, CacheInv, EraseInv, SentInv, InCache
  <2>4. OrderInv'
    BY <1>1, <1>3, <2>1 DEF OrderInv
  <2> QED
    BY <2>3, <2>4 DEF IInv
<1>4. CASE request = "done" /\ flush_flash_cache /\ UNCHANGED <<erasing, writing>>
  <2>1. ~loading /\ page_bitmap = {}
    BY <1>4 DEF EraseInv, IdleInv
  <2>2. /\ flash' = flash /\ page_bitmap' = {} /\ page_base' \in Int
        /\ page_cache' \in [Offset -> Byte \cup {Blank}] /\ \A o \in Offset : page_cache'[o] = Blank
    BY <1>4, <2>1 DEF flush_flash_cache, cacheVars, EmptyPage, TypeOK, CacheInv
  <2>3. TypeOK' /\ NeverGarbled' /\ LoadIsExact' /\ IdleInv' /\ CacheInv'
    BY <1>1, <1>4, <2>1, <2>2 DEF IInv, TypeOK, NeverGarbled, LoadIsExact, IdleInv, CacheInv
  <2> QED
    BY <1>1, <2>1, <2>3 DEF IInv, EraseInv, SentInv, OrderInv
<1> QED
  BY <1>2, <1>3, <1>4 DEF SendAgain

LEMMA RestartInv ==
  ASSUME IInv, Restart
  PROVE  IInv'
<1>1. TypeOK'
  <2>1. page_base' \in Int /\ erasing' \in Nat \X Nat /\ page_cache' \in [Offset -> Byte \cup {Blank}]
    BY DEF Restart, EmptyPage
  <2>2. /\ page_bitmap' = {} /\ writing' = {} /\ left' = {} /\ packet' = {}
        /\ loading' \in BOOLEAN /\ request' = "none" /\ UNCHANGED <<flash, plan, build>>
    BY DEF Restart
  <2> QED
    BY <2>1, <2>2 DEF IInv, TypeOK
<1> QED
  BY <1>1
  DEF Restart, IInv, NeverGarbled, LoadIsExact, CacheInv, EmptyPage, IdleInv, EraseInv, SentInv, OrderInv

LEMMA StepInv ==
  ASSUME IInv, [Next]_vars
  PROVE  IInv'
<1>1. CASE UNCHANGED vars
  BY <1>1
  DEF vars, cacheVars, hostVars, IInv, TypeOK, NeverGarbled, LoadIsExact, CacheInv, IdleInv,
      EraseInv, SentInv, OrderInv, Sent, InCache
<1> QED
  BY <1>1, EraseStepInv, PutByteInv, BeginLoadInv, SendWriteInv, SendDoneInv, SendAgainInv, RestartInv
  DEF Next

-----------------------------------------------------------------------------
(* The theorems *)

THEOREM FlashInvariant == Spec => []IInv
<1>1. Init => IInv
  BY InitInv
<1>2. IInv /\ [Next]_vars => IInv'
  BY StepInv
<1> QED
  BY <1>1, <1>2, PTL DEF Spec

\* Every variable of the loader has its type, for any tracked bytes.
THEOREM LoaderTypeCorrect == Spec => []TypeOK
<1>1. IInv => TypeOK
  BY DEF IInv
<1> QED
  BY <1>1, FlashInvariant, PTL

\* put_flash_cache and flash_erase never let a byte be programmed over another.
THEOREM FlashNeverGarbled == Spec => []NeverGarbled
<1>1. IInv => NeverGarbled
  BY DEF IInv
<1> QED
  BY <1>1, FlashInvariant, PTL

\* After vFlashDone the blocks of the load hold exactly what GDB sent, whatever
\* requests were repeated, and whatever load a restart cut short before.
THEOREM FlashIsWhatWasLoaded == Spec => []LoadIsExact
<1>1. IInv => LoadIsExact
  BY DEF IInv
<1> QED
  BY <1>1, FlashInvariant, PTL

-----------------------------------------------------------------------------
(* A load is one step to GDB *)

LEMMA InitRefines == Init => Contract!ContractInit
<1> SUFFICES ASSUME Init PROVE Contract!ContractInit
  OBVIOUS
<1>1. \A a \in Addr : flash[a] \in Byte \cup {Blank}
  BY DEF Init, Byte
<1>2. ~loading
  BY DEF Init
<1> QED
  BY <1>1, <1>2 DEF Contract!ContractInit, Memory, Open

LEMMA BeginRefines ==
  ASSUME IInv, NEW p \in Plan, NEW b \in Build, BeginLoad(p, b)
  PROVE  Contract!Begin(p)
<1>1. ~loading /\ loading' /\ plan' = p /\ flash' = flash
  BY DEF BeginLoad
<1>2. Memory = [a \in Addr |-> flash[a]] /\ Open = {} /\ Open' = Blocks(p)
  BY <1>1 DEF Memory, Open, Blocks
<1>3. Memory' = [a \in Addr |-> IF a \in Blocks(p) THEN Blank ELSE Memory[a]]
  BY <1>1, <1>2 DEF Memory, Blocks
<1> QED
  BY <1>2, <1>3 DEF Contract!Begin

LEMMA FinishRefines ==
  ASSUME IInv, IInv', SendDone
  PROVE  Contract!Finish(plan, build)
<1>1. loading /\ ~loading' /\ request' = "done" /\ plan' = plan /\ build' = build /\ left = {}
      /\ flush_flash_cache /\ plan \in Plan /\ build \in Build
  BY DEF SendDone, IInv, TypeOK
<1>2. Open = Blocks(plan) /\ Open' = {}
  BY <1>1 DEF Open
<1>3. ASSUME NEW a \in Addr, a \notin Blocks(plan)
      PROVE  flash'[a] = flash[a]
  <2>1. CASE request = "write"
    <3>1. ~InCache(a)
      BY <1>3, CachedByte, SentIsData DEF IInv
    <3> QED
      BY <1>1, <2>1, <3>1, FlushDoes
  <2>2. CASE request = "erase"
    <3>1. page_bitmap = {}
      BY <1>1, <2>2 DEF IInv, EraseInv
    <3> QED
      BY <1>1, <3>1 DEF flush_flash_cache
  <2> QED
    BY <1>1, <2>1, <2>2 DEF IInv, EraseInv
<1>4. \A a \in Blocks(plan) : flash'[a] = IF a \in DataOf[plan] THEN <<build, a>> ELSE Blank
  BY <1>1 DEF IInv, LoadIsExact, Blocks
<1>5. Memory' = [a \in Addr |-> IF a \in Data(plan) THEN Image(build)[a] ELSE Memory[a]]
  BY <1>1, <1>3, <1>4, PlanFacts DEF Memory, Data, Image, Blocks
<1> QED
  BY <1>2, <1>5 DEF Contract!Finish

LEMMA RestartRefines ==
  ASSUME IInv, IInv', Restart
  PROVE  Contract!Abandon
<1>1. ~loading' /\ flash' = flash
  BY DEF Restart
<1>2. Memory' = [a \in Addr |-> flash[a]] /\ Open' = {}
  BY <1>1 DEF Memory, Open
<1>3. \A a \in Addr : flash[a] \in Byte \cup {Blank}
  BY DEF IInv, TypeOK, NeverGarbled
<1>4. \A a \in Addr \ Open : Memory[a] = flash[a]
  BY DEF Memory, Open
<1> QED
  BY <1>2, <1>3, <1>4 DEF Contract!Abandon

\* Inside a load nothing shows.
LEMMA InsideRefines ==
  ASSUME IInv, IInv', EraseStep \/ PutByte \/ SendWrite \/ SendAgain
  PROVE  UNCHANGED <<Memory, Open>>
<1>1. UNCHANGED <<loading, plan>>
  BY DEF EraseStep, PutByte, SendWrite, SendAgain, hostVars
<1>2. loading => \A a \in Addr \ Blocks(plan) : flash'[a] = flash[a]
  <2> SUFFICES ASSUME loading, NEW a \in Addr \ Blocks(plan) PROVE flash'[a] = flash[a]
    OBVIOUS
  <2>1. CASE EraseStep
    BY <2>1, EraseStepDoes
  <2>2. CASE PutByte
    <3>1. request = "write"
      BY <2>2 DEF IInv, EraseInv, SentInv, PutByte
    <3>2. ~InCache(a)
      BY CachedByte, SentIsData DEF IInv
    <3>3. Written[a] = flash[a]
      BY <3>1, <3>2, WrittenIs DEF IInv
    <3> QED
      BY <2>2, <3>3 DEF PutByte, put_flash_cache
  <2>3. CASE SendWrite \/ SendAgain
    BY <2>3 DEF SendWrite, SendAgain, IInv, EraseInv
  <2> QED
    BY <2>1, <2>2, <2>3
<1>3. ~loading => flash' = flash
  BY DEF EraseStep, PutByte, SendWrite, SendAgain, IInv, IdleInv, flush_flash_cache
<1> QED
  BY <1>1, <1>2, <1>3 DEF Memory, Open, Blocks

LEMMA StepRefines ==
  ASSUME IInv, IInv', [Next]_vars
  PROVE  [Contract!ContractNext]_(Contract!contractVars)
<1>1. CASE EraseStep \/ PutByte \/ SendWrite \/ SendAgain
  BY <1>1, InsideRefines DEF Contract!contractVars
<1>2. CASE \E p \in Plan, b \in Build : BeginLoad(p, b)
  BY <1>2, BeginRefines DEF Contract!ContractNext
<1>3. CASE SendDone
  <2>1. plan \in Plan /\ build \in Build
    BY DEF IInv, TypeOK
  <2> QED
    BY <1>3, <2>1, FinishRefines DEF Contract!ContractNext
<1>4. CASE Restart
  BY <1>4, RestartRefines DEF Contract!ContractNext
<1>5. CASE UNCHANGED vars
  BY <1>5 DEF vars, hostVars, Memory, Open, Contract!contractVars
<1> QED
  BY <1>1, <1>2, <1>3, <1>4, <1>5 DEF Next

\* A load is atomic: its blocks go from the old program to the new one, no other
\* byte is touched, and a load cut short leaves erased or loaded bytes.
THEOREM LoaderImplementsContract == Spec => ImplementsContract
<1>1. Init => Contract!ContractInit
  BY InitRefines
<1>2. IInv /\ IInv' /\ [Next]_vars => [Contract!ContractNext]_(Contract!contractVars)
  BY StepRefines
<1> QED
  BY <1>1, <1>2, FlashInvariant, PTL DEF Spec, ImplementsContract, Contract!ContractSpec
=============================================================================
