----------------------------- MODULE FlashCache ------------------------------
(***************************************************************************)
(* Loading a program: vFlashErase, vFlashWrite and vFlashDone, GDBServer's *)
(* one-page write cache, and the flash behind it. An erase runs block by   *)
(* block and a write byte by byte, so that a restart of the Pico can fall  *)
(* between any two steps; a handler still runs to its end before the next  *)
(* packet is looked at.                                                    *)
(*                                                                         *)
(* Addresses are the real ones; Addr is the bytes that are tracked. The    *)
(* byte a program b has at a is <<b, a>>. Of a vFlashWrite packet only the *)
(* tracked addresses are kept: its bytes are in ascending order.           *)
(***************************************************************************)
EXTENDS Integers, FiniteSets

CONSTANTS
  Addr,      \* tracked byte addresses
  Build,     \* the programs GDB loads
  Plan,      \* the loads GDB makes
  EraseOf,   \* [Plan -> <<address, size>>]: the erase request, whole blocks
  DataOf,    \* [Plan -> SUBSET Addr]: the addresses written
  Blank,     \* 0xFF, what erasing leaves and what the cache is filled with
  Garbled    \* a byte programmed twice without an erase between

PageSize == 64
SectorSize == 1024
FlashSize == 16384

Byte == Build \X Addr
PageBase(a) == a - (a % PageSize)
Offset == {a % PageSize : a \in Addr}

In(a, range) == range[1] <= a /\ a < range[1] + range[2]
Blocks(p) == {a \in Addr : In(a, EraseOf[p])}

ASSUME FlashCacheAssumption ==
  /\ Addr \subseteq 0..(FlashSize - 1)
  /\ EraseOf \in [Plan -> Nat \X Nat]
  /\ DataOf \in [Plan -> SUBSET Addr]
  /\ \A p \in Plan : /\ EraseOf[p][1] % PageSize = 0 /\ EraseOf[p][2] % PageSize = 0
                     /\ EraseOf[p][1] + EraseOf[p][2] <= FlashSize
                     /\ DataOf[p] \subseteq Blocks(p)
  /\ Blank \notin Byte /\ Garbled \notin Byte /\ Blank # Garbled

VARIABLES
  flash,         \* the device
  page_base,     \* the page in the cache, -1 for none
  page_cache,
  page_bitmap,   \* the offsets in the cache that hold data
  erasing,       \* <<addr, size>> left to flash_erase's loop
  writing,       \* addresses left to handle_v's loop
  loading,       \* GDB: a load is open
  plan, build,   \* GDB: the load last begun
  left,          \* GDB: addresses not sent yet
  request,       \* GDB: the request it may have to send again
  packet         \* GDB: and the addresses in it

cacheVars == <<page_base, page_cache, page_bitmap>>
hostVars == <<loading, plan, build, left, request, packet>>
vars == <<flash, cacheVars, erasing, writing, hostVars>>

EmptyPage == [o \in Offset |-> Blank]

\* GDBServer::reset and the constructor.
NoPage == page_base = -1 /\ page_bitmap = {} /\ page_cache = EmptyPage

Init ==
  /\ \E x \in Byte \cup {Blank} : flash = [a \in Addr |-> IF x = Blank THEN x ELSE <<x[1], a>>]
  /\ NoPage
  /\ erasing = <<0, 0>> /\ writing = {}
  /\ loading = FALSE
  /\ plan \in Plan /\ build \in Build
  /\ left = {} /\ request = "none" /\ packet = {}

Busy == erasing[2] # 0 \/ writing # {}

-----------------------------------------------------------------------------
(* The flash *)

\* Programming clears bits: a byte in an erased cell, 0xFF nowhere.
Program(old, new) ==
  IF new = Blank \/ new = old THEN old ELSE IF old = Blank THEN new ELSE Garbled

\* wipe_chip, wipe_sector, wipe_page.
Wiped(addr, size) == [a \in Addr |-> IF In(a, <<addr, size>>) THEN Blank ELSE flash[a]]

-----------------------------------------------------------------------------
(* flash_erase *)

\* Mutant: the last page is never reached.
EraseUnitOpen(addr, size) ==
  IF addr = 0 /\ size = FlashSize THEN FlashSize
  ELSE IF addr % SectorSize = 0 /\ size >= SectorSize THEN SectorSize
  ELSE IF addr % PageSize = 0 /\ size > PageSize THEN PageSize
  ELSE 0
\* Mutant: a sector may be erased from its middle.
EraseUnitUnaligned(addr, size) ==
  IF addr = 0 /\ size = FlashSize THEN FlashSize
  ELSE IF size >= SectorSize THEN SectorSize
  ELSE IF addr % PageSize = 0 /\ size >= PageSize THEN PageSize
  ELSE 0
\* Mutant: the size left is not looked at.
EraseUnitSectorFirst(addr, size) ==
  IF addr = 0 /\ size = FlashSize THEN FlashSize
  ELSE IF addr % SectorSize = 0 THEN SectorSize
  ELSE IF addr % PageSize = 0 /\ size >= PageSize THEN PageSize
  ELSE 0
\* The largest unit that fits; 0 is the branch that should not be reached.
EraseUnit(addr, size) ==
  IF addr = 0 /\ size = FlashSize THEN FlashSize
  ELSE IF addr % SectorSize = 0 /\ size >= SectorSize THEN SectorSize
  ELSE IF addr % PageSize = 0 /\ size >= PageSize THEN PageSize
  ELSE 0

\* A misaligned request is dropped, and answered OK all the same.
flash_erase(addr, size) ==
  erasing' = IF addr % PageSize # 0 \/ size % PageSize # 0 THEN <<addr, 0>> ELSE <<addr, size>>

\* One turn of the loop. A sector erase covers the sector its address lies in.
EraseStep ==
  /\ erasing[2] # 0
  /\ LET addr == erasing[1]
         unit == EraseUnit(addr, erasing[2])
     IN  /\ flash' = Wiped(IF unit = SectorSize THEN addr - (addr % SectorSize) ELSE addr, unit)
         /\ erasing' = <<addr + unit, erasing[2] - unit>>
  /\ UNCHANGED <<cacheVars, writing, hostVars>>

-----------------------------------------------------------------------------
(* The page cache *)

\* What write_flash of the cached page makes of the device. It is taken as exact, which a
\* comment above write_flash denies for the first word of the first write after a start of
\* the Pico; FlashStream has that fault.
Written ==
  [a \in Addr |-> IF PageBase(a) = page_base THEN Program(flash[a], page_cache[a % PageSize])
                  ELSE flash[a]]

\* flush_flash_cache
flush_flash_cache ==
  IF page_base = -1 THEN UNCHANGED <<flash, cacheVars>>
  ELSE /\ flash' = IF page_bitmap = {} THEN flash ELSE Written
       /\ page_base' = -1 /\ page_bitmap' = {} /\ page_cache' = EmptyPage

\* The offsets `page_bitmap & (1 << page_offset)` may look at: the shift is of
\* an int, so 1 << 31 is widened to bits 31 to 63, and beyond that it is
\* undefined: a register shift gives 0, a widened one the right bit.
Tested(offset) ==
  IF offset < 31 THEN {{offset}} ELSE IF offset = 31 THEN {31..63} ELSE {{}, {offset}}

\* Mutant: the page that is full is never written out.
put_flash_cacheNoFlush(a) ==
  LET offset == a % PageSize
  IN  \E tested \in Tested(offset) :
        /\ page_base' = PageBase(a)
        /\ page_bitmap' = IF tested \cap page_bitmap # {} THEN page_bitmap ELSE page_bitmap \cup {offset}
        /\ page_cache' = IF tested \cap page_bitmap # {} THEN page_cache
                         ELSE [page_cache EXCEPT ![offset] = <<build, a>>]
        /\ UNCHANGED flash
\* Mutant: the flush leaves the old page's bytes in the buffer.
put_flash_cacheStale(a) ==
  LET offset == a % PageSize
      flush  == page_bitmap # {} /\ PageBase(a) # page_base
      bitmap == IF flush THEN {} ELSE page_bitmap
  IN  \E tested \in Tested(offset) :
        /\ flash' = IF flush THEN Written ELSE flash
        /\ page_base' = PageBase(a)
        /\ page_bitmap' = IF tested \cap bitmap # {} THEN bitmap ELSE bitmap \cup {offset}
        /\ page_cache' = IF tested \cap bitmap # {} THEN page_cache
                         ELSE [page_cache EXCEPT ![offset] = <<build, a>>]
\* put_flash_cache: of an address on another page, after a flush.
put_flash_cache(a) ==
  LET offset == a % PageSize
      flush  == page_bitmap # {} /\ PageBase(a) # page_base
      bitmap == IF flush THEN {} ELSE page_bitmap
      cache  == IF flush THEN EmptyPage ELSE page_cache
  IN  \E tested \in Tested(offset) :
        /\ flash' = IF flush THEN Written ELSE flash
        /\ page_base' = PageBase(a)
        /\ page_bitmap' = IF tested \cap bitmap # {} THEN bitmap ELSE bitmap \cup {offset}
        /\ page_cache' = IF tested \cap bitmap # {} THEN cache
                         ELSE [cache EXCEPT ![offset] = <<build, a>>]

\* One turn of handle_v's loop over a vFlashWrite packet.
PutByte ==
  /\ \E a \in writing :
       /\ \A other \in writing : a <= other
       /\ put_flash_cache(a)
       /\ writing' = writing \ {a}
  /\ UNCHANGED <<erasing, hostVars>>

-----------------------------------------------------------------------------
(* GDB: erase all blocks, write in ascending order, done. A request whose      *)
(* answer does not come is sent again, whether or not it was carried out.      *)

BeginLoad(p, b) ==
  /\ ~loading /\ ~Busy
  /\ loading' = TRUE /\ plan' = p /\ build' = b /\ left' = DataOf[p]
  /\ request' = "erase" /\ packet' = {}
  /\ flash_erase(EraseOf[p][1], EraseOf[p][2])
  /\ UNCHANGED <<flash, cacheVars, writing>>

SendWrite ==
  /\ loading /\ ~Busy
  /\ \E some \in SUBSET left :
       /\ some # {}
       /\ \A a \in some, b \in left \ some : a < b
       /\ packet' = some /\ writing' = some /\ left' = left \ some
  /\ request' = "write"
  /\ UNCHANGED <<flash, cacheVars, erasing, loading, plan, build>>

SendDone ==
  /\ loading /\ ~Busy /\ left = {}
  /\ flush_flash_cache
  /\ loading' = FALSE /\ request' = "done" /\ packet' = {}
  /\ UNCHANGED <<erasing, writing, plan, build, left>>

SendAgain ==
  /\ ~Busy
  /\ \/ request = "erase" /\ flash_erase(EraseOf[plan][1], EraseOf[plan][2])
        /\ UNCHANGED <<flash, cacheVars, writing>>
     \/ request = "write" /\ writing' = packet /\ UNCHANGED <<flash, cacheVars, erasing>>
     \/ request = "done" /\ flush_flash_cache /\ UNCHANGED <<erasing, writing>>
  /\ UNCHANGED hostVars

\* The Pico starts over, in the middle of a handler or between two; GDB's load
\* fails.
Restart ==
  /\ page_base' = -1 /\ page_bitmap' = {} /\ page_cache' = EmptyPage
  /\ erasing' = <<0, 0>> /\ writing' = {}
  /\ loading' = FALSE /\ left' = {} /\ request' = "none" /\ packet' = {}
  /\ UNCHANGED <<flash, plan, build>>

Next ==
  \/ EraseStep \/ PutByte
  \/ \E p \in Plan, b \in Build : BeginLoad(p, b)
  \/ SendWrite \/ SendDone \/ SendAgain \/ Restart

Spec == Init /\ [][Next]_vars

\* A handler's loop runs; nothing is assumed of the host.
FairSpec == Spec /\ WF_vars(EraseStep) /\ WF_vars(PutByte)

\* GDB goes away between two packets of a load: GDBServer's DISCONNECTED state
\* does not touch the cache.
DropConnection ==
  /\ loading /\ ~Busy
  /\ loading' = FALSE /\ left' = {} /\ request' = "none" /\ packet' = {}
  /\ UNCHANGED <<flash, cacheVars, erasing, writing, plan, build>>
InterruptedSpec == Init /\ [][Next \/ DropConnection]_vars

-----------------------------------------------------------------------------
TypeOK ==
  /\ flash \in [Addr -> Byte \cup {Blank, Garbled}]
  /\ page_base \in Int
  /\ page_cache \in [Offset -> Byte \cup {Blank}]
  /\ page_bitmap \subseteq Offset
  /\ erasing \in Nat \X Nat
  /\ writing \subseteq Addr
  /\ loading \in BOOLEAN
  /\ plan \in Plan /\ build \in Build
  /\ left \subseteq DataOf[plan] /\ packet \subseteq DataOf[plan]
  /\ request \in {"none", "erase", "write", "done"}

\* No byte is programmed over another one, whatever requests are repeated and
\* wherever a load was cut short.
NeverGarbled == \A a \in Addr : flash[a] # Garbled

\* A load that was answered OK to the end is in the flash, byte for byte, and
\* the rest of its blocks is erased ("erasing/writing flash ... should all work"): every
\* byte was handed to write_flash, in its page, once that page was erased.
LoadIsExact ==
  request = "done" =>
    \A a \in Blocks(plan) : flash[a] = IF a \in DataOf[plan] THEN <<build, a>> ELSE Blank

\* The inductive invariant. A load's blocks hold nothing but erased bytes and its
\* own, up to where the erase has come; what was sent is in the flash, in the
\* cache, or still in the packet; and a packet's bytes, the first time or the
\* second, arrive where the duplicate test cannot drop a new one.
Sent == DataOf[plan] \ left
InCache(a) == PageBase(a) = page_base /\ a % PageSize \in page_bitmap

CacheInv ==
  \A o \in Offset :
    IF o \in page_bitmap
    THEN /\ page_base + o \in Sent /\ PageBase(page_base + o) = page_base
         /\ (page_base + o) % PageSize = o
         /\ page_cache[o] = <<build, page_base + o>>
    ELSE page_cache[o] = Blank

IdleInv == ~loading => page_bitmap = {} /\ erasing[2] = 0 /\ writing = {} /\ request \in {"none", "done"}

EraseInv ==
  loading =>
    /\ \/ request = "erase" /\ left = DataOf[plan] /\ page_bitmap = {} /\ packet = {}
       \/ request = "write" /\ erasing[2] = 0
    /\ erasing[1] % PageSize = 0 /\ erasing[2] % PageSize = 0
    /\ erasing[1] >= EraseOf[plan][1]
    /\ erasing[1] + erasing[2] = EraseOf[plan][1] + EraseOf[plan][2]
    /\ \A a \in Blocks(plan) :
         a < erasing[1] => flash[a] = Blank \/ (a \in Sent /\ flash[a] = <<build, a>>)

SentInv ==
  loading =>
    /\ packet \subseteq Sent /\ writing \subseteq packet
    /\ \A a \in Sent, b \in left : a < b
    /\ \A a \in Sent \ writing : flash[a] = <<build, a>> \/ InCache(a)

OrderInv ==
  loading =>
    /\ \A a \in writing :
         PageBase(a) = page_base => a % PageSize \in page_bitmap
                                    \/ \A o \in page_bitmap : o < a % PageSize
    /\ \A a \in packet \ writing :
         /\ PageBase(a) <= page_base
         /\ PageBase(a) = page_base => a % PageSize \in page_bitmap
         /\ \A b \in writing : a < b /\ page_base <= PageBase(b)

IInv ==
  /\ TypeOK /\ NeverGarbled /\ LoadIsExact
  /\ CacheInv /\ IdleInv /\ EraseInv /\ SentInv /\ OrderInv

\* Every handler ends: the erase loop never reaches the branch that makes no
\* progress.
HandlersEnd == Busy ~> ~Busy

\* A load is one step to GDB.
Data(p) == DataOf[p]
Image(b) == [a \in Addr |-> <<b, a>>]
Memory == [a \in Addr |-> IF loading /\ a \in Blocks(plan) THEN Blank ELSE flash[a]]
Open == IF loading THEN Blocks(plan) ELSE {}
Contract == INSTANCE FlashContract WITH memory <- Memory, open <- Open
ImplementsContract == Contract!ContractSpec
=============================================================================
