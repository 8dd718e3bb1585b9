------------------------------ MODULE SoftBreak ------------------------------
(***************************************************************************)
(* SoftBreak: software breakpoints by patching flash on resume and         *)
(* unpatching it on halt. One operator per method; a method that only      *)
(* returns early leaves everything unchanged.                              *)
(***************************************************************************)
EXTENDS Target

CONSTANT BreakpointMax    \* breakpoint_max, 32 in the code

ASSUME BreakpointMaxAssumption == BreakpointMax \in 1..255

Slot == 0..(BreakpointMax - 1)
EMPTY == -1               \* BP_EMPTY

VARIABLES
  halted,            \* SoftBreak's belief about the hart, never read back
  breakpoints,       \* [Slot -> Site \cup {EMPTY}]
  breakpoint_count,
  flash_clean,       \* page copies captured from the device
  flash_dirty,       \* the same with the breakpoints inserted
  break_map,         \* breakpoints set, per page (uint8_t)
  flash_map,         \* breakpoints written to the device, per page (uint8_t)
  dirty_map          \* nonzero: the device page differs from flash_dirty

tableVars == <<breakpoints, breakpoint_count>>
mapVars   == <<break_map, flash_map, dirty_map>>
softVars  == <<halted, tableVars, flash_clean, flash_dirty, mapVars>>

\* The breakpoints set, and those in one page.
BpSet == {breakpoints[i] : i \in Slot} \ {EMPTY}
BpsIn(p) == {s \in BpSet : PageOf(s) = p}

SoftTypeOK ==
  /\ halted \in BOOLEAN
  /\ breakpoints \in [Slot -> Site \cup {EMPTY}]
  /\ breakpoint_count \in Int
  /\ flash_clean \in [Cell -> Word]
  /\ flash_dirty \in [Cell -> Word]
  /\ break_map \in [Page -> 0..255]
  /\ flash_map \in [Page -> 0..255]
  /\ dirty_map \in [Page -> 0..255]

\* Mutant: init() not called, the table holds whatever `new` returned.
SoftInitNoTable ==
  /\ halted = (hart = "halted")
  /\ breakpoints = [i \in Slot |-> 1]
  /\ breakpoint_count = 0
  /\ flash_clean = [c \in Cell |-> "zero"]
  /\ flash_dirty = [c \in Cell |-> "zero"]
  /\ break_map = [p \in Page |-> 0]
  /\ flash_map = [p \in Page |-> 0]
  /\ dirty_map = [p \in Page |-> 0]

\* SoftBreak::init
SoftInit ==
  /\ halted = (hart = "halted")
  /\ breakpoints = [i \in Slot |-> EMPTY]
  /\ breakpoint_count = 0
  /\ flash_clean = [c \in Cell |-> "zero"]
  /\ flash_dirty = [c \in Cell |-> "zero"]
  /\ break_map = [p \in Page |-> 0]
  /\ flash_map = [p \in Page |-> 0]
  /\ dirty_map = [p \in Page |-> 0]

\* The same once the hart has come to its new state.
SoftRestart ==
  /\ halted' = (hart' = "halted")
  /\ breakpoints' = [i \in Slot |-> EMPTY]
  /\ breakpoint_count' = 0
  /\ flash_clean' = [c \in Cell |-> "zero"]
  /\ flash_dirty' = [c \in Cell |-> "zero"]
  /\ break_map' = [p \in Page |-> 0]
  /\ flash_map' = [p \in Page |-> 0]
  /\ dirty_map' = [p \in Page |-> 0]

\* Mutant: a counter of two bits.
IncTwoBits(map, p) == [map EXCEPT ![p] = (@ + 1) % 4]
Inc(map, p) == [map EXCEPT ![p] = (@ + 1) % 256]
Dec(map, p) == [map EXCEPT ![p] = (@ - 1) % 256]

-----------------------------------------------------------------------------
(* halt and resume *)

\* Mutant: the page is not marked to be patched again.
UnpatchOnce ==
  LET patched == {p \in Page : flash_map[p] # 0}
  IN  /\ WritePages(patched, flash_clean)
      /\ flash_map' = [p \in Page |-> 0]
      /\ UNCHANGED dirty_map
\* Mutant: the wrong one of the two buffers.
UnpatchFromDirty ==
  LET patched == {p \in Page : flash_map[p] # 0}
  IN  /\ WritePages(patched, flash_dirty)
      /\ flash_map' = [p \in Page |-> 0]
      /\ dirty_map' = [p \in Page |-> IF p \in patched THEN 1 ELSE dirty_map[p]]
\* unpatch_flash: put the clean copy back in every page with a patch.
UnpatchFlash ==
  LET patched == {p \in Page : flash_map[p] # 0}
  IN  /\ WritePages(patched, flash_clean)
      /\ flash_map' = [p \in Page |-> 0]
      /\ dirty_map' = [p \in Page |-> IF p \in patched THEN 1 ELSE dirty_map[p]]

\* patch_flash: write flash_dirty to every page whose breakpoints changed.
PatchFlash ==
  LET stale == {p \in Page : dirty_map[p] # 0}
  IN  /\ WritePages(stale, flash_dirty)
      /\ flash_map' = [p \in Page |-> IF p \in stale THEN break_map[p] ELSE flash_map[p]]
      /\ dirty_map' = [p \in Page |-> 0]

AlreadyHalted == halted /\ UNCHANGED <<targetVars, softVars>>

\* Mutant: flash is left patched.
HaltOnly ==
  /\ ~halted
  /\ halted' = TRUE
  /\ RvdHalt
  /\ UNCHANGED <<flash, tableVars, flash_clean, flash_dirty, mapVars>>

HaltAndUnpatch ==
  /\ ~halted
  /\ halted' = TRUE
  /\ RvdHalt
  /\ UnpatchFlash
  /\ UNCHANGED <<tableVars, flash_clean, flash_dirty, break_map>>

Halt == AlreadyHalted \/ HaltAndUnpatch

\* resume: step once; on a breakpoint stay halted, else patch and run. `bps` is
\* the table the search reads; the code's result is ~halted'. The table itself
\* is left to the caller.
Resume(from, bps) ==
  \/ /\ ~halted
     /\ UNCHANGED <<targetVars, halted, flash_clean, flash_dirty, mapVars>>
  \/ /\ halted
     /\ pc' \in StepTargets(from) \cap bps
     /\ UNCHANGED <<flash, hart, ebreakm, havereset, halted, flash_clean, flash_dirty, mapVars>>
  \/ /\ halted
     /\ pc' \in StepTargets(from) \ bps
     /\ PatchFlash
     /\ halted' = FALSE
     /\ RvdResume
     /\ UNCHANGED <<ebreakm, havereset, flash_clean, flash_dirty, break_map>>

\* step: only the hart moves.
Step ==
  /\ pc' \in StepTargets(pc)
  /\ UNCHANGED <<flash, hart, ebreakm, havereset, softVars>>

\* reset: the hart is halted at the reset vector, SoftBreak is not told.
Reset == RvdReset /\ UNCHANGED <<flash, softVars>>

-----------------------------------------------------------------------------
(* The breakpoint table *)

\* Mutant: the limit of a page instead of the flash's.
BadAddressInPage(addr, size) ==
  size \notin {2, 4} \/ addr >= PageBytes - size \/ addr % 2 = 1
BadAddress(addr, size) ==
  \/ size \notin {2, 4}
  \/ addr >= FlashSize - size
  \/ addr % 2 = 1

EbreakAt(addr, size, c) ==
  IF size = 2 THEN "c.ebreak" ELSE IF c = addr THEN "ebreak.lo" ELSE "ebreak.hi"

\* Mutants: only the first halfword is written.
PutEbreakLow(buffer, addr, size) ==
  [c \in Cell |-> IF c = addr THEN EbreakAt(addr, size, c) ELSE buffer[c]]
RestoreLow(buffer, addr, size) ==
  [c \in Cell |-> IF c = addr THEN flash_clean[c] ELSE buffer[c]]

\* The shadow buffer with an ebreak, or the original word, over the span.
PutEbreak(buffer, addr, size) ==
  [c \in Cell |-> IF c \in Span(addr, size) THEN EbreakAt(addr, size, c) ELSE buffer[c]]
RestoreSpan(buffer, addr, size) ==
  [c \in Cell |-> IF c \in Span(addr, size) THEN flash_clean[c] ELSE buffer[c]]

\* get_block_aligned and memcpy of a page into a shadow buffer.
CapturePage(p, buffer) ==
  [c \in Cell |-> IF PageOf(c) = p THEN flash[c] ELSE buffer[c]]

IsFirstFree(i) == breakpoints[i] = EMPTY /\ \A j \in Slot : j < i => breakpoints[j] # EMPTY

\* Mutant: the same address twice.
RejectSetNotTwice(addr, size) ==
  \/ BadAddress(addr, size)
  \/ \A i \in Slot : breakpoints[i] # EMPTY
RejectSet(addr, size) ==
  \/ BadAddress(addr, size)
  \/ addr \in BpSet
  \/ \A i \in Slot : breakpoints[i] # EMPTY

\* Mutant: the page is never captured.
AcceptSetNoCapture(addr, size) ==
  /\ \E i \in Slot : IsFirstFree(i) /\ breakpoints' = [breakpoints EXCEPT ![i] = addr]
  /\ breakpoint_count' = breakpoint_count + 1
  /\ break_map' = Inc(break_map, PageOf(addr))
  /\ dirty_map' = Inc(dirty_map, PageOf(addr))
  /\ flash_dirty' = PutEbreak(flash_dirty, addr, size)
  /\ UNCHANGED <<targetVars, halted, flash_clean, flash_map>>

AcceptSet(addr, size) ==
  LET p == PageOf(addr)
      first == break_map'[p] = 1
  IN  /\ \E i \in Slot : /\ IsFirstFree(i)
                         /\ breakpoints' = [breakpoints EXCEPT ![i] = addr]
      /\ breakpoint_count' = breakpoint_count + 1
      /\ break_map' = Inc(break_map, p)
      /\ dirty_map' = Inc(dirty_map, p)
      /\ flash_clean' = IF first THEN CapturePage(p, flash_clean) ELSE flash_clean
      /\ flash_dirty' =
           PutEbreak(IF first THEN CapturePage(p, flash_dirty) ELSE flash_dirty, addr, size)
      /\ UNCHANGED <<targetVars, halted, flash_map>>

SetBreakpoint(addr, size) ==
  \/ RejectSet(addr, size) /\ UNCHANGED <<targetVars, softVars>>
  \/ ~RejectSet(addr, size) /\ AcceptSet(addr, size)

RejectClear(addr, size) == BadAddress(addr, size) \/ addr \notin BpSet

\* Mutant: the ebreak stays in flash_dirty.
AcceptClearNoRestore(addr, size) ==
  /\ \E i \in Slot : breakpoints[i] = addr /\ breakpoints' = [breakpoints EXCEPT ![i] = EMPTY]
  /\ breakpoint_count' = breakpoint_count - 1
  /\ break_map' = Dec(break_map, PageOf(addr))
  /\ dirty_map' = Inc(dirty_map, PageOf(addr))
  /\ UNCHANGED <<targetVars, halted, flash_clean, flash_dirty, flash_map>>

AcceptClear(addr, size) ==
  LET p == PageOf(addr)
  IN  /\ \E i \in Slot : /\ breakpoints[i] = addr
                         /\ \A j \in Slot : j < i => breakpoints[j] # addr
                         /\ breakpoints' = [breakpoints EXCEPT ![i] = EMPTY]
      /\ breakpoint_count' = breakpoint_count - 1
      /\ break_map' = Dec(break_map, p)
      /\ dirty_map' = Inc(dirty_map, p)
      /\ flash_dirty' = RestoreSpan(flash_dirty, addr, size)
      /\ UNCHANGED <<targetVars, halted, flash_clean, flash_map>>

ClearBreakpoint(addr, size) ==
  \/ RejectClear(addr, size) /\ UNCHANGED <<targetVars, softVars>>
  \/ ~RejectClear(addr, size) /\ AcceptClear(addr, size)

\* clear_all_breakpoints: the page maps and flash_dirty are not touched.
ClearAllBreakpoints ==
  /\ breakpoints' = [i \in Slot |-> EMPTY]
  /\ breakpoint_count' = 0
=============================================================================
