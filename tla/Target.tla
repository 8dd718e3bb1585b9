------------------------------- MODULE Target -------------------------------
(***************************************************************************)
(* The CH32V003 as the debugger sees it: program flash, one hart, and the  *)
(* debug-module operations of RVDebug and WCHFlash that move them.         *)
(*                                                                         *)
(* Flash is a function from the tracked halfword addresses (Cell) to what  *)
(* they hold. A program halfword is identified by the build it belongs to  *)
(* (Code); the patch written over an instruction is c.ebreak, or the two   *)
(* halves of ebreak.                                                       *)
(***************************************************************************)
EXTENDS Integers, FiniteSets

CONSTANTS
  Cell,    \* tracked halfword addresses of the 16 KB flash
  Site,    \* tracked instruction addresses: where the pc and breakpoints go
  SizeOf,  \* the breakpoint size the host uses at each site (GDB's "kind")
  Code,    \* the builds a flash page may hold
  ResetPc  \* the reset vector

FlashSize == 16384      \* 0x4000, WCHFlash's flash_size and SoftBreak's limit
PageBytes == 64         \* WCHFlash::page_size
PageOf(addr) == addr \div PageBytes
Page == {PageOf(c) : c \in Cell}

\* The halfwords a breakpoint of that many bytes covers.
Span(addr, size) == IF size = 2 THEN {addr} ELSE {addr, addr + 2}

EbreakWord == {"c.ebreak", "ebreak.lo", "ebreak.hi"}
Word == Code \cup EbreakWord \cup {"zero"}

ASSUME TargetAssumption ==
  /\ IsFiniteSet(Cell)
  /\ Cell \subseteq {c \in 0..(FlashSize - 1) : c % 2 = 0}
  /\ Site \subseteq Cell
  /\ SizeOf \in [Site -> {2, 4}]
  /\ ResetPc \in Site
  /\ \A s \in Site : Span(s, SizeOf[s]) \subseteq Cell
  /\ Code \cap (EbreakWord \cup {"zero"}) = {}

VARIABLES
  flash,      \* [Cell -> Word]: the device's program memory
  hart,       \* "running" or "halted" (dmstatus.ALLHALTED)
  pc,         \* dpc while halted, the hart's pc while running
  ebreakm,    \* dcsr.EBREAKM: ebreak enters debug mode instead of trapping
  havereset   \* dmstatus.ALLHAVERESET, sticky until acknowledged

targetVars == <<flash, hart, pc, ebreakm, havereset>>

TargetTypeOK ==
  /\ flash \in [Cell -> Word]
  /\ hart \in {"running", "halted"}
  /\ pc \in Site
  /\ ebreakm \in BOOLEAN
  /\ havereset \in BOOLEAN

-----------------------------------------------------------------------------
(* What one debug-module transaction sequence does to the hart. *)

\* RVDebug::halt: request a halt and wait for ALLHALTED.
RvdHalt == hart' = "halted" /\ UNCHANGED <<pc, ebreakm, havereset>>

\* A whole ebreak instruction starts at addr.
EbreakIn(addr) == \/ flash[addr] = "c.ebreak"
                  \/ flash[addr] = "ebreak.lo" /\ flash[addr + 2] = "ebreak.hi"

\* Where RVDebug::step from address `from` can stop: step() returns early while
\* ALLHAVERESET is set and an ebreak re-enters debug mode at itself; any other
\* instruction may send control anywhere.
StepTargets(from) ==
  IF havereset \/ (ebreakm /\ EbreakIn(from)) THEN {from} ELSE Site

\* RVDebug::resume: refuses while ALLHAVERESET is set.
RvdResume == hart' = IF havereset THEN hart ELSE "running"

\* RVDebug::reset: reset the hart and hold it halted at its first instruction,
\* acknowledge the reset, and turn EBREAKM on (enable_breakpoints).
RvdReset ==
  /\ hart' = "halted"
  /\ pc' = ResetPc
  /\ ebreakm' = TRUE
  /\ havereset' = FALSE

\* WCHFlash::wipe_page and write_flash of whole pages from a shadow buffer. They are
\* taken as exact, which a comment above write_flash denies for the first word of the
\* first write after a start of the Pico; FlashStream has that fault.
WritePages(pages, buffer) ==
  flash' = [c \in Cell |-> IF PageOf(c) \in pages THEN buffer[c] ELSE flash[c]]

-----------------------------------------------------------------------------
(* The hart running on its own. *)

\* It executes an instruction. With EBREAKM clear an ebreak is an exception
\* the program's own handler takes: the hart does not stop.
HartExecute ==
  /\ hart = "running"
  /\ EbreakIn(pc) => ~ebreakm
  /\ pc' \in Site
  /\ UNCHANGED <<flash, hart, ebreakm, havereset>>

\* It executes an ebreak with EBREAKM set and enters debug mode.
HartTrap ==
  /\ hart = "running"
  /\ EbreakIn(pc) /\ ebreakm
  /\ hart' = "halted"
  /\ UNCHANGED <<flash, pc, ebreakm, havereset>>

HartStep == HartExecute \/ HartTrap
=============================================================================
