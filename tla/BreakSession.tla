---------------------------- MODULE BreakSession -----------------------------
(***************************************************************************)
(* A GDB session driving SoftBreak while the hart runs on its own: the     *)
(* packet handlers of GDBServer that touch breakpoints or the hart, the    *)
(* polling superloop, connection and disconnection. A handler runs to      *)
(* completion inside one GDBServer::update call, so it is one action; the  *)
(* hart's own steps interleave with them.                                  *)
(*                                                                         *)
(* Spec is a host that keeps the discipline the code needs and does not    *)
(* enforce. The three Discipline bounds are constants, and the two         *)
(* undisciplined host steps at the end are kept apart, so that each can be *)
(* dropped on its own.                                                     *)
(***************************************************************************)
EXTENDS SoftBreak

CONSTANTS
  HostMax,   \* bound: breakpoints the host keeps inserted at once
  DirtyMax   \* bound: edits of one page between two resumes

ASSUME HostAssumption == HostMax \in Nat /\ DirtyMax \in Nat

VARIABLES
  mode,      \* GDBServer::state, with the packet states folded into "idle"
  prog,      \* the program last loaded, what the flash should hold
  hostBps    \* the breakpoints GDB believes inserted: each Z0 was answered OK

hostVars == <<mode, prog, hostBps>>
vars == <<targetVars, softVars, hostVars>>

\* Every breakpoint GDB may set lies in one page, overlaps no other, and is not
\* in the last halfword or word of the flash (set_breakpoint rejects those).
LayoutInPage ==
  /\ \A s \in Site : \A c \in Span(s, SizeOf[s]) : PageOf(c) = PageOf(s)
  /\ \A s, t \in Site : s # t => Span(s, SizeOf[s]) \cap Span(t, SizeOf[t]) = {}
  /\ \A s \in Site : s < FlashSize - SizeOf[s]

\* What the host must respect for the code to be right: the layout, the size
\* of the breakpoint table, and the range of the uint8_t in dirty_map.
Discipline == LayoutInPage /\ HostMax <= BreakpointMax /\ DirtyMax <= 255

Init ==
  /\ prog \in [Page -> Code] /\ flash = [c \in Cell |-> prog[PageOf(c)]]
  /\ hart \in {"running", "halted"}
  /\ pc \in Site
  /\ ebreakm \in BOOLEAN
  /\ havereset \in BOOLEAN
  /\ SoftInit
  /\ mode = "disconnected"
  /\ hostBps = {}

-----------------------------------------------------------------------------
(* Connection, and the packets handled while the target is stopped *)

Connect ==
  /\ mode = "disconnected"
  /\ Halt
  /\ mode' = "idle"
  /\ UNCHANGED <<prog, hostBps>>

\* Z0 and Z1: both insert into SoftBreak's table, and both always answer OK.
handle_Z0(s) ==
  /\ mode = "idle"
  /\ Cardinality(hostBps \cup {s}) <= HostMax
  /\ s \in hostBps \/ dirty_map[PageOf(s)] < DirtyMax
  /\ SetBreakpoint(s, SizeOf[s])
  /\ hostBps' = hostBps \cup {s}
  /\ UNCHANGED <<mode, prog>>

handle_z0(s) ==
  /\ mode = "idle"
  /\ s \notin hostBps \/ dirty_map[PageOf(s)] < DirtyMax
  /\ ClearBreakpoint(s, SizeOf[s])
  /\ hostBps' = hostBps \ {s}
  /\ UNCHANGED <<mode, prog>>

\* Mutant: the hart is asked instead of the flag that resume() left.
handle_cAsksHart(from) ==
  /\ mode = "idle"
  /\ Resume(from, BpSet)
  /\ mode' = IF hart' = "halted" THEN "idle" ELSE "running"
  /\ UNCHANGED <<tableVars, prog, hostBps>>

\* c, optionally with an address: T05 at once if the step hit a breakpoint.
handle_c(from) ==
  /\ mode = "idle"
  /\ Resume(from, BpSet)
  /\ mode' = IF halted' THEN "idle" ELSE "running"
  /\ UNCHANGED <<tableVars, prog, hostBps>>

handle_s == mode = "idle" /\ Step /\ UNCHANGED hostVars

\* qRcmd "reset" and vKill.
MonitorReset == mode = "idle" /\ Reset /\ UNCHANGED hostVars

\* k: no reply, and nothing more is done for this session. GDB has taken its
\* breakpoints out by then.
handle_k ==
  /\ mode = "idle"
  /\ hostBps = {}
  /\ mode' = "killed"
  /\ UNCHANGED <<targetVars, softVars, prog, hostBps>>

\* vFlashErase, vFlashWrite and vFlashDone, one page at a time.
WritePage(p, build) ==
  /\ mode = "idle"
  /\ WritePages({p}, [c \in Cell |-> build])
  /\ prog' = [prog EXCEPT ![p] = build]
  /\ UNCHANGED <<hart, pc, ebreakm, havereset, softVars, mode, hostBps>>

\* The host loads a page only when SoftBreak has no copy of it in use.
LoadPage(p, build) ==
  /\ break_map[p] = 0 /\ dirty_map[p] = 0
  /\ WritePage(p, build)

-----------------------------------------------------------------------------
(* While the target runs *)

\* Ctrl-C: halt the hart wherever it is.
Break ==
  /\ mode = "running"
  /\ Halt
  /\ mode' = "idle"
  /\ UNCHANGED <<prog, hostBps>>

\* Mutant: the check is the wrong way round.
PollRunning ==
  /\ mode = "running"
  /\ hart = "running"
  /\ Halt
  /\ mode' = "idle"
  /\ UNCHANGED <<prog, hostBps>>

\* The periodic ALLHALTED check.
Poll ==
  /\ mode = "running"
  /\ hart = "halted"
  /\ Halt
  /\ mode' = "idle"
  /\ UNCHANGED <<prog, hostBps>>

Hart == HartStep /\ UNCHANGED <<softVars, hostVars>>

DropConnection ==
  /\ mode # "disconnected"
  /\ ClearAllBreakpoints
  /\ Resume(pc, {})
  /\ mode' = "disconnected"
  /\ hostBps' = {}
  /\ UNCHANGED prog

\* GDB detaches: its breakpoints are out.
Disconnect == hostBps = {} /\ DropConnection

\* The Pico loses power or is flashed, and starts over: everything is forgotten
\* but what the target holds. Resetting the debug module may leave the hart
\* running and EBREAKM either way.
PicoRestart ==
  /\ hart' \in {hart, "running"}
  /\ ebreakm' \in BOOLEAN
  /\ UNCHANGED <<flash, pc, havereset, prog>>
  /\ SoftRestart
  /\ mode' = "disconnected"
  /\ hostBps' = {}

\* The restart this code can afford: no ebreak is in the flash.
Restart == (halted \/ hostBps = {}) /\ PicoRestart

-----------------------------------------------------------------------------
(* The UART console beside the session. Its "reset" and "soft_step", given while
   GDB holds the target stopped, are MonitorReset and handle_s again. *)

\* "soft_halt", in any mode: GDBServer is not told.
ConsoleHalt == Halt /\ UNCHANGED hostVars

\* "soft_resume", by an operator who leaves alone what GDB has stopped.
ConsoleResume ==
  /\ mode = "disconnected"
  /\ Resume(pc, BpSet)
  /\ UNCHANGED <<tableVars, hostVars>>

-----------------------------------------------------------------------------
Next ==
  \/ Connect \/ handle_s \/ MonitorReset \/ handle_k \/ Break \/ Poll \/ Hart \/ Disconnect
  \/ Restart \/ ConsoleHalt \/ ConsoleResume
  \/ \E s \in Site : handle_Z0(s) \/ handle_z0(s) \/ handle_c(s)
  \/ \E p \in Page, build \in Code : LoadPage(p, build)

Spec == Init /\ [][Next]_vars

\* The superloop keeps calling update, whose timer keeps polling; a running
\* hart keeps executing. Nothing is assumed of the host.
Fairness == WF_vars(Poll) /\ WF_vars(Hart)
FairSpec == Spec /\ Fairness

\* The host steps the code does not guard against: a load, once GDB has taken its
\* breakpoints out, over a page SoftBreak still has a copy of; and a connection
\* lost with breakpoints inserted.
Reload == hostBps = {} /\ \E p \in Page, build \in Code : WritePage(p, build)
ReloadSpec == Init /\ [][Next \/ Reload]_vars
LostConnectionSpec == Init /\ [][Next \/ DropConnection]_vars

-----------------------------------------------------------------------------
(* The invariant. Its parts hold together or not at all: what patch_flash may
   write depends on the copies, the copies on the maps, the maps on the table. *)

TypeOK ==
  /\ TargetTypeOK
  /\ SoftTypeOK
  /\ mode \in {"disconnected", "idle", "running", "killed"}
  /\ prog \in [Page -> Code]
  /\ hostBps \subseteq Site

\* mem holds at c what it should with exactly the breakpoints S inserted.
PatchedAt(mem, S, c) ==
  /\ \A s \in S : c \in Span(s, SizeOf[s]) => mem[c] = EbreakAt(s, SizeOf[s], c)
  /\ (\A s \in S : c \notin Span(s, SizeOf[s])) => mem[c] = prog[PageOf(c)]

\* SoftBreak holds a copy of page p that it may still write to the device.
Captured(p) == break_map[p] # 0 \/ dirty_map[p] # 0 \/ flash_map[p] # 0

\* The copies of a page in use are the program, and the program with this
\* page's breakpoints: neither goes stale, and an insert, a removal, or a
\* re-capture never leaves an ebreak of a removed breakpoint behind
\* (SoftBreak.h, "cached flash contents w/ breakpoints inserted").
CopiesMatchProgram ==
  \A c \in Cell : Captured(PageOf(c)) =>
    /\ flash_clean[c] = prog[PageOf(c)]
    /\ PatchedAt(flash_dirty, BpSet, c)

\* While SoftBreak is halted the device holds the program alone, and every
\* page with a breakpoint is marked to be patched on resume.
CleanWhileHalted ==
  halted => /\ \A c \in Cell : flash[c] = prog[PageOf(c)]
            /\ \A p \in Page : flash_map[p] = 0 /\ (break_map[p] # 0 => dirty_map[p] # 0)

\* While the target runs the device holds the program with exactly the
\* inserted breakpoints, and flash_map names the pages to unpatch.
PatchedWhileRunning ==
  ~halted => /\ \A c \in Cell : PatchedAt(flash, BpSet, c)
             /\ \A p \in Page : flash_map[p] = break_map[p] /\ dirty_map[p] = 0

\* The maps and the count agree with the table ("Number of breakpoints set, per
\* page"), and no breakpoint takes two slots.
CountsMatchTable ==
  /\ \A i, j \in Slot : breakpoints[i] = breakpoints[j] /\ breakpoints[i] # EMPTY => i = j
  /\ \A p \in Page : break_map[p] = Cardinality(BpsIn(p))
  /\ breakpoint_count = Cardinality(BpSet)

\* GDB believes inserted exactly what is in the table, though every Z0 and z0
\* is answered OK whatever SoftBreak made of it.
HostAgrees == BpSet = hostBps

\* The session's state and SoftBreak's belief agree: packets are handled only
\* while the hart really is halted, no breakpoint outlives a session, and what
\* SoftBreak believes halted is, whoever halted it and after a restart too.
ModeMatchesHart ==
  /\ mode \in {"idle", "killed"} => halted
  /\ mode \in {"disconnected", "killed"} => hostBps = {}
  /\ halted => hart = "halted"

\* A hart that stopped by itself stands on a breakpoint GDB inserted, unless an
\* unacknowledged reset kept it from starting.
StopsOnlyAtBreakpoints ==
  ~halted /\ hart = "halted" => havereset \/ (ebreakm /\ pc \in hostBps)

\* With no session open, closed or cut short by a restart of the Pico, the device
\* holds the program and nothing else.
NothingLeftBehind ==
  mode = "disconnected" => \A c \in Cell : flash[c] = prog[PageOf(c)]

\* The inductive invariant: every part above but the last, which follows.
IInv ==
  /\ TypeOK
  /\ CopiesMatchProgram
  /\ CleanWhileHalted
  /\ PatchedWhileRunning
  /\ CountsMatchTable
  /\ HostAgrees
  /\ ModeMatchesHart
  /\ StopsOnlyAtBreakpoints

-----------------------------------------------------------------------------
(* What a step may never do, and what must happen *)

\* A running hart whose breakpoints are armed never executes an instruction GDB
\* has a breakpoint on ("Patches flash to insert breakpoints on resume").
NeverRunsOverBreakpoint ==
  [][hart = "running" /\ mode = "running" /\ ebreakm /\ pc \in hostBps => pc' = pc]_vars

\* "Unpatches flash on halt": the halt that ends a run restores the whole
\* program, and a resume that hits a breakpoint at once writes no flash.
FlashFollowsHalted ==
  [][/\ ~halted /\ halted' => flash' = [c \in Cell |-> prog[PageOf(c)]]
     /\ halted /\ halted' /\ prog' = prog => flash' = flash]_vars

\* A hart that reaches an armed breakpoint is reported to GDB, or GDB has
\* stopped it or gone.
BreakpointReported ==
  mode = "running" /\ hart = "running" /\ ebreakm /\ pc \in hostBps ~> mode # "running"

\* SoftBreak makes a target without breakpoints behave like the contract's.
Contract == INSTANCE DebugContract WITH
  run    <- IF halted THEN "halted" ELSE IF hart = "running" THEN "running" ELSE "stopped",
  at     <- pc,
  bps    <- BpSet,
  memory <- IF halted THEN flash ELSE [c \in Cell |-> prog[PageOf(c)]],
  armed  <- ebreakm,
  held   <- havereset

ImplementsContract == Contract!ContractSpec
=============================================================================
