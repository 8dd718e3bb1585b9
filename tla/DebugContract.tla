---------------------------- MODULE DebugContract ----------------------------
(***************************************************************************)
(* What GDB is promised of a target with breakpoints: the program memory   *)
(* it sees is the program it loaded, a hart that runs stops in front of a  *)
(* breakpointed instruction and nowhere else, and a stopped hart moves     *)
(* only when told to. There is no flash patching here, no page maps and no *)
(* shadow copies: SoftBreak has to make a target without breakpoints       *)
(* behave like this one.                                                   *)
(***************************************************************************)
CONSTANTS Site, Cell, Code, ResetPc, PageOf(_)

VARIABLES
  run,      \* "halted", "running", or "stopped": halted and not yet reported
  at,       \* the pc
  bps,      \* the breakpoints inserted
  memory,   \* the program, as the debugger reads it and the hart executes it
  armed,    \* breakpoints stop the hart
  held      \* an unacknowledged reset keeps the hart from moving

contractVars == <<run, at, bps, memory, armed, held>>

ContractInit ==
  /\ run \in {"halted", "running"}
  /\ at \in Site
  /\ bps = {}
  /\ memory \in [Cell -> Code]
  /\ armed \in BOOLEAN
  /\ held \in BOOLEAN

\* Where one instruction from `from` may lead.
Moves(from) == IF held THEN {from} ELSE Site

Interrupt ==
  /\ run # "halted"
  /\ run' = "halted"
  /\ UNCHANGED <<at, bps, memory, armed, held>>

Insert(s) ==
  /\ run = "halted"
  /\ bps' = bps \cup {s}
  /\ UNCHANGED <<run, at, memory, armed, held>>

Remove(s) ==
  /\ run = "halted"
  /\ bps' = bps \ {s}
  /\ UNCHANGED <<run, at, memory, armed, held>>

\* Continue, optionally from another address: the first instruction always
\* runs, whether or not it carries a breakpoint.
Go(from) ==
  /\ run = "halted"
  /\ at' \in Moves(from)
  /\ run' = IF at' \in bps THEN "halted" ELSE IF held THEN "stopped" ELSE "running"
  /\ UNCHANGED <<bps, memory, armed, held>>

StepOne ==
  /\ run = "halted"
  /\ at' \in Moves(at)
  /\ UNCHANGED <<run, bps, memory, armed, held>>

Execute ==
  /\ run = "running"
  /\ at \in bps => ~armed
  /\ at' \in Site
  /\ UNCHANGED <<run, bps, memory, armed, held>>

Trap ==
  /\ run = "running"
  /\ at \in bps /\ armed
  /\ run' = "stopped"
  /\ UNCHANGED <<at, bps, memory, armed, held>>

ResetHart ==
  /\ run = "halted"
  /\ at' = ResetPc
  /\ armed' = TRUE
  /\ held' = FALSE
  /\ UNCHANGED <<run, bps, memory>>

Load(p, build) ==
  /\ run = "halted"
  /\ memory' = [c \in Cell |-> IF PageOf(c) = p THEN build ELSE memory[c]]
  /\ UNCHANGED <<run, at, bps, armed, held>>

\* The debugger itself starts over, with no breakpoints inserted. A hart that was
\* not running may be found stopped or be let go.
StartOver ==
  /\ bps' = {}
  /\ run' \in IF run = "running" THEN {"running"} ELSE {"halted", "running"}
  /\ armed' \in BOOLEAN
  /\ UNCHANGED <<at, memory, held>>

ContractNext ==
  \/ StartOver \/ Interrupt \/ StepOne \/ Execute \/ Trap \/ ResetHart
  \/ \E s \in Site : Insert(s) \/ Remove(s) \/ Go(s)
  \/ \E c \in Cell, build \in Code : Load(PageOf(c), build)

ContractSpec == ContractInit /\ [][ContractNext]_contractVars
=============================================================================
