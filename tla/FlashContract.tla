---------------------------- MODULE FlashContract ----------------------------
(***************************************************************************)
(* What GDB is promised of "load": the bytes of the blocks it erases and   *)
(* writes change together from the old program to the new one, no other    *)
(* byte changes, and a load that is cut short leaves every byte of its own *)
(* blocks either erased or holding a byte somebody loaded.                 *)
(***************************************************************************)
CONSTANTS Addr, Byte, Blank, Plan, Build, Blocks(_), Data(_), Image(_)

VARIABLES
  memory,   \* the program memory; the blocks of an open load count as erased
  open      \* the blocks of the load in progress, {} when there is none

contractVars == <<memory, open>>

ContractInit == memory \in [Addr -> Byte \cup {Blank}] /\ open = {}

Begin(p) ==
  /\ open = {}
  /\ open' = Blocks(p)
  /\ memory' = [a \in Addr |-> IF a \in Blocks(p) THEN Blank ELSE memory[a]]

Finish(p, b) ==
  /\ open = Blocks(p)
  /\ open' = {}
  /\ memory' = [a \in Addr |-> IF a \in Data(p) THEN Image(b)[a] ELSE memory[a]]

Abandon ==
  /\ open' = {}
  /\ memory' \in [Addr -> Byte \cup {Blank}]
  /\ \A a \in Addr \ open : memory'[a] = memory[a]

ContractNext == Abandon \/ \E p \in Plan : Begin(p) \/ \E b \in Build : Finish(p, b)
ContractSpec == ContractInit /\ [][ContractNext]_contractVars
=============================================================================
