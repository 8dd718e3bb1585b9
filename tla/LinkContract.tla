----------------------------- MODULE LinkContract -----------------------------
(***************************************************************************)
(* What the packet link promises: a request that was sent is carried out   *)
(* once, with the bytes that were sent, and answered once, with its own    *)
(* answer; a resumed target answers when it stops, and only then.          *)
(***************************************************************************)
CONSTANTS Request, Continue, Kill, Answer(_), Stopped, Nothing

VARIABLES
  phase,     \* where the exchange stands
  asked,     \* the request it is about
  answer     \* the answer taken

contractVars == <<phase, asked, answer>>

ContractInit == phase = "closed" /\ asked \in Request /\ answer = Nothing

Open  == phase = "closed" /\ phase' = "ready" /\ UNCHANGED <<asked, answer>>
Close == phase' = "closed" /\ answer' = Nothing /\ UNCHANGED asked
Ask   == phase = "ready" /\ phase' = "asked" /\ asked' \in Request /\ answer' = Nothing

Carry ==
  /\ phase = "asked"
  /\ phase' \in IF asked = Continue THEN {"running", "answered"}
                ELSE IF asked = Kill THEN {"killed"} ELSE {"answered"}
  /\ UNCHANGED <<asked, answer>>
Stop == phase = "running" /\ phase' = "answered" /\ UNCHANGED <<asked, answer>>

Take ==
  /\ phase = "answered" /\ phase' = "ready"
  /\ answer' = IF asked = Continue THEN Stopped ELSE Answer(asked)
  /\ UNCHANGED asked

ContractNext == Open \/ Close \/ Ask \/ Carry \/ Stop \/ Take
ContractSpec == ContractInit /\ [][ContractNext]_contractVars
=============================================================================
