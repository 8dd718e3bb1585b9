------------------------------ MODULE MCGDBLink -------------------------------
(***************************************************************************)
(* Four requests: "c", "k", one whose body needs an escape and holds a '+', *)
(* and one the stub does not know, answered with an empty packet. A damaged *)
(* byte is lost or turns into '#', '$', '+' or 'x'.                         *)
(***************************************************************************)
EXTENDS GDBLink

MCContinue == <<99>>
MCKill == <<107>>
MCWrite == <<118, 35, 43>>
MCUnknown == <<33>>
MCRequest == {MCContinue, MCKill, MCWrite, MCUnknown}
MCAnswerOf == [r \in MCRequest |-> IF r = MCWrite THEN <<79, 75>> ELSE <<>>]
MCStopped == <<84, 53>>
MCWrong == {35, 36, 43, 120}
=============================================================================
