----------------------------- MODULE MCRegCache ------------------------------
(***************************************************************************)
(* Three registers: one every program clobbers (a0), one only the flash    *)
(* programs do (s0), one that none does. The programs share a word.        *)
(***************************************************************************)
EXTENDS RegCache

CONSTANTS get_set_u32, write_flash, wLui, wLoad, wStore, wEbreak

MCProgWord == 0..2
MCProg == {get_set_u32, write_flash}
MCWordOf ==
  [p \in MCProg |-> [i \in MCProgWord |->
     CASE i = 0 -> IF p = get_set_u32 THEN wLui ELSE wLoad
       [] i = 1 -> IF p = get_set_u32 THEN wLoad ELSE wStore
       [] i = 2 -> wEbreak]]
MCClobberOf == [p \in MCProg |-> IF p = get_set_u32 THEN {0} ELSE {0, 1}]
=============================================================================
