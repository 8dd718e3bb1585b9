--------------------------- MODULE MCBreakSession ---------------------------
(***************************************************************************)
(* Small instances of BreakSession for TLC.                                *)
(***************************************************************************)
EXTENDS BreakSession

\* Two pages; in the first a full-size and a compressed breakpoint, in the
\* second two compressed ones. GDB uses the full size on aligned addresses.
TwoPageCell == {0, 2, 4, 64, 66}
TwoPageSite == {0, 4, 64, 66}
TwoPageSize == [s \in TwoPageSite |-> IF s = 0 THEN 4 ELSE 2]
=============================================================================
