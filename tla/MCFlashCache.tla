---------------------------- MODULE MCFlashCache -----------------------------
(***************************************************************************)
(* Nine bytes: offsets on both sides of the bits where the duplicate test  *)
(* changes its meaning (31, 32, 63), a second page, and pages at the edges *)
(* of a sector. Three loads: a whole chip, one page, and a range that is   *)
(* erased as a page, a sector and a page.                                  *)
(***************************************************************************)
EXTENDS FlashCache

CONSTANTS chip, page, mixed

MCAddr == {0, 31, 32, 63, 64, 95, 960, 1024, 2048}
MCPlan == {chip, page, mixed}
MCEraseOf == [p \in MCPlan |->
  CASE p = chip -> <<0, 16384>> [] p = page -> <<64, 64>> [] p = mixed -> <<960, 1152>>]
MCDataOf == [p \in MCPlan |->
  CASE p = chip -> {0, 31, 32, 63, 64, 95} [] p = page -> {95} [] p = mixed -> {960, 1024, 2048}]
=============================================================================
