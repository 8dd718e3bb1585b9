---------------------------- MODULE MCFlashStream -----------------------------
(***************************************************************************)
(* Two pages; blobs of both, of the second, and of a part of the first;    *)
(* the last request is kept out by Padded.                                 *)
(***************************************************************************)
EXTENDS FlashStream

MCRequest ==
  {[page |-> 0, words |-> 32], [page |-> 1, words |-> 16], [page |-> 0, words |-> 5],
   [page |-> 0, words |-> 20]}
=============================================================================
