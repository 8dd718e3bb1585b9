---------------------------- MODULE MCDataPackets -----------------------------
(***************************************************************************)
(* Three words of RAM at addresses 4 to 15, so that an access below or     *)
(* above them faults. Every read and every write that fits.                *)
(***************************************************************************)
EXTENDS DataPackets

MCRam == 4..15
Fits(a, n) == a + n <= 16
MCRequest ==
  {[do |-> "m", at |-> a, len |-> n] : a \in 4..15, n \in 1..12}
    \cup {[do |-> "M", at |-> a, len |-> n] : a \in 4..15, n \in 1..6}
    \cup {[do |-> "set", at |-> a, len |-> n] : a \in 4..15, n \in {1, 2, 4}}
    \cup {[do |-> "block", at |-> a, len |-> n] : a \in {4, 8, 12}, n \in {4, 8, 12}}
    \cup {[do |-> "p", at |-> 4, len |-> 4], [do |-> "P", at |-> 4, len |-> 4]}
MCFitting == {r \in MCRequest : Fits(r.at, r.len)}
=============================================================================
