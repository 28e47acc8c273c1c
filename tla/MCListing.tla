----------------------------- MODULE MCListing -----------------------------
(* Instances of Listing for TLC.                                           *)
EXTENDS Listing

MCItems == 1..8

\* Lists of up to seven different items.
MCContents == {[k \in 1..n |-> k] : n \in 0..7}
=============================================================================
