------------------------------ MODULE MCTarget ------------------------------
(***************************************************************************)
(* A small instance of Target: two URLs with the same last segment, as     *)
(* github.com/x/app and github.com/y/app have.                             *)
(***************************************************************************)
EXTENDS Target, TLC

CONSTANTS xapp, yapp, s1, s2, s3

MCNameOf == [u \in Url |-> "app"]

Symmetric == Permutations(Scan)
=============================================================================
