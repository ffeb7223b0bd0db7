----------------------------- MODULE MCKeyCache -----------------------------
(* Instances of KeyCache for TLC. *)
EXTENDS KeyCache, TLC

\* Version 0 of the flow names the customer's values, version 1 does not.
MCTagged == {0}

CallerSymmetry == Permutations(Caller)
=============================================================================
