---------------------------- MODULE MCHttpClient ----------------------------
(* Instances of HttpClient for TLC. *)
EXTENDS HttpClient, TLC

CallersAndRegions == Permutations(Caller) \cup Permutations(Region)
=============================================================================
