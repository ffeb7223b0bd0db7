------------------------------ MODULE MCTyping ------------------------------
(* Instances of Typing for TLC. *)
EXTENDS Typing

\* s3 is configured late; the type of s2 is served late, or never.
MCTypeOf == [s \in Slug |-> IF s = "s2" THEN "t2" ELSE IF s = "s3" THEN "t3" ELSE "t1"]
=============================================================================
