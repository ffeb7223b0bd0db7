---------------------------- MODULE MCDocuments ----------------------------
(* Instances of Documents for TLC. *)
EXTENDS Documents

\* A plain document or message, a contract, a private document, and one whose payload is
\* missing, for each way to name the person; rows 1 and 3 have a share code, row 2 has none.
MCAsked ==
    {q \in Request :
        /\ Cardinality({x \in {q.contract, q.private, ~ q.given} : x}) <= 1
        /\ q.to \in (IF PerPerson(q) THEN {1, 2} ELSE {1})
        /\ q.op = "message" => ~ q.contract /\ ~ q.private /\ q.payload = "json"}

MCCoded == {1, 3}
=============================================================================
