------------------------------- MODULE MCPump -------------------------------
(* Instances of Pump for TLC. *)
EXTENDS Pump, TLC

MCEvent == 1..3
MCTwoEvents == 1..2

\* Every event has an id of its own.
DistinctIds == [e \in 0..3 |-> e]

Opt(b, r, h, opens) ==
    [batchSize |-> b, maxRetries |-> r, onError |-> h, opens |-> opens]

\* Batches of 1, 2 and the default; no retry, one retry; both error modes; a key that does
\* not open event 2, and its successor.
MCRequests ==
    {Opt(2, 1, "", {1, 3}), Opt(1, -1, "deadletter", 1 .. 3), Opt(0, 1, "halt", 1 .. 3)}
DeadLetterRequests == {Opt(2, 1, "deadletter", {1}), Opt(0, 0, "", 1 .. 2)}
OneRequest == {Opt(2, 0, "", {1})}

WorkerSymmetry == Permutations(Worker)
=============================================================================
