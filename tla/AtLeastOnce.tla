---------------------------- MODULE AtLeastOnce ----------------------------
(***************************************************************************)
(* What the changes pump promises, apart from files, batches and retries:  *)
(* an event the consumer has taken into custody is owed to the handler     *)
(* until a handler call for it has succeeded.                              *)
(***************************************************************************)
EXTENDS Naturals

CONSTANT Event

VARIABLES
    queue,   \* waiting on the server
    taken,   \* deleted by the server
    kept,    \* events the consumer ever took into custody
    owed,    \* events it still has to deliver
    done     \* events a handler call succeeded for

qvars == <<queue, taken, kept, owed, done>>

QInit ==
    /\ queue = {}
    /\ taken = {}
    /\ kept = {}
    /\ owed = {}
    /\ done = {}

Arrive(e) ==
    /\ e \notin queue \cup taken
    /\ queue' = queue \cup {e}
    /\ UNCHANGED <<taken, kept, owed, done>>

\* Events leave the server in the order they arrived, and are gone there.
Take(S) ==
    /\ S \subseteq queue
    /\ \A a \in S, b \in queue \ S : a < b
    /\ queue' = queue \ S
    /\ taken' = taken \cup S
    /\ UNCHANGED <<kept, owed, done>>

\* Custody begins.
Keep(e) ==
    /\ e \in taken
    /\ kept' = kept \cup {e}
    /\ owed' = owed \cup {e}
    /\ UNCHANGED <<queue, taken, done>>

Handle(e) ==
    /\ e \in kept
    /\ done' = done \cup {e}
    /\ UNCHANGED <<queue, taken, kept, owed>>

\* Only what was handled is let go ...
Release(e) ==
    /\ e \in owed \cap done
    /\ owed' = owed \ {e}
    /\ UNCHANGED <<queue, taken, kept, done>>

\* ... and a handled event may come back: delivery is at least once.
Reinstate(e) ==
    /\ e \in kept \cap done
    /\ owed' = owed \cup {e}
    /\ UNCHANGED <<queue, taken, kept, done>>

QNext ==
    \/ \E S \in SUBSET queue : Take(S)
    \/ \E e \in Event :
        Arrive(e) \/ Keep(e) \/ Handle(e) \/ Release(e) \/ Reinstate(e)

QSpec == QInit /\ [][QNext]_qvars
=============================================================================
