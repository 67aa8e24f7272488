----------------------------- MODULE JobService -----------------------------
(***************************************************************************)
(* What the background pool promises the UI (dispatch.rs, Dispatcher::     *)
(* spawn_job and drain_jobs): every job it is asked for is answered at most *)
(* once, a job is forgotten only when a newer request of its lane replaced *)
(* it, and jobs keep being served while the service is open.               *)
(***************************************************************************)
EXTENDS Naturals

CONSTANTS Lane, Droppable   \* the lanes, and those in which a newer request replaces older ones

VARIABLES
    asked,      \* the jobs that are not answered or forgotten yet
    answered,   \* the jobs whose result the UI applied
    latest,     \* the newest request of each droppable lane
    open        \* until the UI shuts the service

vars == <<asked, answered, latest, open>>

Job == [id : Nat, lane : Lane, seq : Nat]

Superseded(j) == j.lane \in Droppable /\ latest[j.lane] # j.seq

Init ==
    /\ asked = {} /\ answered = {}
    /\ latest = [l \in Droppable |-> 0]
    /\ open = TRUE

Supersede(l) ==
    /\ open
    /\ latest' = [latest EXCEPT ![l] = @ + 1]
    /\ UNCHANGED <<asked, answered, open>>

Ask(j) ==
    /\ open
    /\ j \in Job
    /\ \A k \in asked \cup answered : k.id < j.id
    /\ ~Superseded(j)
    /\ asked' = asked \cup {j}
    /\ UNCHANGED <<answered, latest, open>>

Answer(j) ==
    /\ open
    /\ ~Superseded(j)
    /\ asked' = asked \ {j}
    /\ answered' = answered \cup {j}
    /\ UNCHANGED <<latest, open>>

Forget(j) ==
    /\ Superseded(j)
    /\ asked' = asked \ {j}
    /\ UNCHANGED <<answered, latest, open>>

Serve == \E j \in asked : Answer(j) \/ Forget(j)

Close ==
    /\ open
    /\ open' = FALSE
    /\ UNCHANGED <<asked, answered, latest>>

\* The job a step adds, if it adds one.
Asking == \E j \in asked' \ asked : Ask(j)

Next == (\E l \in Droppable : Supersede(l)) \/ Asking \/ Serve \/ Close

Spec == Init /\ [][Next]_vars /\ WF_vars(open /\ Serve)
=============================================================================
