--------------------------- MODULE BoundedCommand ---------------------------
(***************************************************************************)
(* What CommandRunner::run promises the thread that calls it: an answer,   *)
(* in bounded time whatever the command does, and a success only for a     *)
(* command that ended by itself.  A command that ends early is not made to *)
(* wait for its timeout.  CommandRunner implements this module.            *)
(***************************************************************************)
EXTENDS Integers

CONSTANTS
    Timeout,      \* how long a command may run
    ExitGrace,    \* how long its output may stay open after it ended
    ReaderGrace,  \* how long the output may take to close after the kill
    Never         \* not a time

VARIABLES
    now,          \* the time since the call
    ended,        \* when the command ended by itself, as far as the runner can know
    answer        \* "none" while the caller waits, then "ok" or "error"

vars == <<now, ended, answer>>

\* When the caller has its answer at the latest.
Promised ==
    ReaderGrace + IF ended = Never \/ Timeout <= ended + ExitGrace THEN Timeout ELSE ended + ExitGrace

Init == now = 0 /\ ended = Never /\ answer = "none"

Ends == answer = "none" /\ ended = Never /\ ended' = now /\ UNCHANGED <<now, answer>>

\* The wait itself fails: the runner gives the command up.
Lose == answer = "none" /\ ended # Never /\ ended' = Never /\ UNCHANGED <<now, answer>>

Answer ==
    /\ answer = "none"
    /\ answer' \in {"error"} \cup (IF ended = Never THEN {} ELSE {"ok"})
    /\ UNCHANGED <<now, ended>>

Tick == answer = "none" /\ now < Promised /\ now' = now + 1 /\ UNCHANGED <<ended, answer>>

Next == Ends \/ Lose \/ Answer \/ Tick
Spec == Init /\ [][Next]_vars /\ WF_vars(Answer)
=============================================================================
