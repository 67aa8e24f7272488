--------------------------- MODULE CommandRunner ---------------------------
(***************************************************************************)
(* One call of run_with_timeout (infrastructure/src/process.rs): every     *)
(* read of `tsh` and `tctl` goes through it, on a thread that must not     *)
(* hang.  The command runs in a process group of its own, with both pipes  *)
(* read to their end by a thread each; the caller polls for its exit, and  *)
(* kills the group when it overruns or when a helper it forked keeps the   *)
(* pipes open.                                                             *)
(*                                                                         *)
(* A process is the command itself (the leader of the group) or a helper   *)
(* forked by it or by another helper, which inherits the open pipes; a     *)
(* helper may leave the group (a daemon does) and is then out of reach of  *)
(* the kill.  The contents of the output are left out: `pipe` counts what  *)
(* is written and not yet read, up to the size of the pipe's buffer.       *)
(*                                                                         *)
(* Time is counted in ticks, far longer than the 20 ms between two polls:  *)
(* the clock does not move while the runner has a step to take, a reader   *)
(* the rest of a closed pipe to read, or a killed process is not gone      *)
(* (Due).                                                                  *)
(***************************************************************************)
EXTENDS Integers

CONSTANTS
    Helper,       \* the processes the command may fork
    Leader,       \* the command itself
    Capacity,     \* the size of a pipe's buffer
    COMMAND_TIMEOUT, EXIT_GRACE, READER_GRACE,
    Never         \* not a time

ASSUME CommandAssumption ==
    /\ Leader \notin Helper
    /\ Capacity \in Nat /\ COMMAND_TIMEOUT \in Nat /\ EXIT_GRACE \in Nat
    /\ READER_GRACE \in Nat \ {0}
    /\ Never \notin Nat

Earlier(a, b) == IF a <= b THEN a ELSE b

Proc == Helper \cup {Leader}
Stream == {"out", "err"}

VARIABLES
    clock,
    \* The processes.
    proc,         \* "none", "running", "killed" (signalled, not yet gone), "zombie", "gone"
    group,        \* the members of the command's process group
    holds,        \* who has the write end of each pipe open
    pipe,         \* what is written to each pipe and not yet read
    \* The readers and the caller.
    sent,         \* the streams whose reader came to the end and sent the output
    pc,           \* the caller: "spawn", "poll", "kill", "reap", receiving "out" or "err", ...
    have,         \* the outputs it has received
    status,       \* what the wait for the command gave
    until,        \* the deadline of the receives under way
    killedLate,   \* the outputs did not close in time and the group was killed for it
    result,
    \* History.
    exitAt        \* when the command ended by itself

processes == <<proc, group, holds, pipe>>
caller == <<pc, have, status, until, killedLate, result>>
vars == <<clock, processes, sent, caller, exitAt>>

Alive(p) == proc[p] = "running"
Released(ps) == [s \in Stream |-> holds[s] \ ps]

Init ==
    /\ clock = 0
    /\ proc = [p \in Proc |-> "none"] /\ group = {}
    /\ holds = [s \in Stream |-> {}] /\ pipe = [s \in Stream |-> 0]
    /\ sent = {} /\ pc = "spawn" /\ have = {}
    /\ status = "none" /\ until = COMMAND_TIMEOUT /\ killedLate = FALSE /\ result = "none"
    /\ exitAt = Never

-----------------------------------------------------------------------------
(* The processes and the pipes.                                            *)

Write(p, s) ==
    /\ Alive(p) /\ p \in holds[s] /\ pipe[s] < Capacity
    /\ pipe' = [pipe EXCEPT ![s] = @ + 1]
    /\ UNCHANGED <<clock, proc, group, holds, sent, caller, exitAt>>

\* A process closes, or redirects, one of its streams.
Close(p, s) ==
    /\ Alive(p) /\ p \in holds[s]
    /\ holds' = [holds EXCEPT ![s] = @ \ {p}]
    /\ UNCHANGED <<clock, proc, group, pipe, sent, caller, exitAt>>

\* A forked helper inherits the group and the pipes.
Fork(p, h) ==
    /\ Alive(p) /\ proc[h] = "none"
    /\ proc' = [proc EXCEPT ![h] = "running"]
    /\ group' = IF p \in group THEN group \cup {h} ELSE group
    /\ holds' = [s \in Stream |-> holds[s] \cup IF p \in holds[s] THEN {h} ELSE {}]
    /\ UNCHANGED <<clock, pipe, sent, caller, exitAt>>

\* A helper starts a session of its own (a group leader cannot).
Escape(h) ==
    /\ Alive(h) /\ h \in group \ {Leader}
    /\ group' = group \ {h}
    /\ UNCHANGED <<clock, proc, holds, pipe, sent, caller, exitAt>>

\* A process that ends closes its files; the command stays to be reaped.
Exit(p) ==
    /\ Alive(p)
    /\ proc' = [proc EXCEPT ![p] = IF p = Leader THEN "zombie" ELSE "gone"]
    /\ holds' = Released({p})
    /\ exitAt' = IF p = Leader THEN clock ELSE exitAt
    /\ UNCHANGED <<clock, group, pipe, sent, caller>>

\* A process that was sent SIGKILL ends.
Die(p) ==
    /\ proc[p] = "killed"
    /\ proc' = [proc EXCEPT ![p] = IF p = Leader THEN "zombie" ELSE "gone"]
    /\ holds' = Released({p})
    /\ UNCHANGED <<clock, group, pipe, sent, caller, exitAt>>

\* drain: read_to_end, one chunk at a time, and the send at the end of file.
Eof(s) == pipe[s] = 0 /\ holds[s] = {}

Read(s) ==
    /\ pipe[s] > 0 /\ s \notin sent
    /\ pipe' = [pipe EXCEPT ![s] = @ - 1]
    /\ UNCHANGED <<clock, proc, group, holds, sent, caller, exitAt>>

\* Mutant: a pipe a helper still has open counts as closed.
SendOutput_AfterTheCommand(s) ==
    /\ pc # "spawn" /\ pipe[s] = 0 /\ Leader \notin holds[s] /\ s \notin sent
    /\ sent' = sent \cup {s}
    /\ UNCHANGED <<clock, processes, caller, exitAt>>

SendOutput(s) ==
    /\ pc # "spawn" /\ Eof(s) /\ s \notin sent
    /\ sent' = sent \cup {s}
    /\ UNCHANGED <<clock, processes, caller, exitAt>>

-----------------------------------------------------------------------------
(* run_with_timeout.                                                       *)

Return(r) == pc' = "done" /\ result' = r

\* The command is spawned at the head of a new group, and the readers with it.
Spawn ==
    /\ pc = "spawn"
    /\ \/ /\ pc' = "poll"
          /\ proc' = [proc EXCEPT ![Leader] = "running"]
          /\ group' = {Leader}
          /\ holds' = [s \in Stream |-> {Leader}]
          /\ UNCHANGED result
       \/ /\ Return("not_spawned")
          /\ UNCHANGED <<proc, group, holds>>
    /\ UNCHANGED <<clock, pipe, sent, have, status, until, killedLate, exitAt>>

\* Mutant: the rest of the timeout instead of a grace.
PollExited_WholeTimeout ==
    /\ pc = "poll" /\ proc[Leader] = "zombie"
    /\ proc' = [proc EXCEPT ![Leader] = "gone"]
    /\ status' = "exited" /\ until' = COMMAND_TIMEOUT /\ pc' = "out"
    /\ UNCHANGED <<clock, group, holds, pipe, sent, have, killedLate, result, exitAt>>

\* try_wait saw the exit: the pipes get a short grace, within the deadline.
PollExited ==
    /\ pc = "poll" /\ proc[Leader] = "zombie"
    /\ proc' = [proc EXCEPT ![Leader] = "gone"]
    /\ status' = "exited"
    /\ until' = Earlier(COMMAND_TIMEOUT, clock + EXIT_GRACE)
    /\ pc' = "out"
    /\ UNCHANGED <<clock, group, holds, pipe, sent, have, killedLate, result, exitAt>>

\* It saw none and the deadline has passed, or it failed.
PollGivesUp ==
    /\ pc = "poll"
    /\ \/ proc[Leader] # "zombie" /\ clock >= COMMAND_TIMEOUT /\ status' = "timed_out"
       \/ status' = "failed"
    /\ pc' = "kill"
    /\ UNCHANGED <<clock, processes, sent, have, until, killedLate, result, exitAt>>

\* Mutant: only the command is killed.
KillTree_ChildOnly ==
    /\ pc = "kill"
    /\ proc' = [proc EXCEPT ![Leader] = IF Alive(Leader) THEN "killed" ELSE @]
    /\ pc' = "reap"
    /\ UNCHANGED <<clock, group, holds, pipe, sent, have, status, until, killedLate, result, exitAt>>

\* kill_tree: the group and the command itself, which is then waited for.
KillTree ==
    /\ pc = "kill"
    /\ proc' = [p \in Proc |-> IF p \in group \cup {Leader} /\ Alive(p) THEN "killed" ELSE proc[p]]
    /\ pc' = "reap"
    /\ UNCHANGED <<clock, group, holds, pipe, sent, have, status, until, killedLate, result, exitAt>>

\* Mutant: the receives after the late kill get the old deadline.
Reap_OldDeadline ==
    /\ pc = "reap" /\ proc[Leader] \in {"zombie", "gone"}
    /\ proc' = [proc EXCEPT ![Leader] = "gone"]
    /\ until' = COMMAND_TIMEOUT /\ pc' = "out"
    /\ UNCHANGED <<clock, group, holds, pipe, sent, have, status, killedLate, result, exitAt>>

\* The wait of kill_tree, and the deadline of the receives that follow it.
Reap ==
    /\ pc = "reap" /\ proc[Leader] \in {"zombie", "gone"}
    /\ proc' = [proc EXCEPT ![Leader] = "gone"]
    /\ until' = IF killedLate THEN clock + READER_GRACE ELSE COMMAND_TIMEOUT
    /\ pc' = "out"
    /\ UNCHANGED <<clock, group, holds, pipe, sent, have, status, killedLate, result, exitAt>>

\* recv_until, for one output after the other and against the same deadline.
Receive(s) ==
    /\ pc = s /\ (s \in sent \/ clock >= until)
    /\ have' = have \cup (sent \cap {s})
    /\ pc' = IF s = "out" THEN "err" ELSE "collected"
    /\ UNCHANGED <<clock, processes, sent, status, until, killedLate, result, exitAt>>

\* Mutant: a missing output ends the call at once.
Collected_NoSecondKill ==
    /\ pc = "collected"
    /\ Return(IF have # Stream THEN "open" ELSE IF status = "exited" THEN "ok" ELSE status)
    /\ UNCHANGED <<clock, processes, sent, have, status, until, killedLate, exitAt>>

\* An output is missing: once more after a kill, and then no more.
Collected ==
    /\ pc = "collected"
    /\ IF have # Stream /\ ~killedLate
       THEN pc' = "kill" /\ killedLate' = TRUE /\ UNCHANGED result
       ELSE /\ Return(IF have # Stream THEN "open" ELSE IF status = "exited" THEN "ok" ELSE status)
            /\ UNCHANGED killedLate
    /\ UNCHANGED <<clock, processes, sent, have, status, until, exitAt>>

Runner == Spawn \/ PollExited \/ PollGivesUp \/ KillTree \/ Reap \/ Collected \/ \E s \in Stream : Receive(s)
Reader == \E s \in Stream : Read(s) \/ SendOutput(s)

\* Who has a step to take before time goes on.
RunnerDue ==
    \/ pc \in {"spawn", "kill", "collected"}
    \/ pc = "poll" /\ (proc[Leader] = "zombie" \/ clock >= COMMAND_TIMEOUT)
    \/ pc = "reap" /\ proc[Leader] \in {"zombie", "gone"}
    \/ pc \in Stream /\ (pc \in sent \/ clock >= until)
ReaderDue == \E s \in Stream : s \notin sent /\ holds[s] = {}
Due == RunnerDue \/ ReaderDue \/ \E p \in Proc : proc[p] = "killed"

Tick ==
    /\ pc # "done" /\ ~Due
    /\ clock' = clock + 1
    /\ UNCHANGED <<processes, sent, caller, exitAt>>

\* Followed until the call returns.
Next ==
    /\ pc # "done"
    /\ \/ Runner
       \/ Reader
       \/ \E p \in Proc : Exit(p) \/ Die(p) \/ \E s \in Stream : Write(p, s) \/ Close(p, s)
       \/ \E p \in Proc, h \in Helper : Fork(p, h)
       \/ \E h \in Helper : Escape(h)
       \/ Tick

(* The caller and each reader keep running, a process sent SIGKILL ends, and *)
(* time passes.  What the command and its helpers do is theirs.              *)
Fairness ==
    /\ WF_vars(pc # "done" /\ Runner)
    /\ \A s \in Stream :
        WF_vars(pc # "done" /\ Read(s)) /\ WF_vars(pc # "done" /\ SendOutput(s))
    /\ WF_vars(pc # "done" /\ \E p \in Proc : Die(p))
    /\ WF_vars(Tick)

Spec == Init /\ [][Next]_vars /\ Fairness

-----------------------------------------------------------------------------
(* Properties.                                                             *)

TypeOK ==
    /\ clock \in Nat
    /\ proc \in [Proc -> {"none", "running", "killed", "zombie", "gone"}]
    /\ group \subseteq Proc
    /\ holds \in [Stream -> SUBSET Proc]
    /\ pipe \in [Stream -> 0..Capacity]
    /\ sent \subseteq Stream /\ have \subseteq sent
    /\ pc \in {"spawn", "poll", "kill", "reap", "out", "err", "collected", "done"}
    /\ status \in {"none", "exited", "timed_out", "failed"}
    /\ until \in Nat /\ killedLate \in BOOLEAN
    /\ result \in {"none", "not_spawned", "ok", "timed_out", "failed", "open"}
    /\ exitAt \in Nat \cup {Never}

\* The helpers that left the group.
Escapees == {p \in Helper : proc[p] # "none"} \ group

\* A success is the command's own: it ended by itself, never by the runner's
\* kill, and everything that was written before the pipes closed has been read
\* (run_with_timeout's `status?` after the outputs).
OkIsWhole ==
    TypeOK /\ (result = "ok" => exitAt # Never /\ \A s \in Stream : s \in have /\ Eof(s))

\* Whatever the answer, the call leaves no zombie, and no process of the group
\* with a pipe open: killed, or gone by itself (kill_tree).
NothingLeftInTheGroup ==
    pc = "done" /\ result # "not_spawned" =>
        /\ proc[Leader] = "gone"
        /\ \A s \in Stream : holds[s] \cap group = {}

\* The output is given up, and its reader abandoned, only for a helper that left
\* the group with the pipe open ("a helper escaped the group").
OpenOnlyIfEscaped ==
    result = "open" => Escapees # {}

\* A command that ends before its deadline succeeds, even if a helper it left
\* behind never closes the pipes: the helper is killed "and the output kept".
ExitedInTimeIsOk ==
    /\ pc = "done" /\ status # "failed" /\ Escapees = {}
    /\ exitAt # Never /\ exitAt < COMMAND_TIMEOUT
    => result = "ok"

\* The promise to the caller: an answer within the timeout and the graces.
Promise == INSTANCE BoundedCommand WITH
    Timeout <- COMMAND_TIMEOUT, ExitGrace <- EXIT_GRACE, ReaderGrace <- READER_GRACE,
    now <- clock,
    ended <- IF status \in {"none", "exited"} THEN exitAt ELSE Never,
    answer <- CASE result = "none" -> "none" [] result = "ok" -> "ok" [] OTHER -> "error"
PromiseSpec == Promise!Spec
=============================================================================
