------------------------ MODULE CommandRunner_proofs ------------------------
(* What holds of CommandRunner for any number of helpers, any buffer size and *)
(* any timeouts.                                                             *)
EXTENDS CommandRunner, TLAPS

\* The caller has spawned the command and is past the (first) wait for it.
Receiving == {"out", "err", "collected", "done"}
Called == result # "not_spawned"

\* An output is sent at its end, and a pipe that came to its end stays there.
SentInv ==
    /\ \A s \in sent : Eof(s) /\ pc # "spawn"
    /\ pc = "spawn" => have = {}

\* Only a process that is still there has a pipe open.
HoldInv ==
    /\ \A s \in Stream : \A p \in holds[s] : proc[p] \in {"running", "killed"}
    /\ \A p \in group : proc[p] # "none"
    /\ pc = "spawn" \/ ~Called => proc = [p \in Proc |-> "none"]

\* The command, by where the caller is.
LeaderInv ==
    /\ pc = "poll" => proc[Leader] \in {"running", "zombie"}
    /\ pc = "poll" /\ proc[Leader] = "zombie" => exitAt # Never
    /\ pc = "poll" /\ proc[Leader] = "running" => exitAt = Never
    /\ pc = "reap" => proc[Leader] \in {"killed", "zombie", "gone"}
    /\ pc \in Receiving /\ Called => proc[Leader] = "gone"
    /\ status = "exited" => proc[Leader] = "gone"
    /\ pc = "kill" => proc[Leader] # "none"

\* What the wait gave, and when the command ended.
StatusInv ==
    /\ status = "exited" => exitAt # Never
    /\ status = "timed_out" => exitAt = Never \/ exitAt >= COMMAND_TIMEOUT
    /\ pc = "spawn" \/ ~Called => exitAt = Never
    /\ pc \in {"spawn", "poll"} => status = "none" /\ ~killedLate
    /\ pc \notin {"spawn", "poll"} /\ Called => status # "none"
    /\ status = "timed_out" => clock >= COMMAND_TIMEOUT
    /\ pc \in {"kill", "reap"} /\ ~killedLate => status \in {"timed_out", "failed"}

\* The late kill leaves nobody of the group alive, and so nobody to fork into it.
GroupInv ==
    killedLate /\ pc # "kill" => \A p \in group \cup {Leader} : proc[p] # "running"

\* Time has passed since the late kill: the killed are gone, and an output is
\* still open only for a process that left the group.
GraceInv ==
    killedLate /\ pc \in Receiving /\ clock > until - READER_GRACE =>
        /\ \A p \in group : proc[p] # "killed"
        /\ Escapees = {} => sent = Stream

\* An output not received was waited for until the deadline; after the late kill,
\* it is missing only for a helper out of its reach.
Missing == \/ pc = "err" /\ "out" \notin have
           \/ pc \in {"collected", "done"} /\ Called /\ have # Stream
LateInv == Missing => clock >= until /\ (killedLate => Escapees # {})

\* What the call answers.
ResultInv ==
    /\ pc # "done" => result = "none"
    /\ pc = "done" => result # "none"
    /\ result = "ok" => status = "exited" /\ have = Stream
    /\ pc = "done" /\ Called /\ have = Stream => result = IF status = "exited" THEN "ok" ELSE status
    /\ pc = "done" /\ Called /\ have # Stream => killedLate /\ result = "open"

\* The time by which the first wait for the outputs is over (BoundedCommand's
\* promise without the last grace), and how far the clock may have come.
Limit ==
    IF status \notin {"none", "exited"} \/ exitAt = Never \/ COMMAND_TIMEOUT <= exitAt + EXIT_GRACE
    THEN COMMAND_TIMEOUT ELSE exitAt + EXIT_GRACE

TimeInv ==
    /\ exitAt # Never => exitAt <= clock
    /\ pc = "spawn" => clock = 0
    /\ pc = "poll" /\ proc[Leader] = "zombie" => exitAt = clock
    /\ pc \in Receiving /\ Called => until <= IF killedLate THEN Limit + READER_GRACE ELSE Limit
    /\ pc # "done" => clock <= IF pc \in Receiving THEN until ELSE Limit

IInv == /\ TimeInv /\ TypeOK /\ SentInv /\ HoldInv /\ LeaderInv /\ StatusInv /\ GroupInv /\ GraceInv
        /\ LateInv /\ ResultInv

USE CommandAssumption
USE DEF Proc, Stream, Receiving, Called, Alive, processes, caller

LEMMA SpawnIInv == ASSUME IInv, Spawn PROVE IInv'
<1>1. TypeOK'
  BY DEF IInv, TypeOK, SentInv, Return, Spawn
<1>2. (SentInv /\ HoldInv /\ LeaderInv /\ StatusInv)'
  BY DEF IInv, TypeOK, SentInv, HoldInv, LeaderInv, StatusInv, Eof, ResultInv, Return,
      Spawn
<1>3. (GroupInv /\ GraceInv)'
  BY DEF IInv, TypeOK, GroupInv, GraceInv, LeaderInv, StatusInv, HoldInv, Escapees,
      Return, Spawn
<1>4. (LateInv /\ ResultInv)'
  BY DEF IInv, TypeOK, LateInv, ResultInv, Missing, Escapees, HoldInv, StatusInv,
      LeaderInv, Return, Spawn
<1>5. TimeInv'
  BY DEF IInv, TypeOK, TimeInv, Limit, LeaderInv, StatusInv, ResultInv, GroupInv,
      Return, Spawn
<1> QED
  BY <1>1, <1>2, <1>3, <1>4, <1>5 DEF IInv

LEMMA PollExitedIInv == ASSUME IInv, PollExited PROVE IInv'
<1>1. TypeOK'
  BY DEF IInv, TypeOK, SentInv, Earlier, PollExited
<1>2. (SentInv /\ HoldInv /\ LeaderInv /\ StatusInv)'
  BY DEF IInv, TypeOK, SentInv, HoldInv, LeaderInv, StatusInv, Eof, ResultInv, Earlier,
      PollExited
<1>3. (GroupInv /\ GraceInv)'
  BY DEF IInv, TypeOK, GroupInv, GraceInv, LeaderInv, StatusInv, HoldInv, Escapees,
      Earlier, PollExited
<1>4. (LateInv /\ ResultInv)'
  BY DEF IInv, TypeOK, LateInv, ResultInv, Missing, Escapees, HoldInv, StatusInv,
      LeaderInv, Earlier, PollExited
<1>5. TimeInv'
  BY DEF IInv, TypeOK, TimeInv, Limit, LeaderInv, StatusInv, ResultInv, GroupInv,
      Earlier, PollExited
<1> QED
  BY <1>1, <1>2, <1>3, <1>4, <1>5 DEF IInv

LEMMA PollGivesUpIInv == ASSUME IInv, PollGivesUp PROVE IInv'
<1>1. TypeOK'
  BY DEF IInv, TypeOK, SentInv, PollGivesUp
<1>2. (SentInv /\ HoldInv /\ LeaderInv /\ StatusInv)'
  BY DEF IInv, TypeOK, SentInv, HoldInv, LeaderInv, StatusInv, Eof, ResultInv,
      PollGivesUp
<1>3. (GroupInv /\ GraceInv)'
  BY DEF IInv, TypeOK, GroupInv, GraceInv, LeaderInv, StatusInv, HoldInv, Escapees,
      PollGivesUp
<1>4. (LateInv /\ ResultInv)'
  BY DEF IInv, TypeOK, LateInv, ResultInv, Missing, Escapees, HoldInv, StatusInv,
      LeaderInv, PollGivesUp
<1>5. TimeInv'
  BY DEF IInv, TypeOK, TimeInv, Limit, LeaderInv, StatusInv, ResultInv, GroupInv,
      PollGivesUp
<1> QED
  BY <1>1, <1>2, <1>3, <1>4, <1>5 DEF IInv

LEMMA KillTreeIInv == ASSUME IInv, KillTree PROVE IInv'
<1>1. TypeOK'
  BY DEF IInv, TypeOK, SentInv, KillTree
<1>2. (SentInv /\ HoldInv /\ LeaderInv /\ StatusInv)'
  BY DEF IInv, TypeOK, SentInv, HoldInv, LeaderInv, StatusInv, Eof, ResultInv, KillTree
<1>3. (GroupInv /\ GraceInv)'
  BY DEF IInv, TypeOK, GroupInv, GraceInv, LeaderInv, StatusInv, HoldInv, Escapees,
      KillTree
<1>4. (LateInv /\ ResultInv)'
  BY DEF IInv, TypeOK, LateInv, ResultInv, Missing, Escapees, HoldInv, StatusInv,
      LeaderInv, KillTree
<1>5. TimeInv'
  BY DEF IInv, TypeOK, TimeInv, Limit, LeaderInv, StatusInv, ResultInv, GroupInv,
      KillTree
<1> QED
  BY <1>1, <1>2, <1>3, <1>4, <1>5 DEF IInv

LEMMA ReapIInv == ASSUME IInv, Reap PROVE IInv'
<1>1. TypeOK'
  BY DEF IInv, TypeOK, SentInv, Reap
<1>2. (SentInv /\ HoldInv /\ LeaderInv /\ StatusInv)'
  BY DEF IInv, TypeOK, SentInv, HoldInv, LeaderInv, StatusInv, Eof, ResultInv, Reap
<1>3. (GroupInv /\ GraceInv)'
  BY DEF IInv, TypeOK, GroupInv, GraceInv, LeaderInv, StatusInv, HoldInv, Escapees, Reap
<1>4. (LateInv /\ ResultInv)'
  BY DEF IInv, TypeOK, LateInv, ResultInv, Missing, Escapees, HoldInv, StatusInv,
      LeaderInv, Reap
<1>5. TimeInv'
  BY DEF IInv, TypeOK, TimeInv, Limit, LeaderInv, StatusInv, ResultInv, GroupInv, Reap
<1> QED
  BY <1>1, <1>2, <1>3, <1>4, <1>5 DEF IInv

LEMMA ReceiveIInv == ASSUME IInv, NEW s \in Stream, Receive(s) PROVE IInv'
<1>1. TypeOK'
  BY DEF IInv, TypeOK, SentInv, Receive
<1>2. (SentInv /\ HoldInv /\ LeaderInv /\ StatusInv)'
  BY DEF IInv, TypeOK, SentInv, HoldInv, LeaderInv, StatusInv, Eof, ResultInv, Receive
<1>3. (GroupInv /\ GraceInv)'
  BY DEF IInv, TypeOK, GroupInv, GraceInv, LeaderInv, StatusInv, HoldInv, Escapees,
      Receive
<1>4. LateInv'
  <2> USE DEF IInv, TypeOK, SentInv, LateInv, Missing, ResultInv, StatusInv, Receive
  <2>1. Escapees' = Escapees
    BY DEF Escapees
  <2>2. CASE s \in sent
    <3>1. CASE s = "err" /\ "out" \in have
      <4>1. have' = Stream
        BY <2>2, <3>1
      <4> QED
        BY <3>1, <4>1
    <3>2. CASE s = "out" \/ "out" \notin have
      BY <2>1, <2>2, <3>2
    <3> QED
      BY <3>1, <3>2
  <2>3. CASE s \notin sent
    <3>1. clock >= until /\ (killedLate => Escapees # {})
      BY <2>3 DEF GraceInv
    <3> QED
      BY <2>1, <3>1
  <2> QED
    BY <2>2, <2>3
<1>6. ResultInv'
  BY DEF IInv, TypeOK, ResultInv, StatusInv, Receive
<1>5. TimeInv'
  BY DEF IInv, TypeOK, TimeInv, Limit, LeaderInv, StatusInv, ResultInv, GroupInv,
      Receive
<1> QED
  BY <1>1, <1>2, <1>3, <1>4, <1>5, <1>6 DEF IInv

LEMMA CollectedIInv == ASSUME IInv, Collected PROVE IInv'
<1>1. TypeOK'
  BY DEF IInv, TypeOK, SentInv, Return, Collected
<1>2. (SentInv /\ HoldInv /\ LeaderInv /\ StatusInv)'
  BY DEF IInv, TypeOK, SentInv, HoldInv, LeaderInv, StatusInv, Eof, ResultInv, Return,
      Collected
<1>3. (GroupInv /\ GraceInv)'
  BY DEF IInv, TypeOK, GroupInv, GraceInv, LeaderInv, StatusInv, HoldInv, Escapees,
      Return, Collected
<1>4. (LateInv /\ ResultInv)'
  BY DEF IInv, TypeOK, LateInv, ResultInv, Missing, Escapees, HoldInv, StatusInv,
      LeaderInv, Return, Collected
<1>5. TimeInv'
  BY DEF IInv, TypeOK, TimeInv, Limit, LeaderInv, StatusInv, ResultInv, GroupInv,
      Return, Collected
<1> QED
  BY <1>1, <1>2, <1>3, <1>4, <1>5 DEF IInv

LEMMA ReadIInv == ASSUME IInv, NEW s \in Stream, Read(s) PROVE IInv'
<1>1. TypeOK'
  BY DEF IInv, TypeOK, SentInv, Read
<1>2. (SentInv /\ HoldInv /\ LeaderInv /\ StatusInv)'
  BY DEF IInv, TypeOK, SentInv, HoldInv, LeaderInv, StatusInv, Eof, ResultInv, Read
<1>3. (GroupInv /\ GraceInv)'
  BY DEF IInv, TypeOK, GroupInv, GraceInv, LeaderInv, StatusInv, HoldInv, Escapees, Read
<1>4. (LateInv /\ ResultInv)'
  BY DEF IInv, TypeOK, LateInv, ResultInv, Missing, Escapees, HoldInv, StatusInv,
      LeaderInv, Read
<1>5. TimeInv'
  BY DEF IInv, TypeOK, TimeInv, Limit, LeaderInv, StatusInv, ResultInv, GroupInv, Read
<1> QED
  BY <1>1, <1>2, <1>3, <1>4, <1>5 DEF IInv

LEMMA SendOutputIInv == ASSUME IInv, NEW s \in Stream, SendOutput(s) PROVE IInv'
<1>1. TypeOK'
  BY DEF IInv, TypeOK, SentInv, Eof, SendOutput
<1>2. (SentInv /\ HoldInv /\ LeaderInv /\ StatusInv)'
  BY DEF IInv, TypeOK, SentInv, HoldInv, LeaderInv, StatusInv, Eof, ResultInv,
      SendOutput
<1>3. (GroupInv /\ GraceInv)'
  BY DEF IInv, TypeOK, GroupInv, GraceInv, LeaderInv, StatusInv, HoldInv, Escapees, Eof,
      SendOutput
<1>4. (LateInv /\ ResultInv)'
  BY DEF IInv, TypeOK, LateInv, ResultInv, Missing, Escapees, HoldInv, StatusInv,
      LeaderInv, Eof, SendOutput
<1>5. TimeInv'
  BY DEF IInv, TypeOK, TimeInv, Limit, LeaderInv, StatusInv, ResultInv, GroupInv, Eof,
      SendOutput
<1> QED
  BY <1>1, <1>2, <1>3, <1>4, <1>5 DEF IInv

LEMMA ExitIInv == ASSUME IInv, NEW p \in Proc, Exit(p) PROVE IInv'
<1>1. TypeOK'
  BY DEF IInv, TypeOK, SentInv, Released, Exit
<1>2. (SentInv /\ HoldInv /\ LeaderInv /\ StatusInv)'
  BY DEF IInv, TypeOK, SentInv, HoldInv, LeaderInv, StatusInv, Eof, ResultInv, Released,
      Exit
<1>3. (GroupInv /\ GraceInv)'
  BY DEF IInv, TypeOK, GroupInv, GraceInv, LeaderInv, StatusInv, HoldInv, Escapees,
      Released, Exit
<1>4. (LateInv /\ ResultInv)'
  BY DEF IInv, TypeOK, LateInv, ResultInv, Missing, Escapees, HoldInv, StatusInv,
      LeaderInv, Released, Exit
<1>5. TimeInv'
  BY DEF IInv, TypeOK, TimeInv, Limit, LeaderInv, StatusInv, ResultInv, GroupInv,
      Released, Exit
<1> QED
  BY <1>1, <1>2, <1>3, <1>4, <1>5 DEF IInv

LEMMA DieIInv == ASSUME IInv, NEW p \in Proc, Die(p) PROVE IInv'
<1>1. TypeOK'
  BY DEF IInv, TypeOK, SentInv, Released, Die
<1>2. (SentInv /\ HoldInv /\ LeaderInv /\ StatusInv)'
  BY DEF IInv, TypeOK, SentInv, HoldInv, LeaderInv, StatusInv, Eof, ResultInv, Released,
      Die
<1>3. (GroupInv /\ GraceInv)'
  BY DEF IInv, TypeOK, GroupInv, GraceInv, LeaderInv, StatusInv, HoldInv, Escapees,
      Released, Die
<1>4. (LateInv /\ ResultInv)'
  BY DEF IInv, TypeOK, LateInv, ResultInv, Missing, Escapees, HoldInv, StatusInv,
      LeaderInv, Released, Die
<1>5. TimeInv'
  BY DEF IInv, TypeOK, TimeInv, Limit, LeaderInv, StatusInv, ResultInv, GroupInv,
      Released, Die
<1> QED
  BY <1>1, <1>2, <1>3, <1>4, <1>5 DEF IInv

LEMMA WriteIInv == ASSUME IInv, NEW p \in Proc, NEW s \in Stream, Write(p, s) PROVE IInv'
<1>1. TypeOK'
  BY DEF IInv, TypeOK, SentInv, Write
<1>2. (SentInv /\ HoldInv /\ LeaderInv /\ StatusInv)'
  BY DEF IInv, TypeOK, SentInv, HoldInv, LeaderInv, StatusInv, Eof, ResultInv, Write
<1>3. (GroupInv /\ GraceInv)'
  BY DEF IInv, TypeOK, GroupInv, GraceInv, LeaderInv, StatusInv, HoldInv, Escapees,
      Write
<1>4. (LateInv /\ ResultInv)'
  BY DEF IInv, TypeOK, LateInv, ResultInv, Missing, Escapees, HoldInv, StatusInv,
      LeaderInv, Write
<1>5. TimeInv'
  BY DEF IInv, TypeOK, TimeInv, Limit, LeaderInv, StatusInv, ResultInv, GroupInv, Write
<1> QED
  BY <1>1, <1>2, <1>3, <1>4, <1>5 DEF IInv

LEMMA CloseIInv == ASSUME IInv, NEW p \in Proc, NEW s \in Stream, Close(p, s) PROVE IInv'
<1>1. TypeOK'
  BY DEF IInv, TypeOK, SentInv, Close
<1>2. (SentInv /\ HoldInv /\ LeaderInv /\ StatusInv)'
  BY DEF IInv, TypeOK, SentInv, HoldInv, LeaderInv, StatusInv, Eof, ResultInv, Close
<1>3. (GroupInv /\ GraceInv)'
  BY DEF IInv, TypeOK, GroupInv, GraceInv, LeaderInv, StatusInv, HoldInv, Escapees,
      Close
<1>4. (LateInv /\ ResultInv)'
  BY DEF IInv, TypeOK, LateInv, ResultInv, Missing, Escapees, HoldInv, StatusInv,
      LeaderInv, Close
<1>5. TimeInv'
  BY DEF IInv, TypeOK, TimeInv, Limit, LeaderInv, StatusInv, ResultInv, GroupInv, Close
<1> QED
  BY <1>1, <1>2, <1>3, <1>4, <1>5 DEF IInv

LEMMA ForkIInv == ASSUME IInv, NEW p \in Proc, NEW h \in Helper, Fork(p, h) PROVE IInv'
<1>1. TypeOK'
  BY DEF IInv, TypeOK, SentInv, Fork
<1>2. (SentInv /\ HoldInv /\ LeaderInv /\ StatusInv)'
  BY DEF IInv, TypeOK, SentInv, HoldInv, LeaderInv, StatusInv, Eof, ResultInv, Fork
<1>3. (GroupInv /\ GraceInv)'
  BY DEF IInv, TypeOK, GroupInv, GraceInv, LeaderInv, StatusInv, HoldInv, Escapees, Fork
<1>4. (LateInv /\ ResultInv)'
  BY DEF IInv, TypeOK, LateInv, ResultInv, Missing, Escapees, HoldInv, StatusInv,
      LeaderInv, Fork
<1>5. TimeInv'
  BY DEF IInv, TypeOK, TimeInv, Limit, LeaderInv, StatusInv, ResultInv, GroupInv, Fork
<1> QED
  BY <1>1, <1>2, <1>3, <1>4, <1>5 DEF IInv

LEMMA EscapeIInv == ASSUME IInv, NEW h \in Helper, Escape(h) PROVE IInv'
<1>1. TypeOK'
  BY DEF IInv, TypeOK, SentInv, Escape
<1>2. (SentInv /\ HoldInv /\ LeaderInv /\ StatusInv)'
  BY DEF IInv, TypeOK, SentInv, HoldInv, LeaderInv, StatusInv, Eof, ResultInv, Escape
<1>3. (GroupInv /\ GraceInv)'
  BY DEF IInv, TypeOK, GroupInv, GraceInv, LeaderInv, StatusInv, HoldInv, Escapees,
      Escape
<1>4. (LateInv /\ ResultInv)'
  BY DEF IInv, TypeOK, LateInv, ResultInv, Missing, Escapees, HoldInv, StatusInv,
      LeaderInv, Escape
<1>5. TimeInv'
  BY DEF IInv, TypeOK, TimeInv, Limit, LeaderInv, StatusInv, ResultInv, GroupInv, Escape
<1> QED
  BY <1>1, <1>2, <1>3, <1>4, <1>5 DEF IInv

LEMMA TickIInv == ASSUME IInv, Tick PROVE IInv'
<1>1. TypeOK'
  BY DEF IInv, TypeOK, SentInv, Due, RunnerDue, ReaderDue, Tick
<1>2. (SentInv /\ HoldInv /\ LeaderInv /\ StatusInv)'
  BY DEF IInv, TypeOK, SentInv, HoldInv, LeaderInv, StatusInv, Eof, ResultInv, Due,
      RunnerDue, ReaderDue, Tick
<1>3. (GroupInv /\ GraceInv)'
  BY DEF IInv, TypeOK, GroupInv, GraceInv, LeaderInv, StatusInv, HoldInv, Escapees, Due,
      RunnerDue, ReaderDue, Tick
<1>4. (LateInv /\ ResultInv)'
  BY DEF IInv, TypeOK, LateInv, ResultInv, Missing, Escapees, HoldInv, StatusInv,
      LeaderInv, Due, RunnerDue, ReaderDue, Tick
<1>5. TimeInv'
  BY DEF IInv, TypeOK, TimeInv, Limit, LeaderInv, StatusInv, ResultInv, GroupInv, Due,
      RunnerDue, ReaderDue, Tick
<1> QED
  BY <1>1, <1>2, <1>3, <1>4, <1>5 DEF IInv

LEMMA StutterIInv == ASSUME IInv, UNCHANGED vars PROVE IInv'
<1>1. (TypeOK /\ SentInv /\ HoldInv /\ LeaderInv /\ StatusInv)'
  BY DEF IInv, TypeOK, SentInv, Eof, HoldInv, LeaderInv, StatusInv, vars
<1>2. (GroupInv /\ GraceInv /\ LateInv /\ ResultInv /\ TimeInv)'
  BY DEF IInv, TypeOK, GroupInv, GraceInv, Escapees, LateInv, Missing, ResultInv, TimeInv,
      Limit, vars
<1> QED
  BY <1>1, <1>2 DEF IInv

-----------------------------------------------------------------------------

\* The initial state satisfies the inductive invariant.
THEOREM InitIInv == Init => IInv
<1> SUFFICES ASSUME Init PROVE IInv
  OBVIOUS
<1>1. TypeOK
  <2>1. proc \in [Proc -> {"none", "running", "killed", "zombie", "gone"}]
    BY DEF Init
  <2>2. holds \in [Stream -> SUBSET Proc] /\ pipe \in [Stream -> 0..Capacity]
    BY DEF Init
  <2> QED
    BY <2>1, <2>2 DEF Init, TypeOK
<1>2. SentInv /\ HoldInv /\ LeaderInv /\ StatusInv
  BY DEF Init, SentInv, HoldInv, LeaderInv, StatusInv
<1>3. GroupInv /\ GraceInv /\ LateInv /\ ResultInv /\ TimeInv
  BY DEF Init, GroupInv, GraceInv, LateInv, Missing, ResultInv, TimeInv, Limit
<1> QED
  BY <1>1, <1>2, <1>3 DEF IInv

\* Every step of the caller, the readers, the command and its helpers keeps it.
THEOREM NextIInv == ASSUME IInv, [Next]_vars PROVE IInv'
<1>1. ASSUME Runner PROVE IInv'
  BY <1>1, SpawnIInv, PollExitedIInv, PollGivesUpIInv, KillTreeIInv, ReapIInv, CollectedIInv,
     ReceiveIInv DEF Runner
<1>2. ASSUME Reader PROVE IInv'
  BY <1>2, ReadIInv, SendOutputIInv DEF Reader
<1>3. ASSUME NEW p \in Proc,
             Exit(p) \/ Die(p) \/ \E s \in Stream : Write(p, s) \/ Close(p, s)
      PROVE  IInv'
  BY <1>3, ExitIInv, DieIInv, WriteIInv, CloseIInv
<1>4. ASSUME NEW p \in Proc, NEW h \in Helper, Fork(p, h) \/ Escape(h) PROVE IInv'
  BY <1>4, ForkIInv, EscapeIInv
<1> QED
  BY <1>1, <1>2, <1>3, <1>4, EscapeIInv, TickIInv, StutterIInv DEF Next

THEOREM Invariance == Spec => []IInv
  BY InitIInv, NextIInv, PTL DEF Spec

\* A success is of a command that ended by itself, with all of its output
\* (run_with_timeout's result).
THEOREM SuccessIsWhole == Spec => []OkIsWhole
<1>1. IInv => OkIsWhole
  BY DEF IInv, TypeOK, SentInv, StatusInv, ResultInv, OkIsWhole
<1> QED
  BY <1>1, Invariance, PTL

\* No call leaves a zombie, or a process of the group with a pipe open (kill_tree).
THEOREM GroupIsCleared == Spec => []NothingLeftInTheGroup
<1>1. IInv => NothingLeftInTheGroup
  <2> SUFFICES ASSUME IInv, pc = "done", result # "not_spawned"
               PROVE  proc[Leader] = "gone" /\ \A s \in Stream : holds[s] \cap group = {}
    BY DEF NothingLeftInTheGroup
  <2>1. proc[Leader] = "gone"
    BY DEF IInv, LeaderInv
  <2>2. ASSUME have = Stream PROVE \A s \in Stream : holds[s] \cap group = {}
    BY <2>2 DEF IInv, TypeOK, SentInv, Eof
  <2>3. ASSUME have # Stream PROVE \A s \in Stream : holds[s] \cap group = {}
    <3>1. killedLate /\ clock > until - READER_GRACE
      BY <2>3 DEF IInv, TypeOK, LateInv, Missing, ResultInv
    <3>2. \A p \in group : proc[p] \notin {"running", "killed"}
      BY <3>1 DEF IInv, GroupInv, GraceInv
    <3> QED
      BY <3>2 DEF IInv, HoldInv
  <2> QED
    BY <2>1, <2>2, <2>3
<1> QED
  BY <1>1, Invariance, PTL

\* An output is given up only for a helper that left the group.
THEOREM GivenUpForAnEscapee == Spec => []OpenOnlyIfEscaped
<1>1. IInv => OpenOnlyIfEscaped
  BY DEF IInv, TypeOK, ResultInv, StatusInv, LateInv, Missing, OpenOnlyIfEscaped
<1> QED
  BY <1>1, Invariance, PTL

\* A command that ends by itself before its deadline succeeds, whatever the helpers
\* it left in its group do with the pipes.
THEOREM InTimeSucceeds == Spec => []ExitedInTimeIsOk
<1>1. IInv => ExitedInTimeIsOk
  BY DEF IInv, TypeOK, LeaderInv, StatusInv, ResultInv, LateInv, Missing, ExitedInTimeIsOk
<1> QED
  BY <1>1, Invariance, PTL

-----------------------------------------------------------------------------
(* The safety half of the promise: CommandRunner's steps are BoundedCommand's. *)

LEMMA PromiseInit == Init => Promise!Init
  BY DEF Init, Promise!Init

LEMMA PromiseNext == ASSUME IInv, [Next]_vars PROVE [Promise!Next]_(Promise!vars)
<1> USE DEF Promise!Next, Promise!vars
<1>1. ASSUME UNCHANGED <<clock, exitAt, status, result>> PROVE UNCHANGED Promise!vars
  BY <1>1
<1>2. CASE Spawn
  BY <1>2 DEF Spawn, Return, Promise!Answer, IInv, ResultInv, StatusInv
<1>3. CASE PollExited
  BY <1>3 DEF PollExited, IInv, StatusInv
<1>4. CASE PollGivesUp
  BY <1>4 DEF PollGivesUp, IInv, StatusInv, ResultInv, LeaderInv, Promise!Lose
<1>5. CASE Collected
  BY <1>5 DEF Collected, Return, Promise!Answer, IInv, TypeOK, StatusInv, ResultInv
<1>6. ASSUME pc # "done", NEW p \in Proc, Exit(p) PROVE [Promise!Next]_(Promise!vars)
  <2>1. result = "none" /\ UNCHANGED <<clock, status, result>>
    BY <1>6 DEF Exit, caller, IInv, ResultInv
  <2>2. CASE p = Leader /\ status = "none"
    <3>1. pc \in {"poll", "spawn"} /\ proc[Leader] = "running"
      BY <1>6, <2>1, <2>2 DEF Exit, IInv, TypeOK, StatusInv, ResultInv
    <3>2. exitAt = Never /\ exitAt' = clock
      BY <1>6, <2>2, <3>1 DEF Exit, IInv, LeaderInv, StatusInv
    <3> QED
      BY <2>1, <2>2, <3>2 DEF Promise!Ends
  <2>3. CASE p = Leader /\ status = "exited"
    <3>1. proc[Leader] # "running"
      BY <2>1, <2>3, <1>6 DEF IInv, TypeOK, LeaderInv, StatusInv, ResultInv
    <3> QED
      BY <1>6, <2>3, <3>1 DEF Exit
  <2>4. CASE p # Leader \/ status \notin {"none", "exited"}
    BY <1>6, <2>1, <2>4 DEF Exit
  <2> QED
    BY <2>2, <2>3, <2>4
<1>7. CASE Tick
  <2>1. clock < Promise!Promised
    BY <1>7 DEF Tick, Due, RunnerDue, ReaderDue, IInv, TypeOK, TimeInv, Limit, LeaderInv, StatusInv,
       ResultInv, Promise!Promised
  <2> QED
    BY <1>7, <2>1 DEF Tick, IInv, ResultInv, Promise!Tick
<1>8. CASE KillTree \/ Reap \/ \E s \in Stream : Receive(s) \/ Read(s) \/ SendOutput(s)
  BY <1>1, <1>8 DEF KillTree, Reap, Receive, Read, SendOutput, processes, caller
<1>9. ASSUME NEW p \in Proc, Die(p) \/ \E s \in Stream : Write(p, s) \/ Close(p, s)
      PROVE  [Promise!Next]_(Promise!vars)
  BY <1>1, <1>9 DEF Die, Write, Close, processes, caller
<1>10. ASSUME NEW h \in Helper, Escape(h) \/ \E p \in Proc : Fork(p, h)
       PROVE  [Promise!Next]_(Promise!vars)
  BY <1>1, <1>10 DEF Fork, Escape, processes, caller
<1>11. CASE UNCHANGED vars
  BY <1>1, <1>11 DEF vars, caller
<1> QED
  BY <1>2, <1>3, <1>4, <1>5, <1>6, <1>7, <1>8, <1>9, <1>10, <1>11 DEF Next, Runner, Reader

\* The caller has an answer, never a false success, within the timeout and the
\* graces, whatever the command and its helpers do.
THEOREM PromiseIsSafe == Spec => Promise!Init /\ [][Promise!Next]_(Promise!vars)
  BY PromiseInit, PromiseNext, Invariance, PTL DEF Spec

=============================================================================
