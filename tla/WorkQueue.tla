----------------------------- MODULE WorkQueue ------------------------------
(***************************************************************************)
(* The worker pool of the dispatcher (dispatch.rs): a two-level queue under *)
(* one mutex with a condition variable, the workers that drain it, and the *)
(* UI thread that pushes to it, drains the results, and closes it.         *)
(*                                                                         *)
(* A job is its identity, its lane and the request number it was queued    *)
(* with.  The UI's counters (App::tab_req, App::prefetch_seq) and the       *)
(* atomics the workers compare with (Generations) are separate variables: *)
(* the UI bumps the first and then stores it in the second.  Whatever runs *)
(* under the queue's mutex is one step; notify_one and notify_all come     *)
(* after the guard is dropped and are steps of their own.                  *)
(***************************************************************************)
EXTENDS Naturals, Sequences, FiniteSets

CONSTANTS
    Worker,     \* the pool's threads (2 to 8 of them)
    MaxJobs,    \* bound: jobs the UI pushes
    MaxBumps,   \* bound: new requests, on both droppable lanes together
    None        \* no job

Lane == {"tab", "prefetch", "other"}
Droppable == {"tab", "prefetch"}
Job == [id : 1 .. MaxJobs, lane : Lane, seq : 0 .. MaxBumps]

ASSUME PoolAssumption ==
    /\ MaxJobs \in Nat /\ MaxBumps \in Nat
    /\ Worker # {} /\ IsFiniteSet(Worker) /\ None \notin Job

VARIABLES
    urgent, background, closed,     \* Queues
    generations,                    \* Generations::tab and Generations::prefetch
    pc, job,                        \* the workers
    chan,                           \* job_tx/job_rx
    ui,                             \* where the UI thread is
    current,                        \* App::tab_req and App::prefetch_seq
    pushed,                         \* how many jobs were pushed (bounded)
    answered                        \* history: the jobs whose result was applied

queues == <<urgent, background, closed>>
workers == <<pc, job>>
vars == <<queues, generations, workers, chan, ui, current, pushed, answered>>

Bumps == current["tab"] + current["prefetch"]

-----------------------------------------------------------------------------
(* The UI thread.                                                          *)

\* begin_tab_request and enter_profile: a new active-tab request; the counter
\* first, then the atomic.
BeginTabRequest ==
    /\ ui = "idle"
    /\ Bumps < MaxBumps
    /\ current' = [current EXCEPT !["tab"] = @ + 1]
    /\ ui' = "noting"
    /\ UNCHANGED <<queues, generations, workers, chan, pushed, answered>>

\* note_tab_request.  The listing itself is pushed next, unless it goes to a
\* dedicated thread.
NoteTabRequest ==
    /\ ui = "noting"
    /\ generations' = [generations EXCEPT !["tab"] = current["tab"]]
    /\ ui' \in {"pushing", "idle"}
    /\ UNCHANGED <<queues, workers, chan, current, pushed, answered>>

\* prefetch_all: a new batch number only for another cluster.
PrefetchAll ==
    /\ ui = "idle"
    /\ \/ UNCHANGED current
       \/ Bumps < MaxBumps /\ current' = [current EXCEPT !["prefetch"] = @ + 1]
    /\ ui' = "noting_batch"
    /\ UNCHANGED <<queues, generations, workers, chan, pushed, answered>>

NotePrefetchBatch ==
    /\ ui = "noting_batch"
    /\ generations' = [generations EXCEPT !["prefetch"] = current["prefetch"]]
    /\ ui' = "warming"
    /\ UNCHANGED <<queues, workers, chan, current, pushed, answered>>

EndOfBatch ==
    /\ ui = "warming"
    /\ ui' = "idle"
    /\ UNCHANGED <<queues, generations, workers, chan, current, pushed, answered>>

NewJob(lane) ==
    [id |-> pushed + 1, lane |-> lane, seq |-> IF lane \in Droppable THEN current[lane] ELSE 0]

\* Where the UI pushes a job of each lane.
PushesAt == [tab |-> "pushing", prefetch |-> "warming", other |-> "idle"]

\* Where the UI is between the guard's drop and its notify_one.
Notifying(lane) == IF lane = "prefetch" THEN "notify_warming" ELSE "notify"

\* Mutant: only the first job of an empty queue wakes a worker.
Push_NotifyFirst(lane) ==
    /\ ui = PushesAt[lane]
    /\ pushed < MaxJobs
    /\ pushed' = pushed + 1
    /\ IF lane = "prefetch"
       THEN background' = Append(background, NewJob(lane)) /\ UNCHANGED urgent
       ELSE urgent' = Append(urgent, NewJob(lane)) /\ UNCHANGED background
    /\ ui' = IF urgent \o background = <<>> THEN Notifying(lane)
             ELSE IF lane = "prefetch" THEN "warming" ELSE "idle"
    /\ UNCHANGED <<closed, generations, workers, chan, current, answered>>

\* Mutant: a warm-up is queued without waking anybody.
Push_SilentBackground(lane) ==
    /\ ui = PushesAt[lane]
    /\ pushed < MaxJobs
    /\ pushed' = pushed + 1
    /\ IF lane = "prefetch"
       THEN background' = Append(background, NewJob(lane)) /\ UNCHANGED urgent
       ELSE urgent' = Append(urgent, NewJob(lane)) /\ UNCHANGED background
    /\ ui' = IF lane = "prefetch" THEN "warming" ELSE "notify"
    /\ UNCHANGED <<closed, generations, workers, chan, current, answered>>

\* WorkQueue::push.
Push(lane) ==
    /\ ui = PushesAt[lane]
    /\ pushed < MaxJobs
    /\ pushed' = pushed + 1
    /\ IF lane = "prefetch"
       THEN background' = Append(background, NewJob(lane)) /\ UNCHANGED urgent
       ELSE urgent' = Append(urgent, NewJob(lane)) /\ UNCHANGED background
    /\ ui' = Notifying(lane)
    /\ UNCHANGED <<closed, generations, workers, chan, current, answered>>

Waiting == {w \in Worker : pc[w] = "waiting"}

\* notify_one: any one of the waiting workers, if there is one.
NotifyOne ==
    /\ ui \in {"notify", "notify_warming"}
    /\ IF Waiting = {}
       THEN UNCHANGED pc
       ELSE \E w \in Waiting : pc' = [pc EXCEPT ![w] = "popping"]
    /\ ui' = IF ui = "notify" THEN "idle" ELSE "warming"
    /\ UNCHANGED <<queues, generations, job, chan, current, pushed, answered>>

\* drain_jobs and apply: a listing whose request was superseded is discarded.
IsCurrent(j) == j.lane \in Droppable => current[j.lane] = j.seq

Drain ==
    /\ ui = "idle"
    /\ chan # <<>>
    /\ chan' = Tail(chan)
    /\ answered' = IF IsCurrent(Head(chan)) THEN answered \cup {Head(chan)} ELSE answered
    /\ UNCHANGED <<queues, generations, workers, ui, current, pushed>>

\* Drop for Dispatcher: WorkQueue::close.
Close ==
    /\ ui = "idle"
    /\ closed' = TRUE
    /\ ui' = "notify_all"
    /\ UNCHANGED <<urgent, background, generations, workers, chan, current, pushed, answered>>

\* Mutant: closing wakes a single worker.
NotifyAll_One ==
    /\ ui = "notify_all"
    /\ IF Waiting = {}
       THEN UNCHANGED pc
       ELSE \E w \in Waiting : pc' = [pc EXCEPT ![w] = "popping"]
    /\ ui' = "dropped"
    /\ UNCHANGED <<queues, generations, job, chan, current, pushed, answered>>

NotifyAll ==
    /\ ui = "notify_all"
    /\ pc' = [w \in Worker |-> IF pc[w] = "waiting" THEN "popping" ELSE pc[w]]
    /\ ui' = "dropped"
    /\ UNCHANGED <<queues, generations, job, chan, current, pushed, answered>>

-----------------------------------------------------------------------------
(* The workers.                                                            *)

Take(w, j) ==
    /\ pc' = [pc EXCEPT ![w] = "taken"]
    /\ job' = [job EXCEPT ![w] = j]

\* Mutant: background jobs are taken first.
Pop_BackgroundFirst(w) ==
    /\ pc[w] = "popping"
    /\ \/ closed /\ pc' = [pc EXCEPT ![w] = "exited"] /\ UNCHANGED <<urgent, background, job>>
       \/ /\ ~closed /\ background # <<>>
          /\ Take(w, Head(background)) /\ background' = Tail(background) /\ UNCHANGED urgent
       \/ /\ ~closed /\ background = <<>> /\ urgent # <<>>
          /\ Take(w, Head(urgent)) /\ urgent' = Tail(urgent) /\ UNCHANGED background
       \/ /\ ~closed /\ urgent = <<>> /\ background = <<>>
          /\ pc' = [pc EXCEPT ![w] = "waiting"] /\ UNCHANGED <<urgent, background, job>>
    /\ UNCHANGED <<closed, generations, chan, ui, current, pushed, answered>>

\* One round of WorkQueue::pop's loop, under the mutex; waiting releases it.
Pop(w) ==
    /\ pc[w] = "popping"
    /\ \/ closed /\ pc' = [pc EXCEPT ![w] = "exited"] /\ UNCHANGED <<urgent, background, job>>
       \/ /\ ~closed /\ urgent # <<>>
          /\ Take(w, Head(urgent)) /\ urgent' = Tail(urgent) /\ UNCHANGED background
       \/ /\ ~closed /\ urgent = <<>> /\ background # <<>>
          /\ Take(w, Head(background)) /\ background' = Tail(background) /\ UNCHANGED urgent
       \/ /\ ~closed /\ urgent = <<>> /\ background = <<>>
          /\ pc' = [pc EXCEPT ![w] = "waiting"] /\ UNCHANGED <<urgent, background, job>>
    /\ UNCHANGED <<closed, generations, chan, ui, current, pushed, answered>>

\* A condition variable may wake a thread nobody notified; it loops.
WakeSpuriously(w) ==
    /\ pc[w] = "waiting"
    /\ pc' = [pc EXCEPT ![w] = "popping"]
    /\ UNCHANGED <<queues, generations, job, chan, ui, current, pushed, answered>>

\* Mutant: every job is compared with the active tab's request.
IsStale_AnyLane(j) == generations["tab"] # j.seq

\* Generations::is_stale.
IsStale(j) == j.lane \in Droppable /\ generations[j.lane] # j.seq

\* A job superseded while it queued is dropped unrun.
Check(w) ==
    /\ pc[w] = "taken"
    /\ IF IsStale(job[w])
       THEN pc' = [pc EXCEPT ![w] = "popping"] /\ job' = [job EXCEPT ![w] = None]
       ELSE pc' = [pc EXCEPT ![w] = "running"] /\ UNCHANGED job
    /\ UNCHANGED <<queues, generations, chan, ui, current, pushed, answered>>

\* run_job ends (a job is a bounded subprocess) and its result is sent.
Finish(w) ==
    /\ pc[w] = "running"
    /\ pc' = [pc EXCEPT ![w] = "popping"]
    /\ job' = [job EXCEPT ![w] = None]
    /\ chan' = Append(chan, job[w])
    /\ UNCHANGED <<queues, generations, ui, current, pushed, answered>>

WorkerStep(w) == Pop(w) \/ Check(w) \/ Finish(w)

-----------------------------------------------------------------------------
Init ==
    /\ urgent = <<>> /\ background = <<>> /\ closed = FALSE
    /\ generations = [l \in Droppable |-> 0]
    /\ current = [l \in Droppable |-> 0]
    /\ pc = [w \in Worker |-> "popping"]
    /\ job = [w \in Worker |-> None]
    /\ chan = <<>>
    /\ ui = "idle"
    /\ pushed = 0
    /\ answered = {}

\* What the UI does once it has begun something.
UIContinues == NoteTabRequest \/ NotePrefetchBatch \/ EndOfBatch \/ NotifyOne \/ NotifyAll

\* What the UI may begin, in answer to a key, a timer or a result.
UIBegins == BeginTabRequest \/ PrefetchAll \/ Close

\* A request whose listing the bound cuts off.
GiveUp == ui = "pushing" /\ pushed = MaxJobs /\ ui' = "idle" /\
          UNCHANGED <<queues, generations, workers, chan, current, pushed, answered>>

\* The program is over.
Done ==
    /\ ui = "dropped"
    /\ \A w \in Worker : pc[w] = "exited"
    /\ UNCHANGED vars

Next ==
    \/ UIBegins \/ UIContinues \/ GiveUp \/ Drain
    \/ \E lane \in Lane : Push(lane)
    \/ \E w \in Worker : WorkerStep(w) \/ WakeSpuriously(w)
    \/ Done

\* A handler of the UI runs to its end, a runnable worker runs, and the event
\* loop drains the channel between any two keys: a result that stays on it is
\* drained however many handlers run in between.  Nothing is assumed of the
\* user, of spurious wake-ups, or of which waiter is notified.
Fairness ==
    /\ WF_vars(UIContinues)
    /\ WF_vars(Push("tab") \/ GiveUp)
    /\ SF_vars(Drain)
    /\ \A w \in Worker : WF_vars(WorkerStep(w))

Spec == Init /\ [][Next]_vars /\ Fairness

-----------------------------------------------------------------------------
TypeOK ==
    /\ urgent \in Seq(Job) /\ background \in Seq(Job) /\ chan \in Seq(Job)
    /\ closed \in BOOLEAN
    /\ generations \in [Droppable -> 0 .. MaxBumps] /\ current \in [Droppable -> 0 .. MaxBumps]
    /\ pc \in [Worker -> {"popping", "waiting", "taken", "running", "exited"}]
    /\ job \in [Worker -> Job \cup {None}]
    /\ \A w \in Worker : pc[w] \in {"taken", "running"} => job[w] \in Job
    /\ ui \in {"idle", "noting", "pushing", "noting_batch", "warming", "notify",
               "notify_warming", "notify_all", "dropped"}
    /\ pushed \in 0 .. MaxJobs
    /\ answered \subseteq Job

Elements(q) == {q[i] : i \in 1 .. Len(q)}
Queued == Elements(urgent) \cup Elements(background)
Held == {job[w] : w \in Worker} \ {None}

\* "So the tab the user is looking at never waits behind a batch warming the
\* others": while an urgent job is queued, no job pushed after it has left the
\* queue.
NotOvertaken ==
    \A j \in Elements(urgent) :
        \A n \in j.id + 1 .. pushed : \E k \in Queued : k.id = n

\* No wake-up is lost: while a worker sleeps, every queued job has an awake
\* worker on its way to the queue, or the UI about to notify one.
NoJobLeftWaiting ==
    TypeOK /\ (Waiting # {} /\ ~closed =>
        Len(urgent) + Len(background) <=
            Cardinality({w \in Worker : pc[w] = "popping"})
          + IF ui \in {"notify", "notify_warming"} THEN 1 ELSE 0)

\* The pool implements the service the UI relies on: a job is answered at most
\* once, and one that is dropped, by a worker or by the UI, is one whose result
\* the UI would have discarded; jobs keep being served.
Service ==
    INSTANCE JobService WITH
        asked <- Queued \cup Held \cup Elements(chan),
        latest <- current,
        open <- ~closed

ServiceSpec == Service!Spec

\* Every job leaves the pool, whatever else is queued, once the user stops
\* asking for more (at the bound).
EveryJobEnds ==
    \A n \in 1 .. MaxJobs :
        pushed >= n ~> closed \/ (\A k \in Queued \cup Held \cup Elements(chan) : k.id # n)

\* The pool's threads end once the dispatcher is dropped ("they would otherwise
\* block on the queue forever").
WorkersExit == closed ~> \A w \in Worker : pc[w] = "exited"
=============================================================================
