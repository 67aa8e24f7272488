--------------------------- MODULE WorkQueue_proofs ---------------------------
(* What holds of WorkQueue for any number of workers, jobs and requests.     *)
EXTENDS WorkQueue, FiniteSetTheorems, TLAPS

\* A lane is a queue: jobs are in it in the order of their pushes.
Sorted(q) == \A i, k \in 1 .. Len(q) : i < k => q[i].id < q[k].id
Distinct(q) == \A i, k \in 1 .. Len(q) : i # k => q[i].id # q[k].id

OrderInv == Sorted(urgent) /\ Sorted(background) /\ Distinct(chan)

Chan == Elements(chan)
Somewhere == Queued \cup Held \cup Chan \cup answered

\* A job is in one place, and was pushed.
PlaceInv ==
    /\ \A j \in Somewhere : j.id <= pushed
    /\ \A j \in Elements(urgent), k \in Elements(background) : j.id # k.id
    /\ \A j \in Queued, k \in Held \cup Chan \cup answered : j.id # k.id
    /\ \A j \in Held, k \in Chan \cup answered : j.id # k.id
    /\ \A j \in Chan, k \in answered : j.id # k.id
    /\ \A v, w \in Worker : v # w /\ job[v] # None /\ job[w] # None => job[v].id # job[w].id
    /\ \A w \in Worker : pc[w] \notin {"taken", "running"} => job[w] = None

\* What a worker compares a job with is never ahead of the UI, and no job was
\* queued for a request the workers have not been told of.
StaleInv ==
    /\ \A l \in Droppable : generations[l] <= current[l]
    /\ ui \notin {"noting", "noting_batch"} => generations = current
    /\ ui = "noting" => generations["prefetch"] = current["prefetch"]
    /\ ui = "noting_batch" => generations["tab"] = current["tab"]
    /\ \A j \in Queued \cup Held \cup Chan : j.lane \in Droppable => j.seq <= generations[j.lane]

ClosedInv == closed <=> ui \in {"notify_all", "dropped"}

NextType == Bumps <= MaxBumps

IInv == TypeOK /\ NextType /\ OrderInv /\ NotOvertaken /\ PlaceInv /\ StaleInv /\ ClosedInv

USE PoolAssumption

-----------------------------------------------------------------------------
(* Queues and their elements.                                              *)

LEMMA ElementsOf == ASSUME NEW q \in Seq(Job) PROVE Elements(q) \subseteq Job
  BY DEF Elements

LEMMA Dequeue ==
    ASSUME NEW q \in Seq(Job), q # <<>>
    PROVE  /\ Head(q) \in Job /\ Tail(q) \in Seq(Job)
           /\ Elements(q) = {Head(q)} \cup Elements(Tail(q))
           /\ Sorted(q) => Sorted(Tail(q)) /\ \A j \in Elements(Tail(q)) : Head(q).id < j.id
           /\ Distinct(q) => Distinct(Tail(q)) /\ \A j \in Elements(Tail(q)) : Head(q).id # j.id
<1>1. Tail(q) \in Seq(Job) /\ Head(q) = q[1] /\ Len(q) >= 1 /\ Len(Tail(q)) = Len(q) - 1
  OBVIOUS
<1>2. \A i \in 1 .. Len(Tail(q)) : Tail(q)[i] = q[i + 1] /\ i + 1 \in 1 .. Len(q)
  OBVIOUS
<1>3. \A i \in 1 .. Len(q) : i = 1 \/ (i - 1 \in 1 .. Len(Tail(q)) /\ Tail(q)[i - 1] = q[i])
  BY <1>1, <1>2
<1>4. Elements(q) = {Head(q)} \cup Elements(Tail(q))
  BY <1>1, <1>2, <1>3 DEF Elements
<1>5. Sorted(q) => Sorted(Tail(q)) /\ \A j \in Elements(Tail(q)) : Head(q).id < j.id
  BY <1>1, <1>2 DEF Elements, Sorted
<1>6. Distinct(q) => Distinct(Tail(q)) /\ \A j \in Elements(Tail(q)) : Head(q).id # j.id
  BY <1>1, <1>2 DEF Elements, Distinct
<1> QED
  BY <1>1, <1>4, <1>5, <1>6

LEMMA Enqueue ==
    ASSUME NEW q \in Seq(Job), NEW j \in Job
    PROVE  /\ Append(q, j) \in Seq(Job)
           /\ Elements(Append(q, j)) = Elements(q) \cup {j}
           /\ Sorted(q) /\ (\A k \in Elements(q) : k.id < j.id) => Sorted(Append(q, j))
           /\ Distinct(q) /\ (\A k \in Elements(q) : k.id # j.id) => Distinct(Append(q, j))
<1> DEFINE a == Append(q, j)
<1>1. a \in Seq(Job) /\ Len(a) = Len(q) + 1 /\ a[Len(q) + 1] = j
  OBVIOUS
<1>2. \A i \in 1 .. Len(q) : a[i] = q[i]
  OBVIOUS
<1>3. \A i \in 1 .. Len(a) : i = Len(q) + 1 \/ i \in 1 .. Len(q)
  BY <1>1
<1> HIDE DEF a
<1>4. Elements(a) = Elements(q) \cup {j}
  <2>1. ASSUME NEW x \in Elements(a) PROVE x \in Elements(q) \cup {j}
    BY <1>1, <1>2, <1>3 DEF Elements
  <2>2. ASSUME NEW x \in Elements(q) PROVE x \in Elements(a)
    <3>1. PICK i \in 1 .. Len(q) : x = q[i]
      BY DEF Elements
    <3>2. i \in 1 .. Len(a) /\ x = a[i]
      BY <1>1, <1>2, <3>1
    <3> QED
      BY <3>2 DEF Elements
  <2>3. j \in Elements(a)
    <3>1. Len(q) + 1 \in 1 .. Len(a)
      BY <1>1
    <3> QED
      BY <1>1, <3>1 DEF Elements
  <2> QED
    BY <2>1, <2>2, <2>3
<1>5. ASSUME Sorted(q), \A k \in Elements(q) : k.id < j.id PROVE Sorted(a)
  BY <1>1, <1>2, <1>3, <1>5 DEF Elements, Sorted
<1>6. ASSUME Distinct(q), \A k \in Elements(q) : k.id # j.id PROVE Distinct(a)
  BY <1>1, <1>2, <1>3, <1>6 DEF Elements, Distinct
<1> QED
  BY <1>1, <1>4, <1>5, <1>6 DEF a

LEMMA JobFields == \A j \in Job : j.id \in Nat /\ j.id \in 1 .. MaxJobs /\ j.lane \in Lane /\ j.seq \in Nat
  BY DEF Job

LEMMA AllAreJobs ==
    ASSUME TypeOK
    PROVE  Queued \subseteq Job /\ Held \subseteq Job /\ Chan \subseteq Job /\ Somewhere \subseteq Job
<1>1. Queued \subseteq Job /\ Chan \subseteq Job
  BY ElementsOf DEF TypeOK, Queued, Chan
<1>2. Held \subseteq Job
  BY DEF TypeOK, Held
<1> QED
  BY <1>1, <1>2 DEF TypeOK, Somewhere

LEMMA EmptyElements == Elements(<<>>) = {}
  BY DEF Elements

LEMMA TakeHeld ==
    ASSUME job \in [Worker -> Job \cup {None}], NEW w \in Worker, job[w] = None, NEW j \in Job,
           job' = [job EXCEPT ![w] = j]
    PROVE  Held' = Held \cup {j}
<1>1. \A v \in Worker : job'[v] = IF v = w THEN j ELSE job[v]
  OBVIOUS
<1> QED
  BY <1>1 DEF Held, Job

LEMMA DropHeld ==
    ASSUME job \in [Worker -> Job \cup {None}], NEW w \in Worker, job[w] # None,
           \A u, v \in Worker : u # v /\ job[u] # None /\ job[v] # None => job[u].id # job[v].id,
           job' = [job EXCEPT ![w] = None]
    PROVE  Held' = Held \ {job[w]}
<1>1. \A v \in Worker : job'[v] = IF v = w THEN None ELSE job[v]
  OBVIOUS
<1> QED
  BY <1>1 DEF Held


-----------------------------------------------------------------------------
(* Steps that move no job.                                                 *)

LEMMA JobsStay ==
    ASSUME IInv, UNCHANGED <<urgent, background, job, chan, answered, pushed>>
    PROVE  /\ (OrderInv /\ NotOvertaken)'
           /\ UNCHANGED <<Elements(urgent), Elements(background), Queued, Held, Chan, Somewhere>>
<1>1. UNCHANGED <<Elements(urgent), Elements(background), Queued, Held, Chan, Somewhere>>
  BY DEF Queued, Held, Chan, Somewhere, Elements
<1>2. OrderInv'
  BY DEF IInv, OrderInv, Sorted, Distinct
<1>3. NotOvertaken'
  BY <1>1 DEF IInv, NotOvertaken
<1> QED
  BY <1>1, <1>2, <1>3

\* The UI's counters move, the workers stay where they are.
LEMMA RequestIInv ==
    ASSUME IInv, BeginTabRequest \/ NoteTabRequest \/ PrefetchAll \/ NotePrefetchBatch \/ EndOfBatch \/ GiveUp
    PROVE  IInv'
<1> USE DEF BeginTabRequest, NoteTabRequest, PrefetchAll, NotePrefetchBatch, EndOfBatch, GiveUp, queues, workers
<1>1. UNCHANGED <<urgent, background, closed, pc, job, chan, answered, pushed>>
  OBVIOUS
<1>2. TypeOK' /\ NextType'
  <2> USE DEF IInv, TypeOK, NextType, Bumps, Droppable
  <2>1. CASE BeginTabRequest
    BY <1>1, <2>1
  <2>2. CASE NoteTabRequest
    BY <1>1, <2>2
  <2>3. CASE PrefetchAll
    BY <1>1, <2>3
  <2>4. CASE NotePrefetchBatch
    BY <1>1, <2>4
  <2>5. CASE EndOfBatch \/ GiveUp
    BY <1>1, <2>5
  <2> QED
    BY <2>1, <2>2, <2>3, <2>4, <2>5
<1>3. (OrderInv /\ NotOvertaken)' /\ UNCHANGED <<Elements(urgent), Elements(background), Queued, Held, Chan, Somewhere>>
  BY <1>1, JobsStay
<1>4. PlaceInv'
  BY <1>1, <1>3 DEF IInv, PlaceInv
<1>5. StaleInv'
  <2>1. \A l \in Droppable : generations[l] \in Nat /\ current[l] \in Nat
    BY DEF IInv, TypeOK
  <2>2. \A j \in Queued \cup Held \cup Chan : j.seq \in Nat
    BY AllAreJobs, JobFields DEF IInv
  <2> USE DEF IInv, TypeOK, StaleInv, Droppable
  <2>3. CASE BeginTabRequest
    BY <1>3, <2>1, <2>3
  <2>4. CASE NoteTabRequest
    BY <1>3, <2>1, <2>2, <2>4
  <2>5. CASE PrefetchAll
    BY <1>3, <2>1, <2>5
  <2>6. CASE NotePrefetchBatch
    BY <1>3, <2>1, <2>2, <2>6
  <2>7. CASE EndOfBatch \/ GiveUp
    BY <1>3, <2>7
  <2> QED
    BY <2>3, <2>4, <2>5, <2>6, <2>7
<1>6. ClosedInv'
  BY <1>1 DEF IInv, ClosedInv
<1> QED
  BY <1>2, <1>3, <1>4, <1>5, <1>6 DEF IInv

\* Wake-ups move workers between waiting and popping only.
LEMMA WakeIInv ==
    ASSUME IInv, NotifyOne \/ Close \/ NotifyAll \/ \E w \in Worker : WakeSpuriously(w)
    PROVE  IInv'
<1> USE DEF NotifyOne, Close, NotifyAll, WakeSpuriously, queues, workers, Waiting
<1>1. UNCHANGED <<urgent, background, job, chan, answered, pushed, generations, current>>
  OBVIOUS
<1>2. TypeOK' /\ NextType' /\ ClosedInv'
  <2> USE DEF IInv, TypeOK, NextType, Bumps, ClosedInv
  <2>1. CASE NotifyOne
    BY <1>1, <2>1
  <2>2. CASE Close
    BY <1>1, <2>2
  <2>3. CASE NotifyAll
    BY <1>1, <2>3
  <2>4. CASE \E w \in Worker : WakeSpuriously(w)
    BY <1>1, <2>4
  <2> QED
    BY <2>1, <2>2, <2>3, <2>4
<1>3. (OrderInv /\ NotOvertaken)' /\ UNCHANGED <<Elements(urgent), Elements(background), Queued, Held, Chan, Somewhere>>
  BY <1>1, JobsStay
<1>4. PlaceInv'
  BY <1>1, <1>3 DEF IInv, TypeOK, PlaceInv
<1>5. StaleInv'
  BY <1>1, <1>3 DEF IInv, StaleInv
<1> QED
  BY <1>2, <1>3, <1>4, <1>5 DEF IInv

-----------------------------------------------------------------------------
(* Steps that move one.                                                    *)

LEMMA PushIInv == ASSUME IInv, NEW lane \in Lane, Push(lane) PROVE IInv'
<1> DEFINE j == NewJob(lane)
<1>1. j \in Job /\ j.id = pushed + 1 /\ (j.lane \in Droppable => j.seq = current[j.lane])
  BY DEF IInv, TypeOK, Push, NewJob, Job, Lane, Droppable
<1>2. UNCHANGED <<closed, generations, pc, job, chan, current, answered>> /\ pushed' = pushed + 1
  BY DEF Push, workers
<1>3. ui \in {"pushing", "warming", "idle"} /\ ui' \in {"notify", "notify_warming"}
  BY DEF Push, PushesAt, Lane, Notifying
<1>4. \A k \in Somewhere : k.id \in Nat /\ k.id < j.id
  BY <1>1, AllAreJobs, JobFields DEF IInv, TypeOK, PlaceInv
<1>5. \/ urgent' = Append(urgent, j) /\ background' = background
      \/ background' = Append(background, j) /\ urgent' = urgent
  BY DEF Push
<1> HIDE DEF j
<1>6. /\ urgent' \in Seq(Job) /\ background' \in Seq(Job)
      /\ \/ Elements(urgent)' = Elements(urgent) \cup {j} /\ Elements(background)' = Elements(background)
         \/ Elements(background)' = Elements(background) \cup {j} /\ Elements(urgent)' = Elements(urgent)
      /\ OrderInv'
  <2>1. CASE urgent' = Append(urgent, j) /\ background' = background
    BY <1>1, <1>2, <1>4, <2>1, Enqueue DEF IInv, TypeOK, OrderInv, Somewhere, Queued
  <2>2. CASE background' = Append(background, j) /\ urgent' = urgent
    BY <1>1, <1>2, <1>4, <2>2, Enqueue DEF IInv, TypeOK, OrderInv, Somewhere, Queued
  <2> QED
    BY <1>5, <2>1, <2>2
<1>7. /\ Queued' = Queued \cup {j} /\ Held' = Held /\ Chan' = Chan
      /\ Somewhere' = Somewhere \cup {j}
  BY <1>2, <1>6 DEF Queued, Held, Chan, Somewhere
<1>8. TypeOK' /\ NextType'
  BY <1>2, <1>3, <1>6 DEF IInv, TypeOK, NextType, Bumps, Push
<1>9. NotOvertaken'
  <2> SUFFICES ASSUME NEW u \in Elements(urgent)', NEW n \in u.id + 1 .. pushed'
               PROVE  \E k \in Queued' : k.id = n
    BY DEF NotOvertaken
  <2>1. CASE n = pushed + 1
    BY <1>1, <1>7, <2>1
  <2>2. CASE n # pushed + 1
    <3>1. u.id \in Nat /\ u # j
      <4>1. u \in Job
        BY <1>6, ElementsOf
      <4>2. u.id \in Nat
        BY <4>1, JobFields
      <4> QED
        BY <1>1, <1>2, <2>2, <4>2 DEF IInv, TypeOK
    <3>2. u \in Elements(urgent) /\ n \in u.id + 1 .. pushed
      BY <1>2, <1>6, <2>2, <3>1 DEF IInv, TypeOK
    <3> QED
      BY <1>7, <3>2 DEF IInv, NotOvertaken
  <2> QED
    BY <2>1, <2>2
<1>10. PlaceInv'
  <2>1. \A k \in Somewhere' : k.id <= pushed'
    <3>1. pushed \in Nat /\ \A k \in Somewhere : k.id <= pushed
      BY DEF IInv, TypeOK, PlaceInv
    <3> QED
      BY <1>1, <1>2, <1>4, <1>7, <3>1
  <2>2. \A k \in Somewhere : k.id # j.id
    BY <1>1, <1>4 DEF IInv, TypeOK
  <2>3. \A u \in Elements(urgent)', k \in Elements(background)' : u.id # k.id
    BY <1>6, <2>2 DEF IInv, PlaceInv, Somewhere, Queued
  <2> QED
    BY <1>2, <1>7, <2>1, <2>2, <2>3 DEF IInv, PlaceInv, Somewhere
<1>11. StaleInv' /\ ClosedInv'
  BY <1>1, <1>2, <1>3, <1>7 DEF IInv, StaleInv, ClosedInv
<1> QED
  BY <1>6, <1>8, <1>9, <1>10, <1>11 DEF IInv

LEMMA DrainIInv == ASSUME IInv, Drain PROVE IInv'
<1> DEFINE j == Head(chan)
<1>1. /\ UNCHANGED <<urgent, background, closed, generations, pc, job, ui, current, pushed>>
      /\ chan # <<>> /\ chan' = Tail(chan) /\ answered \subseteq answered' /\ answered' \subseteq answered \cup {j}
  BY DEF Drain, queues, workers
<1>2. /\ j \in Job /\ chan' \in Seq(Job) /\ Chan = {j} \cup Chan' /\ Distinct(chan')
      /\ \A k \in Chan' : j.id # k.id
  BY <1>1, Dequeue DEF IInv, TypeOK, OrderInv, Chan
<1> HIDE DEF j
<1>3. UNCHANGED <<Elements(urgent), Elements(background), Queued, Held>>
  BY <1>1 DEF Queued, Held, Elements
<1>4. TypeOK' /\ NextType' /\ ClosedInv'
  BY <1>1, <1>2 DEF IInv, TypeOK, NextType, Bumps, ClosedInv
<1>5. OrderInv' /\ NotOvertaken'
  BY <1>1, <1>2, <1>3 DEF IInv, OrderInv, Sorted, NotOvertaken
<1>6. PlaceInv'
  BY <1>1, <1>2, <1>3 DEF IInv, PlaceInv, Somewhere
<1>7. StaleInv'
  BY <1>1, <1>2, <1>3 DEF IInv, StaleInv
<1> QED
  BY <1>4, <1>5, <1>6, <1>7 DEF IInv

\* A worker takes the head of one lane; of the second only if the first is empty.
LEMMA TakeIInv ==
    ASSUME IInv, NEW w \in Worker, pc[w] = "popping", NEW j \in Job, Take(w, j),
           UNCHANGED <<closed, generations, chan, ui, current, pushed, answered>>,
           \/ urgent # <<>> /\ j = Head(urgent) /\ urgent' = Tail(urgent) /\ UNCHANGED background
           \/ urgent = <<>> /\ background # <<>> /\ j = Head(background) /\ background' = Tail(background)
              /\ UNCHANGED urgent
    PROVE  IInv'
<1>1. /\ urgent' \in Seq(Job) /\ background' \in Seq(Job) /\ Sorted(urgent') /\ Sorted(background')
      /\ \/ /\ Elements(urgent) = {j} \cup Elements(urgent)' /\ UNCHANGED Elements(background)
            /\ \A k \in Elements(urgent)' : j.id < k.id
         \/ /\ Elements(background) = {j} \cup Elements(background)' /\ UNCHANGED Elements(urgent)
            /\ Elements(urgent) = {}
            /\ \A k \in Elements(background)' : j.id < k.id
  <2>1. CASE urgent # <<>> /\ j = Head(urgent) /\ urgent' = Tail(urgent) /\ UNCHANGED background
    BY <2>1, Dequeue DEF IInv, TypeOK, OrderInv
  <2>2. CASE urgent = <<>> /\ background # <<>> /\ j = Head(background) /\ background' = Tail(background)
             /\ UNCHANGED urgent
    BY <2>2, Dequeue, EmptyElements DEF IInv, TypeOK, OrderInv
  <2> QED
    BY <2>1, <2>2
<1>2. Queued = {j} \cup Queued' /\ \A k \in Queued' : k.id # j.id
  <2>1. j.id \in Nat /\ \A k \in Elements(urgent)' \cup Elements(background)' : k.id \in Nat
    BY <1>1, ElementsOf, JobFields
  <2>2. Queued = {j} \cup Queued'
    BY <1>1 DEF Queued
  <2>3. \A k \in Queued' : k.id # j.id
    BY <1>1, <2>1 DEF Queued, IInv, PlaceInv
  <2> QED
    BY <2>2, <2>3
<1>3. Held' = Held \cup {j} /\ job[w] = None /\ Chan' = Chan
  BY TakeHeld DEF IInv, TypeOK, PlaceInv, Take, Chan
<1>4. TypeOK' /\ NextType' /\ ClosedInv'
  BY <1>1 DEF IInv, TypeOK, NextType, Bumps, ClosedInv, Take
<1>5. OrderInv'
  BY <1>1 DEF IInv, OrderInv
<1>6. NotOvertaken'
  <2> SUFFICES ASSUME NEW u \in Elements(urgent)', NEW n \in u.id + 1 .. pushed
               PROVE  \E k \in Queued' : k.id = n
    BY DEF NotOvertaken
  <2>1. u \in Elements(urgent) /\ j.id < u.id /\ u.id \in Nat /\ j.id \in Nat
    BY <1>1, ElementsOf, JobFields
  <2>2. PICK k \in Queued : k.id = n
    BY <2>1 DEF IInv, NotOvertaken
  <2> QED
    BY <1>2, <2>1, <2>2 DEF IInv, TypeOK
<1>7. PlaceInv'
  <2>1. \A u \in Elements(urgent)', k \in Elements(background)' : u.id # k.id
    BY <1>1 DEF IInv, PlaceInv
  <2>2. Somewhere' = Somewhere
    BY <1>2, <1>3 DEF Somewhere
  <2>3. \A v \in Worker : v # w /\ job[v] # None => job[v].id # j.id /\ job'[v] = job[v]
    BY <1>2 DEF IInv, TypeOK, PlaceInv, Take, Held
  <2>4. job'[w] = j /\ pc' = [pc EXCEPT ![w] = "taken"]
    BY DEF IInv, TypeOK, Take
  <2>5. \A u, v \in Worker : u # v /\ job'[u] # None /\ job'[v] # None => job'[u].id # job'[v].id
    <3> SUFFICES ASSUME NEW u \in Worker, NEW v \in Worker, u # v, job'[u] # None, job'[v] # None
                 PROVE  job'[u].id # job'[v].id
      OBVIOUS
    <3>1. \A x \in Worker : x # w => job'[x] = job[x]
      BY DEF IInv, TypeOK, Take
    <3>2. CASE u # w /\ v # w
      BY <3>1, <3>2 DEF IInv, PlaceInv
    <3>3. CASE u = w
      BY <2>3, <2>4, <3>1, <3>3
    <3>4. CASE v = w
      BY <2>3, <2>4, <3>1, <3>4
    <3> QED
      BY <3>2, <3>3, <3>4
  <2>6. \A v \in Worker : pc'[v] \notin {"taken", "running"} => job'[v] = None
    <3>1. pc'[w] = "taken" /\ \A x \in Worker : x # w => job'[x] = job[x] /\ pc'[x] = pc[x]
      BY DEF IInv, TypeOK, Take
    <3> QED
      BY <3>1 DEF IInv, PlaceInv
  <2> QED
    BY <1>2, <1>3, <2>1, <2>2, <2>5, <2>6 DEF IInv, PlaceInv
<1>8. StaleInv'
  BY <1>2, <1>3 DEF IInv, StaleInv
<1> QED
  BY <1>4, <1>5, <1>6, <1>7, <1>8 DEF IInv

LEMMA PopIInv == ASSUME IInv, NEW w \in Worker, Pop(w) PROVE IInv'
<1>1. CASE urgent # <<>> /\ Take(w, Head(urgent)) /\ urgent' = Tail(urgent) /\ UNCHANGED background
  BY <1>1, TakeIInv, Dequeue DEF Pop, IInv, TypeOK
<1>2. CASE urgent = <<>> /\ background # <<>> /\ Take(w, Head(background))
           /\ background' = Tail(background) /\ UNCHANGED urgent
  BY <1>2, TakeIInv, Dequeue DEF Pop, IInv, TypeOK
<1>3. CASE pc' \in {[pc EXCEPT ![w] = "exited"], [pc EXCEPT ![w] = "waiting"]}
           /\ UNCHANGED <<urgent, background, job>>
  <2>1. UNCHANGED <<closed, generations, chan, ui, current, pushed, answered>> /\ pc[w] = "popping"
    BY DEF Pop
  <2>2. TypeOK' /\ NextType' /\ ClosedInv'
    BY <1>3, <2>1 DEF IInv, TypeOK, NextType, Bumps, ClosedInv
  <2>3. (OrderInv /\ NotOvertaken)' /\ UNCHANGED <<Elements(urgent), Elements(background), Queued, Held, Chan, Somewhere>>
    BY <1>3, <2>1, JobsStay
  <2>4. PlaceInv' /\ StaleInv'
    BY <1>3, <2>1, <2>3 DEF IInv, TypeOK, PlaceInv, StaleInv
  <2> QED
    BY <2>2, <2>3, <2>4 DEF IInv
<1> QED
  BY <1>1, <1>2, <1>3 DEF Pop

\* A worker lets go of its job: dropped, or sent.
LEMMA ReleaseIInv ==
    ASSUME IInv, NEW w \in Worker, job[w] # None, pc' = [pc EXCEPT ![w] = "popping"],
           job' = [job EXCEPT ![w] = None], chan' \in {chan, Append(chan, job[w])},
           UNCHANGED <<queues, generations, ui, current, pushed, answered>>
    PROVE  IInv'
<1>1. job[w] \in Job /\ job[w] \in Held
  BY DEF IInv, TypeOK, Held
<1>2. Held' = Held \ {job[w]}
  BY DropHeld DEF IInv, TypeOK, PlaceInv
<1>3. chan' \in Seq(Job) /\ Distinct(chan') /\ Chan \subseteq Chan' /\ Chan' \subseteq Chan \cup {job[w]}
  <2>1. CASE chan' = chan
    BY <2>1 DEF IInv, TypeOK, OrderInv, Chan
  <2>2. CASE chan' = Append(chan, job[w])
    BY <1>1, <2>2, Enqueue DEF IInv, TypeOK, OrderInv, PlaceInv, Chan
  <2> QED
    BY <2>1, <2>2
<1>4. UNCHANGED <<Elements(urgent), Elements(background), Queued>>
  BY DEF Queued, Elements, queues
<1>5. TypeOK' /\ NextType' /\ ClosedInv'
  BY <1>3 DEF IInv, TypeOK, NextType, Bumps, ClosedInv, queues
<1>6. OrderInv' /\ NotOvertaken'
  BY <1>3, <1>4 DEF IInv, OrderInv, Sorted, NotOvertaken, queues
<1>7. PlaceInv'
  <2>1. Somewhere' \subseteq Somewhere
    BY <1>1, <1>2, <1>3, <1>4 DEF Somewhere
  <2>2. \A k \in Held' : k # job[w] /\ k.id # job[w].id
    BY <1>1, <1>2 DEF IInv, TypeOK, PlaceInv, Held
  <2>3. \A v \in Worker : job'[v] = IF v = w THEN None ELSE job[v]
    BY DEF IInv, TypeOK
  <2>4. \A v \in Worker : v # w => pc'[v] = pc[v]
    BY DEF IInv, TypeOK
  <2>5. /\ \A u, v \in Worker : u # v /\ job'[u] # None /\ job'[v] # None => job'[u].id # job'[v].id
        /\ \A v \in Worker : pc'[v] \notin {"taken", "running"} => job'[v] = None
    BY <2>3, <2>4 DEF IInv, PlaceInv
  <2> QED
    BY <1>1, <1>2, <1>3, <1>4, <2>1, <2>2, <2>5 DEF IInv, PlaceInv
<1>8. StaleInv'
  BY <1>1, <1>2, <1>3, <1>4 DEF IInv, StaleInv
<1> QED
  BY <1>5, <1>6, <1>7, <1>8 DEF IInv

LEMMA CheckIInv == ASSUME IInv, NEW w \in Worker, Check(w) PROVE IInv'
<1>1. job[w] # None
  BY DEF Check, IInv, TypeOK
<1>2. CASE IsStale(job[w])
  BY <1>1, <1>2, ReleaseIInv DEF Check
<1>3. CASE ~IsStale(job[w])
  <2>1. pc' = [pc EXCEPT ![w] = "running"] /\ pc[w] = "taken"
        /\ UNCHANGED <<urgent, background, closed, job, generations, chan, ui, current, pushed, answered>>
    BY <1>3 DEF Check, queues
  <2>2. TypeOK' /\ NextType' /\ ClosedInv'
    BY <2>1 DEF IInv, TypeOK, NextType, Bumps, ClosedInv
  <2>3. (OrderInv /\ NotOvertaken)' /\ UNCHANGED <<Elements(urgent), Elements(background), Queued, Held, Chan, Somewhere>>
    BY <2>1, JobsStay
  <2>4. PlaceInv' /\ StaleInv'
    BY <2>1, <2>3 DEF IInv, TypeOK, PlaceInv, StaleInv
  <2> QED
    BY <2>2, <2>3, <2>4 DEF IInv
<1> QED
  BY <1>2, <1>3

LEMMA FinishIInv == ASSUME IInv, NEW w \in Worker, Finish(w) PROVE IInv'
<1>1. job[w] # None
  BY DEF Finish, IInv, TypeOK
<1> QED
  BY <1>1, ReleaseIInv DEF Finish

LEMMA StutterIInv == ASSUME IInv, UNCHANGED vars PROVE IInv'
<1>1. UNCHANGED <<urgent, background, job, chan, answered, pushed, pc, generations, current, ui, closed>>
  BY DEF vars, queues, workers
<1>2. TypeOK' /\ NextType' /\ ClosedInv'
  BY <1>1 DEF IInv, TypeOK, NextType, Bumps, ClosedInv
<1>3. (OrderInv /\ NotOvertaken)' /\ UNCHANGED <<Elements(urgent), Elements(background), Queued, Held, Chan, Somewhere>>
  BY <1>1, JobsStay
<1>4. PlaceInv' /\ StaleInv'
  BY <1>1, <1>3 DEF IInv, PlaceInv, StaleInv
<1> QED
  BY <1>2, <1>3, <1>4 DEF IInv

-----------------------------------------------------------------------------

\* The initial state satisfies the inductive invariant.
THEOREM InitIInv == Init => IInv
<1> SUFFICES ASSUME Init PROVE IInv
  OBVIOUS
<1>1. TypeOK
  <2>1. urgent \in Seq(Job) /\ background \in Seq(Job) /\ chan \in Seq(Job)
    BY DEF Init
  <2>2. /\ generations \in [Droppable -> 0 .. MaxBumps] /\ current \in [Droppable -> 0 .. MaxBumps]
        /\ pushed \in 0 .. MaxJobs /\ answered \subseteq Job /\ closed \in BOOLEAN
    <3>1. 0 \in 0 .. MaxBumps /\ 0 \in 0 .. MaxJobs
      OBVIOUS
    <3>2. [l \in Droppable |-> 0] \in [Droppable -> 0 .. MaxBumps]
      BY <3>1
    <3>3. generations \in [Droppable -> 0 .. MaxBumps] /\ current \in [Droppable -> 0 .. MaxBumps]
      BY <3>2 DEF Init
    <3>4. pushed \in 0 .. MaxJobs /\ answered \subseteq Job
      BY <3>1 DEF Init
    <3>5. closed \in BOOLEAN
      BY DEF Init
    <3> QED
      BY <3>3, <3>4, <3>5
  <2>3. /\ pc \in [Worker -> {"popping", "waiting", "taken", "running", "exited"}]
        /\ job \in [Worker -> Job \cup {None}]
        /\ \A w \in Worker : pc[w] = "popping"
    BY DEF Init
  <2> QED
    BY <2>1, <2>2, <2>3 DEF Init, TypeOK
<1>5. NextType /\ ClosedInv
  BY DEF Init, NextType, Bumps, ClosedInv, Droppable
<1>2. Queued = {} /\ Held = {} /\ Chan = {} /\ answered = {} /\ Elements(urgent) = {}
  BY EmptyElements DEF Init, Queued, Held, Chan
<1>3. OrderInv /\ NotOvertaken
  BY <1>2 DEF Init, OrderInv, Sorted, Distinct, NotOvertaken
<1>4. PlaceInv /\ StaleInv
  BY <1>2 DEF Init, PlaceInv, StaleInv, Somewhere, Queued
<1> QED
  BY <1>1, <1>3, <1>4, <1>5 DEF IInv

\* Every step of the UI and the workers keeps it.
THEOREM NextIInv == ASSUME IInv, [Next]_vars PROVE IInv'
<1>1. ASSUME UIBegins \/ UIContinues \/ GiveUp \/ Drain PROVE IInv'
  BY <1>1, RequestIInv, WakeIInv, DrainIInv DEF UIBegins, UIContinues
<1>2. ASSUME NEW w \in Worker, WorkerStep(w) \/ WakeSpuriously(w) PROVE IInv'
  BY <1>2, PopIInv, CheckIInv, FinishIInv, WakeIInv DEF WorkerStep
<1> QED
  BY <1>1, <1>2, PushIInv, StutterIInv DEF Next, Done

THEOREM Invariance == Spec => []IInv
  BY InitIInv, NextIInv, PTL DEF Spec

\* No job overtakes one a tab waits for (WorkQueue::pop's two lanes).
THEOREM UrgentComesFirst == Spec => []NotOvertaken
<1>1. IInv => NotOvertaken
  BY DEF IInv
<1> QED
  BY <1>1, Invariance, PTL

-----------------------------------------------------------------------------
(* No wake-up is lost.  The bound is inductive by itself: whatever queues a  *)
(* job leaves the UI about to notify, whatever takes one leaves the queue    *)
(* with it, and a worker falls asleep only on two empty lanes.               *)

Popping == {w \in Worker : pc[w] = "popping"}
Notice == IF ui \in {"notify", "notify_warming"} THEN 1 ELSE 0
Awake == Waiting # {} /\ ~closed => Len(urgent) + Len(background) <= Cardinality(Popping) + Notice

LEMMA PoppingIsFinite == IsFiniteSet(Popping) /\ Cardinality(Popping) \in Nat
<1>1. IsFiniteSet(Popping)
  BY FS_Subset DEF Popping
<1> QED
  BY <1>1, FS_CardinalityType

\* A worker that reaches the queue, or returns to it, is one more on its way.
LEMMA Arrives ==
    ASSUME TypeOK, NEW w \in Worker, pc[w] # "popping", pc' = [pc EXCEPT ![w] = "popping"]
    PROVE  Cardinality(Popping') = Cardinality(Popping) + 1 /\ (Waiting' # {} => Waiting # {})
<1>1. Popping' = Popping \cup {w} /\ w \notin Popping /\ Waiting' \subseteq Waiting
  BY DEF TypeOK, Popping, Waiting
<1> QED
  BY <1>1, PoppingIsFinite, FS_AddElement

\* One that leaves it with a job is one less.
LEMMA Departs ==
    ASSUME TypeOK, NEW w \in Worker, pc[w] = "popping", pc' = [pc EXCEPT ![w] = "taken"]
    PROVE  Cardinality(Popping') = Cardinality(Popping) - 1 /\ Waiting' = Waiting
<1>1. Popping' = Popping \ {w} /\ w \in Popping /\ Waiting' = Waiting
  BY DEF TypeOK, Popping, Waiting
<1> QED
  BY <1>1, PoppingIsFinite, FS_RemoveElement

LEMMA Lengths == ASSUME TypeOK PROVE Len(urgent) \in Nat /\ Len(background) \in Nat
  BY DEF TypeOK

LEMMA NoticeType == Notice \in {0, 1}
  BY DEF Notice

LEMMA PoolAwake ==
    ASSUME IInv, Awake, NEW w \in Worker, WorkerStep(w) \/ WakeSpuriously(w)
    PROVE  Awake'
<1> USE Lengths, PoppingIsFinite, NoticeType DEF IInv, Awake
<1>1. UNCHANGED <<closed, ui, Notice>>
  BY DEF WorkerStep, WakeSpuriously, Pop, Check, Finish, queues, Notice
<1>2. CASE WakeSpuriously(w) \/ Finish(w)
  <2>1. pc[w] # "popping" /\ pc' = [pc EXCEPT ![w] = "popping"] /\ UNCHANGED <<urgent, background>>
    BY <1>2 DEF WakeSpuriously, Finish, queues
  <2>2. Cardinality(Popping') = Cardinality(Popping) + 1 /\ (Waiting' # {} => Waiting # {})
    BY <2>1, Arrives
  <2> HIDE DEF IInv
  <2> QED
    BY <1>1, <2>1, <2>2
<1>3. CASE Check(w)
  <2>1. pc[w] = "taken" /\ UNCHANGED <<urgent, background>>
    BY <1>3 DEF Check, queues
  <2>2. CASE pc' = [pc EXCEPT ![w] = "popping"]
    <3>1. Cardinality(Popping') = Cardinality(Popping) + 1 /\ (Waiting' # {} => Waiting # {})
      BY <2>1, <2>2, Arrives
    <3> HIDE DEF IInv
    <3> QED
      BY <1>1, <2>1, <3>1
  <2>3. CASE pc' = [pc EXCEPT ![w] = "running"]
    <3>1. UNCHANGED <<Popping, Waiting>>
      BY <2>1, <2>3 DEF TypeOK, Popping, Waiting
    <3> QED
      BY <1>1, <2>1, <3>1
  <2> QED
    BY <1>3, <2>2, <2>3 DEF Check
<1>4. CASE Pop(w)
  <2>1. pc[w] = "popping" /\ urgent \in Seq(Job) /\ background \in Seq(Job)
    BY <1>4 DEF Pop, TypeOK
  <2>2. CASE closed
    BY <1>1, <2>2
  <2>3. CASE urgent # <<>> /\ Take(w, Head(urgent)) /\ urgent' = Tail(urgent) /\ UNCHANGED background
    <3>1. Len(urgent') = Len(urgent) - 1
      BY <2>1, <2>3
    <3>2. Cardinality(Popping') = Cardinality(Popping) - 1 /\ Waiting' = Waiting
      BY <2>1, <2>3, Departs DEF Take
    <3> QED
      BY <1>1, <2>3, <3>1, <3>2
  <2>4. CASE background # <<>> /\ Take(w, Head(background)) /\ background' = Tail(background)
             /\ UNCHANGED urgent
    <3>1. Len(background') = Len(background) - 1
      BY <2>1, <2>4
    <3>2. Cardinality(Popping') = Cardinality(Popping) - 1 /\ Waiting' = Waiting
      BY <2>1, <2>4, Departs DEF Take
    <3> QED
      BY <1>1, <2>4, <3>1, <3>2
  <2>5. CASE urgent = <<>> /\ background = <<>> /\ UNCHANGED <<urgent, background>>
    <3>1. Len(urgent') = 0 /\ Len(background') = 0
      BY <2>5
    <3>2. Popping' \in SUBSET Worker /\ Notice' \in {0, 1}
      BY DEF Popping, Notice
    <3>3. Cardinality(Popping') \in Nat
      BY <3>2, FS_Subset, FS_CardinalityType
    <3> QED
      BY <3>1, <3>2, <3>3
  <2> QED
    BY <1>4, <2>2, <2>3, <2>4, <2>5 DEF Pop
<1> QED
  BY <1>2, <1>3, <1>4 DEF WorkerStep

LEMMA UIAwake ==
    ASSUME IInv, Awake, UIBegins \/ UIContinues \/ GiveUp \/ Drain \/ \E lane \in Lane : Push(lane)
    PROVE  Awake'
<1> USE Lengths, PoppingIsFinite, NoticeType DEF IInv, Awake
<1>1. ASSUME UNCHANGED <<urgent, background, closed, pc>>, ui \notin {"notify", "notify_warming"} PROVE Awake'
  <2>1. UNCHANGED <<Popping, Waiting>> /\ Notice = 0 /\ Notice' \in {0, 1}
    BY <1>1 DEF Popping, Waiting, Notice
  <2> QED
    BY <1>1, <2>1
<1>2. CASE BeginTabRequest \/ PrefetchAll \/ NoteTabRequest \/ NotePrefetchBatch \/ EndOfBatch \/ GiveUp \/ Drain
  BY <1>1, <1>2 DEF BeginTabRequest, PrefetchAll, NoteTabRequest, NotePrefetchBatch, EndOfBatch, GiveUp, Drain,
     queues, workers
<1>3. CASE Close
  BY <1>3 DEF Close
<1>4. CASE NotifyAll
  <2>1. Waiting' = {}
    BY <1>4 DEF NotifyAll, Waiting
  <2> QED
    BY <2>1
<1>5. CASE NotifyOne
  <2>1. Notice = 1 /\ Notice' = 0 /\ UNCHANGED <<urgent, background, closed>>
    BY <1>5 DEF NotifyOne, Notice, queues
  <2>2. CASE Waiting = {}
    <3>1. Waiting' = {}
      BY <1>5, <2>2 DEF NotifyOne, Waiting
    <3> QED
      BY <3>1
  <2>3. CASE Waiting # {}
    <3>1. PICK w \in Waiting : pc' = [pc EXCEPT ![w] = "popping"]
      BY <1>5, <2>3 DEF NotifyOne
    <3>2. w \in Worker /\ pc[w] # "popping"
      BY DEF Waiting
    <3> QED
      <4>1. Cardinality(Popping') = Cardinality(Popping) + 1 /\ (Waiting' # {} => Waiting # {})
        BY <3>1, <3>2, Arrives
      <4> HIDE DEF IInv
      <4> QED
        BY <2>1, <4>1
  <2> QED
    BY <2>2, <2>3
<1>6. ASSUME NEW lane \in Lane, Push(lane) PROVE Awake'
  <2>1. Notice = 0 /\ Notice' = 1
    BY <1>6 DEF Push, PushesAt, Lane, Notifying, Notice
  <2>2. UNCHANGED <<closed, Popping, Waiting>>
    BY <1>6 DEF Push, workers, Popping, Waiting
  <2>3. NewJob(lane) \in Job
    BY <1>6 DEF TypeOK, Push, NewJob, Job, Lane, Droppable
  <2>4. urgent \in Seq(Job) /\ background \in Seq(Job)
    BY DEF TypeOK
  <2>5. Len(urgent') + Len(background') = Len(urgent) + Len(background) + 1
    <3>1. CASE urgent' = Append(urgent, NewJob(lane)) /\ UNCHANGED background
      BY <2>3, <2>4, <3>1
    <3>2. CASE background' = Append(background, NewJob(lane)) /\ UNCHANGED urgent
      BY <2>3, <2>4, <3>2
    <3> QED
      BY <1>6, <3>1, <3>2 DEF Push
  <2> QED
    BY <2>1, <2>2, <2>5
<1> QED
  BY <1>2, <1>3, <1>4, <1>5, <1>6 DEF UIBegins, UIContinues

\* A queued job always has an awake worker, or a notification, on its way
\* (WorkQueue::push notifies after it unlocks; pop sleeps only on empty lanes).
THEOREM NoWakeUpIsLost == Spec => []NoJobLeftWaiting
<1>1. Init => Awake
  <2> SUFFICES ASSUME Init PROVE Awake
    OBVIOUS
  <2>1. Waiting = {}
    BY DEF Init, Waiting
  <2> QED
    BY <2>1 DEF Awake
<1>2. ASSUME IInv, Awake, [Next]_vars PROVE Awake'
  <2>1. CASE Done \/ UNCHANGED vars
    <3>1. UNCHANGED <<urgent, background, closed, pc, ui>>
      BY <2>1 DEF Done, vars, queues, workers
    <3>2. UNCHANGED <<Popping, Waiting, Notice>>
      BY <3>1 DEF Popping, Waiting, Notice
    <3> QED
      BY <1>2, <3>1, <3>2 DEF Awake
  <2> QED
    BY <1>2, <2>1, PoolAwake, UIAwake DEF Next
<1>3. IInv /\ Awake => NoJobLeftWaiting
  BY DEF IInv, Awake, NoJobLeftWaiting, Popping, Notice
<1> QED
  BY <1>1, <1>2, <1>3, Invariance, PTL DEF Spec

-----------------------------------------------------------------------------
(* The safety half of the service: the pool's steps are JobService's.      *)

LEMMA ServiceInit == Init => Service!Init
<1> SUFFICES ASSUME Init PROVE Service!Init
  OBVIOUS
<1>1. Queued = {} /\ Held = {} /\ Elements(chan) = {}
  BY EmptyElements DEF Init, Queued, Held
<1> QED
  BY <1>1 DEF Init, Service!Init

LEMMA ServiceNext == ASSUME IInv, [Next]_vars PROVE [Service!Next]_(Service!vars)
<1> DEFINE asked == Queued \cup Held \cup Chan
<1> USE DEF Service!vars, Chan
<1>1. ASSUME UNCHANGED <<urgent, background, job, chan, answered, current, closed>>
      PROVE  UNCHANGED Service!vars
  BY <1>1 DEF Queued, Held, Elements
<1>2. CASE BeginTabRequest \/ PrefetchAll
  <2>1. UNCHANGED <<Queued, Held, Elements(chan), answered, closed>> /\ ~closed
    BY <1>2 DEF BeginTabRequest, PrefetchAll, Queued, Held, Elements, queues, workers, IInv, ClosedInv
  <2>2. \/ UNCHANGED current
        \/ \E l \in Droppable : current' = [current EXCEPT ![l] = @ + 1]
    BY <1>2 DEF BeginTabRequest, PrefetchAll, Droppable
  <2> QED
    BY <2>1, <2>2 DEF Service!Next, Service!Supersede
<1>3. CASE NoteTabRequest \/ NotePrefetchBatch \/ EndOfBatch \/ GiveUp \/ NotifyOne \/ NotifyAll
           \/ \E w \in Worker : WakeSpuriously(w)
  BY <1>1, <1>3 DEF NoteTabRequest, NotePrefetchBatch, EndOfBatch, GiveUp, NotifyOne, NotifyAll,
     WakeSpuriously, queues, workers
<1>4. CASE Close
  BY <1>4 DEF Close, workers, Queued, Held, Elements, Service!Next, Service!Close, IInv, ClosedInv
<1>5. ASSUME NEW lane \in Lane, Push(lane) PROVE [Service!Next]_(Service!vars)
  <2> DEFINE j == NewJob(lane)
  <2>1. /\ j \in Service!Job /\ j \in Job /\ j.id = pushed + 1
        /\ j.lane \in Droppable => j.seq = current[j.lane]
    BY <1>5 DEF IInv, TypeOK, Push, NewJob, Job, Lane, Droppable, Service!Job
  <2>2. UNCHANGED <<closed, job, chan, current, answered>> /\ ~closed
    BY <1>5 DEF Push, workers, PushesAt, Lane, IInv, ClosedInv
  <2>3. \/ urgent' = Append(urgent, j) /\ background' = background
        \/ background' = Append(background, j) /\ urgent' = urgent
    BY <1>5 DEF Push
  <2> HIDE DEF j
  <2>4. Queued' = Queued \cup {j} /\ Held' = Held /\ Chan' = Chan
    <3>1. urgent \in Seq(Job) /\ background \in Seq(Job)
      BY DEF IInv, TypeOK
    <3>2. CASE urgent' = Append(urgent, j) /\ background' = background
      BY <2>1, <2>2, <3>1, <3>2, Enqueue DEF Queued, Held, Elements
    <3>3. CASE background' = Append(background, j) /\ urgent' = urgent
      BY <2>1, <2>2, <3>1, <3>3, Enqueue DEF Queued, Held, Elements
    <3> QED
      BY <2>3, <3>2, <3>3
  <2>5. \A k \in asked \cup answered : k.id \in Nat /\ k.id < j.id
    <3>1. \A k \in Somewhere : k.id \in Nat /\ k.id <= pushed
      BY AllAreJobs, JobFields DEF IInv, PlaceInv
    <3> QED
      BY <2>1, <3>1 DEF IInv, TypeOK, Somewhere
  <2>6. j \in asked' \ asked /\ asked' = asked \cup {j}
    BY <2>1, <2>4, <2>5
  <2> QED
    BY <2>1, <2>2, <2>5, <2>6 DEF Service!Next, Service!Asking, Service!Ask, Service!Superseded
<1>6. CASE Drain
  <2> DEFINE j == Head(chan)
  <2>1. /\ UNCHANGED <<urgent, background, job, closed, current>> /\ ui = "idle" /\ chan # <<>>
        /\ chan' = Tail(chan)
        /\ answered' = IF IsCurrent(j) THEN answered \cup {j} ELSE answered
    BY <1>6 DEF Drain, queues, workers
  <2>2. Chan = {j} \cup Chan' /\ j.id \in Nat /\ (\A k \in Chan' : j.id # k.id) /\ j \in Job
    BY <2>1, Dequeue, JobFields DEF IInv, TypeOK, OrderInv
  <2> HIDE DEF j
  <2>3. asked' = asked \ {j} /\ j \in asked
    <3>1. UNCHANGED <<Queued, Held>>
      BY <2>1 DEF Queued, Held, Elements
    <3>2. \A k \in Queued \cup Held : k.id # j.id
      BY <2>2 DEF IInv, PlaceInv
    <3> QED
      BY <2>2, <3>1, <3>2
  <2>4. ~closed
    BY <2>1 DEF IInv, ClosedInv
  <2> QED
    BY <2>1, <2>3, <2>4 DEF IsCurrent, Service!Next, Service!Serve, Service!Answer, Service!Forget,
       Service!Superseded
<1>7. ASSUME NEW w \in Worker, Pop(w) PROVE UNCHANGED Service!vars
  <2>1. UNCHANGED <<closed, chan, current, answered>> /\ job[w] = None
    BY <1>7 DEF Pop, IInv, PlaceInv
  <2>2. CASE urgent # <<>> /\ Take(w, Head(urgent)) /\ urgent' = Tail(urgent) /\ UNCHANGED background
    <3>1. Head(urgent) \in Job /\ Elements(urgent) = {Head(urgent)} \cup Elements(urgent')
      BY <2>2, Dequeue DEF IInv, TypeOK
    <3>2. Held' = Held \cup {Head(urgent)}
      BY <2>1, <2>2, <3>1, TakeHeld DEF IInv, TypeOK, Take
    <3> QED
      BY <2>1, <2>2, <3>1, <3>2 DEF Queued
  <2>3. CASE background # <<>> /\ Take(w, Head(background)) /\ background' = Tail(background) /\ UNCHANGED urgent
    <3>1. Head(background) \in Job /\ Elements(background) = {Head(background)} \cup Elements(background')
      BY <2>3, Dequeue DEF IInv, TypeOK
    <3>2. Held' = Held \cup {Head(background)}
      BY <2>1, <2>3, <3>1, TakeHeld DEF IInv, TypeOK, Take
    <3> QED
      BY <2>1, <2>3, <3>1, <3>2 DEF Queued
  <2>4. CASE UNCHANGED <<urgent, background, job>>
    BY <1>1, <2>1, <2>4
  <2> QED
    BY <1>7, <2>2, <2>3, <2>4 DEF Pop
<1>8. ASSUME NEW w \in Worker, Check(w) PROVE [Service!Next]_(Service!vars)
  <2>1. CASE ~IsStale(job[w])
    BY <1>1, <1>8, <2>1 DEF Check, queues
  <2>2. CASE IsStale(job[w])
    <3>1. /\ job' = [job EXCEPT ![w] = None] /\ job[w] # None /\ job[w] \in Job /\ job[w] \in Held
          /\ UNCHANGED <<urgent, background, closed, chan, current, answered>>
      BY <1>8, <2>2 DEF Check, queues, IInv, TypeOK, Held
    <3>2. Held' = Held \ {job[w]}
      BY <3>1, DropHeld DEF IInv, TypeOK, PlaceInv
    <3>3. asked' = asked \ {job[w]} /\ job[w] \in asked
      BY <3>1, <3>2 DEF IInv, PlaceInv, Queued, Elements
    <3>4. job[w].lane \in Droppable /\ current[job[w].lane] # job[w].seq
      <4>1. job[w].lane \in Droppable /\ generations[job[w].lane] # job[w].seq
        BY <2>2 DEF IsStale
      <4>2. job[w].seq \in Nat /\ job[w].seq <= generations[job[w].lane]
        BY <3>1, <4>1, JobFields DEF IInv, StaleInv
      <4>3. /\ generations[job[w].lane] \in Nat /\ current[job[w].lane] \in Nat
            /\ generations[job[w].lane] <= current[job[w].lane]
        BY <4>1 DEF IInv, TypeOK, StaleInv
      <4> QED
        BY <4>1, <4>2, <4>3
    <3> QED
      BY <3>1, <3>3, <3>4 DEF Service!Next, Service!Serve, Service!Forget, Service!Superseded
  <2> QED
    BY <2>1, <2>2
<1>9. ASSUME NEW w \in Worker, Finish(w) PROVE UNCHANGED Service!vars
  <2>1. /\ job' = [job EXCEPT ![w] = None] /\ job[w] # None /\ job[w] \in Job /\ job[w] \in Held
        /\ chan' = Append(chan, job[w])
        /\ UNCHANGED <<urgent, background, closed, current, answered>>
    BY <1>9 DEF Finish, queues, IInv, TypeOK, Held
  <2>2. Held' = Held \ {job[w]} /\ Chan' = Chan \cup {job[w]} /\ Queued' = Queued
    BY <2>1, DropHeld, Enqueue DEF IInv, TypeOK, PlaceInv, Queued
  <2> QED
    BY <2>1, <2>2
<1>10. CASE Done \/ UNCHANGED vars
  BY <1>1, <1>10 DEF Done, vars, queues, workers
<1> QED
  BY <1>2, <1>3, <1>4, <1>5, <1>6, <1>7, <1>8, <1>9, <1>10 DEF Next, UIBegins, UIContinues, WorkerStep

\* A job is answered at most once, and dropped only once a newer request replaced
\* it, whatever the interleaving of the UI and the workers.
THEOREM ServiceIsSafe == Spec => Service!Init /\ [][Service!Next]_(Service!vars)
  BY ServiceInit, ServiceNext, Invariance, PTL DEF Spec
=============================================================================
