------------------------ MODULE ProxyChildren_proofs ------------------------
(* What holds of ProxyChildren for any launches, ports and number of retries. *)
EXTENDS ProxyChildren, TLAPS

Places == {"waiting", "answered", "ready", "attached", "shell"}

\* Whatever runs has an owner; who begins to stop a child owns it until it is
\* gone, and once the group was killed nothing of it runs.
OwnInv ==
    /\ \A c \in Child : Running(c) => Owned(c)
    /\ \A l \in Launch : step[l] # "no" => at[l] \in Places
    /\ \A l \in Launch : step[l] = "reap" => ~Running(Current(l))

\* Whatever runs is listed, until the program quits, or its owner is about to
\* kill it.
ReachInv ==
    \A c \in Child : Running(c) => step[c[1]] = "kill" \/ (~closed /\ c \in listed)

\* A child is reaped, while its owner has it, only by the owner's stop_child or
\* because the owner saw it exit; it is listed until it is about to be killed.
ReapInv ==
    /\ \A c \in listed : Owned(c) /\ step[c[1]] \in {"no", "unlist"}
    /\ \A c \in recycled : proc[c] = "reaped"
    /\ \A c \in Child : proc[c] = "reaped" /\ Owned(c) => lost[c[1]] /\ step[c[1]] # "no"
    /\ \A c \in Child : proc[c] # "unborn" => c[2] <= att[c[1]]
    /\ \A l \in Launch : at[l] \in {"idle", "port", "spawn"} => proc[Current(l)] = "unborn"

MainInv ==
    /\ closed <=> main \notin {"loop", "shell"}
    /\ main \in {"shell", "exited"} => ~Stopping

IInv == TypeOK /\ OwnInv /\ ReachInv /\ ReapInv /\ MainInv

USE ProxyAssumption
USE DEF Child, Kind, launches, processes, registry

LEMMA BindIInv == ASSUME IInv, NEW c \in Child, Bind(c) PROVE IInv'
<1>1. TypeOK'
  BY DEF IInv, TypeOK, Bind
<1>2. OwnInv'
  BY DEF IInv, TypeOK, OwnInv, ReapInv, Running, Alive, Owned, Current, Places,
      OnWorker, Bind
<1>3. ReachInv'
  BY DEF IInv, TypeOK, OwnInv, ReachInv, MainInv, ReapInv, Stopping, Running, Alive,
      Owned, Current, Places, OnWorker, Bind
<1>4. ReapInv'
  BY DEF IInv, TypeOK, OwnInv, ReapInv, Running, Alive, Owned, Current, Places,
      OnWorker, Bind
<1>5. MainInv'
  BY DEF IInv, TypeOK, MainInv, Stopping, OnWorker, OwnInv, Places, Bind
<1> QED
  BY <1>1, <1>2, <1>3, <1>4, <1>5 DEF IInv

LEMMA ExitIInv == ASSUME IInv, NEW c \in Child, Exit(c) PROVE IInv'
<1>1. TypeOK'
  BY DEF IInv, TypeOK, Released, Exit
<1>2. OwnInv'
  BY DEF IInv, TypeOK, OwnInv, ReapInv, Running, Alive, Owned, Current, Places,
      OnWorker, Released, Exit
<1>3. ReachInv'
  BY DEF IInv, TypeOK, OwnInv, ReachInv, MainInv, ReapInv, Stopping, Running, Alive,
      Owned, Current, Places, OnWorker, Released, Exit
<1>4. ReapInv'
  BY DEF IInv, TypeOK, OwnInv, ReapInv, Running, Alive, Owned, Current, Places,
      OnWorker, Released, Exit
<1>5. MainInv'
  BY DEF IInv, TypeOK, MainInv, Stopping, OnWorker, OwnInv, Places, Released, Exit
<1> QED
  BY <1>1, <1>2, <1>3, <1>4, <1>5 DEF IInv

LEMMA ForkIInv == ASSUME IInv, NEW c \in Child, Fork(c) PROVE IInv'
<1>1. TypeOK'
  BY DEF IInv, TypeOK, Fork
<1>2. OwnInv'
  BY DEF IInv, TypeOK, OwnInv, ReapInv, Running, Alive, Owned, Current, Places,
      OnWorker, Fork
<1>3. ReachInv'
  BY DEF IInv, TypeOK, OwnInv, ReachInv, MainInv, ReapInv, Stopping, Running, Alive,
      Owned, Current, Places, OnWorker, Fork
<1>4. ReapInv'
  BY DEF IInv, TypeOK, OwnInv, ReapInv, Running, Alive, Owned, Current, Places,
      OnWorker, Fork
<1>5. MainInv'
  BY DEF IInv, TypeOK, MainInv, Stopping, OnWorker, OwnInv, Places, Fork
<1> QED
  BY <1>1, <1>2, <1>3, <1>4, <1>5 DEF IInv

LEMMA HelperExitsIInv == ASSUME IInv, NEW c \in Child, HelperExits(c) PROVE IInv'
<1>1. TypeOK'
  BY DEF IInv, TypeOK, HelperExits
<1>2. OwnInv'
  BY DEF IInv, TypeOK, OwnInv, ReapInv, Running, Alive, Owned, Current, Places,
      OnWorker, HelperExits
<1>3. ReachInv'
  BY DEF IInv, TypeOK, OwnInv, ReachInv, MainInv, ReapInv, Stopping, Running, Alive,
      Owned, Current, Places, OnWorker, HelperExits
<1>4. ReapInv'
  BY DEF IInv, TypeOK, OwnInv, ReapInv, Running, Alive, Owned, Current, Places,
      OnWorker, HelperExits
<1>5. MainInv'
  BY DEF IInv, TypeOK, MainInv, Stopping, OnWorker, OwnInv, Places, HelperExits
<1> QED
  BY <1>1, <1>2, <1>3, <1>4, <1>5 DEF IInv

LEMMA RecycleIInv == ASSUME IInv, NEW c \in Child, Recycle(c) PROVE IInv'
<1>1. TypeOK'
  BY DEF IInv, TypeOK, Recycle
<1>2. OwnInv'
  BY DEF IInv, TypeOK, OwnInv, ReapInv, Running, Alive, Owned, Current, Places,
      OnWorker, Recycle
<1>3. ReachInv'
  BY DEF IInv, TypeOK, OwnInv, ReachInv, MainInv, ReapInv, Stopping, Running, Alive,
      Owned, Current, Places, OnWorker, Recycle
<1>4. ReapInv'
  BY DEF IInv, TypeOK, OwnInv, ReapInv, Running, Alive, Owned, Current, Places,
      OnWorker, Recycle
<1>5. MainInv'
  BY DEF IInv, TypeOK, MainInv, Stopping, OnWorker, OwnInv, Places, Recycle
<1> QED
  BY <1>1, <1>2, <1>3, <1>4, <1>5 DEF IInv

LEMMA SquatIInv == ASSUME IInv, NEW p \in Port, Squat(p) PROVE IInv'
<1>1. TypeOK'
  BY DEF IInv, TypeOK, Squat
<1>2. OwnInv'
  BY DEF IInv, TypeOK, OwnInv, ReapInv, Running, Alive, Owned, Current, Places,
      OnWorker, Squat
<1>3. ReachInv'
  BY DEF IInv, TypeOK, OwnInv, ReachInv, MainInv, ReapInv, Stopping, Running, Alive,
      Owned, Current, Places, OnWorker, Squat
<1>4. ReapInv'
  BY DEF IInv, TypeOK, OwnInv, ReapInv, Running, Alive, Owned, Current, Places,
      OnWorker, Squat
<1>5. MainInv'
  BY DEF IInv, TypeOK, MainInv, Stopping, OnWorker, OwnInv, Places, Squat
<1> QED
  BY <1>1, <1>2, <1>3, <1>4, <1>5 DEF IInv

LEMMA StartIInv == ASSUME IInv, NEW l \in Launch, Start(l) PROVE IInv'
<1>1. TypeOK'
  BY DEF IInv, TypeOK, MainIs, Stopping, Start
<1>2. OwnInv'
  BY DEF IInv, TypeOK, OwnInv, ReapInv, Running, Alive, Owned, Current, Places,
      OnWorker, MainIs, Stopping, Start
<1>3. ReachInv'
  BY DEF IInv, TypeOK, OwnInv, ReachInv, MainInv, ReapInv, Stopping, Running, Alive,
      Owned, Current, Places, OnWorker, MainIs, Start
<1>4. ReapInv'
  BY DEF IInv, TypeOK, OwnInv, ReapInv, Running, Alive, Owned, Current, Places,
      OnWorker, MainIs, Stopping, Start
<1>5. MainInv'
  BY DEF IInv, TypeOK, MainInv, Stopping, OnWorker, OwnInv, Places, MainIs, Start
<1> QED
  BY <1>1, <1>2, <1>3, <1>4, <1>5 DEF IInv

LEMMA PickPortIInv == ASSUME IInv, NEW l \in Launch, PickPort(l) PROVE IInv'
<1>1. TypeOK'
  BY DEF IInv, TypeOK, Thread, Answered, PickPort
<1>2. OwnInv'
  BY DEF IInv, TypeOK, OwnInv, ReapInv, Running, Alive, Owned, Current, Places,
      OnWorker, Thread, Answered, PickPort
<1>3. ReachInv'
  BY DEF IInv, TypeOK, OwnInv, ReachInv, MainInv, ReapInv, Stopping, Running, Alive,
      Owned, Current, Places, OnWorker, Thread, Answered, PickPort
<1>4. ReapInv'
  BY DEF IInv, TypeOK, OwnInv, ReapInv, Running, Alive, Owned, Current, Places,
      OnWorker, Thread, Answered, PickPort
<1>5. MainInv'
  BY DEF IInv, TypeOK, MainInv, Stopping, OnWorker, OwnInv, Places, Thread, Answered,
      PickPort
<1> QED
  BY <1>1, <1>2, <1>3, <1>4, <1>5 DEF IInv

LEMMA SpawnIInv == ASSUME IInv, NEW l \in Launch, Spawn(l) PROVE IInv'
<1>1. TypeOK'
  <2> USE DEF IInv, TypeOK, Current
  <2>1. CASE /\ at' = [at EXCEPT ![l] = "waiting"] /\ listed' = listed \cup {Current(l)}
             /\ proc' = [proc EXCEPT ![Current(l)] = "starting"]
    <3>1. Current(l) \in Child
      OBVIOUS
    <3> QED
      BY <2>1, <3>1 DEF Spawn
  <2>2. CASE Answered(l, FALSE) /\ UNCHANGED <<proc, listed>>
    BY <2>2 DEF Spawn, Answered
  <2> QED
    BY <2>1, <2>2 DEF Spawn
<1>2. OwnInv'
  BY DEF IInv, TypeOK, OwnInv, ReapInv, Running, Alive, Owned, Current, Places,
      OnWorker, Thread, Answered, Spawn
<1>3. ReachInv'
  BY DEF IInv, TypeOK, OwnInv, ReachInv, MainInv, ReapInv, Stopping, Running, Alive,
      Owned, Current, Places, OnWorker, Thread, Answered, Spawn
<1>4. ReapInv'
  <2> USE DEF IInv, TypeOK, ReapInv, OwnInv, Owned, Current, Places
  <2>1. CASE /\ at' = [at EXCEPT ![l] = "waiting"] /\ listed' = listed \cup {Current(l)}
             /\ proc' = [proc EXCEPT ![Current(l)] = "starting"]
    <3>1. \A c \in Child : c # Current(l) => proc'[c] = proc[c]
      BY <2>1
    <3>2. step[l] = "no" /\ UNCHANGED <<att, step, lost, recycled>> /\ at[l] = "spawn"
      BY DEF Spawn, Thread
    <3>3. Current(l) \notin recycled
      BY <3>2
    <3>4. \A c \in listed' : Owned(c)' /\ step'[c[1]] \in {"no", "unlist"}
      BY <2>1, <3>2
    <3> QED
      BY <2>1, <3>1, <3>2, <3>3, <3>4
  <2>2. CASE Answered(l, FALSE) /\ UNCHANGED <<proc, listed>>
    BY <2>2 DEF Spawn, Answered, Thread
  <2> QED
    BY <2>1, <2>2 DEF Spawn
<1>5. MainInv'
  BY DEF IInv, TypeOK, MainInv, Stopping, OnWorker, OwnInv, Places, Thread, Answered,
      Spawn
<1> QED
  BY <1>1, <1>2, <1>3, <1>4, <1>5 DEF IInv

\* The thread that has the child gives up on it: it is reaped only if it had exited.
LEMMA GivesUp ==
    ASSUME IInv, NEW l \in Launch, NEW portLost \in BOOLEAN, OnWorker(l), step[l] = "no",
           GiveUp(l, portLost), HasExited(l) => portLost,
           TryWait(l) \/ UNCHANGED proc,
           UNCHANGED <<helper, printed, recycled, listener, registry, main, stray>>
    PROVE  IInv'
<1> USE DEF IInv, GiveUp, HasExited, TryWait
<1>1. CASE proc' = [proc EXCEPT ![Current(l)] = "reaped"] /\ proc[Current(l)] = "exited"
  <2>1. TypeOK'
    BY <1>1 DEF TypeOK, Current
  <2>2. OwnInv' /\ ReachInv'
    BY <1>1 DEF TypeOK, OwnInv, ReachInv, Running, Alive, Owned, Current, Places, OnWorker
  <2>3. ReapInv' /\ MainInv'
    BY <1>1 DEF TypeOK, OwnInv, ReapInv, MainInv, Stopping, Owned, Current, Places, OnWorker
  <2> QED
    BY <2>1, <2>2, <2>3
<1>2. CASE UNCHANGED proc
  <2>1. TypeOK'
    BY <1>2 DEF TypeOK
  <2>2. OwnInv' /\ ReachInv'
    BY <1>2 DEF TypeOK, OwnInv, ReachInv, Running, Alive, Owned, Current, Places, OnWorker
  <2>3. ReapInv' /\ MainInv'
    BY <1>2 DEF TypeOK, OwnInv, ReapInv, MainInv, Stopping, Owned, Current, Places, OnWorker
  <2> QED
    BY <2>1, <2>2, <2>3
<1> QED
  BY <1>1, <1>2

\* The thread hands on a child it saw running.
LEMMA HandsOn ==
    ASSUME IInv, NEW l \in Launch, OnWorker(l), step[l] = "no",
           NEW to \in {"answered", "ready"}, at' = [at EXCEPT ![l] = to],
           UNCHANGED <<kind, att, port, step, lost, processes, registry, main, stray>>
    PROVE  IInv'
<1>1. TypeOK'
  BY DEF IInv, TypeOK
<1>2. OwnInv' /\ ReachInv'
  BY DEF IInv, TypeOK, OwnInv, ReachInv, Running, Alive, Owned, Current, Places, OnWorker
<1>3. ReapInv' /\ MainInv'
  BY DEF IInv, TypeOK, OwnInv, ReapInv, MainInv, Stopping, Owned, Current, Places, OnWorker
<1> QED
  BY <1>1, <1>2, <1>3 DEF IInv

LEMMA WaitIInv == ASSUME IInv, NEW l \in Launch, Wait(l) PROVE IInv'
<1> USE DEF OnWorker, Thread
<1>1. CASE Probe(l)
  BY <1>1, GivesUp, HandsOn DEF Probe, TryWait, HasExited
<1>2. CASE Recheck(l)
  BY <1>2, GivesUp, HandsOn DEF Recheck, Answered, TryWait, HasExited
<1>3. CASE KubeReady(l)
  BY <1>3, HandsOn DEF KubeReady, Answered
<1>4. CASE KubeSilent(l)
  <2>1. HasExited(l) \in BOOLEAN
    BY DEF HasExited
  <2> QED
    BY <1>4, <2>1, GivesUp DEF KubeSilent
<1>5. CASE Grace(l)
  BY <1>5, GivesUp, HandsOn DEF Grace, Answered, TryWait, HasExited
<1>6. CASE TimeOut(l)
  BY <1>6, GivesUp DEF TimeOut, processes
<1> QED
  BY <1>1, <1>2, <1>3, <1>4, <1>5, <1>6 DEF Wait

LEMMA UnlistIInv == ASSUME IInv, NEW l \in Launch, Unlist(l) PROVE IInv'
<1>1. TypeOK'
  BY DEF IInv, TypeOK, Unlist
<1>2. OwnInv'
  BY DEF IInv, TypeOK, OwnInv, ReapInv, Running, Alive, Owned, Current, Places,
      OnWorker, Unlist
<1>3. ReachInv'
  BY DEF IInv, TypeOK, OwnInv, ReachInv, MainInv, ReapInv, Stopping, Running, Alive,
      Owned, Current, Places, OnWorker, Unlist
<1>4. ReapInv'
  BY DEF IInv, TypeOK, OwnInv, ReapInv, Running, Alive, Owned, Current, Places,
      OnWorker, Unlist
<1>5. MainInv'
  BY DEF IInv, TypeOK, MainInv, Stopping, OnWorker, OwnInv, Places, Unlist
<1> QED
  BY <1>1, <1>2, <1>3, <1>4, <1>5 DEF IInv

LEMMA KillGroupIInv == ASSUME IInv, NEW l \in Launch, KillGroup(l) PROVE IInv'
<1>1. TypeOK'
  BY DEF IInv, TypeOK, KillGroups, KillGroup
<1>2. OwnInv'
  <2>1. \A c \in Child : Running(c)' => Running(c) /\ c # Current(l)
    BY DEF IInv, TypeOK, KillGroup, KillGroups, Running, Alive
  <2>2. UNCHANGED <<at, att>> /\ step' = [step EXCEPT ![l] = "reap"]
    BY DEF KillGroup
  <2>3. Current(l)' = Current(l) /\ Current(l) \in Child /\ at[l] \in Places
    BY <2>2 DEF KillGroup, Current, IInv, TypeOK, OwnInv
  <2> QED
    BY <2>1, <2>2, <2>3 DEF IInv, TypeOK, OwnInv, Owned, Current
<1>3. ReachInv'
  <2>1. \A c \in Child : Running(c)' => Running(c) /\ c # Current(l)
    BY DEF IInv, TypeOK, KillGroup, KillGroups, Running, Alive
  <2>2. \A c \in Child : Running(c)' => c[1] # l
    BY <2>1 DEF IInv, OwnInv, Owned, Current
  <2> QED
    BY <2>1, <2>2 DEF IInv, TypeOK, ReachInv, KillGroup
<1>4. ReapInv'
  BY DEF IInv, TypeOK, OwnInv, ReapInv, Running, Alive, Owned, Current, Places,
      OnWorker, KillGroups, KillGroup
<1>5. MainInv'
  BY DEF IInv, TypeOK, MainInv, Stopping, OnWorker, OwnInv, Places, KillGroups,
      KillGroup
<1> QED
  BY <1>1, <1>2, <1>3, <1>4, <1>5 DEF IInv

LEMMA ReapIInv == ASSUME IInv, NEW l \in Launch, Reap(l) PROVE IInv'
<1>1. TypeOK'
  <2> USE DEF IInv, TypeOK, Current, Reap
  <2>1. CASE TriesAgain(l) /\ att' = [att EXCEPT ![l] = @ + 1] /\ at' = [at EXCEPT ![l] = "port"]
    BY <2>1 DEF TriesAgain
  <2>2. CASE Answered(l, FALSE) /\ UNCHANGED att
    BY <2>2 DEF Answered
  <2>3. CASE at' = [at EXCEPT ![l] = "done"] /\ UNCHANGED att
    BY <2>3
  <2> QED
    BY <2>1, <2>2, <2>3
<1>2. OwnInv'
  BY DEF IInv, TypeOK, OwnInv, ReapInv, Running, Alive, Owned, Current, Places,
      OnWorker, TriesAgain, Answered, Reap
<1>3. ReachInv'
  BY DEF IInv, TypeOK, OwnInv, ReachInv, MainInv, ReapInv, Stopping, Running, Alive,
      Owned, Current, Places, OnWorker, TriesAgain, Answered, Reap
<1>4. ReapInv'
  BY DEF IInv, TypeOK, OwnInv, ReapInv, Running, Alive, Owned, Current, Places,
      OnWorker, TriesAgain, Answered, Reap
<1>5. MainInv'
  BY DEF IInv, TypeOK, MainInv, Stopping, OnWorker, OwnInv, Places, TriesAgain,
      Answered, Reap
<1> QED
  BY <1>1, <1>2, <1>3, <1>4, <1>5 DEF IInv

LEMMA AttachIInv == ASSUME IInv, NEW l \in Launch, Attach(l) PROVE IInv'
<1>1. TypeOK'
  BY DEF IInv, TypeOK, MainIs, Stopping, BeginStop, Proxies, Attached, Attach
<1>2. OwnInv'
  BY DEF IInv, TypeOK, OwnInv, ReapInv, Running, Alive, Owned, Current, Places,
      OnWorker, MainIs, Stopping, BeginStop, Proxies, Attached, Attach
<1>3. ReachInv'
  BY DEF IInv, TypeOK, OwnInv, ReachInv, MainInv, ReapInv, Stopping, Running, Alive,
      Owned, Current, Places, OnWorker, MainIs, BeginStop, Proxies, Attached, Attach
<1>4. ReapInv'
  BY DEF IInv, TypeOK, OwnInv, ReapInv, Running, Alive, Owned, Current, Places,
      OnWorker, MainIs, Stopping, BeginStop, Proxies, Attached, Attach
<1>5. MainInv'
  BY DEF IInv, TypeOK, MainInv, Stopping, OnWorker, OwnInv, Places, MainIs, BeginStop,
      Proxies, Attached, Attach
<1> QED
  BY <1>1, <1>2, <1>3, <1>4, <1>5 DEF IInv

LEMMA OpenShellIInv == ASSUME IInv, NEW l \in Launch, OpenShell(l) PROVE IInv'
<1>1. TypeOK'
  BY DEF IInv, TypeOK, MainIs, Stopping, OpenShell
<1>2. OwnInv'
  BY DEF IInv, TypeOK, OwnInv, ReapInv, Running, Alive, Owned, Current, Places,
      OnWorker, MainIs, Stopping, OpenShell
<1>3. ReachInv'
  BY DEF IInv, TypeOK, OwnInv, ReachInv, MainInv, ReapInv, Stopping, Running, Alive,
      Owned, Current, Places, OnWorker, MainIs, OpenShell
<1>4. ReapInv'
  BY DEF IInv, TypeOK, OwnInv, ReapInv, Running, Alive, Owned, Current, Places,
      OnWorker, MainIs, Stopping, OpenShell
<1>5. MainInv'
  BY DEF IInv, TypeOK, MainInv, Stopping, OnWorker, OwnInv, Places, MainIs, OpenShell
<1> QED
  BY <1>1, <1>2, <1>3, <1>4, <1>5 DEF IInv

LEMMA ShellEndsIInv == ASSUME IInv, NEW l \in Launch, ShellEnds(l) PROVE IInv'
<1>1. TypeOK'
  BY DEF IInv, TypeOK, BeginStop, ShellEnds
<1>2. OwnInv'
  BY DEF IInv, TypeOK, OwnInv, ReapInv, Running, Alive, Owned, Current, Places,
      OnWorker, BeginStop, ShellEnds
<1>3. ReachInv'
  BY DEF IInv, TypeOK, OwnInv, ReachInv, MainInv, ReapInv, Stopping, Running, Alive,
      Owned, Current, Places, OnWorker, BeginStop, ShellEnds
<1>4. ReapInv'
  BY DEF IInv, TypeOK, OwnInv, ReapInv, Running, Alive, Owned, Current, Places,
      OnWorker, BeginStop, ShellEnds
<1>5. MainInv'
  BY DEF IInv, TypeOK, MainInv, Stopping, OnWorker, OwnInv, Places, BeginStop, ShellEnds
<1> QED
  BY <1>1, <1>2, <1>3, <1>4, <1>5 DEF IInv

LEMMA StopAttachedIInv == ASSUME IInv, NEW l \in Launch, StopAttached(l) PROVE IInv'
<1>1. TypeOK'
  BY DEF IInv, TypeOK, MainIs, Stopping, BeginStop, StopAttached
<1>2. OwnInv'
  BY DEF IInv, TypeOK, OwnInv, ReapInv, Running, Alive, Owned, Current, Places,
      OnWorker, MainIs, Stopping, BeginStop, StopAttached
<1>3. ReachInv'
  BY DEF IInv, TypeOK, OwnInv, ReachInv, MainInv, ReapInv, Stopping, Running, Alive,
      Owned, Current, Places, OnWorker, MainIs, BeginStop, StopAttached
<1>4. ReapInv'
  BY DEF IInv, TypeOK, OwnInv, ReapInv, Running, Alive, Owned, Current, Places,
      OnWorker, MainIs, Stopping, BeginStop, StopAttached
<1>5. MainInv'
  BY DEF IInv, TypeOK, MainInv, Stopping, OnWorker, OwnInv, Places, MainIs, BeginStop,
      StopAttached
<1> QED
  BY <1>1, <1>2, <1>3, <1>4, <1>5 DEF IInv

LEMMA TakeErrorIInv == ASSUME IInv, NEW l \in Launch, TakeError(l) PROVE IInv'
<1>1. TypeOK'
  BY DEF IInv, TypeOK, MainIs, Stopping, TakeError
<1>2. OwnInv'
  BY DEF IInv, TypeOK, OwnInv, ReapInv, Running, Alive, Owned, Current, Places,
      OnWorker, MainIs, Stopping, TakeError
<1>3. ReachInv'
  BY DEF IInv, TypeOK, OwnInv, ReachInv, MainInv, ReapInv, Stopping, Running, Alive,
      Owned, Current, Places, OnWorker, MainIs, TakeError
<1>4. ReapInv'
  BY DEF IInv, TypeOK, OwnInv, ReapInv, Running, Alive, Owned, Current, Places,
      OnWorker, MainIs, Stopping, TakeError
<1>5. MainInv'
  BY DEF IInv, TypeOK, MainInv, Stopping, OnWorker, OwnInv, Places, MainIs, TakeError
<1> QED
  BY <1>1, <1>2, <1>3, <1>4, <1>5 DEF IInv

LEMMA QuitIInv == ASSUME IInv, Quit PROVE IInv'
<1>1. TypeOK'
  BY DEF IInv, TypeOK, MainIs, Stopping, KillGroups, Quit
<1>2. OwnInv'
  BY DEF IInv, TypeOK, OwnInv, ReapInv, Running, Alive, Owned, Current, Places,
      OnWorker, MainIs, Stopping, KillGroups, Quit
<1>3. ReachInv'
  BY DEF IInv, TypeOK, OwnInv, ReachInv, MainInv, ReapInv, Stopping, Running, Alive,
      Owned, Current, Places, OnWorker, MainIs, KillGroups, Quit
<1>4. ReapInv'
  BY DEF IInv, TypeOK, OwnInv, ReapInv, Running, Alive, Owned, Current, Places,
      OnWorker, MainIs, Stopping, KillGroups, Quit
<1>5. MainInv'
  BY DEF IInv, TypeOK, MainInv, Stopping, OnWorker, OwnInv, Places, MainIs, KillGroups,
      Quit
<1> QED
  BY <1>1, <1>2, <1>3, <1>4, <1>5 DEF IInv

LEMMA DiscardIInv == ASSUME IInv, NEW l \in Launch, Discard(l) PROVE IInv'
<1>1. TypeOK'
  BY DEF IInv, TypeOK, MainIs, Stopping, BeginStop, Discard
<1>2. OwnInv'
  BY DEF IInv, TypeOK, OwnInv, ReapInv, Running, Alive, Owned, Current, Places,
      OnWorker, MainIs, Stopping, BeginStop, Discard
<1>3. ReachInv'
  BY DEF IInv, TypeOK, OwnInv, ReachInv, MainInv, ReapInv, Stopping, Running, Alive,
      Owned, Current, Places, OnWorker, MainIs, BeginStop, Discard
<1>4. ReapInv'
  BY DEF IInv, TypeOK, OwnInv, ReapInv, Running, Alive, Owned, Current, Places,
      OnWorker, MainIs, Stopping, BeginStop, Discard
<1>5. MainInv'
  BY DEF IInv, TypeOK, MainInv, Stopping, OnWorker, OwnInv, Places, MainIs, BeginStop,
      Discard
<1> QED
  BY <1>1, <1>2, <1>3, <1>4, <1>5 DEF IInv

LEMMA DropAppIInv == ASSUME IInv, DropApp PROVE IInv'
<1>1. TypeOK'
  BY DEF IInv, TypeOK, MainIs, Stopping, DropApp
<1>2. OwnInv'
  BY DEF IInv, TypeOK, OwnInv, ReapInv, Running, Alive, Owned, Current, Places,
      OnWorker, MainIs, Stopping, DropApp
<1>3. ReachInv'
  BY DEF IInv, TypeOK, OwnInv, ReachInv, MainInv, ReapInv, Stopping, Running, Alive,
      Owned, Current, Places, OnWorker, MainIs, DropApp
<1>4. ReapInv'
  BY DEF IInv, TypeOK, OwnInv, ReapInv, Running, Alive, Owned, Current, Places,
      OnWorker, MainIs, Stopping, DropApp
<1>5. MainInv'
  BY DEF IInv, TypeOK, MainInv, Stopping, OnWorker, OwnInv, Places, MainIs, DropApp
<1> QED
  BY <1>1, <1>2, <1>3, <1>4, <1>5 DEF IInv

LEMMA DropAttachedIInv == ASSUME IInv, NEW l \in Launch, DropAttached(l) PROVE IInv'
<1>1. TypeOK'
  BY DEF IInv, TypeOK, MainIs, Stopping, BeginStop, DropAttached
<1>2. OwnInv'
  BY DEF IInv, TypeOK, OwnInv, ReapInv, Running, Alive, Owned, Current, Places,
      OnWorker, MainIs, Stopping, BeginStop, DropAttached
<1>3. ReachInv'
  BY DEF IInv, TypeOK, OwnInv, ReachInv, MainInv, ReapInv, Stopping, Running, Alive,
      Owned, Current, Places, OnWorker, MainIs, BeginStop, DropAttached
<1>4. ReapInv'
  BY DEF IInv, TypeOK, OwnInv, ReapInv, Running, Alive, Owned, Current, Places,
      OnWorker, MainIs, Stopping, BeginStop, DropAttached
<1>5. MainInv'
  BY DEF IInv, TypeOK, MainInv, Stopping, OnWorker, OwnInv, Places, MainIs, BeginStop,
      DropAttached
<1> QED
  BY <1>1, <1>2, <1>3, <1>4, <1>5 DEF IInv

LEMMA ExitProcessIInv == ASSUME IInv, ExitProcess PROVE IInv'
<1>1. TypeOK'
  BY DEF IInv, TypeOK, MainIs, Stopping, ExitProcess
<1>2. OwnInv'
  BY DEF IInv, TypeOK, OwnInv, ReapInv, Running, Alive, Owned, Current, Places,
      OnWorker, MainIs, Stopping, ExitProcess
<1>3. ReachInv'
  BY DEF IInv, TypeOK, OwnInv, ReachInv, MainInv, ReapInv, Stopping, Running, Alive,
      Owned, Current, Places, OnWorker, MainIs, ExitProcess
<1>4. ReapInv'
  BY DEF IInv, TypeOK, OwnInv, ReapInv, Running, Alive, Owned, Current, Places,
      OnWorker, MainIs, Stopping, ExitProcess
<1>5. MainInv'
  BY DEF IInv, TypeOK, MainInv, Stopping, OnWorker, OwnInv, Places, MainIs, ExitProcess
<1> QED
  BY <1>1, <1>2, <1>3, <1>4, <1>5 DEF IInv

LEMMA StutterIInv == ASSUME IInv, UNCHANGED vars PROVE IInv'
<1>1. (TypeOK /\ MainInv)'
  BY DEF IInv, TypeOK, MainInv, Stopping, OnWorker, vars
<1>2. (OwnInv /\ ReachInv /\ ReapInv)'
  BY DEF IInv, OwnInv, ReachInv, ReapInv, Running, Alive, Owned, Current, vars
<1> QED
  BY <1>1, <1>2 DEF IInv

-----------------------------------------------------------------------------

\* The initial state satisfies the inductive invariant.
THEOREM InitIInv == Init => IInv
<1> SUFFICES ASSUME Init PROVE IInv
  OBVIOUS
<1>1. TypeOK
  <2>1. /\ kind \in [Launch -> Kind] /\ port \in [Launch -> Port \cup {None}]
        /\ att \in [Launch -> 1 .. PORT_RETRIES] /\ lost \in [Launch -> BOOLEAN]
    BY DEF Init
  <2>2. /\ helper \in [Child -> BOOLEAN] /\ listener \in [Port -> Child \cup {Other, None}]
        /\ proc \in [Child -> {"unborn", "starting", "listening", "exited", "reaped"}]
    BY DEF Init
  <2> QED
    BY <2>1, <2>2 DEF Init, TypeOK
<1>2. OwnInv /\ ReachInv /\ ReapInv /\ MainInv
  BY DEF Init, OwnInv, ReachInv, ReapInv, MainInv, Stopping, Running, Alive, Owned, Current
<1> QED
  BY <1>1, <1>2 DEF IInv

\* Every step of the launches, the UI, the children and other programs keeps it.
THEOREM NextIInv == ASSUME IInv, [Next]_vars PROVE IInv'
<1>1. ASSUME Environment PROVE IInv'
  BY <1>1, BindIInv, ExitIInv, ForkIInv, HelperExitsIInv, RecycleIInv, SquatIInv DEF Environment
<1>2. ASSUME NEW l \in Launch, Worker(l) \/ Stop(l) PROVE IInv'
  BY <1>2, PickPortIInv, SpawnIInv, WaitIInv, UnlistIInv, KillGroupIInv, ReapIInv DEF Worker, Stop
<1>3. ASSUME NEW l \in Launch, User(l) \/ MainStep(l) \/ ShellEnds(l) PROVE IInv'
  BY <1>3, StartIInv, StopAttachedIInv, AttachIInv, OpenShellIInv, TakeErrorIInv, DiscardIInv,
     DropAttachedIInv, ShellEndsIInv DEF User, MainStep
<1> QED
  BY <1>1, <1>2, <1>3, QuitIInv, DropAppIInv, ExitProcessIInv, StutterIInv DEF Next, Over

THEOREM Invariance == Spec => []IInv
  BY InitIInv, NextIInv, PTL DEF Spec

\* Nothing that runs is ever without an owner of its handle (proxy.rs's launches,
\* attach_proxy, stop_child), however many launches and retries there are.
THEOREM NoneIsAdrift == Spec => []NothingAdrift
<1>1. IInv => NothingAdrift
  BY DEF IInv, OwnInv, NothingAdrift
<1> QED
  BY <1>1, Invariance, PTL

\* ChildRegistry::shutdown finds every child nobody has begun to stop.
THEOREM ShutdownFindsAll == Spec => []ShutdownReachesAll
<1>1. IInv => ShutdownReachesAll
  BY DEF IInv, ReachInv, ShutdownReachesAll
<1> QED
  BY <1>1, Invariance, PTL

\* When the program is gone, so is everything it started, but for a group its
\* thread was about to kill.
THEOREM NoneOutlives == Spec => []NothingOutlivesTheTui
<1>1. IInv => NothingOutlivesTheTui
  BY DEF IInv, OwnInv, ReachInv, MainInv, Stopping, NothingOutlivesTheTui, Child
<1> QED
  BY <1>1, Invariance, PTL

LEMMA StrayStep == ASSUME IInv, [Next]_vars, NEW c \in stray' \ stray
                   PROVE  lost[c[1]] /\ step[c[1]] \in {"unlist", "kill"}
<1>1. CASE Quit
  BY <1>1 DEF Quit, KillGroups, IInv, TypeOK, ReapInv
<1>2. ASSUME NEW l \in Launch, KillGroup(l) PROVE lost[c[1]] /\ step[c[1]] \in {"unlist", "kill"}
  <2>1. c = Current(l) /\ c \in recycled
    BY <1>2 DEF KillGroup, KillGroups
  <2>2. c \in Child /\ c[1] = l /\ Owned(c) /\ step[l] = "kill"
    BY <1>2, <2>1 DEF KillGroup, IInv, TypeOK, OwnInv, Owned, Current, Places
  <2> QED
    BY <2>1, <2>2 DEF IInv, ReapInv
<1>3. CASE UNCHANGED stray
  BY <1>3
<1>4. ASSUME Environment PROVE UNCHANGED stray
  BY <1>4 DEF Environment, Bind, Exit, Fork, HelperExits, Recycle, Squat
<1>5. ASSUME NEW l \in Launch, Worker(l) \/ Unlist(l) \/ Reap(l) PROVE UNCHANGED stray
  BY <1>5 DEF Worker, PickPort, Spawn, Wait, Probe, Recheck, KubeReady, KubeSilent, Grace, TimeOut,
     Unlist, Reap
<1>6. ASSUME NEW l \in Launch, User(l) \/ MainStep(l) \/ ShellEnds(l) PROVE UNCHANGED stray
  BY <1>6 DEF User, Start, StopAttached, MainStep, Attach, OpenShell, TakeError, Discard,
     DropAttached, ShellEnds
<1>7. ASSUME DropApp \/ ExitProcess \/ Over \/ UNCHANGED vars PROVE UNCHANGED stray
  BY <1>7 DEF DropApp, ExitProcess, Over, vars
<1> QED
  BY <1>1, <1>2, <1>3, <1>4, <1>5, <1>6, <1>7 DEF Next, Stop

\* No unrelated program is signalled for a child its thread has not seen exit.
THEOREM StraysWereSeen == Spec => StraysHadExited
<1>1. IInv /\ [Next]_vars => [\A c \in stray' \ stray : lost[c[1]] /\ step[c[1]] \in {"unlist", "kill"}]_vars
  BY StrayStep
<1> QED
  BY <1>1, Invariance, PTL DEF Spec, StraysHadExited

=============================================================================
