--------------------------- MODULE ActiveProfile ---------------------------
(***************************************************************************)
(* The one `~/.tsh` profile shared by every thread of the program.         *)
(*                                                                         *)
(* `tctl` has no cluster flag: it reads whatever cluster the profile on    *)
(* disk points at.  Admin listings therefore re-key the profile, read, and *)
(* put it back, on dedicated threads that hold profile_lock (dispatch.rs). *)
(* Three other actors touch the same profile:                              *)
(*   - the background switch to another proxy, under the same lock;        *)
(*   - the pool's reads (`tsh status`, `tsh clusters`, the admin probe,    *)
(*     admin prefetches), without the lock;                                *)
(*   - the interactive `tsh login` the UI hands the terminal to, without   *)
(*     the lock either.                                                    *)
(* Work that was queued for an older proxy is recognised by its profile    *)
(* generation.  The module models every one of these actors step by step.  *)
(*                                                                         *)
(* Abstractions: a listing is the cluster it was read from; the order in   *)
(* which a fan-out visits its clusters is arbitrary; the pool is a set of  *)
(* pending reads (WorkQueue models its queue); a result's messages are     *)
(* sent in one step.  generations.tab and generations.prefetch are stored  *)
(* by the UI in the handler that bumps App::tab_req and App::prefetch_seq, *)
(* so each pair is one variable here.                                      *)
(***************************************************************************)
EXTENDS Integers, Sequences

CONSTANTS
    Proxy,      \* the proxies the user has a tsh profile for
    Name,       \* cluster names under a proxy
    Root,       \* the name of a proxy's own (root) cluster
    Thread,     \* the dedicated threads that may be alive at the same time
    FormProxy,  \* the proxies the user may type in the login form, beside the current
    Follow,     \* the kinds of results a run follows from the thread to the UI
    MaxActs,    \* bound: user and timer actions in a behaviour
    None        \* no thread, no cluster, no proxy

ASSUME ConstantsAssumption ==
    /\ Root \in Name
    /\ FormProxy \subseteq Proxy
    /\ MaxActs \in Nat
    /\ "switched" \in Follow
    /\ None \notin Thread
    /\ None \notin Proxy
    /\ None \notin [proxy : Proxy, name : Name]
    /\ None \notin {"restore", "login"}

Cluster == [proxy : Proxy, name : Name]
RootOf(p) == [proxy |-> p, name |-> Root]
ClustersOf(p) == {c \in Cluster : c.proxy = p}

VARIABLES
    \* Shared between threads.
    disk,          \* the cluster `~/.tsh`'s active profile is on
    lock,          \* the thread that holds profile_lock, or None
    genProfile,    \* Generations::profile
    tabReq,        \* App::tab_req and Generations::tab
    prefetchSeq,   \* App::prefetch_seq and Generations::prefetch
    reads,         \* the pool's pending jobs
    chan,          \* the job_tx/job_rx channel
    pc, job,       \* the dedicated threads
    \* The UI thread.
    profileGen,    \* App::profile_gen
    selected,      \* App::topology: its selected cluster, None without one
    profile,       \* App::profile: the cluster of the last `tsh status`
    adminAllowed, adminProbed,
    adminTab, agg, \* the active tab is an admin tab; all-clusters mode
    prefetchCluster,
    switching,     \* App::profile_switching
    pendingRestore,
    terminal,      \* who has the terminal: the UI, or `tsh login` for a profile or a form
    login,         \* where the interactive login leads, None for another command
    acts,          \* how many user actions were taken (bounded)
    \* History, read by the properties only.
    raced,         \* an interactive login moved the profile under the lock
    foreign,       \* a form login moved it to a proxy without a new generation
    strandedBy     \* why the profile is off root: None, "restore" or "login"

shared == <<disk, lock, genProfile, tabReq, prefetchSeq, reads, chan>>
threads == <<pc, job>>
view == <<selected, profile, adminAllowed, adminProbed, adminTab, agg, prefetchCluster>>
session == <<profileGen, switching, pendingRestore>>
hand == <<terminal, login>>
history == <<raced, foreign, strandedBy>>
vars == <<shared, threads, view, session, hand, acts, history>>

Reader == {"scoped", "stream"}
Kind == Reader \cup {"after", "switch"}

\* What a dedicated thread carries.  A switch puts the profile on `root`, every
\* other kind restores `root` after its work (`after` only when `restore`).
Job ==
    [kind : Kind, gen : Nat, seq : Nat, root : Cluster \cup {None}, todo : SUBSET Cluster,
     cur : Cluster \cup {None}, restore : BOOLEAN,
     from : Cluster \cup {None}, failed : BOOLEAN]

\* A pool job; `from` is the cluster it read, once tsh or tctl has answered.
Read ==
    [kind : {"status", "clusters", "probe", "prefetch"}, seq : Nat,
     label : Cluster \cup {None}, from : Cluster \cup {None}]

MessageKind == Reader \cup {"prefetch", "status", "clusters", "probe", "restore_failed", "switched"}

\* A result on its way to the UI: `label` is the cluster it is shown under,
\* `from` the cluster the profile was on when it was read.
Message ==
    [kind : MessageKind,
     seq : Nat, label : Cluster \cup {None}, from : Cluster \cup {None}, ok : BOOLEAN]

\* Results of a kind the run does not follow are not sent (nothing depends on
\* them but what they change when applied).
Post(q, m) == IF m.kind \in Follow THEN Append(q, m) ELSE q

Msg(k, s, l, f, o) == [kind |-> k, seq |-> s, label |-> l, from |-> f, ok |-> o]

Locked == {"checking", "selecting", "listing", "restoring", "switching", "publishing", "unlocking"}
PC == {"idle", "waiting", "sending", "status", "clusters", "probing"} \cup Locked

-----------------------------------------------------------------------------
(* Dispatch: what the UI thread starts.                                    *)

Work(k, g, s, root, todo) ==
    [kind |-> k, gen |-> g, seq |-> s, root |-> root, todo |-> todo, cur |-> root,
     restore |-> FALSE, from |-> None, failed |-> FALSE]

\* A thread that has ended carries nothing.
NoJob == Work("after", 0, 0, None, {})

Spawn(t, at, j) ==
    /\ pc[t] = "idle"
    /\ pc' = [pc EXCEPT ![t] = at]
    /\ job' = [job EXCEPT ![t] = j]

\* spawn_admin_scoped, on behalf of dispatch_admin_scoped: not even spawned
\* when the profile was switched behind the UI's back.
AdminScoped(t, c) ==
    /\ tabReq' = tabReq + 1
    /\ IF genProfile = profileGen
       THEN Spawn(t, "waiting", Work("scoped", profileGen, tabReq + 1, RootOf(c.proxy), {c}))
       ELSE UNCHANGED threads

\* spawn_admin_stream for the online clusters whose slice is not cached.
AdminStream(t, p) ==
    /\ UNCHANGED tabReq
    /\ \/ UNCHANGED threads
       \/ \E missing \in SUBSET ClustersOf(p) \ {{}} :
             Spawn(t, "waiting", Work("stream", profileGen, 0, RootOf(p), missing))

\* reload_active, for the view it leaves behind (sel, isAdmin, isAgg).  Only an
\* admin tab needs the profile; the other tabs load on the pool (`tsh -c`).
ReloadActive(t, sel, isAdmin, isAgg) ==
    \/ isAgg /\ isAdmin /\ AdminStream(t, sel.proxy)
    \/ isAgg /\ ~isAdmin /\ UNCHANGED <<tabReq, threads>>
    \/ ~isAgg /\ isAdmin /\ sel # None /\ AdminScoped(t, sel)
    \/ ~isAgg /\ isAdmin /\ sel = None /\ tabReq' = tabReq + 1 /\ UNCHANGED threads
    \/ ~isAgg /\ ~isAdmin /\ sel # None /\ tabReq' = tabReq + 1 /\ UNCHANGED threads
    \/ ~isAgg /\ ~isAdmin /\ sel = None /\ UNCHANGED <<tabReq, threads>>

\* prefetch_all: a new batch number only for another cluster, and an admin
\* listing is warmed on the pool until the probe denied the rights.
PrefetchAll(sel, isAgg, more) ==
    IF isAgg
    THEN UNCHANGED <<prefetchSeq, prefetchCluster>> /\ reads' = reads \cup more
    ELSE LET seq == IF prefetchCluster # sel THEN prefetchSeq + 1 ELSE prefetchSeq
             warm == IF "prefetch" \in Follow /\ (~adminProbed \/ adminAllowed)
                     THEN {[kind |-> "prefetch", seq |-> seq, label |-> RootOf(sel.proxy), from |-> None]}
                     ELSE {}
         IN /\ prefetchSeq' = seq
            /\ prefetchCluster' = sel
            /\ \/ reads' = reads \cup more
               \/ reads' = reads \cup warm \cup more

Aux(kinds, g) == {[kind |-> k, seq |-> g, label |-> None, from |-> None] : k \in kinds \cap Follow}

\* enter_profile: a new generation, and nothing of the old profile survives.
\* What the pool still queues for an older batch is stale from here on.
EnterProfile(g, more) ==
    /\ profileGen' = g
    /\ genProfile' = g
    /\ selected' = None
    /\ adminAllowed' = FALSE
    /\ adminProbed' = FALSE
    /\ adminTab' = FALSE
    /\ agg' = FALSE
    /\ pendingRestore' = None
    /\ prefetchCluster' = None
    /\ prefetchSeq' = prefetchSeq + 1
    /\ tabReq' = tabReq + 1
    /\ reads' = reads \cup more
    /\ UNCHANGED profile

-----------------------------------------------------------------------------
(* The UI thread: keys, and the results it drains.                         *)

UserActs == terminal = "ui" /\ acts < MaxActs /\ acts' = acts + 1

\* A tab switch, `r`, or an auto-refresh: reload the view, unless it is cached.
ShowTab(t, isAdmin) ==
    /\ UserActs
    /\ adminTab' = isAdmin
    /\ \/ ReloadActive(t, selected, isAdmin, agg)
       \/ UNCHANGED <<tabReq, threads>>
    /\ UNCHANGED <<disk, lock, genProfile, prefetchSeq, reads, chan, selected, profile,
                   adminAllowed, adminProbed, agg, prefetchCluster, session, hand, history>>

\* The picker's "All clusters".
ShowAllClusters(t) ==
    /\ UserActs
    /\ selected # None
    /\ agg' = TRUE
    /\ ReloadActive(t, selected, adminTab, TRUE)
    /\ UNCHANGED <<disk, lock, genProfile, prefetchSeq, reads, chan, selected, profile,
                   adminAllowed, adminProbed, adminTab, prefetchCluster, session, hand, history>>

\* select_scoped_cluster.
SelectScopedCluster(t, c) ==
    /\ UserActs
    /\ selected # None
    /\ c.proxy = selected.proxy
    /\ selected' = c
    /\ agg' = FALSE
    /\ ReloadActive(t, c, adminTab, FALSE)
    /\ PrefetchAll(c, FALSE, {})
    /\ UNCHANGED <<disk, lock, genProfile, chan, profile, adminAllowed, adminProbed,
                   adminTab, session, hand, history>>

\* `r` without a topology asks for the clusters again.
RetryClusters ==
    /\ UserActs
    /\ selected = None
    /\ switching = None
    /\ reads' = reads \cup Aux({"clusters"}, profileGen)
    /\ UNCHANGED <<disk, lock, genProfile, tabReq, prefetchSeq, chan, threads, view,
                   session, hand, history>>

\* choose_profile for a profile whose certificate is still valid.
SwitchProfile(t, p) ==
    /\ UserActs
    /\ switching = None
    /\ switching' = p
    /\ Spawn(t, "waiting", Work("switch", profileGen + 1, 0, RootOf(p), {}))
    /\ UNCHANGED <<shared, view, profileGen, pendingRestore, hand, history>>

\* choose_profile for an expired one: interactive_profile_login.
ProfileLogin(p) ==
    /\ UserActs
    /\ switching = None
    /\ EnterProfile(profileGen + 1, {})
    /\ terminal' = "profile"
    /\ login' = RootOf(p)
    /\ UNCHANGED <<disk, lock, chan, threads, switching, history>>

\* submit_login of the form the user typed a proxy in.
FormLogin(p) ==
    /\ UserActs
    /\ p \in FormProxy \/ p = disk.proxy
    /\ terminal' = "form"
    /\ login' = RootOf(p)
    /\ UNCHANGED <<shared, threads, view, session, history>>

\* Mutant: the proxy's address is remembered where its root cluster's name is due.
LeafLogin_ProxyAsRoot(c) ==
    /\ UserActs
    /\ agg /\ adminTab /\ selected # None
    /\ c.proxy = selected.proxy
    /\ c.name # Root
    /\ pendingRestore' = selected.proxy
    /\ terminal' = "form"
    /\ login' = c
    /\ UNCHANGED <<shared, threads, view, profileGen, switching, history>>

\* submit_login of the form `L` opened on a login-required row of the serial
\* aggregate: the root to put the profile back on is remembered.
LeafLogin(c) ==
    /\ UserActs
    /\ agg /\ adminTab /\ selected # None
    /\ c.proxy = selected.proxy
    /\ c.name # Root
    /\ pendingRestore' = RootOf(selected.proxy)
    /\ terminal' = "form"
    /\ login' = c
    /\ UNCHANGED <<shared, threads, view, profileGen, switching, history>>

\* The event loop runs the outcome a background result left in App::deferred.
TakeDeferred ==
    /\ terminal = "deferred"
    /\ terminal' = "profile"
    /\ UNCHANGED <<shared, threads, view, session, login, acts, history>>

\* `tsh login` moves the profile, or the user gives up.
LoginEnds ==
    /\ terminal \in {"profile", "form"}
    /\ terminal' = "returned"
    /\ \/ UNCHANGED <<disk, raced, foreign, strandedBy>>
       \/ /\ disk' = login
          /\ raced' = (raced \/ lock # None)
          /\ foreign' = (foreign \/ (terminal = "form" /\ login.proxy # disk.proxy))
          /\ strandedBy' = IF login.name = Root THEN None ELSE "login"
    /\ UNCHANGED <<lock, genProfile, tabReq, prefetchSeq, reads, chan, threads, view,
                   session, login, acts>>

\* after_action: the follow-up thread restores root (if asked) and reads again.
AfterAction(t) ==
    /\ terminal = "returned"
    /\ terminal' = "ui"
    /\ login' = None
    /\ pendingRestore' = None
    /\ LET root == IF pendingRestore = None THEN disk ELSE pendingRestore
           at == IF pendingRestore = None THEN "status" ELSE "waiting"
       IN Spawn(t, at, [Work("after", profileGen, 0, root, {}) EXCEPT
                           !.restore = pendingRestore # None])
    /\ UNCHANGED <<shared, view, profileGen, switching, acts, history>>

\* apply_topology, for the profile the clusters were read from: the cluster tsh
\* marks as selected is the one the profile is on.
ApplyClusters(t, m) ==
    /\ selected' = m.from
    /\ ReloadActive(t, m.from, adminTab, agg)
    /\ PrefetchAll(m.from, agg, {})
    /\ UNCHANGED <<disk, lock, genProfile, profile, adminAllowed, adminProbed, adminTab, agg,
                   session, hand, history>>

ApplyStatus(m) ==
    /\ profile' = m.from
    /\ UNCHANGED <<disk, lock, genProfile, tabReq, prefetchSeq, reads, threads, selected,
                   adminAllowed, adminProbed, adminTab, agg, prefetchCluster, session, hand,
                   history>>

\* probe_ran_on_root.
ProbeRanOnRoot == selected # None /\ profile = RootOf(selected.proxy)

\* apply_admin_allowed; a hidden active tab falls back to SSH.
ApplyProbe(t, m) ==
    /\ adminAllowed' = m.ok
    /\ adminProbed' = TRUE
    /\ IF ~m.ok /\ adminTab /\ (profile = None \/ ProbeRanOnRoot)
       THEN /\ adminTab' = FALSE
            /\ \/ ReloadActive(t, selected, FALSE, agg)
               \/ UNCHANGED <<tabReq, threads>>
       ELSE UNCHANGED <<adminTab, tabReq, threads>>
    /\ UNCHANGED <<disk, lock, genProfile, prefetchSeq, reads, selected, profile, agg,
                   prefetchCluster, session, hand, raced, foreign, strandedBy>>

\* apply_profile_switched: on success everything restarts from bootstrap; a
\* profile that needs a login is handed to the event loop; any other failure
\* keeps the current profile.
ApplySwitched(m) ==
    /\ switching' = None
    /\ \/ /\ m.ok
          /\ EnterProfile(m.seq, Aux({"status", "clusters", "probe"}, m.seq))
          /\ UNCHANGED hand
       \/ /\ ~m.ok
          /\ EnterProfile(profileGen + 1, {})
          /\ terminal' = "deferred"
          /\ login' = m.label
       \/ /\ ~m.ok
          /\ UNCHANGED <<genProfile, tabReq, prefetchSeq, reads, view, profileGen,
                         pendingRestore, hand>>
    /\ UNCHANGED <<disk, lock, threads, history>>

\* apply_tab for a prefetch of the current batch: a listing of an admin tab
\* proves the rights.  (Where rows end up is Session's business.)
ApplyPrefetch(m) ==
    /\ IF m.seq = prefetchSeq /\ m.ok
       THEN adminAllowed' = TRUE /\ adminProbed' = TRUE
       ELSE UNCHANGED <<adminAllowed, adminProbed>>
    /\ UNCHANGED <<disk, lock, genProfile, tabReq, prefetchSeq, reads, threads, selected, profile,
                   adminTab, agg, prefetchCluster, session, hand, history>>

\* Mutant: results are applied whatever profile they were read for.
Current_Untagged(m) == m.kind \in MessageKind

\* Reads of the profile that were issued before the last switch are dropped.
ProfileRead(m) == m.kind \in {"status", "clusters", "probe"}
Current(m) == ProfileRead(m) => m.seq = profileGen

\* tick: the next result on the channel is applied.
Apply(t) ==
    /\ terminal \in {"ui", "deferred"}
    /\ chan # <<>>
    /\ chan' = Tail(chan)
    /\ UNCHANGED acts
    /\ LET m == Head(chan) IN
       \/ m.kind = "clusters" /\ Current(m) /\ ApplyClusters(t, m)
       \/ m.kind = "status" /\ Current(m) /\ ApplyStatus(m)
       \/ m.kind = "probe" /\ Current(m) /\ ApplyProbe(t, m)
       \/ m.kind = "switched" /\ ApplySwitched(m)
       \/ m.kind = "prefetch" /\ ApplyPrefetch(m)
       \/ /\ m.kind \in Reader \cup {"restore_failed"} \/ ~Current(m)
          /\ UNCHANGED <<disk, lock, genProfile, tabReq, prefetchSeq, reads, threads, view,
                         session, hand, history>>

-----------------------------------------------------------------------------
(* `tsh` and `tctl`, as the code uses them (external).                     *)

\* `tsh login <cluster>` selects a cluster under the profile's current proxy.
\* Under another proxy a cluster of that name may exist, or the login fails.
Selected(c) == [disk EXCEPT !.name = c.name]

\* `tctl status` on a leaf says no whatever the rights are.
ProbeAnswers(c) == IF c.name = Root THEN BOOLEAN ELSE {FALSE}

-----------------------------------------------------------------------------
(* The dedicated threads.                                                  *)

Goto(t, at) == pc' = [pc EXCEPT ![t] = at]
Finish(t) == Goto(t, "idle") /\ job' = [job EXCEPT ![t] = NoJob]
RestUnchanged == UNCHANGED <<tabReq, prefetchSeq, reads, view, session, hand, acts,
                                 foreign>>

\* Mutant: the threads do not take the lock.
Acquire_NoLock(t) ==
    /\ pc[t] = "waiting"
    /\ lock' = t
    /\ Goto(t, IF job[t].kind = "switch" THEN "switching" ELSE "checking")
    /\ UNCHANGED <<disk, genProfile, chan, job, raced, strandedBy>>
    /\ RestUnchanged

Acquire(t) ==
    /\ pc[t] = "waiting"
    /\ lock = None
    /\ lock' = t
    /\ Goto(t, IF job[t].kind = "switch" THEN "switching" ELSE "checking")
    /\ UNCHANGED <<disk, genProfile, chan, job, raced, strandedBy>>
    /\ RestUnchanged

\* Mutant: only a newer tab request stops queued work.
StillWanted_AnyProfile(j) == j.kind = "scoped" => j.seq = tabReq

\* The work is still for the current profile and, for a scoped listing, for the
\* latest tab request (run_scoped_if_latest).
StillWanted(j) == j.gen = genProfile /\ (j.kind = "scoped" => j.seq = tabReq)

Check(t) ==
    /\ pc[t] = "checking"
    /\ IF ~StillWanted(job[t])
       THEN Goto(t, "unlocking") /\ job' = [job EXCEPT ![t].todo = {}, ![t].restore = FALSE]
       ELSE IF job[t].kind = "after"
       THEN Goto(t, "restoring") /\ UNCHANGED job
       ELSE \E c \in job[t].todo :
              Goto(t, "selecting") /\ job' = [job EXCEPT ![t].cur = c, ![t].restore = TRUE]
    /\ UNCHANGED <<disk, lock, genProfile, chan, raced, strandedBy>>
    /\ RestUnchanged

\* select_cluster; when it fails the cluster is not read at all.
Select(t) ==
    /\ pc[t] = "selecting"
    /\ \/ /\ disk' = Selected(job[t].cur)
          /\ Goto(t, "listing")
          /\ strandedBy' = IF job[t].cur.name = Root THEN None ELSE strandedBy
       \/ Goto(t, "restoring") /\ UNCHANGED <<disk, strandedBy>>
    /\ job' = [job EXCEPT ![t].from = None]
    /\ UNCHANGED <<lock, genProfile, chan, raced>>
    /\ RestUnchanged

\* Mutant: a listing that fails returns before the root is restored.
List_EarlyReturn(t) ==
    /\ pc[t] = "listing"
    /\ \/ job' = [job EXCEPT ![t].from = disk] /\ Goto(t, "restoring")
       \/ UNCHANGED job /\ Goto(t, "unlocking")
    /\ UNCHANGED <<disk, lock, genProfile, chan, raced, strandedBy>>
    /\ RestUnchanged

List(t) ==
    /\ pc[t] = "listing"
    /\ \/ job' = [job EXCEPT ![t].from = disk]
       \/ UNCHANGED job
    /\ Goto(t, "restoring")
    /\ UNCHANGED <<disk, lock, genProfile, chan, raced, strandedBy>>
    /\ RestUnchanged

\* restore_root.
Restore(t) ==
    /\ pc[t] = "restoring"
    /\ \/ /\ disk' = Selected(job[t].root)
          /\ job' = [job EXCEPT ![t].failed = FALSE]
          /\ strandedBy' = None
       \/ /\ UNCHANGED disk
          /\ job' = [job EXCEPT ![t].failed = TRUE]
          /\ strandedBy' = IF disk.name = Root THEN strandedBy ELSE "restore"
    /\ Goto(t, "unlocking")
    /\ UNCHANGED <<lock, genProfile, chan, raced>>
    /\ RestUnchanged

\* spawn_profile_switch: `tsh login --proxy`, and on success the generation is
\* published before the lock is released.
Switch(t) ==
    /\ pc[t] = "switching"
    /\ \/ /\ disk' = job[t].root
          /\ strandedBy' = None
          /\ Goto(t, "publishing")
          /\ UNCHANGED job
       \/ /\ job' = [job EXCEPT ![t].failed = TRUE]
          /\ Goto(t, "unlocking")
          /\ UNCHANGED <<disk, strandedBy>>
    /\ UNCHANGED <<lock, genProfile, chan, raced>>
    /\ RestUnchanged

Publish(t) ==
    /\ pc[t] = "publishing"
    /\ genProfile' = job[t].gen
    /\ Goto(t, "unlocking")
    /\ UNCHANGED <<disk, lock, chan, job, raced, strandedBy>>
    /\ RestUnchanged

\* Mutant: work that was stopped by its generation leaves with the lock.
Unlock_OnlyWhenWanted(t) ==
    /\ pc[t] = "unlocking"
    /\ lock' = IF StillWanted(job[t]) THEN None ELSE lock
    /\ Goto(t, IF job[t].kind = "after" THEN "status" ELSE "sending")
    /\ UNCHANGED <<disk, genProfile, chan, job, raced, strandedBy>>
    /\ RestUnchanged

Unlock(t) ==
    /\ pc[t] = "unlocking"
    /\ lock' = None
    /\ Goto(t, IF job[t].kind = "after" THEN "status" ELSE "sending")
    /\ UNCHANGED <<disk, genProfile, chan, job, raced, strandedBy>>
    /\ RestUnchanged

\* The results of the critical section are sent after it.  A fan-out goes back
\* for its next cluster; a skipped one (nothing restored) sends nothing.
PostRestore(q, j) ==
    IF j.failed THEN Post(q, Msg("restore_failed", j.gen, j.root, None, FALSE)) ELSE q

Send(t) ==
    /\ pc[t] = "sending"
    /\ LET j == job[t]
           left == j.todo \ {j.cur}
       IN \/ /\ j.kind = "switch"
             /\ chan' = Post(chan, Msg("switched", j.gen, j.root, None, ~j.failed))
             /\ Finish(t)
          \/ /\ j.kind \in Reader /\ j.restore
             /\ chan' = PostRestore(Post(chan, Msg(j.kind, j.seq, j.cur, j.from, j.from # None)), j)
             /\ IF left = {}
                THEN Finish(t)
                ELSE Goto(t, "waiting") /\ job' = [job EXCEPT ![t] =
                        [j EXCEPT !.todo = left, !.cur = j.root, !.restore = FALSE, !.from = None]]
          \/ /\ j.kind \in Reader /\ ~j.restore
             /\ Finish(t) /\ UNCHANGED chan
    /\ UNCHANGED <<disk, lock, genProfile, raced, strandedBy>>
    /\ RestUnchanged

\* spawn_after_action's reads, after the lock was released (or never taken); a
\* failed restore is reported last.
AfterRead == [status |-> "clusters", clusters |-> "probing"]

Refresh(t) ==
    /\ pc[t] \in {"status", "clusters", "probing"}
    /\ IF job[t].from = None
       THEN job' = [job EXCEPT ![t].from = disk] /\ UNCHANGED <<pc, chan>>
       ELSE IF pc[t] = "probing"
       THEN /\ \E ok \in ProbeAnswers(job[t].from) :
                  chan' = PostRestore(Post(chan, Msg("probe", job[t].gen, None, job[t].from, ok)), job[t])
            /\ Finish(t)
       ELSE /\ chan' = Post(chan, Msg(pc[t], job[t].gen, None, job[t].from, TRUE))
            /\ Goto(t, AfterRead[pc[t]])
            /\ job' = [job EXCEPT ![t].from = None]
    /\ UNCHANGED <<disk, lock, genProfile, raced, strandedBy>>
    /\ RestUnchanged

ThreadStep(t) ==
    \/ Acquire(t) \/ Check(t) \/ Select(t) \/ List(t) \/ Restore(t)
    \/ Switch(t) \/ Publish(t) \/ Unlock(t) \/ Send(t) \/ Refresh(t)

-----------------------------------------------------------------------------
(* The pool: reads without the lock; a prefetch of an old batch is dropped. *)

PoolRead(r) ==
    /\ r.from = None
    /\ reads' = (reads \ {r}) \cup
           IF r.kind = "prefetch" /\ r.seq # prefetchSeq THEN {} ELSE {[r EXCEPT !.from = disk]}
    /\ UNCHANGED chan

PoolSend(r) ==
    /\ r.from # None
    /\ reads' = reads \ {r}
    /\ \E ok \in IF r.kind = "probe" THEN ProbeAnswers(r.from) ELSE {TRUE} :
          chan' = Post(chan, Msg(r.kind, r.seq, r.label, r.from, ok))

PoolStep(r) ==
    /\ PoolRead(r) \/ PoolSend(r)
    /\ UNCHANGED <<disk, lock, genProfile, tabReq, prefetchSeq, threads, view, session, hand,
                   acts, history>>

-----------------------------------------------------------------------------
\* The program starts on some proxy's root and runs bootstrap.
Init ==
    /\ disk \in {RootOf(p) : p \in Proxy}
    /\ job = [t \in Thread |-> NoJob]
    /\ pc = [t \in Thread |-> "idle"]
    /\ lock = None
    /\ genProfile = 0 /\ profileGen = 0 /\ tabReq = 0 /\ prefetchSeq = 0
    /\ reads = Aux({"status", "clusters", "probe"}, 0)
    /\ chan = <<>>
    /\ selected = None /\ profile = None /\ prefetchCluster = None
    /\ adminAllowed = FALSE /\ adminProbed = FALSE
    /\ adminTab = FALSE /\ agg = FALSE
    /\ switching = None /\ pendingRestore = None
    /\ terminal = "ui" /\ login = None
    /\ acts = 0
    /\ raced = FALSE /\ foreign = FALSE /\ strandedBy = None

User ==
    \/ \E t \in Thread :
          \/ \E isAdmin \in BOOLEAN : ShowTab(t, isAdmin)
          \/ ShowAllClusters(t)
          \/ \E c \in Cluster : SelectScopedCluster(t, c)
          \/ \E p \in Proxy : SwitchProfile(t, p)
    \/ RetryClusters
    \/ \E p \in Proxy : ProfileLogin(p)
    \/ \E p \in Proxy : FormLogin(p)
    \/ \E c \in Cluster : LeafLogin(c)

UIStep == TakeDeferred \/ LoginEnds \/ \E t \in Thread : AfterAction(t) \/ Apply(t)

Pool == \E r \in reads : PoolStep(r)

\* Everything that was started has ended.
Settled ==
    /\ terminal = "ui" /\ reads = {} /\ chan = <<>>
    /\ \A t \in Thread : pc[t] = "idle"

\* The user has stopped acting.
Quiet == acts = MaxActs /\ Settled /\ UNCHANGED vars

Next == User \/ UIStep \/ Pool \/ (\E t \in Thread : ThreadStep(t)) \/ Quiet

\* A thread's tsh commands end (run_with_timeout bounds them), the event loop
\* keeps draining, the pool keeps running, and the user ends a login at last.
Fairness ==
    /\ WF_vars(UIStep)
    /\ WF_vars(Pool)
    /\ \A t \in Thread : WF_vars(ThreadStep(t))

Spec == Init /\ [][Next]_vars /\ Fairness

-----------------------------------------------------------------------------
TypeOK ==
    /\ disk \in Cluster
    /\ lock \in Thread \cup {None}
    /\ genProfile \in Nat /\ profileGen \in Nat /\ tabReq \in Nat /\ prefetchSeq \in Nat
    /\ reads \subseteq Read
    /\ chan \in Seq(Message)
    /\ pc \in [Thread -> PC]
    /\ job \in [Thread -> Job]
    /\ selected \in Cluster \cup {None} /\ profile \in Cluster \cup {None}
    /\ prefetchCluster \in Cluster \cup {None}
    /\ adminAllowed \in BOOLEAN /\ adminProbed \in BOOLEAN
    /\ adminTab \in BOOLEAN /\ agg \in BOOLEAN
    /\ switching \in Proxy \cup {None}
    /\ pendingRestore \in Cluster \cup {None}
    /\ terminal \in {"ui", "deferred", "profile", "form", "returned"}
    /\ login \in Cluster \cup {None}
    /\ acts \in 0 .. MaxActs
    /\ raced \in BOOLEAN /\ foreign \in BOOLEAN
    /\ strandedBy \in {None, "restore", "login"}

Elements(q) == {q[i] : i \in 1 .. Len(q)}

\* A thread between its check and its unlock only ever selects clusters of the
\* proxy the profile is on, and restores that proxy's root: work queued before
\* a switch is stopped by its generation.  A login that moved the profile
\* while the lock was held, or without a new generation, voids the promise.
WorkKeepsToItsProxy ==
    ~raced /\ ~foreign =>
        \A t \in Thread :
            pc[t] \in {"selecting", "listing", "restoring"} => job[t].root.proxy = disk.proxy

\* "another cluster's rows under this label" (dispatch.rs): a listing read under
\* the lock that is shown for a cluster was read from that cluster.
LockedRowsAreTheirClusters ==
    ~raced /\ ~foreign =>
        \A m \in Elements(chan) : m.kind \in Reader /\ m.ok => m.from = m.label

\* "the active profile is then only ever on a leaf inside this critical
\* section": with the lock free the profile is on a root, unless the last
\* restore failed or the user logged in to the leaf.
LeafOnlyUnderLock ==
    lock = None /\ disk.name # Root => strandedBy # None

\* The topology the UI dispatches from belongs to the proxy the profile is on,
\* whatever reads of another proxy were in flight: with one exception, the time
\* from a background switch to the moment the UI learns of it.
TopologyIsOfThisProxy ==
    ~foreign /\ selected # None /\ switching = None =>
        selected.proxy = disk.proxy

\* The generation the workers check is the UI's own, or the one after it while
\* the background switch that published it is not yet applied.
GenerationsAgree ==
    genProfile # profileGen => genProfile = profileGen + 1 /\ switching # None

\* Both: what the workers check and what the UI dispatches from follow the switch.
ViewFollowsTheSwitch == GenerationsAgree /\ TopologyIsOfThisProxy

\* A profile switch the user asked for is answered, and the next one accepted.
SwitchIsAnswered == switching # None ~> switching = None

\* No thread keeps the lock, or waits for it, for ever.
ThreadsEnd == \A t \in Thread : pc[t] # "idle" ~> pc[t] = "idle"

\* "So the old profile can't leak into the new" (mod.rs, App::profile_gen): once
\* nothing is running, queued or in flight, the header and the topology on screen
\* are those of the proxy the profile is on, however switches, logins and their
\* late results were interleaved.
SettledViewIsOfThisProxy ==
    Settled => /\ profile # None => profile.proxy = disk.proxy
               /\ selected # None => selected.proxy = disk.proxy
=============================================================================
