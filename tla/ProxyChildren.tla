---------------------------- MODULE ProxyChildren ----------------------------
(***************************************************************************)
(* Background proxies and forwards (proxy.rs), from the launch on a worker *)
(* thread to the exit of the TUI (main.rs): every `tsh proxy` / `tsh ssh -L` *)
(* child, the processes it forks, the registry that lists it, the local    *)
(* port it has to listen on, and whoever owns its handle.                  *)
(*                                                                         *)
(* A launch starts one child per attempt.  stop_child is three steps, for  *)
(* the quitting TUI may run, or end, between them: unlist the child, kill  *)
(* its process group, reap it.  The registry's other operations hold its   *)
(* lock and are one step each.                                             *)
(***************************************************************************)
EXTENDS Naturals, FiniteSets

CONSTANTS
    Launch,         \* the launches the user asks for
    Port,           \* local ports
    PORT_RETRIES,   \* attempts of a launch that picks its own port (3)
    Other, None     \* some other program; nobody

ASSUME ProxyAssumption ==
    /\ PORT_RETRIES \in Nat \ {0}
    /\ Port # {} /\ IsFiniteSet(Launch)
    /\ {Other, None} \cap (Launch \X (1 .. PORT_RETRIES)) = {}
    /\ Other # None /\ None \notin Port

\* app: open_app and open_db on a port of their own; port: open_app on the port
\* asked for; kube: start_kube_proxy; forward and tunnel: start_ssh_forward bound
\* to localhost, or not.
Kind == {"app", "port", "kube", "forward", "tunnel"}
Retries == {"app", "kube"}      \* retried on a fresh port when the port was lost
Listens == {"app", "port", "forward"}   \* ready once something answers on the port

Child == Launch \X (1 .. PORT_RETRIES)

VARIABLES
    kind, at, att, port,    \* a launch: its kind, who has it and where, its attempt and port
    step,                   \* stop_child running on its child
    lost,                   \* the attempt that failed had lost its port
    proc, helper, printed,  \* children: the process, one it forked, its kubeconfig line
    recycled,               \* children whose pid another program has taken
    listener,               \* who listens on a port
    listed, closed,         \* ChildRegistry
    main,                   \* the UI thread
    stray                   \* history: children whose signal hit another program

launches == <<kind, at, att, port, step, lost>>
processes == <<proc, helper, printed, recycled, listener>>
registry == <<listed, closed>>
vars == <<launches, processes, registry, main, stray>>

Current(l) == <<l, att[l]>>
Alive(c) == proc[c] \in {"starting", "listening"}

\* The UI thread is in a stop_child of its own while it has handed one out; the
\* worker thread has the child while the launch waits for it.
OnWorker(l) == at[l] \in {"waiting", "answered"}
Stopping == \E l \in Launch : ~OnWorker(l) /\ step[l] # "no"
MainIs(where) == main = where /\ ~Stopping

\* The launch's thread, while the program runs.
Thread(l) == main # "exited" /\ step[l] = "no"

-----------------------------------------------------------------------------
(* The operating system and other programs.                                *)

Released(c) == [p \in Port |-> IF listener[p] = c THEN None ELSE listener[p]]

\* The child binds its port, or finds it taken and exits.
Bind(c) ==
    /\ proc[c] = "starting"
    /\ c[2] = att[c[1]]
    /\ LET p == port[c[1]]
       IN IF p = None \/ listener[p] = None
          THEN /\ proc' = [proc EXCEPT ![c] = "listening"]
               /\ listener' = IF p = None THEN listener ELSE [listener EXCEPT ![p] = c]
               /\ printed' = IF kind[c[1]] = "kube" THEN printed \cup {c} ELSE printed
          ELSE /\ proc' = [proc EXCEPT ![c] = "exited"]
               /\ UNCHANGED <<listener, printed>>
    /\ UNCHANGED <<launches, helper, recycled, registry, main, stray>>

\* The child ends on its own: refused, logged out, disconnected.
Exit(c) ==
    /\ Alive(c)
    /\ proc' = [proc EXCEPT ![c] = "exited"]
    /\ listener' = Released(c)
    /\ UNCHANGED <<launches, helper, printed, recycled, registry, main, stray>>

\* "tsh proxy may fork helper processes": they share the child's group, and may
\* outlive it.
Fork(c) ==
    /\ Alive(c) /\ ~helper[c]
    /\ helper' = [helper EXCEPT ![c] = TRUE]
    /\ UNCHANGED <<launches, proc, printed, recycled, listener, registry, main, stray>>

HelperExits(c) ==
    /\ helper[c]
    /\ helper' = [helper EXCEPT ![c] = FALSE]
    /\ UNCHANGED <<launches, proc, printed, recycled, listener, registry, main, stray>>

\* A pid is free once its process is reaped and no process is left in its group.
Recycle(c) ==
    /\ proc[c] = "reaped" /\ ~helper[c]
    /\ recycled' = recycled \cup {c}
    /\ UNCHANGED <<launches, proc, helper, printed, listener, registry, main, stray>>

\* Another program takes a free port, or gives it back.
Squat(p) ==
    /\ listener[p] \in {None, Other}
    /\ listener' = [listener EXCEPT ![p] = IF listener[p] = None THEN Other ELSE None]
    /\ UNCHANGED <<launches, proc, helper, printed, recycled, registry, main, stray>>

\* SIGKILL to the groups led by the pids of a set of children.
KillGroups(cs) ==
    /\ proc' = [c \in Child |-> IF c \in cs /\ Alive(c) THEN "exited" ELSE proc[c]]
    /\ helper' = [c \in Child |-> helper[c] /\ c \notin cs]
    /\ listener' = [p \in Port |-> IF listener[p] \in cs THEN None ELSE listener[p]]
    /\ stray' = stray \cup (cs \cap recycled)

-----------------------------------------------------------------------------
(* A launch, on its worker thread.                                         *)

\* launch_in_background, from a key press.
Start(l) ==
    /\ MainIs("loop")
    /\ at[l] = "idle"
    /\ kind' \in {[kind EXCEPT ![l] = k] : k \in Kind}
    /\ at' = [at EXCEPT ![l] = "port"]
    /\ UNCHANGED <<att, port, step, lost, processes, registry, main, stray>>

\* The result is sent to the event loop; an error carries no child.
Answered(l, ok) == at' = [at EXCEPT ![l] = IF ok THEN "ready" ELSE "failed"]

\* free_port, or port_is_free for the port the user asked for; both may find none
\* to be had.  A tunnel has none that matters.
PickPort(l) ==
    /\ Thread(l) /\ at[l] = "port"
    /\ \/ /\ kind[l] = "tunnel"
          /\ at' = [at EXCEPT ![l] = "spawn"] /\ UNCHANGED port
       \/ /\ kind[l] # "tunnel"
          /\ \E p \in Port :
                /\ listener[p] = None
                /\ port' = [port EXCEPT ![l] = p]
                /\ at' = [at EXCEPT ![l] = "spawn"]
       \/ /\ kind[l] # "tunnel"
          /\ \E p \in Port : listener[p] # None
          /\ kind[l] \in Retries => \A p \in Port : listener[p] # None
          /\ Answered(l, FALSE) /\ UNCHANGED port
    /\ UNCHANGED <<kind, att, step, lost, processes, registry, main, stray>>

\* Mutant: a launch that is still retrying while the TUI quits is not refused.
Spawn_NotRefused(l) ==
    /\ Thread(l) /\ at[l] = "spawn"
    /\ proc' = [proc EXCEPT ![Current(l)] = "starting"]
    /\ listed' = listed \cup {Current(l)}
    /\ at' = [at EXCEPT ![l] = "waiting"]
    /\ UNCHANGED <<kind, att, port, step, lost, helper, printed, recycled, listener, closed,
                   main, stray>>

\* ChildRegistry::spawn; the program may also be missing.
Spawn(l) ==
    /\ Thread(l) /\ at[l] = "spawn"
    /\ \/ /\ Answered(l, FALSE)
          /\ UNCHANGED <<proc, listed>>
       \/ /\ ~closed
          /\ proc' = [proc EXCEPT ![Current(l)] = "starting"]
          /\ listed' = listed \cup {Current(l)}
          /\ at' = [at EXCEPT ![l] = "waiting"]
    /\ UNCHANGED <<kind, att, port, step, lost, helper, printed, recycled, listener, closed,
                   main, stray>>

\* The attempt has failed: stop_child comes next.
GiveUp(l, portLost) ==
    /\ step' = [step EXCEPT ![l] = "unlist"]
    /\ lost' = [lost EXCEPT ![l] = portLost]
    /\ UNCHANGED <<kind, at, att, port>>

\* try_wait on a child that has exited also reaps it.
TryWait(l) ==
    IF proc[Current(l)] = "exited" THEN proc' = [proc EXCEPT ![Current(l)] = "reaped"]
    ELSE UNCHANGED proc
HasExited(l) == proc[Current(l)] \in {"exited", "reaped"}

\* A round of await_listen: the child, then a connection to the port.
Probe(l) ==
    /\ Thread(l) /\ at[l] = "waiting" /\ kind[l] \in Listens
    /\ \/ HasExited(l) /\ GiveUp(l, TRUE)
       \/ /\ ~HasExited(l) /\ listener[port[l]] # None
          /\ at' = [at EXCEPT ![l] = "answered"]
          /\ UNCHANGED <<kind, att, port, step, lost>>
    /\ TryWait(l)
    /\ UNCHANGED <<helper, printed, recycled, listener, registry, main, stray>>

\* Something answered: it only counts while the child is running.
Recheck(l) ==
    /\ Thread(l) /\ at[l] = "answered"
    /\ IF HasExited(l)
       THEN GiveUp(l, TRUE)
       ELSE Answered(l, TRUE) /\ UNCHANGED <<kind, att, port, step, lost>>
    /\ TryWait(l)
    /\ UNCHANGED <<helper, printed, recycled, listener, registry, main, stray>>

\* kube_proxy_attempt: the kubeconfig line came.
KubeReady(l) ==
    /\ Thread(l) /\ at[l] = "waiting" /\ kind[l] = "kube"
    /\ Current(l) \in printed
    /\ Answered(l, TRUE)
    /\ UNCHANGED <<kind, att, port, step, lost, processes, registry, main, stray>>

\* It did not come: both streams closed, or eight seconds passed.
KubeSilent(l) ==
    /\ Thread(l) /\ at[l] = "waiting" /\ kind[l] = "kube"
    /\ Current(l) \notin printed
    /\ GiveUp(l, HasExited(l))
    /\ TryWait(l)
    /\ UNCHANGED <<helper, printed, recycled, listener, registry, main, stray>>

\* start_forward without a port to probe: a child that survives two seconds is up.
Grace(l) ==
    /\ Thread(l) /\ at[l] = "waiting" /\ kind[l] = "tunnel"
    /\ IF HasExited(l) THEN GiveUp(l, TRUE)
       ELSE Answered(l, TRUE) /\ UNCHANGED <<kind, att, port, step, lost>>
    /\ TryWait(l)
    /\ UNCHANGED <<helper, printed, recycled, listener, registry, main, stray>>

\* await_listen's thirty rounds are over and the child still runs.
TimeOut(l) ==
    /\ Thread(l) /\ at[l] = "waiting" /\ kind[l] \in Listens
    /\ ~HasExited(l)
    /\ GiveUp(l, FALSE)
    /\ UNCHANGED <<processes, registry, main, stray>>

Wait(l) == Probe(l) \/ Recheck(l) \/ KubeReady(l) \/ KubeSilent(l) \/ Grace(l) \/ TimeOut(l)

-----------------------------------------------------------------------------
(* stop_child: on the worker thread while at[l] is "waiting" or "answered", on *)
(* the UI thread once the launch is one of the App's or on its way there.   *)

\* Mutant: the child is reaped before its group is killed.
Unlist_Reaps(l) ==
    /\ main # "exited" /\ step[l] = "unlist"
    /\ listed' = listed \ {Current(l)}
    /\ proc' = [proc EXCEPT ![Current(l)] = "reaped"]
    /\ listener' = Released(Current(l))
    /\ step' = [step EXCEPT ![l] = "kill"]
    /\ UNCHANGED <<kind, at, att, port, lost, helper, printed, recycled, closed, main, stray>>

\* Mutant: the child is asked nothing, only waited for.
Unlist_NoKill(l) ==
    /\ main # "exited" /\ step[l] = "unlist"
    /\ listed' = listed \ {Current(l)}
    /\ step' = [step EXCEPT ![l] = "reap"]
    /\ UNCHANGED <<kind, at, att, port, lost, processes, closed, main, stray>>

Unlist(l) ==
    /\ main # "exited" /\ step[l] = "unlist"
    /\ listed' = listed \ {Current(l)}
    /\ step' = [step EXCEPT ![l] = "kill"]
    /\ UNCHANGED <<kind, at, att, port, lost, processes, closed, main, stray>>

\* Mutant: only the child itself is killed.
KillGroup_ChildOnly(l) ==
    LET c == Current(l)
    IN /\ main # "exited" /\ step[l] = "kill"
       /\ proc' = [proc EXCEPT ![c] = IF Alive(c) THEN "exited" ELSE @]
       /\ listener' = Released(c)
       /\ step' = [step EXCEPT ![l] = "reap"]
       /\ UNCHANGED <<kind, at, att, port, lost, helper, printed, recycled, registry, main, stray>>

KillGroup(l) ==
    /\ main # "exited" /\ step[l] = "kill"
    /\ KillGroups({Current(l)})
    /\ step' = [step EXCEPT ![l] = "reap"]
    /\ UNCHANGED <<kind, at, att, port, lost, printed, recycled, registry, main>>

\* A lost port is retried on a fresh one, while attempts are left.
TriesAgain(l) == OnWorker(l) /\ lost[l] /\ kind[l] \in Retries /\ att[l] < PORT_RETRIES

\* Mutant: a lost race is not counted as an attempt.
Reap_Uncounted(l) ==
    /\ main # "exited" /\ step[l] = "reap"
    /\ ~Alive(Current(l))
    /\ proc' = [proc EXCEPT ![Current(l)] = "reaped"]
    /\ step' = [step EXCEPT ![l] = "no"]
    /\ lost' = [lost EXCEPT ![l] = FALSE]
    /\ \/ TriesAgain(l) /\ at' = [at EXCEPT ![l] = "port"]
       \/ ~TriesAgain(l) /\ OnWorker(l) /\ Answered(l, FALSE)
       \/ ~OnWorker(l) /\ at' = [at EXCEPT ![l] = "done"]
    /\ UNCHANGED <<kind, att, port, helper, printed, recycled, listener, registry, main, stray>>

\* The child, which the kill has ended, is reaped, and stop_child returns: to the
\* launch's next attempt, its error, or the UI thread.
Reap(l) ==
    /\ main # "exited" /\ step[l] = "reap"
    /\ ~Alive(Current(l))
    /\ proc' = [proc EXCEPT ![Current(l)] = "reaped"]
    /\ step' = [step EXCEPT ![l] = "no"]
    /\ lost' = [lost EXCEPT ![l] = FALSE]
    /\ \/ /\ TriesAgain(l)
          /\ att' = [att EXCEPT ![l] = @ + 1]
          /\ at' = [at EXCEPT ![l] = "port"]
       \/ /\ ~TriesAgain(l) /\ OnWorker(l)
          /\ Answered(l, FALSE) /\ UNCHANGED att
       \/ /\ ~OnWorker(l)
          /\ at' = [at EXCEPT ![l] = "done"] /\ UNCHANGED att
    /\ UNCHANGED <<kind, port, helper, printed, recycled, listener, registry, main, stray>>

Stop(l) == Unlist(l) \/ KillGroup(l) \/ Reap(l)

-----------------------------------------------------------------------------
(* The UI thread.                                                          *)

BeginStop(ls) == step' = [l \in Launch |-> IF l \in ls THEN "unlist" ELSE step[l]]

Attached == {l \in Launch : at[l] = "attached"}
Proxies == {l \in Attached : kind[l] \in {"app", "port"}}

\* Mutant: the handle of the proxy replaced is dropped without stopping it.
Attach_DropOld(l) ==
    /\ MainIs("loop")
    /\ at[l] = "ready" /\ kind[l] # "kube"
    /\ at' = [m \in Launch |->
                IF m = l THEN "attached"
                ELSE IF m \in Proxies /\ kind[l] \in {"app", "port"} THEN "done" ELSE at[m]]
    /\ UNCHANGED <<kind, att, port, step, lost, processes, registry, main, stray>>

\* handle_proxy_event: attach_forward, or attach_proxy, which stops the proxy it
\* replaces (AppProxy's drop).
Attach(l) ==
    /\ MainIs("loop")
    /\ at[l] = "ready" /\ kind[l] # "kube"
    /\ at' = [at EXCEPT ![l] = "attached"]
    /\ BeginStop(IF kind[l] \in {"app", "port"} THEN Proxies ELSE {})
    /\ UNCHANGED <<kind, att, port, lost, processes, registry, main, stray>>

\* handle_proxy_event: the kube shell has the terminal, ...
OpenShell(l) ==
    /\ MainIs("loop")
    /\ at[l] = "ready" /\ kind[l] = "kube"
    /\ at' = [at EXCEPT ![l] = "shell"]
    /\ main' = "shell"
    /\ UNCHANGED <<kind, att, port, step, lost, processes, registry, stray>>

\* ... and its end stops the proxy.
ShellEnds(l) ==
    /\ main = "shell" /\ at[l] = "shell"
    /\ main' = "loop"
    /\ BeginStop({l})
    /\ UNCHANGED <<kind, at, att, port, lost, processes, registry, stray>>

\* The user stops a proxy or a forward.
StopAttached(l) ==
    /\ MainIs("loop")
    /\ at[l] = "attached"
    /\ BeginStop({l})
    /\ UNCHANGED <<kind, at, att, port, lost, processes, registry, main, stray>>

\* An error is shown, or discarded on the way out.
TakeError(l) ==
    /\ MainIs("loop") \/ MainIs("draining")
    /\ at[l] = "failed"
    /\ at' = [at EXCEPT ![l] = "done"]
    /\ UNCHANGED <<kind, att, port, step, lost, processes, registry, main, stray>>

\* event_loop returns: a key, a signal, an error.  Then ChildRegistry::shutdown.
Quit ==
    /\ MainIs("loop")
    /\ main' = "draining"
    /\ closed' = TRUE
    /\ listed' = {}
    /\ KillGroups(listed)
    /\ UNCHANGED <<launches, printed, recycled>>

\* discard_proxy_event.
Discard(l) ==
    /\ MainIs("draining")
    /\ at[l] = "ready"
    /\ BeginStop({l})
    /\ UNCHANGED <<kind, at, att, port, lost, processes, registry, main, stray>>

\* App's drop stops what is attached, one by one.
DropApp ==
    /\ MainIs("draining")
    /\ \A l \in Launch : at[l] \notin {"ready", "failed"}
    /\ main' = "dropping"
    /\ UNCHANGED <<launches, processes, registry, stray>>

DropAttached(l) ==
    /\ MainIs("dropping")
    /\ at[l] = "attached"
    /\ BeginStop({l})
    /\ UNCHANGED <<kind, at, att, port, lost, processes, registry, main, stray>>

\* The process ends; its threads go with it.
ExitProcess ==
    /\ MainIs("dropping")
    /\ Attached = {}
    /\ main' = "exited"
    /\ UNCHANGED <<launches, processes, registry, stray>>

-----------------------------------------------------------------------------
Init ==
    /\ kind = [l \in Launch |-> "app"]
    /\ at = [l \in Launch |-> "idle"]
    /\ att = [l \in Launch |-> 1]
    /\ port = [l \in Launch |-> None]
    /\ step = [l \in Launch |-> "no"]
    /\ lost = [l \in Launch |-> FALSE]
    /\ proc = [c \in Child |-> "unborn"]
    /\ helper = [c \in Child |-> FALSE]
    /\ printed = {} /\ recycled = {}
    /\ listener = [p \in Port |-> None]
    /\ listed = {} /\ closed = FALSE
    /\ main = "loop"
    /\ stray = {}

Environment ==
    \/ \E c \in Child : Bind(c) \/ Exit(c) \/ Fork(c) \/ HelperExits(c) \/ Recycle(c)
    \/ \E p \in Port : Squat(p)

Worker(l) == PickPort(l) \/ Spawn(l) \/ Wait(l)

User(l) == Start(l) \/ StopAttached(l)
MainStep(l) ==
    Attach(l) \/ OpenShell(l) \/ TakeError(l) \/ Discard(l) \/ DropAttached(l)

\* The program is over, and so is everything it started.
Over == main = "exited" /\ UNCHANGED vars

Next ==
    \/ Environment
    \/ \E l \in Launch : Worker(l) \/ Stop(l) \/ User(l) \/ MainStep(l) \/ ShellEnds(l)
    \/ Quit \/ DropApp \/ ExitProcess
    \/ Over

\* While a thread of the program can run, one of them does, and every wait is
\* bounded.  The user, the children and other programs are free.
Program ==
    \/ \E l \in Launch : Worker(l) \/ Stop(l) \/ MainStep(l)
    \/ DropApp \/ ExitProcess
Fairness == WF_vars(Program)

Spec == Init /\ [][Next]_vars /\ Fairness

-----------------------------------------------------------------------------
TypeOK ==
    /\ kind \in [Launch -> Kind]
    /\ at \in [Launch -> {"idle", "port", "spawn", "waiting", "answered", "failed", "ready",
                          "attached", "shell", "done"}]
    /\ att \in [Launch -> 1 .. PORT_RETRIES]
    /\ port \in [Launch -> Port \cup {None}]
    /\ step \in [Launch -> {"no", "unlist", "kill", "reap"}]
    /\ lost \in [Launch -> BOOLEAN]
    /\ proc \in [Child -> {"unborn", "starting", "listening", "exited", "reaped"}]
    /\ helper \in [Child -> BOOLEAN]
    /\ printed \subseteq Child /\ recycled \subseteq Child /\ listed \subseteq Child
    /\ listener \in [Port -> Child \cup {Other, None}]
    /\ closed \in BOOLEAN
    /\ main \in {"loop", "shell", "draining", "dropping", "exited"}
    /\ stray \subseteq Child

Running(c) == Alive(c) \/ helper[c]

\* A child somebody still has to stop: its handle is with its thread, on its way
\* to the event loop, or in the App.
Owned(c) ==
    c[2] = att[c[1]] /\ at[c[1]] \in {"waiting", "answered", "ready", "attached", "shell"}

\* No process of ours runs without an owner of its handle: whatever path a launch
\* takes, and whoever replaces or stops it, nothing is left adrift.
NothingAdrift ==
    TypeOK /\ (main # "exited" => \A c \in Child : Running(c) => Owned(c))

\* The registry reaches every child somebody has not begun to stop, so that the
\* shutdown kills it "including those owned by worker threads mid start-up".
ShutdownReachesAll ==
    ~closed => \A c \in Child : Running(c) => c \in listed \/ step[c[1]] # "no"

\* Nothing outlives the TUI ("so nothing is orphaned"), but for the group of a
\* child whose thread had unlisted it, and not yet killed it, when the process
\* ended.
NothingOutlivesTheTui ==
    main = "exited" =>
        \A c \in Child : Running(c) => OnWorker(c[1]) /\ step[c[1]] = "kill" /\ Owned(c)

\* "A pid ... cannot have been recycled for an unrelated process when the shutdown
\* signals it": while its thread has not seen it exit, and begun to stop it, what is
\* signalled is the child.
StraysHadExited ==
    [][\A c \in stray' \ stray : lost[c[1]] /\ step[c[1]] \in {"unlist", "kill"}]_vars

\* Every launch the user asked for is answered, while the TUI runs.
LaunchIsAnswered ==
    \A l \in Launch :
        at[l] = "port" ~> at[l] \in {"ready", "failed", "attached", "shell", "done"}
                            \/ main \in {"dropping", "exited"}

\* A stop_child that began returns: whoever waits for the child in it, the worker
\* or the UI thread, is not stuck behind a child that would not end.
StopReturns ==
    \A l \in Launch : step[l] # "no" ~> step[l] = "no" \/ main = "exited"
=============================================================================
