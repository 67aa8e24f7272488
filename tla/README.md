# A TLA+ model of teleport-tui

`teleport-tui` puts a terminal UI over the Teleport command-line clients. It
never talks to Teleport itself: it runs `tsh` and `tctl`, parses what they print
and shows it in tables. Three facts make that hard. `tctl` has no cluster flag, so
listing the admin resources of a cluster means *moving the one shared `tsh`
profile* onto it and back. Everything slow runs elsewhere - on a pool of workers,
on threads of its own, in child processes - while the UI goes on and the user
switches tabs, clusters and profiles under the results. And the terminal itself is
lent to the commands the user starts, signals and all.

This directory models those parts, checks them with TLC on small instances, and
proves the most important of them with TLAPS for every instance.

## Inventory

| Part (under `crates/`) | State | Operations | Interacts with |
|---|---|---|---|
| Profile lock and threads (`tui/src/app/dispatch.rs`) | `profile_lock`, `Generations`, `~/.tsh` | `spawn_admin_scoped`, `spawn_admin_stream`, `spawn_after_action`, `spawn_profile_switch` | the UI by the result channel; `tsh login`, `tctl`; interactive logins |
| Worker pool (`dispatch.rs`) | `WorkQueue` (urgent, background, closed), its `Condvar`, `Generations` | `push`, `pop`, `close`, `is_stale`, `drain_jobs` | the UI thread, 2 to 8 workers |
| Session view (`app/update.rs`, `nav.rs`, `mod.rs`) | `App`: lists, `cache_key`, `agg`, `tab_req`, `prefetch_seq`, `profile_gen`, `loading`, ... | `apply_*`, `reload_active`, `prefetch_all`, `switch_tab`, `enter_profile`, `clear_session`, ... | the dispatcher; keys and timers |
| Table (`app/listings.rs`, `nav.rs`, `update.rs`) | rows, `visible`, the selection, the search | `recompute_visible`, `move_selection`, `reload_active`, `apply_tab`, `apply_agg_result`, ... | the session view; the keys |
| Modes, popups, forms, actions (`input.rs`, `actions.rs`, `forms.rs`) | `Mode`, the prompt buffer, the row a prompt carries, one-time secrets | one handler per mode, paste, wheel; the outcomes and jobs they ask for | the table; results that land between two keys |
| Command lines (`application/src/command.rs`, `use_case.rs`) | none | one builder per `tsh`/`tctl` command | actions; the adapters |
| Proxies and forwards (`proxy.rs`, `app/model.rs`, `main.rs`) | the child registry, the handles in `App`, events on their way | launches and retries, `stop_child`, `shutdown`, `attach_*` | `tsh` children and their process groups, local ports, the quitting UI |
| Event loop and handoff (`main.rs`, `ssh.rs`) | terminal mode and screen, the deferred outcome | `real_main`, `event_loop`, `handle_outcome`, `run_interactive`, `play_recording`, the guard, the panic hook | all of the above |
| Signals (`signals.rs`) | `TERMINATE`, `INTERRUPT`, the origin | `install`, `lost_since`, `clear_interrupt` | the event loop, `ssh.rs` |
| Settings file (`infrastructure/src/config.rs`) | `config.toml` | load, save | the settings form; the next start |
| Command runner (`infrastructure/src/process.rs`) | one child and its group, two readers, deadlines | `run_with_timeout`, `drain`, `kill_tree` | every job |
| Adapters, domain values, redaction, logging, rendering | stateless, or one file | | |

What makes each correct:

* **profile**: what is listed under a cluster's name was read from that cluster,
  on the proxy it was asked for; the profile is back on root when nobody works
  on it; a switch is answered; no result of the old proxy is shown under the new.
* **pool**: no lost wake-up, no warm-up before a listing the user waits for, no
  job dropped whose answer would still be used, and an end when it is closed.
* **session**: rows, cache markers and cached slices are of the cluster and the
  profile they are shown under; a finished fan-out is complete; the spinner never
  turns for nothing.
* **keys**: a command names the row that was highlighted when it was asked for,
  and that row's own cluster; text goes to the prompt it was typed in; pasting and
  scrolling never act.
* **children**: no child without somebody who will stop it; none that outlives
  the program; no signal to a process that is not ours.
* **program**: the TUI draws in its own terminal mode, a Ctrl-C for a command is
  not one for the TUI, the terminal is restored at the end, a termination always
  ends the program, and the settings file keeps what nobody edited.
* **runner**: an answer in bounded time whatever the command and its helpers do; a
  success is the command's own and whole; nothing of the group is left.

The hazards, each at its line and with the properties that would catch it, are in
`PROJECT.json`.

## Modules

| Module | What it is |
|---|---|
| `ActiveProfile` | the profile on disk, its lock, the dedicated threads, the logins and the UI that dispatches and applies |
| `WorkQueue` | the pool, its condition variable, the counters and the atomics |
| `JobService` | what the pool promises (abstract); `WorkQueue` implements it |
| `Session` | `App`'s lists, caches, request numbers and the handlers that change them |
| `Screen` | the table: rows, filter, selection, and the reloads under them, as operators |
| `Modes` | the keyboard: every mode's handler, the commands it asks for, and what lands between two keys; extends `Screen` |
| `ProxyChildren` | launches, children, registry, ports, the quitting program |
| `Program` | the program from its start to its end: terminal, hand-offs, signals, settings file, restarts |
| `CommandRunner` | one `run_with_timeout`: the command, its helpers, the pipes, the readers, the deadlines |
| `BoundedCommand` | what a run promises its caller (abstract); `CommandRunner` implements it |
| `*_proofs` | inductive invariants and theorems of the module they extend |
| `MC*` | the instances for TLC |

The modules fit together by what they abstract. `ActiveProfile` follows *where the
profile is* and leaves rows out; `Session` follows *where rows come from* and takes
from `ActiveProfile` that a listing reads the cluster it selected, under the
generation it was sent with or the next one while a switch is published
(`ReadUnder`); `Modes` follows *what the user does with rows*, and lets a load bring
any small listing at any time, which is more than `Session` allows. `WorkQueue`
follows the path of one job, and the three others take from it that a job is
answered at most once, in any order, and that only a superseded one is never run;
`CommandRunner` is why a job ends at all. `Program` is the frame: its `Tick`,
`Events` and `poll` steps are where the handlers of the others run, and its
`shutdown` is the one `ProxyChildren` takes apart.

### ActiveProfile

State: `disk` is the proxy and cluster `~/.tsh` points at; `lock`, `genProfile`,
`tabReq`, `prefetchSeq` are `Dispatcher::profile_lock` and `Generations`; `reads`
are the pool's jobs that read the profile without the lock, `chan` the result
channel; `pc` and `job` are the dedicated threads. The rest is the UI's.

A thread's critical section is the code's, call by call: `Acquire`, `Check` (the
generation, and the tab request of a scoped listing), `Select` (`tsh login
<cluster>`), `List` (`tctl`), `Restore` (`restore_root`), `Unlock`, and then
`Send`; a switch takes `Switch` and `Publish` under the same lock. Any other
thread, the UI, or a login may run between two of them. `Selected` and
`ProbeAnswers` say what `tsh` and `tctl` do, and are external. `LoginEnds` is an
interactive login, which moves the profile *without* the lock: that is what the
code does, and `raced` remembers it for the properties that need the lock.
Only interactive commands that log in are actions; the others re-read the status.

### WorkQueue

One step is what runs under the queue's mutex; `notify_one` and `notify_all` come
after the guard is dropped and are steps of their own, and so is the UI's store of
a counter in the atomic the workers compare with. A waiter may wake spuriously.
`Service` maps it to `JobService`: asked are the jobs queued, held or on the
channel; the latest requests are the UI's own counters.

### Session

`app` is `App` as a record, and each handler an operator from `App` to `App`,
composed as the code composes its calls (`ReloadActive` in `SwitchTab` in ...). A
listing is only *where it was read*: rows of a cluster under a generation, nothing,
or an error row. Results of `app.flight` land in any order (`ApplyListing`,
`ApplyClusters`), or were never run (`Skip`). The single- and multi-threaded halves
of `pending` count down saturating, as the code's do. Two histories are excluded
where a property says so, because the code does not rule them out: a failed load
that cleared another tab than its own (`misplaced`), and a topology read in the
all-clusters view that moved the selection (`reselected`).

### Screen and Modes

`Screen` holds the half of `App` a key reads: the active tab's listing, the slices
of the all-clusters view, `visible` (indices into either) and the selection, with
the handlers that change them. `cached` maps a cluster to its slice of the active
tab, for the clusters that have one, and `Ascending` lists the indices a filter
keeps. A row has the cluster the screen names for it and the one it was read from
(`of`).

In `Modes` a handler is an operator giving *the set of results it may have*: the
`App` it leaves and the command it asks for. `OnKey` dispatches on the mode exactly
as `on_key` does. The prompt buffer is shared by the search and every single-line
prompt, so its content is only where it was typed: nowhere, here, or in a mode
since left. `drawn` is the row highlighted when the screen was last drawn and
`asked` the one drawn when the flow that leads to the present command began; the
properties compare the command with it. Paste and wheel replay keys (`Replay`) and
drop what they ask of the event loop, as `on_paste` and `on_scroll` do.

### ProxyChildren

`at[l]` says who has a launch: its worker thread (`port`, `spawn`, `waiting`,
`answered`), the channel (`ready`, `failed`), the `App` (`attached`), the shell, or
nobody (`done`); a child is a launch and an attempt. `stop_child` is three steps -
`Unlist`, `KillGroup`, `Reap` - for the program may quit, or end, between them;
the registry's other operations hold its lock. The environment binds ports, exits,
forks helpers that outlive their leader, takes free ports and recycles free pids.

### Program

`pc` is the main thread, from `LoadConfig` to `DropApp`; `run_interactive` and
`play_recording` are taken apart call by call, since each call may fail and return
early. The terminal is its mode (`raw`, with the mode crossterm saved) and its
`screen` (alternate screen, mouse and paste capture, always changed together). A
command that has the terminal changes the mode as it likes. `Deliver` and
`Interrupt` are the signal handlers as `install` registers them, in their order.
`SaveRead`, `SaveTruncate` and `SaveWrite` are a save; a signal's default action or
its repetition may end the program between two of them, and `Restart` starts it
again on the file it left. Histories (`broken`, `abandoned`, `keptRaw`,
`notEntered`) name the failures after which the code gives up a promise; the
properties say which.

### CommandRunner

A process is the command or a helper it forked, which inherits its pipes and its
group, may leave the group, and may keep a pipe open for ever. `pipe` counts what is
written and unread, up to the size of the buffer, so a command may block on a full
pipe. The runner polls, receives `out` and then `err` with the time that is left,
kills the group and receives again. A tick is much longer than a poll: the clock
waits for steps that are due, which is what "bounded" means here. `Promise` maps it
to `BoundedCommand`.

## Runs

| Run | Instance | What it shows |
|---|---|---|
| `active_profile` | 2 proxies x 2 clusters, 2 threads, 3 user actions | `LockedRowsAreTheirClusters`, `WorkKeepsToItsProxy`, `LeafOnlyUnderLock`, `ViewFollowsTheSwitch` (the workers' generation and the UI's topology follow a switch) |
| `active_profile_settled` | same, 1 action, every kind of result | `SettledViewIsOfThisProxy` |
| `active_profile_live` | same, 2 actions | `SwitchIsAnswered`, `ThreadsEnd` |
| `work_queue` | 2 workers, 3 jobs, 1 newer request | `NotOvertaken`, `NoJobLeftWaiting`, the refinement `ServiceSpec`, `EveryJobEnds`, `WorkersExit` |
| `session` | 1 scoped and 1 admin tab, 2 clusters, 3 actions | `ScopedCacheIsOfItsCluster`, `AggregateIsComplete`, `ScopedRowsAreTheirClusters`, `NothingOfAnOlderProfile`, `LoadingIsAnswered` |
| `proxy_children` | 2 launches of any kind, 2 attempts, 1 port | `NothingAdrift`, `ShutdownReachesAll`, `NothingOutlivesTheTui`, `StraysHadExited` |
| `proxy_children_live` | 1 launch, 3 attempts, 2 ports | `LaunchIsAnswered`, `StopReturns` |
| `command_runner` | 2 helpers, buffers of 1, timeouts 3, 2 and 1 | `OkIsWhole`, `NothingLeftInTheGroup`, `OpenOnlyIfEscaped`, `ExitedInTimeIsOk`, the refinement `PromiseSpec` |
| `program` | 2 starts, 2 hand-offs in each, 1 fault | `TuiIsItself`, `TerminalRestored`, `HardExitOnlyRepeated`, `NoChildLeft`, `KeysSurvive`, `TerminateEnds` |
| `modes` | 8 tabs, 2 clusters, listings of one row out of two names | `CommandsNameTheRowDrawn`, `CommandsFitTheirRow`, `TextStaysWithItsPrompt`, `RestoreFollowsALeafLogin`, `PasteAndWheelNeverAct` |
| `modes_stale`, `modes_token` | same, each tab left for good | **violated**: see below |

A module's type invariant is a conjunct of one of its properties (`TuiIsItself`,
`OkIsWhole`, `NoJobLeftWaiting`, `NothingAdrift`, `LoadingIsAnswered`,
`TextStaysWithItsPrompt`), or a property of its own in `active_profile`.

Why these bounds are enough:

* The conflicts are of two - two threads for one lock, a result and the switch it
  races with, two launches for one port - and need two proxies, a root and a leaf.
  Three user actions are enough for a piece of work to be started, made stale by
  the second and revived by the third. `MaxActs` counts what users and timers do;
  `MaxJobs` and `MaxBumps` what the pool is given; threads, messages and retries
  follow from these. The `Follow` constant of `ActiveProfile` chooses the kinds of
  results a run sends on, for they multiply; between them the runs send all.
* `Program`: two hand-offs are a kube login and the command after it, or a command
  and the next; `MaxFaults` = 1 fails any one call or panics anywhere (once the
  terminal is lost, calls fail at will); two starts make a save, its interruption,
  and a load of what it left.
* `CommandRunner`: two helpers are one in the group and one that escapes it, or one
  forked by the other; a buffer of 1 is full after one write. The timeouts are
  different from each other and large enough for each grace to end before, at and
  after the deadline.
* `Modes`: listings have at most `MaxRows` = 1 row of two names, so that a refresh
  can change what is under the selection; the all-clusters view has a row of each
  cluster. `Revisits` FALSE keeps the runs with a counterexample short.
* `CHECK_DEADLOCK FALSE` is said in `program`, `command_runner` and `modes` only:
  a program that has ended, a call that has returned and a UI that was quit do not
  go on. Symmetry is used in safety runs only.

`StraysHadExited`, `LockedRowsAreTheirClusters`, `NothingOutlivesTheTui` and the
properties of `Program` carry an explicit exception (a child its thread saw exit; a
login that raced; a named failure), because the code makes one; the exception is
part of what they say.

### Where the code and its comments differ

Two runs show a disagreement:

* **Rows of the cluster before** (`modes_stale`). `begin_tab_request` says it clears
  "stale rows so the spinner shows an empty table", but clears their indices;
  a search while the listing loads (`recompute_visible`) shows them again, and
  Enter connects to one under the new cluster's name.
* **Another token is removed** (`modes_token`). "Dispatch removal of the selected
  token": in the all-clusters view `confirm_token_rm` takes the highlighted row's
  index into the scoped listing.

Read while modelling, modelled as the code is, and claimed otherwise by no property:

* `submit_login` may log in to another proxy and leaves `profile_gen` alone; a
  status or topology read under the old proxy lands afterwards and stays
  (`FormProxy` is empty in the runs for that reason; `SettledViewUnlessForeign` is
  proved for any).
* `scoped_agg_seed` (update.rs:566) takes an admin tab's rows to be the root's
  "regardless of the picker selection", but `dispatch_admin_scoped` lists the
  selected cluster: a leaf's admin rows may enter the all-clusters view as root's.
* A load that fails clears the rows of the tab on screen and the marker of the tab
  it was for (`apply_tab`, update.rs:390): a cached tab may be emptied by another's
  error and still count as cached.
* The registry says a pid stays listed until `stop_child` reaps it; `try_wait` in
  `await_listen` (proxy.rs:49) reaps a child that exited while it is still listed.
* A one-time secret (a token, an invite) is scrubbed "on dismiss", but a mode that
  takes its place (`clear_session`, another popup, a tab switch) leaves it in
  memory, and the wheel or the key meant for the prompt it replaced dismisses it.
* A tab removed from the aggregate after a token removal keeps its cached slice in
  the all-clusters view (`invalidate_tab`, update.rs:114).
* `switch_tab` without a topology leaves the old tab's indices visible, and the
  filter stays applied after an action taken from the search.
* `create_request` takes the cluster selected when it is submitted; `join`, `play`,
  `request drop` and `mfa` carry no cluster at all.
* A Ctrl-C between `clear_interrupt` (ssh.rs:104) and raw mode quits the TUI; an
  early `?` in `run_interactive` returns to a TUI without its terminal; a command
  killed while the terminal is raw leaves it raw; when the TUI fails half-way into
  the terminal there is no guard to undo it; the panic hook restores the terminal
  for a worker's panic too, under a TUI that goes on.
* A panic of the UI thread skips the shutdown of the proxies.
* A save loses comments and keys the program does not know, and is not atomic.
* The mutating admin jobs run on the pool without `profile_lock`.
* A second `kill_tree` may signal a process group that was already reaped.

## Fairness

`ActiveProfile`: the event loop keeps draining, the pool and each thread keep
running - every `tsh` and `tctl` a thread runs is bounded by `run_with_timeout` -
and the user ends an interactive login at last. The mutex is only assumed to be
granted to a thread that could always take it or release it; user actions are free.
`WorkQueue`: a handler of the UI runs to its end, each worker keeps running, and
the channel is drained again and again (`SF` on `Drain`: other handlers run between
two drains); which waiter a notification wakes, and spurious wake-ups, are free.
`ProxyChildren`: while some thread of the program can step, one does; the user, the
children, their helpers and other programs owe nothing - a shell may stay open for
ever, and a port may stay taken. `Program`: the main thread keeps running (`Main`);
keys, commands, signals and faults are free. `CommandRunner`: the caller and each
reader keep running, a process that was sent SIGKILL dies, and time passes; the
command and its helpers owe nothing. `BoundedCommand` promises the answer (`WF` on
`Answer`). `Session` and `Modes` assume no fairness and state no liveness.

## Proofs

All of these hold for every value of the constants, under the assumptions the
modules state. Each module has one inductive invariant `IInv`, with `InitIInv`, a
lemma per action (or group), `NextIInv` and `Invariance`: `Spec => []IInv`.

`ActiveProfile_proofs` (`TypeCorrect`, `LeafNeedsTheLock`, `LockIsExclusive`).
`ConstantsAssumption`: root is a cluster name, `None` is none of the values, the
bound is a number. `LeafOnlyUnderLock` alone is not inductive: that a restore puts the
profile on a root needs to know that what every thread carries as its root is one
(`ThreadRoots`), that the root remembered for a leaf login is (`HandInv`, from the
topology on screen, `ViewInv`, from what the results carry, `ChanInv`), that the
critical section is the lock's (`LockInv`), and that inside it a leaf is still going
to be restored (`DiskInv`).

`WorkQueue_proofs` (`UrgentComesFirst`, `NoWakeUpIsLost`, `ServiceIsSafe`).
`PoolAssumption`: a finite nonempty set of workers, `None` not a job. `OrderInv`
(each lane in push order, no result twice), `PlaceInv` (a job is in one place only),
`StaleInv` (the atomics are never ahead of the UI's counters, and no job is queued for
a request the workers have not been told of) and `ClosedInv` carry `NotOvertaken` and
the refinement: a job the detailed queue starts, drops or reports is one that
`JobService` allows. `NoJobLeftWaiting` counts idle workers against queued jobs and
uses the library's facts on cardinality. `ServiceIsSafe` is the safety half of
`ServiceSpec`.

`ProxyChildren_proofs` (`NoneIsAdrift`, `ShutdownFindsAll`, `NoneOutlives`,
`StraysWereSeen`). `ProxyAssumption`. Every live child is the entry of the map, in
the hands of the one thread that starts or stops it, or dying (`OwnInv`); what the
shutdown can still reach (`ReachInv`), what has been reaped (`ReapInv`), and where
the main thread is (`MainInv`) give the four theorems.

`CommandRunner_proofs` (`SuccessIsWhole`, `GroupIsCleared`, `GivenUpForAnEscapee`,
`InTimeSucceeds`, `PromiseIsSafe`). `CommandAssumption`, with a `READER_GRACE` above
zero. The parts follow the function: what the readers sent and hold (`SentInv`,
`HoldInv`), the leader and its status (`LeaderInv`, `StatusInv`), the kill of the
group (`GroupInv`), the grace (`GraceInv`, `LateInv`) and the result (`ResultInv`).
`PromiseIsSafe` is the safety half of the refinement of `BoundedCommand`.

`Program_proofs` (five theorems, one for each safety property of the run).
`ProgramAssumption`, with at least one start. The main thread's place decides what is
registered, what is saved, whose the terminal is and which child runs (`KindInv`,
`SignalInv`, `SaveInv`, `ChildInv`, `TuiInv`, `CtrlCInv`, `ModeInv`).

`Session_proofs` (`SpinnerIsAnswered`, `ScopedCache`, `Aggregate`, `ScopedRows`,
`NothingOlder`: every property of the run). `SessionAssumption`: a finite set of
clusters, none of which is called as a marker. The state is one record, so the parts
of the invariant take the record: `Sound` (its type; the numbers of the jobs in
flight are not ahead of their counters, and the latest were sent under this profile;
without a topology there is no all-clusters view; nothing is older than the profile),
then what history may break: `Labelled`, `RowsLabelled`, `TabHere`, `WarmHere` while
no topology moved the selection, `Filled` while no failed load hit another tab,
`Complete` while no switch is published, `Answered` while none is under way. A lemma
for each handler says what it keeps; those for `ReloadActive` say what it
establishes, whatever the view it was called with. The markers alone are not
inductive: a listing that lands is of the selected cluster because of the job that
asked for it (`TabHere`, and `WarmHere` for a prefetch).

`ActiveProfile_switch_proofs` (`SwitchInvariance`, `ViewFollows`,
`WorkStaysUnderItsProxy`, `RowsAreTheirClusters`, `SettledView`,
`SettledViewUnlessForeign`, `SwitchesAreApart`). Its invariant `HInv` adds to `IInv`,
in three parts, what a background switch keeps.

- `JInv`. `SInv`: at most one switch is in a thread or in a result on the channel
  (`OneSwitch`), it carries the generation after the UI's (`SwitchTag`), and the
  workers' generation is the UI's, or that next one from the moment the switch
  publishes it (`GenInv`). `VInv`: nothing else carries a later generation than the
  UI's (`TagInv`), nothing is left under it while a login leaves the profile
  (`LeavingInv`), and what was read under it is of the proxy on disk, unless a form
  login moved the profile to another proxy (`SeenInv`, under `Clean`). `WorkInv` says so
  of the work its generation still lets through, and `CInv` what each stage of a
  listing was read from.
- `FormInv`: a login form that may only go to the current proxy still does, unless a
  switch moved the profile under it.
- `HeaderInv`: the profile in the header is of the proxy on disk, or a status read
  under the UI's generation is still due: in the pool, among what follows a login, or
  on the channel. A program at rest has none due, so its header is right.

`SettledView` assumes `FormProxy = {}`, as the run does: `submit_login` leaves
`profile_gen` alone, so a login to another proxy lets late results of the old one in.
`SettledViewUnlessForeign` has no such assumption and says what is left then.
`ViewFollowsTheSwitch` is not inductive without them: the topology it speaks of
comes from reads that were started before the switch and land after it.

`Modes_proofs` (`TextStays`, `CommandsName`, `CommandsFit`, `RestoreFollows`,
`PasteAndWheel`: every property of the run; and `AscendingLists`, what `visible` is
made of). `ScreenAssumption`. The four invariants speak of the command just asked
for, which the handler took from the mode, which an earlier handler filled from the
table: so the invariant follows the row through all three. `Table`: what is listed
and cached are rows, and the selection is no line past the last of `visible`.
`Opened`: the row a prompt, a picker or a form carries is the one remembered in
`asked`, and is no error row. `Commanded`: the command agrees with `asked`, and
restores the root only after a leaf's login. No prompt carries text of another
(`left`). And `drawn` is the row highlighted, or nothing is: an automatic refresh runs
between a draw and the key, and `ForceTable` says that it may take the highlight away
but never moves it to another row. Each handler has one lemma: from a state in which a
key may `Start` a flow it gives a result that `Fits`; replayed keys are shown to be
`Still`, without a command.

**Model-checked only.** All liveness (`SwitchIsAnswered`, `ThreadsEnd`,
`EveryJobEnds`, `WorkersExit`, `LaunchIsAnswered`, `StopReturns`, `TerminateEnds`,
and the fairness half of `ServiceSpec` and `PromiseSpec`): fairness and `ENABLED` are
out of the prover's reach. Every invariant and every action property of the passing
runs is the subject of a theorem.

## Plan

What is left, in order: the exit of the program inside the profile's critical section, and the next start that reads the leaf
as its root (`Program` and `ActiveProfile` composed); a contract between `Screen`'s
loads and `Session`'s.

## Not modelled

Parsing and formatting (adapters, the order of flags, the configuration's line
format, redaction, logging), validated strings, the lookup of binaries, and
rendering: they keep no state that another part depends on, or their properties are
about characters. The contents of popups and the editing of a form's fields. The
pool's 2 to 8 workers are two; the synchronous mode of the tests is not modelled. A
panic is modelled in `Program` only: a worker that panics ends, and `WorkQueue` has
no such step.
