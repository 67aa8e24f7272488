------------------------------ MODULE Program ------------------------------
(***************************************************************************)
(* The program as a whole, from its start to its end: the terminal it      *)
(* takes over and hands to interactive commands, the signals that end it,  *)
(* and the settings file it leaves to the next start (main.rs, ssh.rs,     *)
(* signals.rs, infrastructure/src/config.rs).                              *)
(*                                                                         *)
(* `pc` is the main thread.  The terminal is two things: its mode (`raw`), *)
(* which enable_raw_mode sets and disable_raw_mode puts back to what it    *)
(* was, and its `screen`: the alternate screen, the mouse capture and the  *)
(* bracketed paste, which are always entered and left together.  A command *)
(* that has the terminal may itself make it raw (a remote shell does), and *)
(* makes it cooked again when it ends, unless it is killed.                *)
(*                                                                         *)
(* A call that does I/O may fail: at most MaxFaults times, and at will     *)
(* once the terminal is gone.  The panics of the same bound are those of a *)
(* job and of the UI thread.  What an action does not mention of `App` is  *)
(* another module's: Session, ProxyChildren, Modes.                        *)
(***************************************************************************)
EXTENDS Integers, FiniteSets

CONSTANTS
    MaxHandOffs,  \* bound: commands the terminal is handed to, in one start
    MaxFaults,    \* bound: failed I/O calls and panics
    MaxStarts     \* bound: starts of the program

ASSUME ProgramAssumption == MaxHandOffs \in Nat /\ MaxFaults \in Nat /\ MaxStarts \in Nat \ {0}

VARIABLES
    pc,
    tty,          \* [raw, screen]: the state of the terminal
    saved,        \* the mode enable_raw_mode saved, "none" out of raw mode
    \* Signals.
    installed, terminate, interrupt, lost,
    \* The hand-off under way.
    kind, back,   \* what is handed off, and where the main thread goes on after it
    child,        \* "none", "running" or "zombie"
    status,       \* how its command ended: "ok", "bad", or "error" without an exit status
    \* The settings.
    file,         \* the keys in config.toml, which `lines` the program does not know included
    copy,         \* the keys a save under way has read
    \* Bounds.
    handOffs, faults, starts,
    \* History, read by the properties only.
    signals,      \* SIGHUPs and SIGTERMs delivered, up to two
    ctrlC,        \* when the SIGINTs not yet cleared came: "child", "late" or "outside"
    broken,       \* a hand-off returned before the TUI was back, or a panic restored the terminal
    abandoned,    \* a wait failed and its command was left running
    keptRaw,      \* a command was killed while it had the terminal raw
    notEntered,   \* the TUI failed to take the terminal over
    hardExits     \* starts that ended by a signal's default, or its repetition

flags == <<installed, terminate, interrupt, lost>>
hand == <<kind, back, child, status>>
store == <<file, copy>>
bounds == <<handOffs, faults, starts>>
history == <<signals, ctrlC, broken, abandoned, keptRaw, notEntered, hardExits>>
vars == <<pc, tty, saved, flags, hand, store, bounds, history>>

Keys == {"tsh_path", "prefs", "lines"}
Ended == {"exited", "dead"}
\* run_interactive, up to and after clear_interrupt.
BeforeClear == {"suspend", "suspend_screen", "spawn", "wait", "clear"}
AfterClear == {"pause_raw", "pause", "resume", "resume_screen"}
HandOff == BeforeClear \cup AfterClear \cup {"play_start", "play"}
Alive == pc \notin Ended
Startup == {"load", "locate", "probe", "install", "enter", "enter_screen"}
Loop == {"top", "tick", "events", "draw", "poll"}
Save == {"save", "save_truncate", "save_write"}
Teardown == {"shutdown", "restore", "drop"}

\* signals.rs.
TerminateRequested == terminate \/ lost
ShutdownRequested == TerminateRequested \/ interrupt

\* A failing call.
IoFails == IF lost THEN UNCHANGED faults ELSE faults < MaxFaults /\ faults' = faults + 1

\* crossterm's raw mode.
EnableRaw ==
    /\ saved' = IF saved # "none" THEN saved ELSE IF tty.raw THEN "raw" ELSE "cooked"
    /\ tty' = [tty EXCEPT !.raw = TRUE]
RawBefore == IF saved = "none" THEN tty.raw ELSE saved = "raw"
DisableRaw(screen) == tty' = [raw |-> RawBefore, screen |-> screen] /\ saved' = "none"
SetScreen(screen) == tty' = [tty EXCEPT !.screen = screen] /\ UNCHANGED saved

Goto(p) == pc' = p

Init ==
    /\ pc = "load" /\ tty = [raw |-> FALSE, screen |-> FALSE] /\ saved = "none"
    /\ installed = FALSE /\ terminate = FALSE /\ interrupt = FALSE /\ lost = FALSE
    /\ kind = "none" /\ back = "top" /\ child = "none" /\ status = "ok"
    /\ file = Keys /\ copy = {}
    /\ handOffs = 0 /\ faults = 0 /\ starts = 1
    /\ signals = 0 /\ ctrlC = {} /\ broken = FALSE /\ abandoned = FALSE
    /\ keptRaw = FALSE /\ notEntered = FALSE /\ hardExits = 0

-----------------------------------------------------------------------------
(* real_main, up to the event loop.                                        *)

StartsUp(from, to) ==
    /\ pc = from /\ Goto(to)
    /\ UNCHANGED <<tty, saved, flags, hand, store, bounds, history>>

\* The configuration is read (defaults when it cannot be); without tsh there is
\* nothing to run; one `tsh help`, and the first jobs; then the handlers.
LoadConfig == StartsUp("load", "locate")
Locate == StartsUp("locate", "probe") \/ StartsUp("locate", "exited")
ProbeAndBootstrap == StartsUp("probe", "install")

Install ==
    /\ pc = "install"
    /\ \/ Goto("enter") /\ installed' = TRUE /\ UNCHANGED faults
       \/ Goto("exited") /\ UNCHANGED installed /\ IoFails
    /\ UNCHANGED <<tty, saved, terminate, interrupt, lost, hand, store, handOffs, starts, history>>

\* TerminalGuard::enter: until it returns there is no guard to undo its work.
Enter ==
    /\ pc = "enter"
    /\ \/ Goto("enter_screen") /\ EnableRaw /\ UNCHANGED faults
       \/ Goto("exited") /\ IoFails /\ UNCHANGED <<tty, saved>>
    /\ UNCHANGED <<flags, hand, store, handOffs, starts, history>>

EnterScreen ==
    /\ pc = "enter_screen"
    /\ \/ Goto("top") /\ SetScreen(TRUE) /\ UNCHANGED <<faults, notEntered>>
       \/ Goto("exited") /\ IoFails /\ notEntered' = TRUE /\ \E b \in BOOLEAN : SetScreen(b)
    /\ UNCHANGED <<flags, hand, store, handOffs, starts,
                   signals, ctrlC, broken, abandoned, keptRaw, hardExits>>

-----------------------------------------------------------------------------
(* event_loop.                                                             *)

Turn(from, to) ==
    /\ pc = from /\ Goto(to)
    /\ UNCHANGED <<tty, saved, flags, hand, store, bounds, history>>

\* A hand-off is asked for, by a key, a deferred login or a kube proxy.
Ask(from, k, to) ==
    /\ pc = from /\ handOffs < MaxHandOffs
    /\ Goto(IF k = "play" THEN "play_start" ELSE "suspend")
    /\ kind' = k /\ back' = to /\ status' = "ok" /\ handOffs' = handOffs + 1
    /\ UNCHANGED <<tty, saved, flags, child, store, faults, starts, history>>

LoopFails(from) ==
    /\ pc = from /\ IoFails /\ Goto("shutdown")
    /\ UNCHANGED <<tty, saved, flags, hand, store, handOffs, starts, history>>

CheckShutdown == Turn("top", IF ShutdownRequested THEN "shutdown" ELSE "tick")
Tick == Turn("tick", "events") \/ Ask("tick", "run", "events")
Events == Turn("events", "draw") \/ Ask("events", "shell", "events")
Draw == Turn("draw", "poll") \/ LoopFails("draw")
NoKey == Turn("poll", "top") \/ LoopFails("poll")

\* A key: nothing of ours, quit, the settings saved, or a hand-off.
Key ==
    /\ ~lost
    /\ \/ Turn("poll", "shutdown")
       \/ Turn("poll", "save")
       \/ \E k \in {"run", "command", "login", "play"} : Ask("poll", k, "top")

-----------------------------------------------------------------------------
(* run_interactive and play_recording.                                     *)

\* An I/O step: as planned, or an early return that leaves the rest undone.
Step(from, to) == pc = from /\ Goto(to) /\ UNCHANGED <<faults, broken, status>>
ReturnsEarly(from) ==
    /\ pc = from /\ IoFails
    /\ Goto("report") /\ broken' = TRUE /\ status' = "error"
HandStep ==
    UNCHANGED <<flags, kind, back, child, store, handOffs, starts,
                signals, ctrlC, abandoned, keptRaw, notEntered, hardExits>>

Suspend ==
    /\ \/ Step("suspend", "suspend_screen") /\ DisableRaw(tty.screen)
       \/ ReturnsEarly("suspend") /\ UNCHANGED <<tty, saved>>
    /\ HandStep

SuspendScreen ==
    /\ \/ Step("suspend_screen", "spawn") /\ SetScreen(FALSE)
       \/ ReturnsEarly("suspend_screen") /\ \E b \in BOOLEAN : SetScreen(b)
    /\ HandStep

\* Mutant: a failed spawn returns at once.
Spawn_Returns ==
    /\ pc = "spawn"
    /\ \/ Goto("wait") /\ child' = "running" /\ UNCHANGED status
       \/ Goto("report") /\ status' = "error" /\ UNCHANGED child
    /\ UNCHANGED <<tty, saved, flags, kind, back, store, bounds, history>>

Spawn ==
    /\ pc = "spawn"
    /\ \/ Goto("wait") /\ child' = "running" /\ UNCHANGED status
       \/ Goto("clear") /\ status' = "error" /\ UNCHANGED child
    /\ UNCHANGED <<tty, saved, flags, kind, back, store, bounds, history>>

\* wait_child: the exit, the kill when the program is to end, or a failed wait.
Reaped(to) ==
    /\ child = "zombie"
    /\ child' = "none" /\ status' \in {"ok", "bad"} /\ Goto(to)
    /\ UNCHANGED <<faults, abandoned, keptRaw>>
Killed(to, holdsTty) ==
    /\ child' = "none" /\ status' = "bad" /\ Goto(to)
    /\ keptRaw' = (keptRaw \/ (holdsTty /\ tty.raw))
    /\ UNCHANGED <<faults, abandoned>>
LeftRunning(to) ==
    /\ IoFails /\ Goto(to) /\ status' = "error"
    /\ child' = "none" /\ abandoned' = TRUE
    /\ UNCHANGED keptRaw

\* Mutant: the program leaves a running command to itself when it is to end.
WaitChild_NoKill ==
    /\ pc = "wait"
    /\ \/ Reaped("clear")
       \/ TerminateRequested /\ Goto("clear") /\ status' = "bad" /\ UNCHANGED <<child, faults, abandoned, keptRaw>>
       \/ LeftRunning("clear")
    /\ UNCHANGED <<tty, saved, flags, kind, back, store, handOffs, starts,
                   signals, ctrlC, broken, notEntered, hardExits>>

WaitChild ==
    /\ pc = "wait"
    /\ \/ Reaped("clear")
       \/ child = "running" /\ TerminateRequested /\ Killed("clear", TRUE)
       \/ LeftRunning("clear")
    /\ UNCHANGED <<tty, saved, flags, kind, back, store, handOffs, starts,
                   signals, ctrlC, broken, notEntered, hardExits>>

\* clear_interrupt, and the choice to pause on the output of a one-off command.
ClearInterrupt ==
    /\ pc = "clear"
    /\ interrupt' = FALSE /\ ctrlC' = {}
    /\ Goto(IF kind \in {"command", "exec"} /\ ~TerminateRequested THEN "pause_raw" ELSE "resume")
    /\ UNCHANGED <<tty, saved, installed, terminate, lost, hand, store, bounds,
                   signals, broken, abandoned, keptRaw, notEntered, hardExits>>

PauseRaw ==
    /\ \/ Step("pause_raw", "pause") /\ EnableRaw
       \/ ReturnsEarly("pause_raw") /\ (UNCHANGED <<tty, saved>> \/ EnableRaw)
    /\ HandStep

\* Mutant: only a key ends the pause.
PauseEnds_NoTerminate ==
    ReturnsEarly("pause") /\ HandStep /\ UNCHANGED <<tty, saved>>

\* wait_any_key: a key, or the end of the program.
PauseEnds ==
    /\ pc = "pause"
    /\ \/ TerminateRequested /\ Step("pause", "resume")
       \/ ReturnsEarly("pause")
    /\ HandStep /\ UNCHANGED <<tty, saved>>
PauseKey == ~lost /\ Step("pause", "resume") /\ HandStep /\ UNCHANGED <<tty, saved>>

Resume ==
    /\ \/ Step("resume", "resume_screen") /\ EnableRaw
       \/ ReturnsEarly("resume") /\ UNCHANGED <<tty, saved>>
    /\ HandStep

ResumeScreen ==
    /\ \/ Step("resume_screen", "report") /\ SetScreen(TRUE)
       \/ ReturnsEarly("resume_screen") /\ \E b \in BOOLEAN : SetScreen(b)
    /\ HandStep

\* play_recording keeps the keyboard, raw mode and its own screen.
PlayStart ==
    /\ pc = "play_start"
    /\ EnableRaw
    /\ \/ Goto("play") /\ child' = "running" /\ UNCHANGED <<faults, status>>
       \/ Goto("report") /\ IoFails /\ status' = "error" /\ UNCHANGED child
    /\ UNCHANGED <<flags, kind, back, store, handOffs, starts, history>>

PlayStep ==
    UNCHANGED <<tty, saved, flags, kind, back, store, handOffs, starts,
                signals, ctrlC, broken, notEntered, hardExits>>
PlayEnds ==
    /\ pc = "play"
    /\ \/ Reaped("report")
       \/ child = "running" /\ TerminateRequested /\ Killed("report", FALSE)
       \/ LeftRunning("report")
    /\ PlayStep
StopKey == pc = "play" /\ child = "running" /\ ~lost /\ Killed("report", FALSE) /\ PlayStep

\* run_and_report, handle_play, handle_kube_exec and the end of a kube shell: a
\* kube login that succeeded is followed by the command it was for.
Report ==
    /\ pc = "report"
    /\ IF kind = "login" /\ status = "ok"
       THEN Goto("suspend") /\ kind' = "exec"
       ELSE Goto(back) /\ kind' = "none"
    /\ UNCHANGED <<tty, saved, flags, back, child, status, store, bounds, history>>

-----------------------------------------------------------------------------
(* ConfigFileStore::save: the file is read again, emptied and written.     *)

FileFails == faults < MaxFaults /\ faults' = faults + 1
Parsed == file \ {"lines"}

\* Mutant: the file is not read again.
SaveRead_Not ==
    /\ pc = "save" /\ Goto("save_truncate")
    /\ copy' = {}
    /\ UNCHANGED <<tty, saved, flags, hand, file, bounds, history>>

SaveRead ==
    /\ pc = "save" /\ Goto("save_truncate")
    /\ \/ copy' = Parsed /\ UNCHANGED faults
       \/ copy' = {} /\ FileFails
    /\ UNCHANGED <<tty, saved, flags, hand, file, handOffs, starts, history>>

SaveTruncate ==
    /\ pc = "save_truncate"
    /\ \/ Goto("save_write") /\ file' = {} /\ UNCHANGED faults
       \/ Goto("top") /\ FileFails /\ UNCHANGED file
    /\ UNCHANGED <<tty, saved, flags, hand, copy, handOffs, starts, history>>

SaveWrite ==
    /\ pc = "save_write" /\ Goto("top")
    /\ \/ file' = copy \cup {"prefs"} /\ UNCHANGED faults
       \/ UNCHANGED file /\ FileFails
    /\ UNCHANGED <<tty, saved, flags, hand, copy, handOffs, starts, history>>

-----------------------------------------------------------------------------
(* The end: run stops the proxies, then the guard and the App are dropped. *)

StopProxies == Turn("shutdown", "restore")

\* Mutant: raw mode is left on.
RestoreTerminal_ScreenOnly ==
    /\ pc = "restore" /\ Goto("drop")
    /\ SetScreen(FALSE)
    /\ UNCHANGED <<flags, hand, store, bounds, history>>

RestoreTerminal ==
    /\ pc = "restore" /\ Goto("drop")
    /\ DisableRaw(FALSE)
    /\ UNCHANGED <<flags, hand, store, bounds, history>>

DropApp == Turn("drop", "exited")

\* The panic hook restores the terminal whichever thread panics; a panic of the
\* UI thread then unwinds to the guard, past run's shutdown.
Panic ==
    /\ faults < MaxFaults /\ faults' = faults + 1
    /\ DisableRaw(FALSE)
    /\ \/ pc \in {"tick", "events", "draw", "poll"} /\ Goto("restore") /\ UNCHANGED broken
       \/ pc \in Loop \cup HandOff \cup Save /\ UNCHANGED pc /\ broken' = TRUE
    /\ UNCHANGED <<flags, hand, store, handOffs, starts,
                   signals, ctrlC, abandoned, keptRaw, notEntered, hardExits>>

Main ==
    \/ LoadConfig \/ Locate \/ ProbeAndBootstrap \/ Install \/ Enter \/ EnterScreen
    \/ CheckShutdown \/ Tick \/ Events \/ Draw \/ NoKey
    \/ Suspend \/ SuspendScreen \/ Spawn \/ WaitChild \/ ClearInterrupt
    \/ PauseRaw \/ PauseEnds \/ Resume \/ ResumeScreen
    \/ PlayStart \/ PlayEnds \/ Report
    \/ SaveRead \/ SaveTruncate \/ SaveWrite
    \/ StopProxies \/ RestoreTerminal \/ DropApp

-----------------------------------------------------------------------------
(* The user, the commands, and the system.                                 *)

Keyboard == Key \/ PauseKey \/ StopKey

\* A command that has the terminal, or was left with it, changes its mode, and ends.
ChildMode ==
    /\ Alive /\ (abandoned \/ (child = "running" /\ pc = "wait"))
    /\ \E raw \in BOOLEAN : tty' = [tty EXCEPT !.raw = raw]
    /\ UNCHANGED <<pc, saved, flags, hand, store, bounds, history>>
ChildExits ==
    /\ child = "running"
    /\ child' = "zombie"
    /\ tty' = [tty EXCEPT !.raw = IF pc = "wait" THEN FALSE ELSE @]
    /\ UNCHANGED <<pc, saved, flags, kind, back, status, store, bounds, history>>

HardExit == Goto("dead") /\ hardExits' = hardExits + 1

\* Mutant: the flag is registered before the conditional shutdown.
Deliver_FlagFirst ==
    /\ Alive
    /\ HardExit
    /\ terminate' = TRUE
    /\ signals' = IF signals = 2 THEN 2 ELSE signals + 1
    /\ UNCHANGED <<tty, saved, installed, interrupt, lost, hand, store, bounds,
                   ctrlC, broken, abandoned, keptRaw, notEntered>>

\* SIGHUP or SIGTERM: the conditional shutdown sees the flag before this delivery
\* raises it.  Before the handlers are installed it ends the program.
Deliver ==
    /\ Alive
    /\ IF ~installed \/ terminate
       THEN HardExit /\ UNCHANGED terminate
       ELSE terminate' = TRUE /\ UNCHANGED <<pc, hardExits>>
    /\ signals' = IF signals = 2 THEN 2 ELSE signals + 1
    /\ UNCHANGED <<tty, saved, installed, interrupt, lost, hand, store, bounds,
                   ctrlC, broken, abandoned, keptRaw, notEntered>>

\* SIGINT: an external kill -INT at any time, or Ctrl-C out of raw mode.
Interrupt ==
    /\ Alive
    /\ IF installed
       THEN /\ interrupt' = TRUE
            /\ UNCHANGED <<pc, hardExits>>
       ELSE HardExit /\ UNCHANGED interrupt
    /\ \/ ctrlC' = ctrlC \cup {"outside"} /\ pc \notin BeforeClear
       \/ ctrlC' = ctrlC \cup {"child"} /\ pc \in BeforeClear
       \/ ctrlC' = ctrlC \cup {"late"} /\ pc \in AfterClear /\ ~tty.raw /\ ~lost
    /\ UNCHANGED <<tty, saved, installed, terminate, lost, hand, store, bounds,
                   signals, broken, abandoned, keptRaw, notEntered>>

\* The terminal goes away without a signal; `install` remembers that there was one.
LoseTerminal ==
    /\ installed /\ Alive /\ ~lost
    /\ lost' = TRUE
    /\ UNCHANGED <<pc, tty, saved, installed, terminate, interrupt, hand, store, bounds, history>>

\* Started again, in another terminal.
Restart ==
    /\ pc \in Ended /\ starts < MaxStarts
    /\ Goto("load") /\ tty' = [raw |-> FALSE, screen |-> FALSE] /\ saved' = "none"
    /\ installed' = FALSE /\ terminate' = FALSE /\ interrupt' = FALSE /\ lost' = FALSE
    /\ kind' = "none" /\ back' = "top" /\ child' = "none" /\ status' = "ok" /\ copy' = {}
    /\ handOffs' = 0 /\ starts' = starts + 1
    /\ signals' = 0 /\ ctrlC' = {} /\ broken' = FALSE /\ abandoned' = FALSE
    /\ keptRaw' = FALSE /\ notEntered' = FALSE
    /\ UNCHANGED <<file, faults, hardExits>>

Next == Main \/ Panic \/ Keyboard \/ ChildMode \/ ChildExits \/ Deliver \/ Interrupt \/ LoseTerminal \/ Restart

\* The main thread keeps running; keys, commands, signals and faults are free.
Spec == Init /\ [][Next]_vars /\ WF_vars(Main)

-----------------------------------------------------------------------------
(* Properties.                                                             *)

ThreadType ==
    /\ pc \in Startup \cup Loop \cup HandOff \cup {"report"} \cup Save \cup Teardown \cup Ended
    /\ kind \in {"none", "run", "command", "login", "exec", "shell", "play"}
    /\ (pc \in HandOff \cup {"report"} => kind # "none") /\ (pc \in Loop => kind = "none")
    /\ back \in {"top", "events"} /\ child \in {"none", "running", "zombie"}
    /\ status \in {"ok", "bad", "error"}

TerminalType ==
    /\ tty \in [raw : BOOLEAN, screen : BOOLEAN] /\ saved \in {"none", "cooked", "raw"}
    /\ installed \in BOOLEAN /\ terminate \in BOOLEAN /\ interrupt \in BOOLEAN /\ lost \in BOOLEAN
    /\ signals \in 0..2 /\ ctrlC \subseteq {"child", "late", "outside"}
    /\ broken \in BOOLEAN /\ abandoned \in BOOLEAN /\ keptRaw \in BOOLEAN /\ notEntered \in BOOLEAN

StoreType == file \subseteq Keys /\ copy \subseteq Keys \ {"lines"}

BoundsType ==
    /\ handOffs \in 0..MaxHandOffs /\ faults \in 0..MaxFaults
    /\ starts \in 1..MaxStarts /\ hardExits \in 0..MaxStarts

TypeOK == ThreadType /\ TerminalType /\ StoreType /\ BoundsType

\* The TUI draws, and reads keys, only with the terminal in its own mode and
\* screen again, whatever commands had it in between and however they ended
\* (ssh.rs: "Resume the TUI regardless of the child's exit status").  What breaks
\* it is a hand-off's own `?`, a job's panic, or a command left running.
DrawsInTuiMode == pc \in Loop /\ ~broken /\ ~abandoned => tty.raw /\ tty.screen

\* "Restores the terminal on every exit path (quit, error, panic)" (main.rs): of
\* every orderly end, but for a TUI that failed half-way into the terminal, and a
\* command that was killed with the terminal raw, or left with it.
TerminalRestored ==
    pc = "exited" /\ ~notEntered => ~tty.screen /\ (tty.raw => keptRaw \/ abandoned)

\* One SIGHUP or SIGTERM is never a hard exit, once the handlers are there: "only
\* a repeated signal takes the hard exit" (signals.rs).
HardExitOnlyRepeated == pc = "dead" /\ installed => signals = 2

\* No command is left behind with the terminal while the TUI uses it, or after an
\* orderly end, unless waiting for it failed.
NoChildLeft ==
    /\ pc \notin HandOff \cup {"dead"} => child = "none"
    /\ abandoned => faults > 0 \/ lost

\* A Ctrl-C for the command that has the terminal is not a request to quit the
\* TUI; one that comes between clear_interrupt and raw mode still is.
CtrlCIsTheChilds == pc \in Loop /\ interrupt /\ ~broken => ctrlC \cap {"late", "outside"} # {}

\* The TUI gets back what a hand-off took: its terminal, and its Ctrl-C.
TuiIsItself == TypeOK /\ DrawsInTuiMode /\ CtrlCIsTheChilds

\* Keys the settings do not edit survive every save (config.rs), across restarts:
\* a single signal never cuts a save in two.  A repeated one, or a failed read or
\* write, may lose them.
KeysSurvive == "tsh_path" \in file \/ pc = "save_write" \/ faults > 0 \/ hardExits > 0

\* The program ends when it is told to, or its terminal is gone, also in the middle
\* of a hand-off, a pause or a replay ("instead of hanging on it", ssh.rs).
TerminateEnds == TerminateRequested ~> pc \in Ended
=============================================================================
