--------------------------- MODULE Program_proofs ---------------------------
(* What holds of Program for every number of hand-offs, faults and starts.   *)
EXTENDS Program, TLAPS

\* Nothing has been handed off before and between the commands.
KindInv == pc \in Startup \cup Save => kind = "none"

\* One signal ends a start at most once.
SignalInv ==
    /\ terminate => signals >= 1
    /\ hardExits <= starts /\ (Alive => hardExits < starts)
    /\ HardExitOnlyRepeated

\* A save under way has read what it is about to write back.
SaveInv ==
    /\ pc \in {"save_truncate", "save_write"} => "tsh_path" \in copy \/ faults > 0 \/ hardExits > 0
    /\ KeysSurvive

\* A command runs only while the main thread waits for it.
ChildInv ==
    /\ child # "none" => pc \in {"wait", "play", "dead"}
    /\ pc = "wait" => child # "none"
    /\ abandoned => (faults > 0 \/ lost) /\ pc \notin Startup

\* The way back into the TUI: the terminal is complete again at the report.
TuiInv ==
    /\ pc \in {"enter_screen", "resume_screen"} /\ ~broken /\ ~abandoned => tty.raw
    /\ pc \in Loop \cup Save \cup {"report", "play_start", "play"} /\ ~broken /\ ~abandoned
       => tty.raw /\ tty.screen

\* Once the command's own Ctrl-C is cleared, what is left is for the TUI.
CtrlCInv ==
    interrupt /\ ~broken /\ pc \notin BeforeClear \cup {"dead"} => ctrlC \cap {"late", "outside"} # {}

\* The mode the terminal will be left in is the one it was found in; out of
\* raw mode it is the present one, and the command that has it answers for it.
ModeInv ==
    /\ pc \in {"load", "locate", "probe", "install", "enter"} =>
         saved = "none" /\ ~tty.raw /\ ~tty.screen
    /\ pc \in {"suspend_screen", "spawn", "wait", "clear", "drop", "exited"} /\ ~notEntered => saved = "none"
    /\ notEntered => pc = "exited"
    /\ pc # "dead" /\ ~notEntered /\ ~(pc = "wait" /\ child = "running") => (RawBefore => keptRaw \/ abandoned)
    /\ pc \in {"drop", "exited"} /\ ~notEntered => ~tty.screen

IInv == TypeOK /\ KindInv /\ SignalInv /\ SaveInv /\ ChildInv /\ TuiInv /\ CtrlCInv /\ ModeInv

USE ProgramAssumption
USE DEF Startup, Loop, HandOff, BeforeClear, AfterClear, Save, Teardown, Ended, Keys, Alive, Goto,
        flags, hand, store, bounds, history

-----------------------------------------------------------------------------
(* Start-up.                                                               *)

LEMMA LoadConfigIInv == ASSUME IInv, LoadConfig PROVE IInv'
  BY DEF IInv, TypeOK, ThreadType, TerminalType, StoreType, BoundsType, KindInv,
      SignalInv, HardExitOnlyRepeated, SaveInv, KeysSurvive, ChildInv, TuiInv, CtrlCInv,
      ModeInv, RawBefore, StartsUp, LoadConfig

LEMMA LocateIInv == ASSUME IInv, Locate PROVE IInv'
<1>1. ThreadType'
  BY DEF IInv, TypeOK, ThreadType, KindInv, StartsUp, Locate
<1>2. TerminalType'
  BY DEF IInv, TypeOK, ThreadType, TerminalType, StartsUp, Locate
<1>3. StoreType'
  BY DEF IInv, TypeOK, StoreType, StartsUp, Locate
<1>4. BoundsType'
  BY DEF IInv, TypeOK, ThreadType, BoundsType, SignalInv, StartsUp, Locate
<1>5. (KindInv /\ SignalInv /\ SaveInv /\ ChildInv /\ TuiInv /\ CtrlCInv /\ ModeInv)'
  BY DEF IInv, TypeOK, ThreadType, TerminalType, StoreType, BoundsType, KindInv,
      SignalInv, HardExitOnlyRepeated, SaveInv, KeysSurvive, ChildInv, TuiInv, CtrlCInv,
      ModeInv, RawBefore, StartsUp, Locate
<1> QED
  BY <1>1, <1>2, <1>3, <1>4, <1>5 DEF IInv, TypeOK

LEMMA ProbeAndBootstrapIInv == ASSUME IInv, ProbeAndBootstrap PROVE IInv'
  BY DEF IInv, TypeOK, ThreadType, TerminalType, StoreType, BoundsType, KindInv,
      SignalInv, HardExitOnlyRepeated, SaveInv, KeysSurvive, ChildInv, TuiInv, CtrlCInv,
      ModeInv, RawBefore, StartsUp, ProbeAndBootstrap

LEMMA InstallIInv == ASSUME IInv, Install PROVE IInv'
<1>1. ThreadType'
  BY DEF IInv, TypeOK, ThreadType, KindInv, IoFails, Install
<1>2. TerminalType'
  BY DEF IInv, TypeOK, ThreadType, TerminalType, IoFails, Install
<1>3. StoreType'
  BY DEF IInv, TypeOK, StoreType, IoFails, Install
<1>4. BoundsType'
  BY DEF IInv, TypeOK, ThreadType, BoundsType, SignalInv, IoFails, Install
<1>5. (KindInv /\ SignalInv /\ SaveInv /\ ChildInv /\ TuiInv /\ CtrlCInv /\ ModeInv)'
  BY DEF IInv, TypeOK, ThreadType, TerminalType, StoreType, BoundsType, KindInv,
      SignalInv, HardExitOnlyRepeated, SaveInv, KeysSurvive, ChildInv, TuiInv, CtrlCInv,
      ModeInv, RawBefore, IoFails, Install
<1> QED
  BY <1>1, <1>2, <1>3, <1>4, <1>5 DEF IInv, TypeOK

LEMMA EnterIInv == ASSUME IInv, Enter PROVE IInv'
<1>1. ThreadType'
  BY DEF IInv, TypeOK, ThreadType, KindInv, IoFails, EnableRaw, Enter
<1>2. TerminalType'
  BY DEF IInv, TypeOK, ThreadType, TerminalType, IoFails, EnableRaw, Enter
<1>3. StoreType'
  BY DEF IInv, TypeOK, StoreType, IoFails, EnableRaw, Enter
<1>4. BoundsType'
  BY DEF IInv, TypeOK, ThreadType, BoundsType, SignalInv, IoFails, EnableRaw, Enter
<1>5. (KindInv /\ SignalInv /\ SaveInv /\ ChildInv /\ TuiInv /\ CtrlCInv /\ ModeInv)'
  BY DEF IInv, TypeOK, ThreadType, TerminalType, StoreType, BoundsType, KindInv,
      SignalInv, HardExitOnlyRepeated, SaveInv, KeysSurvive, ChildInv, TuiInv, CtrlCInv,
      ModeInv, RawBefore, IoFails, EnableRaw, Enter
<1> QED
  BY <1>1, <1>2, <1>3, <1>4, <1>5 DEF IInv, TypeOK

LEMMA EnterScreenIInv == ASSUME IInv, EnterScreen PROVE IInv'
<1>1. ThreadType'
  BY DEF IInv, TypeOK, ThreadType, KindInv, IoFails, SetScreen, EnterScreen
<1>2. TerminalType'
  BY DEF IInv, TypeOK, ThreadType, TerminalType, IoFails, SetScreen, EnterScreen
<1>3. StoreType'
  BY DEF IInv, TypeOK, StoreType, IoFails, SetScreen, EnterScreen
<1>4. BoundsType'
  BY DEF IInv, TypeOK, ThreadType, BoundsType, SignalInv, IoFails, SetScreen,
      EnterScreen
<1>5. (KindInv /\ SignalInv /\ SaveInv /\ ChildInv /\ TuiInv /\ CtrlCInv /\ ModeInv)'
  BY DEF IInv, TypeOK, ThreadType, TerminalType, StoreType, BoundsType, KindInv,
      SignalInv, HardExitOnlyRepeated, SaveInv, KeysSurvive, ChildInv, TuiInv, CtrlCInv,
      ModeInv, RawBefore, IoFails, SetScreen, EnterScreen
<1> QED
  BY <1>1, <1>2, <1>3, <1>4, <1>5 DEF IInv, TypeOK

-----------------------------------------------------------------------------
(* The event loop.                                                         *)

LEMMA CheckShutdownIInv == ASSUME IInv, CheckShutdown PROVE IInv'
  BY DEF IInv, TypeOK, ThreadType, TerminalType, StoreType, BoundsType, KindInv,
      SignalInv, HardExitOnlyRepeated, SaveInv, KeysSurvive, ChildInv, TuiInv, CtrlCInv,
      ModeInv, RawBefore, Turn, CheckShutdown

LEMMA TickIInv == ASSUME IInv, Tick PROVE IInv'
<1>1. ThreadType'
  BY DEF IInv, TypeOK, ThreadType, KindInv, Turn, Ask, Tick
<1>2. TerminalType'
  BY DEF IInv, TypeOK, ThreadType, TerminalType, Turn, Ask, Tick
<1>3. StoreType'
  BY DEF IInv, TypeOK, StoreType, Turn, Ask, Tick
<1>4. BoundsType'
  BY DEF IInv, TypeOK, ThreadType, BoundsType, SignalInv, Turn, Ask, Tick
<1>5. (KindInv /\ SignalInv /\ SaveInv /\ ChildInv /\ TuiInv /\ CtrlCInv /\ ModeInv)'
  BY DEF IInv, TypeOK, ThreadType, TerminalType, StoreType, BoundsType, KindInv,
      SignalInv, HardExitOnlyRepeated, SaveInv, KeysSurvive, ChildInv, TuiInv, CtrlCInv,
      ModeInv, RawBefore, Turn, Ask, Tick
<1> QED
  BY <1>1, <1>2, <1>3, <1>4, <1>5 DEF IInv, TypeOK

LEMMA EventsIInv == ASSUME IInv, Events PROVE IInv'
<1>1. ThreadType'
  BY DEF IInv, TypeOK, ThreadType, KindInv, Turn, Ask, Events
<1>2. TerminalType'
  BY DEF IInv, TypeOK, ThreadType, TerminalType, Turn, Ask, Events
<1>3. StoreType'
  BY DEF IInv, TypeOK, StoreType, Turn, Ask, Events
<1>4. BoundsType'
  BY DEF IInv, TypeOK, ThreadType, BoundsType, SignalInv, Turn, Ask, Events
<1>5. (KindInv /\ SignalInv /\ SaveInv /\ ChildInv /\ TuiInv /\ CtrlCInv /\ ModeInv)'
  BY DEF IInv, TypeOK, ThreadType, TerminalType, StoreType, BoundsType, KindInv,
      SignalInv, HardExitOnlyRepeated, SaveInv, KeysSurvive, ChildInv, TuiInv, CtrlCInv,
      ModeInv, RawBefore, Turn, Ask, Events
<1> QED
  BY <1>1, <1>2, <1>3, <1>4, <1>5 DEF IInv, TypeOK

LEMMA DrawIInv == ASSUME IInv, Draw PROVE IInv'
<1>1. ThreadType'
  BY DEF IInv, TypeOK, ThreadType, KindInv, Turn, LoopFails, IoFails, Draw
<1>2. TerminalType'
  BY DEF IInv, TypeOK, ThreadType, TerminalType, Turn, LoopFails, IoFails, Draw
<1>3. StoreType'
  BY DEF IInv, TypeOK, StoreType, Turn, LoopFails, IoFails, Draw
<1>4. BoundsType'
  BY DEF IInv, TypeOK, ThreadType, BoundsType, SignalInv, Turn, LoopFails, IoFails, Draw
<1>5. (KindInv /\ SignalInv /\ SaveInv /\ ChildInv /\ TuiInv /\ CtrlCInv /\ ModeInv)'
  BY DEF IInv, TypeOK, ThreadType, TerminalType, StoreType, BoundsType, KindInv,
      SignalInv, HardExitOnlyRepeated, SaveInv, KeysSurvive, ChildInv, TuiInv, CtrlCInv,
      ModeInv, RawBefore, Turn, LoopFails, IoFails, Draw
<1> QED
  BY <1>1, <1>2, <1>3, <1>4, <1>5 DEF IInv, TypeOK

LEMMA NoKeyIInv == ASSUME IInv, NoKey PROVE IInv'
<1>1. ThreadType'
  BY DEF IInv, TypeOK, ThreadType, KindInv, Turn, LoopFails, IoFails, NoKey
<1>2. TerminalType'
  BY DEF IInv, TypeOK, ThreadType, TerminalType, Turn, LoopFails, IoFails, NoKey
<1>3. StoreType'
  BY DEF IInv, TypeOK, StoreType, Turn, LoopFails, IoFails, NoKey
<1>4. BoundsType'
  BY DEF IInv, TypeOK, ThreadType, BoundsType, SignalInv, Turn, LoopFails, IoFails,
      NoKey
<1>5. (KindInv /\ SignalInv /\ SaveInv /\ ChildInv /\ TuiInv /\ CtrlCInv /\ ModeInv)'
  BY DEF IInv, TypeOK, ThreadType, TerminalType, StoreType, BoundsType, KindInv,
      SignalInv, HardExitOnlyRepeated, SaveInv, KeysSurvive, ChildInv, TuiInv, CtrlCInv,
      ModeInv, RawBefore, Turn, LoopFails, IoFails, NoKey
<1> QED
  BY <1>1, <1>2, <1>3, <1>4, <1>5 DEF IInv, TypeOK

LEMMA KeyIInv == ASSUME IInv, Key PROVE IInv'
<1>1. ThreadType'
  BY DEF IInv, TypeOK, ThreadType, KindInv, Turn, Ask, Key
<1>2. TerminalType'
  BY DEF IInv, TypeOK, ThreadType, TerminalType, Turn, Ask, Key
<1>3. StoreType'
  BY DEF IInv, TypeOK, StoreType, Turn, Ask, Key
<1>4. BoundsType'
  BY DEF IInv, TypeOK, ThreadType, BoundsType, SignalInv, Turn, Ask, Key
<1>5. (KindInv /\ SignalInv /\ SaveInv /\ ChildInv /\ TuiInv /\ CtrlCInv /\ ModeInv)'
  BY DEF IInv, TypeOK, ThreadType, TerminalType, StoreType, BoundsType, KindInv,
      SignalInv, HardExitOnlyRepeated, SaveInv, KeysSurvive, ChildInv, TuiInv, CtrlCInv,
      ModeInv, RawBefore, Turn, Ask, Key
<1> QED
  BY <1>1, <1>2, <1>3, <1>4, <1>5 DEF IInv, TypeOK

-----------------------------------------------------------------------------
(* A hand-off.                                                             *)

LEMMA SuspendIInv == ASSUME IInv, Suspend PROVE IInv'
<1>1. ThreadType'
  BY DEF IInv, TypeOK, ThreadType, KindInv, DisableRaw, RawBefore, Step, ReturnsEarly,
      HandStep, IoFails, Suspend
<1>2. TerminalType'
  <2>1. CASE DisableRaw(tty.screen)
    BY <2>1 DEF IInv, TypeOK, ThreadType, TerminalType, DisableRaw, RawBefore, Step,
        ReturnsEarly, HandStep, IoFails, Suspend
  <2>2. CASE UNCHANGED <<tty, saved>>
    BY <2>2 DEF IInv, TypeOK, ThreadType, TerminalType, DisableRaw, RawBefore, Step,
        ReturnsEarly, HandStep, IoFails, Suspend
  <2> QED
    BY <2>1, <2>2 DEF Suspend, HandStep
<1>3. StoreType'
  BY DEF IInv, TypeOK, StoreType, DisableRaw, RawBefore, Step, ReturnsEarly, HandStep,
      IoFails, Suspend
<1>4. BoundsType'
  BY DEF IInv, TypeOK, ThreadType, BoundsType, SignalInv, DisableRaw, RawBefore, Step,
      ReturnsEarly, HandStep, IoFails, Suspend
<1>5. (KindInv /\ SignalInv /\ SaveInv /\ ChildInv /\ TuiInv /\ CtrlCInv /\ ModeInv)'
  BY DEF IInv, TypeOK, ThreadType, TerminalType, StoreType, BoundsType, KindInv,
      SignalInv, HardExitOnlyRepeated, SaveInv, KeysSurvive, ChildInv, TuiInv, CtrlCInv,
      ModeInv, RawBefore, DisableRaw, RawBefore, Step, ReturnsEarly, HandStep, IoFails,
      Suspend
<1> QED
  BY <1>1, <1>2, <1>3, <1>4, <1>5 DEF IInv, TypeOK

LEMMA SuspendScreenIInv == ASSUME IInv, SuspendScreen PROVE IInv'
<1>1. ThreadType'
  BY DEF IInv, TypeOK, ThreadType, KindInv, SetScreen, Step, ReturnsEarly, HandStep,
      IoFails, SuspendScreen
<1>2. TerminalType'
  BY DEF IInv, TypeOK, ThreadType, TerminalType, SetScreen, Step, ReturnsEarly,
      HandStep, IoFails, SuspendScreen
<1>3. StoreType'
  BY DEF IInv, TypeOK, StoreType, SetScreen, Step, ReturnsEarly, HandStep, IoFails,
      SuspendScreen
<1>4. BoundsType'
  BY DEF IInv, TypeOK, ThreadType, BoundsType, SignalInv, SetScreen, Step, ReturnsEarly,
      HandStep, IoFails, SuspendScreen
<1>5. (KindInv /\ SignalInv /\ SaveInv /\ ChildInv /\ TuiInv /\ CtrlCInv /\ ModeInv)'
  BY DEF IInv, TypeOK, ThreadType, TerminalType, StoreType, BoundsType, KindInv,
      SignalInv, HardExitOnlyRepeated, SaveInv, KeysSurvive, ChildInv, TuiInv, CtrlCInv,
      ModeInv, RawBefore, SetScreen, Step, ReturnsEarly, HandStep, IoFails,
      SuspendScreen
<1> QED
  BY <1>1, <1>2, <1>3, <1>4, <1>5 DEF IInv, TypeOK

LEMMA SpawnIInv == ASSUME IInv, Spawn PROVE IInv'
  BY DEF IInv, TypeOK, ThreadType, TerminalType, StoreType, BoundsType, KindInv,
      SignalInv, HardExitOnlyRepeated, SaveInv, KeysSurvive, ChildInv, TuiInv, CtrlCInv,
      ModeInv, RawBefore, Spawn

LEMMA WaitChildIInv == ASSUME IInv, WaitChild PROVE IInv'
<1>1. ThreadType'
  BY DEF IInv, TypeOK, ThreadType, KindInv, Reaped, Killed, LeftRunning, IoFails,
      WaitChild
<1>2. TerminalType'
  <2>1. CASE Reaped("clear")
    BY <2>1 DEF IInv, TypeOK, ThreadType, TerminalType, Reaped, Killed, LeftRunning,
        IoFails, WaitChild
  <2>2. CASE child = "running" /\ TerminateRequested /\ Killed("clear", TRUE)
    BY <2>2 DEF IInv, TypeOK, ThreadType, TerminalType, Reaped, Killed, LeftRunning,
        IoFails, WaitChild
  <2>3. CASE LeftRunning("clear")
    BY <2>3 DEF IInv, TypeOK, ThreadType, TerminalType, Reaped, Killed, LeftRunning,
        IoFails, WaitChild
  <2> QED
    BY <2>1, <2>2, <2>3 DEF WaitChild
<1>3. StoreType'
  BY DEF IInv, TypeOK, StoreType, Reaped, Killed, LeftRunning, IoFails, WaitChild
<1>4. BoundsType'
  BY DEF IInv, TypeOK, ThreadType, BoundsType, SignalInv, Reaped, Killed, LeftRunning,
      IoFails, WaitChild
<1>5. (KindInv /\ SignalInv /\ SaveInv /\ ChildInv /\ TuiInv /\ CtrlCInv /\ ModeInv)'
  BY DEF IInv, TypeOK, ThreadType, TerminalType, StoreType, BoundsType, KindInv,
      SignalInv, HardExitOnlyRepeated, SaveInv, KeysSurvive, ChildInv, TuiInv, CtrlCInv,
      ModeInv, RawBefore, Reaped, Killed, LeftRunning, IoFails, WaitChild
<1> QED
  BY <1>1, <1>2, <1>3, <1>4, <1>5 DEF IInv, TypeOK

LEMMA ClearInterruptIInv == ASSUME IInv, ClearInterrupt PROVE IInv'
<1>1. ThreadType'
  BY DEF IInv, TypeOK, ThreadType, KindInv, ClearInterrupt
<1>2. TerminalType'
  BY DEF IInv, TypeOK, ThreadType, TerminalType, ClearInterrupt
<1>3. StoreType'
  BY DEF IInv, TypeOK, StoreType, ClearInterrupt
<1>4. BoundsType'
  BY DEF IInv, TypeOK, ThreadType, BoundsType, SignalInv, ClearInterrupt
<1>5. (KindInv /\ SignalInv /\ SaveInv /\ ChildInv /\ TuiInv /\ CtrlCInv /\ ModeInv)'
  BY DEF IInv, TypeOK, ThreadType, TerminalType, StoreType, BoundsType, KindInv,
      SignalInv, HardExitOnlyRepeated, SaveInv, KeysSurvive, ChildInv, TuiInv, CtrlCInv,
      ModeInv, RawBefore, ClearInterrupt
<1> QED
  BY <1>1, <1>2, <1>3, <1>4, <1>5 DEF IInv, TypeOK

LEMMA PauseRawIInv == ASSUME IInv, PauseRaw PROVE IInv'
<1>1. ThreadType'
  BY DEF IInv, TypeOK, ThreadType, KindInv, EnableRaw, Step, ReturnsEarly, HandStep,
      IoFails, PauseRaw
<1>2. TerminalType'
  BY DEF IInv, TypeOK, ThreadType, TerminalType, EnableRaw, Step, ReturnsEarly,
      HandStep, IoFails, PauseRaw
<1>3. StoreType'
  BY DEF IInv, TypeOK, StoreType, EnableRaw, Step, ReturnsEarly, HandStep, IoFails,
      PauseRaw
<1>4. BoundsType'
  BY DEF IInv, TypeOK, ThreadType, BoundsType, SignalInv, EnableRaw, Step, ReturnsEarly,
      HandStep, IoFails, PauseRaw
<1>5. (KindInv /\ SignalInv /\ SaveInv /\ ChildInv /\ TuiInv /\ CtrlCInv /\ ModeInv)'
  BY DEF IInv, TypeOK, ThreadType, TerminalType, StoreType, BoundsType, KindInv,
      SignalInv, HardExitOnlyRepeated, SaveInv, KeysSurvive, ChildInv, TuiInv, CtrlCInv,
      ModeInv, RawBefore, EnableRaw, Step, ReturnsEarly, HandStep, IoFails, PauseRaw
<1> QED
  BY <1>1, <1>2, <1>3, <1>4, <1>5 DEF IInv, TypeOK

LEMMA PauseEndsIInv == ASSUME IInv, PauseEnds PROVE IInv'
<1>1. ThreadType'
  BY DEF IInv, TypeOK, ThreadType, KindInv, Step, ReturnsEarly, HandStep, IoFails,
      PauseEnds
<1>2. TerminalType'
  <2>1. CASE TerminateRequested /\ Step("pause", "resume")
    BY <2>1 DEF IInv, TypeOK, ThreadType, TerminalType, Step, ReturnsEarly, HandStep,
        IoFails, PauseEnds
  <2>2. CASE ReturnsEarly("pause")
    BY <2>2 DEF IInv, TypeOK, ThreadType, TerminalType, Step, ReturnsEarly, HandStep,
        IoFails, PauseEnds
  <2> QED
    BY <2>1, <2>2 DEF PauseEnds, HandStep
<1>3. StoreType'
  BY DEF IInv, TypeOK, StoreType, Step, ReturnsEarly, HandStep, IoFails, PauseEnds
<1>4. BoundsType'
  BY DEF IInv, TypeOK, ThreadType, BoundsType, SignalInv, Step, ReturnsEarly, HandStep,
      IoFails, PauseEnds
<1>5. (KindInv /\ SignalInv /\ SaveInv /\ ChildInv /\ TuiInv /\ CtrlCInv /\ ModeInv)'
  BY DEF IInv, TypeOK, ThreadType, TerminalType, StoreType, BoundsType, KindInv,
      SignalInv, HardExitOnlyRepeated, SaveInv, KeysSurvive, ChildInv, TuiInv, CtrlCInv,
      ModeInv, RawBefore, Step, ReturnsEarly, HandStep, IoFails, PauseEnds
<1> QED
  BY <1>1, <1>2, <1>3, <1>4, <1>5 DEF IInv, TypeOK

LEMMA PauseKeyIInv == ASSUME IInv, PauseKey PROVE IInv'
  BY DEF IInv, TypeOK, ThreadType, TerminalType, StoreType, BoundsType, KindInv,
      SignalInv, HardExitOnlyRepeated, SaveInv, KeysSurvive, ChildInv, TuiInv, CtrlCInv,
      ModeInv, RawBefore, Step, ReturnsEarly, HandStep, IoFails, PauseKey

LEMMA ResumeIInv == ASSUME IInv, Resume PROVE IInv'
<1>1. ThreadType'
  BY DEF IInv, TypeOK, ThreadType, KindInv, EnableRaw, Step, ReturnsEarly, HandStep,
      IoFails, Resume
<1>2. TerminalType'
  BY DEF IInv, TypeOK, ThreadType, TerminalType, EnableRaw, Step, ReturnsEarly,
      HandStep, IoFails, Resume
<1>3. StoreType'
  BY DEF IInv, TypeOK, StoreType, EnableRaw, Step, ReturnsEarly, HandStep, IoFails,
      Resume
<1>4. BoundsType'
  BY DEF IInv, TypeOK, ThreadType, BoundsType, SignalInv, EnableRaw, Step, ReturnsEarly,
      HandStep, IoFails, Resume
<1>5. (KindInv /\ SignalInv /\ SaveInv /\ ChildInv /\ TuiInv /\ CtrlCInv /\ ModeInv)'
  BY DEF IInv, TypeOK, ThreadType, TerminalType, StoreType, BoundsType, KindInv,
      SignalInv, HardExitOnlyRepeated, SaveInv, KeysSurvive, ChildInv, TuiInv, CtrlCInv,
      ModeInv, RawBefore, EnableRaw, Step, ReturnsEarly, HandStep, IoFails, Resume
<1> QED
  BY <1>1, <1>2, <1>3, <1>4, <1>5 DEF IInv, TypeOK

LEMMA ResumeScreenIInv == ASSUME IInv, ResumeScreen PROVE IInv'
<1>1. ThreadType'
  BY DEF IInv, TypeOK, ThreadType, KindInv, SetScreen, Step, ReturnsEarly, HandStep,
      IoFails, ResumeScreen
<1>2. TerminalType'
  BY DEF IInv, TypeOK, ThreadType, TerminalType, SetScreen, Step, ReturnsEarly,
      HandStep, IoFails, ResumeScreen
<1>3. StoreType'
  BY DEF IInv, TypeOK, StoreType, SetScreen, Step, ReturnsEarly, HandStep, IoFails,
      ResumeScreen
<1>4. BoundsType'
  BY DEF IInv, TypeOK, ThreadType, BoundsType, SignalInv, SetScreen, Step, ReturnsEarly,
      HandStep, IoFails, ResumeScreen
<1>5. (KindInv /\ SignalInv /\ SaveInv /\ ChildInv /\ TuiInv /\ CtrlCInv /\ ModeInv)'
  BY DEF IInv, TypeOK, ThreadType, TerminalType, StoreType, BoundsType, KindInv,
      SignalInv, HardExitOnlyRepeated, SaveInv, KeysSurvive, ChildInv, TuiInv, CtrlCInv,
      ModeInv, RawBefore, SetScreen, Step, ReturnsEarly, HandStep, IoFails, ResumeScreen
<1> QED
  BY <1>1, <1>2, <1>3, <1>4, <1>5 DEF IInv, TypeOK

LEMMA PlayStartIInv == ASSUME IInv, PlayStart PROVE IInv'
<1>1. ThreadType'
  BY DEF IInv, TypeOK, ThreadType, KindInv, EnableRaw, IoFails, PlayStart
<1>2. TerminalType'
  BY DEF IInv, TypeOK, ThreadType, TerminalType, EnableRaw, IoFails, PlayStart
<1>3. StoreType'
  BY DEF IInv, TypeOK, StoreType, EnableRaw, IoFails, PlayStart
<1>4. BoundsType'
  BY DEF IInv, TypeOK, ThreadType, BoundsType, SignalInv, EnableRaw, IoFails, PlayStart
<1>5. (KindInv /\ SignalInv /\ SaveInv /\ ChildInv /\ TuiInv /\ CtrlCInv /\ ModeInv)'
  BY DEF IInv, TypeOK, ThreadType, TerminalType, StoreType, BoundsType, KindInv,
      SignalInv, HardExitOnlyRepeated, SaveInv, KeysSurvive, ChildInv, TuiInv, CtrlCInv,
      ModeInv, RawBefore, EnableRaw, IoFails, PlayStart
<1> QED
  BY <1>1, <1>2, <1>3, <1>4, <1>5 DEF IInv, TypeOK

LEMMA PlayEndsIInv == ASSUME IInv, PlayEnds PROVE IInv'
<1>1. ThreadType'
  BY DEF IInv, TypeOK, ThreadType, KindInv, Reaped, Killed, LeftRunning, IoFails,
      PlayStep, PlayEnds
<1>2. TerminalType'
  <2>1. CASE Reaped("report")
    BY <2>1 DEF IInv, TypeOK, ThreadType, TerminalType, Reaped, Killed, LeftRunning,
        IoFails, PlayStep, PlayEnds
  <2>2. CASE child = "running" /\ TerminateRequested /\ Killed("report", FALSE)
    BY <2>2 DEF IInv, TypeOK, ThreadType, TerminalType, Reaped, Killed, LeftRunning,
        IoFails, PlayStep, PlayEnds
  <2>3. CASE LeftRunning("report")
    BY <2>3 DEF IInv, TypeOK, ThreadType, TerminalType, Reaped, Killed, LeftRunning,
        IoFails, PlayStep, PlayEnds
  <2> QED
    BY <2>1, <2>2, <2>3 DEF PlayEnds
<1>3. StoreType'
  BY DEF IInv, TypeOK, StoreType, Reaped, Killed, LeftRunning, IoFails, PlayStep,
      PlayEnds
<1>4. BoundsType'
  BY DEF IInv, TypeOK, ThreadType, BoundsType, SignalInv, Reaped, Killed, LeftRunning,
      IoFails, PlayStep, PlayEnds
<1>5. (KindInv /\ SignalInv /\ SaveInv /\ ChildInv /\ TuiInv /\ CtrlCInv /\ ModeInv)'
  BY DEF IInv, TypeOK, ThreadType, TerminalType, StoreType, BoundsType, KindInv,
      SignalInv, HardExitOnlyRepeated, SaveInv, KeysSurvive, ChildInv, TuiInv, CtrlCInv,
      ModeInv, RawBefore, Reaped, Killed, LeftRunning, IoFails, PlayStep, PlayEnds
<1> QED
  BY <1>1, <1>2, <1>3, <1>4, <1>5 DEF IInv, TypeOK

LEMMA StopKeyIInv == ASSUME IInv, StopKey PROVE IInv'
  BY DEF IInv, TypeOK, ThreadType, TerminalType, StoreType, BoundsType, KindInv,
      SignalInv, HardExitOnlyRepeated, SaveInv, KeysSurvive, ChildInv, TuiInv, CtrlCInv,
      ModeInv, RawBefore, Killed, PlayStep, StopKey

LEMMA ReportIInv == ASSUME IInv, Report PROVE IInv'
  BY DEF IInv, TypeOK, ThreadType, TerminalType, StoreType, BoundsType, KindInv,
      SignalInv, HardExitOnlyRepeated, SaveInv, KeysSurvive, ChildInv, TuiInv, CtrlCInv,
      ModeInv, RawBefore, Report

-----------------------------------------------------------------------------
(* A save.                                                                 *)

LEMMA SaveReadIInv == ASSUME IInv, SaveRead PROVE IInv'
<1>1. ThreadType'
  BY DEF IInv, TypeOK, ThreadType, KindInv, FileFails, Parsed, SaveRead
<1>2. TerminalType'
  BY DEF IInv, TypeOK, ThreadType, TerminalType, FileFails, Parsed, SaveRead
<1>3. StoreType'
  BY DEF IInv, TypeOK, StoreType, FileFails, Parsed, SaveRead
<1>4. BoundsType'
  BY DEF IInv, TypeOK, ThreadType, BoundsType, SignalInv, FileFails, Parsed, SaveRead
<1>5. (KindInv /\ SignalInv /\ SaveInv /\ ChildInv /\ TuiInv /\ CtrlCInv /\ ModeInv)'
  BY DEF IInv, TypeOK, ThreadType, TerminalType, StoreType, BoundsType, KindInv,
      SignalInv, HardExitOnlyRepeated, SaveInv, KeysSurvive, ChildInv, TuiInv, CtrlCInv,
      ModeInv, RawBefore, FileFails, Parsed, SaveRead
<1> QED
  BY <1>1, <1>2, <1>3, <1>4, <1>5 DEF IInv, TypeOK

LEMMA SaveTruncateIInv == ASSUME IInv, SaveTruncate PROVE IInv'
<1>1. ThreadType'
  BY DEF IInv, TypeOK, ThreadType, KindInv, FileFails, SaveTruncate
<1>2. TerminalType'
  BY DEF IInv, TypeOK, ThreadType, TerminalType, FileFails, SaveTruncate
<1>3. StoreType'
  BY DEF IInv, TypeOK, StoreType, FileFails, SaveTruncate
<1>4. BoundsType'
  BY DEF IInv, TypeOK, ThreadType, BoundsType, SignalInv, FileFails, SaveTruncate
<1>5. (KindInv /\ SignalInv /\ SaveInv /\ ChildInv /\ TuiInv /\ CtrlCInv /\ ModeInv)'
  BY DEF IInv, TypeOK, ThreadType, TerminalType, StoreType, BoundsType, KindInv,
      SignalInv, HardExitOnlyRepeated, SaveInv, KeysSurvive, ChildInv, TuiInv, CtrlCInv,
      ModeInv, RawBefore, FileFails, SaveTruncate
<1> QED
  BY <1>1, <1>2, <1>3, <1>4, <1>5 DEF IInv, TypeOK

LEMMA SaveWriteIInv == ASSUME IInv, SaveWrite PROVE IInv'
<1>1. ThreadType'
  BY DEF IInv, TypeOK, ThreadType, KindInv, FileFails, SaveWrite
<1>2. TerminalType'
  BY DEF IInv, TypeOK, ThreadType, TerminalType, FileFails, SaveWrite
<1>3. StoreType'
  BY DEF IInv, TypeOK, StoreType, FileFails, SaveWrite
<1>4. BoundsType'
  BY DEF IInv, TypeOK, ThreadType, BoundsType, SignalInv, FileFails, SaveWrite
<1>5. (KindInv /\ SignalInv /\ SaveInv /\ ChildInv /\ TuiInv /\ CtrlCInv /\ ModeInv)'
  BY DEF IInv, TypeOK, ThreadType, TerminalType, StoreType, BoundsType, KindInv,
      SignalInv, HardExitOnlyRepeated, SaveInv, KeysSurvive, ChildInv, TuiInv, CtrlCInv,
      ModeInv, RawBefore, FileFails, SaveWrite
<1> QED
  BY <1>1, <1>2, <1>3, <1>4, <1>5 DEF IInv, TypeOK

-----------------------------------------------------------------------------
(* The end.                                                                *)

LEMMA StopProxiesIInv == ASSUME IInv, StopProxies PROVE IInv'
  BY DEF IInv, TypeOK, ThreadType, TerminalType, StoreType, BoundsType, KindInv,
      SignalInv, HardExitOnlyRepeated, SaveInv, KeysSurvive, ChildInv, TuiInv, CtrlCInv,
      ModeInv, RawBefore, Turn, StopProxies

LEMMA RestoreTerminalIInv == ASSUME IInv, RestoreTerminal PROVE IInv'
  BY DEF IInv, TypeOK, ThreadType, TerminalType, StoreType, BoundsType, KindInv,
      SignalInv, HardExitOnlyRepeated, SaveInv, KeysSurvive, ChildInv, TuiInv, CtrlCInv,
      ModeInv, RawBefore, DisableRaw, RawBefore, RestoreTerminal

LEMMA DropAppIInv == ASSUME IInv, DropApp PROVE IInv'
  BY DEF IInv, TypeOK, ThreadType, TerminalType, StoreType, BoundsType, KindInv,
      SignalInv, HardExitOnlyRepeated, SaveInv, KeysSurvive, ChildInv, TuiInv, CtrlCInv,
      ModeInv, RawBefore, Turn, DropApp

LEMMA PanicIInv == ASSUME IInv, Panic PROVE IInv'
<1>1. ThreadType'
  BY DEF IInv, TypeOK, ThreadType, KindInv, DisableRaw, RawBefore, Panic
<1>2. TerminalType'
  BY DEF IInv, TypeOK, ThreadType, TerminalType, DisableRaw, RawBefore, Panic
<1>3. StoreType'
  BY DEF IInv, TypeOK, StoreType, DisableRaw, RawBefore, Panic
<1>4. BoundsType'
  BY DEF IInv, TypeOK, ThreadType, BoundsType, SignalInv, DisableRaw, RawBefore, Panic
<1>5. (KindInv /\ SignalInv /\ SaveInv /\ ChildInv /\ TuiInv /\ CtrlCInv /\ ModeInv)'
  BY DEF IInv, TypeOK, ThreadType, TerminalType, StoreType, BoundsType, KindInv,
      SignalInv, HardExitOnlyRepeated, SaveInv, KeysSurvive, ChildInv, TuiInv, CtrlCInv,
      ModeInv, RawBefore, DisableRaw, RawBefore, Panic
<1> QED
  BY <1>1, <1>2, <1>3, <1>4, <1>5 DEF IInv, TypeOK

-----------------------------------------------------------------------------
(* The user, the commands and the system.                                  *)

LEMMA ChildModeIInv == ASSUME IInv, ChildMode PROVE IInv'
<1>1. ThreadType'
  BY DEF IInv, TypeOK, ThreadType, KindInv, ChildMode
<1>2. TerminalType'
  BY DEF IInv, TypeOK, ThreadType, TerminalType, ChildMode
<1>3. StoreType'
  BY DEF IInv, TypeOK, StoreType, ChildMode
<1>4. BoundsType'
  BY DEF IInv, TypeOK, ThreadType, BoundsType, SignalInv, ChildMode
<1>5. (KindInv /\ SignalInv /\ SaveInv /\ ChildInv /\ TuiInv /\ CtrlCInv /\ ModeInv)'
  BY DEF IInv, TypeOK, ThreadType, TerminalType, StoreType, BoundsType, KindInv,
      SignalInv, HardExitOnlyRepeated, SaveInv, KeysSurvive, ChildInv, TuiInv, CtrlCInv,
      ModeInv, RawBefore, ChildMode
<1> QED
  BY <1>1, <1>2, <1>3, <1>4, <1>5 DEF IInv, TypeOK

LEMMA ChildExitsIInv == ASSUME IInv, ChildExits PROVE IInv'
<1>1. ThreadType'
  BY DEF IInv, TypeOK, ThreadType, KindInv, ChildExits
<1>2. TerminalType'
  <2>1. CASE pc = "wait"
    BY <2>1 DEF IInv, TypeOK, ThreadType, TerminalType, ChildExits
  <2>2. CASE pc # "wait"
    BY <2>2 DEF IInv, TypeOK, ThreadType, TerminalType, ChildExits
  <2> QED
    BY <2>1, <2>2 DEF ChildExits
<1>3. StoreType'
  BY DEF IInv, TypeOK, StoreType, ChildExits
<1>4. BoundsType'
  BY DEF IInv, TypeOK, ThreadType, BoundsType, SignalInv, ChildExits
<1>5. (KindInv /\ SignalInv /\ SaveInv /\ ChildInv /\ TuiInv /\ CtrlCInv /\ ModeInv)'
  BY DEF IInv, TypeOK, ThreadType, TerminalType, StoreType, BoundsType, KindInv,
      SignalInv, HardExitOnlyRepeated, SaveInv, KeysSurvive, ChildInv, TuiInv, CtrlCInv,
      ModeInv, RawBefore, ChildExits
<1> QED
  BY <1>1, <1>2, <1>3, <1>4, <1>5 DEF IInv, TypeOK

LEMMA DeliverIInv == ASSUME IInv, Deliver PROVE IInv'
<1>1. ThreadType'
  BY DEF IInv, TypeOK, ThreadType, KindInv, HardExit, Deliver
<1>2. TerminalType'
  <2>1. CASE ~installed \/ terminate
    BY <2>1 DEF IInv, TypeOK, ThreadType, TerminalType, HardExit, Deliver
  <2>2. CASE installed /\ ~terminate
    BY <2>2 DEF IInv, TypeOK, ThreadType, TerminalType, HardExit, Deliver
  <2> QED
    BY <2>1, <2>2 DEF Deliver
<1>3. StoreType'
  BY DEF IInv, TypeOK, StoreType, HardExit, Deliver
<1>4. BoundsType'
  BY DEF IInv, TypeOK, ThreadType, BoundsType, SignalInv, HardExit, Deliver
<1>5. (KindInv /\ SignalInv /\ SaveInv /\ ChildInv /\ TuiInv /\ CtrlCInv /\ ModeInv)'
  BY DEF IInv, TypeOK, ThreadType, TerminalType, StoreType, BoundsType, KindInv,
      SignalInv, HardExitOnlyRepeated, SaveInv, KeysSurvive, ChildInv, TuiInv, CtrlCInv,
      ModeInv, RawBefore, HardExit, Deliver
<1> QED
  BY <1>1, <1>2, <1>3, <1>4, <1>5 DEF IInv, TypeOK

LEMMA InterruptIInv == ASSUME IInv, Interrupt PROVE IInv'
<1>1. ThreadType'
  BY DEF IInv, TypeOK, ThreadType, KindInv, HardExit, Interrupt
<1>2. TerminalType'
  BY DEF IInv, TypeOK, ThreadType, TerminalType, HardExit, Interrupt
<1>3. StoreType'
  BY DEF IInv, TypeOK, StoreType, HardExit, Interrupt
<1>4. BoundsType'
  BY DEF IInv, TypeOK, ThreadType, BoundsType, SignalInv, HardExit, Interrupt
<1>5. (KindInv /\ SignalInv /\ SaveInv /\ ChildInv /\ TuiInv /\ CtrlCInv /\ ModeInv)'
  BY DEF IInv, TypeOK, ThreadType, TerminalType, StoreType, BoundsType, KindInv,
      SignalInv, HardExitOnlyRepeated, SaveInv, KeysSurvive, ChildInv, TuiInv, CtrlCInv,
      ModeInv, RawBefore, HardExit, Interrupt
<1> QED
  BY <1>1, <1>2, <1>3, <1>4, <1>5 DEF IInv, TypeOK

LEMMA LoseTerminalIInv == ASSUME IInv, LoseTerminal PROVE IInv'
  BY DEF IInv, TypeOK, ThreadType, TerminalType, StoreType, BoundsType, KindInv,
      SignalInv, HardExitOnlyRepeated, SaveInv, KeysSurvive, ChildInv, TuiInv, CtrlCInv,
      ModeInv, RawBefore, LoseTerminal

LEMMA RestartIInv == ASSUME IInv, Restart PROVE IInv'
<1>1. ThreadType'
  BY DEF IInv, TypeOK, ThreadType, KindInv, Restart
<1>2. TerminalType'
  <2>1. tty' \in [raw : BOOLEAN, screen : BOOLEAN] /\ saved' \in {"none", "cooked", "raw"}
    BY DEF Restart
  <2>2. signals' \in 0..2 /\ ctrlC' \subseteq {"child", "late", "outside"}
    BY DEF Restart
  <2>3. /\ installed' \in BOOLEAN /\ terminate' \in BOOLEAN /\ interrupt' \in BOOLEAN /\ lost' \in BOOLEAN
        /\ broken' \in BOOLEAN /\ abandoned' \in BOOLEAN /\ keptRaw' \in BOOLEAN
        /\ notEntered' \in BOOLEAN
    BY DEF Restart
  <2> QED
    BY <2>1, <2>2, <2>3 DEF TerminalType
<1>3. StoreType'
  BY DEF IInv, TypeOK, StoreType, Restart
<1>4. BoundsType'
  BY DEF IInv, TypeOK, ThreadType, BoundsType, SignalInv, Restart
<1>5. (KindInv /\ SignalInv /\ SaveInv /\ ChildInv /\ TuiInv /\ CtrlCInv /\ ModeInv)'
  BY DEF IInv, TypeOK, ThreadType, TerminalType, StoreType, BoundsType, KindInv,
      SignalInv, HardExitOnlyRepeated, SaveInv, KeysSurvive, ChildInv, TuiInv, CtrlCInv,
      ModeInv, RawBefore, Restart
<1> QED
  BY <1>1, <1>2, <1>3, <1>4, <1>5 DEF IInv, TypeOK

LEMMA StutterIInv == ASSUME IInv, UNCHANGED vars PROVE IInv'
  BY DEF IInv, TypeOK, ThreadType, TerminalType, StoreType, BoundsType, KindInv, SignalInv,
      HardExitOnlyRepeated, SaveInv, KeysSurvive, ChildInv, TuiInv, CtrlCInv, ModeInv, RawBefore, vars

-----------------------------------------------------------------------------

\* The initial states satisfy the inductive invariant.
THEOREM InitIInv == Init => IInv
<1> SUFFICES ASSUME Init PROVE IInv
  OBVIOUS
<1>1. ThreadType /\ StoreType /\ BoundsType
  BY DEF Init, ThreadType, StoreType, BoundsType
<1>2. TerminalType
  <2>1. tty \in [raw : BOOLEAN, screen : BOOLEAN] /\ saved \in {"none", "cooked", "raw"}
    BY DEF Init
  <2>2. signals \in 0..2 /\ ctrlC \subseteq {"child", "late", "outside"}
    BY DEF Init
  <2> QED
    BY <2>1, <2>2 DEF Init, TerminalType
<1>3. KindInv /\ SignalInv /\ SaveInv /\ ChildInv /\ TuiInv /\ CtrlCInv /\ ModeInv
  BY DEF Init, KindInv, SignalInv, HardExitOnlyRepeated, SaveInv, KeysSurvive, ChildInv, TuiInv,
      CtrlCInv, ModeInv, RawBefore
<1> QED
  BY <1>1, <1>2, <1>3 DEF IInv, TypeOK

\* Every step of the program, its users and its commands keeps it.
THEOREM NextIInv == ASSUME IInv, [Next]_vars PROVE IInv'
<1>1. ASSUME Main PROVE IInv'
  BY <1>1, LoadConfigIInv, LocateIInv, ProbeAndBootstrapIInv, InstallIInv, EnterIInv, EnterScreenIInv,
     CheckShutdownIInv, TickIInv, EventsIInv, DrawIInv, NoKeyIInv,
     SuspendIInv, SuspendScreenIInv, SpawnIInv, WaitChildIInv, ClearInterruptIInv,
     PauseRawIInv, PauseEndsIInv, ResumeIInv, ResumeScreenIInv, PlayStartIInv, PlayEndsIInv, ReportIInv,
     SaveReadIInv, SaveTruncateIInv, SaveWriteIInv, StopProxiesIInv, RestoreTerminalIInv, DropAppIInv
  DEF Main
<1>2. ASSUME Keyboard PROVE IInv'
  BY <1>2, KeyIInv, PauseKeyIInv, StopKeyIInv DEF Keyboard
<1> QED
  BY <1>1, <1>2, PanicIInv, ChildModeIInv, ChildExitsIInv, DeliverIInv, InterruptIInv,
     LoseTerminalIInv, RestartIInv, StutterIInv DEF Next

THEOREM Invariance == Spec => []IInv
  BY InitIInv, NextIInv, PTL DEF Spec

\* A hand-off gives the TUI back the terminal it took, and a Ctrl-C meant for the
\* command (run_interactive, clear_interrupt).
THEOREM TuiGetsItsTerminalBack == Spec => []TuiIsItself
<1>1. IInv => TuiIsItself
  BY DEF IInv, TuiIsItself, TypeOK, ThreadType, TuiInv, CtrlCInv, DrawsInTuiMode, CtrlCIsTheChilds
<1> QED
  BY <1>1, Invariance, PTL

\* The terminal is restored on every orderly way out (TerminalGuard, the panic hook).
THEOREM TerminalIsRestored == Spec => []TerminalRestored
<1>1. IInv => TerminalRestored
  BY DEF IInv, TypeOK, TerminalType, TerminalRestored, ModeInv, RawBefore
<1> QED
  BY <1>1, Invariance, PTL

\* The first SIGHUP or SIGTERM after install never ends the program by itself.
THEOREM OneSignalIsOrderly == Spec => []HardExitOnlyRepeated
<1>1. IInv => HardExitOnlyRepeated
  BY DEF IInv, SignalInv
<1> QED
  BY <1>1, Invariance, PTL

\* No command has the terminal together with the TUI (wait_child, play_recording).
THEOREM NoCommandIsLeft == Spec => []NoChildLeft
<1>1. IInv => NoChildLeft
  BY DEF IInv, NoChildLeft, ChildInv
<1> QED
  BY <1>1, Invariance, PTL

\* A key of config.toml the settings do not edit is lost only by a fault or a hard
\* exit (ConfigFileStore::save), over any number of starts.
THEOREM OtherKeysSurvive == Spec => []KeysSurvive
<1>1. IInv => KeysSurvive
  BY DEF IInv, SaveInv
<1> QED
  BY <1>1, Invariance, PTL

=============================================================================
