------------------------ MODULE ActionEffectsProofs ------------------------
(***************************************************************************)
(* Proofs about ActionEffects: the types, and that no order of actions,    *)
(* keys and steps of the main thread loses what an action has reported     *)
(* done, whatever the files are.  NothingForgotten relates the marks to    *)
(* what is owed; that it survives m68k_go, leave_program and the window's  *)
(* close button needs to know which marks are possible where, MarksInv.    *)
(***************************************************************************)
EXTENDS ActionEffects, TLAPS

\* m68k_go and leave_program are reached with a mark that says why, no mark is
\* acted on before the emulation has started, and a restart is a quit.
MarksInv ==
    /\ phase = "go" => quit_program > 0
    /\ phase = "leave" => quit_program = UAE_QUIT
    /\ phase = "startgui" => quit_program <= 0
    /\ Restarting => Quitting

\* The two parts of NothingForgotten.
LiveInv == \A what \in owed \ given_up : OnItsWay(what)

LeavingInv ==
    (owed \cap {"quit", "stop", "restart"}) \cup (given_up \ {"load"}) # {} => Quitting

EffectsInv == TypeOK /\ MarksInv /\ LiveInv /\ LeavingInv

\* TypeOK in parts, which the provers treat apart.
FlagTypes ==
    /\ leaving \in BOOLEAN /\ opened_late \in BOOLEAN
    /\ emulating \in BOOLEAN /\ pause_after_gui \in BOOLEAN

OwedTypes ==
    /\ owed_reset \in {0} \cup Resets
    /\ owed \subseteq {"reset", "load", "quit", "stop", "restart"}
    /\ given_up \subseteq owed

RestTypes ==
    /\ phase \in {"events", "keys", "resume", "frame", "input", "vsync", "gui", "go",
                  "leave", "startgui", "ended"}
    /\ gui_from \in {"resume", "vsync"}
    /\ quit_program \in -UAE_RESET_HARD..UAE_RESET_HARD
    /\ restart_program \in {0, 2, 3}
    /\ savestate_state \in {"none", "SAVE", "DORESTORE", "RESTORE", "DOREWIND", "REWIND"}
    /\ savestate_fname \in Files /\ load_file \in Files \cup {NoFile}
    /\ pause_emulation \in {0, 1, 3, 7, 9} /\ was_paused \in {0, 1, 3, 7, 9}

LEMMA TypeParts == TypeOK <=> FlagTypes /\ OwedTypes /\ RestTypes
  BY DEF TypeOK, FlagTypes, OwedTypes, RestTypes

LEMMA TypePartsPrimed == TypeOK' <=> FlagTypes' /\ OwedTypes' /\ RestTypes'
  BY DEF TypeOK, FlagTypes, OwedTypes, RestTypes

USE DEF UAE_QUIT, UAE_RESET, UAE_RESET_KEYBOARD, UAE_RESET_HARD, Resets

LEMMA EffectsInvInit == Init => EffectsInv
<1>. SUFFICES ASSUME Init PROVE EffectsInv
  OBVIOUS
<1>1. TypeOK
  <2>1. FlagTypes  BY DEF Init, FlagTypes
  <2>2. OwedTypes  BY DEF Init, OwedTypes
  <2>3. RestTypes  BY DEF Init, RestTypes
  <2>. QED  BY <2>1, <2>2, <2>3, TypeParts
<1>2. MarksInv /\ LiveInv /\ LeavingInv
  BY DEF Init, MarksInv, LiveInv, LeavingInv, Restarting, Quitting
<1>. QED  BY <1>1, <1>2 DEF EffectsInv

-----------------------------------------------------------------------------
(* The executors. *)

LEMMA RequestedTypes ==
    ASSUME opened_late \in BOOLEAN, Requested
    PROVE  leaving' \in BOOLEAN /\ opened_late' \in BOOLEAN
  BY DEF Requested

LEMMA ResetKeeps ==
    ASSUME EffectsInv, NEW level \in Resets, Reset(level)
    PROVE  EffectsInv'
<1>1. TypeOK'
  <2>1. FlagTypes'
    BY TypeParts, RequestedTypes
       DEF Reset, pause, EffectsInv, FlagTypes
  <2>2. OwedTypes'
    BY TypeParts
       DEF Reset, ResetOwed, Owes, Stronger, EffectsInv, OwedTypes
  <2>3. RestTypes'
    BY TypeParts
       DEF Reset, ResetOwed, Owes, Stronger, Requested, ResetPending, pause,
           state, EffectsInv, RestTypes
  <2>. QED  BY <2>1, <2>2, <2>3, TypePartsPrimed
<1>2. MarksInv' /\ LiveInv' /\ LeavingInv'
  BY DEF Reset, ResetOwed, Owes, Stronger, Requested, ResetPending, Draining,
     pause, state, EffectsInv, TypeOK, MarksInv, LiveInv, LeavingInv,
     OnItsWay, Restarting, Quitting, Magnitude
<1>. QED  BY <1>1, <1>2 DEF EffectsInv

LEMMA PauseResumeKeep ==
    ASSUME EffectsInv, Pause \/ Resume \/ PauseKey
    PROVE  EffectsInv'
<1>1. TypeOK'
  <2>1. FlagTypes'
    BY TypeParts
       DEF Pause, Resume, PauseKey, ui, EffectsInv, FlagTypes
  <2>2. OwedTypes'
    BY TypeParts
       DEF Pause, Resume, PauseKey, history, EffectsInv, OwedTypes
  <2>3. RestTypes'
    BY TypeParts
       DEF Pause, Resume, PauseKey, ui, marks, state, history, EffectsInv,
           RestTypes
  <2>. QED  BY <2>1, <2>2, <2>3, TypePartsPrimed
<1>2. MarksInv' /\ LiveInv' /\ LeavingInv'
  BY DEF Pause, Resume, PauseKey, ui, marks, state, history, EffectsInv, TypeOK,
     MarksInv, LiveInv, LeavingInv, OnItsWay, Restarting, Quitting,
     Magnitude
<1>. QED  BY <1>1, <1>2 DEF EffectsInv

LEMMA SaveLoadKeep ==
    ASSUME EffectsInv, SaveState \/ (\E file \in Files : LoadState(file))
    PROVE  EffectsInv'
<1>1. TypeOK'
  <2>1. FlagTypes'
    BY TypeParts, RequestedTypes
       DEF SaveState, LoadState, ui, pause, EffectsInv, FlagTypes
  <2>2. OwedTypes'
    BY TypeParts
       DEF SaveState, LoadState, Owes, history, EffectsInv, OwedTypes
  <2>3. RestTypes'
    BY TypeParts
       DEF SaveState, LoadState, Owes, Requested, ui, marks, pause, history,
           EffectsInv, RestTypes
  <2>. QED  BY <2>1, <2>2, <2>3, TypePartsPrimed
<1>2. MarksInv' /\ LiveInv' /\ LeavingInv'
  <2>1. CASE SaveState
    BY <2>1 DEF SaveState, ui, marks, pause, history, EffectsInv, TypeOK, MarksInv,
       LiveInv, LeavingInv, OnItsWay, Restarting, Quitting, Magnitude
  <2>2. CASE \E file \in Files : LoadState(file)
    BY <2>2 DEF LoadState, Owes, Requested, Draining, pause, EffectsInv, TypeOK,
       MarksInv, LiveInv, LeavingInv, OnItsWay, Restarting, Quitting,
       Magnitude
  <2>. QED  BY <2>1, <2>2
<1>. QED  BY <1>1, <1>2 DEF EffectsInv

LEMMA LeavingKeeps ==
    ASSUME EffectsInv, Quit \/ Stop \/ ApplyReset \/ ApplyRestart
    PROVE  EffectsInv'
<1>1. TypeOK'
  <2>1. FlagTypes'
    BY TypeParts, RequestedTypes
       DEF Quit, Stop, ApplyReset, ApplyRestart, Restart, ui, pause,
           EffectsInv, FlagTypes
  <2>2. OwedTypes'
    BY TypeParts
       DEF Quit, Stop, ApplyReset, ApplyRestart, Restart, ResetOwed, Owes,
           Stronger, EffectsInv, OwedTypes
  <2>3. RestTypes'
    BY TypeParts
       DEF Quit, Stop, ApplyReset, ApplyRestart, Restart, ResetOwed, Owes,
           Stronger, Requested, ui, state, pause, EffectsInv, RestTypes
  <2>. QED  BY <2>1, <2>2, <2>3, TypePartsPrimed
<1>2. MarksInv' /\ LiveInv' /\ LeavingInv'
  <2>1. CASE Quit
    BY <2>1 DEF Quit, Owes, Requested, Draining, state, pause, EffectsInv, TypeOK,
       MarksInv, LiveInv, LeavingInv, OnItsWay, Restarting, Quitting,
       Magnitude
  <2>2. CASE Stop
    BY <2>2 DEF Stop, Restart, Owes, Requested, Draining, pause, EffectsInv, TypeOK,
       MarksInv, LiveInv, LeavingInv, OnItsWay, Restarting, Quitting,
       Magnitude
  <2>3. CASE ApplyReset
    BY <2>3 DEF ApplyReset, ResetOwed, Owes, Stronger, ResetPending, Requested,
       Draining, state, pause, EffectsInv, TypeOK, MarksInv, LiveInv,
       LeavingInv, OnItsWay, Restarting, Quitting, Magnitude
  <2>4. CASE ApplyRestart
    BY <2>4 DEF ApplyRestart, Restart, Owes, ResetPending, Requested, Draining,
       state, pause, EffectsInv, TypeOK, MarksInv, LiveInv, LeavingInv,
       OnItsWay, Restarting, Quitting, Magnitude
  <2>. QED  BY <2>1, <2>2, <2>3, <2>4
<1>. QED  BY <1>1, <1>2 DEF EffectsInv

-----------------------------------------------------------------------------
(* What is given up: LoadConfig, the user and the guest. *)

LEMMA GivesUpIsExact ==
    ASSUME EffectsInv, GivesUp
    PROVE  OwedTypes' /\ LiveInv'
<1>1. OwedTypes'
  BY TypeParts DEF EffectsInv, OwedTypes, GivesUp
<1>2. LiveInv'
  BY DEF GivesUp, LiveInv
<1>. QED  BY <1>1, <1>2

\* Where the marks stay as they are, only a load can be given up.
LEMMA StateStepsKeep ==
    ASSUME EffectsInv, LoadConfig \/ UserSave \/ UserRestores
    PROVE  EffectsInv'
<1>1. GivesUp /\ UNCHANGED <<phase, ui, marks, emulating, pause>>
  BY DEF LoadConfig, UserSave, UserRestores, UserLoad, UserRewind, UserConfig,
     ReadConfig
<1>2. OwedTypes' /\ LiveInv'
  BY <1>1, GivesUpIsExact
<1>3. TypeOK'
  <2>1. FlagTypes'
    BY <1>1, TypeParts DEF EffectsInv, FlagTypes, ui, pause
  <2>2. RestTypes'
    BY <1>1, TypeParts DEF EffectsInv, RestTypes, ui, marks, pause, GivesUp,
       LoadConfig, UserSave, UserRestores, UserLoad, UserRewind, UserConfig,
       ReadConfig
  <2>. QED  BY <1>2, <2>1, <2>2, TypePartsPrimed
<1>4. MarksInv' /\ LeavingInv'
  BY <1>1 DEF EffectsInv, TypeOK, MarksInv, LiveInv, LeavingInv, GivesUp, OnItsWay,
     Restarting, Quitting, Magnitude, marks
<1>. QED  BY <1>2, <1>3, <1>4 DEF EffectsInv

\* A quit or a restart is Quitting, whatever it takes the place of.
LEMMA UserLeavesKeeps ==
    ASSUME EffectsInv, UserQuit \/ UserRestart
    PROVE  EffectsInv'
<1>1. GivesUp /\ UNCHANGED <<phase, gui_from, state, pause>>
  BY DEF UserQuit, UserRestart
<1>2. OwedTypes' /\ LiveInv'
  BY <1>1, GivesUpIsExact
<1>3. TypeOK'
  <2>1. FlagTypes'
    BY <1>1, TypeParts, RequestedTypes DEF EffectsInv, FlagTypes, UserQuit,
       UserRestart, Restart, pause
  <2>2. RestTypes'
    BY <1>1, TypeParts DEF EffectsInv, RestTypes, UserQuit, UserRestart, Restart,
       state, pause, GivesUp
  <2>. QED  BY <1>2, <2>1, <2>2, TypePartsPrimed
<1>4. MarksInv' /\ LeavingInv'
  BY <1>1 DEF EffectsInv, MarksInv, LeavingInv, UserQuit, UserRestart, Restart,
     UserTurn, Restarting, Quitting
<1>. QED  BY <1>2, <1>3, <1>4 DEF EffectsInv

LEMMA UserResetKeeps ==
    ASSUME EffectsInv, NEW level \in Resets, UserReset(level)
    PROVE  EffectsInv'
<1>1. TypeOK'
  <2>1. FlagTypes'
    BY TypeParts, RequestedTypes
       DEF UserReset, pause, EffectsInv, FlagTypes
  <2>2. OwedTypes'
    BY TypeParts
       DEF UserReset, history, EffectsInv, OwedTypes
  <2>3. RestTypes'
    BY TypeParts
       DEF UserReset, Requested, state, pause, history, EffectsInv,
           RestTypes
  <2>. QED  BY <2>1, <2>2, <2>3, TypePartsPrimed
<1>2. MarksInv' /\ LiveInv' /\ LeavingInv'
  BY DEF UserReset, UserTurn, Requested, state, history, EffectsInv, TypeOK,
     MarksInv, LiveInv, LeavingInv, OnItsWay, Restarting, Quitting,
     Magnitude
<1>. QED  BY <1>1, <1>2 DEF EffectsInv

LEMMA GuiKeeps ==
    ASSUME EffectsInv, OpenGui \/ CloseGui \/ LeaveStartGui \/ GuestSave
    PROVE  EffectsInv'
<1>1. TypeOK'
  <2>1. FlagTypes'
    BY TypeParts
       DEF OpenGui, CloseGui, LeaveStartGui, GuestSave, ui, pause,
           EffectsInv, FlagTypes
  <2>2. OwedTypes'
    BY TypeParts
       DEF OpenGui, CloseGui, LeaveStartGui, GuestSave, history, EffectsInv,
           OwedTypes
  <2>3. RestTypes'
    BY TypeParts
       DEF OpenGui, CloseGui, LeaveStartGui, GuestSave, AfterKeys, ui,
           marks, state, pause, history, EffectsInv, RestTypes
  <2>. QED  BY <2>1, <2>2, <2>3, TypePartsPrimed
<1>2. MarksInv' /\ LiveInv' /\ LeavingInv'
  <2>1. CASE OpenGui
    BY <2>1 DEF OpenGui, marks, state, history, EffectsInv, TypeOK, MarksInv,
       LiveInv, LeavingInv, OnItsWay, Restarting, Quitting, Magnitude
  <2>2. CASE CloseGui
    BY <2>2 DEF CloseGui, ui, marks, history, EffectsInv, TypeOK, MarksInv, LiveInv,
       LeavingInv, OnItsWay, Restarting, Quitting, Magnitude
  <2>3. CASE LeaveStartGui
    BY <2>3 DEF LeaveStartGui, state, history, EffectsInv, TypeOK, MarksInv, LiveInv,
       LeavingInv, OnItsWay, Restarting, Quitting, Magnitude
  <2>4. CASE GuestSave
    BY <2>4 DEF GuestSave, ui, marks, history, EffectsInv, TypeOK, MarksInv, LiveInv,
       LeavingInv, OnItsWay, Restarting, Quitting, Magnitude
  <2>. QED  BY <2>1, <2>2, <2>3, <2>4
<1>. QED  BY <1>1, <1>2 DEF EffectsInv

-----------------------------------------------------------------------------
(* The main thread. *)

LEMMA EventsKeep ==
    ASSUME EffectsInv, HandleEvents \/ KeysDone \/ ResumeEvents
    PROVE  EffectsInv'
<1>1. TypeOK'
  <2>1. FlagTypes'
    BY TypeParts
       DEF HandleEvents, KeysDone, ResumeEvents, ui, pause, EffectsInv,
           FlagTypes
  <2>2. OwedTypes'
    BY TypeParts
       DEF HandleEvents, KeysDone, ResumeEvents, history, EffectsInv,
           OwedTypes
  <2>3. RestTypes'
    BY TypeParts
       DEF HandleEvents, KeysDone, ResumeEvents, AfterKeys, ui, marks,
           state, pause, history, EffectsInv, RestTypes
  <2>. QED  BY <2>1, <2>2, <2>3, TypePartsPrimed
<1>2. MarksInv' /\ LiveInv' /\ LeavingInv'
  BY DEF HandleEvents, KeysDone, ResumeEvents, AfterKeys, ui, marks, state,
     history, EffectsInv, TypeOK, MarksInv, LiveInv, LeavingInv, OnItsWay,
     Restarting, Quitting, Magnitude
<1>. QED  BY <1>1, <1>2 DEF EffectsInv

LEMMA LinesKeep ==
    ASSUME EffectsInv, EndOfLine \/ Vsync
    PROVE  EffectsInv'
<1>1. TypeOK'
  <2>1. FlagTypes'
    BY TypeParts
       DEF EndOfLine, Vsync, ui, pause, EffectsInv, FlagTypes
  <2>2. OwedTypes'
    BY TypeParts
       DEF EndOfLine, Vsync, history, EffectsInv, OwedTypes
  <2>3. RestTypes'
    BY TypeParts
       DEF EndOfLine, Vsync, ResetPending, Magnitude, ui, state, pause,
           history, EffectsInv, RestTypes
  <2>. QED  BY <2>1, <2>2, <2>3, TypePartsPrimed
<1>2. MarksInv' /\ LiveInv' /\ LeavingInv'
  <2>1. CASE EndOfLine
    BY <2>1 DEF EndOfLine, ResetPending, state, history, EffectsInv, TypeOK,
       MarksInv, LiveInv, LeavingInv, OnItsWay, Restarting, Quitting,
       Magnitude
  <2>2. CASE Vsync
    BY <2>2 DEF Vsync, history, EffectsInv, TypeOK, MarksInv, LiveInv, LeavingInv,
       OnItsWay, Restarting, Quitting, Magnitude
  <2>. QED  BY <2>1, <2>2
<1>. QED  BY <1>1, <1>2 DEF EffectsInv

\* What is live when a reset begins is carried out by it.
LEMMA GoKeeps ==
    ASSUME EffectsInv, Go
    PROVE  EffectsInv'
<1>1. TypeOK'
  <2>1. FlagTypes'
    BY TypeParts
       DEF Go, ui, pause, EffectsInv, FlagTypes
  <2>2. OwedTypes'
    BY TypeParts
       DEF Go, CarriedOut, RestoreRuns, history, EffectsInv, OwedTypes
  <2>3. RestTypes'
    BY TypeParts
       DEF Go, CarriedOut, RestoreRuns, ui, pause, history, EffectsInv,
           RestTypes
  <2>. QED  BY <2>1, <2>2, <2>3, TypePartsPrimed
<1>2. MarksInv' /\ LiveInv' /\ LeavingInv'
  BY DEF Go, CarriedOut, RestoreRuns, history, EffectsInv, TypeOK, MarksInv,
     LiveInv, LeavingInv, OnItsWay, Restarting, Quitting, Magnitude
<1>. QED  BY <1>1, <1>2 DEF EffectsInv

\* And what is live when the emulation is left, by leaving it, but for a load, which
\* waits for the restart.
LEMMA LeaveProgramKeeps ==
    ASSUME EffectsInv, LeaveProgram
    PROVE  EffectsInv'
<1>1. TypeOK'
  <2>1. FlagTypes'
    BY TypeParts
       DEF LeaveProgram, ui, pause, EffectsInv, FlagTypes
  <2>2. OwedTypes'
    BY TypeParts
       DEF LeaveProgram, CarriedOut, EffectsInv, OwedTypes
  <2>3. RestTypes'
    BY TypeParts
       DEF LeaveProgram, CarriedOut, ui, state, pause, EffectsInv, RestTypes
  <2>. QED  BY <2>1, <2>2, <2>3, TypePartsPrimed
<1>2. MarksInv' /\ LiveInv' /\ LeavingInv'
  BY DEF LeaveProgram, CarriedOut, state, EffectsInv, TypeOK, MarksInv, LiveInv,
     LeavingInv, OnItsWay, Restarting, Quitting, Magnitude
<1>. QED  BY <1>1, <1>2 DEF EffectsInv

-----------------------------------------------------------------------------
LEMMA EffectsInvStep == EffectsInv /\ [Next]_vars => EffectsInv'
<1>. SUFFICES ASSUME EffectsInv, [Next]_vars PROVE EffectsInv'
  OBVIOUS
<1>1. CASE Execute
  BY <1>1, ResetKeeps, PauseResumeKeep, SaveLoadKeep, LeavingKeeps, StateStepsKeep
     DEF Execute
<1>2. CASE MainStep
  BY <1>2, EventsKeep, LinesKeep, GoKeeps, LeaveProgramKeeps DEF MainStep
<1>3. CASE PauseKey
  BY <1>3, PauseResumeKeep
<1>4. CASE UserQuit \/ UserRestart
  BY <1>4, UserLeavesKeeps
<1>5. CASE UserSave \/ UserRestores
  BY <1>5, StateStepsKeep
<1>6. CASE OpenGui \/ CloseGui \/ LeaveStartGui \/ GuestSave
  BY <1>6, GuiKeeps
<1>7. CASE \E level \in Resets : UserReset(level)
  BY <1>7, UserResetKeeps
<1>8. CASE UNCHANGED vars
  <2>1. TypeOK'
    BY <1>8 DEF vars, ui, marks, state, pause, history, EffectsInv, TypeOK
  <2>2. MarksInv' /\ LiveInv' /\ LeavingInv'
    BY <1>8 DEF vars, marks, state, history, EffectsInv, MarksInv, LiveInv,
       LeavingInv, OnItsWay, Restarting, Quitting, Magnitude
  <2>. QED  BY <2>1, <2>2 DEF EffectsInv
<1>. QED  BY <1>1, <1>2, <1>3, <1>4, <1>5, <1>6, <1>7, <1>8 DEF Next

(* The inductive invariant holds in every behaviour. *)
THEOREM EffectsInvariant == Spec => []EffectsInv
  BY EffectsInvInit, EffectsInvStep, PTL DEF Spec

(* The marks of the main thread keep their types. *)
THEOREM TypeCorrect == Spec => []TypeOK
<1>1. EffectsInv => TypeOK  BY DEF EffectsInv
<1>. QED  BY <1>1, EffectsInvariant, PTL

(* What an action of amiberry_actions.cpp has reported done stays on its way until
   the main thread carries it out, unless a later quit, stop or restart, LOAD_CONFIG
   or the user takes its place; and what the user can take away is bounded. *)
THEOREM NothingIsForgotten == Spec => []NothingForgotten
<1>1. EffectsInv => NothingForgotten
  BY DEF EffectsInv, LiveInv, LeavingInv, NothingForgotten
<1>. QED  BY <1>1, EffectsInvariant, PTL
=============================================================================
