--------------------------- MODULE ActionEffects ---------------------------
(***************************************************************************)
(* What runtime actions do (the executors of amiberry_actions.cpp, which   *)
(* run one by one in posting order, see ActionQueue) and how the main      *)
(* thread carries it out.  Resets, quits, restarts and state loads are     *)
(* only marked, in quit_program, restart_program and savestate_state;      *)
(* m68k_go and real_main act on the marks later.  Meanwhile more actions   *)
(* run: in the event loop of a frame, in the settings UI over the          *)
(* emulation, and in the one that shows when nothing runs.  And the user's *)
(* hotkeys, the buttons of the UI and the guest write the same marks; they *)
(* do not look for what an action has promised.                            *)
(*                                                                         *)
(* Left out: media, keys and display, which mark nothing; the debugger,    *)
(* which refuses state actions while it holds the CPU; input recordings    *)
(* and the libretro core, which have restores of their own.                *)
(***************************************************************************)
EXTENDS Integers

CONSTANT Files   \* state files, by name

NoFile == "none"

ASSUME FilesAssumption == Files # {} /\ NoFile \notin Files

\* Values of quit_program; negative until m68k_go may act on them.
UAE_QUIT == 1
UAE_RESET == 2
UAE_RESET_KEYBOARD == 3
UAE_RESET_HARD == 4
Resets == UAE_RESET..UAE_RESET_HARD

VARIABLES
    phase,            \* of the main thread: "frame" (the lines of a frame); "input"
                      \* and "vsync"; "events", "keys" and "resume" (handle_events);
                      \* "gui" (gui_display); "go" (the top of m68k_go); "leave",
                      \* "startgui" (gui_init), "ended"
    gui_from,         \* where the main thread goes on after gui_display
    leaving,          \* a request has been made in the open UI
    opened_late,      \* history: the UI was opened over a request
    quit_program,
    restart_program,  \* 0, 2 (restart without UI) or 3 (the UI opens)
    savestate_state,  \* "none", "SAVE", or a restore or a rewind: of either one
                      \* until a vsync (DO...) and one until a reset
    savestate_fname,
    emulating,
    pause_emulation,  \* 0 or who paused: 1 and 9 the user, 3 an action, 7 the UI
    was_paused, pause_after_gui,
    owed,             \* history: what actions have reported done and the main
                      \* thread has not carried out,
    owed_reset,       \* the strongest reset of these, 0 if none,
    load_file,        \* the file of the load, NoFile if none,
    given_up          \* and those of them that something else has replaced

ui == <<gui_from, leaving, opened_late>>
pause == <<pause_emulation, was_paused, pause_after_gui>>
state == <<savestate_state, savestate_fname>>
marks == <<quit_program, restart_program>>
history == <<owed, owed_reset, load_file, given_up>>
vars == <<phase, ui, marks, state, emulating, pause, history>>

Init ==
    /\ phase = "startgui" /\ gui_from = "vsync"
    /\ leaving = FALSE /\ opened_late = FALSE
    /\ quit_program = 0 /\ restart_program = 0
    /\ savestate_state = "none" /\ savestate_fname \in Files
    /\ emulating = FALSE
    /\ pause_emulation = 0 /\ was_paused = 0 /\ pause_after_gui = FALSE
    /\ owed = {} /\ owed_reset = 0 /\ load_file = NoFile /\ given_up = {}

Quitting == quit_program \in {UAE_QUIT, -UAE_QUIT}
ResetPending == -quit_program \in Resets
Restarting == restart_program # 0
Magnitude == IF quit_program < 0 THEN -quit_program ELSE quit_program
Stronger(a, b) == IF a > b THEN a ELSE b

\* The marks that make the main thread carry out what an action has reported done.
OnItsWay(what) ==
    /\ what = "reset" => ~Quitting /\ owed_reset <= Magnitude
    /\ what = "load" =>
           /\ savestate_state \in {"DORESTORE", "RESTORE"} /\ savestate_fname = load_file
           /\ quit_program # 0 /\ (Quitting => restart_program = 2)
    /\ what = "quit" => Quitting /\ restart_program = 0
    /\ what = "restart" => Quitting /\ restart_program = 2
    /\ what = "stop" => Quitting /\ restart_program = 3

\* An action reports what it has marked; it may do so in the place of others.
Owes(what, others) ==
    /\ owed' = owed \cup {what}
    /\ given_up' = (given_up \cup (owed \cap others)) \ {what}

CarriedOut ==
    /\ owed_reset' = IF "reset" \in owed' THEN owed_reset ELSE 0
    /\ load_file' = IF "load" \in owed' THEN load_file ELSE NoFile
    /\ given_up' = {}

\* What this step has taken off its way is given up.
GivesUp ==
    /\ UNCHANGED <<owed, owed_reset, load_file>>
    /\ given_up' = given_up \cup {what \in owed : ~OnItsWay(what)'}

-----------------------------------------------------------------------------
(* The executors.  An action that fails changes nothing. *)

Draining == phase \in {"events", "gui", "startgui"}

\* emulation_requests, and gui_running: the settings UI gives way.
Requested == leaving' = (phase \in {"gui", "startgui"}) /\ UNCHANGED opened_late

ResetOwed(level) ==
    /\ owed_reset' = IF "reset" \in owed \ given_up THEN Stronger(owed_reset, level)
                     ELSE level
    /\ Owes("reset", {}) /\ UNCHANGED load_file

\* mutant: the later of two resets counts
ResetReplaces(level) ==
    /\ Draining /\ ~Restarting
    /\ quit_program = 0 \/ ResetPending
    /\ quit_program' = -level
    /\ ResetOwed(level) /\ Requested
    /\ UNCHANGED <<phase, gui_from, restart_program, state, emulating, pause>>

Reset(level) ==
    /\ Draining /\ ~Restarting
    /\ quit_program = 0 \/ ResetPending
    /\ quit_program' = IF -level < quit_program THEN -level ELSE quit_program
    /\ ResetOwed(level) /\ Requested
    /\ UNCHANGED <<phase, gui_from, restart_program, state, emulating, pause>>

Pause ==
    /\ Draining /\ ~Restarting
    /\ IF pause_emulation = 7
       THEN pause_after_gui' = TRUE /\ UNCHANGED pause_emulation
       ELSE /\ pause_emulation' = IF pause_emulation > 3 THEN pause_emulation ELSE 3
            /\ UNCHANGED pause_after_gui
    /\ UNCHANGED <<phase, ui, marks, state, emulating, was_paused, history>>

Resume ==
    /\ Draining /\ ~Restarting
    /\ \/ /\ pause_emulation = 7 /\ pause_after_gui
          /\ pause_after_gui' = FALSE /\ UNCHANGED pause_emulation
       \/ /\ pause_emulation <= 3
          /\ pause_emulation' = 0 /\ UNCHANGED pause_after_gui
    /\ UNCHANGED <<phase, ui, marks, state, emulating, was_paused, history>>

\* mutant: a save does not look for a state operation that waits
SaveOver ==
    /\ Draining /\ ~Restarting
    /\ savestate_fname' \in Files /\ savestate_state' = "none"
    /\ UNCHANGED <<phase, ui, marks, emulating, pause, history>>

\* save_state, save_state_slot, and load_state_slot of an empty slot, which only
\* writes the name.
SaveState ==
    /\ Draining /\ ~Restarting /\ savestate_state = "none"
    /\ savestate_fname' \in Files
    /\ UNCHANGED <<phase, ui, marks, savestate_state, emulating, pause, history>>

\* begin_restore asks for the reset that the restore runs in.
LoadState(file) ==
    /\ Draining /\ ~Restarting
    /\ ~Quitting /\ savestate_state = "none"
    /\ savestate_state' = "DORESTORE" /\ savestate_fname' = file
    /\ quit_program' = IF quit_program = 0 THEN -UAE_RESET ELSE quit_program
    /\ load_file' = file /\ Owes("load", {}) /\ Requested
    /\ UNCHANGED <<phase, gui_from, restart_program, emulating, pause, owed_reset>>

\* default_prefs ends the state operation that is pending, also a load just
\* reported done, and the file may name a state itself.
ReadConfig ==
    /\ savestate_state' \in {"none", "DORESTORE"} /\ savestate_fname' \in Files
    /\ UNCHANGED <<phase, ui, marks, emulating, pause>>

\* load_config, and quick_play of a configuration.
LoadConfig == Draining /\ ~Restarting /\ ReadConfig /\ GivesUp

\* A quit takes the place of everything else, a pending restart included.
Quit ==
    /\ Draining
    /\ quit_program' = -UAE_QUIT /\ restart_program' = 0
    /\ Owes("quit", owed) /\ Requested
    /\ UNCHANGED <<phase, gui_from, state, emulating, pause, owed_reset, load_file>>

\* mutant: uae_restart takes every kind for an automatic restart
RestartOther(kind) ==
    /\ quit_program' = -UAE_QUIT /\ restart_program' = 4
    /\ emulating' = FALSE /\ Requested

\* uae_restart and target_restart
Restart(kind) ==
    /\ quit_program' = -UAE_QUIT /\ restart_program' = kind
    /\ emulating' = FALSE /\ Requested

\* With the machine goes the load that waits for a reset.
Stop ==
    /\ Draining /\ ~Restarting /\ ~Quitting /\ emulating
    /\ savestate_state' = IF savestate_state \in {"DORESTORE", "RESTORE"} THEN "none"
                          ELSE savestate_state
    /\ Restart(3) /\ Owes("stop", owed)
    /\ UNCHANGED <<phase, gui_from, savestate_fname, pause, owed_reset, load_file>>

ApplyReset ==
    /\ Draining /\ ~Restarting /\ (quit_program = 0 \/ ResetPending)
    /\ emulating
    /\ quit_program' = -UAE_RESET_HARD
    /\ ResetOwed(UAE_RESET_HARD) /\ Requested
    /\ UNCHANGED <<phase, gui_from, restart_program, state, emulating, pause>>

\* A state load that waits happens in the emulation that starts.
ApplyRestart ==
    /\ Draining /\ ~Restarting /\ (quit_program = 0 \/ ResetPending)
    /\ emulating
    /\ Restart(2) /\ Owes("restart", {"reset"})
    /\ UNCHANGED <<phase, gui_from, state, pause, owed_reset, load_file>>

Execute ==
    \/ \E level \in Resets : Reset(level)
    \/ \E file \in Files : LoadState(file)
    \/ Pause \/ Resume \/ SaveState \/ LoadConfig \/ Quit \/ Stop
    \/ ApplyReset \/ ApplyRestart

-----------------------------------------------------------------------------
(* The user and the guest.  Hotkeys are read at every vsync, and in
   handle_events while it is paused; a UI has its buttons; the guest runs in a
   frame.  None of them looks for what waits. *)

UserTurn == phase \in {"frame", "input", "keys", "gui", "startgui"}

AfterKeys == IF phase = "input" THEN "vsync" ELSE "resume"

\* pausemode, by AKS_PAUSE or the pause key
PauseKey ==
    /\ phase \in {"input", "keys"}
    /\ \/ pause_emulation' = 1
       \/ pause_emulation' = IF pause_emulation # 0 THEN 0 ELSE 9
    /\ UNCHANGED <<phase, ui, marks, state, emulating, was_paused, pause_after_gui,
                   history>>

\* uae_reset: ignored if something is pending.
UserReset(level) ==
    /\ UserTurn
    /\ quit_program' = IF quit_program = 0 THEN -level ELSE quit_program
    /\ Requested
    /\ UNCHANGED <<phase, gui_from, restart_program, state, emulating, pause, history>>

\* uae_quit: a restart that is pending stays.
UserQuit ==
    /\ UserTurn
    /\ quit_program' = -UAE_QUIT /\ Requested
    /\ UNCHANGED <<phase, gui_from, restart_program, state, emulating, pause>>
    /\ GivesUp

\* uae_restart, over whatever is pending: AKS_RESTART, files dropped on the window,
\* Reload, the wrong Kickstart.  (Of a kind 1 the configuration makes 2 or 3.)
UserRestart ==
    /\ UserTurn /\ \E kind \in {2, 3} : Restart(kind)
    /\ UNCHANGED <<phase, gui_from, state, pause>>
    /\ GivesUp

UserStateTurn == phase \in {"input", "keys"} \/ (phase = "gui" /\ emulating)

\* The quick keys and the buttons: save_state ends what was pending, also when it
\* fails, and a slot gives its name.
UserSave ==
    /\ UserStateTurn
    /\ savestate_fname' \in Files /\ savestate_state' = "none"
    /\ UNCHANGED <<phase, ui, marks, emulating, pause>>
    /\ GivesUp

\* They write the name even if there is no such file.
UserLoad ==
    /\ UserStateTurn
    /\ savestate_fname' \in Files /\ savestate_state' \in {"DORESTORE", savestate_state}
    /\ UNCHANGED <<phase, ui, marks, emulating, pause>>
    /\ GivesUp

\* AKS_STATEREWIND and AKS_STATECURRENT
UserRewind ==
    /\ phase \in {"input", "keys"}
    /\ savestate_state' = "DOREWIND"
    /\ UNCHANGED <<phase, ui, marks, savestate_fname, emulating, pause>>
    /\ GivesUp

\* The guest's statefile_save.
GuestSave ==
    /\ phase = "frame" /\ savestate_state = "none"
    /\ savestate_state' = "SAVE" /\ savestate_fname' \in Files
    /\ UNCHANGED <<phase, ui, marks, emulating, pause, history>>

UserConfig == phase \in {"gui", "startgui"} /\ ReadConfig /\ GivesUp

\* Keys, buttons and configurations that ask for a state.
UserRestores == UserLoad \/ UserRewind \/ UserConfig

OpenGui ==
    /\ phase \in {"input", "keys"} /\ phase' = "gui"
    /\ gui_from' = AfterKeys
    /\ leaving' = FALSE /\ opened_late' = (quit_program # 0)
    /\ pause_emulation' = IF pause_emulation > 7 THEN pause_emulation ELSE 7
    /\ UNCHANGED <<marks, state, emulating, was_paused, pause_after_gui, history>>

\* mutant: gui_update always names its own file
CloseGuiRenames ==
    /\ phase = "gui" /\ phase' = gui_from
    /\ pause_emulation' = CASE pause_emulation > 7 -> pause_emulation
                            [] pause_after_gui -> 3
                            [] OTHER -> 0
    /\ pause_after_gui' = FALSE
    /\ savestate_fname' \in Files
    /\ UNCHANGED <<ui, marks, savestate_state, emulating, was_paused, history>>

\* gui_update, resumepaused(7), then amiberry_actions_gui_closed.
CloseGui ==
    /\ phase = "gui" /\ phase' = gui_from
    /\ pause_emulation' = CASE pause_emulation > 7 -> pause_emulation
                            [] pause_emulation <= 7 /\ pause_after_gui -> 3
                            [] OTHER -> 0
    /\ pause_after_gui' = FALSE
    /\ IF savestate_state \in {"DORESTORE", "RESTORE"}
       THEN UNCHANGED savestate_fname ELSE savestate_fname' \in Files
    /\ UNCHANGED <<ui, marks, savestate_state, emulating, was_paused, history>>

-----------------------------------------------------------------------------
(* The main thread. *)

\* The UI that shows when nothing runs; do_start_program then asks for a reset,
\* which is a hard one as m68k_go begins with hardboot.
LeaveStartGui ==
    /\ phase = "startgui" /\ leaving' = FALSE /\ opened_late' = FALSE
    /\ IF quit_program = -UAE_QUIT
       THEN phase' = "leave" /\ quit_program' = UAE_QUIT /\ UNCHANGED emulating
       ELSE phase' = "go" /\ quit_program' = UAE_RESET_HARD /\ emulating' = TRUE
    /\ UNCHANGED <<gui_from, restart_program, state, pause, history>>

\* handle_events after its actions.
HandleEvents ==
    /\ phase = "events"
    /\ IF pause_emulation # 0 /\ was_paused = 0
       THEN was_paused' = pause_emulation /\ UNCHANGED phase
       ELSE /\ phase' = IF pause_emulation # 0 THEN "keys" ELSE "resume"
            /\ UNCHANGED was_paused
    /\ UNCHANGED <<ui, marks, state, emulating, pause_emulation, pause_after_gui,
                   history>>

KeysDone ==
    /\ phase \in {"input", "keys"} /\ phase' = AfterKeys
    /\ UNCHANGED <<ui, marks, state, emulating, pause, history>>

\* mutant: a pause lasts until it is taken back
ResumeIfUnpaused ==
    /\ phase = "resume"
    /\ IF was_paused # 0 /\ pause_emulation = 0
       THEN pause_emulation' = 0 /\ was_paused' = 0
       ELSE UNCHANGED <<pause_emulation, was_paused>>
    /\ phase' = IF pause_emulation' # 0 THEN "events" ELSE "frame"
    /\ UNCHANGED <<ui, marks, state, emulating, pause_after_gui, history>>

\* The end of handle_events: a pause lasts until it is taken back or something is
\* asked of the main loop.
ResumeEvents ==
    /\ phase = "resume"
    /\ IF was_paused # 0 /\ (pause_emulation = 0 \/ quit_program # 0)
       THEN pause_emulation' = 0 /\ was_paused' = 0
       ELSE UNCHANGED <<pause_emulation, was_paused>>
    /\ phase' = IF pause_emulation' # 0 THEN "events" ELSE "frame"
    /\ UNCHANGED <<ui, marks, state, emulating, pause_after_gui, history>>

\* The end of a line looks for resets.
EndOfLine ==
    /\ phase = "frame"
    /\ IF ResetPending THEN quit_program' = -quit_program /\ phase' = "go"
                       ELSE phase' = "input" /\ UNCHANGED quit_program
    /\ UNCHANGED <<ui, restart_program, state, emulating, pause, history>>

\* vsync_do, after the input codes: savestate_check, then uae_quit_check.
Vsync ==
    /\ phase = "vsync"
    /\ IF savestate_state \in {"DORESTORE", "DOREWIND"}
       THEN /\ savestate_state' = IF savestate_state = "DORESTORE" THEN "RESTORE"
                                  ELSE "REWIND"
            /\ quit_program' = IF quit_program = 0 THEN -UAE_RESET ELSE quit_program
            /\ phase' = "frame"
       ELSE /\ savestate_state' = IF savestate_state = "SAVE" THEN "none"
                                  ELSE savestate_state
            /\ quit_program' = Magnitude
            /\ phase' = IF quit_program < 0 THEN "go" ELSE "events"
    /\ UNCHANGED <<ui, restart_program, savestate_fname, emulating, pause, history>>

\* A restore or a rewind runs in the reset; a rewind, after its vsync.
RestoreRuns == savestate_state \in {"DORESTORE", "RESTORE", "REWIND"}

\* m68k_go: a reset covers the weaker ones and restores the state that waits.
Go ==
    /\ phase = "go"
    /\ IF quit_program = UAE_QUIT
       THEN phase' = "leave" /\ UNCHANGED <<quit_program, savestate_state, history>>
       ELSE /\ phase' = "frame" /\ quit_program' = 0
            /\ savestate_state' = IF RestoreRuns THEN "none" ELSE savestate_state
            /\ owed' = {what \in owed \ given_up :
                           /\ what = "reset" => owed_reset > quit_program
                           /\ what = "load" => ~RestoreRuns \/ savestate_state = "REWIND"
                                              \/ savestate_fname # load_file}
            /\ CarriedOut
    /\ UNCHANGED <<ui, restart_program, savestate_fname, emulating, pause>>

\* leave_program, and real_main goes round again if it should.
LeaveProgram ==
    /\ phase = "leave"
    /\ restart_program' = 0
    /\ phase' = CASE restart_program = 0 -> "ended"
                  [] restart_program = 2 -> "go"
                  [] restart_program = 3 -> "startgui"
    /\ quit_program' = IF restart_program = 2 THEN UAE_RESET_HARD ELSE 0
    /\ emulating' = (restart_program = 2)
    /\ owed' = (owed \ given_up) \ (CASE restart_program = 0 -> {"quit"}
                                       [] restart_program = 2 -> {"restart"}
                                       [] restart_program = 3 -> {"stop"})
    /\ CarriedOut
    /\ leaving' = FALSE /\ opened_late' = FALSE
    /\ UNCHANGED <<gui_from, state, pause>>

MainStep ==
    \/ HandleEvents \/ KeysDone \/ ResumeEvents \/ EndOfLine \/ Vsync \/ Go \/ LeaveProgram

Next ==
    \/ Execute \/ MainStep
    \/ PauseKey \/ UserQuit \/ UserRestart \/ UserSave \/ UserRestores \/ GuestSave
    \/ OpenGui \/ CloseGui \/ LeaveStartGui
    \/ \E level \in Resets : UserReset(level)

Spec == Init /\ [][Next]_vars

(* The main thread runs, and a UI in which a request was made closes.
   The user need close no other, except one opened over a request. *)
FairSpec ==
    /\ Spec
    /\ WF_vars(MainStep)
    /\ WF_vars((leaving \/ opened_late) /\ (CloseGui \/ LeaveStartGui))

-----------------------------------------------------------------------------
(* Type correctness. *)
TypeOK ==
    /\ phase \in {"events", "keys", "resume", "frame", "input", "vsync", "gui", "go",
                  "leave", "startgui", "ended"}
    /\ gui_from \in {"resume", "vsync"}
    /\ leaving \in BOOLEAN /\ opened_late \in BOOLEAN
    /\ quit_program \in -UAE_RESET_HARD..UAE_RESET_HARD
    /\ restart_program \in {0, 2, 3}
    /\ savestate_state \in {"none", "SAVE", "DORESTORE", "RESTORE", "DOREWIND", "REWIND"}
    /\ savestate_fname \in Files /\ load_file \in Files \cup {NoFile}
    /\ emulating \in BOOLEAN
    /\ pause_emulation \in {0, 1, 3, 7, 9} /\ was_paused \in {0, 1, 3, 7, 9}
    /\ pause_after_gui \in BOOLEAN
    /\ owed_reset \in {0} \cup Resets
    /\ owed \subseteq {"reset", "load", "quit", "stop", "restart"}
    /\ given_up \subseteq owed

(* What an action has reported done is on its way until the main thread carries it
   out, with the exceptions the code makes: an action that takes its place (a quit
   everything's, a stop everything's but a quit, a restart a reset's), a
   configuration that is read, which ends a load, and what the user asks for, in
   any order with the actions.  A reset is covered by one at least as strong; a load
   keeps its file and a reset to run in; after a quit nothing starts again.  And
   even the user cannot undo more: a reset is given up only for leaving the
   emulation, and a quit, stop or restart only for another way of leaving it. *)
NothingForgotten ==
    /\ \A what \in owed \ given_up : OnItsWay(what)
    /\ (owed \cap {"quit", "stop", "restart"}) \cup (given_up \ {"load"}) # {} => Quitting

(* And it does happen unless it is given up, also while the emulation is paused or
   the settings UI is open: both give way.  Only a user who asks for a state again
   and again can hold it up, because vsync_do looks for states before quits. *)
EverythingHappens ==
    \/ \A what \in {"reset", "load", "quit", "stop", "restart"} :
           (what \in owed) ~> (what \notin owed \/ what \in given_up)
    \/ []<><<UserRestores>>_vars
=============================================================================
