---------------------------- MODULE RobotStates ----------------------------
(***************************************************************************)
(* The state machine (lib/StateMachine), its transition policy             *)
(* (src/robot), the USB ownership of the SD card (lib/USBMassStorage) and  *)
(* the boot modes of ROBOT.  Three tasks meet here: state_machine calls    *)
(* run(), routine calls next(), and the shell executes commands.  run()    *)
(* and next() hold the transition mutex throughout; reportError() and the  *)
(* USB operations hold nothing.                                            *)
(*                                                                         *)
(* The OTA updater is reduced to what the policy asks of it: no session, a *)
(* session, a firmware write (module OtaUpdater has the rest).             *)
(***************************************************************************)
EXTENDS Integers, Sequences, FiniteSets, FiniteSetsExt

CONSTANTS
  HistoryDepth,  \* kHistoryDepth
  Requestable,   \* the states operators ask for with "state set"
  Chords,        \* the boot modes that are chosen by held buttons
  Modes,         \* comm_mode values the menu offers: 0 .. Modes - 1
  Serial,        \* the comm_mode that keeps the USB device installed
  Buttons        \* the buttons that are pressed, out of 0 .. 2

NONE   == "NONE"
States == {"SETUP", "WAIT", "CALIBRATE", "DEBUG", "RUN", "FINISH", "TELEMETRY",
           "ERROR", "COMM_CONFIG"}

ASSUME StatesAssumption ==
  /\ HistoryDepth \in Nat \ {0} /\ Modes \in Nat \ {0}
  /\ Serial \in 0 .. Modes - 1 /\ Buttons \subseteq 0 .. 2
  /\ Requestable \subseteq States
  /\ Chords \subseteq {"none", "menu", "ota", "usb"}

Row(from, mask, to) == [from |-> from, mask |-> mask, to |-> to]
transitionTable ==
  << Row("WAIT", {0}, "RUN"), Row("WAIT", {1}, "CALIBRATE"), Row("WAIT", {2}, "DEBUG"),
     Row("RUN", {0}, "FINISH"), Row("DEBUG", {0}, "FINISH"),
     Row("FINISH", {1}, "TELEMETRY"), Row("FINISH", {0}, "WAIT"),
     Row("ERROR", {0, 1, 2}, "TELEMETRY") >>

VARIABLES
  state, requested, locked, history,
  mutex,     \* holder of transitionMutex_
  machine,   \* where run() is, and the state it found
  routine,   \* where next() is, the state it found, the state it will store
  shell,     \* the gated command the shell task is in
  usb,       \* where each task is in a USB operation, and the mount point it read
  mount, access, session, driver,   \* mount point; app_has_access_; session_active_; TinyUSB
  ota, test,
  menu,      \* COMM_CONFIG: the comm_config_* fields
  mode,      \* comm_mode in settings.conf
  escaped    \* history: DEBUG was left by an error, or while a command or upload began

policy  == <<state, requested, locked, history, mutex, machine, routine>>
card    == <<mount, access, session, driver>>
vars    == <<policy, shell, usb, card, ota, test, menu, mode, escaped>>

Out     == [at |-> "idle", from |-> NONE]
Idle    == [at |-> "idle", from |-> NONE, to |-> NONE]
NoOp    == [at |-> "none", read |-> "app"]
NoMenu  == [active |-> FALSE, selected |-> 0, restart |-> FALSE]

is_exposed == session /\ ~access
is_active  == session \/ driver = "session"

\* recordTransition(): the ring of the latest transitions, newest last.
recordTransition(from, to) ==
  history' = IF from = to THEN history
             ELSE LET h == Append(history, [from |-> from, to |-> to])
                  IN IF Len(h) > HistoryDepth THEN Tail(h) ELSE h

-----------------------------------------------------------------------------
(* Boot.  A held button starts its mode only if the mode can start.        *)

Boot(chord, started) ==
  LET storage == chord = "usb" /\ started IN
  /\ state' = CASE chord = "menu" -> "COMM_CONFIG"
                [] chord \in {"ota", "usb"} /\ started -> "DEBUG"
                [] OTHER -> "SETUP"
  /\ requested' = NONE /\ locked' = FALSE /\ history' = <<>>
  /\ mutex' = "free" /\ machine' = Out /\ routine' = Idle /\ shell' = "idle"
  /\ usb' = [t \in {"machine", "shell"} |-> NoOp]
  /\ mount' = IF storage THEN "usb" ELSE "app"
  /\ access' = ~storage /\ session' = storage
  /\ driver' = CASE mode = Serial -> "persistent" [] storage -> "session" [] OTHER -> "none"
  /\ ota' = IF chord = "ota" /\ started THEN "session" ELSE "idle"
  /\ test' = FALSE /\ menu' = NoMenu /\ escaped' = FALSE

Init ==
  /\ state = "SETUP" /\ requested = NONE /\ locked = FALSE /\ history = <<>>
  /\ mutex = "free" /\ machine = Out /\ routine = Idle /\ shell = "idle"
  /\ usb = [t \in {"machine", "shell"} |-> NoOp]
  /\ mount = "app" /\ access = TRUE /\ session = FALSE /\ driver = "none"
  /\ ota = "idle" /\ test = FALSE /\ menu = NoMenu /\ mode = 0 /\ escaped = FALSE

\* esp_restart(): from a command or from the menu.  The next boot picks its mode.
Reboot ==
  /\ menu.restart \/ (state # "COMM_CONFIG" /\ shell = "idle")
  /\ \E chord \in Chords, started \in BOOLEAN : Boot(chord, started)
  /\ UNCHANGED mode

-----------------------------------------------------------------------------
(* The state_machine task: run().                                          *)

RunTake ==
  /\ machine.at = "idle" /\ mutex = "free"
  /\ mutex' = "machine"
  /\ machine' = [at |-> "action", from |-> state]
  /\ UNCHANGED <<state, requested, locked, history, routine, shell, usb, card, ota, test,
                 menu, mode, escaped>>

RunReturn_Unrecorded(to) ==
  /\ state' = to /\ mutex' = "free" /\ machine' = Out
  /\ UNCHANGED <<requested, locked, history, routine>>

\* The action returned `to`: store, record, give the mutex back.
RunReturn(to) ==
  /\ state' = to
  /\ recordTransition(machine.from, to)
  /\ mutex' = "free" /\ machine' = Out
  /\ UNCHANGED <<requested, locked, routine>>

\* SETUP, CALIBRATE and TELEMETRY move on to WAIT by themselves.
SelfTransition(from) == IF from \in {"SETUP", "CALIBRATE", "TELEMETRY"} THEN "WAIT" ELSE from

RunPlain ==
  /\ machine.at = "action" /\ machine.from \notin {"DEBUG", "COMM_CONFIG"}
  /\ RunReturn(SelfTransition(machine.from))
  /\ UNCHANGED <<shell, usb, card, ota, test, menu, mode, escaped>>

\* One pass of the menu: a button, the inactivity timeout, or nothing.
commConfigTick(press) ==
  LET m == IF menu.active THEN menu ELSE [NoMenu EXCEPT !.active = TRUE, !.selected = mode]
      turned(n) == [m EXCEPT !.selected = (@ + n) % Modes] IN
  /\ m.restart => press = "none"
  /\ menu' = CASE press = "next" -> turned(1)
               [] press = "prev" -> turned(Modes - 1)
               [] press \in {"confirm", "timeout"} -> [m EXCEPT !.restart = TRUE]
               [] OTHER -> m
  /\ mode' \in IF press = "confirm" /\ access THEN {m.selected, mode} ELSE {mode}

RunMenu ==
  /\ machine.at = "action" /\ machine.from = "COMM_CONFIG"
  /\ \E press \in {"none", "next", "prev", "confirm", "timeout"} : commConfigTick(press)
  /\ RunReturn("COMM_CONFIG")
  /\ UNCHANGED <<shell, usb, card, ota, test, escaped>>

\* processDebug() outside a storage session: a test takes a sample, perhaps its last.
\* An upload session keeps the tests from running.
RunDebug ==
  /\ machine.at = "action" /\ machine.from = "DEBUG" /\ usb["machine"].at = "none"
  /\ ~session
  /\ test' \in IF is_active \/ ota # "idle" THEN {test} ELSE {test, FALSE}
  /\ RunReturn("DEBUG")
  /\ UNCHANGED <<shell, usb, card, ota, menu, mode, escaped>>

RunThrow_KeepsMutex ==
  /\ machine.at = "action" /\ machine.from \in {"DEBUG", "CALIBRATE"} /\ usb["machine"].at = "none"
  /\ machine' = [machine EXCEPT !.at = "raise2"]
  /\ UNCHANGED <<state, requested, locked, history, mutex, routine, shell, usb, card, ota,
                 test, menu, mode, escaped>>

\* The action throws (they build strings): the mutex is given back first ...
RunThrow ==
  /\ machine.at = "action" /\ machine.from \in {"DEBUG", "CALIBRATE"} /\ usb["machine"].at = "none"
  /\ mutex' = "free"
  /\ machine' = [machine EXCEPT !.at = "raise2"]
  /\ UNCHANGED <<state, requested, locked, history, routine, shell, usb, card, ota, test,
                 menu, mode, escaped>>

\* ... and reportError() then stores ERROR, twice, whoever holds the mutex by now.
reportError ==
  /\ machine.at \in {"raise2", "raise1"}
  /\ state' = "ERROR"
  /\ machine' = IF machine.at = "raise2" THEN [machine EXCEPT !.at = "raise1"] ELSE Out
  /\ escaped' = TRUE
  /\ UNCHANGED <<requested, locked, history, mutex, routine, shell, usb, card, ota, test,
                 menu, mode>>

-----------------------------------------------------------------------------
(* USB operations of task t: sync_mount_state() reads the mount point and   *)
(* then stores app_has_access_; reclaim() switches, syncs, removes the      *)
(* driver and ends the session.                                             *)

At(t, at)   == usb' = [usb EXCEPT ![t] = [NoOp EXCEPT !.at = at]]
Store(t)    == access' = (usb[t].read = "app")

\* process(), first half, with a session: sync.
ProcessRead ==
  /\ machine.at = "action" /\ machine.from = "DEBUG" /\ usb["machine"].at = "none" /\ session
  /\ usb' = [usb EXCEPT !["machine"] = [at |-> "process", read |-> mount]]
  /\ UNCHANGED <<policy, shell, card, ota, test, menu, mode, escaped>>

\* process(), second half: button 2 takes the card back.
ProcessStore ==
  /\ usb["machine"].at = "process" /\ Store("machine")
  /\ \E pressed \in BOOLEAN :
       IF pressed THEN At("machine", "reclaim") /\ UNCHANGED policy
                  ELSE At("machine", "none") /\ RunReturn("DEBUG")
  /\ UNCHANGED <<shell, mount, session, driver, ota, test, menu, mode, escaped>>

\* The switch back can fail, and reclaim() goes on all the same.
ReclaimSwitch(t) ==
  /\ usb[t].at = "reclaim" /\ session
  /\ mount' \in {"app", mount}
  /\ usb' = [usb EXCEPT ![t] = [at |-> "switched", read |-> mount']]
  /\ UNCHANGED <<policy, shell, access, session, driver, ota, test, menu, mode, escaped>>

ReclaimStore(t) ==
  /\ usb[t].at = "switched" /\ Store(t) /\ At(t, "synced")
  /\ driver' = IF driver = "session" THEN "none" ELSE driver
  /\ UNCHANGED <<policy, shell, mount, session, ota, test, menu, mode, escaped>>

\* The end of reclaim(), or its early return.
ReclaimEnd(t) ==
  /\ \/ usb[t].at = "synced" /\ session' = FALSE
     \/ usb[t].at = "reclaim" /\ ~session /\ UNCHANGED session
  /\ At(t, "none")
  /\ IF t = "machine" THEN RunReturn("DEBUG") /\ UNCHANGED shell
                      ELSE shell' = "idle" /\ UNCHANGED policy
  /\ UNCHANGED <<mount, access, driver, ota, test, menu, mode, escaped>>

-----------------------------------------------------------------------------
(* The shell task.  A gated command checks the state and acts later.        *)

\* next() has passed its gates and will store another state than DEBUG.
LeavingDebug == /\ routine.at \in {"cancel", "stop", "store"}
                /\ routine.from = "DEBUG" /\ routine.to # "DEBUG"

StorageExpose ==
  /\ shell = "idle" /\ state = "DEBUG"
  /\ ~is_exposed /\ access /\ ~test
  /\ shell' = "expose" /\ At("shell", "check")
  /\ escaped' = (escaped \/ LeavingDebug)
  /\ UNCHANGED <<policy, card, ota, test, menu, mode>>

\* expose(): refused with a session, or if the card turns out not to be the robot's.
ExposeRead ==
  /\ usb["shell"].at = "check"
  /\ IF session THEN At("shell", "none") /\ shell' = "idle"
     ELSE usb' = [usb EXCEPT !["shell"] = [at |-> "read", read |-> mount]] /\ UNCHANGED shell
  /\ UNCHANGED <<policy, card, ota, test, menu, mode, escaped>>

ExposeStore ==
  /\ usb["shell"].at = "read" /\ Store("shell")
  /\ IF access' THEN At("shell", "switch") /\ UNCHANGED shell
                ELSE At("shell", "none") /\ shell' = "idle"
  /\ UNCHANGED <<policy, mount, session, driver, ota, test, menu, mode, escaped>>

\* Switch and sync; a switch that failed leaves the mount point where it was.
ExposeSwitch ==
  /\ usb["shell"].at = "switch"
  /\ mount' \in {"usb", mount}
  /\ usb' = [usb EXCEPT !["shell"] = [at |-> "given", read |-> mount']]
  /\ UNCHANGED <<policy, shell, access, session, driver, ota, test, menu, mode, escaped>>

ExposeGiven ==
  /\ usb["shell"].at = "given" /\ Store("shell")
  /\ IF access' THEN At("shell", "none") /\ shell' = "idle"
                ELSE At("shell", "install") /\ UNCHANGED shell
  /\ UNCHANGED <<policy, mount, session, driver, ota, test, menu, mode, escaped>>

\* Install the USB device for this session, unless it is up already; give up if it fails.
ExposeInstall ==
  /\ usb["shell"].at = "install"
  /\ \/ /\ driver' = IF driver = "none" THEN "session" ELSE driver
        /\ At("shell", "begin") /\ UNCHANGED <<shell, mount, access>>
     \/ /\ driver = "none" /\ UNCHANGED driver
        /\ mount' \in {"app", mount} /\ access' = (mount' = "app")
        /\ At("shell", "none") /\ shell' = "idle"
  /\ UNCHANGED <<policy, session, ota, test, menu, mode, escaped>>

ExposeBegin ==
  /\ usb["shell"].at = "begin"
  /\ session' = TRUE /\ At("shell", "none") /\ shell' = "idle"
  /\ UNCHANGED <<policy, mount, access, driver, ota, test, menu, mode, escaped>>

StorageReclaim ==
  /\ shell = "idle" /\ is_active
  /\ shell' = "reclaim" /\ At("shell", "reclaim")
  /\ UNCHANGED <<policy, card, ota, test, menu, mode, escaped>>

\* "ota start" and the DEBUG tests: the check, then the effect.
GatedCheck(command) ==
  /\ shell = "idle" /\ state = "DEBUG" /\ ~is_active
  /\ command = "ota" => access /\ ~test
  /\ shell' = command
  /\ escaped' = (escaped \/ LeavingDebug)
  /\ UNCHANGED <<policy, usb, card, ota, test, menu, mode>>

GatedEffect ==
  /\ shell \in {"ota", "test"} /\ shell' = "idle"
  /\ ota' = IF shell = "ota" /\ ota = "idle" THEN "session" ELSE ota
  /\ test' = (test \/ shell = "test")
  /\ UNCHANGED <<policy, usb, card, menu, mode, escaped>>

StateSet(s) ==
  /\ shell = "idle" /\ ~locked
  /\ requested' = s
  /\ UNCHANGED <<state, locked, history, mutex, machine, routine, shell, usb, card, ota,
                 test, menu, mode, escaped>>

StateLock ==
  /\ shell = "idle" /\ locked' = ~locked
  /\ UNCHANGED <<state, requested, history, mutex, machine, routine, shell, usb, card, ota,
                 test, menu, mode, escaped>>

\* The HTTP server's task begins and ends a firmware write.  A write that begins before
\* cancel() tests for it escapes the gates; once the server is being stopped, it is waited for.
Upload ==
  /\ \/ /\ ota = "session" /\ ota' = "flashing"
        /\ escaped' = (escaped \/ (LeavingDebug /\ routine.at = "cancel"))
     \/ ota = "flashing" /\ ota' = "session" /\ UNCHANGED escaped
  /\ UNCHANGED <<policy, shell, usb, card, test, menu, mode>>

-----------------------------------------------------------------------------
(* The routine task: checkStateMachine() calls next().                      *)

NextTake ==
  /\ routine.at = "idle" /\ mutex = "free"
  /\ mutex' = "routine"
  /\ routine' = [at |-> "decide", from |-> state, to |-> NONE]
  /\ UNCHANGED <<state, requested, locked, history, machine, shell, usb, card, ota, test,
                 menu, mode, escaped>>

\* The last row of the table that matches.
ByButtons(from, pressed) ==
  LET rows == {i \in DOMAIN transitionTable :
                 transitionTable[i].from = from /\ transitionTable[i].mask \cap pressed # {}}
  IN IF rows = {} THEN from ELSE transitionTable[Max(rows)].to

Gated_CardOnly(from)  == from = "DEBUG" /\ is_active
Gated(from) == from = "DEBUG" /\ (is_active \/ ota = "flashing")

\* process_transition(): a request is consumed whatever becomes of it.  Leaving DEBUG goes
\* on with cancelDebugTests().
process_transition(pressed) ==
  LET from   == routine.from
      wanted == IF requested # NONE THEN requested ELSE ByButtons(from, pressed)
      to     == IF locked THEN from ELSE IF Gated(from) THEN "DEBUG" ELSE wanted
      leaves == from = "DEBUG" /\ to # "DEBUG" IN
  /\ routine.at = "decide"
  /\ requested' = NONE
  /\ routine' = [routine EXCEPT !.at = IF leaves THEN "cancel" ELSE "store", !.to = to]
  /\ escaped' = (escaped \/ (leaves /\ (shell # "idle" \/ usb["machine"].at # "none")))
  /\ UNCHANGED <<state, locked, history, mutex, machine, shell, usb, card, ota, test, menu, mode>>

\* cancelDebugTests(): cancel() tests again for a firmware write and gives up if one began.
cancelDebugTests ==
  /\ routine.at = "cancel"
  /\ test' = FALSE
  /\ routine' = [routine EXCEPT !.at = IF ota = "session" THEN "stop" ELSE "store"]
  /\ UNCHANGED <<state, requested, locked, history, mutex, machine, shell, usb, card, ota,
                 menu, mode, escaped>>

\* The rest of cancel(): stopping the server waits for the upload it serves.
StopServer ==
  /\ routine.at = "stop" /\ ota # "flashing"
  /\ ota' = "idle"
  /\ routine' = [routine EXCEPT !.at = "store"]
  /\ UNCHANGED <<state, requested, locked, history, mutex, machine, shell, usb, card, test,
                 menu, mode, escaped>>

NextStore ==
  /\ routine.at = "store"
  /\ state' = routine.to
  /\ recordTransition(routine.from, routine.to)
  /\ mutex' = "free" /\ routine' = Idle
  /\ escaped' = (escaped /\ ~(routine.to = "DEBUG" /\ routine.from # "DEBUG"))
  /\ UNCHANGED <<requested, locked, machine, shell, usb, card, ota, test, menu, mode>>

RunStep   == \/ RunTake \/ RunPlain \/ RunMenu \/ RunDebug \/ RunThrow \/ reportError
             \/ ProcessRead \/ ProcessStore
             \/ ReclaimSwitch("machine") \/ ReclaimStore("machine") \/ ReclaimEnd("machine")
NextStep  == \/ NextTake \/ (\E pressed \in SUBSET Buttons : process_transition(pressed))
             \/ cancelDebugTests \/ StopServer \/ NextStore
ShellStep == \/ StorageExpose \/ ExposeRead \/ ExposeStore \/ ExposeSwitch \/ ExposeGiven
             \/ ExposeInstall \/ ExposeBegin \/ StorageReclaim
             \/ ReclaimSwitch("shell") \/ ReclaimStore("shell") \/ ReclaimEnd("shell")
             \/ GatedCheck("ota") \/ GatedCheck("test") \/ GatedEffect
             \/ (\E s \in Requestable : StateSet(s)) \/ StateLock

Next == RunStep \/ NextStep \/ ShellStep \/ Upload \/ Reboot

\* The tasks loop forever.  routine waits for the mutex; run() gives it up at every pass
\* and then sleeps, and FreeRTOS hands a mutex to the task that waits.
Fairness == /\ WF_vars(RunStep)
            /\ SF_vars(NextTake)
            /\ WF_vars(\E pressed \in SUBSET Buttons : process_transition(pressed))
            /\ WF_vars(cancelDebugTests) /\ WF_vars(StopServer) /\ WF_vars(NextStore)

Spec     == Init /\ [][Next]_vars
FairSpec == Spec /\ Fairness

-----------------------------------------------------------------------------
(* Properties.                                                              *)

\* Types of all variables; the mutex is held by the task that is inside.
TypeOK ==
  /\ state \in States /\ requested \in States \cup {NONE} /\ locked \in BOOLEAN
  /\ history \in Seq([from : States, to : States]) /\ Len(history) <= HistoryDepth
  /\ machine \in [at : {"idle", "action", "raise1", "raise2"}, from : States \cup {NONE}]
  /\ routine \in [at : {"idle", "decide", "cancel", "stop", "store"},
                  from : States \cup {NONE}, to : States \cup {NONE}]
  /\ mutex = CASE machine.at = "action" -> "machine" [] routine.at # "idle" -> "routine"
               [] OTHER -> "free"
  /\ shell \in {"idle", "expose", "reclaim", "ota", "test"}
  /\ usb["machine"].at \in {"none", "process", "reclaim", "switched", "synced"}
  /\ usb["shell"].at \in {"none", "check", "read", "switch", "given", "install", "begin",
                          "reclaim", "switched", "synced"}
  /\ mount \in {"app", "usb"} /\ {access, session, locked, test, escaped} \subseteq BOOLEAN
  /\ driver \in {"none", "session", "persistent"} /\ ota \in {"idle", "session", "flashing"}
  /\ menu.selected \in 0 .. Modes - 1 /\ mode \in 0 .. Modes - 1

\* The transition history tells how the machine got where it is: each record starts where
\* the one before ended, and the newest ends in the current state, except that an error
\* may have put the machine in ERROR in between (StateMachine::recordTransition).
HistoryIsAPath ==
  /\ \A i \in 2 .. Len(history) : history[i].from \in {history[i - 1].to, "ERROR"}
  /\ history # <<>> => state \in {history[Len(history)].to, "ERROR"}

\* Outside DEBUG the host does not own the card and no firmware is being written, unless
\* DEBUG was left by an error, or while a command or an upload that needs DEBUG had begun
\* and was not visible yet (StatesManager.cpp's two gates): the command had passed its check
\* and not acted, the upload began after the gates and before cancel() looked again.
GatesKeepDebug ==
  (is_active \/ ota = "flashing") /\ state # "DEBUG" => escaped

\* "Never interrupt a firmware write in progress" (StatesManager.cpp:74): next() stores
\* another state than DEBUG only when no firmware is being written.  The code does not keep
\* this: the upload that begins between is_flashing() and cancel(), or in a session that a
\* command starts after them, goes on outside DEBUG.
FirmwareWriteKeepsDebug ==
  [][NextStore /\ state = "DEBUG" /\ state' # "DEBUG" => ota # "flashing"]_vars

\* A requested state is taken up, carried out or dropped: the mutex never stays with run(),
\* whatever its action does, errors included.  Only the upload that next() waits for, once it
\* is stopping the server, may hold it up, for as long as the client keeps its connection.
RequestIsTaken ==
  requested # NONE ~> requested = NONE \/ (routine.at = "stop" /\ ota = "flashing")
=============================================================================
