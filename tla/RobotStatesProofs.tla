--------------------------- MODULE RobotStatesProofs ---------------------------
(***************************************************************************)
(* Proofs about RobotStates, for every history depth, every choice of      *)
(* boot modes, requests, buttons and comm_modes.  Three tasks run through  *)
(* the transition policy and the USB operations; the transition mutex      *)
(* covers run() and next() and nothing else, so the invariant says what    *)
(* each task may still rely on at each of its places.                      *)
(***************************************************************************)
EXTENDS RobotStates, TLAPS

-----------------------------------------------------------------------------
(* The inductive invariant.                                                *)

Places == {"none", "process", "reclaim", "switched", "synced",
           "check", "read", "switch", "given", "install", "begin"}

PolicyTyped ==
  /\ state \in States /\ requested \in States \cup {NONE}
  /\ machine \in [at : {"idle", "action", "raise1", "raise2"}, from : States \cup {NONE}]
  /\ routine \in [at : {"idle", "decide", "cancel", "stop", "store"},
                  from : States \cup {NONE}, to : States \cup {NONE}]
  /\ routine.at # "idle" => routine.from \in States
  /\ routine.at \in {"cancel", "stop", "store"} => routine.to \in States
  /\ routine.at \in {"cancel", "stop"} => routine.from = "DEBUG" /\ routine.to # "DEBUG"
HistoryTyped ==
  history \in Seq([from : States, to : States]) /\ Len(history) <= HistoryDepth
UsbTyped ==
  /\ shell \in {"idle", "expose", "reclaim", "ota", "test"}
  /\ usb \in [{"machine", "shell"} -> [at : Places, read : {"app", "usb"}]]
  /\ usb["machine"].at \in {"none", "process", "reclaim", "switched", "synced"}
  /\ usb["shell"].at \in {"none", "check", "read", "switch", "given", "install", "begin",
                          "reclaim", "switched", "synced"}
  /\ mount \in {"app", "usb"}
  /\ driver \in {"none", "session", "persistent"} /\ ota \in {"idle", "session", "flashing"}
FlagsTyped == {access, session, locked, test, escaped} \subseteq BOOLEAN
MenuTyped ==
  /\ mode \in 0 .. Modes - 1
  /\ menu \in [active : BOOLEAN, selected : 0 .. Modes - 1, restart : BOOLEAN]

\* run() and next() are inside only with the mutex; what run() found is still the state,
\* what next() found is, unless reportError() has overwritten it; a USB operation runs
\* inside processDebug() or inside a command.
Inside ==
  /\ mutex \in {"free", "machine", "routine"}
  /\ mutex = "machine" <=> machine.at = "action"
  /\ mutex = "routine" <=> routine.at # "idle"
  /\ machine.at = "action" => state = machine.from
  /\ routine.at # "idle" => state \in {routine.from, "ERROR"}
  /\ usb["machine"].at # "none" => machine.at = "action" /\ machine.from = "DEBUG"
  /\ usb["shell"].at # "none" => shell \in {"expose", "reclaim"}

\* The records of the history follow one another.
Chained == \A i \in 2 .. Len(history) : history[i].from \in {history[i - 1].to, "ERROR"}

\* The state s continues the history.
Continues(s) == history # <<>> => s \in {history[Len(history)].to, "ERROR"}

\* So does the state next() found, which is the one it will record.
Recorded ==
  /\ Chained /\ Continues(state)
  /\ routine.at # "idle" => Continues(routine.from)

\* What takes DEBUG: the card given away, a command under way.
Busy == is_active \/ shell # "idle"

\* DEBUG is not left, and not about to be left, under what takes it; an OTA session keeps it
\* until cancel() has ended the session, and cancel() finds no firmware write.
Gates == ~escaped =>
  /\ Busy => state = "DEBUG" /\ ~LeavingDebug
  /\ ota # "idle" => state = "DEBUG" /\ ~(LeavingDebug /\ routine.at = "store")
  /\ routine.at = "cancel" => ota # "flashing"

Typed == PolicyTyped /\ HistoryTyped /\ UsbTyped /\ FlagsTyped /\ MenuTyped
IInv  == Typed /\ Inside /\ Recorded /\ Gates

-----------------------------------------------------------------------------
(* Steps.                                                                  *)

\* The disjuncts of Next.
LEMMA NextSteps ==
  ASSUME Next
  PROVE  \/ RunTake
         \/ RunPlain
         \/ RunMenu
         \/ RunDebug
         \/ RunThrow
         \/ reportError
         \/ ProcessRead
         \/ ProcessStore
         \/ \E t \in {"machine", "shell"} : ReclaimSwitch(t)
         \/ \E t \in {"machine", "shell"} : ReclaimStore(t)
         \/ \E t \in {"machine", "shell"} : ReclaimEnd(t)
         \/ NextTake
         \/ \E pressed \in SUBSET Buttons : process_transition(pressed)
         \/ NextStore
         \/ StorageExpose
         \/ ExposeRead
         \/ ExposeStore
         \/ ExposeSwitch
         \/ ExposeGiven
         \/ ExposeInstall
         \/ ExposeBegin
         \/ StorageReclaim
         \/ \E command \in {"ota", "test"} : GatedCheck(command)
         \/ GatedEffect
         \/ \E s \in Requestable : StateSet(s)
         \/ StateLock
         \/ Upload
         \/ Reboot
         \/ cancelDebugTests
         \/ StopServer
<1>1. CASE RunStep
  BY <1>1 DEF RunStep
<1>2. CASE NextStep
  BY <1>2 DEF NextStep
<1>3. CASE ShellStep
  BY <1>3 DEF ShellStep
<1>4. CASE Upload \/ Reboot
  BY <1>4
<1> QED
  BY <1>1, <1>2, <1>3, <1>4 DEF Next

-----------------------------------------------------------------------------
(* The transition table.                                                   *)

\* The last of some rows of the table is one of them.
LEMMA LastRow ==
  ASSUME NEW rows \in SUBSET (1 .. 8), rows # {}
  PROVE  Max(rows) \in rows
<1>1. \E m \in rows : \A i \in rows : m >= i
  <2>1. CASE 8 \in rows
    BY <2>1
  <2>2. CASE 8 \notin rows /\ 7 \in rows
    BY <2>2
  <2>3. CASE rows \cap {7, 8} = {} /\ 6 \in rows
    BY <2>3
  <2>4. CASE rows \cap {6, 7, 8} = {} /\ 5 \in rows
    BY <2>4
  <2>5. CASE rows \cap {5, 6, 7, 8} = {}
    <3>1. rows \subseteq {1, 2, 3, 4}
      BY <2>5
    <3>2. CASE 4 \in rows
      BY <3>1, <3>2
    <3>3. CASE 4 \notin rows /\ 3 \in rows
      BY <3>1, <3>3
    <3>4. CASE rows \cap {3, 4} = {} /\ 2 \in rows
      BY <3>1, <3>4
    <3>5. CASE rows \cap {2, 3, 4} = {}
      <4>1. rows = {1}
        BY <3>1, <3>5
      <4> QED
        BY <4>1
    <3> QED
      BY <3>2, <3>3, <3>4, <3>5
  <2> QED
    BY <2>1, <2>2, <2>3, <2>4, <2>5
<1> QED
  BY <1>1 DEF Max

\* Whatever is pressed, the table leads from a state to a state.
LEMMA ButtonsLeadToStates ==
  ASSUME NEW from \in States, NEW pressed
  PROVE  ByButtons(from, pressed) \in States
<1> DEFINE rows == {i \in DOMAIN transitionTable :
                      transitionTable[i].from = from /\ transitionTable[i].mask \cap pressed # {}}
<1>1. DOMAIN transitionTable = 1 .. 8 /\ \A i \in 1 .. 8 : transitionTable[i].to \in States
  BY DEF transitionTable, Row, States
<1>2. CASE rows = {}
  BY <1>2 DEF ByButtons
<1>3. CASE rows # {}
  <2>1. Max(rows) \in 1 .. 8
    BY <1>1, <1>3, LastRow
  <2>2. ByButtons(from, pressed) = transitionTable[Max(rows)].to
    BY <1>3 DEF ByButtons
  <2> QED
    BY <1>1, <2>1, <2>2
<1> QED
  BY <1>2, <1>3

-----------------------------------------------------------------------------
(* The variables keep their types.                                         *)

\* The states, requests and places of run() and next() keep their types.
LEMMA PolicyStep ==
  ASSUME PolicyTyped, Inside, Next
  PROVE  PolicyTyped'
<1> USE StatesAssumption DEF PolicyTyped, Inside, policy, States, NONE
<1>1. CASE RunTake
  BY <1>1 DEF RunTake
<1>2. CASE RunPlain
  BY <1>2 DEF RunPlain, RunReturn, SelfTransition, recordTransition, Out
<1>3. CASE RunMenu
  BY <1>3 DEF RunMenu, RunReturn, recordTransition, Out, commConfigTick, NoMenu
<1>4. CASE RunDebug
  BY <1>4 DEF RunDebug, RunReturn, recordTransition, Out
<1>5. CASE RunThrow
  BY <1>5 DEF RunThrow
<1>6. CASE reportError
  BY <1>6 DEF reportError, Out
<1>7. CASE ProcessRead
  BY <1>7 DEF ProcessRead
<1>8. CASE ProcessStore
  BY <1>8 DEF ProcessStore, Store, At, NoOp, RunReturn, recordTransition, Out
<1>9. CASE \E t \in {"machine", "shell"} : ReclaimSwitch(t)
  BY <1>9 DEF ReclaimSwitch
<1>10. CASE \E t \in {"machine", "shell"} : ReclaimStore(t)
  BY <1>10 DEF ReclaimStore, Store, At, NoOp
<1>11. CASE \E t \in {"machine", "shell"} : ReclaimEnd(t)
  BY <1>11 DEF ReclaimEnd, At, NoOp, RunReturn, recordTransition, Out
<1>12. CASE NextTake
  BY <1>12 DEF NextTake
<1>13. CASE \E pressed \in SUBSET Buttons : process_transition(pressed)
  <2> PICK pressed \in SUBSET Buttons : process_transition(pressed)
    BY <1>13
  <2>1. routine.at = "decide" /\ routine.from \in States
    BY DEF process_transition
  <2>2. ByButtons(routine.from, pressed) \in States
    BY <2>1, ButtonsLeadToStates DEF States
  <2> DEFINE to == IF locked THEN routine.from
                   ELSE IF Gated(routine.from) THEN "DEBUG"
                   ELSE IF requested # NONE THEN requested ELSE ByButtons(routine.from, pressed)
  <2>3. to \in States
    BY <2>1, <2>2
  <2> DEFINE at == IF routine.from = "DEBUG" /\ to # "DEBUG" THEN "cancel" ELSE "store"
  <2>4. /\ routine' = [routine EXCEPT !.at = at, !.to = to]
        /\ requested' = NONE /\ UNCHANGED <<state, machine>>
    BY Zenon DEF process_transition
  <2>5. at \in {"cancel", "store"} /\ (at = "cancel" => routine.from = "DEBUG" /\ to # "DEBUG")
    OBVIOUS
  <2> HIDE DEF to, at
  <2>6. /\ routine' \in [at : {"idle", "decide", "cancel", "stop", "store"},
                         from : States \cup {NONE}, to : States \cup {NONE}]
        /\ routine'.at = at /\ routine'.from = routine.from /\ routine'.to = to
    BY <2>3, <2>4, <2>5
  <2> QED
    BY <2>1, <2>3, <2>4, <2>6, <2>5
<1>14. CASE NextStore
  BY <1>14 DEF NextStore, recordTransition, Idle
<1>15. CASE StorageExpose
  BY <1>15 DEF StorageExpose, At, NoOp
<1>16. CASE ExposeRead
  BY <1>16 DEF ExposeRead, At, NoOp
<1>17. CASE ExposeStore
  BY <1>17 DEF ExposeStore, Store, At, NoOp
<1>18. CASE ExposeSwitch
  BY <1>18 DEF ExposeSwitch
<1>19. CASE ExposeGiven
  BY <1>19 DEF ExposeGiven, Store, At, NoOp
<1>20. CASE ExposeInstall
  BY <1>20 DEF ExposeInstall, At, NoOp
<1>21. CASE ExposeBegin
  BY <1>21 DEF ExposeBegin, At, NoOp
<1>22. CASE StorageReclaim
  BY <1>22 DEF StorageReclaim, At, NoOp
<1>23. CASE \E command \in {"ota", "test"} : GatedCheck(command)
  BY <1>23 DEF GatedCheck
<1>24. CASE GatedEffect
  BY <1>24 DEF GatedEffect
<1>25. CASE \E s \in Requestable : StateSet(s)
  BY <1>25 DEF StateSet
<1>26. CASE StateLock
  BY <1>26 DEF StateLock
<1>27. CASE Upload
  BY <1>27 DEF Upload
<1>28. CASE Reboot
  BY <1>28 DEF Reboot, Boot, Out, Idle, NoOp, NoMenu
<1>29. CASE cancelDebugTests
  BY <1>29 DEF cancelDebugTests
<1>30. CASE StopServer
  BY <1>30 DEF StopServer
<1> QED
  BY <1>1, <1>2, <1>3, <1>4, <1>5, <1>6, <1>7, <1>8, <1>9, <1>10, <1>11, <1>12,
     <1>13, <1>14, <1>15, <1>16, <1>17, <1>18, <1>19, <1>20, <1>21, <1>22, <1>23, <1>24,
     <1>25, <1>26, <1>27, <1>28, <1>29, <1>30,
     NextSteps

\* So do the USB operations, the mount point and the driver.
LEMMA UsbStep ==
  ASSUME UsbTyped, Next
  PROVE  UsbTyped'
<1> USE StatesAssumption DEF UsbTyped, policy, card, Places
<1>1. CASE RunTake
  BY <1>1 DEF RunTake
<1>2. CASE RunPlain
  BY <1>2 DEF RunPlain, RunReturn, SelfTransition, recordTransition, Out
<1>3. CASE RunMenu
  BY <1>3 DEF RunMenu, RunReturn, recordTransition, Out, commConfigTick, NoMenu
<1>4. CASE RunDebug
  BY <1>4 DEF RunDebug, RunReturn, recordTransition, Out
<1>5. CASE RunThrow
  BY <1>5 DEF RunThrow
<1>6. CASE reportError
  BY <1>6 DEF reportError, Out
<1>7. CASE ProcessRead
  BY <1>7 DEF ProcessRead
<1>8. CASE ProcessStore
  BY <1>8 DEF ProcessStore, Store, At, NoOp, RunReturn, recordTransition, Out
<1>9. CASE \E t \in {"machine", "shell"} : ReclaimSwitch(t)
  BY <1>9 DEF ReclaimSwitch
<1>10. CASE \E t \in {"machine", "shell"} : ReclaimStore(t)
  BY <1>10 DEF ReclaimStore, Store, At, NoOp
<1>11. CASE \E t \in {"machine", "shell"} : ReclaimEnd(t)
  BY <1>11 DEF ReclaimEnd, At, NoOp, RunReturn, recordTransition, Out
<1>12. CASE NextTake
  BY <1>12 DEF NextTake
<1>13. CASE \E pressed \in SUBSET Buttons : process_transition(pressed)
  BY <1>13 DEF process_transition, Gated
<1>14. CASE NextStore
  BY <1>14 DEF NextStore, recordTransition, Idle
<1>15. CASE StorageExpose
  BY <1>15 DEF StorageExpose, At, NoOp
<1>16. CASE ExposeRead
  BY <1>16 DEF ExposeRead, At, NoOp
<1>17. CASE ExposeStore
  BY <1>17 DEF ExposeStore, Store, At, NoOp
<1>18. CASE ExposeSwitch
  BY <1>18 DEF ExposeSwitch
<1>19. CASE ExposeGiven
  BY <1>19 DEF ExposeGiven, Store, At, NoOp
<1>20. CASE ExposeInstall
  BY <1>20 DEF ExposeInstall, At, NoOp
<1>21. CASE ExposeBegin
  BY <1>21 DEF ExposeBegin, At, NoOp
<1>22. CASE StorageReclaim
  BY <1>22 DEF StorageReclaim, At, NoOp
<1>23. CASE \E command \in {"ota", "test"} : GatedCheck(command)
  BY <1>23 DEF GatedCheck
<1>24. CASE GatedEffect
  BY <1>24 DEF GatedEffect
<1>25. CASE \E s \in Requestable : StateSet(s)
  BY <1>25 DEF StateSet
<1>26. CASE StateLock
  BY <1>26 DEF StateLock
<1>27. CASE Upload
  BY <1>27 DEF Upload
<1>28. CASE Reboot
  BY <1>28 DEF Reboot, Boot, Out, Idle, NoOp, NoMenu
<1>29. CASE cancelDebugTests
  BY <1>29 DEF cancelDebugTests
<1>30. CASE StopServer
  BY <1>30 DEF StopServer
<1> QED
  BY <1>1, <1>2, <1>3, <1>4, <1>5, <1>6, <1>7, <1>8, <1>9, <1>10, <1>11, <1>12,
     <1>13, <1>14, <1>15, <1>16, <1>17, <1>18, <1>19, <1>20, <1>21, <1>22, <1>23, <1>24,
     <1>25, <1>26, <1>27, <1>28, <1>29, <1>30,
     NextSteps

\* So do the flags.
LEMMA FlagsStep ==
  ASSUME FlagsTyped, Next
  PROVE  FlagsTyped'
<1> USE DEF FlagsTyped, policy, card
<1>1. CASE RunTake
  BY <1>1 DEF RunTake
<1>2. CASE RunPlain
  BY <1>2 DEF RunPlain, RunReturn, SelfTransition, recordTransition, Out
<1>3. CASE RunMenu
  BY <1>3 DEF RunMenu, RunReturn, recordTransition, Out, commConfigTick, NoMenu
<1>4. CASE RunDebug
  BY <1>4 DEF RunDebug, RunReturn, recordTransition, Out
<1>5. CASE RunThrow
  BY <1>5 DEF RunThrow
<1>6. CASE reportError
  BY <1>6 DEF reportError, Out
<1>7. CASE ProcessRead
  BY <1>7 DEF ProcessRead
<1>8. CASE ProcessStore
  BY <1>8 DEF ProcessStore, Store, At, NoOp, RunReturn, recordTransition, Out
<1>9. CASE \E t \in {"machine", "shell"} : ReclaimSwitch(t)
  BY <1>9 DEF ReclaimSwitch
<1>10. CASE \E t \in {"machine", "shell"} : ReclaimStore(t)
  BY <1>10 DEF ReclaimStore, Store, At, NoOp
<1>11. CASE \E t \in {"machine", "shell"} : ReclaimEnd(t)
  BY <1>11 DEF ReclaimEnd, At, NoOp, RunReturn, recordTransition, Out
<1>12. CASE NextTake
  BY <1>12 DEF NextTake
<1>13. CASE \E pressed \in SUBSET Buttons : process_transition(pressed)
  BY <1>13 DEF process_transition, Gated
<1>14. CASE NextStore
  BY <1>14 DEF NextStore, recordTransition, Idle
<1>15. CASE StorageExpose
  BY <1>15 DEF StorageExpose, At, NoOp
<1>16. CASE ExposeRead
  BY <1>16 DEF ExposeRead, At, NoOp
<1>17. CASE ExposeStore
  BY <1>17 DEF ExposeStore, Store, At, NoOp
<1>18. CASE ExposeSwitch
  BY <1>18 DEF ExposeSwitch
<1>19. CASE ExposeGiven
  BY <1>19 DEF ExposeGiven, Store, At, NoOp
<1>20. CASE ExposeInstall
  BY <1>20 DEF ExposeInstall, At, NoOp
<1>21. CASE ExposeBegin
  BY <1>21 DEF ExposeBegin, At, NoOp
<1>22. CASE StorageReclaim
  BY <1>22 DEF StorageReclaim, At, NoOp
<1>23. CASE \E command \in {"ota", "test"} : GatedCheck(command)
  BY <1>23 DEF GatedCheck
<1>24. CASE GatedEffect
  BY <1>24 DEF GatedEffect
<1>25. CASE \E s \in Requestable : StateSet(s)
  BY <1>25 DEF StateSet
<1>26. CASE StateLock
  BY <1>26 DEF StateLock
<1>27. CASE Upload
  BY <1>27 DEF Upload
<1>28. CASE Reboot
  BY <1>28 DEF Reboot, Boot, Out, Idle, NoOp, NoMenu
<1>29. CASE cancelDebugTests
  BY <1>29 DEF cancelDebugTests
<1>30. CASE StopServer
  BY <1>30 DEF StopServer
<1> QED
  BY <1>1, <1>2, <1>3, <1>4, <1>5, <1>6, <1>7, <1>8, <1>9, <1>10, <1>11, <1>12,
     <1>13, <1>14, <1>15, <1>16, <1>17, <1>18, <1>19, <1>20, <1>21, <1>22, <1>23, <1>24,
     <1>25, <1>26, <1>27, <1>28, <1>29, <1>30,
     NextSteps

\* So does the COMM_CONFIG menu, whose choice wraps around the comm_modes.
LEMMA MenuStep ==
  ASSUME MenuTyped, Next
  PROVE  MenuTyped'
<1> USE StatesAssumption DEF MenuTyped
<1>1. CASE RunTake
  BY <1>1 DEF RunTake
<1>2. CASE RunPlain
  BY <1>2 DEF RunPlain, RunReturn, SelfTransition, recordTransition, Out
<1>3. CASE RunMenu
  <2>1. PICK press \in {"none", "next", "prev", "confirm", "timeout"} : commConfigTick(press)
    BY <1>3 DEF RunMenu
  <2> DEFINE m == IF menu.active THEN menu ELSE [NoMenu EXCEPT !.active = TRUE, !.selected = mode]
  <2>2. m \in [active : BOOLEAN, selected : 0 .. Modes - 1, restart : BOOLEAN]
    BY DEF NoMenu
  <2>3. (m.selected + 1) % Modes \in 0 .. Modes - 1
    BY <2>2
  <2>4. (m.selected + (Modes - 1)) % Modes \in 0 .. Modes - 1
    BY <2>2
  <2>5. mode' \in 0 .. Modes - 1
    BY <2>1, <2>2 DEF commConfigTick
  <2>6. \/ menu' = [m EXCEPT !.selected = (@ + 1) % Modes]
        \/ menu' = [m EXCEPT !.selected = (@ + (Modes - 1)) % Modes]
        \/ menu' = [m EXCEPT !.restart = TRUE]
        \/ menu' = m
    BY <2>1 DEF commConfigTick
  <2> HIDE DEF m
  <2>7. menu' \in [active : BOOLEAN, selected : 0 .. Modes - 1, restart : BOOLEAN]
    BY <2>2, <2>3, <2>4, <2>6
  <2> QED
    BY <2>5, <2>7
<1>4. CASE RunDebug
  BY <1>4 DEF RunDebug, RunReturn, recordTransition, Out
<1>5. CASE RunThrow
  BY <1>5 DEF RunThrow
<1>6. CASE reportError
  BY <1>6 DEF reportError, Out
<1>7. CASE ProcessRead
  BY <1>7 DEF ProcessRead
<1>8. CASE ProcessStore
  BY <1>8 DEF ProcessStore, Store, At, NoOp, RunReturn, recordTransition, Out
<1>9. CASE \E t \in {"machine", "shell"} : ReclaimSwitch(t)
  BY <1>9 DEF ReclaimSwitch
<1>10. CASE \E t \in {"machine", "shell"} : ReclaimStore(t)
  BY <1>10 DEF ReclaimStore, Store, At, NoOp
<1>11. CASE \E t \in {"machine", "shell"} : ReclaimEnd(t)
  BY <1>11 DEF ReclaimEnd, At, NoOp, RunReturn, recordTransition, Out
<1>12. CASE NextTake
  BY <1>12 DEF NextTake
<1>13. CASE \E pressed \in SUBSET Buttons : process_transition(pressed)
  BY <1>13 DEF process_transition, Gated
<1>14. CASE NextStore
  BY <1>14 DEF NextStore, recordTransition, Idle
<1>15. CASE StorageExpose
  BY <1>15 DEF StorageExpose, At, NoOp
<1>16. CASE ExposeRead
  BY <1>16 DEF ExposeRead, At, NoOp
<1>17. CASE ExposeStore
  BY <1>17 DEF ExposeStore, Store, At, NoOp
<1>18. CASE ExposeSwitch
  BY <1>18 DEF ExposeSwitch
<1>19. CASE ExposeGiven
  BY <1>19 DEF ExposeGiven, Store, At, NoOp
<1>20. CASE ExposeInstall
  BY <1>20 DEF ExposeInstall, At, NoOp
<1>21. CASE ExposeBegin
  BY <1>21 DEF ExposeBegin, At, NoOp
<1>22. CASE StorageReclaim
  BY <1>22 DEF StorageReclaim, At, NoOp
<1>23. CASE \E command \in {"ota", "test"} : GatedCheck(command)
  BY <1>23 DEF GatedCheck
<1>24. CASE GatedEffect
  BY <1>24 DEF GatedEffect
<1>25. CASE \E s \in Requestable : StateSet(s)
  BY <1>25 DEF StateSet
<1>26. CASE StateLock
  BY <1>26 DEF StateLock
<1>27. CASE Upload
  BY <1>27 DEF Upload
<1>28. CASE Reboot
  BY <1>28 DEF Reboot, Boot, Out, Idle, NoOp, NoMenu
<1>29. CASE cancelDebugTests
  BY <1>29 DEF cancelDebugTests
<1>30. CASE StopServer
  BY <1>30 DEF StopServer
<1> QED
  BY <1>1, <1>2, <1>3, <1>4, <1>5, <1>6, <1>7, <1>8, <1>9, <1>10, <1>11, <1>12,
     <1>13, <1>14, <1>15, <1>16, <1>17, <1>18, <1>19, <1>20, <1>21, <1>22, <1>23, <1>24,
     <1>25, <1>26, <1>27, <1>28, <1>29, <1>30,
     NextSteps

\* What each task relies on inside its operation survives the steps of the others.
LEMMA InsideStep ==
  ASSUME PolicyTyped, UsbTyped, Inside, Next
  PROVE  Inside'
<1> USE StatesAssumption DEF PolicyTyped, UsbTyped, Inside, policy, card, States, NONE
<1>1. CASE RunTake
  BY <1>1 DEF RunTake
<1>2. CASE RunPlain
  BY <1>2 DEF RunPlain, RunReturn, SelfTransition, recordTransition, Out
<1>3. CASE RunMenu
  BY <1>3 DEF RunMenu, RunReturn, recordTransition, Out, commConfigTick, NoMenu
<1>4. CASE RunDebug
  BY <1>4 DEF RunDebug, RunReturn, recordTransition, Out
<1>5. CASE RunThrow
  BY <1>5 DEF RunThrow
<1>6. CASE reportError
  BY <1>6 DEF reportError, Out
<1>7. CASE ProcessRead
  BY <1>7 DEF ProcessRead
<1>8. CASE ProcessStore
  BY <1>8 DEF ProcessStore, Store, At, NoOp, RunReturn, recordTransition, Out
<1>9. CASE \E t \in {"machine", "shell"} : ReclaimSwitch(t)
  BY <1>9 DEF ReclaimSwitch
<1>10. CASE \E t \in {"machine", "shell"} : ReclaimStore(t)
  BY <1>10 DEF ReclaimStore, Store, At, NoOp
<1>11. CASE \E t \in {"machine", "shell"} : ReclaimEnd(t)
  BY <1>11 DEF ReclaimEnd, At, NoOp, RunReturn, recordTransition, Out
<1>12. CASE NextTake
  BY <1>12 DEF NextTake
<1>13. CASE \E pressed \in SUBSET Buttons : process_transition(pressed)
  BY <1>13 DEF process_transition, Gated
<1>14. CASE NextStore
  BY <1>14 DEF NextStore, recordTransition, Idle
<1>15. CASE StorageExpose
  BY <1>15 DEF StorageExpose, At, NoOp
<1>16. CASE ExposeRead
  BY <1>16 DEF ExposeRead, At, NoOp
<1>17. CASE ExposeStore
  BY <1>17 DEF ExposeStore, Store, At, NoOp
<1>18. CASE ExposeSwitch
  BY <1>18 DEF ExposeSwitch
<1>19. CASE ExposeGiven
  BY <1>19 DEF ExposeGiven, Store, At, NoOp
<1>20. CASE ExposeInstall
  BY <1>20 DEF ExposeInstall, At, NoOp
<1>21. CASE ExposeBegin
  BY <1>21 DEF ExposeBegin, At, NoOp
<1>22. CASE StorageReclaim
  BY <1>22 DEF StorageReclaim, At, NoOp
<1>23. CASE \E command \in {"ota", "test"} : GatedCheck(command)
  BY <1>23 DEF GatedCheck
<1>24. CASE GatedEffect
  BY <1>24 DEF GatedEffect
<1>25. CASE \E s \in Requestable : StateSet(s)
  BY <1>25 DEF StateSet
<1>26. CASE StateLock
  BY <1>26 DEF StateLock
<1>27. CASE Upload
  BY <1>27 DEF Upload
<1>28. CASE Reboot
  BY <1>28 DEF Reboot, Boot, Out, Idle, NoOp, NoMenu
<1>29. CASE cancelDebugTests
  BY <1>29 DEF cancelDebugTests
<1>30. CASE StopServer
  BY <1>30 DEF StopServer
<1> QED
  BY <1>1, <1>2, <1>3, <1>4, <1>5, <1>6, <1>7, <1>8, <1>9, <1>10, <1>11, <1>12,
     <1>13, <1>14, <1>15, <1>16, <1>17, <1>18, <1>19, <1>20, <1>21, <1>22, <1>23, <1>24,
     <1>25, <1>26, <1>27, <1>28, <1>29, <1>30,
     NextSteps

\* DEBUG is never left under a storage session, an OTA session or a gated command that
\* the policy could see.
LEMMA GatesStep ==
  ASSUME PolicyTyped, UsbTyped, FlagsTyped, Inside, Gates, Next
  PROVE  Gates'
<1> USE StatesAssumption DEF PolicyTyped, UsbTyped, Inside, Gates, Busy, is_active, LeavingDebug,
                        policy, card, NONE
<1>1. CASE RunTake
  BY <1>1 DEF RunTake
<1>2. CASE RunPlain
  BY <1>2 DEF RunPlain, RunReturn, SelfTransition, recordTransition, Out
<1>3. CASE RunMenu
  BY <1>3 DEF RunMenu, RunReturn, recordTransition, Out, commConfigTick, NoMenu
<1>4. CASE RunDebug
  BY <1>4 DEF RunDebug, RunReturn, recordTransition, Out
<1>5. CASE RunThrow
  BY <1>5 DEF RunThrow
<1>6. CASE reportError
  BY <1>6 DEF reportError, Out
<1>7. CASE ProcessRead
  BY <1>7 DEF ProcessRead
<1>8. CASE ProcessStore
  BY <1>8 DEF ProcessStore, Store, At, NoOp, RunReturn, recordTransition, Out
<1>9. CASE \E t \in {"machine", "shell"} : ReclaimSwitch(t)
  BY <1>9 DEF ReclaimSwitch
<1>10. CASE \E t \in {"machine", "shell"} : ReclaimStore(t)
  BY <1>10 DEF ReclaimStore, Store, At, NoOp
<1>11. CASE \E t \in {"machine", "shell"} : ReclaimEnd(t)
  BY <1>11 DEF ReclaimEnd, At, NoOp, RunReturn, recordTransition, Out
<1>12. CASE NextTake
  BY <1>12 DEF NextTake
<1>13. CASE \E pressed \in SUBSET Buttons : process_transition(pressed)
  <2> PICK pressed \in SUBSET Buttons : process_transition(pressed)
    BY <1>13
  <2>1. UNCHANGED <<state, shell, session, driver, usb>>
    BY DEF process_transition
  <2>2. routine.at = "decide" /\ routine'.from = routine.from /\ machine.at # "action"
    BY DEF process_transition
  <2>3. ~escaped' => ~escaped /\ (routine'.from = "DEBUG" /\ routine'.to # "DEBUG" => shell = "idle")
    BY <2>2 DEF process_transition
  <2>4. routine'.from = "DEBUG" /\ routine'.to # "DEBUG" => ~is_active /\ ota # "flashing"
    BY <2>2 DEF process_transition, Gated
  <2>5. /\ routine'.from = "DEBUG" /\ routine'.to # "DEBUG" => routine'.at = "cancel"
        /\ routine'.at = "cancel" => routine'.from = "DEBUG" /\ routine'.to # "DEBUG"
    BY <2>2 DEF process_transition
  <2>6. ota' = ota
    BY DEF process_transition
  <2>7. routine'.at \in {"cancel", "store"}
    BY <2>2 DEF process_transition
  <2> QED
    BY <2>1, <2>2, <2>3, <2>4, <2>5, <2>6, <2>7
<1>14. CASE NextStore
  BY <1>14 DEF NextStore, recordTransition, Idle
<1>15. CASE StorageExpose
  BY <1>15 DEF StorageExpose, At, NoOp
<1>16. CASE ExposeRead
  BY <1>16 DEF ExposeRead, At, NoOp
<1>17. CASE ExposeStore
  BY <1>17 DEF ExposeStore, Store, At, NoOp
<1>18. CASE ExposeSwitch
  BY <1>18 DEF ExposeSwitch
<1>19. CASE ExposeGiven
  BY <1>19 DEF ExposeGiven, Store, At, NoOp
<1>20. CASE ExposeInstall
  BY <1>20 DEF ExposeInstall, At, NoOp
<1>21. CASE ExposeBegin
  BY <1>21 DEF ExposeBegin, At, NoOp
<1>22. CASE StorageReclaim
  BY <1>22 DEF StorageReclaim, At, NoOp
<1>23. CASE \E command \in {"ota", "test"} : GatedCheck(command)
  BY <1>23 DEF GatedCheck
<1>24. CASE GatedEffect
  BY <1>24 DEF GatedEffect
<1>25. CASE \E s \in Requestable : StateSet(s)
  BY <1>25 DEF StateSet
<1>26. CASE StateLock
  BY <1>26 DEF StateLock
<1>27. CASE Upload
  BY <1>27 DEF Upload
<1>28. CASE Reboot
  <2> PICK chord \in Chords, started \in BOOLEAN : Boot(chord, started)
    BY <1>28 DEF Reboot
  <2>1. shell' = "idle" /\ routine'.at = "idle"
    BY DEF Boot, Idle
  <2>2. CASE chord \in {"ota", "usb"} /\ started
    <3>1. state' = "DEBUG"
      BY <2>2 DEF Boot
    <3> QED
      BY <2>1, <3>1
  <2>3. CASE ~(chord \in {"ota", "usb"} /\ started)
    <3>1. ~session' /\ driver' \in {"persistent", "none"} /\ ota' = "idle"
      BY <2>3 DEF Boot
    <3> QED
      BY <2>1, <3>1
  <2> QED
    BY <2>2, <2>3
<1>29. CASE cancelDebugTests
  BY <1>29 DEF cancelDebugTests
<1>30. CASE StopServer
  BY <1>30 DEF StopServer
<1> QED
  BY <1>1, <1>2, <1>3, <1>4, <1>5, <1>6, <1>7, <1>8, <1>9, <1>10, <1>11, <1>12,
     <1>13, <1>14, <1>15, <1>16, <1>17, <1>18, <1>19, <1>20, <1>21, <1>22, <1>23, <1>24,
     <1>25, <1>26, <1>27, <1>28, <1>29, <1>30,
     NextSteps

-----------------------------------------------------------------------------
(* The history.                                                            *)

Records == [from : States, to : States]

\* Dropping the oldest record of a full ring keeps the others in order.
LEMMA TailOfRecords ==
  ASSUME NEW h \in Seq(Records), Len(h) >= 2
  PROVE  /\ Tail(h) \in Seq(Records) /\ Len(Tail(h)) = Len(h) - 1
         /\ \A i \in 1 .. Len(h) - 1 : Tail(h)[i] = h[i + 1]
OBVIOUS

\* Appending a record keeps the ones before it and puts it last.
LEMMA AppendOfRecord ==
  ASSUME NEW h \in Seq(Records), NEW r \in Records
  PROVE  /\ Append(h, r) \in Seq(Records) /\ Len(Append(h, r)) = Len(h) + 1
         /\ \A i \in 1 .. Len(h) : Append(h, r)[i] = h[i]
         /\ Append(h, r)[Len(h) + 1] = r
OBVIOUS

\* recordTransition() of a step from a state the history leads to: the ring stays bounded,
\* its records stay chained, and they lead to where the step went.
LEMMA RecordChains ==
  ASSUME NEW from \in States, NEW to \in States, HistoryTyped, Chained, Continues(from),
         recordTransition(from, to)
  PROVE  /\ HistoryTyped' /\ Chained'
         /\ history' # <<>> => to \in {history'[Len(history')].to, "ERROR"}
<1> USE DEF Records
<1>1. CASE from = to
  BY <1>1 DEF recordTransition, HistoryTyped, Chained, Continues
<1>2. CASE from # to
  <2> DEFINE r == [from |-> from, to |-> to]
             h == Append(history, r)
  <2>1. history \in Seq(Records) /\ Len(history) \in Nat /\ Len(history) <= HistoryDepth
    BY DEF HistoryTyped
  <2>2. r \in Records /\ r.from = from /\ r.to = to
    OBVIOUS
  <2>3. /\ h \in Seq(Records) /\ Len(h) = Len(history) + 1
        /\ \A i \in 1 .. Len(history) : h[i] = history[i]
        /\ h[Len(history) + 1] = r
    BY <2>1, <2>2, AppendOfRecord
  <2>4. history' = IF Len(h) > HistoryDepth THEN Tail(h) ELSE h
    BY <1>2 DEF recordTransition
  <2> HIDE DEF r, h, Records
  <2>5. \A i \in 2 .. Len(h) : h[i].from \in {h[i - 1].to, "ERROR"}
    <3> SUFFICES ASSUME NEW i \in 2 .. Len(h) PROVE h[i].from \in {h[i - 1].to, "ERROR"}
      OBVIOUS
    <3>1. CASE i = Len(h)
      <4>1. history # <<>> /\ i - 1 = Len(history) /\ h[i - 1] = history[i - 1] /\ h[i] = r
        BY <2>1, <2>3, <3>1
      <4> QED
        BY <4>1, <2>2 DEF Continues
    <3>2. CASE i # Len(h)
      <4>1. i \in 2 .. Len(history) /\ h[i] = history[i] /\ h[i - 1] = history[i - 1]
        BY <2>1, <2>3, <3>2
      <4> QED
        BY <4>1 DEF Chained
    <3> QED
      BY <3>1, <3>2
  <2>6. CASE Len(h) > HistoryDepth
    <3>1. Len(h) >= 2 /\ history' = Tail(h)
      BY <2>1, <2>3, <2>4, <2>6, StatesAssumption
    <3>2. /\ history' \in Seq(Records) /\ Len(history') = Len(h) - 1
          /\ \A i \in 1 .. Len(h) - 1 : history'[i] = h[i + 1]
      BY <2>3, <3>1, TailOfRecords
    <3>3. HistoryTyped'
      BY <2>1, <2>3, <3>2 DEF HistoryTyped, Records
    <3>4. Chained'
      <4> SUFFICES ASSUME NEW i \in 2 .. Len(history')
                   PROVE  history'[i].from \in {history'[i - 1].to, "ERROR"}
        BY DEF Chained
      <4>1. i + 1 \in 2 .. Len(h) /\ i \in 1 .. Len(h) - 1 /\ i - 1 \in 1 .. Len(h) - 1
            /\ (i + 1) - 1 = i /\ (i - 1) + 1 = i
        BY <2>1, <2>3, <3>2
      <4>2. history'[i] = h[i + 1] /\ history'[i - 1] = h[i]
        BY <3>2, <4>1
      <4> QED
        BY <2>5, <4>1, <4>2
    <3>5. history'[Len(history')] = r
      <4>1. Len(h) - 1 \in 1 .. Len(h) - 1 /\ (Len(h) - 1) + 1 = Len(history) + 1
        BY <2>1, <2>3, <3>1
      <4> QED
        BY <2>3, <3>2, <4>1
    <3> QED
      BY <2>2, <3>3, <3>4, <3>5
  <2>7. CASE ~(Len(h) > HistoryDepth)
    <3>1. history' = h
      BY <2>4, <2>7
    <3>2. HistoryTyped'
      BY <2>1, <2>3, <2>7, <3>1, StatesAssumption DEF HistoryTyped, Records
    <3>3. Chained'
      BY <2>5, <3>1 DEF Chained
    <3>4. history'[Len(history')] = r
      BY <2>3, <3>1
    <3> QED
      BY <2>2, <3>2, <3>3, <3>4
  <2> QED
    BY <2>6, <2>7
<1> QED
  BY <1>1, <1>2

\* The steps that leave the history and the states alone.
LEMMA RecordsStand ==
  ASSUME HistoryTyped, Recorded, UNCHANGED history,
         state' \in {state, "ERROR"},
         routine'.at # "idle" => routine'.from = state \/ (routine.at # "idle" /\ UNCHANGED routine.from)
  PROVE  HistoryTyped' /\ Recorded'
BY DEF HistoryTyped, Recorded, Chained, Continues

\* run() returning the state `to` records how it got there.
LEMMA RunReturns ==
  ASSUME NEW to \in States, RunReturn(to), machine.at = "action",
         PolicyTyped, HistoryTyped, Inside, Recorded
  PROVE  HistoryTyped' /\ Recorded'
<1>1. machine.from = state /\ state \in States /\ routine.at = "idle"
  BY DEF Inside, PolicyTyped
<1>2. /\ HistoryTyped' /\ Chained'
      /\ history' # <<>> => to \in {history'[Len(history')].to, "ERROR"}
  BY <1>1, RecordChains DEF RunReturn, Recorded
<1>3. state' = to /\ routine' = routine
  BY DEF RunReturn
<1> QED
  BY <1>1, <1>2, <1>3 DEF Recorded, Continues

\* next() storing its choice does.
LEMMA NextStores ==
  ASSUME NextStore, PolicyTyped, HistoryTyped, Inside, Recorded
  PROVE  HistoryTyped' /\ Recorded'
<1>1. routine.from \in States /\ routine.to \in States /\ Continues(routine.from)
  BY DEF NextStore, PolicyTyped, Recorded
<1>2. /\ HistoryTyped' /\ Chained'
      /\ history' # <<>> => routine.to \in {history'[Len(history')].to, "ERROR"}
  BY <1>1, RecordChains DEF NextStore, Recorded
<1>3. state' = routine.to /\ routine'.at = "idle"
  BY DEF NextStore, Idle
<1> QED
  BY <1>2, <1>3 DEF Recorded, Continues

\* A restart forgets the history.
LEMMA RestartForgets ==
  ASSUME Reboot
  PROVE  HistoryTyped' /\ Recorded'
<1>1. history' = <<>> /\ routine'.at = "idle"
  BY DEF Reboot, Boot, Idle
<1> QED
  BY <1>1, StatesAssumption DEF HistoryTyped, Recorded, Chained, Continues

\* Every step keeps the history a bounded path to where the machine is.
LEMMA RecordedStep ==
  ASSUME PolicyTyped, HistoryTyped, Inside, Recorded, Next
  PROVE  HistoryTyped' /\ Recorded'
<1>1. CASE RunTake
  <2>1. /\ UNCHANGED history /\ state' \in {state, "ERROR"}
        /\ routine'.at # "idle" => routine'.from = state \/ (routine.at # "idle" /\ UNCHANGED routine.from)
    BY <1>1 DEF RunTake, policy
  <2> QED
    BY <2>1, RecordsStand
<1>2. CASE RunPlain
  BY <1>2, RunReturns DEF RunPlain, SelfTransition, Inside, PolicyTyped, States
<1>3. CASE RunMenu
  BY <1>3, RunReturns DEF RunMenu, States
<1>4. CASE RunDebug
  BY <1>4, RunReturns DEF RunDebug, States
<1>5. CASE RunThrow
  <2>1. /\ UNCHANGED history /\ state' \in {state, "ERROR"}
        /\ routine'.at # "idle" => routine'.from = state \/ (routine.at # "idle" /\ UNCHANGED routine.from)
    BY <1>5 DEF RunThrow, policy
  <2> QED
    BY <2>1, RecordsStand
<1>6. CASE reportError
  <2>1. /\ UNCHANGED history /\ state' \in {state, "ERROR"}
        /\ routine'.at # "idle" => routine'.from = state \/ (routine.at # "idle" /\ UNCHANGED routine.from)
    BY <1>6 DEF reportError, policy
  <2> QED
    BY <2>1, RecordsStand
<1>7. CASE ProcessRead
  <2>1. /\ UNCHANGED history /\ state' \in {state, "ERROR"}
        /\ routine'.at # "idle" => routine'.from = state \/ (routine.at # "idle" /\ UNCHANGED routine.from)
    BY <1>7 DEF ProcessRead, policy
  <2> QED
    BY <2>1, RecordsStand
<1>8. CASE ProcessStore
  <2>1. CASE RunReturn("DEBUG")
    BY <1>8, <2>1, RunReturns DEF ProcessStore, Inside, States
  <2>2. CASE UNCHANGED policy
    BY <2>2, RecordsStand DEF policy
  <2> QED
    BY <1>8, <2>1, <2>2 DEF ProcessStore
<1>9. CASE \E t \in {"machine", "shell"} : ReclaimSwitch(t)
  <2>1. /\ UNCHANGED history /\ state' \in {state, "ERROR"}
        /\ routine'.at # "idle" => routine'.from = state \/ (routine.at # "idle" /\ UNCHANGED routine.from)
    BY <1>9 DEF ReclaimSwitch, policy
  <2> QED
    BY <2>1, RecordsStand
<1>10. CASE \E t \in {"machine", "shell"} : ReclaimStore(t)
  <2>1. /\ UNCHANGED history /\ state' \in {state, "ERROR"}
        /\ routine'.at # "idle" => routine'.from = state \/ (routine.at # "idle" /\ UNCHANGED routine.from)
    BY <1>10 DEF ReclaimStore, policy
  <2> QED
    BY <2>1, RecordsStand
<1>11. CASE \E t \in {"machine", "shell"} : ReclaimEnd(t)
  <2>1. CASE ReclaimEnd("machine")
    BY <2>1, RunReturns DEF ReclaimEnd, Inside, States
  <2>2. CASE ReclaimEnd("shell")
    <3>1. UNCHANGED policy
      BY <2>2 DEF ReclaimEnd
    <3> QED
      BY <3>1, RecordsStand DEF policy
  <2> QED
    BY <1>11, <2>1, <2>2
<1>12. CASE NextTake
  <2>1. /\ UNCHANGED history /\ state' \in {state, "ERROR"}
        /\ routine'.at # "idle" => routine'.from = state \/ (routine.at # "idle" /\ UNCHANGED routine.from)
    BY <1>12 DEF NextTake, PolicyTyped, policy
  <2> QED
    BY <2>1, RecordsStand
<1>13. CASE \E pressed \in SUBSET Buttons : process_transition(pressed)
  <2>1. /\ UNCHANGED history /\ state' \in {state, "ERROR"}
        /\ routine'.at # "idle" => routine'.from = state \/ (routine.at # "idle" /\ UNCHANGED routine.from)
    BY <1>13 DEF process_transition, PolicyTyped, policy
  <2> QED
    BY <2>1, RecordsStand
<1>14. CASE NextStore
  BY <1>14, NextStores
<1>15. CASE StorageExpose
  <2>1. /\ UNCHANGED history /\ state' \in {state, "ERROR"}
        /\ routine'.at # "idle" => routine'.from = state \/ (routine.at # "idle" /\ UNCHANGED routine.from)
    BY <1>15 DEF StorageExpose, policy
  <2> QED
    BY <2>1, RecordsStand
<1>16. CASE ExposeRead
  <2>1. /\ UNCHANGED history /\ state' \in {state, "ERROR"}
        /\ routine'.at # "idle" => routine'.from = state \/ (routine.at # "idle" /\ UNCHANGED routine.from)
    BY <1>16 DEF ExposeRead, policy
  <2> QED
    BY <2>1, RecordsStand
<1>17. CASE ExposeStore
  <2>1. /\ UNCHANGED history /\ state' \in {state, "ERROR"}
        /\ routine'.at # "idle" => routine'.from = state \/ (routine.at # "idle" /\ UNCHANGED routine.from)
    BY <1>17 DEF ExposeStore, policy
  <2> QED
    BY <2>1, RecordsStand
<1>18. CASE ExposeSwitch
  <2>1. /\ UNCHANGED history /\ state' \in {state, "ERROR"}
        /\ routine'.at # "idle" => routine'.from = state \/ (routine.at # "idle" /\ UNCHANGED routine.from)
    BY <1>18 DEF ExposeSwitch, policy
  <2> QED
    BY <2>1, RecordsStand
<1>19. CASE ExposeGiven
  <2>1. /\ UNCHANGED history /\ state' \in {state, "ERROR"}
        /\ routine'.at # "idle" => routine'.from = state \/ (routine.at # "idle" /\ UNCHANGED routine.from)
    BY <1>19 DEF ExposeGiven, policy
  <2> QED
    BY <2>1, RecordsStand
<1>20. CASE ExposeInstall
  <2>1. /\ UNCHANGED history /\ state' \in {state, "ERROR"}
        /\ routine'.at # "idle" => routine'.from = state \/ (routine.at # "idle" /\ UNCHANGED routine.from)
    BY <1>20 DEF ExposeInstall, policy
  <2> QED
    BY <2>1, RecordsStand
<1>21. CASE ExposeBegin
  <2>1. /\ UNCHANGED history /\ state' \in {state, "ERROR"}
        /\ routine'.at # "idle" => routine'.from = state \/ (routine.at # "idle" /\ UNCHANGED routine.from)
    BY <1>21 DEF ExposeBegin, policy
  <2> QED
    BY <2>1, RecordsStand
<1>22. CASE StorageReclaim
  <2>1. /\ UNCHANGED history /\ state' \in {state, "ERROR"}
        /\ routine'.at # "idle" => routine'.from = state \/ (routine.at # "idle" /\ UNCHANGED routine.from)
    BY <1>22 DEF StorageReclaim, policy
  <2> QED
    BY <2>1, RecordsStand
<1>23. CASE \E command \in {"ota", "test"} : GatedCheck(command)
  <2>1. /\ UNCHANGED history /\ state' \in {state, "ERROR"}
        /\ routine'.at # "idle" => routine'.from = state \/ (routine.at # "idle" /\ UNCHANGED routine.from)
    BY <1>23 DEF GatedCheck, policy
  <2> QED
    BY <2>1, RecordsStand
<1>24. CASE GatedEffect
  <2>1. /\ UNCHANGED history /\ state' \in {state, "ERROR"}
        /\ routine'.at # "idle" => routine'.from = state \/ (routine.at # "idle" /\ UNCHANGED routine.from)
    BY <1>24 DEF GatedEffect, policy
  <2> QED
    BY <2>1, RecordsStand
<1>25. CASE \E s \in Requestable : StateSet(s)
  <2>1. /\ UNCHANGED history /\ state' \in {state, "ERROR"}
        /\ routine'.at # "idle" => routine'.from = state \/ (routine.at # "idle" /\ UNCHANGED routine.from)
    BY <1>25 DEF StateSet, policy
  <2> QED
    BY <2>1, RecordsStand
<1>26. CASE StateLock
  <2>1. /\ UNCHANGED history /\ state' \in {state, "ERROR"}
        /\ routine'.at # "idle" => routine'.from = state \/ (routine.at # "idle" /\ UNCHANGED routine.from)
    BY <1>26 DEF StateLock, policy
  <2> QED
    BY <2>1, RecordsStand
<1>27. CASE Upload
  <2>1. /\ UNCHANGED history /\ state' \in {state, "ERROR"}
        /\ routine'.at # "idle" => routine'.from = state \/ (routine.at # "idle" /\ UNCHANGED routine.from)
    BY <1>27 DEF Upload, policy
  <2> QED
    BY <2>1, RecordsStand
<1>28. CASE Reboot
  BY <1>28, RestartForgets
<1>29. CASE cancelDebugTests
  <2>1. /\ UNCHANGED history /\ state' \in {state, "ERROR"}
        /\ routine'.at # "idle" => routine'.from = state \/ (routine.at # "idle" /\ UNCHANGED routine.from)
    BY <1>29 DEF cancelDebugTests, PolicyTyped, policy
  <2> QED
    BY <2>1, RecordsStand
<1>30. CASE StopServer
  <2>1. /\ UNCHANGED history /\ state' \in {state, "ERROR"}
        /\ routine'.at # "idle" => routine'.from = state \/ (routine.at # "idle" /\ UNCHANGED routine.from)
    BY <1>30 DEF StopServer, PolicyTyped, policy
  <2> QED
    BY <2>1, RecordsStand
<1> QED
  BY <1>1, <1>2, <1>3, <1>4, <1>5, <1>6, <1>7, <1>8, <1>9, <1>10, <1>11, <1>12,
     <1>13, <1>14, <1>15, <1>16, <1>17, <1>18, <1>19, <1>20, <1>21, <1>22, <1>23, <1>24,
     <1>25, <1>26, <1>27, <1>28, <1>29, <1>30,
     NextSteps

-----------------------------------------------------------------------------
(* The theorems.                                                           *)

\* The first boot starts in the invariant.
LEMMA InitHolds == Init => IInv
<1> SUFFICES ASSUME Init PROVE IInv
  OBVIOUS
<1> USE StatesAssumption DEF Init
<1>1. PolicyTyped
  BY DEF PolicyTyped, States, NONE, Out, Idle
<1>2. HistoryTyped
  BY DEF HistoryTyped
<1>3. UsbTyped
  BY DEF UsbTyped, Places, NoOp
<1>4. FlagsTyped
  BY DEF FlagsTyped
<1>5. MenuTyped
  BY DEF MenuTyped, NoMenu
<1>6. Inside
  BY DEF Inside, Out, Idle, NoOp
<1>7. Recorded
  BY DEF Recorded, Chained, Continues, Idle
<1>8. Gates
  BY DEF Gates, Busy, is_active
<1> QED
  BY <1>1, <1>2, <1>3, <1>4, <1>5, <1>6, <1>7, <1>8 DEF IInv, Typed

\* Every step keeps the invariant.
LEMMA StepHolds == IInv /\ [Next]_vars => IInv'
<1> SUFFICES ASSUME IInv, [Next]_vars PROVE IInv'
  OBVIOUS
<1>1. CASE Next
  BY <1>1, PolicyStep, RecordedStep, UsbStep, FlagsStep, MenuStep, InsideStep, GatesStep
     DEF IInv, Typed
<1>2. CASE UNCHANGED vars
  BY <1>2 DEF vars, policy, card, IInv, Typed, PolicyTyped, HistoryTyped, UsbTyped, FlagsTyped,
              MenuTyped, Inside, Recorded, Chained, Continues, Gates, Busy, is_active, LeavingDebug
<1> QED
  BY <1>1, <1>2

\* The invariant holds in every reachable state.
THEOREM Inductive == Spec => []IInv
BY InitHolds, StepHolds, PTL DEF Spec

\* The variables keep their types, and the transition mutex is held by the task inside.
THEOREM TypeCorrect == Spec => []TypeOK
<1>1. IInv => TypeOK
  <2> SUFFICES ASSUME IInv PROVE TypeOK
    OBVIOUS
  <2>1. mutex = CASE machine.at = "action" -> "machine" [] routine.at # "idle" -> "routine"
                  [] OTHER -> "free"
    BY DEF IInv, Inside
  <2>2. locked \in BOOLEAN
    BY DEF IInv, Typed, FlagsTyped
  <2>3. menu.selected \in 0 .. Modes - 1 /\ mode \in 0 .. Modes - 1
    BY DEF IInv, Typed, MenuTyped
  <2> QED
    BY <2>1, <2>2, <2>3
       DEF IInv, Typed, TypeOK, PolicyTyped, HistoryTyped, UsbTyped, FlagsTyped
<1> QED
  BY <1>1, Inductive, PTL

\* The transition history is a path that leads to the current state: reportError() may cut
\* in between with its ERROR, and otherwise run() and next() record each step from where the
\* record before it ended.
THEOREM HistoryTellsThePath == Spec => []HistoryIsAPath
<1>1. IInv => HistoryIsAPath
  BY DEF IInv, Recorded, Chained, Continues, HistoryIsAPath
<1> QED
  BY <1>1, Inductive, PTL

\* Outside DEBUG the host does not own the card and no firmware is being written, unless an
\* error, or a command or an upload not yet visible to the gates, let DEBUG go.
THEOREM DebugIsGated == Spec => []GatesKeepDebug
<1>1. IInv => GatesKeepDebug
  BY DEF IInv, Gates, Busy, GatesKeepDebug
<1> QED
  BY <1>1, Inductive, PTL
=============================================================================
