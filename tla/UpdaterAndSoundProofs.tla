------------------------ MODULE UpdaterAndSoundProofs -------------------------
(***************************************************************************)
(* Proofs about OtaUpdater, for every number of stored networks and every  *)
(* choice of the tasks that cancel, and about Junkebox, for every set of   *)
(* songs and of calls: the two sessions other tasks may call off at any    *)
(* moment.  The components share no state and no name; the second half     *)
(* is about Junkebox.                                                      *)
(***************************************************************************)
EXTENDS OtaUpdater, Junkebox, FiniteSetTheorems, TLAPS

-----------------------------------------------------------------------------
(* OtaUpdater.  The four tasks share the session under no lock, so almost  *)
(* nothing survives two operations that overlap: the invariant says what   *)
(* holds whatever happens (the handle and the server agree, an upload has  *)
(* a server), and what holds as long as no task acted while another was    *)
(* inside an operation.                                                    *)

(* The inductive invariant.                                                *)

\* try_next_candidate() steps past the last candidate only on its way to the next
\* scan, so that what joins, serves or surveys has an index inside candidates_.
IndexHasRoom ==
  session.index = MaxNetworks
    => phase = "SCANNING" /\ ~session.survey /\ at["routine"] # "landing"

\* A survey joins no network and is never started on a direct session.
SurveyJoinsNothing ==
  /\ session.survey => /\ phase \notin {"CONNECTING", "CONNECT_FAILED"}
                       /\ ~session.direct /\ at["shell"] # "upgrade"
  /\ phase = "IDLE" => ~session.direct

\* server_ is kept exactly while the server runs; httpd_stop() returns only when its
\* task is out of the handler; a direct session has no server.
ServerInStep ==
  /\ server <=> httpd
  /\ upload # "none" => httpd
  /\ session.direct => ~httpd
  /\ at["shell"] = "upgrade" => ~session.direct

\* Where each task inside an operation has got the session to.
Places ==
  /\ \A t, u \in Tasks : at[t] # "none" /\ at[u] # "none" => t = u
  /\ \A t \in Tasks :
       /\ at[t] = "stopping" => httpd
       /\ at[t] \in {"drop", "reset"} => ~httpd
       /\ at[t] = "reset" => wifi.home /\ wifi.link = "down"
  /\ at["shell"] = "upgrade" => ~httpd
  /\ at["routine"] = "landing" => phase = "CONNECTING"

\* The radio is ESP-NOW's without a session and during a survey, which joins no network.
RadioAtHome ==
  /\ httpd => phase = "SERVING"
  /\ session.survey => phase = "SCANNING"
  /\ phase = "IDLE" \/ session.survey => wifi.home /\ wifi.link = "down"

Orderly == ~overlap => Places /\ RadioAtHome /\ ~broken

IInv == TypeOK /\ IndexHasRoom /\ SurveyJoinsNothing /\ ServerInStep /\ Orderly

\* TypeOK, taken apart.
FlagsTyped ==
  /\ raised \subseteq {"scan_done", "got_ip", "disconnected"}
  /\ {server, httpd, finish, overlap, broken} \subseteq BOOLEAN
  /\ upload \in {"none", "checking", "writing", "closing"}
SessionTyped ==
  /\ phase \in Phases
  /\ session \in [direct : BOOLEAN, survey : BOOLEAN, in_flight : BOOLEAN,
                  index : 0 .. MaxNetworks, count : 0 .. MaxNetworks]
  /\ phase = "CONNECTING" /\ ~overlap => session.index < session.count
InsideTyped ==
  at \in [Tasks -> {"none", "stop", "stopping", "drop", "reset", "landing", "upgrade"}]
WifiTyped ==
  wifi \in [scanning : BOOLEAN, link : {"down", "coming", "up"}, home : BOOLEAN, leaving : BOOLEAN]

LEMMA TypeParts ==
  /\ TypeOK <=> FlagsTyped /\ SessionTyped /\ InsideTyped /\ WifiTyped
  /\ TypeOK' <=> FlagsTyped' /\ SessionTyped' /\ InsideTyped' /\ WifiTyped'
BY DEF TypeOK, FlagsTyped, SessionTyped, InsideTyped, WifiTyped

-----------------------------------------------------------------------------
(* Steps.                                                                  *)

\* finish_update() when cancel() has nothing to do: the timer's work is given up.
TimerGivesUp ==
  /\ finish /\ finish' = FALSE
  /\ UNCHANGED <<phase, raised, session, server, httpd, upload, at, wifi, overlap, broken>>

\* The disjuncts of Next, by the task that takes them.
LEMMA NextSteps ==
  ASSUME Next
  PROVE  \/ \E t \in Tasks : CancelBegin(t) /\ finish' \in {finish, FALSE}
         \/ \E t \in Tasks : StopServer(t)
         \/ \E t \in Tasks : ServerStopped(t)
         \/ \E t \in Tasks : DropLink(t)
         \/ \E t \in Tasks : CancelEnd(t)
         \/ ProcessScanDone \/ ProcessRescan \/ ProcessGotIp \/ ProcessLanding
         \/ ProcessFailed \/ ProcessRetry
         \/ Start \/ Survey \/ Upgrade \/ UpgradeServe
         \/ UploadBegin \/ UploadEnd \/ UploadReturn \/ WifiEvent
         \/ TimerGivesUp
<1>1. {"routine", "shell", "timer"} \subseteq Tasks
  BY DEF Tasks
<1>2. CASE \E t \in Tasks : CancelStep(t)
  BY <1>2 DEF CancelStep
<1>3. CASE Process
  BY <1>1, <1>2, <1>3 DEF Process, ProcessButton, LeaveDebug
<1>4. CASE Shell
  BY <1>1, <1>2, <1>4 DEF Shell, ShellCancel
<1>5. CASE finish_update
  BY <1>1, <1>5 DEF finish_update, TimerGivesUp
<1>6. CASE CancelStep("timer") \/ UploadBegin \/ UploadEnd \/ UploadReturn \/ WifiEvent
  BY <1>1, <1>2, <1>6
<1> QED
  BY <1>3, <1>4, <1>5, <1>6 DEF Next

-----------------------------------------------------------------------------
(* The steps preserve the invariant.                                       *)

\* The flags keep their types.
LEMMA FlagsStep ==
  ASSUME FlagsTyped, Next
  PROVE  FlagsTyped'
<1> USE OtaAssumption DEF FlagsTyped
<1>1. CASE \E t \in Tasks : CancelBegin(t) /\ finish' \in {finish, FALSE}
  BY <1>1 DEF CancelBegin, At, Acts
<1>2. CASE \E t \in Tasks : StopServer(t)
  BY <1>2 DEF StopServer, At
<1>3. CASE \E t \in Tasks : ServerStopped(t)
  BY <1>3 DEF ServerStopped, At
<1>4. CASE \E t \in Tasks : DropLink(t)
  BY <1>4 DEF DropLink, At, Disconnected
<1>5. CASE \E t \in Tasks : CancelEnd(t)
  BY <1>5 DEF CancelEnd, At, NoSession
<1>6. CASE ProcessScanDone
  BY <1>6 DEF ProcessScanDone, Pass, Acts, fail_candidate, Disconnected
<1>7. CASE ProcessRescan
  BY <1>7 DEF ProcessRescan, Pass, Acts, ScanStart
<1>8. CASE ProcessGotIp
  BY <1>8 DEF ProcessGotIp, Pass, Acts, At, StartServer, fail_candidate, Disconnected
<1>9. CASE ProcessLanding
  BY <1>9 DEF ProcessLanding, Acts, At
<1>10. CASE ProcessFailed
  BY <1>10 DEF ProcessFailed, Pass, Acts, fail_candidate, Disconnected
<1>11. CASE ProcessRetry
  BY <1>11 DEF ProcessRetry, Pass, Acts
<1>12. CASE Start
  BY <1>12 DEF Start, Acts, ScanStart, NoSession, Loadable
<1>13. CASE Survey
  BY <1>13 DEF Survey, Acts, ScanStart
<1>14. CASE Upgrade
  BY <1>14 DEF Upgrade, Acts, At
<1>15. CASE UpgradeServe
  BY <1>15 DEF UpgradeServe, Acts, At, StartServer, fail_candidate, Disconnected
<1>16. CASE UploadBegin
  BY <1>16 DEF UploadBegin
<1>17. CASE UploadEnd
  BY <1>17 DEF UploadEnd
<1>18. CASE UploadReturn
  BY <1>18 DEF UploadReturn
<1>19. CASE WifiEvent
  BY <1>19 DEF WifiEvent, Disconnected
<1>20. CASE TimerGivesUp
  BY <1>20 DEF TimerGivesUp
<1> QED
  BY <1>1, <1>2, <1>3, <1>4, <1>5, <1>6, <1>7, <1>8, <1>9, <1>10,
     <1>11, <1>12, <1>13, <1>14, <1>15, <1>16, <1>17, <1>18, <1>19, <1>20, NextSteps

\* The index and the count stay among the stored networks.
LEMMA SessionStep ==
  ASSUME SessionTyped, InsideTyped, FlagsTyped, IndexHasRoom, Next
  PROVE  SessionTyped'
<1> USE OtaAssumption DEF SessionTyped, InsideTyped, FlagsTyped, IndexHasRoom, Tasks, Phases
<1>1. CASE \E t \in Tasks : CancelBegin(t) /\ finish' \in {finish, FALSE}
  BY <1>1 DEF CancelBegin, At, Acts
<1>2. CASE \E t \in Tasks : StopServer(t)
  BY <1>2 DEF StopServer, At
<1>3. CASE \E t \in Tasks : ServerStopped(t)
  BY <1>3 DEF ServerStopped, At
<1>4. CASE \E t \in Tasks : DropLink(t)
  BY <1>4 DEF DropLink, At, Disconnected
<1>5. CASE \E t \in Tasks : CancelEnd(t)
  BY <1>5 DEF CancelEnd, At, NoSession
<1>6. CASE ProcessScanDone
  <2> USE DEF ProcessScanDone
  <2>1. CASE session.survey
    BY <1>6, <2>1
  <2>2. CASE ~session.survey
    <3>1. PICK found \in session.index .. MaxNetworks :
            IF found >= session.count
            THEN /\ session' = [session EXCEPT !.in_flight = FALSE, !.index = 0]
                 /\ UNCHANGED <<phase, wifi, broken>>
            ELSE /\ session' = [session EXCEPT !.in_flight = FALSE, !.index = found]
                 /\ phase' \in {"CONNECTING", "CONNECT_FAILED"}
      BY <1>6, <2>2 DEF fail_candidate
    <3>2. phase = "SCANNING" /\ UNCHANGED at
      BY <1>6
    <3>3. found \in 0 .. MaxNetworks
      BY <3>1
    <3>4. CASE found >= session.count
      <4>1. session' = [session EXCEPT !.in_flight = FALSE, !.index = 0] /\ phase' = "SCANNING"
        BY <3>1, <3>2, <3>4
      <4>2. 0 \in 0 .. MaxNetworks
        OBVIOUS
      <4>3. session' \in [direct : BOOLEAN, survey : BOOLEAN, in_flight : BOOLEAN,
                          index : 0 .. MaxNetworks, count : 0 .. MaxNetworks]
        BY <4>1, <4>2
      <4> QED
        BY <4>1, <4>3
    <3>5. CASE ~(found >= session.count)
      <4>1. /\ session' = [session EXCEPT !.in_flight = FALSE, !.index = found]
            /\ phase' \in {"CONNECTING", "CONNECT_FAILED"}
        BY <3>1, <3>5
      <4>2. session' \in [direct : BOOLEAN, survey : BOOLEAN, in_flight : BOOLEAN,
                          index : 0 .. MaxNetworks, count : 0 .. MaxNetworks]
        BY <3>3, <4>1
      <4>3. session'.index < session'.count
        BY <3>3, <3>5, <4>1
      <4> QED
        BY <4>1, <4>2, <4>3
    <3> QED
      BY <3>4, <3>5
  <2> QED
    BY <2>1, <2>2
<1>7. CASE ProcessRescan
  BY <1>7 DEF ProcessRescan, Pass, Acts, ScanStart
<1>8. CASE ProcessGotIp
  BY <1>8 DEF ProcessGotIp, Pass, Acts, At, StartServer, fail_candidate, Disconnected
<1>9. CASE ProcessLanding
  BY <1>9 DEF ProcessLanding, Acts, At
<1>10. CASE ProcessFailed
  BY <1>10 DEF ProcessFailed, Pass, Acts, fail_candidate, Disconnected
<1>11. CASE ProcessRetry
  BY <1>11 DEF ProcessRetry, Pass, Acts
<1>12. CASE Start
  <2>1. PICK started \in BOOLEAN, count \in 1 .. MaxNetworks :
          session' = [direct |-> FALSE, survey |-> FALSE, in_flight |-> started,
                      index |-> 0, count |-> count]
    BY <1>12, ZenonT(60) DEF Start, ScanStart, NoSession, Loadable
  <2>2. phase' = "SCANNING"
    BY <1>12 DEF Start
  <2> QED
    BY <2>1, <2>2
<1>13. CASE Survey
  BY <1>13 DEF Survey, Acts, ScanStart
<1>14. CASE Upgrade
  BY <1>14 DEF Upgrade, Acts, At
<1>15. CASE UpgradeServe
  BY <1>15 DEF UpgradeServe, Acts, At, StartServer, fail_candidate, Disconnected
<1>16. CASE UploadBegin
  BY <1>16 DEF UploadBegin
<1>17. CASE UploadEnd
  BY <1>17 DEF UploadEnd
<1>18. CASE UploadReturn
  BY <1>18 DEF UploadReturn
<1>19. CASE WifiEvent
  BY <1>19 DEF WifiEvent, Disconnected
<1>20. CASE TimerGivesUp
  BY <1>20 DEF TimerGivesUp
<1> QED
  BY <1>1, <1>2, <1>3, <1>4, <1>5, <1>6, <1>7, <1>8, <1>9, <1>10,
     <1>11, <1>12, <1>13, <1>14, <1>15, <1>16, <1>17, <1>18, <1>19, <1>20, NextSteps

\* Every task stays at one of its places.
LEMMA InsideStep ==
  ASSUME InsideTyped, Next
  PROVE  InsideTyped'
<1> USE OtaAssumption DEF InsideTyped, Tasks
<1>1. CASE \E t \in Tasks : CancelBegin(t) /\ finish' \in {finish, FALSE}
  BY <1>1 DEF CancelBegin, At, Acts
<1>2. CASE \E t \in Tasks : StopServer(t)
  BY <1>2 DEF StopServer, At
<1>3. CASE \E t \in Tasks : ServerStopped(t)
  BY <1>3 DEF ServerStopped, At
<1>4. CASE \E t \in Tasks : DropLink(t)
  BY <1>4 DEF DropLink, At, Disconnected
<1>5. CASE \E t \in Tasks : CancelEnd(t)
  BY <1>5 DEF CancelEnd, At, NoSession
<1>6. CASE ProcessScanDone
  BY <1>6 DEF ProcessScanDone, Pass, Acts, fail_candidate, Disconnected
<1>7. CASE ProcessRescan
  BY <1>7 DEF ProcessRescan, Pass, Acts, ScanStart
<1>8. CASE ProcessGotIp
  BY <1>8 DEF ProcessGotIp, Pass, Acts, At, StartServer, fail_candidate, Disconnected
<1>9. CASE ProcessLanding
  BY <1>9 DEF ProcessLanding, Acts, At
<1>10. CASE ProcessFailed
  BY <1>10 DEF ProcessFailed, Pass, Acts, fail_candidate, Disconnected
<1>11. CASE ProcessRetry
  BY <1>11 DEF ProcessRetry, Pass, Acts
<1>12. CASE Start
  BY <1>12 DEF Start, Acts, ScanStart, NoSession, Loadable
<1>13. CASE Survey
  BY <1>13 DEF Survey, Acts, ScanStart
<1>14. CASE Upgrade
  BY <1>14 DEF Upgrade, Acts, At
<1>15. CASE UpgradeServe
  BY <1>15 DEF UpgradeServe, Acts, At, StartServer, fail_candidate, Disconnected
<1>16. CASE UploadBegin
  BY <1>16 DEF UploadBegin
<1>17. CASE UploadEnd
  BY <1>17 DEF UploadEnd
<1>18. CASE UploadReturn
  BY <1>18 DEF UploadReturn
<1>19. CASE WifiEvent
  BY <1>19 DEF WifiEvent, Disconnected
<1>20. CASE TimerGivesUp
  BY <1>20 DEF TimerGivesUp
<1> QED
  BY <1>1, <1>2, <1>3, <1>4, <1>5, <1>6, <1>7, <1>8, <1>9, <1>10,
     <1>11, <1>12, <1>13, <1>14, <1>15, <1>16, <1>17, <1>18, <1>19, <1>20, NextSteps

\* The driver keeps its type.
LEMMA WifiStep ==
  ASSUME WifiTyped, Next
  PROVE  WifiTyped'
<1> USE OtaAssumption DEF WifiTyped
<1>1. CASE \E t \in Tasks : CancelBegin(t) /\ finish' \in {finish, FALSE}
  BY <1>1 DEF CancelBegin, At, Acts
<1>2. CASE \E t \in Tasks : StopServer(t)
  BY <1>2 DEF StopServer, At
<1>3. CASE \E t \in Tasks : ServerStopped(t)
  BY <1>3 DEF ServerStopped, At
<1>4. CASE \E t \in Tasks : DropLink(t)
  BY <1>4 DEF DropLink, At, Disconnected
<1>5. CASE \E t \in Tasks : CancelEnd(t)
  BY <1>5 DEF CancelEnd, At, NoSession
<1>6. CASE ProcessScanDone
  BY <1>6, ZenonT(60) DEF ProcessScanDone, Pass, Acts, fail_candidate, Disconnected
<1>7. CASE ProcessRescan
  BY <1>7 DEF ProcessRescan, Pass, Acts, ScanStart
<1>8. CASE ProcessGotIp
  BY <1>8 DEF ProcessGotIp, Pass, Acts, At, StartServer, fail_candidate, Disconnected
<1>9. CASE ProcessLanding
  BY <1>9 DEF ProcessLanding, Acts, At
<1>10. CASE ProcessFailed
  BY <1>10 DEF ProcessFailed, Pass, Acts, fail_candidate, Disconnected
<1>11. CASE ProcessRetry
  BY <1>11 DEF ProcessRetry, Pass, Acts
<1>12. CASE Start
  BY <1>12 DEF Start, Acts, ScanStart, NoSession, Loadable
<1>13. CASE Survey
  BY <1>13 DEF Survey, Acts, ScanStart
<1>14. CASE Upgrade
  BY <1>14 DEF Upgrade, Acts, At
<1>15. CASE UpgradeServe
  BY <1>15 DEF UpgradeServe, Acts, At, StartServer, fail_candidate, Disconnected
<1>16. CASE UploadBegin
  BY <1>16 DEF UploadBegin
<1>17. CASE UploadEnd
  BY <1>17 DEF UploadEnd
<1>18. CASE UploadReturn
  BY <1>18 DEF UploadReturn
<1>19. CASE WifiEvent
  BY <1>19 DEF WifiEvent, Disconnected
<1>20. CASE TimerGivesUp
  BY <1>20 DEF TimerGivesUp
<1> QED
  BY <1>1, <1>2, <1>3, <1>4, <1>5, <1>6, <1>7, <1>8, <1>9, <1>10,
     <1>11, <1>12, <1>13, <1>14, <1>15, <1>16, <1>17, <1>18, <1>19, <1>20, NextSteps

\* Only the step past a failed candidate moves the index, and it starts from inside.
LEMMA IndexStep ==
  ASSUME SessionTyped, InsideTyped, IndexHasRoom, SurveyJoinsNothing, Next
  PROVE  IndexHasRoom'
<1> USE OtaAssumption DEF SessionTyped, InsideTyped, IndexHasRoom, SurveyJoinsNothing, Tasks, Phases
<1>1. CASE \E t \in Tasks : CancelBegin(t) /\ finish' \in {finish, FALSE}
  BY <1>1 DEF CancelBegin, At, Acts
<1>2. CASE \E t \in Tasks : StopServer(t)
  BY <1>2 DEF StopServer, At
<1>3. CASE \E t \in Tasks : ServerStopped(t)
  BY <1>3 DEF ServerStopped, At
<1>4. CASE \E t \in Tasks : DropLink(t)
  BY <1>4 DEF DropLink, At, Disconnected
<1>5. CASE \E t \in Tasks : CancelEnd(t)
  BY <1>5 DEF CancelEnd, At, NoSession
<1>6. CASE ProcessScanDone
  <2> USE DEF ProcessScanDone
  <2>1. CASE session.survey
    BY <1>6, <2>1
  <2>2. CASE ~session.survey
    <3>1. PICK found \in session.index .. MaxNetworks :
            IF found >= session.count
            THEN /\ session' = [session EXCEPT !.in_flight = FALSE, !.index = 0]
                 /\ UNCHANGED <<phase, wifi, broken>>
            ELSE /\ session' = [session EXCEPT !.in_flight = FALSE, !.index = found]
                 /\ phase' \in {"CONNECTING", "CONNECT_FAILED"}
      BY <1>6, <2>2 DEF fail_candidate
    <3>2. phase = "SCANNING" /\ UNCHANGED at
      BY <1>6
    <3>3. found \in 0 .. MaxNetworks
      BY <3>1
    <3>4. CASE found >= session.count
      <4>1. session' = [session EXCEPT !.in_flight = FALSE, !.index = 0] /\ phase' = "SCANNING"
        BY <3>1, <3>2, <3>4
      <4> QED
        BY <3>2, <4>1
    <3>5. CASE ~(found >= session.count)
      <4>1. /\ session' = [session EXCEPT !.in_flight = FALSE, !.index = found]
            /\ phase' \in {"CONNECTING", "CONNECT_FAILED"}
        BY <3>1, <3>5
      <4> QED
        BY <2>2, <3>2, <3>3, <3>5, <4>1
    <3> QED
      BY <3>4, <3>5
  <2> QED
    BY <2>1, <2>2
<1>7. CASE ProcessRescan
  BY <1>7 DEF ProcessRescan, Pass, Acts, ScanStart
<1>8. CASE ProcessGotIp
  BY <1>8 DEF ProcessGotIp, Pass, Acts, At, StartServer, fail_candidate, Disconnected
<1>9. CASE ProcessLanding
  BY <1>9 DEF ProcessLanding, Acts, At
<1>10. CASE ProcessFailed
  BY <1>10 DEF ProcessFailed, Pass, Acts, fail_candidate, Disconnected
<1>11. CASE ProcessRetry
  BY <1>11 DEF ProcessRetry, Pass, Acts
<1>12. CASE Start
  BY <1>12 DEF Start, Acts, ScanStart, NoSession, Loadable
<1>13. CASE Survey
  BY <1>13 DEF Survey, Acts, ScanStart
<1>14. CASE Upgrade
  BY <1>14 DEF Upgrade, Acts, At
<1>15. CASE UpgradeServe
  BY <1>15 DEF UpgradeServe, Acts, At, StartServer, fail_candidate, Disconnected
<1>16. CASE UploadBegin
  BY <1>16 DEF UploadBegin
<1>17. CASE UploadEnd
  BY <1>17 DEF UploadEnd
<1>18. CASE UploadReturn
  BY <1>18 DEF UploadReturn
<1>19. CASE WifiEvent
  BY <1>19 DEF WifiEvent, Disconnected
<1>20. CASE TimerGivesUp
  BY <1>20 DEF TimerGivesUp
<1> QED
  BY <1>1, <1>2, <1>3, <1>4, <1>5, <1>6, <1>7, <1>8, <1>9, <1>10,
     <1>11, <1>12, <1>13, <1>14, <1>15, <1>16, <1>17, <1>18, <1>19, <1>20, NextSteps

\* No step joins a network under a survey.
LEMMA SurveyStep ==
  ASSUME SessionTyped, InsideTyped, SurveyJoinsNothing, Next
  PROVE  SurveyJoinsNothing'
<1> USE OtaAssumption DEF SessionTyped, InsideTyped, SurveyJoinsNothing, Tasks, Phases
<1>1. CASE \E t \in Tasks : CancelBegin(t) /\ finish' \in {finish, FALSE}
  BY <1>1 DEF CancelBegin, At, Acts
<1>2. CASE \E t \in Tasks : StopServer(t)
  BY <1>2 DEF StopServer, At
<1>3. CASE \E t \in Tasks : ServerStopped(t)
  BY <1>3 DEF ServerStopped, At
<1>4. CASE \E t \in Tasks : DropLink(t)
  BY <1>4 DEF DropLink, At, Disconnected
<1>5. CASE \E t \in Tasks : CancelEnd(t)
  BY <1>5 DEF CancelEnd, At, NoSession
<1>6. CASE ProcessScanDone
  BY <1>6 DEF ProcessScanDone, Pass, Acts, fail_candidate, Disconnected
<1>7. CASE ProcessRescan
  BY <1>7 DEF ProcessRescan, Pass, Acts, ScanStart
<1>8. CASE ProcessGotIp
  BY <1>8 DEF ProcessGotIp, Pass, Acts, At, StartServer, fail_candidate, Disconnected
<1>9. CASE ProcessLanding
  BY <1>9 DEF ProcessLanding, Acts, At
<1>10. CASE ProcessFailed
  BY <1>10 DEF ProcessFailed, Pass, Acts, fail_candidate, Disconnected
<1>11. CASE ProcessRetry
  BY <1>11 DEF ProcessRetry, Pass, Acts
<1>12. CASE Start
  BY <1>12 DEF Start, Acts, ScanStart, NoSession, Loadable
<1>13. CASE Survey
  BY <1>13 DEF Survey, Acts, ScanStart
<1>14. CASE Upgrade
  BY <1>14 DEF Upgrade, Acts, At
<1>15. CASE UpgradeServe
  BY <1>15 DEF UpgradeServe, Acts, At, StartServer, fail_candidate, Disconnected
<1>16. CASE UploadBegin
  BY <1>16 DEF UploadBegin
<1>17. CASE UploadEnd
  BY <1>17 DEF UploadEnd
<1>18. CASE UploadReturn
  BY <1>18 DEF UploadReturn
<1>19. CASE WifiEvent
  BY <1>19 DEF WifiEvent, Disconnected
<1>20. CASE TimerGivesUp
  BY <1>20 DEF TimerGivesUp
<1> QED
  BY <1>1, <1>2, <1>3, <1>4, <1>5, <1>6, <1>7, <1>8, <1>9, <1>10,
     <1>11, <1>12, <1>13, <1>14, <1>15, <1>16, <1>17, <1>18, <1>19, <1>20, NextSteps

\* The handle, the server and the upload stay in step.
LEMMA ServerStep ==
  ASSUME FlagsTyped, SessionTyped, InsideTyped, ServerInStep, Next
  PROVE  ServerInStep'
<1> USE OtaAssumption DEF FlagsTyped, SessionTyped, InsideTyped, ServerInStep, Tasks, Phases
<1>1. CASE \E t \in Tasks : CancelBegin(t) /\ finish' \in {finish, FALSE}
  BY <1>1 DEF CancelBegin, At, Acts
<1>2. CASE \E t \in Tasks : StopServer(t)
  BY <1>2 DEF StopServer, At
<1>3. CASE \E t \in Tasks : ServerStopped(t)
  BY <1>3 DEF ServerStopped, At
<1>4. CASE \E t \in Tasks : DropLink(t)
  BY <1>4 DEF DropLink, At, Disconnected
<1>5. CASE \E t \in Tasks : CancelEnd(t)
  BY <1>5 DEF CancelEnd, At, NoSession
<1>6. CASE ProcessScanDone
  BY <1>6 DEF ProcessScanDone, Pass, Acts, fail_candidate, Disconnected
<1>7. CASE ProcessRescan
  BY <1>7 DEF ProcessRescan, Pass, Acts, ScanStart
<1>8. CASE ProcessGotIp
  BY <1>8 DEF ProcessGotIp, Pass, Acts, At, StartServer, fail_candidate, Disconnected
<1>9. CASE ProcessLanding
  BY <1>9 DEF ProcessLanding, Acts, At
<1>10. CASE ProcessFailed
  BY <1>10 DEF ProcessFailed, Pass, Acts, fail_candidate, Disconnected
<1>11. CASE ProcessRetry
  BY <1>11 DEF ProcessRetry, Pass, Acts
<1>12. CASE Start
  BY <1>12 DEF Start, Acts, ScanStart, NoSession, Loadable
<1>13. CASE Survey
  BY <1>13 DEF Survey, Acts, ScanStart
<1>14. CASE Upgrade
  BY <1>14 DEF Upgrade, Acts, At
<1>15. CASE UpgradeServe
  BY <1>15 DEF UpgradeServe, Acts, At, StartServer, fail_candidate, Disconnected
<1>16. CASE UploadBegin
  BY <1>16 DEF UploadBegin
<1>17. CASE UploadEnd
  BY <1>17 DEF UploadEnd
<1>18. CASE UploadReturn
  BY <1>18 DEF UploadReturn
<1>19. CASE WifiEvent
  BY <1>19 DEF WifiEvent, Disconnected
<1>20. CASE TimerGivesUp
  BY <1>20 DEF TimerGivesUp
<1> QED
  BY <1>1, <1>2, <1>3, <1>4, <1>5, <1>6, <1>7, <1>8, <1>9, <1>10,
     <1>11, <1>12, <1>13, <1>14, <1>15, <1>16, <1>17, <1>18, <1>19, <1>20, NextSteps

\* A step that overlaps no operation keeps the session in order.
LEMMA OrderlyStep ==
  ASSUME FlagsTyped, SessionTyped, InsideTyped, WifiTyped, ServerInStep, Orderly, Next
  PROVE  Orderly'
<1> USE OtaAssumption DEF FlagsTyped, SessionTyped, InsideTyped, WifiTyped, ServerInStep,
                          Orderly, Places, RadioAtHome, Tasks, Phases, flashing
<1>1. CASE \E t \in Tasks : CancelBegin(t) /\ finish' \in {finish, FALSE}
  <2> PICK t \in Tasks : CancelBegin(t)
    BY <1>1
  <2>1. SUFFICES ASSUME ~overlap'
                 PROVE  Places' /\ RadioAtHome' /\ ~broken'
    BY DEF Orderly
  <2> USE DEF CancelBegin, At
  <2>2. ~overlap /\ \A u \in Tasks \ {t} : at[u] = "none"
    BY <1>1, <2>1 DEF Acts
  <2>3. Places /\ RadioAtHome /\ ~broken
    BY <2>2 DEF Orderly
  <2>4. Places'
    BY <1>1, <2>2, <2>3
  <2>5. RadioAtHome'
    BY <1>1, <2>2, <2>3
  <2>6. ~broken'
    BY <1>1, <2>2, <2>3
  <2> QED
    BY <2>4, <2>5, <2>6
<1>2. CASE \E t \in Tasks : StopServer(t)
  BY <1>2 DEF StopServer, At
<1>3. CASE \E t \in Tasks : ServerStopped(t)
  BY <1>3 DEF ServerStopped, At
<1>4. CASE \E t \in Tasks : DropLink(t)
  <2> PICK t \in Tasks : DropLink(t)
    BY <1>4
  <2>1. SUFFICES ASSUME ~overlap'
                 PROVE  Places' /\ RadioAtHome' /\ ~broken'
    BY DEF Orderly
  <2> USE DEF DropLink, At, Disconnected
  <2>2. ~overlap
    BY <1>4, <2>1
  <2>3. Places /\ RadioAtHome /\ ~broken
    BY <2>2 DEF Orderly
  <2>4. Places'
    BY <1>4, <2>2, <2>3
  <2>5. RadioAtHome'
    BY <1>4, <2>2, <2>3
  <2>6. ~broken'
    BY <1>4, <2>2, <2>3
  <2> QED
    BY <2>4, <2>5, <2>6
<1>5. CASE \E t \in Tasks : CancelEnd(t)
  <2> PICK t \in Tasks : CancelEnd(t)
    BY <1>5
  <2>1. SUFFICES ASSUME ~overlap'
                 PROVE  Places' /\ RadioAtHome' /\ ~broken'
    BY DEF Orderly
  <2> USE DEF CancelEnd, At, NoSession
  <2>2. ~overlap
    BY <1>5, <2>1
  <2>3. Places /\ RadioAtHome /\ ~broken
    BY <2>2 DEF Orderly
  <2>4. Places'
    BY <1>5, <2>2, <2>3
  <2>5. RadioAtHome'
    BY <1>5, <2>2, <2>3
  <2>6. ~broken'
    BY <1>5, <2>2, <2>3
  <2> QED
    BY <2>4, <2>5, <2>6
<1>6. CASE ProcessScanDone
  <2>1. SUFFICES ASSUME ~overlap'
                 PROVE  Places' /\ RadioAtHome' /\ ~broken'
    BY DEF Orderly
  <2> USE DEF ProcessScanDone, Pass, fail_candidate, Disconnected
  <2>2. ~overlap /\ \A u \in Tasks \ {"routine"} : at[u] = "none"
    BY <1>6, <2>1 DEF Acts
  <2>3. Places /\ RadioAtHome /\ ~broken
    BY <2>2 DEF Orderly
  <2>4. Places'
    BY <1>6, <2>2, <2>3
  <2>5. RadioAtHome'
    BY <1>6, <2>2, <2>3
  <2>6. ~broken'
    BY <1>6, <2>2, <2>3
  <2> QED
    BY <2>4, <2>5, <2>6
<1>7. CASE ProcessRescan
  BY <1>7 DEF ProcessRescan, Pass, Acts, ScanStart
<1>8. CASE ProcessGotIp
  <2>1. SUFFICES ASSUME ~overlap'
                 PROVE  Places' /\ RadioAtHome' /\ ~broken'
    BY DEF Orderly
  <2> USE DEF ProcessGotIp, Pass, At, StartServer, fail_candidate, Disconnected
  <2>2. ~overlap /\ \A u \in Tasks \ {"routine"} : at[u] = "none"
    BY <1>8, <2>1 DEF Acts
  <2>3. Places /\ RadioAtHome /\ ~broken
    BY <2>2 DEF Orderly
  <2>4. Places'
    BY <1>8, <2>2, <2>3
  <2>5. RadioAtHome'
    BY <1>8, <2>2, <2>3
  <2>6. ~broken'
    BY <1>8, <2>2, <2>3
  <2> QED
    BY <2>4, <2>5, <2>6
<1>9. CASE ProcessLanding
  BY <1>9 DEF ProcessLanding, Acts, At
<1>10. CASE ProcessFailed
  <2>1. SUFFICES ASSUME ~overlap'
                 PROVE  Places' /\ RadioAtHome' /\ ~broken'
    BY DEF Orderly
  <2> USE DEF ProcessFailed, Pass, fail_candidate, Disconnected
  <2>2. ~overlap /\ \A u \in Tasks \ {"routine"} : at[u] = "none"
    BY <1>10, <2>1 DEF Acts
  <2>3. Places /\ RadioAtHome /\ ~broken
    BY <2>2 DEF Orderly
  <2>4. Places'
    BY <1>10, <2>2, <2>3
  <2>5. RadioAtHome'
    BY <1>10, <2>2, <2>3
  <2>6. ~broken'
    BY <1>10, <2>2, <2>3
  <2> QED
    BY <2>4, <2>5, <2>6
<1>11. CASE ProcessRetry
  BY <1>11 DEF ProcessRetry, Pass, Acts
<1>12. CASE Start
  BY <1>12 DEF Start, Acts, ScanStart, NoSession, Loadable
<1>13. CASE Survey
  BY <1>13 DEF Survey, Acts, ScanStart
<1>14. CASE Upgrade
  BY <1>14 DEF Upgrade, Acts, At
<1>15. CASE UpgradeServe
  <2>1. SUFFICES ASSUME ~overlap'
                 PROVE  Places' /\ RadioAtHome' /\ ~broken'
    BY DEF Orderly
  <2> USE DEF UpgradeServe, At, StartServer, fail_candidate, Disconnected
  <2>2. ~overlap /\ \A u \in Tasks \ {"shell"} : at[u] = "none"
    BY <1>15, <2>1 DEF Acts
  <2>3. Places /\ RadioAtHome /\ ~broken
    BY <2>2 DEF Orderly
  <2>4. Places'
    BY <1>15, <2>2, <2>3
  <2>5. RadioAtHome'
    BY <1>15, <2>2, <2>3
  <2>6. ~broken'
    BY <1>15, <2>2, <2>3
  <2> QED
    BY <2>4, <2>5, <2>6
<1>16. CASE UploadBegin
  BY <1>16 DEF UploadBegin
<1>17. CASE UploadEnd
  BY <1>17 DEF UploadEnd
<1>18. CASE UploadReturn
  BY <1>18 DEF UploadReturn
<1>19. CASE WifiEvent
  BY <1>19 DEF WifiEvent, Disconnected
<1>20. CASE TimerGivesUp
  BY <1>20 DEF TimerGivesUp
<1> QED
  BY <1>1, <1>2, <1>3, <1>4, <1>5, <1>6, <1>7, <1>8, <1>9, <1>10,
     <1>11, <1>12, <1>13, <1>14, <1>15, <1>16, <1>17, <1>18, <1>19, <1>20, NextSteps

-----------------------------------------------------------------------------
(* The theorems.                                                           *)

\* No network and any stored network are counts of candidates_.
LEMMA CountsFit ==
  /\ 0 \in 0 .. MaxNetworks
  /\ \A n \in 1 .. MaxNetworks : n \in 0 .. MaxNetworks
BY OtaAssumption

\* A boot, with or without a session of the button chord, starts in the invariant.
LEMMA InitHolds == Init => IInv
<1> SUFFICES ASSUME Init PROVE IInv
  OBVIOUS
<1>1. \E direct \in BOOLEAN, count \in 0 .. MaxNetworks :
        session = [direct |-> direct, survey |-> FALSE, in_flight |-> FALSE,
                   index |-> 0, count |-> count]
  BY CountsFit DEF Init, NoSession, Loadable
<1>2. session \in [direct : BOOLEAN, survey : BOOLEAN, in_flight : BOOLEAN,
                   index : 0 .. MaxNetworks, count : 0 .. MaxNetworks]
  BY <1>1, CountsFit
<1>3. session.index = 0 /\ session.survey = FALSE
  BY <1>1
<1>4. phase = "SCANNING" \/ (phase = "IDLE" /\ ~session.direct)
  <2>1. CASE phase = "SCANNING"
    BY <2>1
  <2>2. CASE phase # "SCANNING"
    <3>1. phase = "IDLE" /\ session = NoSession
      BY <2>2 DEF Init
    <3>2. ~session.direct
      BY <3>1 DEF NoSession
    <3> QED
      BY <3>1, <3>2
  <2> QED
    BY <2>1, <2>2
<1>5. FlagsTyped /\ InsideTyped /\ WifiTyped
  BY DEF Init, FlagsTyped, InsideTyped, WifiTyped, Tasks
<1>6. SessionTyped
  BY <1>2, <1>4 DEF SessionTyped, Phases
<1>7. IndexHasRoom
  BY <1>3, OtaAssumption DEF IndexHasRoom
<1>8. SurveyJoinsNothing
  BY <1>3, <1>4 DEF SurveyJoinsNothing
<1>9. ServerInStep
  BY DEF Init, ServerInStep, Tasks
<1>10. Orderly
  BY <1>3 DEF Init, Orderly, Places, RadioAtHome, Tasks
<1> QED
  BY <1>5, <1>6, <1>7, <1>8, <1>9, <1>10, TypeParts DEF IInv

\* Every step keeps the invariant.
LEMMA StepHolds == IInv /\ [Next]_vars => IInv'
<1> SUFFICES ASSUME IInv, [Next]_vars PROVE IInv'
  OBVIOUS
<1>1. CASE Next
  BY <1>1, TypeParts, FlagsStep, SessionStep, InsideStep, WifiStep, IndexStep, SurveyStep,
     ServerStep, OrderlyStep DEF IInv
<1>2. CASE UNCHANGED vars
  BY <1>2 DEF vars, IInv, TypeOK, IndexHasRoom, SurveyJoinsNothing, ServerInStep, Orderly,
              Places, RadioAtHome
<1> QED
  BY <1>1, <1>2

\* The invariant holds in every reachable state.
THEOREM Inductive == Spec => []IInv
BY InitHolds, StepHolds, PTL DEF Spec

\* The variables keep their types, and the network being joined is one of those loaded.
THEOREM TypeCorrect == Spec => []TypeOK
<1>1. IInv => TypeOK
  BY DEF IInv
<1> QED
  BY <1>1, Inductive, PTL

\* As long as no two operations on the session overlap, cancel() and fail_candidate() never
\* take the link from a firmware write, and httpd_stop() is called once per server.
THEOREM WritesKeepTheirLink == Spec => []SessionNotTorn
<1>1. IInv => SessionNotTorn
  BY DEF IInv, Orderly, SessionNotTorn
<1> QED
  BY <1>1, Inductive, PTL

\* However a session ended, the radio is back on ESP-NOW's channel with no link, no server
\* and no upload, unless two operations overlapped.
THEOREM RadioComesHome == Spec => []IdleIsHome
<1>1. IInv => IdleIsHome
  BY DEF IInv, Orderly, RadioAtHome, ServerInStep, IdleIsHome
<1> QED
  BY <1>1, Inductive, PTL

-----------------------------------------------------------------------------
(* Junkebox.  play() and stop() post to a mailbox of one and notify the    *)
(* player, which throws away the notification that came with a request:    *)
(* the invariant follows the newest request from the mailbox to the        *)
(* player's hands, and counts the notes of the song it starts.             *)

(* The inductive invariant.                                                *)

\* The playable lines among the first k of a song, and how often what they say repeats it.
NotesAmong(t, k)   == {i \in 1 .. k : Text[t][i] \in {"note", "rest"}}
CountAmong(t, k)   == Cardinality(NotesAmong(t, k))
RepeatsAmong(t, k) == IF \E i \in 1 .. k : Text[t][i] = "loop" THEN Loops ELSE 1

\* A request waits in the mailbox exactly while it is the newest call; a call that has not
\* given its notification yet is the newest, or was followed by one of routine's.
MailboxInStep ==
  /\ mailbox # None <=> newest = "waiting"
  /\ shell = "notify" => newest \in {"waiting", "stopped"}

\* What the player has in hand when the newest request is its own: once it has thrown away
\* the notification that came with it, no other is outstanding.
NewestInHand ==
  /\ newest = "playing" => player \in {"discard", "open", "line", "note", "raw"}
  /\ newest = "playing" /\ notified => player = "discard"
  /\ newest = "heard" => player \in {"end", "wait"}
  /\ newest # "cut"

SongInHand ==
  /\ player \in {"discard", "open", "line", "note", "raw"} => song \in Titles
  /\ player \in {"line", "note"} => song \notin Tones
  /\ player = "raw" => song \in Tones

\* The rounds played, and this one up to the cursor: a directive counts from the first round on.
SongCounted ==
  player \in {"line", "note"} =>
    /\ cursor \in 1 .. Len(Text[song]) + 1
    /\ loop < loopCount
    /\ loopCount = RepeatsAmong(song, IF loop = 0 THEN cursor - 1 ELSE Len(Text[song]))
    /\ played = loop * CountAmong(song, Len(Text[song])) + CountAmong(song, cursor - 1)

HeardWhole == newest = "heard" /\ player = "end" /\ song \notin Tones => played = NotesOf(song)

SoundIInv ==
  /\ SoundTypeOK /\ MailboxInStep /\ NewestInHand /\ SongInHand /\ SongCounted /\ HeardWhole

-----------------------------------------------------------------------------
(* Counting the lines of a song.                                           *)

\* The songs are those of the card and the compiled-in ones.
LEMMA SongsTyped ==
  /\ \A t \in DOMAIN Text : Text[t] \in Seq(Lines)
  /\ Loops \in Nat /\ Loops >= 1
  /\ None \notin Titles
  /\ "click" \in Titles /\ "error" \in Titles
  /\ Titles \ Tones \subseteq DOMAIN Text
  /\ Builtins \subseteq Titles /\ Files \subseteq Titles
BY SongAssumption DEF Titles, None, Builtins

\* A playable line adds one to the count, any other leaves it.
LEMMA CountStep ==
  ASSUME NEW t, NEW k \in Nat \ {0}
  PROVE  /\ CountAmong(t, k) \in Nat
         /\ CountAmong(t, k - 1) \in Nat
         /\ CountAmong(t, 0) = 0
         /\ Text[t][k] \in {"note", "rest"} => CountAmong(t, k) = CountAmong(t, k - 1) + 1
         /\ Text[t][k] \notin {"note", "rest"} => CountAmong(t, k) = CountAmong(t, k - 1)
<1> DEFINE A == NotesAmong(t, k - 1)
<1>1. \A n \in Nat : IsFiniteSet(NotesAmong(t, n)) /\ Cardinality(NotesAmong(t, n)) \in Nat
  <2> SUFFICES ASSUME NEW n \in Nat
               PROVE  IsFiniteSet(NotesAmong(t, n)) /\ Cardinality(NotesAmong(t, n)) \in Nat
    OBVIOUS
  <2>1. IsFiniteSet(1 .. n)
    BY FS_Interval
  <2>2. NotesAmong(t, n) \subseteq 1 .. n
    BY DEF NotesAmong
  <2> QED
    BY <2>1, <2>2, FS_Subset, FS_CardinalityType
<1>2. NotesAmong(t, 0) = {}
  BY DEF NotesAmong
<1>3. k \notin A /\ IsFiniteSet(A)
  BY <1>1 DEF NotesAmong
<1>4. Text[t][k] \in {"note", "rest"} => NotesAmong(t, k) = A \cup {k}
  BY DEF NotesAmong
<1>5. Text[t][k] \notin {"note", "rest"} => NotesAmong(t, k) = A
  BY DEF NotesAmong
<1>6. Cardinality(A \cup {k}) = Cardinality(A) + 1
  BY <1>3, FS_AddElement
<1>7. k \in Nat /\ k - 1 \in Nat
  OBVIOUS
<1>8. CountAmong(t, 0) = 0
  BY <1>2, FS_EmptySet DEF CountAmong
<1> QED
  BY <1>1, <1>4, <1>5, <1>6, <1>7, <1>8 DEF CountAmong

\* A directive is seen once the cursor has passed it; before the first line there is none.
LEMMA RepeatsStep ==
  ASSUME NEW t, NEW k \in Nat \ {0}
  PROVE  /\ RepeatsAmong(t, 0) = 1
         /\ Text[t][k] = "loop" => RepeatsAmong(t, k) = Loops
         /\ Text[t][k] # "loop" => RepeatsAmong(t, k) = RepeatsAmong(t, k - 1)
<1>1. 1 .. k = 1 .. (k - 1) \cup {k} /\ 1 .. 0 = {}
  OBVIOUS
<1> QED
  BY <1>1 DEF RepeatsAmong

\* A song's notes are its playable lines times its repetitions.
LEMMA NotesOfSong ==
  ASSUME NEW t \in DOMAIN Text
  PROVE  NotesOf(t) = RepeatsAmong(t, Len(Text[t])) * CountAmong(t, Len(Text[t]))
<1>1. Text[t] \in Seq(Lines)
  BY SongsTyped
<1>2. DOMAIN Text[t] = 1 .. Len(Text[t]) /\ Len(Text[t]) \in Nat
  BY <1>1
<1>3. CountAmong(t, Len(Text[t])) \in Nat /\ RepeatsAmong(t, Len(Text[t])) \in Nat
  <2>1. CountAmong(t, (Len(Text[t]) + 1) - 1) \in Nat
    BY <1>2, CountStep
  <2> QED
    BY <2>1, <1>2, SongsTyped DEF RepeatsAmong
<1>4. NotesOf(t) = CountAmong(t, Len(Text[t])) * RepeatsAmong(t, Len(Text[t]))
  BY <1>2 DEF NotesOf, CountAmong, NotesAmong, RepeatsAmong
<1> QED
  BY <1>3, <1>4

-----------------------------------------------------------------------------
(* Steps.                                                                  *)

\* No step of the player touches the mailbox but the one that takes from it.
LEMMA MailboxStep ==
  ASSUME SoundIInv, SoundNext PROVE MailboxInStep'
<1> USE DEF SoundIInv, MailboxInStep, None
<1>1. ASSUME NEW pressed \in SUBSET Buttons, NEW error \in BOOLEAN,
             updateSoundFeedback(pressed, error)
      PROVE  MailboxInStep'
  BY <1>1, SongsTyped DEF updateSoundFeedback, Overwrite, mail, voice
<1>2. ASSUME NEW ok \in BOOLEAN, begin(ok) PROVE MailboxInStep'
  BY <1>2 DEF begin, mail
<1>3. ASSUME NEW t \in Titles, Post(t) PROVE MailboxInStep'
  BY <1>3, SongsTyped DEF Post, Overwrite
<1>4. CASE stop \/ Notify
  BY <1>4 DEF stop, Notify
<1>5. CASE Receive
  BY <1>5 DEF Receive, PlayerRuns
<1>6. CASE Startup \/ Discard \/ Unreadable \/ Open \/ RawTone
  BY <1>6 DEF Startup, Discard, Unreadable, Open, RawTone, mail, NewestInHand
<1>7. CASE Directive \/ Skip \/ Note \/ NextRound \/ NoteElapsed \/ Interrupted \/ End
  BY <1>7 DEF Directive, Skip, Note, NextRound, NoteElapsed, Interrupted, End, mail, NewestInHand
<1> QED
  BY <1>1, <1>2, <1>3, <1>4, <1>5, <1>6, <1>7
     DEF SoundNext, PlayerStep, play, play_builtin, play_tone

\* While the player has the newest request in hand, nobody gives a notification: whoever would
\* has made a newer one.
LEMMA NewestStep ==
  ASSUME SoundIInv, SoundNext PROVE NewestInHand'
<1> USE DEF SoundIInv, NewestInHand, MailboxInStep
<1>1. ASSUME NEW pressed \in SUBSET Buttons, NEW error \in BOOLEAN,
             updateSoundFeedback(pressed, error)
      PROVE  NewestInHand'
  BY <1>1 DEF updateSoundFeedback, Overwrite, mail, voice
<1>2. ASSUME NEW ok \in BOOLEAN, begin(ok) PROVE NewestInHand'
  BY <1>2 DEF begin, mail
<1>3. ASSUME NEW t \in Titles, Post(t) PROVE NewestInHand'
  BY <1>3 DEF Post, Overwrite, voice
<1>4. CASE stop \/ Notify
  BY <1>4 DEF stop, Notify, voice
<1>5. CASE Receive
  BY <1>5 DEF Receive, PlayerRuns
<1>6. CASE Startup \/ Discard \/ Unreadable \/ Open \/ RawTone
  BY <1>6 DEF Startup, Discard, Unreadable, Open, RawTone, mail, PlayerRuns
<1>7. CASE Directive \/ Skip \/ Note \/ NextRound
  BY <1>7 DEF Directive, Skip, Note, NextRound, mail, AtLine, PlayerRuns
<1>8. CASE NoteElapsed \/ Interrupted \/ End
  BY <1>8 DEF NoteElapsed, Interrupted, End, mail, PlayerRuns
<1> QED
  BY <1>1, <1>2, <1>3, <1>4, <1>5, <1>6, <1>7, <1>8
     DEF SoundNext, PlayerStep, play, play_builtin, play_tone

\* The song in hand is a title, and a raw tone never comes to the lines of a text.
LEMMA SongStep ==
  ASSUME SoundIInv, SoundNext PROVE SongInHand'
<1> USE DEF SoundIInv, SongInHand
<1>1. ASSUME NEW pressed \in SUBSET Buttons, NEW error \in BOOLEAN,
             updateSoundFeedback(pressed, error)
      PROVE  SongInHand'
  BY <1>1 DEF updateSoundFeedback, voice
<1>2. ASSUME NEW ok \in BOOLEAN, begin(ok) PROVE SongInHand'
  BY <1>2 DEF begin
<1>3. ASSUME NEW t \in Titles, Post(t) PROVE SongInHand'
  BY <1>3 DEF Post, voice
<1>4. CASE stop \/ Notify
  BY <1>4 DEF stop, Notify, voice
<1>5. CASE Receive
  BY <1>5 DEF Receive, SoundTypeOK
<1>6. CASE Startup \/ Discard \/ Unreadable \/ Open \/ RawTone
  BY <1>6 DEF Startup, Discard, Unreadable, Open, RawTone, PlayerRuns
<1>7. CASE Directive \/ Skip \/ Note \/ NextRound
  BY <1>7 DEF Directive, Skip, Note, NextRound, AtLine, PlayerRuns
<1>8. CASE NoteElapsed \/ Interrupted \/ End
  BY <1>8 DEF NoteElapsed, Interrupted, End, PlayerRuns
<1> QED
  BY <1>1, <1>2, <1>3, <1>4, <1>5, <1>6, <1>7, <1>8
     DEF SoundNext, PlayerStep, play, play_builtin, play_tone

\* The text of the song in hand.
LEMMA TextInHand ==
  ASSUME SongInHand, player \in {"line", "note"}
  PROVE  /\ song \in DOMAIN Text
         /\ Text[song] \in Seq(Lines) /\ Len(Text[song]) \in Nat
<1>1. song \in DOMAIN Text
  BY SongsTyped DEF SongInHand
<1> QED
  BY <1>1, SongsTyped

\* The player has played what its rounds and its cursor say, whatever is asked of it meanwhile.
LEMMA CountedStep ==
  ASSUME SoundIInv, SoundNext PROVE SongCounted'
<1> USE DEF SoundIInv
<1> DEFINE Still == UNCHANGED <<song, cursor, loop, loopCount, played>>
<1>1. ASSUME Still, player' \in {"line", "note"} => player \in {"line", "note"} PROVE SongCounted'
  BY <1>1 DEF SongCounted
<1>2. ASSUME NEW pressed \in SUBSET Buttons, NEW error \in BOOLEAN,
             updateSoundFeedback(pressed, error)
      PROVE  SongCounted'
  BY <1>1, <1>2 DEF updateSoundFeedback, voice
<1>3. ASSUME NEW ok \in BOOLEAN, begin(ok) PROVE SongCounted'
  BY <1>1, <1>3 DEF begin
<1>4. ASSUME NEW t \in Titles, Post(t) PROVE SongCounted'
  BY <1>1, <1>4 DEF Post, voice
<1>5. CASE stop \/ Notify
  BY <1>1, <1>5 DEF stop, Notify, voice
<1>6. CASE Startup \/ Receive \/ Discard \/ Unreadable \/ RawTone \/ End
  BY <1>6 DEF Startup, Receive, Discard, Unreadable, RawTone, End, SongCounted
<1>7. CASE NoteElapsed \/ Interrupted
  BY <1>1, <1>7 DEF NoteElapsed, Interrupted
<1>8. CASE Open
  <2>1. song \in DOMAIN Text
    BY <1>8, SongsTyped DEF Open, PlayerRuns, SongInHand
  <2>2. Len(Text[song]) \in Nat
    BY <2>1, SongsTyped
  <2>3. CountAmong(song, 0) = 0 /\ RepeatsAmong(song, 0) = 1
    BY CountStep, RepeatsStep
  <2>4. CountAmong(song, Len(Text[song])) \in Nat
    <3>1. CountAmong(song, (Len(Text[song]) + 1) - 1) \in Nat
      BY <2>2, CountStep
    <3> QED
      BY <3>1, <2>2
  <2> QED
    BY <1>8, <2>2, <2>3, <2>4 DEF Open, SongCounted
<1> DEFINE n == Len(Text[song])
           N == CountAmong(song, n)
<1>9. ASSUME player = "line"
      PROVE  /\ n \in Nat /\ N \in Nat /\ cursor \in 1 .. n + 1 /\ loop \in Nat
             /\ CountAmong(song, cursor - 1) \in Nat
             /\ loop < loopCount /\ loopCount \in Nat
  <2>1. n \in Nat
    BY <1>9, TextInHand
  <2>2. CountAmong(song, (n + 1) - 1) \in Nat
    BY <2>1, CountStep
  <2>3. cursor \in 1 .. n + 1
    BY <1>9 DEF SongCounted
  <2>4. CountAmong(song, cursor - 1) \in Nat
    BY <2>1, <2>3, CountStep
  <2>5. N \in Nat
    <3>1. (n + 1) - 1 = n
      BY <2>1
    <3> QED
      BY <2>2, <3>1
  <2>6. loop \in Nat /\ loopCount \in Nat
    BY DEF SoundTypeOK
  <2>7. loop < loopCount
    BY <1>9 DEF SongCounted
  <2> QED
    BY <2>1, <2>3, <2>4, <2>5, <2>6, <2>7
<1>10. ASSUME player = "line"
       PROVE  /\ loopCount = RepeatsAmong(song, IF loop = 0 THEN cursor - 1 ELSE n)
              /\ played = loop * N + CountAmong(song, cursor - 1)
  BY <1>10 DEF SongCounted
<1>11. ASSUME AtLine, song' = song, loop' = loop, cursor' = cursor + 1,
              loopCount' = IF Text[song][cursor] = "loop" /\ loop = 0 THEN Loops ELSE loopCount,
              played' = IF Text[song][cursor] \in {"note", "rest"} THEN played + 1 ELSE played
       PROVE  SongCounted'
  <2>1. player = "line" /\ cursor <= n
    BY <1>11 DEF AtLine, PlayerRuns
  <2>2. cursor \in Nat \ {0} /\ cursor \in 1 .. n
    BY <2>1, <1>9
  <2>3. /\ (cursor + 1) - 1 = cursor
        /\ cursor + 1 \in 1 .. n + 1
    BY <2>1, <2>2, <1>9
  <2>4. CountAmong(song, cursor) = IF Text[song][cursor] \in {"note", "rest"}
                                  THEN CountAmong(song, cursor - 1) + 1
                                  ELSE CountAmong(song, cursor - 1)
    BY <2>2, CountStep
  <2>5. played' = loop * N + CountAmong(song, cursor)
    <3> HIDE DEF N, n
    <3>1. loop * N \in Nat
      BY <2>1, <1>9
    <3> QED
      BY <3>1, <2>1, <2>4, <1>9, <1>10, <1>11
  <2>6. RepeatsAmong(song, cursor) = IF Text[song][cursor] = "loop" THEN Loops
                                     ELSE RepeatsAmong(song, cursor - 1)
    BY <2>2, RepeatsStep
  <2>7. loopCount' = RepeatsAmong(song, IF loop = 0 THEN cursor ELSE n)
    BY <2>1, <2>6, <1>10, <1>11
  <2>8. loop < loopCount'
    BY <2>1, <1>9, <1>11, SongsTyped
  <2> QED
    BY <2>3, <2>5, <2>7, <2>8, <1>11 DEF SongCounted
<1>12. CASE Directive \/ Skip \/ Note
  <2>1. CASE Directive
    BY <2>1, <1>11 DEF Directive, AtLine
  <2>2. CASE Skip
    BY <2>2, <1>11 DEF Skip, AtLine
  <2>3. CASE Note
    BY <2>3, <1>11 DEF Note, AtLine
  <2> QED
    BY <1>12, <2>1, <2>2, <2>3
<1>13. CASE NextRound
  <2>1. player = "line" /\ cursor > n /\ UNCHANGED <<song, loopCount, played>>
    BY <1>13 DEF NextRound, PlayerRuns
  <2>2. cursor = n + 1 /\ cursor - 1 = n
    BY <2>1, <1>9
  <2>3. loopCount = RepeatsAmong(song, n) /\ played = loop * N + N
    BY <2>1, <2>2, <1>9, <1>10
  <2>4. CASE ~(loop + 1 < loopCount)
    BY <2>4, <1>13 DEF NextRound, SongCounted
  <2>5. CASE loop + 1 < loopCount
    <3>1. loop' = loop + 1 /\ cursor' = 1
      BY <2>5, <1>13 DEF NextRound
    <3>2. CountAmong(song, 1 - 1) = 0
      <4>1. 1 \in Nat \ {0} /\ 1 - 1 = 0
        OBVIOUS
      <4>2. CountAmong(song, 0) = 0
        BY <4>1, CountStep
      <4> QED
        BY <4>1, <4>2
    <3>3. played = (loop + 1) * N + 0
      <4> HIDE DEF N
      <4>1. N \in Nat /\ loop \in Nat
        BY <2>1, <1>9
      <4> QED
        BY <4>1, <2>3
    <3> QED
      BY <2>1, <2>3, <2>5, <3>1, <3>2, <3>3, <1>9, SMTT(40) DEF SongCounted
  <2> QED
    BY <2>4, <2>5
<1> QED
  BY <1>2, <1>3, <1>4, <1>5, <1>6, <1>7, <1>8, <1>12, <1>13
     DEF SoundNext, PlayerStep, play, play_builtin, play_tone

\* The song is played out when the last round comes to the end of its text.
LEMMA HeardStep ==
  ASSUME SoundIInv, SoundNext PROVE HeardWhole'
<1> USE DEF SoundIInv
<1>1. ASSUME UNCHANGED <<song, played>>, player' = "end" => player = "end",
             newest' = "heard" => newest = "heard"
      PROVE  HeardWhole'
  BY <1>1 DEF HeardWhole
<1>2. ASSUME NEW pressed \in SUBSET Buttons, NEW error \in BOOLEAN,
             updateSoundFeedback(pressed, error)
      PROVE  HeardWhole'
  BY <1>1, <1>2 DEF updateSoundFeedback, Overwrite, voice
<1>3. ASSUME NEW ok \in BOOLEAN, begin(ok) PROVE HeardWhole'
  BY <1>1, <1>3 DEF begin
<1>4. ASSUME NEW t \in Titles, Post(t) PROVE HeardWhole'
  BY <1>1, <1>4 DEF Post, Overwrite, voice
<1>5. CASE stop \/ Notify
  BY <1>1, <1>5 DEF stop, Notify, voice
<1>6. CASE Startup \/ Receive \/ Discard \/ Unreadable \/ Open \/ RawTone
  BY <1>6 DEF Startup, Receive, Discard, Unreadable, Open, RawTone, PlayerRuns, HeardWhole,
              NewestInHand
<1>7. CASE Directive \/ Skip \/ Note \/ End
  BY <1>7 DEF Directive, Skip, Note, End, AtLine, PlayerRuns, HeardWhole, NewestInHand
<1>8. CASE NoteElapsed \/ Interrupted
  BY <1>8 DEF NoteElapsed, Interrupted, HeardWhole, NewestInHand, SongInHand
<1>9. CASE NextRound
  <2> DEFINE n == Len(Text[song])
             N == CountAmong(song, n)
  <2>1. /\ player = "line" /\ cursor > n /\ UNCHANGED <<song, played>>
        /\ ~(loop + 1 < loopCount) \/ player' = "line"
    BY <1>9 DEF NextRound, PlayerRuns
  <2>2. song \in DOMAIN Text /\ n \in Nat
    BY <2>1, TextInHand
  <2>3. cursor = n + 1 /\ loop < loopCount /\ loop \in Nat /\ loopCount \in Nat
    <3>1. cursor \in 1 .. n + 1 /\ loop < loopCount
      BY <2>1 DEF SongCounted
    <3> QED
      BY <2>1, <2>2, <3>1 DEF SoundTypeOK
  <2>4. cursor - 1 = n
    BY <2>2, <2>3
  <2>5. loopCount = RepeatsAmong(song, n) /\ played = loop * N + N
    BY <2>1, <2>4 DEF SongCounted
  <2>6. N \in Nat
    <3>1. CountAmong(song, (n + 1) - 1) \in Nat
      BY <2>2, CountStep
    <3>2. (n + 1) - 1 = n
      BY <2>2
    <3> QED
      BY <3>1, <3>2
  <2>7. ~(loop + 1 < loopCount) => played = loopCount * N
    <3> HIDE DEF N
    <3>1. ~(loop + 1 < loopCount) => loopCount = loop + 1
      BY <2>3
    <3>2. (loop + 1) * N = loop * N + N
      BY <2>3, <2>6
    <3> QED
      BY <3>1, <3>2, <2>5
  <2>8. NotesOf(song) = loopCount * N
    BY <2>2, <2>5, NotesOfSong
  <2> QED
    BY <2>1, <2>7, <2>8 DEF HeardWhole
<1> QED
  BY <1>2, <1>3, <1>4, <1>5, <1>6, <1>7, <1>8, <1>9
     DEF SoundNext, PlayerStep, play, play_builtin, play_tone

LEMMA SoundTypeStep ==
  ASSUME SoundTypeOK, SoundNext PROVE SoundTypeOK'
<1> USE DEF SoundTypeOK, Outcomes, mail, voice
<1>1. ASSUME NEW pressed \in SUBSET Buttons, NEW error \in BOOLEAN,
             updateSoundFeedback(pressed, error)
      PROVE  SoundTypeOK'
  <2>1. previous' = [pressed |-> pressed, error |-> error]
    BY <1>1 DEF updateSoundFeedback
  <2>2. mailbox' \in Titles \cup {None} /\ newest' \in Outcomes /\ notified' \in BOOLEAN
    BY <1>1, SongsTyped DEF updateSoundFeedback, Overwrite
  <2>3. UNCHANGED <<configured, ready, player, song, cursor, loop, loopCount, playing, tone,
                    shell, played>>
    BY <1>1 DEF updateSoundFeedback
  <2> QED
    BY <2>1, <2>2, <2>3
<1>2. ASSUME NEW ok \in BOOLEAN, begin(ok) PROVE SoundTypeOK'
  BY <1>2 DEF begin
<1>3. ASSUME NEW t \in Titles, Post(t) PROVE SoundTypeOK'
  BY <1>3 DEF Post, Overwrite
<1>4. CASE stop \/ Notify
  BY <1>4, ZenonT(40) DEF stop, Notify
<1>5. CASE Startup \/ Receive \/ Discard
  BY <1>5, ZenonT(30) DEF Startup, Receive, Discard, PlayerRuns
<1>6. CASE Unreadable \/ Open \/ RawTone
  BY <1>6 DEF Unreadable, Open, RawTone
<1>7. CASE Directive \/ Skip
  BY <1>7, SongsTyped DEF Directive, Skip
<1>8. CASE Note
  BY <1>8 DEF Note, set_tone
<1>9. CASE NextRound
  BY <1>9 DEF NextRound
<1>10. CASE NoteElapsed \/ Interrupted \/ End
  BY <1>10, ZenonT(30) DEF NoteElapsed, Interrupted, End
<1> QED
  BY <1>1, <1>2, <1>3, <1>4, <1>5, <1>6, <1>7, <1>8, <1>9, <1>10
     DEF SoundNext, PlayerStep, play, play_builtin, play_tone

-----------------------------------------------------------------------------
(* Theorems.                                                               *)

LEMMA SoundInitHolds == SoundInit => SoundIInv
<1> SUFFICES ASSUME SoundInit PROVE SoundIInv
  OBVIOUS
<1>1. SoundTypeOK
  BY DEF SoundInit, SoundTypeOK, Outcomes
<1> QED
  BY <1>1 DEF SoundInit, SoundIInv, MailboxInStep, NewestInHand, SongInHand, SongCounted, HeardWhole

\* Every step of a caller, of the shell or of the player keeps the invariant.
LEMMA SoundStepHolds == SoundIInv /\ [SoundNext]_soundVars => SoundIInv'
<1> SUFFICES ASSUME SoundIInv, [SoundNext]_soundVars PROVE SoundIInv'
  OBVIOUS
<1>1. CASE SoundNext
  BY <1>1, SoundTypeStep, MailboxStep, NewestStep, SongStep, CountedStep, HeardStep DEF SoundIInv
<1>2. CASE UNCHANGED soundVars
  BY <1>2 DEF soundVars, mail, voice, SoundIInv, SoundTypeOK, MailboxInStep, NewestInHand,
              SongInHand, SongCounted, HeardWhole
<1> QED
  BY <1>1, <1>2

\* The invariant of the mailbox and the player holds in every reachable state.
THEOREM SoundInductive == SoundSpec => []SoundIInv
BY SoundInitHolds, SoundStepHolds, PTL DEF SoundSpec

\* The player's and the mailbox's variables keep their types.
THEOREM SoundTypeCorrect == SoundSpec => []SoundTypeOK
<1>1. SoundIInv => SoundTypeOK
  BY DEF SoundIInv
<1> QED
  BY <1>1, SoundInductive, PTL

\* Whatever songs there are and however routine and the shell press, play and stop: run_loop()
\* never lets a stale notification cut the newest request, plays it to its last repetition,
\* and finds nothing in the mailbox after a stop().
THEOREM NewestIsHeard == SoundSpec => []NewestRequestIsHeard
<1>1. SoundIInv => NewestRequestIsHeard
  BY DEF SoundIInv, NewestInHand, HeardWhole, MailboxInStep, NewestRequestIsHeard
<1> QED
  BY <1>1, SoundInductive, PTL
=============================================================================
