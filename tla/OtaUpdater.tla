----------------------------- MODULE OtaUpdater -----------------------------
(***************************************************************************)
(* lib/OTAUpdater: joining a stored Wi-Fi network, serving a firmware      *)
(* upload and giving the radio back to ESP-NOW.  Four tasks meet without a *)
(* lock: routine ticks process() and cancels, the shell starts, surveys    *)
(* and cancels, the esp_timer task ends a session after a write, and the   *)
(* HTTP server's own task writes the firmware.  Wi-Fi events only raise    *)
(* flags.  process() is one step, except where it starts a cancel() or     *)
(* logs between testing direct_mode_ and storing the phase.                *)
(***************************************************************************)
EXTENDS Integers, FiniteSets

CONSTANTS
  MaxNetworks,  \* OTA_MAX_NETWORKS
  Cancellers    \* the tasks that cancel, out of routine, shell and timer

ASSUME OtaAssumption ==
  MaxNetworks \in Nat \ {0} /\ Cancellers \subseteq {"routine", "shell", "timer"}

Tasks  == {"routine", "shell", "timer"}
Phases == {"IDLE", "SCANNING", "CONNECTING", "CONNECT_FAILED", "SERVING"}

VARIABLES
  phase,
  raised,    \* the flags the event handlers raise: scan_done, got_ip, disconnected
  session,   \* direct_mode_, survey_only_, scan_in_flight_, the candidates and the index
  server,    \* server_: a handle is kept
  httpd,     \* the HTTP server runs
  upload,    \* what its task does with an upload
  finish,    \* finish_update() is due
  at,        \* where each task is inside an operation
  wifi,      \* the driver: scanning, link, channel, a disconnect still to be reported
  overlap,   \* history: a task acted on the session while another was inside an operation
  broken     \* history: a write lost its link, or a stopped server was stopped again

vars == <<phase, raised, session, server, httpd, upload, finish, at, wifi, overlap, broken>>

Acts(t)           == overlap' = (overlap \/ \E u \in Tasks \ {t} : at[u] # "none")
At(t, place)      == at' = [at EXCEPT ![t] = place]
flashing          == upload = "writing"
is_upload_session == phase # "IDLE" /\ ~session.direct

NoSession == [direct |-> FALSE, survey |-> FALSE, in_flight |-> FALSE, index |-> 0, count |-> 0]

\* load_candidates(): how many networks it finds in the file, which wifi_add and wifi_remove
\* rewrite at any time.  With none, nothing starts.
Loadable == 1 .. MaxNetworks

\* esp_wifi_disconnect(): an up or coming link goes down, and an event will say so.
Disconnected(w) == [w EXCEPT !.leaving = @ \/ w.link # "down", !.link = "down"]

\* esp_wifi_scan_start(): whether it starts is the driver's decision.
ScanStart(s, started) ==
  /\ started => ~wifi.scanning
  /\ session' = [s EXCEPT !.in_flight = started]
  /\ wifi' = [wifi EXCEPT !.scanning = @ \/ started]

Init ==
  /\ raised = {}
  /\ server = FALSE /\ httpd = FALSE /\ upload = "none" /\ finish = FALSE
  /\ at = [t \in Tasks |-> "none"]
  /\ wifi = [scanning |-> FALSE, link |-> "down", home |-> TRUE, leaving |-> FALSE]
  /\ overlap = FALSE /\ broken = FALSE
  /\ \/ phase = "IDLE" /\ session = NoSession
     \/ phase = "SCANNING"
        /\ \E count \in Loadable : session = [NoSession EXCEPT !.direct = TRUE, !.count = count]

-----------------------------------------------------------------------------
(* cancel(), by any task: nothing while a write is on or without a session. *)

CancelBegin(t) ==
  /\ t \in Cancellers /\ at[t] = "none" /\ ~flashing /\ phase # "IDLE"
  /\ At(t, "stop") /\ Acts(t)
  /\ UNCHANGED <<phase, raised, session, server, httpd, upload, wifi, broken>>

StopServer(t) ==
  /\ at[t] = "stop"
  /\ At(t, IF server THEN "stopping" ELSE "drop")
  /\ UNCHANGED <<phase, raised, session, server, httpd, upload, finish, wifi, overlap, broken>>

\* httpd_stop() returns when the server's task has left its handler.
ServerStopped_AtOnce(t) ==
  /\ at[t] = "stopping"
  /\ broken' = (broken \/ ~httpd)
  /\ httpd' = FALSE /\ server' = FALSE /\ At(t, "drop")
  /\ UNCHANGED <<phase, raised, session, upload, finish, wifi, overlap>>
ServerStopped(t) ==
  /\ at[t] = "stopping" /\ upload = "none"
  /\ broken' = (broken \/ ~httpd)
  /\ httpd' = FALSE /\ server' = FALSE /\ At(t, "drop")
  /\ UNCHANGED <<phase, raised, session, upload, finish, wifi, overlap>>

DropLink_KeepsChannel(t) ==
  /\ at[t] = "drop"
  /\ wifi' = Disconnected(wifi)
  /\ broken' = (broken \/ flashing) /\ At(t, "reset")
  /\ UNCHANGED <<phase, raised, session, server, httpd, upload, finish, overlap>>
DropLink(t) ==
  /\ at[t] = "drop"
  /\ wifi' = [Disconnected(wifi) EXCEPT !.home = TRUE]
  /\ broken' = (broken \/ flashing) /\ At(t, "reset")
  /\ UNCHANGED <<phase, raised, session, server, httpd, upload, finish, overlap>>

CancelEnd(t) ==
  /\ at[t] = "reset"
  /\ session' = NoSession /\ phase' = "IDLE" /\ At(t, "none")
  /\ UNCHANGED <<raised, server, httpd, upload, finish, wifi, overlap, broken>>

CancelStep(t) == StopServer(t) \/ ServerStopped(t) \/ DropLink(t) \/ CancelEnd(t)

-----------------------------------------------------------------------------
(* routine: process(), and cancelDebugTests() when DEBUG is left.           *)

Pass == at["routine"] = "none" /\ Acts("routine")

ProcessButton == ~session.direct /\ CancelBegin("routine") /\ UNCHANGED finish
LeaveDebug    == CancelBegin("routine") /\ UNCHANGED finish

fail_candidate ==
  /\ wifi' = Disconnected(wifi) /\ phase' = "CONNECT_FAILED"
  /\ broken' = (broken \/ flashing)

\* start_http_server(): a port already taken, or the driver, may refuse.
StartServer(ok) ==
  /\ ok => ~httpd
  /\ httpd' = (httpd \/ ok) /\ server' = (server \/ ok)

\* handle_scan_done(): the first stored network, from the index on, that was seen.
ProcessScanDone ==
  /\ Pass /\ phase = "SCANNING" /\ "scan_done" \in raised
  /\ raised' = raised \ {"scan_done"}
  /\ IF session.survey
     THEN /\ phase' = "IDLE" /\ UNCHANGED <<wifi, broken>>
          /\ session' = [session EXCEPT !.in_flight = FALSE, !.survey = FALSE]
     ELSE \E found \in session.index .. MaxNetworks :
            IF found >= session.count
            THEN /\ session' = [session EXCEPT !.in_flight = FALSE, !.index = 0]
                 /\ UNCHANGED <<phase, wifi, broken>>
            ELSE /\ session' = [session EXCEPT !.in_flight = FALSE, !.index = found]
                 /\ \/ /\ wifi' = [wifi EXCEPT !.link = "coming", !.home = FALSE]
                       /\ phase' = "CONNECTING" /\ UNCHANGED broken
                    \/ fail_candidate
  /\ UNCHANGED <<server, httpd, upload, finish, at>>

ProcessRescan ==
  /\ Pass /\ phase = "SCANNING" /\ "scan_done" \notin raised /\ ~session.in_flight
  /\ \E started \in BOOLEAN : ScanStart(session, started)
  /\ UNCHANGED <<phase, raised, server, httpd, upload, finish, at, broken>>

ProcessGotIp ==
  /\ Pass /\ phase = "CONNECTING" /\ "got_ip" \in raised
  /\ raised' = raised \ {"got_ip"}
  /\ IF session.direct
     THEN At("routine", "landing") /\ UNCHANGED <<phase, server, httpd, wifi, broken>>
     ELSE /\ UNCHANGED at
          /\ \/ StartServer(TRUE) /\ phase' = "SERVING" /\ UNCHANGED <<wifi, broken>>
             \/ StartServer(FALSE) /\ fail_candidate
  /\ UNCHANGED <<session, upload, finish>>

ProcessLanding ==
  /\ at["routine"] = "landing" /\ Acts("routine")
  /\ phase' = "SERVING" /\ At("routine", "none")
  /\ UNCHANGED <<raised, session, server, httpd, upload, finish, wifi, broken>>

\* A disconnection, or else the deadline, fails the candidate.
ProcessFailed ==
  /\ Pass /\ phase = "CONNECTING" /\ "got_ip" \notin raised
  /\ raised' = raised \ {"disconnected"}
  /\ fail_candidate
  /\ UNCHANGED <<session, server, httpd, upload, finish, at>>

\* try_next_candidate()
ProcessRetry ==
  /\ Pass /\ phase = "CONNECT_FAILED"
  /\ session' = [session EXCEPT !.index = @ + 1] /\ phase' = "SCANNING"
  /\ UNCHANGED <<raised, server, httpd, upload, finish, at, wifi, broken>>

Process == \/ ProcessButton \/ LeaveDebug \/ ProcessScanDone \/ ProcessRescan \/ ProcessGotIp
           \/ ProcessLanding \/ ProcessFailed \/ ProcessRetry \/ CancelStep("routine")

-----------------------------------------------------------------------------
(* The shell.                                                               *)

Start ==
  /\ at["shell"] = "none" /\ Acts("shell") /\ phase = "IDLE"
  /\ raised' = {} /\ phase' = "SCANNING"
  /\ \E started \in BOOLEAN, count \in Loadable :
       ScanStart([NoSession EXCEPT !.count = count], started)
  /\ UNCHANGED <<server, httpd, upload, finish, at, broken>>

Survey ==
  /\ at["shell"] = "none" /\ Acts("shell") /\ phase = "IDLE"
  /\ raised' = raised \ {"scan_done"} /\ phase' = "SCANNING"
  /\ \E started \in BOOLEAN : ScanStart([session EXCEPT !.survey = TRUE], started)
  /\ UNCHANGED <<server, httpd, upload, finish, at, broken>>

\* "ota start" on a direct session: drop direct_mode_, then look at the phase.
Upgrade ==
  /\ at["shell"] = "none" /\ Acts("shell") /\ phase # "IDLE" /\ session.direct
  /\ session' = [session EXCEPT !.direct = FALSE] /\ At("shell", "upgrade")
  /\ UNCHANGED <<phase, raised, server, httpd, upload, finish, wifi, broken>>

UpgradeServe ==
  /\ at["shell"] = "upgrade" /\ At("shell", "none") /\ Acts("shell")
  /\ \/ phase # "SERVING" /\ UNCHANGED <<phase, server, httpd, wifi, broken>>
     \/ phase = "SERVING" /\ StartServer(TRUE) /\ UNCHANGED <<phase, wifi, broken>>
     \/ phase = "SERVING" /\ StartServer(FALSE) /\ fail_candidate
  /\ UNCHANGED <<raised, session, upload, finish>>

ShellCancel == CancelBegin("shell") /\ UNCHANGED finish

Shell == Start \/ Survey \/ Upgrade \/ UpgradeServe \/ ShellCancel \/ CancelStep("shell")

-----------------------------------------------------------------------------
(* The HTTP server's task, the timer task and the Wi-Fi driver.             *)

\* handle_update_post(): the checks, then the write.  A server told to stop takes no request.
UploadBegin ==
  /\ \/ /\ httpd /\ upload = "none" /\ \A t \in Tasks : at[t] # "stopping"
        /\ upload' = "checking"
     \/ upload = "checking" /\ upload' \in {"none", "writing"}
  /\ UNCHANGED <<phase, raised, session, server, httpd, finish, at, wifi, overlap, broken>>

\* The write ends; a good one is answered, and arms the timer.
UploadEnd_CancelsHere ==
  /\ upload = "writing" /\ upload' = "inside" /\ at["timer"] = "none" /\ At("timer", "stop")
  /\ UNCHANGED <<phase, raised, session, server, httpd, finish, wifi, overlap, broken>>
UploadEnd ==
  /\ upload = "writing" /\ upload' = "closing" /\ UNCHANGED at
  /\ finish' \in {finish, TRUE}
  /\ UNCHANGED <<phase, raised, session, server, httpd, wifi, overlap, broken>>

UploadReturn ==
  /\ upload = "closing"
  /\ upload' = "none"
  /\ UNCHANGED <<phase, raised, session, server, httpd, finish, at, wifi, overlap, broken>>

finish_update ==
  /\ finish /\ finish' = FALSE /\ at["timer"] = "none"
  /\ \/ CancelBegin("timer")
     \/ /\ flashing \/ phase = "IDLE"
        /\ UNCHANGED <<phase, raised, session, server, httpd, upload, at, wifi, overlap, broken>>

\* Event handlers; a lost link after the session is served only raises its flag.
WifiEvent ==
  /\ \/ /\ wifi.scanning /\ wifi' = [wifi EXCEPT !.scanning = FALSE]
        /\ raised' = raised \cup {"scan_done"}
     \/ /\ wifi.link = "coming" /\ wifi' = [wifi EXCEPT !.link = "up"]
        /\ raised' = raised \cup {"got_ip"}
     \/ /\ wifi.link # "down" /\ wifi' = [wifi EXCEPT !.link = "down"]
        /\ raised' = raised \cup {"disconnected"}
     \/ /\ wifi.leaving /\ wifi' = [wifi EXCEPT !.leaving = FALSE]
        /\ raised' = raised \cup {"disconnected"}
  /\ UNCHANGED <<phase, session, server, httpd, upload, finish, at, overlap, broken>>

Next == \/ Process \/ Shell \/ finish_update \/ CancelStep("timer")
        \/ UploadBegin \/ UploadEnd \/ UploadReturn \/ WifiEvent

\* Every task runs on; a client that uploads keeps sending or goes away.
Fairness == /\ \A t \in Tasks : WF_vars(CancelStep(t))
            /\ WF_vars(upload # "none" /\ UploadBegin) /\ WF_vars(UploadEnd) /\ WF_vars(UploadReturn)

Spec     == Init /\ [][Next]_vars
FairSpec == Spec /\ Fairness

-----------------------------------------------------------------------------
(* Properties.                                                              *)

\* Types of all variables; a candidate being joined is one of those loaded
\* (handle_scan_done and the log lines of process() index candidates_ with it).
TypeOK ==
  /\ phase \in Phases /\ raised \subseteq {"scan_done", "got_ip", "disconnected"}
  /\ session \in [direct : BOOLEAN, survey : BOOLEAN, in_flight : BOOLEAN,
                  index : 0 .. MaxNetworks, count : 0 .. MaxNetworks]
  /\ phase = "CONNECTING" /\ ~overlap => session.index < session.count
  /\ {server, httpd, finish, overlap, broken} \subseteq BOOLEAN
  /\ upload \in {"none", "checking", "writing", "closing"}
  /\ at \in [Tasks -> {"none", "stop", "stopping", "drop", "reset", "landing", "upgrade"}]
  /\ wifi \in [scanning : BOOLEAN, link : {"down", "coming", "up"}, home : BOOLEAN, leaving : BOOLEAN]

\* A firmware write never loses its link to the robot's own doing, and the HTTP server is
\* never stopped twice, as long as the tasks' operations on the session do not overlap:
\* cancel() checks flashing_ long before it disconnects, and httpd_stop() covers the gap.
SessionNotTorn == broken => overlap

\* Without a session the radio is ESP-NOW's again: on its channel, no link, no server,
\* however the session ended (cancel(), finish_update(), the end of a survey).
IdleIsHome ==
  phase = "IDLE" /\ (\A t \in Tasks : at[t] = "none") /\ ~overlap
    => wifi.home /\ wifi.link = "down" /\ ~httpd /\ upload = "none"

\* The cancel() that follows a write ends: httpd_stop() never waits for the task that
\* called it, whatever cancels and uploads the others are in (handle_update_post, finish_update).
FinishEnds == at["timer"] = "stop" ~> at["timer"] = "none"

\* A session that serves uploads has a server, as begin_scanning() promises of an upgrade.
\* The code does not keep this.
UploadIsServed ==
  is_upload_session /\ phase = "SERVING" /\ (\A t \in Tasks : at[t] = "none") => server
=============================================================================
