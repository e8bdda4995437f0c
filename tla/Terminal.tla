------------------------------ MODULE Terminal ------------------------------
(***************************************************************************)
(* Typed commands and scripts: TerminalResponder, the capture of a         *)
(* command's output in Logger, the script runner and the shell task of     *)
(* utils/BallyRobot.                                                       *)
(*                                                                         *)
(* A link's receive task leaves the lines a terminal types in the slot of  *)
(* its origin; pump(), in the comms task, hands them one at a time to the  *)
(* command queue and shows each result before the next, except while an    *)
(* OTA upload session is up; the shell task runs what is queued and leaves *)
(* the captured output in the slot; the routine task feeds a script to the *)
(* same queue, one line per pass.                                          *)
(*                                                                         *)
(* A typed line is its number among the lines of its origin; keystrokes,   *)
(* echo and prompt are left out.  A section under the spin lock is one     *)
(* step, and a try_lock() that gives up is a branch of its own.            *)
(*                                                                         *)
(* Init, Next, vars... carry the component's name: its proofs share a      *)
(* module with Logger's, whose capture it uses.                            *)
(***************************************************************************)
EXTENDS Naturals, Sequences, FiniteSets

CONSTANTS Origins,         \* (source_id, boot_id) pairs that have a terminal
          kMaxOrigins,     \* slots
          kMaxPendingIn,   \* lines a slot holds for the editor
          QueueLength,     \* kCommandQueueLength
          Links,           \* direct links; the radio is always there
          MaxLines,        \* bound on the lines typed, all origins together
          MaxTimeouts,     \* bound on the capture's mutex waits that run out
          MaxScripts,      \* bound on the scripts started
          ScriptLines,     \* runnable lines of a script file
          JobLines,        \* those that are job commands, which a script may not run
          LongLines        \* those above kMaxShellCommandSize

ASSUME TerminalAssumption ==
    /\ kMaxOrigins \in Nat \ {0} /\ QueueLength \in Nat \ {0}
    /\ kMaxPendingIn \in Nat /\ ScriptLines \in Nat /\ MaxLines \in Nat
    /\ MaxTimeouts \in Nat /\ MaxScripts \in Nat
    /\ JobLines \subseteq 1..ScriptLines /\ LongLines \subseteq 1..ScriptLines
    /\ "radio" \notin Links /\ "script" \notin Origins

VARIABLES slots,     \* the fields of each slot that lock_ guards
          own,       \* the fields of each slot that only pump() touches
          pump,      \* the locals of pump()
          queue,     \* receivedDataQueue
          shell,     \* the locals of runShell()
          capture,   \* capture_active_, capture_buf_
          bound,     \* the links whose endpoint is bound
          script,    \* script_active_, script_cursor_
          bounds,    \* what the bounds count: lines, time-outs and scripts so far
          typed,     \* lines typed so far, per origin
          ran        \* the last command run, per origin and for the script

terminalVars == <<slots, own, pump, queue, shell, capture, bound, script, bounds, typed, ran>>

-----------------------------------------------------------------------------
Slots == 1..kMaxOrigins
NoOne == "none"
NoResult == [of |-> <<>>, text |-> {}]
NoCommand == [from |-> NoOne, line |-> 0, run |-> 0]
Free == [used |-> FALSE, origin |-> NoOne, target |-> "radio", in |-> <<>>,
         result |-> NoResult, ready |-> FALSE, reset |-> FALSE]
AtSlot(i) == [slot |-> i, at |-> "take", origin |-> NoOne, target |-> "radio",
              reset |-> FALSE, have |-> FALSE, result |-> NoResult, in |-> <<>>]
Idle == [AtSlot(1) EXCEPT !.at = "idle"]
NextSlot == IF pump.slot = kMaxOrigins THEN Idle ELSE AtSlot(pump.slot + 1)

\* After routine() has tried JOB_AUTOEXEC_FILE: a script is under way or not.
TerminalInit ==
    /\ slots = [i \in Slots |-> Free]
    /\ own = [i \in Slots |-> [editor |-> <<>>, awaiting |-> FALSE, pending |-> <<>>]]
    /\ pump = Idle
    /\ queue = <<>>
    /\ shell = [at |-> "idle", cmd |-> NoCommand, text |-> {}]
    /\ capture = [active |-> FALSE, buf |-> {}]
    /\ bound = {}
    /\ script \in [active : BOOLEAN, cursor : {1}]
    /\ bounds = [lines |-> 0, timeouts |-> 0, scripts |-> IF script.active THEN 1 ELSE 0]
    /\ typed = [o \in Origins |-> 0]
    /\ ran = [o \in Origins \cup {"script"} |->
                [from |-> o, line |-> IF o = "script" THEN ScriptLines ELSE 0, run |-> 0]]

-----------------------------------------------------------------------------
(* Slots.                                                                  *)

find(o) == {i \in Slots : slots[i].used /\ slots[i].origin = o}

\* The slot of an origin: its own, a free one, or a victim.  The stamps that
\* choose the victim mix the senders' clocks with this one's, so any may go.
Candidates(o) ==
    IF find(o) # {} THEN find(o)
    ELSE LET free == {i \in Slots : ~slots[i].used} IN
         IF free # {} THEN {CHOOSE i \in free : \A k \in free : i <= k} ELSE Slots

\* Fault: a reused slot keeps the result that waits in it.
find_or_alloc_KeepsResult(o, i) ==
    IF i \in find(o) THEN slots[i]
    ELSE [Free EXCEPT !.used = TRUE, !.origin = o, !.reset = TRUE,
                      !.ready = slots[i].ready, !.result = slots[i].result]

\* find_or_alloc(): a slot given to a new origin loses what the old one left;
\* its editor is left for pump() to reset.
find_or_alloc(o, i) ==
    IF i \in find(o) THEN slots[i]
    ELSE [Free EXCEPT !.used = TRUE, !.origin = o, !.reset = TRUE]

\* on_terminal_in(): a line from an origin over a link.
on_terminal_in(o, link) ==
    /\ link \in bound \cup {"radio"}
    /\ bounds.lines < MaxLines
    /\ bounds' = [bounds EXCEPT !.lines = @ + 1]
    /\ typed' = [typed EXCEPT ![o] = @ + 1]
    /\ \/ UNCHANGED slots                                  \* try_lock() gave up
       \/ \E i \in Candidates(o) :
            LET s == find_or_alloc(o, i) IN
            slots' = [slots EXCEPT ![i] =
                        [s EXCEPT !.target = link,
                                  !.in = IF Len(@) < kMaxPendingIn
                                         THEN Append(@, typed[o] + 1) ELSE @]]
    /\ UNCHANGED <<own, pump, queue, shell, capture, bound, script, ran>>

\* bind_tcp_target(), bind_ble_target(), bind_serial_target().
bind_target(link) ==
    /\ link \notin bound
    /\ bound' = bound \cup {link}
    /\ UNCHANGED <<slots, own, pump, queue, shell, capture, script, bounds, typed, ran>>

\* unbind_*_target(): the endpoint goes, and the link's slots if the lock is had.
unbind_target(link) ==
    /\ link \in bound
    /\ bound' = bound \ {link}
    /\ \/ UNCHANGED slots
       \/ slots' = [i \in Slots |-> IF slots[i].target = link
                                    THEN [slots[i] EXCEPT !.used = FALSE] ELSE slots[i]]
    /\ UNCHANGED <<own, pump, queue, shell, capture, script, bounds, typed, ran>>

-----------------------------------------------------------------------------
(* pump(): the comms task, slot after slot.                                *)

pumpOnly == <<shell, capture, bound, script, bounds, typed, ran>>

\* submitTerminalCommand(): never waits; a full queue is a refusal.
submitTerminalCommand(line) ==
    /\ Len(queue) < QueueLength
    /\ queue' = Append(queue, [from |-> pump.origin, line |-> line, run |-> 0])

\* submit_line(): a refused line is dropped with a notice.
submit_line(i, e, line) ==
    \/ /\ submitTerminalCommand(line)
       /\ own' = [own EXCEPT ![i] = [e EXCEPT !.awaiting = TRUE]]
    \/ /\ Len(queue) = QueueLength
       /\ own' = [own EXCEPT ![i] = e] /\ UNCHANGED queue

\* runComms() calls pump() when it finds no OTA upload session.  A session may last or be there
\* whenever comms looks, so nothing says that this step is ever taken again.
PumpCall ==
    /\ pump.at = "idle"
    /\ pump' = AtSlot(1)
    /\ UNCHANGED <<slots, own, queue, pumpOnly>>

\* try_lock() gave up: come back on the next pass.
PumpMiss ==
    /\ pump.at = "take"
    /\ pump' = NextSlot
    /\ UNCHANGED <<slots, own, queue, pumpOnly>>

\* The locked snapshot of the hand-off fields.
PumpTake ==
    LET s == slots[pump.slot] IN
    /\ pump.at = "take"
    /\ IF s.used
       THEN /\ pump' = [pump EXCEPT !.at = "work", !.origin = s.origin,
                          !.target = s.target, !.reset = s.reset, !.have = s.ready,
                          !.result = IF s.ready THEN s.result ELSE NoResult, !.in = s.in]
            /\ slots' = [slots EXCEPT ![pump.slot] =
                 [s EXCEPT !.reset = FALSE, !.ready = FALSE, !.in = <<>>,
                           !.result = IF s.ready THEN NoResult ELSE @]]
       ELSE pump' = NextSlot /\ UNCHANGED slots
    /\ UNCHANGED <<own, queue, pumpOnly>>

\* Fault: the deferred reset forgets awaiting_result.
Fed_StillAwaiting(e) ==
    [editor |-> (IF pump.reset THEN <<>> ELSE e.editor) \o pump.in,
     awaiting |-> e.awaiting /\ ~pump.have,
     pending |-> IF pump.reset THEN <<>> ELSE e.pending]

\* The deferred reset, the end of the wait, and the input fed to the editor.
Fed(e) ==
    [editor |-> (IF pump.reset THEN <<>> ELSE e.editor) \o pump.in,
     awaiting |-> e.awaiting /\ ~pump.reset /\ ~pump.have,
     pending |-> IF pump.reset THEN <<>> ELSE e.pending]

Work(held(_)) ==
    LET e == Fed(own[pump.slot]) IN
    /\ pump.at = "work"
    /\ pump' = [pump EXCEPT !.at = "lines", !.reset = FALSE, !.have = FALSE,
                            !.result = NoResult, !.in = <<>>]
    /\ IF ~e.awaiting /\ e.pending # <<>> /\ held(e)
       THEN submit_line(pump.slot, [e EXCEPT !.pending = <<>>], e.pending[1])
       ELSE own' = [own EXCEPT ![pump.slot] = e] /\ UNCHANGED queue
    /\ UNCHANGED <<slots, pumpOnly>>

\* Fault: the line typed ahead waits while the editor has a newer one.
PumpWork_EditorFirst == Work(LAMBDA e : e.editor = <<>>)

\* Unlocked: after the feed, the line typed ahead goes first, once its turn has come.
PumpWork == Work(LAMBDA e : TRUE)

\* One completed line: submitted, held behind the one in flight, or dropped.
PumpLine ==
    LET e == own[pump.slot]
        rest == [e EXCEPT !.editor = Tail(@)] IN
    /\ pump.at = "lines" /\ e.editor # <<>>
    /\ IF ~e.awaiting THEN submit_line(pump.slot, rest, Head(e.editor))
       ELSE /\ own' = [own EXCEPT ![pump.slot] =
                         IF e.pending = <<>> THEN [rest EXCEPT !.pending = <<Head(e.editor)>>]
                         ELSE rest]
            /\ UNCHANGED queue
    /\ UNCHANGED <<slots, pump, pumpOnly>>

\* emit_terminal_out(), by the link of the snapshot; the next slot.
PumpEmit ==
    /\ pump.at = "lines" /\ own[pump.slot].editor = <<>>
    /\ pump' = NextSlot
    /\ UNCHANGED <<slots, own, queue, pumpOnly>>

-----------------------------------------------------------------------------
(* runShell(): the shell task, and the capture of its output.              *)

fromShell == <<own, pump, bound, typed>>

\* A wait for the logger's mutex that runs out: the call does nothing.
TimesOut ==
    /\ bounds.timeouts < MaxTimeouts
    /\ bounds' = [bounds EXCEPT !.timeouts = @ + 1]

\* capture_text(): the lines a command logs, while a capture is on.
capture_text(cmd, cap) == IF cap.active THEN [cap EXCEPT !.buf = @ \cup {cmd}] ELSE cap

\* begin_capture(), and the lines the command then logs.
begin_capture(cmd) ==
    \/ capture' = capture_text(cmd, [active |-> TRUE, buf |-> {}]) /\ UNCHANGED bounds
    \/ TimesOut /\ capture' = capture_text(cmd, capture)

\* "job -run_file": refused while a script is active; startScript() reads the
\* file whole and makes it active last.
startScript ==
    /\ ~script.active /\ bounds.scripts < MaxScripts
    /\ script' = [active |-> TRUE, cursor |-> 1]
    /\ bounds' = [bounds EXCEPT !.scripts = @ + 1]

\* A typed line is captured and run; it may be the command that starts a script.
RunTyped(cmd) ==
    /\ cmd.from # "script"
    /\ shell' = [at |-> "end", cmd |-> cmd, text |-> {}]
    /\ \/ begin_capture(cmd) /\ UNCHANGED script
       \/ startScript /\ capture' = capture_text(cmd, [active |-> TRUE, buf |-> {}])

\* A script's line is run without a capture of its own.
RunLocal(cmd) ==
    /\ cmd.from = "script"
    /\ capture' = capture_text(cmd, capture)
    /\ UNCHANGED <<shell, script, bounds>>

\* xQueueReceive() and run_command_line().
run_command_line ==
    /\ shell.at = "idle" /\ queue # <<>>
    /\ queue' = Tail(queue)
    /\ ran' = [ran EXCEPT ![Head(queue).from] = Head(queue)]
    /\ RunTyped(Head(queue)) \/ RunLocal(Head(queue))
    /\ UNCHANGED <<fromShell, slots>>

end_capture ==
    /\ shell.at = "end"
    /\ \/ /\ shell' = [shell EXCEPT !.at = "deliver", !.text = capture.buf]
          /\ capture' = [active |-> FALSE, buf |-> {}]
          /\ UNCHANGED bounds
       \/ /\ TimesOut
          /\ shell' = [shell EXCEPT !.at = "deliver"]
          /\ UNCHANGED capture
    /\ UNCHANGED <<fromShell, slots, queue, script, ran>>

\* deliver_command_output(): the lock is waited for, and the slot found again.
deliver_command_output ==
    /\ shell.at = "deliver"
    /\ slots' = [i \in Slots |->
         IF i \in find(shell.cmd.from)
         THEN [slots[i] EXCEPT !.ready = TRUE,
                 !.result = [of |-> <<shell.cmd>>, text |-> shell.text]]
         ELSE slots[i]]
    /\ shell' = [at |-> "idle", cmd |-> NoCommand, text |-> {}]
    /\ UNCHANGED <<fromShell, queue, capture, script, bounds, ran>>

-----------------------------------------------------------------------------
(* pollScript(): the routine task.                                         *)

\* The next line a script submits from a cursor, past the job commands it skips;
\* ScriptLines + 1 at the end of the file.
NextLine(cursor) ==
    CHOOSE n \in cursor..(ScriptLines + 1) :
        n \notin JobLines /\ \A k \in cursor..(n - 1) : k \in JobLines

\* submitLocalCommand(): refused when too long or when the queue is full.  History: a line of
\* a script carries which start of a script it is of, a typed one 0.
submitLocalCommand(line) ==
    /\ line \notin LongLines /\ Len(queue) < QueueLength
    /\ queue' = Append(queue, [from |-> "script", line |-> line, run |-> bounds.scripts])

\* A refused line keeps its place for the next pass; one command per pass.
pollScript ==
    LET line == NextLine(script.cursor) IN
    /\ script.active
    /\ IF line > ScriptLines
       THEN script' = [active |-> FALSE, cursor |-> 1] /\ UNCHANGED queue
       ELSE submitLocalCommand(line) /\ script' = [script EXCEPT !.cursor = line + 1]
    /\ UNCHANGED <<slots, own, pump, shell, capture, bound, bounds, typed, ran>>

-----------------------------------------------------------------------------
PumpPass == PumpMiss \/ PumpTake \/ PumpWork \/ PumpLine \/ PumpEmit
ShellTask == run_command_line \/ end_capture \/ deliver_command_output

TerminalNext ==
    \/ \E o \in Origins : \E link \in Links \cup {"radio"} : on_terminal_in(o, link)
    \/ \E link \in Links : bind_target(link) \/ unbind_target(link)
    \/ PumpCall
    \/ PumpPass
    \/ ShellTask
    \/ pollScript

TerminalSpec == TerminalInit /\ [][TerminalNext]_terminalVars

\* shell and routine loop for ever, and a pass of pump() ends; whether comms calls it again is up to
\* the upload session.  A lock section is a few stores, so pump() does not miss the same slot for
\* ever; nor does the script find the queue full on every pass.
TerminalFairSpec ==
    /\ TerminalSpec
    /\ WF_terminalVars(PumpPass) /\ WF_terminalVars(ShellTask) /\ SF_terminalVars(pollScript)
    /\ \A i \in Slots : SF_terminalVars(PumpTake /\ pump.slot = i)

-----------------------------------------------------------------------------
\* Types, and the bounds of the queue, of the hand-off buffer and of the one
\* line held behind the line in flight.
TerminalTypeOK ==
    /\ \A i \in Slots :
         /\ slots[i].used => slots[i].origin \in Origins
         /\ slots[i].target \in Links \cup {"radio"}
         /\ Len(slots[i].in) <= kMaxPendingIn
         /\ Len(own[i].pending) <= 1
    /\ \A i, k \in Slots : slots[i].used /\ slots[k].used /\ i # k
                             => slots[i].origin # slots[k].origin
    /\ pump.slot \in Slots /\ pump.at \in {"idle", "take", "work", "lines"}
    /\ Len(queue) <= QueueLength
    /\ shell.at \in {"idle", "end", "deliver"}
    /\ script.cursor \in 1..(ScriptLines + 1)

\* The result pump() shows in a slot is that of a command its origin typed, through
\* evictions and slots that change hands between the snapshot and the work; and its
\* text is that command's output alone, even after a wait for the mutex ran out (a
\* second one, in begin_capture(), may leave there what the first left in the buffer).
ResultsStayWithTheirOrigin ==
    pump.have =>
        \E cmd \in {pump.result.of[k] : k \in DOMAIN pump.result.of} :
            /\ cmd.from = pump.origin
            /\ bounds.timeouts <= 1 => pump.result.text \subseteq {cmd}

\* The script command d comes right after c: the next line of the same run of the script, or, that
\* run being over, the first line of the next run.
Follows(c, d) ==
    \/ d.run = c.run /\ d.line = NextLine(c.line + 1)
    \/ d.run = c.run + 1 /\ NextLine(c.line + 1) = ScriptLines + 1 /\ d.line = NextLine(1)

\* "so commands run in the order they were entered": of the commands the shell takes, those of an
\* origin are in the order typed and none twice, whatever was held, dropped or reset; and every
\* start of a script runs each of its lines once, in the order of the file, none skipped when
\* the queue was full and all before the script is started again.
LinesInOrder ==
    [][queue # <<>> /\ queue' = Tail(queue) =>
         LET cmd == Head(queue)
             last == ran[cmd.from] IN
         IF cmd.from = "script" THEN Follows(last, cmd) ELSE cmd.line > last.line]_terminalVars

\* As long as comms goes on calling pump(), between upload sessions if need be, no terminal is left
\* waiting for good: a slot that awaits a result sees it, or is reset, or is given up.
WaitEnds ==
    []<><<PumpCall>>_terminalVars =>
        \A i \in Slots : (slots[i].used /\ own[i].awaiting)
                            ~> (~slots[i].used \/ ~own[i].awaiting)

\* "a script is already running; wait for it to finish": a script does finish.
\* The code does not keep this.
ScriptFinishes == script.active ~> ~script.active
=============================================================================
