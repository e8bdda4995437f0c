------------------------------ MODULE Junkebox ------------------------------
(***************************************************************************)
(* lib/Junkebox: the buzzer's one-place mailbox, the notification that     *)
(* interrupts a song, and the task that plays it note by note.             *)
(*                                                                         *)
(* The callers and the player share core 0, routine (3) above shell (2)    *)
(* above junkebox (1).  So updateSoundFeedback() runs in one piece, a      *)
(* shell command may be cut only by the routine task, and the player moves *)
(* only while neither is running; both may cut the player anywhere.        *)
(*                                                                         *)
(* The names every specification has (Init, Next, vars...) carry the       *)
(* component's, because its proofs share a module with OtaUpdater's.       *)
(***************************************************************************)
EXTENDS Integers, Sequences, FiniteSets

CONSTANTS
  Text,        \* the lines of each song, file or compiled in, by title
  Files,       \* the titles kept on the SD card
  Tones,       \* the raw tones "robot test_buzzer" may ask for
  Buttons,     \* the button flags
  Loops        \* the N of a "LOOP,N" line

\* A line is a note or a rest with its duration, a repetition directive, or something
\* neither parse_loop_line() nor parse_note_line() accepts: blank, comment, oversized, out of range.
Lines == {"note", "rest", "loop", "other"}

ASSUME SongAssumption ==
  /\ \A t \in DOMAIN Text : Text[t] \in Seq(Lines)
  /\ {"click", "error"} \subseteq DOMAIN Text \ Files    \* what updateSoundFeedback() plays
  /\ Files \subseteq DOMAIN Text /\ Tones \cap DOMAIN Text = {}
  /\ "none" \notin Tones \cup DOMAIN Text
  /\ Loops \in 1 .. 100

VARIABLES
  configured, ready,      \* hw_configured_, ready_
  mailbox, notified,      \* request_queue_, the task's notification
  player, song, cursor, loop, loopCount, playing, tone,   \* the junkebox task
  shell,                  \* where the shell task is in play() or stop()
  previous,               \* previous_buttons_ and previous_state_
  newest, played          \* history

mail  == <<mailbox, notified>>
voice == <<player, song, cursor, loop, loopCount, playing, tone>>
soundVars == <<configured, ready, mail, voice, shell, previous, newest, played>>

Builtins == DOMAIN Text \ Files    \* BuiltinSongs.h, by name
Titles   == DOMAIN Text \cup Tones
None     == "none"

\* newest is what became of the last call that touched the mailbox, played the notes and
\* rests of the song in hand so far.
Outcomes == {"none", "waiting", "playing", "heard", "cut", "stopped"}

SoundInit ==
  /\ configured = FALSE /\ ready = FALSE
  /\ mailbox = None /\ notified = FALSE
  /\ player = "off" /\ song = None /\ cursor = 0 /\ loop = 0 /\ loopCount = 1
  /\ playing = FALSE /\ tone = "off"
  /\ shell = "idle"
  /\ previous = [pressed |-> {}, error |-> FALSE]
  /\ newest = "none" /\ played = 0

\* init(), before the tasks exist: it may fail at the pin, the LEDC timer or channel, or the queue.
begin(ok) ==
  /\ player = "off"
  /\ configured' = ok
  /\ player' = "boot"
  /\ UNCHANGED <<ready, mail, song, cursor, loop, loopCount, playing, tone,
                 shell, previous, newest, played>>

-----------------------------------------------------------------------------
(* The callers.                                                            *)

\* xQueueOverwrite(): a request nobody took yet is replaced.
Overwrite(t) == mailbox' = t /\ newest' = "waiting"

\* A button flag that was clear in the previous pass clicks; entering ERROR comes after it
\* and wins.  Before the player is ready, play() refuses.
updateSoundFeedback(pressed, error) ==
  LET click == pressed \ previous.pressed # {}
      alarm == error /\ ~previous.error IN
  /\ player # "off"
  /\ previous' = [pressed |-> pressed, error |-> error]
  /\ IF ready /\ (click \/ alarm)
     THEN Overwrite(IF alarm THEN "error" ELSE "click") /\ notified' = TRUE
     ELSE UNCHANGED <<mail, newest>>
  /\ UNCHANGED <<configured, ready, voice, shell, played>>

\* The shell's half of play() and play_tone(): the request, with the notification to follow.
Post(t) ==
  /\ shell = "idle" /\ ready
  /\ Overwrite(t)
  /\ shell' = "notify"
  /\ UNCHANGED <<configured, ready, notified, voice, previous, played>>

\* "junkebox play", once the path, the card and the file were found good: the player
\* will test the card again.
play(t) == t \in Files /\ Post(t)

\* "junkebox play_builtin" of a known name.
play_builtin(t) == t \in Builtins /\ Post(t)

\* "robot test_buzzer".
play_tone(t) == t \in Tones /\ Post(t)

stop ==
  /\ shell = "idle" /\ ready
  /\ mailbox' = None
  /\ newest' = "stopped"
  /\ shell' = "notify"
  /\ UNCHANGED <<configured, ready, notified, voice, previous, played>>

\* xTaskNotifyGive(), as the last thing play() and stop() do.
Notify ==
  /\ shell = "notify"
  /\ notified' = TRUE
  /\ shell' = "idle"
  /\ UNCHANGED <<configured, ready, mailbox, voice, previous, newest, played>>

-----------------------------------------------------------------------------
(* run_loop(): the player.                                                 *)

PlayerRuns(at) == shell = "idle" /\ player = at

\* Without the hardware the task suspends itself and ready_ stays false.
Startup ==
  /\ PlayerRuns("boot")
  /\ configured
  /\ ready' = TRUE /\ player' = "wait"
  /\ UNCHANGED <<configured, mail, song, cursor, loop, loopCount, playing, tone,
                 shell, previous, newest, played>>

Receive ==
  /\ PlayerRuns("wait") /\ mailbox # None
  /\ song' = mailbox /\ mailbox' = None
  /\ newest' = IF newest = "waiting" THEN "playing" ELSE newest
  /\ player' = "discard"
  /\ UNCHANGED <<configured, ready, notified, cursor, loop, loopCount, playing, tone,
                 shell, previous, played>>

Discard_Keeps ==
  /\ PlayerRuns("discard")
  /\ playing' = TRUE
  /\ player' = "open"
  /\ UNCHANGED <<configured, ready, mail, song, cursor, loop, loopCount, tone,
                 shell, previous, newest, played>>

\* ulTaskNotifyTake(pdTRUE, 0): what was built up while idle must not cut the first note.
Discard ==
  /\ PlayerRuns("discard")
  /\ notified' = FALSE
  /\ playing' = TRUE
  /\ player' = "open"
  /\ UNCHANGED <<configured, ready, mailbox, song, cursor, loop, loopCount, tone,
                 shell, previous, newest, played>>

\* play_file() gives up when the card is not the robot's or the file cannot be read.
Unreadable ==
  /\ PlayerRuns("open") /\ song \in Files
  /\ player' = "end"
  /\ newest' = IF newest = "playing" THEN "none" ELSE newest
  /\ UNCHANGED <<configured, ready, mail, song, cursor, loop, loopCount, playing, tone,
                 shell, previous, played>>

\* The text is in file_buffer_ and play_buffer() begins.
Open ==
  /\ PlayerRuns("open") /\ song \notin Tones
  /\ cursor' = 1 /\ loop' = 0 /\ loopCount' = 1 /\ played' = 0
  /\ player' = "line"
  /\ UNCHANGED <<configured, ready, mail, song, playing, tone, shell, previous, newest>>

\* play_raw_tone(): one note; a frequency LEDC refuses ends it at once.
RawTone ==
  /\ PlayerRuns("open") /\ song \in Tones
  /\ played' = 1
  /\ \/ tone' = "on" /\ player' = "raw" /\ UNCHANGED newest
     \/ player' = "end" /\ UNCHANGED tone
        /\ newest' = IF newest = "playing" THEN "none" ELSE newest
  /\ UNCHANGED <<configured, ready, mail, song, cursor, loop, loopCount, playing,
                 shell, previous>>

AtLine == PlayerRuns("line") /\ cursor <= Len(Text[song])

\* A directive counts in the first round only; a line that is no note is passed over.
Directive ==
  /\ AtLine /\ Text[song][cursor] = "loop"
  /\ loopCount' = IF loop = 0 THEN Loops ELSE loopCount
  /\ cursor' = cursor + 1
  /\ UNCHANGED <<configured, ready, mail, player, song, loop, playing, tone,
                 shell, previous, newest, played>>

Skip ==
  /\ AtLine /\ Text[song][cursor] = "other"
  /\ cursor' = cursor + 1
  /\ UNCHANGED <<configured, ready, mail, player, song, loop, loopCount, playing, tone,
                 shell, previous, newest, played>>

\* A frequency may be refused, and the last tone then sounds on; silence always works.
set_tone(line) == IF line = "rest" THEN {"off"} ELSE {tone, "on"}

\* The note is waited out whether it sounds or not.
Note ==
  /\ AtLine /\ Text[song][cursor] \in {"note", "rest"}
  /\ tone' \in set_tone(Text[song][cursor])
  /\ cursor' = cursor + 1
  /\ played' = played + 1
  /\ player' = "note"
  /\ UNCHANGED <<configured, ready, mail, song, loop, loopCount, playing, shell, previous, newest>>

NextRound ==
  /\ PlayerRuns("line") /\ cursor > Len(Text[song])
  /\ IF loop + 1 < loopCount
     THEN loop' = loop + 1 /\ cursor' = 1 /\ UNCHANGED <<player, newest>>
     ELSE player' = "end" /\ UNCHANGED <<loop, cursor>>
          /\ newest' = IF newest = "playing" THEN "heard" ELSE newest
  /\ UNCHANGED <<configured, ready, mail, song, loopCount, playing, tone, shell, previous, played>>

\* The note's time is over and nothing was given meanwhile.
NoteElapsed ==
  /\ shell = "idle" /\ player \in {"note", "raw"} /\ ~notified
  /\ IF player = "note"
     THEN player' = "line" /\ UNCHANGED newest
     ELSE player' = "end" /\ newest' = IF newest = "playing" THEN "heard" ELSE newest
  /\ UNCHANGED <<configured, ready, mail, song, cursor, loop, loopCount, playing, tone,
                 shell, previous, played>>

\* ulTaskNotifyTake() returns at once: the song is given up.
Interrupted ==
  /\ shell = "idle" /\ player \in {"note", "raw"} /\ notified
  /\ notified' = FALSE
  /\ player' = "end"
  /\ newest' = IF newest = "playing" THEN "cut" ELSE newest
  /\ UNCHANGED <<configured, ready, mailbox, song, cursor, loop, loopCount, playing, tone,
                 shell, previous, played>>

\* set_tone(0) and back to the mailbox.
End ==
  /\ PlayerRuns("end")
  /\ tone' = "off" /\ playing' = FALSE /\ song' = None
  /\ player' = "wait"
  /\ UNCHANGED <<configured, ready, mail, cursor, loop, loopCount, shell, previous, newest, played>>

-----------------------------------------------------------------------------

PlayerStep ==
  \/ Startup \/ Receive \/ Discard \/ Unreadable \/ Open \/ RawTone
  \/ Directive \/ Skip \/ Note \/ NextRound \/ NoteElapsed \/ Interrupted \/ End

SoundNext ==
  \/ \E pressed \in SUBSET Buttons, error \in BOOLEAN : updateSoundFeedback(pressed, error)
  \/ \E ok \in BOOLEAN : begin(ok)
  \/ \E t \in Titles : play(t) \/ play_builtin(t) \/ play_tone(t)
  \/ stop \/ Notify
  \/ PlayerStep

SoundSpec == SoundInit /\ [][SoundNext]_soundVars

-----------------------------------------------------------------------------

SoundTypeOK ==
  /\ configured \in BOOLEAN /\ ready \in BOOLEAN /\ notified \in BOOLEAN /\ playing \in BOOLEAN
  /\ mailbox \in Titles \cup {None} /\ song \in Titles \cup {None}
  /\ player \in {"off", "boot", "wait", "discard", "open", "line", "note", "raw", "end"}
  /\ tone \in {"on", "off"} /\ shell \in {"idle", "notify"}
  /\ previous \in [pressed : SUBSET Buttons, error : BOOLEAN]
  /\ newest \in Outcomes
  /\ cursor \in Nat /\ loop \in Nat /\ loopCount \in Nat /\ played \in Nat

\* The notes of a song: its playable lines, as often as its directive says.
NotesOf(t) ==
  LET lines == Text[t] IN
  Cardinality({i \in DOMAIN lines : lines[i] \in {"note", "rest"}})
    * (IF \E i \in DOMAIN lines : lines[i] = "loop" THEN Loops ELSE 1)

\* The request made last is never cut off -- by the notification that came with it, one left over
\* from before, or one meant for the song it replaced -- and it is played to its last repetition;
\* a call of stop() leaves nothing for the player to take up afterwards.
NewestRequestIsHeard ==
  /\ newest # "cut"
  /\ newest = "heard" /\ player = "end" /\ song \notin Tones => played = NotesOf(song)
  /\ newest = "stopped" => mailbox = None

\* Junkebox.h: a second play() "interrupts whatever is currently playing", stop() silences "mid-note
\* if necessary": with a newer request or a stop() outstanding the song in hand reaches no further note.
\* The code does not keep this.
RequestInterrupts ==
  [][player = "note" /\ player' = "line" => newest \notin {"waiting", "stopped"}]_soundVars
=============================================================================
