---------------------------- MODULE RobotSettings ----------------------------
(***************************************************************************)
(* lib/RobotSettings: the values in memory, the text of settings.conf, and *)
(* the two tasks that change them without a lock: the shell on core 0 and  *)
(* COMM_CONFIG's confirmation in the state_machine task on core 1.  The    *)
(* file is truncated and rewritten in place, the card may go to a USB      *)
(* host that edits it, and the robot may restart at any point.             *)
(*                                                                         *)
(* Init, Next, vars... carry the component's name: its proofs share a      *)
(* module with TelemetryPublisher's.                                       *)
(***************************************************************************)
EXTENDS Integers, Sequences, SequencesExt

CONSTANTS
  Table,        \* kTable: the keys in the order they are written
  ModuleOf,     \* a key's module
  TypeOf,       \* a key's SettingType
  Default,      \* SettingsData{}: a key's compiled-in value
  Texts,        \* the texts a key may be given, by the shell or in the file
  Size,         \* the buffer of a STRING
  MaxU8, MaxU32, Gpios, Printed,   \* the limits of the other types
  Wide,         \* the first FLOAT whose text does not fit format_entry()'s buffer
  Infinite,     \* what strtof() makes of a number past FLT_MAX
  CommMode,     \* the key COMM_CONFIG confirms
  Modes,        \* the modes it offers
  MaxSaves      \* bound on the saves of one boot

\* Numbers stand for themselves, a FLOAT counts units finer than "%.6f" prints (Printed of
\* them make its last digit), a STRING is its length.  Garbage is a text no number is parsed from.
Garbage == -1

\* From 1e31 to FLT_MAX (3.4e38): what up to eight digits cut from a text divide its number by.
Tens == {10, 100, 1000, 10 * 1000, 100 * 1000, 1000 * 1000, 10 * 1000 * 1000, 100 * 1000 * 1000}

Keys    == Range(Table)
Types   == {"U32", "U8", "FLOAT", "PIN", "STRING"}
Tasks   == {"shell", "tick"}

ASSUME SettingsAssumption ==
  /\ Table \in Seq(Range(Table)) /\ IsInjective(Table)
  /\ CommMode \in Keys /\ "missing" \notin Keys
  /\ {Size, MaxU8, MaxU32} \cup Gpios \subseteq Nat /\ {Printed, MaxSaves} \subseteq Nat \ {0}
  /\ {Wide, Infinite} \subseteq Nat /\ Wide <= Infinite /\ Infinite \div (100 * 1000 * 1000) < Wide
  /\ \A k \in Keys : TypeOf[k] \in Types /\ Texts[k] \subseteq Nat \cup {Garbage}
  /\ Default \in [Keys -> Nat]
  /\ \A k \in Keys : TypeOf[k] = "FLOAT" => Default[k] % Printed = 0
  /\ \A k \in Keys : TypeOf[k] = "U32" => Default[k] <= MaxU32
  /\ TypeOf[CommMode] = "U8" /\ Modes \subseteq 0 .. MaxU8

VARIABLES
  data,       \* data_
  file,       \* settings.conf: the text of each key that has a line
  card,       \* "mounted", "host" or "absent"
  revision,   \* save_revision_
  call,       \* where each task is in a call that touches the settings
  kept,       \* history: the values the file should hold, if nothing disturbed it
  foretold    \* history: what "settings diff" last answered, until something changed

settingsVars == <<data, file, card, revision, call, kept, foretold>>

NoFile  == [missing |-> TRUE]
Empty   == [k \in {} |-> Garbage]
Unknown == [unknown |-> TRUE]

\* op is the loop a call is in, left the keys still to visit, lines the buffer it fills or
\* reads, saves whether save() follows; alone (history) says no other call ran beside it.
Idle == [op |-> "idle", left |-> <<>>, lines |-> Empty, saves |-> FALSE, alone |-> TRUE]

Busy(t)  == call[t].op \notin {"idle", "done"}
Other(t) == CHOOSE s \in Tasks : s # t

\* The bound: another save fits in.
Room == revision + Cardinality({t \in Tasks : Busy(t)}) < MaxSaves

-----------------------------------------------------------------------------
(* Conversions.                                                            *)

\* snprintf() cuts a text at the buffer's 31 characters.  A number of Wide has more than that
\* before its point: what is left reads as the number without its last digits.  "inf" fits.
Cut(p) ==
  IF p < Wide \/ p >= Infinite THEN p
  ELSE LET lost == CHOOSE d \in Tens : /\ p \div d < Wide
                                       /\ \A e \in Tens : p \div e < Wide => d <= e
       IN  Printed * (p \div (Printed * lost))

\* "%.6f" rounds.
Rounded(v) == Printed * ((2 * v + Printed) \div (2 * Printed))

\* A plausible defect: one digit fewer.
format_entry_Short(k, v) ==
  IF TypeOf[k] = "FLOAT" THEN Cut(10 * Printed * (v \div (10 * Printed))) ELSE v

\* The other types fit the buffer, and print what they hold.
format_entry(k, v) == IF TypeOf[k] = "FLOAT" THEN Cut(Rounded(v)) ELSE v

\* What parse_into() refuses: a text that is no number, one out of range, and, for a
\* STRING, the empty text and one that fills the buffer.
Accepts(k, text) ==
  /\ text # Garbage
  /\ TypeOf[k] = "U8"     => text <= MaxU8
  /\ TypeOf[k] = "PIN"    => text \in Gpios
  /\ TypeOf[k] = "STRING" => text \in 1 .. Size - 1

\* The field keeps its value when the text is refused; strtoul() and strtof() saturate.
parse_into(v, k, text) ==
  IF ~Accepts(k, text) THEN v
  ELSE IF TypeOf[k] = "U32" /\ text > MaxU32 THEN MaxU32
  ELSE IF TypeOf[k] = "FLOAT" /\ text > Infinite THEN Infinite
  ELSE text

\* A key without a line keeps what was in the destination.
ParseLine(v, k, lines) == IF k \in DOMAIN lines THEN parse_into(v, k, lines[k]) ELSE v

parse_file(d, lines) == [k \in Keys |-> ParseLine(d[k], k, lines)]

Lines(d) == [k \in Keys |-> format_entry(k, d[k])]

-----------------------------------------------------------------------------
SettingsInit ==
  /\ data = Default /\ file = NoFile /\ card = "mounted"
  /\ revision = 0 /\ call = [t \in Tasks |-> Idle]
  /\ kept = Unknown /\ foretold = Unknown

\* A call enters a loop over the table (Keys of module m, or all of them).
Enter(t, op, left, lines, saves) ==
  call' = [s \in Tasks |->
             IF s = t THEN [op |-> op, left |-> left, lines |-> lines, saves |-> saves,
                            alone |-> ~Busy(Other(t)) /\ call[t].alone]
             ELSE [call[s] EXCEPT !.alone = ~Busy(s)]]

\* COMM_CONFIG schedules the restart whatever save() said, and does nothing more.
Return(t) ==
  call' = [call EXCEPT ![t] = [Idle EXCEPT !.op = IF t = "tick" THEN "done" ELSE "idle"]]

Step(t) == call' = [call EXCEPT ![t].left = Tail(@)]

\* "settings set": a text the key's type refuses changes nothing.
set(k, text) ==
  /\ call["shell"].op = "idle" /\ Accepts(k, text)
  /\ data' = [data EXCEPT ![k] = parse_into(data[k], k, text)]
  /\ call' = [call EXCEPT !["tick"].alone = ~Busy("tick")]
  /\ foretold' = Unknown
  /\ UNCHANGED <<file, card, revision, kept>>

\* "settings reset" of a module, "settings reset_all" and "sys factory_reset", which saves.
reset_module(m) ==
  /\ call["shell"].op = "idle"
  /\ Enter("shell", "reset", SelectSeq(Table, LAMBDA k : ModuleOf[k] = m), Empty, FALSE)
  /\ UNCHANGED <<data, file, card, revision, kept, foretold>>

reset_all(saves) ==
  /\ call["shell"].op = "idle" /\ (saves => Room)
  /\ Enter("shell", "reset", Table, Empty, saves)
  /\ UNCHANGED <<data, file, card, revision, kept, foretold>>

factory_reset == reset_all(TRUE)

ResetEntry ==
  /\ call["shell"].op = "reset" /\ call["shell"].left # <<>>
  /\ LET k == Head(call["shell"].left) IN data' = [data EXCEPT ![k] = Default[k]]
  /\ Step("shell")
  /\ foretold' = Unknown
  /\ UNCHANGED <<file, card, revision, kept>>

\* save() tests the card first.
BeginSave(t) ==
  IF card = "mounted" THEN Enter(t, "format", Table, Empty, FALSE) ELSE Return(t)

ResetDone ==
  /\ call["shell"].op = "reset" /\ call["shell"].left = <<>>
  /\ IF call["shell"].saves THEN BeginSave("shell") ELSE Return("shell")
  /\ UNCHANGED <<data, file, card, revision, kept, foretold>>

save ==
  /\ call["shell"].op = "idle" /\ card = "mounted" /\ Room
  /\ BeginSave("shell")
  /\ UNCHANGED <<data, file, card, revision, kept, foretold>>

\* commConfigTick(), btn0: the mode is stored and everything saved.  The host has the card
\* in DEBUG only.
confirm(mode) ==
  /\ call["tick"].op = "idle" /\ card # "host" /\ Room
  /\ data' = [data EXCEPT ![CommMode] = parse_into(data[CommMode], CommMode, mode)]
  /\ BeginSave("tick")
  /\ foretold' = Unknown
  /\ UNCHANGED <<file, card, revision, kept>>

FormatEntry(t) ==
  /\ call[t].op = "format" /\ call[t].left # <<>>
  /\ LET k == Head(call[t].left) IN
     call' = [call EXCEPT ![t].left = Tail(@),
                          ![t].lines = [j \in DOMAIN @ \cup {k} |->
                             IF j = k THEN format_entry(k, data[k]) ELSE @[j]]]
  /\ UNCHANGED <<data, file, card, revision, kept, foretold>>

\* write_file(): fopen("wb") truncates.  Nothing keeps the old text for a restart.
SaveOpen(t) ==
  /\ call[t].op = "format" /\ call[t].left = <<>>
  /\ \/ card = "mounted" /\ file' = Empty /\ kept' = Unknown /\ foretold' = Unknown
        /\ call' = [call EXCEPT ![t].op = "write"]
     \/ UNCHANGED <<file, kept, foretold>> /\ Return(t)
  /\ UNCHANGED <<data, card, revision>>

\* fwrite(), fflush(), fclose().  With both tasks in the file, FAT keeps either text.
SaveWrite(t) ==
  LET both == call[Other(t)].op = "write" IN
  /\ call[t].op = "write"
  /\ file' \in {call[s].lines : s \in {t} \cup (IF both THEN {Other(t)} ELSE {})}
  /\ revision' = revision + 1
  /\ kept' = IF call[t].alone THEN data ELSE Unknown
  /\ foretold' = Unknown
  /\ Return(t)
  /\ UNCHANGED <<data, card>>

\* A card that refuses the bytes: false, and the file stays as fopen() left it.
SaveFail(t) ==
  /\ call[t].op = "write"
  /\ Return(t)
  /\ UNCHANGED <<data, file, card, revision, kept, foretold>>

\* "settings load": a missing file is written from memory.
load ==
  /\ call["shell"].op = "idle" /\ card = "mounted"
  /\ IF file = NoFile THEN Room /\ BeginSave("shell")
                      ELSE Enter("shell", "parse", Table, file, FALSE)
  /\ UNCHANGED <<data, file, card, revision, kept, foretold>>

\* A plausible defect: a destination that starts from memory instead of the defaults.
Diff_OverMemory(d, lines) ==
  {k \in Keys : format_entry(k, d[k]) # format_entry(k, parse_file(d, lines)[k])}

\* diff() parses the file over the defaults, as a boot would, and compares texts.
Diff(d, lines) ==
  {k \in Keys : format_entry(k, d[k]) # format_entry(k, parse_file(Default, lines)[k])}

ParseEntry ==
  /\ call["shell"].op = "parse" /\ call["shell"].left # <<>>
  /\ LET k == Head(call["shell"].left) IN
     data' = [data EXCEPT ![k] = ParseLine(@, k, call["shell"].lines)]
  /\ Step("shell")
  /\ foretold' = Unknown
  /\ UNCHANGED <<file, card, revision, kept>>

ParseDone ==
  /\ call["shell"].op = "parse" /\ call["shell"].left = <<>>
  /\ Return("shell")
  /\ UNCHANGED <<data, file, card, revision, kept, foretold>>

\* "settings diff", beside no other call.
diff ==
  /\ call["shell"].op = "idle" /\ ~Busy("tick") /\ card = "mounted" /\ file # NoFile
  /\ foretold' = [changed |-> Diff(data, file)]
  /\ UNCHANGED <<data, file, card, revision, call, kept>>

-----------------------------------------------------------------------------
(* The USB host and restarts.                                              *)

\* A file the shell has open is lost to it; COMM_CONFIG is not left for DEBUG, where the
\* card is handed over.
HostTakes ==
  /\ card = "mounted" /\ ~Busy("tick")
  /\ card' = "host"
  /\ IF call["shell"].op = "write" THEN Return("shell") ELSE UNCHANGED call
  /\ UNCHANGED <<data, file, revision, kept, foretold>>

\* The user edits a line, drops one, or deletes the file.
HostEdits(lines) ==
  /\ card = "host" /\ file # lines
  /\ file' = lines
  /\ kept' = Unknown /\ foretold' = Unknown
  /\ UNCHANGED <<data, card, revision, call>>

HostReturns ==
  /\ card = "host"
  /\ card' = "mounted"
  /\ UNCHANGED <<data, file, revision, call, kept, foretold>>

\* A restart at any point, and ROBOT::init() up to settings.load(); in front of every task,
\* so in one piece but for a save that fails.
Boot(c) ==
  /\ card' = c /\ call' = [t \in Tasks |-> Idle] /\ foretold' = Unknown
  /\ \/ /\ c = "mounted" /\ file # NoFile
        /\ data' = parse_file(Default, file)
        /\ revision' = 0
        /\ UNCHANGED <<file, kept>>
     \/ /\ c = "mounted" /\ file = NoFile
        /\ data' = Default
        /\ \/ file' = Lines(Default) /\ kept' = Default /\ revision' = 1
           \/ file' \in {NoFile, Empty} /\ kept' = Unknown /\ revision' = 0
     \/ /\ c = "absent"
        /\ data' = Default
        /\ revision' = 0
        /\ UNCHANGED <<file, kept>>

HostLines ==
  IF file = NoFile THEN {Empty}
  ELSE {NoFile}
       \cup {[j \in DOMAIN file \ {k} |-> file[j]] : k \in DOMAIN file}
       \cup UNION {{[j \in DOMAIN file \cup {k} |-> IF j = k THEN x ELSE file[j]] :
                      x \in Texts[k]} : k \in Keys}

SettingsNext ==
  \/ \E k \in Keys : \E x \in Texts[k] : set(k, x)
  \/ \E k \in Keys : reset_module(ModuleOf[k])
  \/ reset_all(FALSE) \/ factory_reset
  \/ ResetEntry \/ ResetDone
  \/ save \/ load \/ ParseEntry \/ ParseDone \/ diff
  \/ \E mode \in Modes : confirm(mode)
  \/ \E t \in Tasks :
       FormatEntry(t) \/ SaveOpen(t) \/ SaveWrite(t) \/ SaveFail(t)
  \/ HostTakes \/ HostReturns \/ \E lines \in HostLines : HostEdits(lines)
  \/ \E c \in {"mounted", "absent"} : Boot(c)

SettingsSpec == SettingsInit /\ [][SettingsNext]_settingsVars

-----------------------------------------------------------------------------
\* Every value in memory is a compiled-in one or one its type takes, whatever a host wrote into the
\* file or a cut save left of it: load() and set() share parse_into().
SettingsTypeOK ==
  /\ DOMAIN data = Keys
  /\ \A k \in Keys : data[k] = Default[k] \/ Accepts(k, data[k])
  /\ file # NoFile => \A k \in DOMAIN file : k \in Keys /\ file[k] \in Nat \cup {Garbage}
  /\ card \in {"mounted", "host", "absent"} /\ revision \in 0 .. MaxSaves
  /\ \A t \in Tasks : call[t].op \in {"idle", "reset", "parse", "format", "write", "done"}

\* What save() reported written is what the next boot has in memory, to the printed digit,
\* unless another call ran beside the save or the file was touched since: every key has its line,
\* and what a reset, a set or a load can leave in memory survives format_entry() and parse_into().
\* Not a FLOAT whose text is longer than the 31 characters format_entry() keeps of it.
SavedIsRead ==
  [][Boot("mounted") /\ kept # Unknown =>
       \A k \in Keys :
         IF TypeOf[k] = "FLOAT"
         THEN Rounded(kept[k]) < Wide =>
                2 * data'[k] \in 2 * kept[k] - Printed .. 2 * kept[k] + Printed
         ELSE data'[k] = kept[k]]_settingsVars

\* "settings diff" tells what a reboot would change: when nothing happened since its answer, the keys
\* whose printed value differs after the next boot are exactly the ones it named (RobotSettings.h:266).
DiffForetellsBoot ==
  [][Boot("mounted") /\ foretold # Unknown =>
       foretold.changed = {k \in Keys : format_entry(k, data'[k]) # format_entry(k, data[k])}]_settingsVars

\* README.md:35 has the class persist every parameter: every value a save reported written comes back.  The
\* code does not keep this: a FLOAT set to 1e31 or more is printed into 32 bytes and cut.
EveryFloatIsRead ==
  [][Boot("mounted") /\ kept # Unknown =>
       \A k \in Keys : TypeOf[k] = "FLOAT" =>
         2 * data'[k] \in 2 * kept[k] - Printed .. 2 * kept[k] + Printed]_settingsVars

\* "Reload settings.conf from SD, discarding unsaved edits": after a load that ran alone, memory is
\* what a boot would read.  The code does not keep this: load() parses over memory.
LoadDiscardsEdits ==
  [][ParseDone /\ call["shell"].alone =>
       data' = parse_file(Default, call["shell"].lines)]_settingsVars

\* A restart in the middle of a save leaves the old text or the new.  The code does not keep
\* this: fopen() has truncated the file.
SaveIsAtomic == file = Empty => \E t \in Tasks : call[t].op = "write"
=============================================================================
