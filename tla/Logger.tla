------------------------------- MODULE Logger -------------------------------
(***************************************************************************)
(* The retained log of lib/Logger and the card stream of lib/SDCard it is  *)
(* saved through.                                                          *)
(*                                                                         *)
(* A ring in PSRAM keeps every accepted log record.  Two cursors walk it:  *)
(* flush_logs(), called by the routine task, puts the records on the radio *)
(* chunk by chunk and releases nothing; flush_logs_to(), called through    *)
(* flush_to_sd() by the shell, by the TELEMETRY state and by the shutdown  *)
(* handler, writes them to a file and releases them.  consumer_busy_       *)
(* admits one walker at a time; the mutex is dropped while a chunk is sent *)
(* or a fragment is written.                                               *)
(*                                                                         *)
(* One ring cell stands for a stored header or for one radio chunk of a    *)
(* payload.  Each section under the mutex is one step; a wait of 2 ms that *)
(* runs out is the branch that gives up.                                   *)
(***************************************************************************)
EXTENDS Integers, FiniteSets, Sequences

CONSTANTS Capacity,     \* storage_capacity_, in cells
          Wrap,         \* 2^32, in cells: where the byte counters wrap
          MaxLength,    \* longest payload, in chunks
          MaxRecords,   \* bound on the records accepted
          MaxPackets,   \* max_chunks_per_flush_ * block_size_
          Savers,       \* tasks that call flush_to_sd()
          Shell         \* the saver that also runs print_log

ASSUME LoggerAssumption ==
    /\ Capacity \in Nat /\ MaxLength \in Nat \ {0} /\ MaxLength + 1 <= Capacity
    /\ Wrap \in Nat /\ Wrap > Capacity
    /\ MaxRecords \in Nat /\ MaxPackets \in Nat
    /\ Shell \in Savers

VARIABLES ring,      \* storage_
          cur,       \* write_offset_, read_offset_, used_bytes_, send_offset_, pending_send_bytes_
          snd,       \* send_record_active_, send_header_, send_record_bytes_done_
          busy,      \* consumer_busy_
          radio,     \* the locals of flush_logs()
          save,      \* the locals of flush_to_sd() and flush_logs_to(), per task
          card,      \* stream_ with its mode; whether the card has a log file
          records,   \* every record accepted so far: where it was put and its length
          released,  \* how many of them an SD flush has released
          stored,    \* the <<record, fragment>> pairs write_stream() has accepted
          aired      \* the last chunk send_fragment() accepted

ringVars == <<ring, cur, records>>
vars == <<ring, cur, snd, busy, radio, save, card, records, released,
          stored, aired>>

-----------------------------------------------------------------------------
NoHeader == [rec |-> 0, len |-> 0]
NoChunk  == [header |-> NoHeader, cell |-> [rec |-> 0, part |-> 0, len |-> 0]]
NoSave   == [pc |-> "idle", left |-> 0, header |-> NoHeader, offset |-> 0, packet |-> 0]

Headers == [rec : 0..MaxRecords, len : 0..MaxLength]
Cells   == [rec : 0..MaxRecords, part : 0..MaxLength, len : 0..MaxLength]
Blank   == [rec |-> 0, part |-> 1, len |-> 0]   \* memory nothing was written to

\* sizeof(StoredLogHeader) + header.length
Size(header) == 1 + header.len
At(offset, n) == (offset + n) % Capacity
Accepted == Len(records)

TypeOK ==
    /\ ring \in [0..(Capacity - 1) -> Cells]
    /\ cur \in [write : 0..(Capacity - 1), read : 0..(Capacity - 1),
                used : 0..Capacity, send : 0..(Capacity - 1),
                pending : 0..(Wrap - 1)]
    /\ snd \in [active : BOOLEAN, header : Headers, done : 0..MaxLength]
    /\ busy \in BOOLEAN
    /\ radio \in [pc : {"idle", "copy", "send", "advance", "end"},
                  packets : 0..MaxPackets,
                  chunk : [header : Headers, cell : Cells]]
    /\ save \in [Savers -> [pc : {"idle", "check", "fopen",
                                  "begin", "snapshot", "record", "fragment",
                                  "release", "end", "close",
                                  "rcheck", "rfopen", "replay"},
                            left : 0..Capacity,
                            header : Headers, offset : 0..(Capacity - 1),
                            packet : 0..(MaxLength + 1)]]
    /\ card \in [stream : {"none", "read", "write"}, logs : BOOLEAN]
    /\ records \in Seq([at : 0..(Capacity - 1), len : 1..MaxLength])
    /\ released \in 0..Accepted
    /\ stored \subseteq (1..MaxRecords) \X (1..MaxLength)

\* The ring is empty; the card may hold the files of earlier boots, which is
\* all a restart leaves.
Init ==
    /\ ring = [i \in 0..(Capacity - 1) |-> Blank]
    /\ cur = [write |-> 0, read |-> 0, used |-> 0, send |-> 0, pending |-> 0]
    /\ snd = [active |-> FALSE, header |-> NoHeader, done |-> 0]
    /\ busy = FALSE
    /\ radio = [pc |-> "idle", packets |-> 0, chunk |-> NoChunk]
    /\ save = [t \in Savers |-> NoSave]
    /\ card \in [stream : {"none"}, logs : BOOLEAN]
    /\ records = <<>> /\ released = 0 /\ stored = {} /\ aired = NoChunk

-----------------------------------------------------------------------------
(* The ring.                                                               *)

\* read_header_at(): what the cell reads as when taken for a header, or
\* NoHeader when it is refused.  A cell that holds no header reads as anything.
read_header_at(offset, available) ==
    LET cell == ring[offset]
        read == IF cell.part = 0
                THEN {[rec |-> cell.rec, len |-> cell.len]}
                ELSE [rec : {0}, len : 0..MaxLength]
    IN  {IF h.len > 0 /\ Size(h) <= available THEN h ELSE NoHeader : h \in read}

\* write_to_ring(), for the header and then the payload of record r.
write_to_ring(r, len) ==
    /\ ring' = [i \in DOMAIN ring |->
                  LET d == (i - cur.write + Capacity) % Capacity IN
                  IF d <= len THEN [rec |-> r, part |-> d,
                                    len |-> IF d = 0 THEN len ELSE 0]
                  ELSE ring[i]]

\* insert_log_impl(), the part after the tests.
insert_log_impl(len) ==
    /\ write_to_ring(Accepted + 1, len)
    /\ cur' = [cur EXCEPT !.write = At(@, 1 + len), !.used = @ + 1 + len,
                          !.pending = (@ + 1 + len) % Wrap]
    /\ records' = Append(records, [at |-> cur.write, len |-> len])
    /\ UNCHANGED <<snd, busy, radio, save, card, released, stored, aired>>

\* Fault: the header is forgotten in the room test.
insert_log_NoHeaderRoom(len) ==
    Accepted < MaxRecords /\ Capacity - cur.used >= len /\ insert_log_impl(len)

\* insert_log(), insert_logf(): any task.  A full ring rejects the new record.
insert_log(len) ==
    Accepted < MaxRecords /\ Capacity - cur.used >= 1 + len /\ insert_log_impl(len)

\* begin_consumer(): one walker at a time.
begin_consumer == ~busy /\ busy' = TRUE
end_consumer   == busy' = FALSE

-----------------------------------------------------------------------------
(* flush_logs(): the routine task puts the pending records on the radio.   *)

flush_logs ==
    /\ radio.pc = "idle"
    /\ begin_consumer
    /\ radio' = [radio EXCEPT !.pc = "copy", !.packets = 0]
    /\ UNCHANGED <<ringVars, snd, save, card, released, stored, aired>>

\* Leaving the loop: the limit, nothing pending, or the mutex not had in 2 ms.
FlushBreak ==
    /\ radio.pc = "copy"
    /\ radio' = [radio EXCEPT !.pc = "end"]
    /\ UNCHANGED <<ringVars, snd, busy, save, card, released, stored, aired>>

\* Copy the next chunk, reading a header only when no record is under way.
FlushCopy ==
    /\ radio.pc = "copy" /\ radio.packets < MaxPackets /\ cur.pending # 0
    /\ \E h \in IF snd.active THEN {snd.header}
                ELSE read_header_at(cur.send, cur.pending) :
         IF h = NoHeader
         THEN radio' = [radio EXCEPT !.pc = "end"] /\ UNCHANGED snd
         ELSE LET done == IF snd.active THEN snd.done ELSE 0 IN
              /\ snd' = [active |-> TRUE, header |-> h, done |-> done]
              /\ radio' = [radio EXCEPT !.pc = "send",
                             !.chunk = [header |-> h,
                                        cell |-> ring[At(cur.send, 1 + done)]]]
    /\ UNCHANGED <<ringVars, busy, save, card, released, stored, aired>>

SendChunk(refused) ==
    /\ radio.pc = "send"
    /\ \/ aired' = radio.chunk /\ radio' = [radio EXCEPT !.pc = "advance", !.chunk = NoChunk]
       \/ UNCHANGED aired /\ radio' = [radio EXCEPT !.pc = refused, !.chunk = NoChunk]
    /\ UNCHANGED <<ringVars, snd, busy, save, card, released, stored>>

\* Fault: a refused frame returns without end_consumer().
FlushSend_Returns == SendChunk("idle")

\* reserve_sequence() and send_fragment(), with the mutex dropped.  A rejected
\* frame keeps the record cursor unchanged for the next call.
FlushSend == SendChunk("end")

FlushAdvance ==
    /\ radio.pc = "advance"
    /\ radio' = [radio EXCEPT !.pc = IF snd.active THEN "copy" ELSE "end",
                              !.packets = @ + 1]
    /\ IF ~snd.active THEN UNCHANGED <<snd, cur>>
       ELSE IF snd.done + 1 >= snd.header.len
       THEN /\ snd' = [active |-> FALSE, header |-> NoHeader, done |-> 0]
            /\ cur' = [cur EXCEPT !.send = At(@, Size(snd.header)),
                                  !.pending = (@ - Size(snd.header)) % Wrap]
       ELSE snd' = [snd EXCEPT !.done = @ + 1] /\ UNCHANGED cur
    /\ UNCHANGED <<ring, records, busy, save, card, released, stored, aired>>

FlushEnd ==
    /\ radio.pc = "end"
    /\ end_consumer
    /\ radio' = [radio EXCEPT !.pc = "idle"]
    /\ UNCHANGED <<ringVars, snd, save, card, released, stored, aired>>

-----------------------------------------------------------------------------
(* The card stream: one FILE* for the whole firmware, under no lock.       *)

Goto(t, pc) == save' = [save EXCEPT ![t].pc = pc]
Return(t)   == save' = [save EXCEPT ![t] = NoSave]

logVars == <<ringVars, snd, radio, released, stored, aired>>

\* open_write_stream(), open_read_stream(), the test: refused while any stream
\* is open, or when make_path() finds the card not mounted: USBMassStorage may
\* have given it to the host.
OpenCheck(t) ==
    /\ save[t].pc \in {"check", "rcheck"}
    /\ \/ /\ card.stream = "none"
          /\ Goto(t, IF save[t].pc = "check" THEN "fopen" ELSE "rfopen")
       \/ Return(t)
    /\ UNCHANGED <<logVars, busy, card>>

\* The same two, the fopen(): its result, null included, replaces stream_.
Fopen(t) ==
    /\ save[t].pc \in {"fopen", "rfopen"}
    /\ \/ /\ save[t].pc = "fopen"
          /\ card' = [stream |-> "write", logs |-> TRUE]
          /\ Goto(t, "begin")
       \/ /\ save[t].pc = "rfopen" /\ card.logs
          /\ card' = [card EXCEPT !.stream = "read"]
          /\ Goto(t, "replay")
       \/ card' = [card EXCEPT !.stream = "none"] /\ Return(t)
    /\ UNCHANGED <<logVars, busy>>

\* close_stream(), at the end of flush_to_sd() and of print_log: whatever stream
\* is open, by whoever.
close_stream(t) ==
    /\ save[t].pc \in {"close", "replay"}
    /\ card' = [card EXCEPT !.stream = "none"]
    /\ Return(t)
    /\ UNCHANGED <<logVars, busy>>

\* delete_log, a shell command: the last log file goes.
remove_file ==
    /\ save[Shell].pc = "idle"
    /\ card.logs /\ card.stream = "none"
    /\ card' = [card EXCEPT !.logs = FALSE]
    /\ UNCHANGED <<logVars, busy, save>>

-----------------------------------------------------------------------------
(* flush_to_sd(): name a file, open it, write the ring to it.              *)

\* A new file, whose name make_log_filename() always finds, or an append to the
\* last one, which find_latest_log_file() may not.
flush_to_sd(t) ==
    /\ save[t].pc = "idle"
    /\ Goto(t, "check")
    /\ UNCHANGED <<logVars, busy, card>>

\* flush_logs_to(), its entry: a busy consumer, or a mutex not had, writes nothing.
flush_logs_to(t) ==
    /\ save[t].pc = "begin"
    /\ \/ begin_consumer /\ Goto(t, "snapshot")
       \/ UNCHANGED busy /\ Goto(t, "close")
    /\ UNCHANGED <<logVars, card>>

\* Only what was retained when the flush began is saved.
SaveSnapshot(t) ==
    /\ save[t].pc = "snapshot"
    /\ save' = [save EXCEPT ![t].pc = "record", ![t].left = cur.used]
    /\ UNCHANGED <<logVars, busy, card>>

SaveRecord(t) ==
    /\ save[t].pc = "record"
    /\ IF save[t].left = 0 THEN Goto(t, "end")
       ELSE \E h \in read_header_at(cur.read, save[t].left) :
              save' = [save EXCEPT ![t].pc = IF h = NoHeader THEN "end" ELSE "fragment",
                                   ![t].header = h, ![t].offset = cur.read,
                                   ![t].packet = 1]
    /\ UNCHANGED <<logVars, busy, card>>

\* One fragment: copied under the mutex, encoded and given to write_stream()
\* without it.  A fragment that is not accepted ends the flush.
SaveFragment(t) ==
    LET s == save[t]
        cell == ring[At(s.offset, s.packet)] IN
    /\ s.pc = "fragment"
    /\ \/ /\ card.stream = "write"
          /\ stored' = stored \cup {<<cell.rec, cell.part>>}
          /\ save' = [save EXCEPT ![t].packet = @ + 1,
                        ![t].pc = IF s.packet = s.header.len THEN "release" ELSE @]
       \/ UNCHANGED stored /\ Goto(t, "end")
    /\ UNCHANGED <<ringVars, snd, radio, released, aired, busy, card>>

\* The whole record is stored: both cursors leave it if neither has passed it.
SaveRelease(t) ==
    LET size == Size(save[t].header) IN
    /\ save[t].pc = "release"
    /\ cur' = [cur EXCEPT
         !.send = IF cur.pending = cur.used THEN At(@, size) ELSE @,
         !.pending = IF cur.pending = cur.used THEN (@ - size) % Wrap ELSE @,
         !.read = At(@, size), !.used = @ - size]
    /\ released' = released + 1
    /\ save' = [save EXCEPT ![t].pc = "record", ![t].left = @ - size]
    /\ UNCHANGED <<ring, records, snd, radio, stored, aired, busy, card>>

SaveEnd(t) ==
    /\ save[t].pc = "end"
    /\ end_consumer
    /\ Goto(t, "close")
    /\ UNCHANGED <<logVars, card>>

-----------------------------------------------------------------------------
(* print_log: the shell replays a file, holding the stream meanwhile.      *)

\* The frames read go out with send_encoded(); the file's end, or a frame that is
\* short, broken or refused, leads to close_stream().
print_log ==
    /\ save[Shell].pc = "idle" /\ card.logs
    /\ Goto(Shell, "rcheck")
    /\ UNCHANGED <<logVars, busy, card>>

-----------------------------------------------------------------------------
Routine == flush_logs \/ FlushBreak \/ FlushCopy \/ FlushSend \/ FlushAdvance \/ FlushEnd

SaverStep(t) ==
    \/ OpenCheck(t) \/ Fopen(t) \/ close_stream(t)
    \/ flush_logs_to(t)
    \/ SaveSnapshot(t) \/ SaveRecord(t) \/ SaveFragment(t) \/ SaveRelease(t)
    \/ SaveEnd(t)

Next ==
    \/ \E len \in 1..MaxLength : insert_log(len)
    \/ Routine
    \/ \E t \in Savers : flush_to_sd(t) \/ SaverStep(t)
    \/ print_log \/ remove_file

Spec == Init /\ [][Next]_vars

-----------------------------------------------------------------------------
(* What the log promises.                                                  *)

\* Where the retained bytes begin: the oldest record not released.
OldestAt == IF released < Accepted THEN records[released + 1].at ELSE cur.write

\* The records above `released` are intact in the ring, back to back from the
\* read cursor to the write cursor.
RetainedIntact ==
    /\ cur.read = OldestAt
    /\ \A r \in (released + 1)..Accepted :
         LET rec == records[r] IN
         /\ \A part \in 0..rec.len :
              ring[At(rec.at, part)].rec = r /\ ring[At(rec.at, part)].part = part
         /\ At(rec.at, 1 + rec.len) =
              IF r < Accepted THEN records[r + 1].at ELSE cur.write
    /\ cur.used = 0 <=> released = Accepted

\* "release their PSRAM only after each complete message is stored": at every
\* moment each accepted record is whole in the ring, in order, or each of its
\* fragments has been accepted by the card stream; whoever saves, whatever
\* fails on the way, and however the sends and inserts come between.
RetainedUntilStored ==
    /\ RetainedIntact
    /\ \A r \in 1..released : \A part \in 1..records[r].len : <<r, part>> \in stored

RadioWalks == radio.pc # "idle"
SaverWalks(t) == save[t].pc \in {"snapshot", "record", "fragment", "release", "end"}

\* "Only one consumer (ESP-NOW or SD) may walk the ring at a time", and
\* consumer_busy_ is set exactly while one does: every early exit gives it back,
\* or no log would be sent or saved again until a restart.
OneConsumer ==
    LET walkers == {t \in Savers : SaverWalks(t)} IN
    Cardinality(walkers) + (IF RadioWalks THEN 1 ELSE 0) = IF busy THEN 1 ELSE 0

\* "If the oldest retained record has not gone through ESP-NOW yet, the SD flush
\* removes it from both cursor ranges": a chunk that goes out under a record's
\* header carries that record's bytes.  The code does not keep this.
ChunkMatchesHeader == aired.header.rec = aired.cell.rec
=============================================================================
