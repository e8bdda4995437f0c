----------------------- MODULE LoggerAndTerminalProofs ------------------------
(***************************************************************************)
(* Proofs about Logger, for every ring capacity, every record length and   *)
(* any number of tasks that save, and about Terminal, for any number of    *)
(* slots and origins and any length of the queue and the buffers: the log  *)
(* and the terminals its lines are captured for.  The components share no  *)
(* state here; the second half is about Terminal.                          *)
(***************************************************************************)
EXTENDS Logger, Terminal, FiniteSetTheorems, SequenceTheorems, WellFoundedInduction,
        NaturalsInduction, TLAPS

-----------------------------------------------------------------------------
(* Logger.  The ring is walked by offsets from its read cursor: the        *)
(* retained records tile the bytes from there to the write cursor, so what *)
(* an insertion writes is never one of theirs, and a walk that holds       *)
(* consumer_busy_ meets the same oldest record until it releases it.       *)

(* The inductive invariant.                                                *)

Offsets == 0 .. Capacity - 1
Records == [at : Offsets, len : 1 .. MaxLength]

CursorsTyped ==
  cur \in [write : Offsets, read : Offsets, used : 0 .. Capacity, send : Offsets,
           pending : 0 .. Wrap - 1]
RingTyped ==
  /\ ring \in [Offsets -> Cells]
  /\ records \in Seq(Records) /\ Accepted <= MaxRecords
RadioTyped ==
  /\ snd \in [active : BOOLEAN, header : Headers, done : 0 .. MaxLength]
  /\ radio \in [pc : {"idle", "copy", "send", "advance", "end"},
                packets : 0 .. MaxPackets, chunk : [header : Headers, cell : Cells]]
  /\ radio.pc \in {"send", "advance"} => radio.packets < MaxPackets
SavePlaces == {"idle", "check", "fopen", "begin", "snapshot", "record", "fragment",
               "release", "end", "close", "rcheck", "rfopen", "replay"}
Locals == [pc : SavePlaces, left : 0 .. Capacity, header : Headers, offset : Offsets,
           packet : 0 .. MaxLength + 1]
SaveTyped == save \in [Savers -> Locals]
CardTyped ==
  /\ busy \in BOOLEAN
  /\ card \in [stream : {"none", "read", "write"}, logs : BOOLEAN]
  /\ stored \subseteq (1 .. MaxRecords) \X (1 .. MaxLength)

\* consumer_busy_ and the walkers.
Walkers ==
  /\ RadioWalks => busy
  /\ \A t \in Savers : SaverWalks(t) => busy /\ ~RadioWalks
  /\ \A t, u \in Savers : SaverWalks(t) /\ SaverWalks(u) => t = u
  /\ busy => RadioWalks \/ \E t \in Savers : SaverWalks(t)

\* The cell n after the cell a, and how far the cell b is after the cell a.
Fold(a, n) == IF a + n < Capacity THEN a + n ELSE a + n - Capacity
Gap(a, b)  == IF b >= a THEN b - a ELSE b - a + Capacity

Retained  == (released + 1) .. Accepted
Room(r)   == 1 + records[r].len
Offset(r) == Gap(cur.read, records[r].at)

\* The retained records tile the used bytes, from the read cursor to the write cursor.
Tiled ==
  /\ released \in 0 .. Accepted
  /\ cur.write = Fold(cur.read, cur.used)
  /\ cur.used = 0 <=> released = Accepted
  /\ \A r \in Retained :
       /\ r = released + 1 => Offset(r) = 0
       /\ Offset(r) + Room(r) <= cur.used
       /\ r < Accepted => Offset(r + 1) = Offset(r) + Room(r)
       /\ r = Accepted => Offset(r) + Room(r) = cur.used
  /\ \A r, q \in Retained : r < q => Offset(r) + Room(r) <= Offset(q)

\* Each retained record is whole in its cells, header first.
Whole ==
  \A r \in Retained :
    /\ ring[records[r].at].len = records[r].len
    /\ \A part \in 0 .. records[r].len :
         /\ ring[Fold(records[r].at, part)].rec = r
         /\ ring[Fold(records[r].at, part)].part = part

\* Each released record has been stored to its last fragment.
Saved == \A r \in 1 .. released : \A part \in 1 .. records[r].len : <<r, part>> \in stored

\* Where a walk over the ring for the card stands: it looks at no more than is used, and
\* the record in hand is the oldest retained one, stored up to the fragment before `packet`.
InHand(t) ==
  LET s == save[t] IN
  /\ released < Accepted
  /\ s.header = [rec |-> released + 1, len |-> records[released + 1].len]
  /\ s.offset = cur.read /\ s.left >= Size(s.header) /\ s.packet >= 1
  /\ \A part \in 1 .. (s.packet - 1) : <<released + 1, part>> \in stored
WalksWell(t) ==
  /\ save[t].pc \in {"record", "fragment", "release"} => save[t].left <= cur.used
  /\ save[t].pc = "fragment" => InHand(t) /\ save[t].packet <= save[t].header.len
  /\ save[t].pc = "release" => InHand(t) /\ save[t].packet = save[t].header.len + 1
Walked == \A t \in Savers : WalksWell(t)

Typed == CursorsTyped /\ RingTyped /\ RadioTyped /\ SaveTyped /\ CardTyped
IInv  == Typed /\ Walkers /\ Tiled /\ Whole /\ Saved /\ Walked

-----------------------------------------------------------------------------
(* Offsets that wrap.                                                      *)

\* The quotient and the remainder of an integer.
LEMMA DivMod ==
  ASSUME NEW x \in Int, NEW d \in Nat \ {0}
  PROVE  x \div d \in Int /\ (x % d) \in 0 .. d - 1 /\ x = d * (x \div d) + (x % d)
BY Z3

\* A number less than two turns out wraps by one subtraction.
LEMMA ModOfOneTurn ==
  ASSUME NEW d \in Nat \ {0}, NEW x \in 0 .. 2 * d - 1
  PROVE  x % d = IF x < d THEN x ELSE x - d
<1> DEFINE q == x \div d  m == x % d
<1>1. q \in Int /\ m \in 0 .. d - 1 /\ x = d * q + m
  BY DivMod
<1> HIDE DEF q, m
<1>2. CASE q >= 2
  BY <1>1, <1>2, d * q >= 2 * d
<1>3. CASE q <= -1
  BY <1>1, <1>3, d * q <= -d
<1>4. CASE q = 0
  BY <1>1, <1>4 DEF m
<1>5. CASE q = 1
  BY <1>1, <1>5 DEF m
<1> QED
  BY <1>1, <1>2, <1>3, <1>4, <1>5

LEMMA ConstantsTyped ==
  /\ Capacity \in Nat \ {0} /\ Wrap \in Nat \ {0} /\ MaxLength \in Nat \ {0} /\ MaxLength < Capacity
  /\ MaxRecords \in Nat /\ MaxPackets \in Nat /\ Shell \in Savers
BY LoggerAssumption

\* (offset + n) % storage_capacity_ is Fold, for n up to a whole turn.
LEMMA AtFolds ==
  ASSUME NEW a \in Offsets, NEW n \in 0 .. Capacity
  PROVE  At(a, n) = Fold(a, n) /\ Fold(a, n) \in Offsets
<1>1. a + n \in 0 .. 2 * Capacity - 1
  BY ConstantsTyped DEF Offsets
<1>2. At(a, n) = Fold(a, n)
  <2> DEFINE x == a + n
  <2> HIDE DEF x
  <2>1. x % Capacity = IF x < Capacity THEN x ELSE x - Capacity
    BY <1>1, ConstantsTyped, ModOfOneTurn DEF x
  <2>2. At(a, n) = x % Capacity
    BY DEF At, x
  <2>3. Fold(a, n) = IF x < Capacity THEN x ELSE x - Capacity
    BY ConstantsTyped DEF Fold, x, Offsets
  <2> QED
    BY <2>1, <2>2, <2>3
<1> QED
  BY <1>2, ConstantsTyped DEF Fold, Offsets

\* Wherever a walk has got to, it reads inside the ring.
LEMMA AtTyped ==
  ASSUME NEW a \in Offsets, NEW n \in Nat
  PROVE  At(a, n) \in Offsets
<1>1. a + n \in Int
  BY ConstantsTyped DEF Offsets
<1> QED
  BY <1>1, ConstantsTyped, DivMod DEF At, Offsets

\* The byte counters wrap.
LEMMA WrapTyped ==
  ASSUME NEW x \in Int
  PROVE  x % Wrap \in 0 .. Wrap - 1
BY ConstantsTyped, DivMod

\* What read_header_at() makes of a cell.
LEMMA HeaderRead ==
  ASSUME NEW offset \in Offsets, NEW available, RingTyped,
         NEW h \in read_header_at(offset, available)
  PROVE  /\ h \in Headers
         /\ h # NoHeader => h.len >= 1 /\ Size(h) <= available
         /\ ring[offset].part = 0 /\ h # NoHeader
              => h = [rec |-> ring[offset].rec, len |-> ring[offset].len]
<1>1. ring[offset] \in Cells
  BY DEF RingTyped
<1>2. NoHeader \in Headers
  BY ConstantsTyped DEF NoHeader, Headers
<1>3. [rec : {0}, len : 0 .. MaxLength] \subseteq Headers
  BY ConstantsTyped DEF Headers
<1>4. [rec |-> ring[offset].rec, len |-> ring[offset].len] \in Headers
  BY <1>1 DEF Cells, Headers
<1>5. PICK g \in Headers :
        /\ ring[offset].part = 0 => g = [rec |-> ring[offset].rec, len |-> ring[offset].len]
        /\ h = IF g.len > 0 /\ Size(g) <= available THEN g ELSE NoHeader
  BY <1>3, <1>4 DEF read_header_at
<1> QED
  BY <1>2, <1>5 DEF Headers

-----------------------------------------------------------------------------
(* Steps.                                                                  *)

\* The disjuncts of Next.
LEMMA NextSteps ==
  ASSUME Next
  PROVE  \/ (\E len \in 1 .. MaxLength : insert_log(len))
         \/ flush_logs
         \/ FlushBreak
         \/ FlushCopy
         \/ FlushSend
         \/ FlushAdvance
         \/ FlushEnd
         \/ (\E t \in Savers : flush_to_sd(t))
         \/ (\E t \in Savers : OpenCheck(t))
         \/ (\E t \in Savers : Fopen(t))
         \/ (\E t \in Savers : close_stream(t))
         \/ (\E t \in Savers : flush_logs_to(t))
         \/ (\E t \in Savers : SaveSnapshot(t))
         \/ (\E t \in Savers : SaveRecord(t))
         \/ (\E t \in Savers : SaveFragment(t))
         \/ (\E t \in Savers : SaveRelease(t))
         \/ (\E t \in Savers : SaveEnd(t))
         \/ print_log
         \/ remove_file
BY DEF Next, Routine, SaverStep

-----------------------------------------------------------------------------
(* The variables keep their types.                                         *)

\* What a saver may set its locals to.
LEMMA NoSaveTyped == NoSave \in Locals
BY ConstantsTyped DEF NoSave, NoHeader, Locals, Headers, SavePlaces, Offsets

LEMMA LocalsSet ==
  ASSUME SaveTyped, NEW t \in Savers, NEW r \in Locals, save' = [save EXCEPT ![t] = r]
  PROVE  SaveTyped' /\ save'[t] = r /\ \A u \in Savers \ {t} : save'[u] = save[u]
BY DEF SaveTyped

LEMMA Goes ==
  ASSUME SaveTyped, NEW t \in Savers, NEW pc \in SavePlaces, Goto(t, pc)
  PROVE  /\ SaveTyped' /\ save'[t].pc = pc
         /\ \A u \in Savers \ {t} : save'[u] = save[u]
         /\ UNCHANGED <<save[t].left, save[t].header, save[t].offset, save[t].packet>>
<1>1. [save[t] EXCEPT !.pc = pc] \in Locals
  BY DEF SaveTyped, Locals
<1>2. save' = [save EXCEPT ![t] = [save[t] EXCEPT !.pc = pc]]
  BY DEF Goto
<1>3. save[t] \in Locals
  BY DEF SaveTyped
<1>4. SaveTyped' /\ save'[t] = [save[t] EXCEPT !.pc = pc] /\ \A u \in Savers \ {t} : save'[u] = save[u]
  BY <1>1, <1>2, LocalsSet
<1> QED
  BY <1>3, <1>4 DEF Locals

LEMMA Returns ==
  ASSUME SaveTyped, NEW t \in Savers, Return(t)
  PROVE  SaveTyped' /\ save'[t] = NoSave /\ \A u \in Savers \ {t} : save'[u] = save[u]
<1>1. save' = [save EXCEPT ![t] = NoSave]
  BY DEF Return
<1> QED
  BY <1>1, NoSaveTyped, LocalsSet

\* A saver that walks, or does not walk, before and after its step changes nothing in who walks.
LEMMA WalksOn ==
  ASSUME Walkers, NEW t \in Savers, \A u \in Savers \ {t} : save'[u] = save[u],
         UNCHANGED <<busy, radio>>, SaverWalks(t)' <=> SaverWalks(t)
  PROVE  Walkers'
<1>1. \A u \in Savers : SaverWalks(u)' <=> SaverWalks(u)
  BY DEF SaverWalks
<1>2. (RadioWalks' <=> RadioWalks) /\ (busy' <=> busy)
  BY DEF RadioWalks
<1> QED
  BY <1>1, <1>2 DEF Walkers

\* One walker at a time, and consumer_busy_ tells whether there is one.
LEMMA WalkersStep ==
  ASSUME RadioTyped, SaveTyped, Walkers, Next
  PROVE  Walkers'
<1> USE DEF SaveTyped, Walkers, RadioWalks, SaverWalks, ringVars, logVars
<1>1. CASE \E len \in 1 .. MaxLength : insert_log(len)
  BY <1>1 DEF insert_log, insert_log_impl
<1>2. CASE flush_logs
  BY <1>2 DEF flush_logs, begin_consumer
<1>3. CASE FlushBreak
  BY <1>3 DEF FlushBreak
<1>4. CASE FlushCopy
  <2>1. radio.pc = "copy" /\ radio'.pc \in {"send", "end"}
    BY <1>4 DEF FlushCopy, RadioTyped
  <2> QED
    BY <1>4, <2>1 DEF FlushCopy
<1>5. CASE FlushSend
  <2>1. radio.pc = "send" /\ radio'.pc \in {"advance", "end"}
    BY <1>5 DEF FlushSend, SendChunk, RadioTyped
  <2> QED
    BY <1>5, <2>1 DEF FlushSend, SendChunk
<1>6. CASE FlushAdvance
  BY <1>6 DEF FlushAdvance
<1>7. CASE FlushEnd
  BY <1>7 DEF FlushEnd, end_consumer
<1>8. CASE \E t \in Savers : flush_to_sd(t)
  <2> PICK t \in Savers : flush_to_sd(t)
    BY <1>8
  <2>1. /\ SaverWalks(t)' <=> SaverWalks(t)
        /\ \A u \in Savers \ {t} : save'[u] = save[u]
    BY Goes DEF flush_to_sd, SaverWalks, SavePlaces
  <2>2. UNCHANGED <<busy, radio>>
    BY DEF flush_to_sd, logVars
  <2> QED
    BY <2>1, <2>2, WalksOn
<1>9. CASE \E t \in Savers : OpenCheck(t)
  <2> PICK t \in Savers : OpenCheck(t)
    BY <1>9
  <2>1. /\ SaverWalks(t)' <=> SaverWalks(t)
        /\ \A u \in Savers \ {t} : save'[u] = save[u]
    BY Goes, Returns DEF OpenCheck, SaverWalks, SavePlaces, NoSave
  <2>2. UNCHANGED <<busy, radio>>
    BY DEF OpenCheck, logVars
  <2> QED
    BY <2>1, <2>2, WalksOn
<1>10. CASE \E t \in Savers : Fopen(t)
  <2> PICK t \in Savers : Fopen(t)
    BY <1>10
  <2>1. /\ SaverWalks(t)' <=> SaverWalks(t)
        /\ \A u \in Savers \ {t} : save'[u] = save[u]
    BY Goes, Returns DEF Fopen, SaverWalks, SavePlaces, NoSave
  <2>2. UNCHANGED <<busy, radio>>
    BY DEF Fopen, logVars
  <2> QED
    BY <2>1, <2>2, WalksOn
<1>11. CASE \E t \in Savers : close_stream(t)
  <2> PICK t \in Savers : close_stream(t)
    BY <1>11
  <2>1. /\ SaverWalks(t)' <=> SaverWalks(t)
        /\ \A u \in Savers \ {t} : save'[u] = save[u]
    BY Returns DEF close_stream, SaverWalks, NoSave
  <2>2. UNCHANGED <<busy, radio>>
    BY DEF close_stream, logVars
  <2> QED
    BY <2>1, <2>2, WalksOn
<1>12. CASE \E t \in Savers : flush_logs_to(t)
  <2> PICK t \in Savers : flush_logs_to(t)
    BY <1>12
  <2>1. CASE UNCHANGED busy /\ Goto(t, "close")
    <3>1. /\ SaverWalks(t)' <=> SaverWalks(t)
          /\ \A u \in Savers \ {t} : save'[u] = save[u]
      BY <2>1, Goes DEF flush_logs_to, SaverWalks, SavePlaces
    <3> QED
      BY <2>1, <3>1, WalksOn DEF flush_logs_to, logVars
  <2>2. CASE begin_consumer /\ Goto(t, "snapshot")
    <3>1. /\ SaverWalks(t)' /\ ~busy /\ busy' = TRUE
          /\ \A u \in Savers \ {t} : save'[u] = save[u]
      BY <2>2, Goes DEF begin_consumer, SaverWalks, SavePlaces
    <3>2. UNCHANGED radio
      BY DEF flush_logs_to, logVars
    <3> QED
      BY <3>1, <3>2
  <2> QED
    BY <2>1, <2>2 DEF flush_logs_to
<1>13. CASE \E t \in Savers : SaveSnapshot(t)
  <2> PICK t \in Savers : SaveSnapshot(t)
    BY <1>13
  <2>1. /\ SaverWalks(t)' <=> SaverWalks(t)
        /\ \A u \in Savers \ {t} : save'[u] = save[u]
    BY SMT DEF SaveSnapshot, SaverWalks, SaveTyped, Locals
  <2>2. UNCHANGED <<busy, radio>>
    BY DEF SaveSnapshot, logVars
  <2> QED
    BY <2>1, <2>2, WalksOn
<1>14. CASE \E t \in Savers : SaveRecord(t)
  <2> PICK t \in Savers : SaveRecord(t)
    BY <1>14
  <2>1. /\ SaverWalks(t)' <=> SaverWalks(t)
        /\ \A u \in Savers \ {t} : save'[u] = save[u]
    <3>1. save[t].pc = "record"
      BY DEF SaveRecord
    <3>2. CASE save[t].left = 0
      BY <3>1, <3>2, Goes DEF SaveRecord, SavePlaces, SaverWalks
    <3>3. CASE save[t].left # 0
      <4>1. save[t] \in Locals
        BY SMTT(30) DEF SaveTyped
      <4>2. PICK h \in read_header_at(cur.read, save[t].left) :
              save' = [save EXCEPT ![t].pc = IF h = NoHeader THEN "end" ELSE "fragment",
                                   ![t].header = h, ![t].offset = cur.read, ![t].packet = 1]
        BY <3>3, Zenon DEF SaveRecord
      <4>3. save'[t].pc \in {"end", "fragment"}
        BY <4>1, <4>2 DEF Locals
      <4>4. \A u \in Savers \ {t} : save'[u] = save[u]
        BY <4>2, SMTT(30)
      <4> QED
        BY <3>1, <4>3, <4>4 DEF SaverWalks
    <3> QED
      BY <3>2, <3>3, SMTT(30)
  <2>2. UNCHANGED <<busy, radio>>
    BY DEF SaveRecord, logVars
  <2> QED
    BY <2>1, <2>2, WalksOn
<1>15. CASE \E t \in Savers : SaveFragment(t)
  <2> PICK t \in Savers : SaveFragment(t)
    BY <1>15
  <2>1. /\ SaverWalks(t)' <=> SaverWalks(t)
        /\ \A u \in Savers \ {t} : save'[u] = save[u]
    <3>1. save[t] \in Locals /\ save[t].pc = "fragment"
      BY DEF SaveTyped, SaveFragment
    <3>2. CASE Goto(t, "end")
      BY <3>1, <3>2, Goes DEF SavePlaces, SaverWalks
    <3>3. CASE save' = [save EXCEPT ![t].packet = @ + 1,
                          ![t].pc = IF save[t].packet = save[t].header.len THEN "release" ELSE @]
      BY <3>1, <3>3 DEF SaverWalks, Locals
    <3> QED
      BY <3>2, <3>3 DEF SaveFragment
  <2>2. UNCHANGED <<busy, radio>>
    BY DEF SaveFragment, logVars
  <2> QED
    BY <2>1, <2>2, WalksOn
<1>16. CASE \E t \in Savers : SaveRelease(t)
  <2> PICK t \in Savers : SaveRelease(t)
    BY <1>16
  <2>1. /\ SaverWalks(t)' <=> SaverWalks(t)
        /\ \A u \in Savers \ {t} : save'[u] = save[u]
    BY SMT DEF SaveRelease, SaverWalks, SaveTyped, Locals
  <2>2. UNCHANGED <<busy, radio>>
    BY DEF SaveRelease, logVars
  <2> QED
    BY <2>1, <2>2, WalksOn
<1>17. CASE \E t \in Savers : SaveEnd(t)
  <2> PICK t \in Savers : SaveEnd(t)
    BY <1>17
  <2>1. /\ ~SaverWalks(t)' /\ SaverWalks(t) /\ busy' = FALSE
        /\ \A u \in Savers \ {t} : save'[u] = save[u]
    BY Goes DEF SaveEnd, end_consumer, SaverWalks, SavePlaces
  <2>2. UNCHANGED radio
    BY DEF SaveEnd, logVars
  <2> QED
    BY <2>1, <2>2
<1>18. CASE print_log
  <2>1. /\ SaverWalks(Shell)' <=> SaverWalks(Shell)
        /\ \A u \in Savers \ {Shell} : save'[u] = save[u]
    BY <1>18, Goes, ConstantsTyped DEF print_log, SaverWalks, SavePlaces
  <2>2. UNCHANGED <<busy, radio>>
    BY <1>18 DEF print_log, logVars
  <2> QED
    BY <2>1, <2>2, ConstantsTyped, WalksOn
<1>19. CASE remove_file
  BY <1>19 DEF remove_file
<1> QED
  BY <1>1, <1>2, <1>3, <1>4, <1>5, <1>6, <1>7, <1>8, <1>9, <1>10, <1>11, <1>12,
     <1>13, <1>14, <1>15, <1>16, <1>17, <1>18, <1>19,
     NextSteps

\* The locals of the savers keep their types.
LEMMA SaveStep ==
  ASSUME RingTyped, CursorsTyped, SaveTyped, Walked, Next
  PROVE  SaveTyped'
<1> USE ConstantsTyped DEF SaveTyped, CursorsTyped, ringVars, logVars
<1>1. CASE \E len \in 1 .. MaxLength : insert_log(len)
  BY <1>1 DEF insert_log, insert_log_impl
<1>2. CASE flush_logs
  BY <1>2 DEF flush_logs, begin_consumer
<1>3. CASE FlushBreak
  BY <1>3 DEF FlushBreak
<1>4. CASE FlushCopy
  BY <1>4 DEF FlushCopy
<1>5. CASE FlushSend
  BY <1>5 DEF FlushSend, SendChunk
<1>6. CASE FlushAdvance
  BY <1>6 DEF FlushAdvance
<1>7. CASE FlushEnd
  BY <1>7 DEF FlushEnd, end_consumer
<1>8. CASE \E t \in Savers : flush_to_sd(t)
  <2> PICK t \in Savers : flush_to_sd(t)
    BY <1>8
  <2> QED
    BY Goes DEF flush_to_sd, SavePlaces
<1>9. CASE \E t \in Savers : OpenCheck(t)
  <2> PICK t \in Savers : OpenCheck(t)
    BY <1>9
  <2> QED
    BY Goes, Returns DEF OpenCheck, SavePlaces
<1>10. CASE \E t \in Savers : Fopen(t)
  <2> PICK t \in Savers : Fopen(t)
    BY <1>10
  <2> QED
    BY Goes, Returns DEF Fopen, SavePlaces
<1>11. CASE \E t \in Savers : close_stream(t)
  <2> PICK t \in Savers : close_stream(t)
    BY <1>11
  <2> QED
    BY Returns DEF close_stream
<1>12. CASE \E t \in Savers : flush_logs_to(t)
  <2> PICK t \in Savers : flush_logs_to(t)
    BY <1>12
  <2> QED
    BY Goes DEF flush_logs_to, SavePlaces
<1>13. CASE \E t \in Savers : SaveSnapshot(t)
  <2> PICK t \in Savers : SaveSnapshot(t)
    BY <1>13
  <2>1. save[t] \in Locals /\ cur.used \in 0 .. Capacity
    BY DEF SaveTyped, CursorsTyped
  <2> DEFINE r == [save[t] EXCEPT !.pc = "record", !.left = cur.used]
  <2>2. r \in Locals
    BY <2>1 DEF Locals, SavePlaces
  <2>3. save' = [save EXCEPT ![t] = r]
    BY <2>1 DEF SaveSnapshot, Locals
  <2> QED
    BY <2>2, <2>3, LocalsSet
<1>14. CASE \E t \in Savers : SaveRecord(t)
  <2> PICK t \in Savers : SaveRecord(t)
    BY <1>14
  <2>1. save[t] \in Locals /\ cur.read \in Offsets /\ 1 \in 0 .. MaxLength + 1
    BY ConstantsTyped DEF SaveTyped, CursorsTyped
  <2>2. CASE save[t].left = 0
    BY <2>2, Goes DEF SaveRecord, SavePlaces
  <2>3. CASE save[t].left # 0
    <3>1. PICK h \in read_header_at(cur.read, save[t].left) :
            save' = [save EXCEPT ![t].pc = IF h = NoHeader THEN "end" ELSE "fragment",
                                 ![t].header = h, ![t].offset = cur.read, ![t].packet = 1]
      BY <2>3 DEF SaveRecord
    <3>2. h \in Headers
      BY <2>1, HeaderRead
    <3> DEFINE r == [save[t] EXCEPT !.pc = IF h = NoHeader THEN "end" ELSE "fragment",
                                    !.header = h, !.offset = cur.read, !.packet = 1]
    <3>3. r \in Locals
      BY <2>1, <3>2 DEF Locals, SavePlaces
    <3>4. save' = [save EXCEPT ![t] = r]
      BY <2>1, <3>1 DEF SaveTyped, Locals
    <3> QED
      BY <3>3, <3>4, LocalsSet, SMTT(40)
  <2> QED
    BY <2>2, <2>3
<1>15. CASE \E t \in Savers : SaveFragment(t)
  <2> PICK t \in Savers : SaveFragment(t)
    BY <1>15
  <2>1. CASE Goto(t, "end")
    BY <2>1, Goes DEF SavePlaces
  <2>2. CASE save' = [save EXCEPT ![t].packet = @ + 1,
                        ![t].pc = IF save[t].packet = save[t].header.len THEN "release" ELSE @]
    <3>1. save[t] \in Locals /\ save[t].packet <= save[t].header.len
      BY DEF SaveTyped, Walked, WalksWell, SaveFragment
    <3>2. save[t].packet + 1 \in 0 .. MaxLength + 1
      BY <3>1, ConstantsTyped DEF Locals, Headers
    <3> DEFINE r == [save[t] EXCEPT !.packet = @ + 1,
                       !.pc = IF save[t].packet = save[t].header.len THEN "release" ELSE @]
    <3>3. r \in Locals
      BY <3>1, <3>2 DEF Locals, SavePlaces
    <3>4. save' = [save EXCEPT ![t] = r]
      BY <2>2, <3>1 DEF SaveTyped, Locals
    <3> QED
      BY <3>3, <3>4, LocalsSet
  <2> QED
    BY <2>1, <2>2 DEF SaveFragment
<1>16. CASE \E t \in Savers : SaveRelease(t)
  <2> PICK t \in Savers : SaveRelease(t)
    BY <1>16
  <2>1. save[t] \in Locals /\ save[t].left >= Size(save[t].header)
    BY DEF SaveTyped, Walked, WalksWell, SaveRelease, InHand
  <2>2. save[t].left - Size(save[t].header) \in 0 .. Capacity
    BY <2>1, ConstantsTyped DEF Locals, Headers, Size
  <2> DEFINE r == [save[t] EXCEPT !.pc = "record", !.left = @ - Size(save[t].header)]
  <2>3. r \in Locals
    BY <2>1, <2>2 DEF Locals, SavePlaces
  <2>4. save' = [save EXCEPT ![t] = r]
    BY <2>1 DEF SaveRelease, SaveTyped, Locals
  <2> QED
    BY <2>3, <2>4, LocalsSet
<1>17. CASE \E t \in Savers : SaveEnd(t)
  <2> PICK t \in Savers : SaveEnd(t)
    BY <1>17
  <2> QED
    BY Goes DEF SaveEnd, SavePlaces
<1>18. CASE print_log
  BY <1>18, Goes DEF print_log, SavePlaces
<1>19. CASE remove_file
  BY <1>19 DEF remove_file
<1> QED
  BY <1>1, <1>2, <1>3, <1>4, <1>5, <1>6, <1>7, <1>8, <1>9, <1>10, <1>11, <1>12,
     <1>13, <1>14, <1>15, <1>16, <1>17, <1>18, <1>19,
     NextSteps

\* So do those of flush_logs().
LEMMA RadioStep ==
  ASSUME RingTyped, CursorsTyped, RadioTyped, Next
  PROVE  RadioTyped'
<1> USE ConstantsTyped DEF RadioTyped, CursorsTyped, ringVars, logVars
<1>1. CASE \E len \in 1 .. MaxLength : insert_log(len)
  BY <1>1 DEF insert_log, insert_log_impl
<1>2. CASE flush_logs
  <2>1. 0 \in 0 .. MaxPackets
    OBVIOUS
  <2>2. radio' = [radio EXCEPT !.pc = "copy", !.packets = 0] /\ snd' = snd
    BY <1>2 DEF flush_logs
  <2> QED
    BY <2>1, <2>2
<1>3. CASE FlushBreak
  BY <1>3 DEF FlushBreak
<1>4. CASE FlushCopy
  <2>1. PICK h \in IF snd.active THEN {snd.header} ELSE read_header_at(cur.send, cur.pending) :
          IF h = NoHeader
          THEN radio' = [radio EXCEPT !.pc = "end"] /\ UNCHANGED snd
          ELSE LET done == IF snd.active THEN snd.done ELSE 0 IN
               /\ snd' = [active |-> TRUE, header |-> h, done |-> done]
               /\ radio' = [radio EXCEPT !.pc = "send",
                              !.chunk = [header |-> h, cell |-> ring[At(cur.send, 1 + done)]]]
    BY <1>4 DEF FlushCopy
  <2>2. radio.packets < MaxPackets
    BY <1>4 DEF FlushCopy
  <2>3. h \in Headers
    BY <2>1, HeaderRead
  <2>4. CASE h = NoHeader
    BY <2>1, <2>4
  <2>5. CASE h # NoHeader
    <3> DEFINE done == IF snd.active THEN snd.done ELSE 0
    <3>1. done \in 0 .. MaxLength
      OBVIOUS
    <3>2. At(cur.send, 1 + done) \in Offsets
      BY <3>1, AtTyped, SMTT(30)
    <3>3. ring[At(cur.send, 1 + done)] \in Cells
      BY <3>2 DEF RingTyped
    <3>4. snd' = [active |-> TRUE, header |-> h, done |-> done]
      BY <2>1, <2>5
    <3> DEFINE chunk == [header |-> h, cell |-> ring[At(cur.send, 1 + done)]]
    <3>5. radio' = [radio EXCEPT !.pc = "send", !.chunk = chunk]
      BY <2>1, <2>5
    <3>6. chunk \in [header : Headers, cell : Cells]
      BY <2>3, <3>3
    <3> HIDE DEF chunk, done
    <3> QED
      BY <2>2, <2>3, <3>1, <3>4, <3>5, <3>6
  <2> QED
    BY <2>4, <2>5
<1>5. CASE FlushSend
  <2>1. NoChunk \in [header : Headers, cell : Cells]
    BY DEF NoChunk, NoHeader, Headers, Cells
  <2> QED
    BY <1>5, <2>1 DEF FlushSend, SendChunk
<1>6. CASE FlushAdvance
  <2>1. radio' = [radio EXCEPT !.pc = IF snd.active THEN "copy" ELSE "end", !.packets = @ + 1]
    BY <1>6 DEF FlushAdvance
  <2>2. radio.packets + 1 \in 0 .. MaxPackets
    BY <1>6 DEF FlushAdvance
  <2>3. radio' \in [pc : {"idle", "copy", "send", "advance", "end"},
                    packets : 0 .. MaxPackets, chunk : [header : Headers, cell : Cells]]
        /\ radio'.pc \in {"copy", "end"}
    BY <2>1, <2>2
  <2>4. NoHeader \in Headers
    BY DEF NoHeader, Headers
  <2>5. snd.header.len <= MaxLength
    BY DEF Headers
  <2>6. snd' \in [active : BOOLEAN, header : Headers, done : 0 .. MaxLength]
    <3>1. CASE ~snd.active
      BY <1>6, <3>1 DEF FlushAdvance
    <3>2. CASE snd.active /\ snd.done + 1 >= snd.header.len
      <4>1. snd' = [active |-> FALSE, header |-> NoHeader, done |-> 0] /\ 0 \in 0 .. MaxLength
        BY <1>6, <3>2 DEF FlushAdvance
      <4> QED
        BY <2>4, <4>1
    <3>3. CASE snd.active /\ ~(snd.done + 1 >= snd.header.len)
      <4>1. snd' = [snd EXCEPT !.done = @ + 1]
        BY <1>6, <3>3 DEF FlushAdvance
      <4>2. snd.done + 1 \in 0 .. MaxLength
        BY <2>5, <3>3 DEF Headers
      <4> QED
        BY <4>1, <4>2
    <3> QED
      BY <3>1, <3>2, <3>3
  <2> QED
    BY <2>3, <2>6
<1>7. CASE FlushEnd
  BY <1>7 DEF FlushEnd, end_consumer
<1>8. CASE \E t \in Savers : flush_to_sd(t)
  BY <1>8 DEF flush_to_sd, Goto
<1>9. CASE \E t \in Savers : OpenCheck(t)
  BY <1>9 DEF OpenCheck, Goto, Return, NoSave
<1>10. CASE \E t \in Savers : Fopen(t)
  BY <1>10 DEF Fopen, Goto, Return, NoSave
<1>11. CASE \E t \in Savers : close_stream(t)
  BY <1>11 DEF close_stream, Return, NoSave
<1>12. CASE \E t \in Savers : flush_logs_to(t)
  BY <1>12 DEF flush_logs_to, Goto, begin_consumer
<1>13. CASE \E t \in Savers : SaveSnapshot(t)
  BY <1>13, SMTT(30) DEF SaveSnapshot
<1>14. CASE \E t \in Savers : SaveRecord(t)
  BY <1>14, Zenon DEF SaveRecord, Goto
<1>15. CASE \E t \in Savers : SaveFragment(t)
  BY <1>15 DEF SaveFragment, Goto
<1>16. CASE \E t \in Savers : SaveRelease(t)
  BY <1>16 DEF SaveRelease
<1>17. CASE \E t \in Savers : SaveEnd(t)
  BY <1>17 DEF SaveEnd, Goto, end_consumer
<1>18. CASE print_log
  BY <1>18 DEF print_log, Goto
<1>19. CASE remove_file
  BY <1>19 DEF remove_file
<1> QED
  BY <1>1, <1>2, <1>3, <1>4, <1>5, <1>6, <1>7, <1>8, <1>9, <1>10, <1>11, <1>12,
     <1>13, <1>14, <1>15, <1>16, <1>17, <1>18, <1>19,
     NextSteps

-----------------------------------------------------------------------------
(* The ring.                                                               *)

\* Going round the ring.
LEMMA GapOfFold ==
  ASSUME NEW a \in Offsets, NEW n \in Offsets
  PROVE  Gap(a, Fold(a, n)) = n
BY ConstantsTyped DEF Offsets, Gap, Fold

LEMMA FoldOfGap ==
  ASSUME NEW a \in Offsets, NEW b \in Offsets
  PROVE  Gap(a, b) \in Offsets /\ Fold(a, Gap(a, b)) = b
BY ConstantsTyped DEF Offsets, Gap, Fold

LEMMA GapOfFolds ==
  ASSUME NEW a \in Offsets, NEW m \in Nat, NEW n \in Offsets, m <= n
  PROVE  Gap(Fold(a, m), Fold(a, n)) = n - m
BY ConstantsTyped DEF Offsets, Gap, Fold

LEMMA FoldOfFold ==
  ASSUME NEW a \in Offsets, NEW m \in Nat, NEW n \in Nat, m + n <= Capacity
  PROVE  Fold(Fold(a, m), n) = Fold(a, m + n) /\ Fold(a, m) \in Offsets
BY ConstantsTyped DEF Offsets, Fold

\* What lies among the first `used` cells is out of reach of what follows them.
LEMMA FarFromWrite ==
  ASSUME NEW a \in Offsets, NEW used \in Nat, NEW n \in Nat, NEW len \in Nat,
         used + 1 + len <= Capacity, n < used
  PROVE  Gap(Fold(a, used), Fold(a, n)) > len /\ Fold(a, n) \in Offsets
BY ConstantsTyped DEF Offsets, Gap, Fold

\* A retained record is one of those accepted; the cells of the oldest begin at the read
\* cursor.
LEMMA RetainedTyped ==
  ASSUME RingTyped, CursorsTyped, Tiled, NEW r \in Retained
  PROVE  /\ r \in 1 .. Accepted /\ records[r] \in Records
         /\ Room(r) \in 2 .. MaxLength + 1 /\ Offset(r) \in Offsets
         /\ Fold(cur.read, Offset(r)) = records[r].at
         /\ r = released + 1 => records[r].at = cur.read
<1>1. r \in 1 .. Accepted /\ records[r] \in Records
  BY DEF Retained, RingTyped, Tiled, Accepted
<1>2. records[r].at \in Offsets /\ Room(r) \in 2 .. MaxLength + 1 /\ cur.read \in Offsets
  BY <1>1, ConstantsTyped DEF Records, Room, CursorsTyped
<1>3. Offset(r) \in Offsets /\ Fold(cur.read, Offset(r)) = records[r].at
  BY <1>2, FoldOfGap DEF Offset
<1>4. r = released + 1 => records[r].at = cur.read
  <2> SUFFICES ASSUME r = released + 1 PROVE records[r].at = cur.read
    OBVIOUS
  <2>1. Offset(r) = 0
    BY DEF Tiled
  <2> QED
    BY <1>2, <1>3, <2>1, ConstantsTyped DEF Fold, Offsets
<1> QED
  BY <1>1, <1>2, <1>3, <1>4

\* The cells of a retained record, as the walk addresses them.
LEMMA CellsOf ==
  ASSUME RingTyped, CursorsTyped, Tiled, Whole, NEW r \in Retained, NEW part \in 0 .. records[r].len
  PROVE  /\ At(records[r].at, part) = Fold(records[r].at, part)
         /\ Fold(records[r].at, part) \in Offsets
         /\ ring[At(records[r].at, part)].rec = r /\ ring[At(records[r].at, part)].part = part
<1>1. records[r].at \in Offsets /\ part \in 0 .. Capacity
  BY RetainedTyped, ConstantsTyped DEF Records
<1> QED
  BY <1>1, AtFolds DEF Whole

\* The fragment a walk stores is the next one of the oldest retained record.
LEMMA FragmentRead ==
  ASSUME RingTyped, CursorsTyped, Tiled, Whole, Walked, NEW t \in Savers, save[t].pc = "fragment",
         save[t].packet \in Nat
  PROVE  /\ released + 1 \in Retained
         /\ save[t].packet \in 1 .. records[released + 1].len
         /\ ring[At(save[t].offset, save[t].packet)].rec = released + 1
         /\ ring[At(save[t].offset, save[t].packet)].part = save[t].packet
<1>1. InHand(t) /\ save[t].packet <= save[t].header.len
  BY DEF Walked, WalksWell
<1>2. released + 1 \in Retained
  BY <1>1 DEF InHand, Retained, Tiled, Accepted, RingTyped
<1>3. save[t].header.len = records[released + 1].len /\ save[t].packet >= 1
      /\ save[t].offset = cur.read
  BY <1>1 DEF InHand
<1>4. records[released + 1].at = cur.read /\ records[released + 1].len \in Nat
  BY <1>2, RetainedTyped DEF Records
<1>5. save[t].packet \in 1 .. records[released + 1].len
  BY <1>1, <1>3, <1>4
<1> QED
  BY <1>2, <1>3, <1>4, <1>5, CellsOf


\* So do the stream and what was stored.
LEMMA CardStep ==
  ASSUME RingTyped, CursorsTyped, SaveTyped, CardTyped, Whole, Tiled, Walked, Next
  PROVE  CardTyped'
<1> USE ConstantsTyped DEF CardTyped, ringVars, logVars
<1>1. CASE \E len \in 1 .. MaxLength : insert_log(len)
  BY <1>1 DEF insert_log, insert_log_impl
<1>2. CASE flush_logs
  BY <1>2 DEF flush_logs, begin_consumer
<1>3. CASE FlushBreak
  BY <1>3 DEF FlushBreak
<1>4. CASE FlushCopy
  BY <1>4 DEF FlushCopy
<1>5. CASE FlushSend
  BY <1>5 DEF FlushSend, SendChunk
<1>6. CASE FlushAdvance
  BY <1>6 DEF FlushAdvance
<1>7. CASE FlushEnd
  BY <1>7 DEF FlushEnd, end_consumer
<1>8. CASE \E t \in Savers : flush_to_sd(t)
  BY <1>8 DEF flush_to_sd, Goto
<1>9. CASE \E t \in Savers : OpenCheck(t)
  BY <1>9 DEF OpenCheck, Goto, Return, NoSave
<1>10. CASE \E t \in Savers : Fopen(t)
  <2> PICK t \in Savers : Fopen(t)
    BY <1>10
  <2>1. card' \in [stream : {"none", "read", "write"}, logs : BOOLEAN]
    <3>1. card' \in {[stream |-> "write", logs |-> TRUE], [card EXCEPT !.stream = "read"],
                     [card EXCEPT !.stream = "none"]}
      BY DEF Fopen
    <3>2. [card EXCEPT !.stream = "read"] \in [stream : {"none", "read", "write"}, logs : BOOLEAN]
      OBVIOUS
    <3>3. [card EXCEPT !.stream = "none"] \in [stream : {"none", "read", "write"}, logs : BOOLEAN]
      OBVIOUS
    <3>4. [stream |-> "write", logs |-> TRUE] \in [stream : {"none", "read", "write"}, logs : BOOLEAN]
      OBVIOUS
    <3> QED
      BY <3>1, <3>2, <3>3, <3>4
  <2>2. UNCHANGED <<busy, stored>>
    BY DEF Fopen, logVars
  <2> QED
    BY <2>1, <2>2
<1>11. CASE \E t \in Savers : close_stream(t)
  BY <1>11 DEF close_stream, Return, NoSave
<1>12. CASE \E t \in Savers : flush_logs_to(t)
  BY <1>12, Zenon DEF flush_logs_to, Goto, begin_consumer
<1>13. CASE \E t \in Savers : SaveSnapshot(t)
  BY <1>13 DEF SaveSnapshot
<1>14. CASE \E t \in Savers : SaveRecord(t)
  BY <1>14, Zenon DEF SaveRecord, Goto
<1>15. CASE \E t \in Savers : SaveFragment(t)
  <2> PICK t \in Savers : SaveFragment(t)
    BY <1>15
  <2>1. save[t].pc = "fragment" /\ save[t].packet \in Nat
    BY DEF SaveFragment, SaveTyped, Locals
  <2> DEFINE cell == ring[At(save[t].offset, save[t].packet)]
  <2>2. cell.rec \in 1 .. MaxRecords /\ cell.part \in 1 .. MaxLength
    <3>1. /\ released + 1 \in Retained /\ cell.rec = released + 1
          /\ cell.part \in 1 .. records[released + 1].len
      BY <2>1, FragmentRead
    <3>2. released + 1 \in 1 .. Accepted /\ records[released + 1].len \in 1 .. MaxLength
      BY <3>1, RetainedTyped DEF Records
    <3>3. Accepted <= MaxRecords /\ Accepted \in Nat
      BY DEF RingTyped, Accepted
    <3> QED
      BY <3>1, <3>2, <3>3
  <2>3. stored' = stored \cup {<<cell.rec, cell.part>>} \/ stored' = stored
    BY DEF SaveFragment
  <2>4. UNCHANGED <<busy, card>>
    BY DEF SaveFragment
  <2> HIDE DEF cell
  <2> QED
    BY <2>2, <2>3, <2>4
<1>16. CASE \E t \in Savers : SaveRelease(t)
  BY <1>16 DEF SaveRelease
<1>17. CASE \E t \in Savers : SaveEnd(t)
  BY <1>17 DEF SaveEnd, Goto, end_consumer
<1>18. CASE print_log
  BY <1>18 DEF print_log, Goto
<1>19. CASE remove_file
  BY <1>19 DEF remove_file
<1> QED
  BY <1>1, <1>2, <1>3, <1>4, <1>5, <1>6, <1>7, <1>8, <1>9, <1>10, <1>11, <1>12,
     <1>13, <1>14, <1>15, <1>16, <1>17, <1>18, <1>19,
     NextSteps

-----------------------------------------------------------------------------
(* What moves the ring: an insertion, the release of a record, and nothing else. *)

Quiet ==
  /\ UNCHANGED <<ring, records, released>>
  /\ UNCHANGED <<cur.read, cur.used, cur.write>>
  /\ stored \subseteq stored'

LEMMA RingMoves ==
  ASSUME CursorsTyped, RadioTyped, Next
  PROVE  \/ \E len \in 1 .. MaxLength : insert_log(len)
         \/ \E t \in Savers : SaveRelease(t)
         \/ Quiet /\ CursorsTyped'
<1> SUFFICES ASSUME ~ \E len \in 1 .. MaxLength : insert_log(len),
                    ~ \E t \in Savers : SaveRelease(t)
             PROVE  Quiet /\ CursorsTyped'
  OBVIOUS
<1>1. CASE FlushAdvance
  <2>1. UNCHANGED <<ring, records, released, stored>>
    BY <1>1 DEF FlushAdvance
  <2>2. CASE UNCHANGED cur
    BY <2>1, <2>2 DEF Quiet, CursorsTyped
  <2>3. CASE cur' = [cur EXCEPT !.send = At(@, Size(snd.header)),
                                !.pending = (@ - Size(snd.header)) % Wrap]
    <3>1. Size(snd.header) \in Nat
      BY ConstantsTyped DEF RadioTyped, Headers, Size
    <3>2. At(cur.send, Size(snd.header)) \in Offsets
      BY <3>1, AtTyped DEF CursorsTyped
    <3>3. cur.pending - Size(snd.header) \in Int
      BY <3>1, ConstantsTyped DEF CursorsTyped
    <3>4. (cur.pending - Size(snd.header)) % Wrap \in 0 .. Wrap - 1
      BY <3>3, WrapTyped
    <3> DEFINE send == At(cur.send, Size(snd.header))
               pending == (cur.pending - Size(snd.header)) % Wrap
    <3>5. cur' = [cur EXCEPT !.send = send, !.pending = pending]
      BY <2>3
    <3>6. send \in Offsets /\ pending \in 0 .. Wrap - 1
      BY <3>2, <3>4
    <3> HIDE DEF send, pending
    <3>7. UNCHANGED <<cur.read, cur.used, cur.write>> /\ CursorsTyped'
      BY <3>5, <3>6 DEF CursorsTyped
    <3> QED
      BY <2>1, <3>7 DEF Quiet
  <2> QED
    BY <1>1, <2>2, <2>3 DEF FlushAdvance
<1>2. CASE ~FlushAdvance
  <2>1. UNCHANGED <<ring, records, released, cur>>
    BY <1>2, NextSteps, ZenonT(60)
       DEF flush_logs, FlushBreak, FlushCopy, FlushSend, SendChunk, FlushEnd, flush_to_sd, OpenCheck,
           Fopen, close_stream, flush_logs_to, SaveSnapshot, SaveRecord, SaveFragment, SaveEnd,
           print_log, remove_file, ringVars, logVars
  <2>2. stored \subseteq stored'
    BY <1>2, NextSteps
       DEF flush_logs, FlushBreak, FlushCopy, FlushSend, SendChunk, FlushEnd, flush_to_sd, OpenCheck,
           Fopen, close_stream, flush_logs_to, SaveSnapshot, SaveRecord, SaveFragment, SaveEnd,
           print_log, remove_file, ringVars, logVars
  <2> QED
    BY <2>1, <2>2 DEF Quiet, CursorsTyped
<1> QED
  BY <1>1, <1>2

\* A step that leaves the ring alone leaves the records in it whole, and stored what was.
LEMMA QuietKeeps ==
  ASSUME RingTyped, Tiled, Whole, Saved, Quiet
  PROVE  RingTyped' /\ Tiled' /\ Whole' /\ Saved'
<1>1. RingTyped'
  BY DEF RingTyped, Quiet, Accepted
<1>2. Tiled'
  BY DEF Tiled, Quiet, Retained, Accepted, Offset, Room
<1>3. Whole'
  BY DEF Whole, Quiet, Retained, Accepted
<1>4. Saved'
  BY DEF Saved, Quiet
<1> QED
  BY <1>1, <1>2, <1>3, <1>4

-----------------------------------------------------------------------------
(* An insertion.                                                           *)

\* insert_log() writes the record behind the write cursor and nowhere else.
LEMMA Inserts ==
  ASSUME RingTyped, CursorsTyped, NEW len \in 1 .. MaxLength, insert_log(len)
  PROVE  /\ RingTyped' /\ CursorsTyped' /\ Accepted' = Accepted + 1 /\ Accepted \in Nat
         /\ \A r \in 1 .. Accepted : records'[r] = records[r]
         /\ records'[Accepted + 1] = [at |-> cur.write, len |-> len]
         /\ cur.used + 1 + len <= Capacity
         /\ cur'.read = cur.read /\ cur'.used = cur.used + 1 + len
         /\ cur'.write = Fold(cur.write, 1 + len)
         /\ UNCHANGED <<released, stored, save>>
         /\ \A i \in Offsets :
              ring'[i] = IF Gap(cur.write, i) <= len
                         THEN [rec |-> Accepted + 1, part |-> Gap(cur.write, i),
                               len |-> IF Gap(cur.write, i) = 0 THEN len ELSE 0]
                         ELSE ring[i]
<1>1. /\ Accepted < MaxRecords /\ Accepted \in Nat /\ Capacity - cur.used >= 1 + len
      /\ write_to_ring(Accepted + 1, len)
      /\ cur' = [cur EXCEPT !.write = At(@, 1 + len), !.used = @ + 1 + len,
                            !.pending = (@ + 1 + len) % Wrap]
      /\ records' = Append(records, [at |-> cur.write, len |-> len])
      /\ UNCHANGED <<released, stored, save>>
  BY DEF insert_log, insert_log_impl, RingTyped, Accepted
<1>2. /\ cur.write \in Offsets /\ cur.used \in 0 .. Capacity /\ cur.pending \in 0 .. Wrap - 1
      /\ len \in Nat /\ 1 + len \in 0 .. Capacity
  BY ConstantsTyped DEF CursorsTyped
<1>3. At(cur.write, 1 + len) = Fold(cur.write, 1 + len) /\ Fold(cur.write, 1 + len) \in Offsets
  BY <1>2, AtFolds
<1>4. (cur.pending + 1 + len) % Wrap \in 0 .. Wrap - 1
  BY <1>2, WrapTyped
<1>5. cur.used + 1 + len \in 0 .. Capacity
  BY <1>1, <1>2, ConstantsTyped, SMTT(40)
<1>6. /\ CursorsTyped' /\ cur'.read = cur.read /\ cur'.used = cur.used + 1 + len
      /\ cur'.write = Fold(cur.write, 1 + len)
  <2> DEFINE pending == (cur.pending + 1 + len) % Wrap
  <2>1. cur' = [cur EXCEPT !.write = Fold(cur.write, 1 + len), !.used = cur.used + 1 + len,
                           !.pending = pending]
    BY <1>1, <1>3
  <2>2. pending \in 0 .. Wrap - 1
    BY <1>4
  <2> HIDE DEF pending
  <2> QED
    BY <1>3, <1>5, <2>1, <2>2 DEF CursorsTyped
<1>7. /\ records' \in Seq(Records) /\ Accepted' = Accepted + 1
      /\ \A r \in 1 .. Accepted : records'[r] = records[r]
      /\ records'[Accepted + 1] = [at |-> cur.write, len |-> len]
  <2> DEFINE new == [at |-> cur.write, len |-> len]
  <2>1. new \in Records
    BY <1>2 DEF Records
  <2>2. records' = Append(records, new) /\ records \in Seq(Records)
    BY <1>1 DEF RingTyped
  <2> HIDE DEF new
  <2>3. /\ records' \in Seq(Records) /\ Len(records') = Len(records) + 1
        /\ \A r \in 1 .. Len(records) : records'[r] = records[r]
        /\ records'[Len(records) + 1] = new
    BY <2>1, <2>2
  <2> QED
    BY <2>3 DEF Accepted, new
<1>8. DOMAIN ring = Offsets
  BY DEF RingTyped
<1>9. \A i \in Offsets : (i - cur.write + Capacity) % Capacity = Gap(cur.write, i)
                         /\ Gap(cur.write, i) \in Offsets
  <2> SUFFICES ASSUME NEW i \in Offsets
               PROVE  (i - cur.write + Capacity) % Capacity = Gap(cur.write, i)
                      /\ Gap(cur.write, i) \in Offsets
    OBVIOUS
  <2> DEFINE x == i - cur.write + Capacity
  <2>1. x \in 0 .. 2 * Capacity - 1
    BY <1>2, ConstantsTyped DEF Offsets
  <2>2. Gap(cur.write, i) = IF x < Capacity THEN x ELSE x - Capacity
    BY <1>2, ConstantsTyped DEF Gap, Offsets
  <2> HIDE DEF x
  <2>3. x % Capacity = Gap(cur.write, i)
    BY <2>1, <2>2, ConstantsTyped, ModOfOneTurn
  <2>4. Gap(cur.write, i) \in Offsets
    BY <1>2, FoldOfGap
  <2> QED
    BY <2>3, <2>4 DEF x
<1>10. /\ ring' = [i \in Offsets |-> ring'[i]]
       /\ \A i \in Offsets :
            ring'[i] = IF Gap(cur.write, i) <= len
                       THEN [rec |-> Accepted + 1, part |-> Gap(cur.write, i),
                             len |-> IF Gap(cur.write, i) = 0 THEN len ELSE 0]
                       ELSE ring[i]
  BY <1>1, <1>8, <1>9 DEF write_to_ring
<1>11. RingTyped'
  <2>1. \A i \in Offsets : ring'[i] \in Cells
    <3> SUFFICES ASSUME NEW i \in Offsets PROVE ring'[i] \in Cells
      OBVIOUS
    <3>1. CASE Gap(cur.write, i) <= len
      <4>1. Gap(cur.write, i) \in 0 .. MaxLength
        BY <1>9, <3>1, ConstantsTyped DEF Offsets
      <4>2. Accepted + 1 \in 0 .. MaxRecords /\ len \in 0 .. MaxLength /\ 0 \in 0 .. MaxLength
        BY <1>1, ConstantsTyped
      <4> QED
        BY <1>10, <3>1, <4>1, <4>2 DEF Cells
    <3>2. CASE ~(Gap(cur.write, i) <= len)
      BY <1>10, <3>2 DEF RingTyped
    <3> QED
      BY <3>1, <3>2
  <2>2. Accepted' <= MaxRecords
    BY <1>1, <1>7, ConstantsTyped
  <2> QED
    BY <1>7, <1>10, <2>1, <2>2 DEF RingTyped
<1>12. cur.used + 1 + len <= Capacity
  BY <1>5
<1>13. Accepted \in Nat /\ UNCHANGED <<released, stored, save>>
  BY <1>1
<1> HIDE DEF Accepted
<1> QED
  BY <1>6, <1>7, <1>10, <1>11, <1>12, <1>13

\* The new record is retained behind the others, which stay where they were.
LEMMA InsertTiles ==
  ASSUME RingTyped, CursorsTyped, Tiled, NEW len \in 1 .. MaxLength, insert_log(len)
  PROVE  Tiled'
<1> DEFINE last == Accepted + 1
<1>1. /\ Accepted' = last /\ Accepted \in Nat /\ released' = released
      /\ \A r \in 1 .. Accepted : records'[r] = records[r]
      /\ records'[last] = [at |-> cur.write, len |-> len]
      /\ cur.used + 1 + len <= Capacity
      /\ cur'.read = cur.read /\ cur'.used = cur.used + 1 + len
      /\ cur'.write = Fold(cur.write, 1 + len)
  BY Inserts
<1>2. /\ cur.read \in Offsets /\ cur.used \in 0 .. Capacity /\ cur.write = Fold(cur.read, cur.used)
      /\ cur.used \in Nat /\ 1 + len \in Nat /\ cur.used \in Offsets
  BY <1>1, ConstantsTyped DEF CursorsTyped, Tiled, Offsets
<1>3. released \in 0 .. Accepted
  BY DEF Tiled
<1>4. \A r \in Retained :
        /\ r \in 1 .. Accepted /\ Offset(r)' = Offset(r) /\ Room(r)' = Room(r)
        /\ Offset(r) \in Offsets /\ Room(r) \in Nat
  <2> SUFFICES ASSUME NEW r \in Retained
               PROVE  /\ r \in 1 .. Accepted /\ Offset(r)' = Offset(r) /\ Room(r)' = Room(r)
                      /\ Offset(r) \in Offsets /\ Room(r) \in Nat
    OBVIOUS
  <2>1. r \in 1 .. Accepted /\ Offset(r) \in Offsets /\ Room(r) \in Nat
    BY RetainedTyped, ConstantsTyped
  <2> QED
    BY <1>1, <2>1 DEF Offset, Room
<1>5. Gap(cur'.read, records'[last].at) = cur.used /\ 1 + records'[last].len = 1 + len
  BY <1>1, <1>2, GapOfFold
<1>6. \A r : r \in Retained' <=> r \in Retained \/ r = last
  BY <1>1, <1>3 DEF Retained
<1>7. cur'.write = Fold(cur'.read, cur'.used)
  <2>1. cur.used + (1 + len) = cur.used + 1 + len
    BY <1>2
  <2>2. cur.used + (1 + len) <= Capacity
    BY <1>1, <2>1
  <2>3. Fold(cur.write, 1 + len) = Fold(cur.read, cur.used + (1 + len))
    BY <1>2, <2>2, FoldOfFold
  <2> QED
    BY <1>1, <2>1, <2>3
<1> HIDE DEF last
<1>8. last = Accepted + 1
  BY DEF last
<1>9. released' \in 0 .. Accepted'
  BY <1>1, <1>3, <1>8
<1>10. cur'.used = 0 <=> released' = Accepted'
  BY <1>1, <1>2, <1>3, <1>8
<1>11. \A r \in Retained' :
         /\ r = released' + 1 => Offset(r)' = 0
         /\ Offset(r)' + Room(r)' <= cur'.used
         /\ r < Accepted' => Offset(r + 1)' = Offset(r)' + Room(r)'
         /\ r = Accepted' => Offset(r)' + Room(r)' = cur'.used
  <2> SUFFICES ASSUME NEW r \in Retained'
               PROVE  /\ r = released' + 1 => Offset(r)' = 0
                      /\ Offset(r)' + Room(r)' <= cur'.used
                      /\ r < Accepted' => Offset(r + 1)' = Offset(r)' + Room(r)'
                      /\ r = Accepted' => Offset(r)' + Room(r)' = cur'.used
    OBVIOUS
  <2>1. CASE r = last
    <3>1. Offset(r)' = cur.used /\ Room(r)' = 1 + len
      BY <1>5, <2>1 DEF Offset, Room
    <3>2. r = released' + 1 => cur.used = 0
      BY <1>1, <1>3, <1>8, <2>1 DEF Tiled
    <3> QED
      BY <1>1, <1>2, <1>8, <2>1, <3>1, <3>2
  <2>2. CASE r # last
    <3>1. r \in Retained
      BY <1>6, <2>2
    <3>2. /\ r = released + 1 => Offset(r) = 0
          /\ Offset(r) + Room(r) <= cur.used
          /\ r < Accepted => Offset(r + 1) = Offset(r) + Room(r)
          /\ r = Accepted => Offset(r) + Room(r) = cur.used
      BY <3>1 DEF Tiled
    <3>3. r \in 1 .. Accepted /\ Offset(r)' = Offset(r) /\ Room(r)' = Room(r)
          /\ Offset(r) \in Nat /\ Room(r) \in Nat
      BY <1>4, <3>1 DEF Offsets
    <3>4. Offset(r + 1)' = Offset(r)' + Room(r)'
      <4>1. CASE r = Accepted
        BY <1>5, <1>8, <3>2, <3>3, <4>1 DEF Offset
      <4>2. CASE r # Accepted
        <5>1. r + 1 \in Retained /\ r < Accepted
          BY <1>1, <1>3, <3>1, <3>3, <4>2 DEF Retained
        <5>2. Offset(r + 1)' = Offset(r + 1)
          BY <1>4, <5>1
        <5> QED
          BY <3>2, <3>3, <5>1, <5>2
      <4> QED
        BY <4>1, <4>2
    <3>5. r # Accepted'
      BY <1>1, <2>2
    <3> QED
      BY <1>1, <1>2, <3>2, <3>3, <3>4, <3>5
  <2> QED
    BY <2>1, <2>2
<1>12. \A r, q \in Retained' : r < q => Offset(r)' + Room(r)' <= Offset(q)'
  <2> SUFFICES ASSUME NEW r \in Retained', NEW q \in Retained', r < q
               PROVE  Offset(r)' + Room(r)' <= Offset(q)'
    OBVIOUS
  <2>1. r \in Retained /\ r # last
    BY <1>1, <1>3, <1>6, <1>8 DEF Retained
  <2>2. Offset(r)' = Offset(r) /\ Room(r)' = Room(r)
    BY <1>4, <2>1
  <2>3. CASE q = last
    <3>1. Offset(q)' = cur.used
      BY <1>5, <2>3 DEF Offset
    <3>2. Offset(r) + Room(r) <= cur.used
      BY <2>1 DEF Tiled
    <3> QED
      BY <2>2, <3>1, <3>2
  <2>4. CASE q # last
    <3>1. q \in Retained
      BY <1>6, <2>4
    <3>2. Offset(q)' = Offset(q)
      BY <1>4, <3>1
    <3>3. Offset(r) + Room(r) <= Offset(q)
      BY <2>1, <3>1 DEF Tiled
    <3> QED
      BY <2>2, <3>2, <3>3
  <2> QED
    BY <2>3, <2>4
<1> QED
  BY <1>7, <1>9, <1>10, <1>11, <1>12 DEF Tiled

\* The cells written are the new record's and none of a retained one's.
LEMMA InsertKeepsWhole ==
  ASSUME RingTyped, CursorsTyped, Tiled, Whole, NEW len \in 1 .. MaxLength, insert_log(len)
  PROVE  Whole'
<1> DEFINE last == Accepted + 1
           new(i) == [rec |-> last, part |-> Gap(cur.write, i),
                      len |-> IF Gap(cur.write, i) = 0 THEN len ELSE 0]
<1>1. /\ Accepted' = last /\ Accepted \in Nat /\ released' = released
      /\ \A r \in 1 .. Accepted : records'[r] = records[r]
      /\ records'[last] = [at |-> cur.write, len |-> len]
      /\ cur.used + 1 + len <= Capacity
      /\ \A i \in Offsets :
           ring'[i] = IF Gap(cur.write, i) <= len THEN new(i) ELSE ring[i]
  BY Inserts
<1>2. /\ cur.read \in Offsets /\ cur.used \in Nat /\ cur.write \in Offsets
      /\ cur.write = Fold(cur.read, cur.used) /\ released \in 0 .. Accepted /\ len \in Nat
  BY DEF CursorsTyped, Tiled
<1>3. \A r \in Retained' : r \in Retained \/ r = last
  BY <1>1, <1>2 DEF Retained
<1> SUFFICES ASSUME NEW r \in Retained'
             PROVE  /\ ring'[records'[r].at].len = records'[r].len
                    /\ \A part \in 0 .. records'[r].len :
                         /\ ring'[Fold(records'[r].at, part)].rec = r
                         /\ ring'[Fold(records'[r].at, part)].part = part
  BY DEF Whole
<1>4. CASE r = last
  <2>1. \A part \in 0 .. len :
          /\ Fold(cur.write, part) \in Offsets /\ Gap(cur.write, Fold(cur.write, part)) = part
          /\ ring'[Fold(cur.write, part)].rec = last /\ ring'[Fold(cur.write, part)].part = part
    <3> SUFFICES ASSUME NEW part \in 0 .. len
                 PROVE  /\ Fold(cur.write, part) \in Offsets
                        /\ Gap(cur.write, Fold(cur.write, part)) = part
                        /\ ring'[Fold(cur.write, part)].rec = last
                        /\ ring'[Fold(cur.write, part)].part = part
      OBVIOUS
    <3> DEFINE i == Fold(cur.write, part)
    <3>1. part \in Offsets /\ part \in 0 .. Capacity
      BY <1>1, <1>2, ConstantsTyped DEF Offsets
    <3>2. i \in Offsets /\ Gap(cur.write, i) = part
      BY <1>2, <3>1, AtFolds, GapOfFold
    <3> HIDE DEF i
    <3>3. ring'[i] = new(i)
      BY <1>1, <3>2
    <3> QED
      BY <3>2, <3>3 DEF i
  <2>2. ring'[cur.write].len = len
    <3>1. Fold(cur.write, 0) = cur.write /\ Gap(cur.write, cur.write) = 0
      BY <1>2, ConstantsTyped DEF Fold, Gap, Offsets
    <3>2. ring'[cur.write] = new(cur.write)
      BY <1>1, <1>2, <3>1
    <3> QED
      BY <3>1, <3>2
  <2> QED
    BY <1>1, <1>4, <2>1, <2>2
<1>5. CASE r \in Retained
  <2>1. r \in 1 .. Accepted /\ records'[r] = records[r] /\ records[r].at \in Offsets
        /\ records[r].len \in 1 .. MaxLength
    BY <1>1, <1>5, RetainedTyped DEF Records
  <2>2. /\ Offset(r) \in Offsets /\ Fold(cur.read, Offset(r)) = records[r].at
        /\ Offset(r) + 1 + records[r].len <= cur.used
    <3>1. Offset(r) \in Offsets /\ Fold(cur.read, Offset(r)) = records[r].at
      BY <1>5, RetainedTyped
    <3>2. Offset(r) + Room(r) <= cur.used
      BY <1>5 DEF Tiled
    <3>3. Offset(r) \in Nat
      BY <3>1 DEF Offsets
    <3> QED
      BY <2>1, <3>1, <3>2, <3>3 DEF Room
  <2>3. \A part \in 0 .. records[r].len : ring'[Fold(records[r].at, part)] = ring[Fold(records[r].at, part)]
    <3> SUFFICES ASSUME NEW part \in 0 .. records[r].len
                 PROVE  ring'[Fold(records[r].at, part)] = ring[Fold(records[r].at, part)]
      OBVIOUS
    <3> DEFINE o == Offset(r)
    <3>1. o \in Nat /\ part \in Nat /\ o + part \in Nat /\ o + part < cur.used /\ o + part <= Capacity
      BY <1>1, <1>2, <2>1, <2>2, ConstantsTyped DEF Offsets
    <3>2. Fold(records[r].at, part) = Fold(cur.read, o + part)
      <4>1. Fold(Fold(cur.read, o), part) = Fold(cur.read, o + part)
        BY <1>2, <3>1, FoldOfFold
      <4> QED
        BY <2>2, <4>1
    <3> HIDE DEF o
    <3>3. Gap(cur.write, Fold(cur.read, o + part)) > len /\ Fold(cur.read, o + part) \in Offsets
      BY <1>1, <1>2, <3>1, FarFromWrite
    <3> DEFINE g == Gap(cur.write, Fold(cur.read, o + part))
    <3>4. g \in Nat
      BY <1>2, <3>3, FoldOfGap DEF Offsets
    <3>5. ~(g <= len)
      BY <1>2, <3>3, <3>4
    <3> HIDE DEF g
    <3> QED
      BY <1>1, <3>2, <3>3, <3>5 DEF g
  <2>4. Fold(records[r].at, 0) = records[r].at /\ 0 \in 0 .. records[r].len
    BY <2>1, ConstantsTyped DEF Fold, Offsets
  <2>5. ring'[records[r].at] = ring[records[r].at]
    BY <2>3, <2>4
  <2> QED
    BY <1>5, <2>1, <2>3, <2>5 DEF Whole
<1> QED
  BY <1>3, <1>4, <1>5

\* An insertion leaves the walks and what is stored alone.
LEMMA InsertKeepsWalks ==
  ASSUME RingTyped, CursorsTyped, SaveTyped, Tiled, Saved, Walked,
         NEW len \in 1 .. MaxLength, insert_log(len)
  PROVE  Saved' /\ Walked'
<1>1. /\ Accepted' = Accepted + 1 /\ Accepted \in Nat
      /\ \A r \in 1 .. Accepted : records'[r] = records[r]
      /\ cur'.read = cur.read /\ cur'.used = cur.used + 1 + len
      /\ UNCHANGED <<released, stored, save>>
  BY Inserts
<1>2. released \in 0 .. Accepted
  BY DEF Tiled
<1>3. Saved'
  <2>1. \A r \in 1 .. released : r \in 1 .. Accepted
    BY <1>1, <1>2
  <2>2. \A r \in 1 .. released : records'[r] = records[r]
    BY <1>1, <2>1
  <2> QED
    BY <1>1, <2>2 DEF Saved
<1>4. \A t \in Savers : InHand(t) => InHand(t)'
  <2> SUFFICES ASSUME NEW t \in Savers, InHand(t) PROVE InHand(t)'
    OBVIOUS
  <2>1. released + 1 \in 1 .. Accepted
    BY <1>1, <1>2 DEF InHand
  <2>2. records'[released + 1] = records[released + 1] /\ released' < Accepted'
    BY <1>1, <1>2, <2>1
  <2> QED
    BY <1>1, <2>2 DEF InHand
<1>5. Walked'
  <2> SUFFICES ASSUME NEW t \in Savers PROVE WalksWell(t)'
    BY DEF Walked
  <2>1. WalksWell(t) /\ save[t].left \in Nat /\ cur.used \in Nat
    BY ConstantsTyped DEF Walked, SaveTyped, Locals, CursorsTyped
  <2>2. save[t].left <= cur.used => save[t].left <= cur'.used
    BY <1>1, <2>1
  <2> QED
    BY <1>1, <1>4, <2>1, <2>2 DEF WalksWell
<1> QED
  BY <1>3, <1>5

-----------------------------------------------------------------------------
(* A release.                                                              *)

\* SaveRelease() lets go of the oldest record, once each of its fragments is stored.
LEMMA Releases ==
  ASSUME RingTyped, CursorsTyped, SaveTyped, Tiled, Walked, NEW t \in Savers, SaveRelease(t)
  PROVE  /\ released + 1 \in Retained /\ released' = released + 1
         /\ Size(save[t].header) = Room(released + 1)
         /\ Room(released + 1) <= cur.used /\ Room(released + 1) \in Nat
         /\ CursorsTyped' /\ cur'.read = Fold(cur.read, Room(released + 1))
         /\ cur'.used = cur.used - Room(released + 1) /\ cur'.write = cur.write
         /\ \A part \in 1 .. records[released + 1].len : <<released + 1, part>> \in stored
         /\ UNCHANGED <<ring, records, stored>>
<1> DEFINE size == Size(save[t].header)
<1>1. InHand(t) /\ save[t].packet = save[t].header.len + 1
  BY DEF Walked, WalksWell, SaveRelease
<1>2. released + 1 \in Retained
  BY <1>1 DEF InHand, Retained, Tiled, Accepted, RingTyped
<1>3. size = Room(released + 1) /\ Room(released + 1) \in Nat /\ Room(released + 1) <= Capacity
  BY <1>1, <1>2, RetainedTyped, ConstantsTyped DEF InHand, Size, Room
<1>4. Room(released + 1) <= cur.used
  <2>1. Offset(released + 1) = 0 /\ Offset(released + 1) + Room(released + 1) <= cur.used
    BY <1>2 DEF Tiled
  <2> QED
    BY <1>3, <2>1
<1>5. /\ cur.read \in Offsets /\ cur.send \in Offsets /\ cur.used \in 0 .. Capacity
      /\ cur.pending \in 0 .. Wrap - 1
  BY DEF CursorsTyped
<1>6. At(cur.read, size) = Fold(cur.read, size) /\ Fold(cur.read, size) \in Offsets
      /\ At(cur.send, size) \in Offsets
  BY <1>3, <1>5, AtFolds, AtTyped, ConstantsTyped, SMTT(30)
<1>7. cur.pending - size \in Int
  BY <1>3, <1>5, ConstantsTyped
<1>8. (cur.pending - size) % Wrap \in 0 .. Wrap - 1
  BY <1>7, WrapTyped
<1>9. cur.used - size \in 0 .. Capacity
  BY <1>3, <1>4, <1>5, ConstantsTyped
<1>10. PICK send \in Offsets, pending \in 0 .. Wrap - 1 :
         cur' = [cur EXCEPT !.send = send, !.pending = pending,
                            !.read = Fold(cur.read, size), !.used = cur.used - size]
  <2> DEFINE send == IF cur.pending = cur.used THEN At(cur.send, size) ELSE cur.send
             pending == IF cur.pending = cur.used THEN (cur.pending - size) % Wrap ELSE cur.pending
  <2>1. send \in Offsets /\ pending \in 0 .. Wrap - 1
    BY <1>5, <1>6, <1>8
  <2>2. cur' = [cur EXCEPT !.send = send, !.pending = pending,
                           !.read = At(cur.read, size), !.used = cur.used - size]
    BY DEF SaveRelease
  <2> HIDE DEF send, pending
  <2> QED
    BY <1>6, <2>1, <2>2
<1>11. UNCHANGED <<ring, records, stored>> /\ released' = released + 1
  BY DEF SaveRelease
<1>12. \A part \in 1 .. records[released + 1].len : <<released + 1, part>> \in stored
  <2>1. save[t].header.len = records[released + 1].len
        /\ \A part \in 1 .. (save[t].packet - 1) : <<released + 1, part>> \in stored
    BY <1>1 DEF InHand
  <2>2. records[released + 1].len \in Nat
    BY <1>2, RetainedTyped DEF Records
  <2>3. save[t].packet - 1 = records[released + 1].len
    BY <1>1, <2>1, <2>2
  <2> QED
    BY <2>1, <2>3
<1> HIDE DEF size
<1>13. /\ CursorsTyped' /\ cur'.read = Fold(cur.read, size)
       /\ cur'.used = cur.used - size /\ cur'.write = cur.write
  BY <1>6, <1>9, <1>10 DEF CursorsTyped
<1>14. Size(save[t].header) = size
  BY DEF size
<1> QED
  BY <1>2, <1>3, <1>4, <1>11, <1>12, <1>13, <1>14

\* The records behind it are one record nearer to the read cursor.
LEMMA ReleaseTiles ==
  ASSUME RingTyped, CursorsTyped, SaveTyped, Tiled, Walked, NEW t \in Savers, SaveRelease(t)
  PROVE  Tiled'
<1> DEFINE first == released + 1
           size == Room(released + 1)
<1>1. /\ first \in Retained /\ released' = first /\ size <= cur.used /\ size \in Nat
      /\ cur'.read = Fold(cur.read, size) /\ cur'.used = cur.used - size
      /\ cur'.write = cur.write /\ UNCHANGED <<ring, records, stored>>
  BY Releases
<1>2. /\ cur.read \in Offsets /\ cur.used \in Nat /\ cur.used <= Capacity
      /\ cur.write = Fold(cur.read, cur.used)
      /\ released \in 0 .. Accepted /\ Accepted \in Nat /\ Accepted' = Accepted
  BY <1>1, ConstantsTyped DEF CursorsTyped, Tiled, RingTyped, Accepted
<1>3. Offset(first) = 0 /\ size >= 2
  BY <1>1, RetainedTyped DEF Tiled
<1>4. \A r \in Retained' : r \in Retained /\ first < r
  BY <1>1, <1>2 DEF Retained
<1> HIDE DEF first, size
<1>5. \A r \in Retained :
        first < r => /\ Offset(r) >= size /\ Offset(r)' = Offset(r) - size
                     /\ Room(r)' = Room(r) /\ Offset(r) \in Nat /\ Room(r) \in Nat /\ Room(r) >= 2
  <2> SUFFICES ASSUME NEW r \in Retained, first < r
               PROVE  /\ Offset(r) >= size /\ Offset(r)' = Offset(r) - size
                      /\ Room(r)' = Room(r) /\ Offset(r) \in Nat /\ Room(r) \in Nat /\ Room(r) >= 2
    OBVIOUS
  <2>1. Offset(r) \in Offsets /\ Fold(cur.read, Offset(r)) = records[r].at
        /\ Room(r) \in Nat /\ Room(r) >= 2
    BY RetainedTyped, ConstantsTyped
  <2>2. Offset(first) + size <= Offset(r)
    BY <1>1 DEF Tiled, first, size
  <2>3. Offset(r) >= size /\ Offset(r) \in Nat
    BY <1>1, <1>3, <2>1, <2>2 DEF Offsets
  <2>4. Gap(Fold(cur.read, size), Fold(cur.read, Offset(r))) = Offset(r) - size
    BY <1>1, <1>2, <2>1, <2>3, GapOfFolds
  <2>5. Offset(r)' = Offset(r) - size
    BY <1>1, <2>1, <2>4 DEF Offset
  <2>6. Room(r)' = Room(r)
    BY <1>1 DEF Room
  <2> QED
    BY <2>1, <2>3, <2>5, <2>6
<1>6. released' \in 0 .. Accepted'
  BY <1>1, <1>2 DEF Retained
<1>7. cur'.write = Fold(cur'.read, cur'.used)
  <2>1. cur.used - size \in Nat /\ size + (cur.used - size) = cur.used
    BY <1>1, <1>2
  <2>2. Fold(Fold(cur.read, size), cur.used - size) = Fold(cur.read, cur.used)
    BY <1>1, <1>2, <2>1, FoldOfFold
  <2> QED
    BY <1>1, <1>2, <2>2
<1>8. first < Accepted => first + 1 \in Retained /\ Offset(first + 1) = size
  BY <1>1, <1>2, <1>3 DEF Tiled, Retained, first, size
<1>9. cur'.used = 0 <=> released' = Accepted'
  <2>1. CASE first = Accepted
    <3>1. Offset(first) + Room(first) = cur.used
      BY <1>1, <2>1 DEF Tiled
    <3> QED
      BY <1>1, <1>2, <1>3, <2>1, <3>1 DEF first, size
  <2>2. CASE first # Accepted
    <3>1. first + 1 \in Retained /\ Offset(first + 1) = size /\ first < first + 1
      BY <1>1, <1>2, <1>8, <2>2 DEF first, Retained
    <3>2. Offset(first + 1) + Room(first + 1) <= cur.used /\ Room(first + 1) >= 2
          /\ Room(first + 1) \in Nat
      BY <1>5, <3>1 DEF Tiled
    <3> QED
      BY <1>1, <1>2, <2>2, <3>1, <3>2
  <2> QED
    BY <2>1, <2>2
<1>10. \A r \in Retained' :
         /\ r = released' + 1 => Offset(r)' = 0
         /\ Offset(r)' + Room(r)' <= cur'.used
         /\ r < Accepted' => Offset(r + 1)' = Offset(r)' + Room(r)'
         /\ r = Accepted' => Offset(r)' + Room(r)' = cur'.used
  <2> SUFFICES ASSUME NEW r \in Retained'
               PROVE  /\ r = released' + 1 => Offset(r)' = 0
                      /\ Offset(r)' + Room(r)' <= cur'.used
                      /\ r < Accepted' => Offset(r + 1)' = Offset(r)' + Room(r)'
                      /\ r = Accepted' => Offset(r)' + Room(r)' = cur'.used
    OBVIOUS
  <2>1. r \in Retained /\ first < r
    BY <1>4
  <2>2. /\ Offset(r) + Room(r) <= cur.used
        /\ r < Accepted => Offset(r + 1) = Offset(r) + Room(r)
        /\ r = Accepted => Offset(r) + Room(r) = cur.used
    BY <2>1 DEF Tiled
  <2>3. Offset(r)' = Offset(r) - size /\ Room(r)' = Room(r) /\ Offset(r) \in Nat /\ Room(r) \in Nat
    BY <1>5, <2>1
  <2>4. r = first + 1 => Offset(r)' = 0
    BY <1>1, <1>2, <1>8, <2>1, <2>3 DEF Retained
  <2>5. r < Accepted => Offset(r + 1)' = Offset(r)' + Room(r)'
    <3> SUFFICES ASSUME r < Accepted PROVE Offset(r + 1)' = Offset(r)' + Room(r)'
      OBVIOUS
    <3>1. r + 1 \in Retained /\ first < r + 1
      BY <1>1, <1>2, <2>1 DEF Retained, first
    <3>2. Offset(r + 1)' = Offset(r + 1) - size /\ Offset(r + 1) \in Nat
      BY <1>5, <3>1
    <3> QED
      BY <1>1, <2>2, <2>3, <3>2
  <2> QED
    BY <1>1, <1>2, <2>2, <2>3, <2>4, <2>5
<1>11. \A r, q \in Retained' : r < q => Offset(r)' + Room(r)' <= Offset(q)'
  <2> SUFFICES ASSUME NEW r \in Retained', NEW q \in Retained', r < q
               PROVE  Offset(r)' + Room(r)' <= Offset(q)'
    OBVIOUS
  <2>1. r \in Retained /\ first < r /\ q \in Retained /\ first < q
    BY <1>4
  <2>2. Offset(r) + Room(r) <= Offset(q)
    BY <2>1 DEF Tiled
  <2>3. /\ Offset(r)' = Offset(r) - size /\ Room(r)' = Room(r) /\ Offset(r) \in Nat /\ Room(r) \in Nat
        /\ Offset(q)' = Offset(q) - size /\ Offset(q) \in Nat
    BY <1>5, <2>1
  <2> QED
    BY <1>1, <2>2, <2>3
<1> QED
  BY <1>6, <1>7, <1>9, <1>10, <1>11 DEF Tiled

\* The records behind it stay whole in the ring, and the one released is on the card.
LEMMA ReleaseKeeps ==
  ASSUME RingTyped, CursorsTyped, SaveTyped, Tiled, Whole, Saved, Walked,
         NEW t \in Savers, SaveRelease(t)
  PROVE  RingTyped' /\ Whole' /\ Saved'
<1>1. /\ released + 1 \in Retained /\ released' = released + 1
      /\ \A part \in 1 .. records[released + 1].len : <<released + 1, part>> \in stored
      /\ UNCHANGED <<ring, records, stored>>
  BY Releases
<1>2. released \in Nat /\ Accepted \in Nat
  BY DEF Tiled, RingTyped, Accepted
<1>3. RingTyped'
  BY <1>1 DEF RingTyped, Accepted
<1>4. Retained' \subseteq Retained
  BY <1>1, <1>2 DEF Retained, Accepted
<1>5. Whole'
  BY <1>1, <1>4 DEF Whole
<1>6. \A r \in 1 .. released' : r \in 1 .. released \/ r = released + 1
  BY <1>1, <1>2
<1>7. Saved'
  BY <1>1, <1>6 DEF Saved
<1> QED
  BY <1>3, <1>5, <1>7

\* Nobody else walks, and the walk goes on to the next record with that much less to save.
LEMMA ReleaseWalks ==
  ASSUME RingTyped, CursorsTyped, SaveTyped, Tiled, Walkers, Walked,
         NEW t \in Savers, SaveRelease(t)
  PROVE  Walked'
<1>1. /\ Size(save[t].header) = Room(released + 1) /\ Room(released + 1) \in Nat
      /\ cur'.used = cur.used - Room(released + 1)
  BY Releases
<1>2. save[t] \in Locals /\ save[t].pc = "release" /\ save[t].left <= cur.used
  BY DEF SaveTyped, SaveRelease, Walked, WalksWell
<1>3. save' = [save EXCEPT ![t].pc = "record", ![t].left = @ - Room(released + 1)]
  BY <1>1 DEF SaveRelease
<1>4. /\ save'[t].pc = "record" /\ save'[t].left = save[t].left - Room(released + 1)
      /\ \A u \in Savers \ {t} : save'[u] = save[u]
  BY <1>2, <1>3 DEF SaveTyped, Locals
<1>5. \A u \in Savers \ {t} : ~SaverWalks(u)
  BY <1>2 DEF Walkers, SaverWalks
<1>6. WalksWell(t)'
  <2>1. save[t].left \in Int /\ cur.used \in Int
    BY <1>2, ConstantsTyped DEF Locals, CursorsTyped
  <2>2. save'[t].left <= cur'.used
    BY <1>1, <1>2, <1>4, <2>1
  <2> QED
    BY <1>4, <2>2 DEF WalksWell
<1>7. \A u \in Savers \ {t} : WalksWell(u)'
  BY <1>4, <1>5 DEF WalksWell, SaverWalks
<1> QED
  BY <1>6, <1>7 DEF Walked

-----------------------------------------------------------------------------
(* The walks.                                                              *)

\* The step of one saver that leaves the ring alone is seen by no other walk.
LEMMA OthersWalkOn ==
  ASSUME Walked, Quiet, NEW t \in Savers, \A u \in Savers \ {t} : save'[u] = save[u], WalksWell(t)'
  PROVE  Walked'
<1>1. \A u \in Savers \ {t} : WalksWell(u)'
  <2> SUFFICES ASSUME NEW u \in Savers \ {t} PROVE WalksWell(u)'
    OBVIOUS
  <2>1. InHand(u) => InHand(u)'
    BY DEF InHand, Quiet, Accepted
  <2>2. WalksWell(u) /\ save'[u] = save[u] /\ UNCHANGED cur.used
    BY DEF Walked, Quiet
  <2> QED
    BY <2>1, <2>2 DEF WalksWell
<1> QED
  BY <1>1 DEF Walked

\* A saver that is elsewhere has nothing in hand.
LEMMA ElsewhereWalksWell ==
  ASSUME NEW t \in Savers, save'[t].pc \notin {"record", "fragment", "release"}
  PROVE  WalksWell(t)'
BY DEF WalksWell

\* A header read at the read cursor is the oldest retained record's.
LEMMA OldestHeader ==
  ASSUME RingTyped, CursorsTyped, Tiled, Whole, NEW left \in 1 .. Capacity, left <= cur.used,
         NEW h \in read_header_at(cur.read, left), h # NoHeader
  PROVE  /\ released + 1 \in Retained /\ released < Accepted
         /\ h = [rec |-> released + 1, len |-> records[released + 1].len]
         /\ h.len >= 1 /\ Size(h) <= left
<1>1. released < Accepted /\ released + 1 \in Retained
  BY ConstantsTyped DEF Tiled, CursorsTyped, RingTyped, Accepted, Retained
<1>2. /\ records[released + 1].at = cur.read /\ cur.read \in Offsets
      /\ records[released + 1].len \in 1 .. MaxLength
  BY <1>1, RetainedTyped DEF Records
<1>3. Fold(cur.read, 0) = cur.read /\ 0 \in 0 .. records[released + 1].len
  BY <1>2, ConstantsTyped DEF Fold, Offsets
<1>4. /\ ring[cur.read].rec = released + 1 /\ ring[cur.read].part = 0
      /\ ring[cur.read].len = records[released + 1].len
  BY <1>1, <1>2, <1>3 DEF Whole
<1> QED
  BY <1>1, <1>2, <1>4, HeaderRead

\* SaveRecord() takes the oldest record in hand, or ends the flush.
LEMMA RecordTaken ==
  ASSUME RingTyped, CursorsTyped, SaveTyped, Tiled, Whole, Walked, Quiet,
         NEW t \in Savers, SaveRecord(t)
  PROVE  Walked'
<1>1. save[t] \in Locals /\ save[t].pc = "record" /\ save[t].left <= cur.used
  BY DEF SaveTyped, SaveRecord, Walked, WalksWell
<1>2. CASE save[t].left = 0
  BY <1>2, Goes, ElsewhereWalksWell, OthersWalkOn DEF SaveRecord, SavePlaces
<1>3. CASE save[t].left # 0
  <2>1. PICK h \in read_header_at(cur.read, save[t].left) :
          save' = [save EXCEPT ![t].pc = IF h = NoHeader THEN "end" ELSE "fragment",
                               ![t].header = h, ![t].offset = cur.read, ![t].packet = 1]
    BY <1>3, Zenon DEF SaveRecord
  <2>2. /\ save'[t].pc = IF h = NoHeader THEN "end" ELSE "fragment"
        /\ save'[t].header = h /\ save'[t].offset = cur.read /\ save'[t].packet = 1
        /\ save'[t].left = save[t].left
        /\ \A u \in Savers \ {t} : save'[u] = save[u]
    <3> DEFINE r == [save[t] EXCEPT !.pc = IF h = NoHeader THEN "end" ELSE "fragment",
                                    !.header = h, !.offset = cur.read, !.packet = 1]
    <3>1. save' = [save EXCEPT ![t] = r]
      BY <1>1, <2>1 DEF SaveTyped, Locals
    <3>2. save'[t] = r /\ \A u \in Savers \ {t} : save'[u] = save[u]
      BY <3>1 DEF SaveTyped
    <3> QED
      BY <1>1, <3>2 DEF Locals
  <2>3. CASE h = NoHeader
    BY <2>2, <2>3, ElsewhereWalksWell, OthersWalkOn
  <2>4. CASE h # NoHeader
    <3>1. save[t].left \in 1 .. Capacity
      BY <1>1, <1>3, ConstantsTyped DEF Locals
    <3>2. /\ released < Accepted /\ h = [rec |-> released + 1, len |-> records[released + 1].len]
          /\ h.len >= 1 /\ Size(h) <= save[t].left
      BY <1>1, <2>4, <3>1, OldestHeader
    <3>3. UNCHANGED <<released, records, cur.read, cur.used>>
      BY DEF Quiet
    <3>4. InHand(t)'
      BY <2>2, <3>2, <3>3 DEF InHand, Accepted, Size
    <3>5. WalksWell(t)'
      BY <1>1, <2>2, <2>4, <3>2, <3>3, <3>4 DEF WalksWell
    <3> QED
      BY <2>2, <3>5, OthersWalkOn
  <2> QED
    BY <2>3, <2>4, SMTT(30)
<1> QED
  BY <1>2, <1>3, SMTT(30)

\* SaveFragment() stores the next fragment of the record in hand, or ends the flush.
LEMMA FragmentStored ==
  ASSUME RingTyped, CursorsTyped, SaveTyped, Tiled, Whole, Walked, Quiet,
         NEW t \in Savers, SaveFragment(t)
  PROVE  Walked'
<1>1. /\ save[t] \in Locals /\ save[t].pc = "fragment" /\ save[t].left <= cur.used
      /\ InHand(t) /\ save[t].packet <= save[t].header.len
  BY DEF SaveTyped, SaveFragment, Walked, WalksWell
<1>2. save[t].packet \in Nat /\ save[t].header.len \in Nat
  BY <1>1, ConstantsTyped DEF Locals, Headers
<1>3. CASE Goto(t, "end")
  BY <1>3, Goes, ElsewhereWalksWell, OthersWalkOn DEF SavePlaces
<1>4. CASE ~Goto(t, "end")
  <2> DEFINE cell == ring[At(save[t].offset, save[t].packet)]
  <2>1. /\ stored' = stored \cup {<<cell.rec, cell.part>>}
        /\ save' = [save EXCEPT ![t].packet = @ + 1,
                      ![t].pc = IF save[t].packet = save[t].header.len THEN "release" ELSE @]
    BY <1>4 DEF SaveFragment
  <2>2. <<released + 1, save[t].packet>> \in stored'
    <3>1. cell.rec = released + 1 /\ cell.part = save[t].packet
      BY <1>1, <1>2, FragmentRead
    <3> QED
      BY <2>1, <3>1
  <2>3. /\ save'[t].pc = IF save[t].packet = save[t].header.len THEN "release" ELSE "fragment"
        /\ save'[t].packet = save[t].packet + 1
        /\ UNCHANGED <<save[t].left, save[t].header, save[t].offset>>
        /\ \A u \in Savers \ {t} : save'[u] = save[u]
    BY <1>1, <2>1 DEF SaveTyped, Locals
  <2>4. UNCHANGED <<released, records, cur.read, cur.used>> /\ stored \subseteq stored'
    BY DEF Quiet
  <2> HIDE DEF cell
  <2>5. \A part \in 1 .. (save'[t].packet - 1) : <<released + 1, part>> \in stored'
    <3>1. \A part \in 1 .. (save'[t].packet - 1) :
            part \in 1 .. (save[t].packet - 1) \/ part = save[t].packet
      BY <1>2, <2>3
    <3> QED
      BY <1>1, <2>2, <2>4, <3>1 DEF InHand
  <2>6. InHand(t)'
    <3>1. /\ released' < Accepted' /\ save'[t].offset = cur'.read
          /\ save'[t].header = [rec |-> released' + 1, len |-> records'[released' + 1].len]
          /\ save'[t].left >= Size(save'[t].header)
      BY <1>1, <2>3, <2>4 DEF InHand, Accepted
    <3>2. save'[t].packet >= 1
      BY <1>2, <2>3
    <3> QED
      BY <2>4, <2>5, <3>1, <3>2 DEF InHand
  <2>7. WalksWell(t)'
    <3>1. save'[t].left <= cur'.used
      BY <1>1, <2>3, <2>4
    <3>2. save'[t].pc = "fragment" => save'[t].packet <= save'[t].header.len
      BY <1>1, <1>2, <2>3
    <3>3. save'[t].pc = "release" => save'[t].packet = save'[t].header.len + 1
      BY <1>1, <1>2, <2>3
    <3> QED
      BY <2>6, <3>1, <3>2, <3>3 DEF WalksWell
  <2> QED
    BY <2>3, <2>7, OthersWalkOn
<1> QED
  BY <1>3, <1>4

\* Every step that leaves the ring alone keeps the walks in order.
LEMMA WalkedStep ==
  ASSUME RingTyped, CursorsTyped, SaveTyped, Tiled, Whole, Walked, Quiet, Next
  PROVE  Walked'
<1>1. CASE UNCHANGED save
  <2>1. WalksWell(Shell)'
    BY <1>1, ConstantsTyped DEF Walked, WalksWell, InHand, Quiet, Accepted
  <2> QED
    BY <1>1, <2>1, ConstantsTyped, OthersWalkOn
<1>2. CASE \E len \in 1 .. MaxLength : insert_log(len)
  BY <1>1, <1>2 DEF insert_log, insert_log_impl
<1>3. CASE flush_logs \/ FlushBreak \/ FlushCopy \/ FlushSend \/ FlushAdvance \/ FlushEnd \/ remove_file
  BY <1>1, <1>3 DEF flush_logs, FlushBreak, FlushCopy, FlushSend, SendChunk, FlushAdvance, FlushEnd,
                    remove_file
<1>4. ASSUME NEW t \in Savers,
             flush_to_sd(t) \/ OpenCheck(t) \/ Fopen(t) \/ close_stream(t) \/ flush_logs_to(t)
             \/ SaveEnd(t) \/ (t = Shell /\ print_log)
      PROVE  Walked'
  <2>1. /\ save'[t].pc \notin {"record", "fragment", "release"}
        /\ \A u \in Savers \ {t} : save'[u] = save[u]
    <3>1. CASE flush_to_sd(t)
      BY <3>1, Goes DEF flush_to_sd, SavePlaces
    <3>2. CASE OpenCheck(t)
      BY <3>2, Goes, Returns DEF OpenCheck, SavePlaces, NoSave
    <3>3. CASE Fopen(t)
      BY <3>3, Goes, Returns DEF Fopen, SavePlaces, NoSave
    <3>4. CASE close_stream(t)
      BY <3>4, Returns DEF close_stream, NoSave
    <3>5. CASE flush_logs_to(t)
      BY <3>5, Goes DEF flush_logs_to, SavePlaces
    <3>6. CASE SaveEnd(t)
      BY <3>6, Goes DEF SaveEnd, SavePlaces
    <3>7. CASE t = Shell /\ print_log
      BY <3>7, Goes DEF print_log, SavePlaces
    <3> QED
      BY <1>4, <3>1, <3>2, <3>3, <3>4, <3>5, <3>6, <3>7
  <2> QED
    BY <2>1, ElsewhereWalksWell, OthersWalkOn
<1>5. ASSUME NEW t \in Savers, SaveSnapshot(t) PROVE Walked'
  <2>1. /\ save'[t].pc = "record" /\ save'[t].left = cur.used
        /\ \A u \in Savers \ {t} : save'[u] = save[u]
    BY <1>5 DEF SaveSnapshot, SaveTyped, Locals
  <2>2. cur'.used = cur.used /\ cur.used \in Nat
    BY ConstantsTyped DEF Quiet, CursorsTyped
  <2>3. WalksWell(t)'
    BY <2>1, <2>2 DEF WalksWell
  <2> QED
    BY <2>1, <2>3, OthersWalkOn
<1>6. ASSUME NEW t \in Savers, SaveRelease(t) PROVE Walked'
  <2>1. released' = released + 1 /\ released' = released /\ released \in Nat
    BY <1>6 DEF SaveRelease, Quiet, Tiled, RingTyped, Accepted
  <2> QED
    BY <2>1
<1> QED
  BY <1>2, <1>3, <1>4, <1>5, <1>6, RecordTaken, FragmentStored, ConstantsTyped, NextSteps

-----------------------------------------------------------------------------
(* The theorems.                                                           *)

\* The log starts empty, with nobody walking it.
LEMMA InitHolds == Init => IInv
<1> SUFFICES ASSUME Init PROVE IInv
  OBVIOUS
<1>1. CursorsTyped
  BY ConstantsTyped DEF Init, CursorsTyped, Offsets
<1>2. RingTyped
  <2>1. Blank \in Cells
    <3>1. 1 \in 0 .. MaxLength
      BY ConstantsTyped
    <3> QED
      BY <3>1, ConstantsTyped DEF Blank, Cells
  <2> QED
    BY <2>1, ConstantsTyped DEF Init, RingTyped, Offsets, Accepted
<1>3. RadioTyped
  BY ConstantsTyped DEF Init, RadioTyped, NoChunk, NoHeader, Headers, Cells
<1>4. SaveTyped
  BY NoSaveTyped DEF Init, SaveTyped
<1>5. CardTyped
  BY DEF Init, CardTyped
<1>6. Walkers
  BY DEF Init, Walkers, RadioWalks, SaverWalks, NoSave
<1>7. Retained = {} /\ released = 0 /\ Accepted = 0
  BY DEF Init, Retained, Accepted
<1>8. Tiled
  BY <1>7, ConstantsTyped DEF Init, Tiled, Fold
<1>9. Whole /\ Saved
  BY <1>7 DEF Whole, Saved
<1>10. Walked
  BY DEF Init, Walked, WalksWell, NoSave
<1> QED
  BY <1>1, <1>2, <1>3, <1>4, <1>5, <1>6, <1>8, <1>9, <1>10 DEF IInv, Typed

\* Every step keeps the invariant.
LEMMA StepHolds == IInv /\ [Next]_vars => IInv'
<1> SUFFICES ASSUME IInv, [Next]_vars PROVE IInv'
  OBVIOUS
<1>1. CASE Next
  <2>1. RadioTyped' /\ SaveTyped' /\ CardTyped' /\ Walkers'
    BY <1>1, RadioStep, SaveStep, CardStep, WalkersStep DEF IInv, Typed
  <2>2. CASE \E len \in 1 .. MaxLength : insert_log(len)
    <3>1. PICK len \in 1 .. MaxLength : insert_log(len)
      BY <2>2
    <3>2. RingTyped' /\ CursorsTyped'
      BY <3>1, Inserts DEF IInv, Typed
    <3>3. Tiled' /\ Whole' /\ Saved' /\ Walked'
      BY <3>1, InsertTiles, InsertKeepsWhole, InsertKeepsWalks DEF IInv, Typed
    <3> QED
      BY <2>1, <3>2, <3>3 DEF IInv, Typed
  <2>3. CASE \E t \in Savers : SaveRelease(t)
    <3>1. PICK t \in Savers : SaveRelease(t)
      BY <2>3
    <3>2. CursorsTyped'
      BY <3>1, Releases DEF IInv, Typed
    <3>3. RingTyped' /\ Tiled' /\ Whole' /\ Saved' /\ Walked'
      BY <3>1, ReleaseTiles, ReleaseKeeps, ReleaseWalks DEF IInv, Typed
    <3> QED
      BY <2>1, <3>2, <3>3 DEF IInv, Typed
  <2>4. CASE Quiet /\ CursorsTyped'
    <3>1. RingTyped' /\ Tiled' /\ Whole' /\ Saved' /\ Walked'
      BY <1>1, <2>4, QuietKeeps, WalkedStep DEF IInv, Typed
    <3> QED
      BY <2>1, <2>4, <3>1 DEF IInv, Typed
  <2> QED
    BY <1>1, <2>2, <2>3, <2>4, RingMoves DEF IInv, Typed
<1>2. CASE UNCHANGED vars
  <2>1. Typed'
    BY <1>2 DEF vars, IInv, Typed, CursorsTyped, RingTyped, RadioTyped, SaveTyped, CardTyped, Accepted
  <2>2. Walkers'
    BY <1>2 DEF vars, IInv, Walkers, RadioWalks, SaverWalks
  <2>3. Tiled' /\ Whole' /\ Saved'
    BY <1>2 DEF vars, IInv, Tiled, Whole, Saved, Retained, Accepted, Offset, Room
  <2>4. Walked'
    BY <1>2 DEF vars, IInv, Walked, WalksWell, InHand, Accepted
  <2> QED
    BY <2>1, <2>2, <2>3, <2>4 DEF IInv
<1> QED
  BY <1>1, <1>2

\* The invariant holds in every reachable state.
THEOREM Inductive == Spec => []IInv
BY InitHolds, StepHolds, PTL DEF Spec

\* The variables keep their types: the cursors and the bytes used stay inside the ring, and
\* no packet counter passes its limit.
THEOREM TypeCorrect == Spec => []TypeOK
<1>1. IInv => TypeOK
  <2> SUFFICES ASSUME IInv PROVE TypeOK
    OBVIOUS
  <2> QED
    BY DEF IInv, Typed, TypeOK, CursorsTyped, RingTyped, RadioTyped, SaveTyped, CardTyped, Tiled,
           Offsets, Records, Locals, SavePlaces
<1> QED
  BY <1>1, Inductive, PTL

\* Every accepted record is whole in the ring or stored to its last fragment, whoever saves,
\* whatever fails on the way and however the sends and insertions come between.
THEOREM NothingIsLost == Spec => []RetainedUntilStored
<1>1. IInv => RetainedUntilStored
  <2> SUFFICES ASSUME IInv PROVE RetainedUntilStored
    OBVIOUS
  <2>1. RingTyped /\ CursorsTyped /\ Tiled /\ Whole /\ Saved
    BY DEF IInv, Typed
  <2>2. cur.read = OldestAt
    <3>1. CASE released < Accepted
      <4>1. released + 1 \in Retained
        BY <2>1, <3>1 DEF Retained, Tiled, RingTyped, Accepted
      <4> QED
        BY <2>1, <3>1, <4>1, RetainedTyped DEF OldestAt
    <3>2. CASE ~(released < Accepted)
      <4>1. cur.used = 0 /\ cur.write = Fold(cur.read, cur.used) /\ cur.read \in Offsets
        BY <2>1, <3>2 DEF Tiled, CursorsTyped, RingTyped, Accepted
      <4> QED
        BY <3>2, <4>1, ConstantsTyped DEF OldestAt, Fold, Offsets
    <3> QED
      BY <3>1, <3>2
  <2>3. ASSUME NEW r \in Retained
        PROVE  /\ \A part \in 0 .. records[r].len :
                    /\ ring[At(records[r].at, part)].rec = r
                    /\ ring[At(records[r].at, part)].part = part
               /\ At(records[r].at, 1 + records[r].len) =
                    IF r < Accepted THEN records[r + 1].at ELSE cur.write
    <3>1. /\ r \in 1 .. Accepted /\ records[r].at \in Offsets /\ records[r].len \in 1 .. MaxLength
          /\ Fold(cur.read, Offset(r)) = records[r].at /\ Offset(r) \in Nat
          /\ cur.read \in Offsets /\ Room(r) = 1 + records[r].len
      BY <2>1, RetainedTyped DEF Records, Offsets, CursorsTyped, Room
    <3>2. \A part \in 0 .. records[r].len :
            /\ ring[At(records[r].at, part)].rec = r
            /\ ring[At(records[r].at, part)].part = part
      BY <2>1, CellsOf
    <3>3. Offset(r) + Room(r) <= cur.used /\ cur.used <= Capacity /\ cur.used \in Nat
      BY <2>1, ConstantsTyped DEF Tiled, CursorsTyped
    <3>4. Room(r) \in Nat /\ Room(r) \in 0 .. Capacity
      BY <3>1, ConstantsTyped
    <3>5. At(records[r].at, Room(r)) = Fold(records[r].at, Room(r))
      BY <3>1, <3>4, AtFolds
    <3>6. Offset(r) + Room(r) <= Capacity
      BY <3>1, <3>3, <3>4, ConstantsTyped
    <3>7. Fold(records[r].at, Room(r)) = Fold(cur.read, Offset(r) + Room(r))
      <4> DEFINE o == Offset(r)  k == Room(r)
      <4>1. o \in Nat /\ k \in Nat /\ o + k <= Capacity /\ Fold(cur.read, o) = records[r].at
        BY <3>1, <3>4, <3>6
      <4> HIDE DEF o, k
      <4>2. Fold(Fold(cur.read, o), k) = Fold(cur.read, o + k)
        BY <3>1, <4>1, FoldOfFold
      <4> QED
        BY <4>1, <4>2 DEF o, k
    <3>8. CASE r < Accepted
      <4>1. r + 1 \in Retained /\ Offset(r + 1) = Offset(r) + Room(r)
        BY <2>1, <3>1, <3>8 DEF Tiled, Retained, RingTyped, Accepted
      <4>2. Fold(cur.read, Offset(r + 1)) = records[r + 1].at
        BY <2>1, <4>1, RetainedTyped
      <4> QED
        BY <3>1, <3>2, <3>5, <3>7, <3>8, <4>1, <4>2
    <3>9. CASE ~(r < Accepted)
      <4>1. r = Accepted
        BY <2>1, <3>1, <3>9 DEF Tiled, RingTyped, Accepted
      <4>2. Offset(r) + Room(r) = cur.used /\ cur.write = Fold(cur.read, cur.used)
        BY <2>1, <4>1 DEF Tiled
      <4> QED
        BY <3>1, <3>2, <3>5, <3>7, <3>9, <4>2
    <3> QED
      BY <3>8, <3>9
  <2>4. cur.used = 0 <=> released = Accepted
    BY <2>1 DEF Tiled
  <2> QED
    BY <2>1, <2>2, <2>3, <2>4 DEF RetainedUntilStored, RetainedIntact, Retained, Saved
<1> QED
  BY <1>1, Inductive, PTL

\* consumer_busy_ is set exactly while one walker, and only one, goes round the ring: every
\* early exit of flush_logs() and flush_logs_to() gives it back.
THEOREM OneWalkerAtATime == Spec => []OneConsumer
<1>1. IInv => OneConsumer
  <2> SUFFICES ASSUME IInv PROVE OneConsumer
    OBVIOUS
  <2> DEFINE walkers == {t \in Savers : SaverWalks(t)}
  <2>1. Walkers /\ busy \in BOOLEAN
    BY DEF IInv, Typed, CardTyped
  <2>2. CASE RadioWalks
    <3>1. walkers = {} /\ busy
      BY <2>1, <2>2 DEF Walkers
    <3> QED
      BY <2>2, <3>1, FS_EmptySet DEF OneConsumer
  <2>3. CASE ~RadioWalks /\ walkers = {}
    <3>1. ~busy
      BY <2>1, <2>3 DEF Walkers
    <3> QED
      BY <2>3, <3>1, FS_EmptySet DEF OneConsumer
  <2>4. CASE ~RadioWalks /\ walkers # {}
    <3>1. PICK t \in Savers : SaverWalks(t)
      BY <2>4
    <3>2. walkers = {t} /\ busy
      BY <2>1, <3>1 DEF Walkers
    <3>3. Cardinality(walkers) = 1
      BY <3>2, FS_Singleton
    <3> QED
      BY <2>4, <3>2, <3>3 DEF OneConsumer
  <2> QED
    BY <2>2, <2>3, <2>4
<1> QED
  BY <1>1, Inductive, PTL

-----------------------------------------------------------------------------
(* Terminal.  A line has a place between the terminal and the shell -- the *)
(* slot, the pump's hands, the line typed ahead, the queue -- and the      *)
(* lines of an origin are in order across these places; a result has the   *)
(* origin it is for beside it wherever it is.                              *)

(* The inductive invariant.                                                *)

Commands == [from : Origins \cup {"script"}, line : Nat, run : Nat]
Results  == [of : Seq(Commands), text : SUBSET Commands]
Targets  == Links \cup {"radio"}
SlotRecords == [used : BOOLEAN, origin : Origins \cup {NoOne}, target : Targets, in : Seq(Nat),
                result : Results, ready : BOOLEAN, reset : BOOLEAN]
OwnRecords  == [editor : Seq(Nat), awaiting : BOOLEAN, pending : Seq(Nat)]
PumpRecords == [slot : Slots, at : {"idle", "take", "work", "lines"}, origin : Origins \cup {NoOne},
                target : Targets, reset : BOOLEAN, have : BOOLEAN, result : Results,
                in : Seq(Nat)]

SlotsTyped == slots \in [Slots -> SlotRecords] /\ own \in [Slots -> OwnRecords] /\ pump \in PumpRecords
ShellTyped ==
  /\ queue \in Seq(Commands)
  /\ shell \in [at : {"idle", "end", "deliver"}, cmd : Commands \cup {NoCommand},
                text : SUBSET Commands]
  /\ capture \in [active : BOOLEAN, buf : SUBSET Commands]
LinesTyped ==
  /\ script \in [active : BOOLEAN, cursor : 1 .. ScriptLines + 1]
  /\ bounds \in [lines : Nat, timeouts : Nat, scripts : Nat]
  /\ typed \in [Origins -> Nat] /\ ran \in [Origins \cup {"script"} -> Commands]
  /\ bound \subseteq Links

\* What is in the hands of the shell is a real command.
Limits ==
  /\ shell.at # "idle" => shell.cmd \in Commands
  /\ Len(queue) <= QueueLength
  /\ \A i \in Slots :
       /\ slots[i].used => slots[i].origin \in Origins
       /\ Len(slots[i].in) <= kMaxPendingIn /\ Len(own[i].pending) <= 1

\* An origin has one slot.
OneSlotEach ==
  \A i, k \in Slots : slots[i].used /\ slots[k].used /\ slots[i].origin = slots[k].origin => i = k

-----------------------------------------------------------------------------
(* Results.                                                                *)

\* The result of a command of this origin; of that command alone until two waits ran out.
ResultOf(result, o) ==
  /\ 1 \in DOMAIN result.of /\ result.of[1].from = o
  /\ bounds.timeouts <= 1 => result.text \subseteq {result.of[1]}

ResultsPlaced ==
  /\ \A i \in Slots : slots[i].ready => ResultOf(slots[i].result, slots[i].origin)
  /\ pump.have => ResultOf(pump.result, pump.origin)

\* A capture left on by an end that timed out is the only way text outlives its command.
CaptureInStep ==
  /\ ~capture.active => capture.buf = {}
  /\ capture.active /\ shell.at # "end" => bounds.timeouts >= 1
  /\ shell.at = "end" => shell.text = {}
  /\ bounds.timeouts <= 1 =>
       /\ shell.at = "end" => capture.buf \subseteq {shell.cmd}
       /\ shell.at = "deliver" => shell.text \subseteq {shell.cmd}

-----------------------------------------------------------------------------
(* Lines.                                                                  *)

AtWork == pump.at \in {"work", "lines"}

\* The origin whose typed-ahead line a slot's pending is; the others' will be reset.
Mine(i, o) ==
  IF AtWork /\ pump.slot = i THEN pump.origin = o /\ ~pump.reset
  ELSE slots[i].used /\ slots[i].origin = o /\ ~slots[i].reset

\* pump() reads a slot once: what becomes of the slot meanwhile leaves it to be reset.
PumpInStep ==
  /\ pump.at # "work" => pump.in = <<>> /\ ~pump.reset
  /\ \A i \in Slots : own[i].editor # <<>> => pump.at = "lines" /\ pump.slot = i
  /\ pump.at = "lines" => own[pump.slot].awaiting \/ own[pump.slot].pending = <<>>
  /\ AtWork => /\ pump.origin \in Origins
               /\ slots[pump.slot].used /\ ~slots[pump.slot].reset
                    => slots[pump.slot].origin = pump.origin
               /\ \A k \in Slots \ {pump.slot} :
                    slots[k].used /\ slots[k].origin = pump.origin => slots[k].reset

\* A line on its way from a terminal to the shell: queued or run, typed ahead, at hand in
\* pump(), or waiting in the slot.
Past(o)  == {ran[o].line} \cup {queue[k].line : k \in {j \in DOMAIN queue : queue[j].from = o}}
Ahead(o) == UNION {{own[i].pending[k] : k \in DOMAIN own[i].pending} : i \in {j \in Slots : Mine(j, o)}}
Hand(o)  ==
  IF AtWork /\ pump.origin = o
  THEN {pump.in[k] : k \in DOMAIN pump.in}
         \cup {own[pump.slot].editor[k] : k \in DOMAIN own[pump.slot].editor}
  ELSE {}
Waiting(o) ==
  UNION {{slots[i].in[k] : k \in DOMAIN slots[i].in} :
           i \in {j \in Slots : slots[j].used /\ slots[j].origin = o}}

Below(S, T) == \A m \in S, n \in T : m < n
Ascends(s)  == \A j, k \in DOMAIN s : j < k => s[j] < s[k]

InOrder(P, A, H, W, top) ==
  /\ Below(P, A) /\ Below(P, H) /\ Below(P, W) /\ Below(A, H) /\ Below(A, W) /\ Below(H, W)
  /\ \A n \in P \cup A \cup H \cup W : n <= top

StagesInStep ==
  \A o \in Origins : InOrder(Past(o), Ahead(o), Hand(o), Waiting(o), typed[o])
HandsInStep ==
  /\ \A i \in Slots : Ascends(slots[i].in) /\ Ascends(own[i].editor)
  /\ Ascends(pump.in)

QueueInStep ==
  \A o \in Origins :
    /\ \A k \in DOMAIN queue : queue[k].from = o => queue[k].line > ran[o].line
    /\ \A j, k \in DOMAIN queue :
         j < k /\ queue[j].from = o /\ queue[k].from = o => queue[j].line < queue[k].line

\* The script's commands, the last one run first, then those in the queue.
Marks   == {0} \cup {k \in DOMAIN queue : queue[k].from = "script"}
Mark(k) == IF k = 0 THEN ran["script"] ELSE queue[k]

\* After the script's command c: its run is under way; or c was the last line of its run, and the
\* script is over or started anew.
UnderWay(c) == script.active /\ script.cursor = c.line + 1 /\ bounds.scripts = c.run
BetweenRuns(c) ==
  /\ script.cursor = 1 /\ NextLine(c.line + 1) = ScriptLines + 1
  /\ bounds.scripts = IF script.active THEN c.run + 1 ELSE c.run

\* A script with no line to submit is started and over, and leaves nothing.
CursorInStep ==
  \/ script.cursor = 1 /\ NextLine(1) = ScriptLines + 1
  \/ \E k \in Marks : (\A m \in Marks : m <= k) /\ (UnderWay(Mark(k)) \/ BetweenRuns(Mark(k)))

MarksInStep ==
  \A j, k \in Marks : j < k /\ (\A m \in Marks : m <= j \/ k <= m) => Follows(Mark(j), Mark(k))
ScriptInStep == MarksInStep /\ CursorInStep

TerminalIInv ==
  /\ SlotsTyped /\ ShellTyped /\ LinesTyped /\ Limits /\ OneSlotEach
  /\ ResultsPlaced /\ CaptureInStep
  /\ PumpInStep /\ StagesInStep /\ HandsInStep /\ QueueInStep /\ ScriptInStep

-----------------------------------------------------------------------------
(* The script's cursor.                                                    *)

\* Where there is a number there is a least one.
LEMMA LeastNumber ==
  ASSUME NEW T, T \subseteq Nat, T # {}
  PROVE  \E n \in T : \A k \in T : n <= k
<1> DEFINE R == {ss \in Nat \X Nat : ss[1] < ss[2]}
<1>1. IsWellFoundedOn(R, Nat)
  BY NatLessThanWellFounded, Zenon DEF OpToRel
<1> HIDE DEF R
<1>2. PICK n \in T : \A k \in T : ~(<<k, n>> \in R)
  BY <1>1, WFMin, Zenon
<1>3. \A k \in T : ~(k < n)
  BY <1>2 DEF R
<1> QED
  BY <1>3

LEMMA NextLineIs ==
  ASSUME NEW cursor \in 1 .. ScriptLines + 1
  PROVE  NextLine(cursor) \in cursor .. ScriptLines + 1
<1> DEFINE T == {n \in cursor .. ScriptLines + 1 : n \notin JobLines}
<1>1. ScriptLines \in Nat /\ JobLines \subseteq 1 .. ScriptLines
  BY TerminalAssumption
<1>2. ScriptLines + 1 \in T /\ T \subseteq Nat
  BY <1>1
<1>3. PICK n \in T : \A k \in T : n <= k
  BY <1>2, LeastNumber
<1>4. \A k \in cursor .. (n - 1) : k \in JobLines
  BY <1>1, <1>3
<1> QED
  BY <1>3, <1>4 DEF NextLine

-----------------------------------------------------------------------------
(* What the steps do to the slots and the pump.                            *)

LEMMA Made ==
  /\ NoResult \in Results
  /\ Free \in SlotRecords
  /\ \A i \in Slots : AtSlot(i) \in PumpRecords
  /\ Idle \in PumpRecords /\ Idle.at = "idle"
  /\ ~Idle.reset /\ ~Idle.have /\ Idle.in = <<>>
<1>1. NoResult \in Results
  BY DEF NoResult, Results
<1>2. 1 \in Slots
  BY TerminalAssumption DEF Slots
<1> DEFINE r == AtSlot(1)
<1>3. /\ Idle = [r EXCEPT !.at = "idle"] /\ r \in PumpRecords
      /\ ~r.reset /\ ~r.have /\ r.in = <<>>
  BY <1>1, <1>2 DEF Idle, AtSlot, PumpRecords, Targets, NoOne
<1> HIDE DEF r
<1>4. /\ Idle \in PumpRecords /\ Idle.at = "idle"
      /\ ~Idle.reset /\ ~Idle.have /\ Idle.in = <<>>
  BY <1>3 DEF PumpRecords
<1> QED
  BY <1>1, <1>4 DEF Free, SlotRecords, Targets, AtSlot, PumpRecords, NoOne

\* The next slot, or the end of the pass, with nothing in hand.
LEMMA NextSlotIs ==
  ASSUME pump \in PumpRecords
  PROVE  /\ NextSlot \in PumpRecords
         /\ NextSlot.at \in {"idle", "take"} /\ ~NextSlot.reset /\ ~NextSlot.have
         /\ NextSlot.in = <<>>
<1>1. CASE pump.slot = kMaxOrigins
  BY <1>1, Made DEF NextSlot
<1>2. CASE pump.slot # kMaxOrigins
  <2>1. pump.slot \in Slots
    BY DEF PumpRecords
  <2>2. pump.slot + 1 \in Slots
    BY <1>2, <2>1, TerminalAssumption DEF Slots
  <2>3. AtSlot(pump.slot + 1) \in PumpRecords /\ NextSlot = AtSlot(pump.slot + 1)
    BY <1>2, <2>2, Made DEF NextSlot
  <2> QED
    BY <2>3 DEF AtSlot
<1> QED
  BY <1>1, <1>2

\* find_or_alloc() and the line: the slot of the origin, which keeps what it has, or one that had
\* another origin or none and is emptied.
Received(o, link, i) ==
  /\ \A k \in Slots \ {i} : slots'[k] = slots[k]
  /\ slots'[i].used /\ slots'[i].origin = o /\ slots'[i].target = link
  /\ Len(slots'[i].in) <= kMaxPendingIn
  /\ \/ /\ i \in find(o)
        /\ slots'[i].reset = slots[i].reset /\ slots'[i].ready = slots[i].ready
        /\ slots'[i].result = slots[i].result
        /\ slots'[i].in = slots[i].in \/ slots'[i].in = Append(slots[i].in, typed[o] + 1)
     \/ /\ find(o) = {}
        /\ slots'[i].reset /\ ~slots'[i].ready
        /\ slots'[i].in = <<>> \/ slots'[i].in = <<typed[o] + 1>>

LEMMA Receives ==
  ASSUME TerminalIInv, NEW o \in Origins, NEW link \in Targets, on_terminal_in(o, link),
         slots' # slots
  PROVE  \E i \in Slots : slots' \in [Slots -> SlotRecords] /\ Received(o, link, i)
<1>1. PICK i \in Candidates(o) :
        slots' = [slots EXCEPT ![i] =
                    [find_or_alloc(o, i) EXCEPT !.target = link,
                       !.in = IF Len(@) < kMaxPendingIn THEN Append(@, typed[o] + 1) ELSE @]]
  BY DEF on_terminal_in
<1>2. i \in Slots /\ (i \notin find(o) => find(o) = {})
  <2>1. CASE find(o) # {}
    BY <2>1 DEF Candidates, find
  <2>2. CASE find(o) = {} /\ {k \in Slots : ~slots[k].used} = {}
    BY <2>2 DEF Candidates
  <2>3. CASE find(o) = {} /\ {k \in Slots : ~slots[k].used} # {}
    <3> DEFINE F == {k \in Slots : ~slots[k].used}
    <3>1. Candidates(o) = {CHOOSE n \in F : \A k \in F : n <= k}
      BY <2>3 DEF Candidates
    <3>2. F \subseteq Nat /\ F # {}
      BY <2>3, TerminalAssumption DEF Slots
    <3> HIDE DEF F
    <3>3. \E n \in F : \A k \in F : n <= k
      BY <3>2, LeastNumber
    <3>4. (CHOOSE n \in F : \A k \in F : n <= k) \in F
      BY <3>3
    <3> QED
      BY <2>3, <3>1, <3>4 DEF F
  <2> QED
    BY <2>1, <2>2, <2>3
<1> DEFINE s == find_or_alloc(o, i)
           r == [s EXCEPT !.target = link,
                   !.in = IF Len(@) < kMaxPendingIn THEN Append(@, typed[o] + 1) ELSE @]
<1>3. slots \in [Slots -> SlotRecords] /\ typed[o] \in Nat /\ kMaxPendingIn \in Nat
  BY TerminalAssumption DEF TerminalIInv, SlotsTyped, LinesTyped
<1>4. /\ i \in find(o) => s = slots[i]
      /\ i \notin find(o) => s = [Free EXCEPT !.used = TRUE, !.origin = o, !.reset = TRUE]
  BY DEF find_or_alloc
<1>5. /\ s \in SlotRecords /\ s.used /\ s.origin = o /\ Len(s.in) <= kMaxPendingIn
      /\ i \notin find(o) => s.reset /\ ~s.ready /\ s.in = <<>>
  <2>1. CASE i \in find(o)
    BY <1>2, <1>3, <1>4, <2>1 DEF find, TerminalIInv, Limits
  <2>2. CASE i \notin find(o)
    <3>1. Free.in = <<>> /\ Free.ready = FALSE /\ Free \in SlotRecords
      BY Made DEF Free
    <3> DEFINE f == [Free EXCEPT !.used = TRUE, !.origin = o, !.reset = TRUE]
    <3>2. f \in SlotRecords /\ f.used /\ f.origin = o /\ f.reset /\ f.in = <<>> /\ f.ready = FALSE
      BY <3>1 DEF SlotRecords
    <3>3. Len(<<>>) = 0
      OBVIOUS
    <3> HIDE DEF f
    <3>4. s = f
      BY <1>4, <2>2 DEF f
    <3> HIDE DEF s
    <3> QED
      BY <1>3, <2>2, <3>2, <3>3, <3>4
  <2> QED
    BY <2>1, <2>2
<1> HIDE DEF s
<1>6. s.in \in Seq(Nat) /\ Append(s.in, typed[o] + 1) \in Seq(Nat)
      /\ Len(Append(s.in, typed[o] + 1)) = Len(s.in) + 1 /\ Len(s.in) \in Nat
  BY <1>3, <1>5 DEF SlotRecords
<1>7. /\ r \in SlotRecords /\ r.used = s.used /\ r.origin = s.origin /\ r.target = link
      /\ r.reset = s.reset /\ r.ready = s.ready /\ r.result = s.result
      /\ r.in = IF Len(s.in) < kMaxPendingIn THEN Append(s.in, typed[o] + 1) ELSE s.in
  BY <1>5, <1>6 DEF SlotRecords
<1>8. Len(r.in) <= kMaxPendingIn
  BY <1>3, <1>5, <1>6, <1>7
<1> HIDE DEF r
<1>9. slots' = [slots EXCEPT ![i] = r]
  BY <1>1 DEF r, s
<1>10. /\ slots' \in [Slots -> SlotRecords] /\ slots'[i] = r
       /\ \A k \in Slots \ {i} : slots'[k] = slots[k]
  BY <1>2, <1>3, <1>7, <1>9
<1>11. <<>> \in Seq(Nat) /\ Append(<<>>, typed[o] + 1) = <<typed[o] + 1>>
  OBVIOUS
<1>12. Received(o, link, i)
  <2>1. CASE i \in find(o)
    BY <1>4, <1>5, <1>7, <1>8, <1>10, <2>1 DEF Received
  <2>2. CASE i \notin find(o)
    BY <1>2, <1>5, <1>7, <1>8, <1>10, <1>11, <2>2 DEF Received
  <2> QED
    BY <2>1, <2>2
<1> QED
  BY <1>2, <1>10, <1>12

\* unbind_target(): some slots are given up, nothing else changes in them.
LEMMA Unbinds ==
  ASSUME TerminalIInv, NEW link, unbind_target(link)
  PROVE  /\ slots' \in [Slots -> SlotRecords]
         /\ \A i \in Slots :
              /\ slots'[i].used => slots[i].used
              /\ slots'[i].origin = slots[i].origin /\ slots'[i].in = slots[i].in
              /\ slots'[i].reset = slots[i].reset /\ slots'[i].ready = slots[i].ready
              /\ slots'[i].result = slots[i].result
<1>1. slots \in [Slots -> SlotRecords]
  BY DEF TerminalIInv, SlotsTyped
<1>2. CASE slots' = slots
  BY <1>1, <1>2
<1>3. CASE slots' = [i \in Slots |-> IF slots[i].target = link
                                    THEN [slots[i] EXCEPT !.used = FALSE] ELSE slots[i]]
  <2> SUFFICES ASSUME NEW i \in Slots
               PROVE  /\ slots'[i] \in SlotRecords
                      /\ slots'[i].used => slots[i].used
                      /\ slots'[i].origin = slots[i].origin /\ slots'[i].in = slots[i].in
                      /\ slots'[i].reset = slots[i].reset /\ slots'[i].ready = slots[i].ready
                      /\ slots'[i].result = slots[i].result
    BY <1>3
  <2>1. slots[i] \in SlotRecords
    BY <1>1
  <2> DEFINE r == [slots[i] EXCEPT !.used = FALSE]
  <2>2. /\ r \in SlotRecords /\ r.used = FALSE /\ r.origin = slots[i].origin /\ r.in = slots[i].in
        /\ r.reset = slots[i].reset /\ r.ready = slots[i].ready /\ r.result = slots[i].result
    BY <2>1 DEF SlotRecords
  <2>3. slots'[i] = r \/ slots'[i] = slots[i]
    BY <1>3
  <2> HIDE DEF r
  <2> QED
    BY <2>1, <2>2, <2>3
<1> QED
  BY <1>2, <1>3 DEF unbind_target

\* The snapshot of a used slot.
Taken(i) ==
  /\ \A k \in Slots \ {i} : slots'[k] = slots[k]
  /\ slots'[i].used /\ slots'[i].origin = slots[i].origin
  /\ ~slots'[i].reset /\ ~slots'[i].ready /\ slots'[i].in = <<>>
  /\ pump'.at = "work" /\ pump'.slot = i /\ pump'.origin = slots[i].origin
  /\ pump'.reset = slots[i].reset /\ pump'.have = slots[i].ready /\ pump'.in = slots[i].in
  /\ slots[i].ready => pump'.result = slots[i].result

LEMMA Takes ==
  ASSUME TerminalIInv, PumpTake, slots[pump.slot].used
  PROVE  /\ slots' \in [Slots -> SlotRecords] /\ pump' \in PumpRecords
         /\ Taken(pump.slot) /\ UNCHANGED <<own, queue>>
<1> DEFINE i == pump.slot
           s == slots[i]
           p == [pump EXCEPT !.at = "work", !.origin = s.origin,
                   !.target = s.target, !.reset = s.reset, !.have = s.ready,
                   !.result = IF s.ready THEN s.result ELSE NoResult, !.in = s.in]
           r == [s EXCEPT !.reset = FALSE, !.ready = FALSE, !.in = <<>>,
                   !.result = IF s.ready THEN NoResult ELSE @]
<1>1. slots \in [Slots -> SlotRecords] /\ pump \in PumpRecords /\ i \in Slots /\ s \in SlotRecords
  BY DEF TerminalIInv, SlotsTyped, PumpRecords
<1>2. pump' = p /\ slots' = [slots EXCEPT ![i] = r] /\ UNCHANGED <<own, queue>>
  <2>1. UNCHANGED <<own, queue>>
    BY DEF PumpTake
  <2>2. pump' = p
    BY DEF PumpTake
  <2>3. slots' = [slots EXCEPT ![i] = r]
    BY DEF PumpTake
  <2> QED
    BY <2>1, <2>2, <2>3
<1> HIDE DEF s, i
<1>3. /\ p \in PumpRecords /\ p.at = "work" /\ p.slot = i /\ p.origin = s.origin
      /\ p.reset = s.reset /\ p.have = s.ready /\ p.in = s.in
      /\ p.result = IF s.ready THEN s.result ELSE NoResult
  BY <1>1, Made DEF PumpRecords, SlotRecords, i
<1>4. /\ r \in SlotRecords /\ r.used = s.used /\ r.origin = s.origin
      /\ r.reset = FALSE /\ r.ready = FALSE /\ r.in = <<>>
  <2>1. s.result \in Results /\ NoResult \in Results
    BY <1>1, Made DEF SlotRecords
  <2>2. <<>> \in Seq(Nat)
    OBVIOUS
  <2> DEFINE v == IF s.ready THEN NoResult ELSE s.result
  <2>3. v \in Results
    BY <2>1
  <2>4. r = [s EXCEPT !.reset = FALSE, !.ready = FALSE, !.in = <<>>, !.result = v]
    OBVIOUS
  <2> HIDE DEF r, v
  <2> QED
    BY <1>1, <2>2, <2>3, <2>4 DEF SlotRecords
<1> HIDE DEF p, r
<1>5. /\ slots' \in [Slots -> SlotRecords] /\ slots'[i] = r
      /\ \A k \in Slots \ {i} : slots'[k] = slots[k]
  BY <1>1, <1>2, <1>4
<1>6. s = slots[i] /\ s.used
  BY DEF s, i
<1>7. Taken(i)
  BY <1>2, <1>3, <1>4, <1>5, <1>6 DEF Taken
<1> QED
  BY <1>2, <1>3, <1>5, <1>7 DEF i

\* deliver_command_output(): only results change.
LEMMA Delivers ==
  ASSUME TerminalIInv, deliver_command_output
  PROVE  /\ slots' \in [Slots -> SlotRecords]
         /\ \A i \in Slots :
              /\ slots'[i].used = slots[i].used /\ slots'[i].origin = slots[i].origin
              /\ slots'[i].in = slots[i].in /\ slots'[i].reset = slots[i].reset
              /\ \/ slots'[i].ready = slots[i].ready /\ slots'[i].result = slots[i].result
                 \/ /\ slots[i].origin = shell.cmd.from
                    /\ slots'[i].result = [of |-> <<shell.cmd>>, text |-> shell.text]
<1>1. slots \in [Slots -> SlotRecords]
  BY DEF TerminalIInv, SlotsTyped
<1>2. shell.cmd \in Commands /\ shell.text \in SUBSET Commands
  BY DEF TerminalIInv, ShellTyped, Limits, deliver_command_output
<1> DEFINE res == [of |-> <<shell.cmd>>, text |-> shell.text]
<1>3. res \in Results
  BY <1>2 DEF Results
<1> HIDE DEF res
<1>4. slots' = [i \in Slots |-> IF i \in find(shell.cmd.from)
                               THEN [slots[i] EXCEPT !.ready = TRUE, !.result = res] ELSE slots[i]]
  BY DEF deliver_command_output, res
<1> SUFFICES ASSUME NEW i \in Slots
             PROVE  /\ slots'[i] \in SlotRecords
                    /\ slots'[i].used = slots[i].used /\ slots'[i].origin = slots[i].origin
                    /\ slots'[i].in = slots[i].in /\ slots'[i].reset = slots[i].reset
                    /\ \/ slots'[i].ready = slots[i].ready /\ slots'[i].result = slots[i].result
                       \/ slots[i].origin = shell.cmd.from /\ slots'[i].result = res
  BY <1>4 DEF res
<1> DEFINE r == [slots[i] EXCEPT !.ready = TRUE, !.result = res]
<1>5. slots[i] \in SlotRecords
  BY <1>1
<1>6. /\ r \in SlotRecords /\ r.used = slots[i].used /\ r.origin = slots[i].origin
      /\ r.in = slots[i].in /\ r.reset = slots[i].reset /\ r.result = res
  BY <1>3, <1>5 DEF SlotRecords
<1>7. slots'[i] = slots[i] \/ (slots'[i] = r /\ slots[i].origin = shell.cmd.from)
  BY <1>4 DEF find
<1> HIDE DEF r
<1> QED
  BY <1>5, <1>6, <1>7

-----------------------------------------------------------------------------
(* What the pump does to the lines of a slot.                              *)

\* A line goes to the queue for the origin of the snapshot.
Queues(line) ==
  Len(queue) < QueueLength /\ queue' = Append(queue, [from |-> pump.origin, line |-> line, run |-> 0])

\* The feed: the line typed ahead is dropped by a reset, kept, submitted or refused.
Worked(i) ==
  /\ \A k \in Slots \ {i} : own'[k] = own[k]
  /\ own'[i].editor = pump.in /\ (own'[i].awaiting \/ own'[i].pending = <<>>)
  /\ Len(own'[i].pending) <= 1
  /\ pump'.at = "lines" /\ pump'.slot = i /\ pump'.origin = pump.origin
  /\ ~pump'.reset /\ ~pump'.have /\ pump'.in = <<>>
  /\ \/ /\ queue' = queue
        /\ own'[i].pending = <<>> \/ (~pump.reset /\ own'[i].pending = own[i].pending)
     \/ /\ ~pump.reset /\ own[i].pending # <<>> /\ Queues(own[i].pending[1])
        /\ own'[i].pending = <<>>

LEMMA Works ==
  ASSUME TerminalIInv, PumpWork
  PROVE  /\ own' \in [Slots -> OwnRecords] /\ pump' \in PumpRecords
         /\ Worked(pump.slot) /\ UNCHANGED slots
<1> DEFINE i == pump.slot
           e == Fed(own[i])
           p == [pump EXCEPT !.at = "lines", !.reset = FALSE, !.have = FALSE,
                             !.result = NoResult, !.in = <<>>]
<1>1. /\ own \in [Slots -> OwnRecords] /\ pump \in PumpRecords /\ i \in Slots
      /\ own[i] \in OwnRecords /\ pump.in \in Seq(Nat)
  BY DEF TerminalIInv, SlotsTyped, PumpRecords
<1>2. /\ pump.at = "work" /\ pump' = p /\ UNCHANGED slots
      /\ IF ~e.awaiting /\ e.pending # <<>>
         THEN submit_line(i, [e EXCEPT !.pending = <<>>], e.pending[1])
         ELSE own' = [own EXCEPT ![i] = e] /\ UNCHANGED queue
  BY DEF PumpWork, Work
<1>3. own[i].editor = <<>> /\ Len(own[i].pending) <= 1
  BY <1>1, <1>2 DEF TerminalIInv, PumpInStep, Limits
<1>4. /\ p \in PumpRecords /\ p.at = "lines" /\ p.slot = i /\ p.origin = pump.origin
      /\ p.reset = FALSE /\ p.have = FALSE /\ p.in = <<>>
  <2>1. <<>> \in Seq(Nat)
    OBVIOUS
  <2> QED
    BY <1>1, <2>1, Made DEF PumpRecords
<1>5. /\ e \in OwnRecords /\ e.editor = pump.in
      /\ e.pending = IF pump.reset THEN <<>> ELSE own[i].pending
  <2>1. (IF pump.reset THEN <<>> ELSE own[i].editor) = <<>>
    BY <1>3
  <2>2. <<>> \o pump.in = pump.in /\ <<>> \in Seq(Nat)
    BY <1>1
  <2> DEFINE d == IF pump.reset THEN <<>> ELSE own[i].pending
             a == own[i].awaiting /\ ~pump.reset /\ ~pump.have
  <2>3. d \in Seq(Nat) /\ a \in BOOLEAN
    BY <1>1, <2>2 DEF OwnRecords
  <2>4. e = [editor |-> <<>> \o pump.in, awaiting |-> a, pending |-> d]
    BY <2>1 DEF Fed
  <2> HIDE DEF d, a, e, i
  <2>5. e \in OwnRecords /\ e.editor = pump.in /\ e.pending = d
    BY <1>1, <2>2, <2>3, <2>4 DEF OwnRecords
  <2> QED
    BY <2>5 DEF d
<1> HIDE DEF p
<1> SUFFICES /\ own' \in [Slots -> OwnRecords]
             /\ \A k \in Slots \ {i} : own'[k] = own[k]
             /\ own'[i].editor = pump.in /\ (own'[i].awaiting \/ own'[i].pending = <<>>)
             /\ Len(own'[i].pending) <= 1
             /\ \/ /\ queue' = queue
                   /\ own'[i].pending = <<>> \/ (~pump.reset /\ own'[i].pending = own[i].pending)
                \/ /\ ~pump.reset /\ own[i].pending # <<>> /\ Queues(own[i].pending[1])
                   /\ own'[i].pending = <<>>
  BY <1>2, <1>4 DEF Worked
<1> DEFINE f == [e EXCEPT !.pending = <<>>]
           g == [f EXCEPT !.awaiting = TRUE]
<1> HIDE DEF e, i
<1>6. <<>> \in Seq(Nat) /\ Len(<<>>) = 0
  OBVIOUS
<1>7. Len(e.pending) <= 1
  BY <1>3, <1>5, <1>6
<1>8. f \in OwnRecords /\ f.editor = pump.in /\ f.pending = <<>>
  BY <1>5, <1>6 DEF OwnRecords
<1> HIDE DEF f
<1>9. g \in OwnRecords /\ g.editor = pump.in /\ g.pending = <<>>
  BY <1>8 DEF OwnRecords
<1> HIDE DEF g
<1>10. CASE ~e.awaiting /\ e.pending # <<>>
  <2>1. submit_line(i, f, e.pending[1])
    BY <1>2, <1>10 DEF f
  <2>2. ~pump.reset /\ e.pending = own[i].pending
    BY <1>5, <1>10
  <2>3. \/ Queues(e.pending[1]) /\ own' = [own EXCEPT ![i] = g]
        \/ own' = [own EXCEPT ![i] = f] /\ queue' = queue
    BY <2>1 DEF submit_line, submitTerminalCommand, Queues, g
  <2>4. CASE Queues(e.pending[1]) /\ own' = [own EXCEPT ![i] = g]
    <3>1. own' \in [Slots -> OwnRecords] /\ own'[i] = g /\ \A k \in Slots \ {i} : own'[k] = own[k]
      BY <1>1, <1>9, <2>4
    <3> QED
      BY <1>6, <1>9, <1>10, <2>2, <2>4, <3>1
  <2>5. CASE own' = [own EXCEPT ![i] = f] /\ queue' = queue
    <3>1. own' \in [Slots -> OwnRecords] /\ own'[i] = f /\ \A k \in Slots \ {i} : own'[k] = own[k]
      BY <1>1, <1>8, <2>5
    <3> QED
      BY <1>6, <1>8, <2>5, <3>1
  <2> QED
    BY <2>3, <2>4, <2>5
<1>11. CASE ~(~e.awaiting /\ e.pending # <<>>)
  <2>1. own' = [own EXCEPT ![i] = e] /\ queue' = queue
    BY <1>2, <1>11
  <2>2. own' \in [Slots -> OwnRecords] /\ own'[i] = e /\ \A k \in Slots \ {i} : own'[k] = own[k]
    BY <1>1, <1>5, <2>1
  <2>3. e.pending = <<>> \/ (~pump.reset /\ e.pending = own[i].pending)
    BY <1>5
  <2> QED
    BY <1>5, <1>7, <1>11, <2>1, <2>2, <2>3
<1> QED
  BY <1>10, <1>11

\* One line out of the editor: submitted, typed ahead or dropped.
Lined(i) ==
  /\ pump.at = "lines" /\ own[i].editor # <<>>
  /\ \A k \in Slots \ {i} : own'[k] = own[k]
  /\ own'[i].editor = Tail(own[i].editor) /\ (own'[i].awaiting \/ own'[i].pending = <<>>)
  /\ Len(own'[i].pending) <= 1
  /\ \/ own[i].pending = <<>> /\ Queues(Head(own[i].editor)) /\ own'[i].pending = <<>>
     \/ /\ queue' = queue
        /\ \/ own'[i].pending = own[i].pending
           \/ own[i].pending = <<>> /\ own'[i].pending = <<Head(own[i].editor)>>

LEMMA Lines ==
  ASSUME TerminalIInv, PumpLine
  PROVE  own' \in [Slots -> OwnRecords] /\ Lined(pump.slot) /\ UNCHANGED <<slots, pump>>
<1> DEFINE i == pump.slot
           e == own[i]
           r == [e EXCEPT !.editor = Tail(@)]
           a == [r EXCEPT !.awaiting = TRUE]
           h == [r EXCEPT !.pending = <<Head(e.editor)>>]
<1>1. own \in [Slots -> OwnRecords] /\ i \in Slots /\ e \in OwnRecords
  BY DEF TerminalIInv, SlotsTyped, PumpRecords
<1>2. /\ pump.at = "lines" /\ e.editor # <<>> /\ UNCHANGED <<slots, pump>>
      /\ IF ~e.awaiting THEN submit_line(i, r, Head(e.editor))
         ELSE /\ own' = [own EXCEPT ![i] = IF e.pending = <<>> THEN h ELSE r]
              /\ UNCHANGED queue
  BY DEF PumpLine
<1>3. (e.awaiting \/ e.pending = <<>>) /\ Len(e.pending) <= 1
  BY <1>1, <1>2 DEF TerminalIInv, PumpInStep, Limits
<1> HIDE DEF i, e
<1>4. /\ e.editor \in Seq(Nat) /\ Tail(e.editor) \in Seq(Nat) /\ Head(e.editor) \in Nat
      /\ <<Head(e.editor)>> \in Seq(Nat) /\ Len(<<Head(e.editor)>>) = 1
  BY <1>1, <1>2, HeadTailProperties DEF OwnRecords
<1>5. /\ r \in OwnRecords /\ r.editor = Tail(e.editor) /\ r.awaiting = e.awaiting
      /\ r.pending = e.pending
  BY <1>1, <1>4 DEF OwnRecords
<1> HIDE DEF r
<1>6. /\ a \in OwnRecords /\ a.editor = Tail(e.editor) /\ a.awaiting = TRUE
      /\ a.pending = e.pending
  BY <1>5 DEF OwnRecords
<1>7. /\ h \in OwnRecords /\ h.editor = Tail(e.editor) /\ h.awaiting = e.awaiting
      /\ h.pending = <<Head(e.editor)>>
  BY <1>4, <1>5 DEF OwnRecords
<1> HIDE DEF a, h
<1>8. \/ ~e.awaiting /\ Queues(Head(e.editor)) /\ own' = [own EXCEPT ![i] = a]
      \/ queue' = queue /\ own' = [own EXCEPT ![i] = r]
      \/ e.awaiting /\ e.pending = <<>> /\ queue' = queue /\ own' = [own EXCEPT ![i] = h]
  BY <1>2 DEF submit_line, submitTerminalCommand, Queues, a
<1>9. ASSUME NEW v \in OwnRecords, own' = [own EXCEPT ![i] = v]
      PROVE  own' \in [Slots -> OwnRecords] /\ own'[i] = v /\ \A k \in Slots \ {i} : own'[k] = own[k]
  BY <1>1, <1>9
<1>10. e = own[i]
  BY DEF e
<1> SUFFICES own' \in [Slots -> OwnRecords] /\ Lined(i)
  BY <1>2 DEF i
<1>11. CASE ~e.awaiting /\ Queues(Head(e.editor)) /\ own' = [own EXCEPT ![i] = a]
  BY <1>2, <1>3, <1>6, <1>9, <1>10, <1>11 DEF Lined
<1>12. CASE queue' = queue /\ own' = [own EXCEPT ![i] = r]
  BY <1>2, <1>3, <1>5, <1>9, <1>10, <1>12 DEF Lined
<1>13. CASE e.awaiting /\ e.pending = <<>> /\ queue' = queue /\ own' = [own EXCEPT ![i] = h]
  <2>1. own' \in [Slots -> OwnRecords] /\ own'[i] = h /\ \A k \in Slots \ {i} : own'[k] = own[k]
    BY <1>7, <1>9, <1>13
  <2>2. h.awaiting /\ Len(h.pending) <= 1
    BY <1>4, <1>7, <1>13
  <2> QED
    BY <1>2, <1>7, <1>10, <1>13, <2>1, <2>2 DEF Lined
<1> QED
  BY <1>8, <1>11, <1>12, <1>13

-----------------------------------------------------------------------------
(* What the other steps do.                                                *)

\* A pass of pump() begins, or goes to the next slot or to its end; or it has a used slot at hand.
Moves == PumpCall \/ PumpMiss \/ PumpEmit \/ (PumpTake /\ ~slots[pump.slot].used)
Snaps == PumpTake /\ slots[pump.slot].used

LEMMA PumpCases ==
  PumpCall \/ PumpPass => Moves \/ Snaps \/ PumpWork \/ PumpLine
BY DEF PumpPass, Moves, Snaps

LEMMA MovesOn ==
  ASSUME TerminalIInv, Moves
  PROVE  /\ pump' \in PumpRecords /\ pump.at # "work"
         /\ pump'.at \in {"idle", "take"} /\ ~pump'.reset /\ ~pump'.have /\ pump'.in = <<>>
         /\ \A i \in Slots : own[i].editor = <<>>
         /\ UNCHANGED <<slots, own, queue, pumpOnly>>
<1>1. pump \in PumpRecords
  BY DEF TerminalIInv, SlotsTyped
<1>2. pump' \in {NextSlot, AtSlot(1)} /\ pump.at # "work"
  BY DEF Moves, PumpCall, PumpMiss, PumpEmit, PumpTake
<1>3. UNCHANGED <<slots, own, queue, pumpOnly>>
  BY DEF Moves, PumpCall, PumpMiss, PumpEmit, PumpTake
<1>4. \A i \in Slots : own[i].editor = <<>>
  BY DEF TerminalIInv, PumpInStep, Moves, PumpCall, PumpMiss, PumpEmit, PumpTake
<1>5. /\ AtSlot(1) \in PumpRecords /\ AtSlot(1).at = "take"
      /\ ~AtSlot(1).reset /\ ~AtSlot(1).have /\ AtSlot(1).in = <<>>
  BY Made, TerminalAssumption DEF AtSlot, Slots
<1> QED
  BY <1>1, <1>2, <1>3, <1>4, <1>5, NextSlotIs

\* Text goes into the buffer only while a capture is on.
LEMMA Captures ==
  ASSUME NEW cmd \in Commands, NEW cap \in [active : BOOLEAN, buf : SUBSET Commands]
  PROVE  /\ capture_text(cmd, cap) \in [active : BOOLEAN, buf : SUBSET Commands]
         /\ capture_text(cmd, cap).active = cap.active
         /\ cap.active => capture_text(cmd, cap).buf = cap.buf \cup {cmd}
         /\ ~cap.active => capture_text(cmd, cap).buf = cap.buf
<1> DEFINE r == [cap EXCEPT !.buf = cap.buf \cup {cmd}]
<1>1. r \in [active : BOOLEAN, buf : SUBSET Commands] /\ r.active = cap.active
      /\ r.buf = cap.buf \cup {cmd}
  OBVIOUS
<1>2. capture_text(cmd, cap) = IF cap.active THEN r ELSE cap
  BY DEF capture_text
<1> HIDE DEF r
<1> QED
  BY <1>1, <1>2

\* The command it runs may start a script.
Started ==
  /\ ~script.active /\ script' = [active |-> TRUE, cursor |-> 1]
  /\ bounds'.scripts = bounds.scripts + 1

\* The shell runs the command at the head of the queue.
Ran(cmd) ==
  /\ \A f \in Origins \cup {"script"} : ran'[f] = IF f = cmd.from THEN cmd ELSE ran[f]
  /\ \/ script' = script /\ bounds'.scripts = bounds.scripts
     \/ Started
  /\ \/ /\ cmd.from # "script" /\ shell'.at = "end" /\ shell'.cmd = cmd /\ shell'.text = {}
        /\ \/ capture'.active /\ capture'.buf = {cmd} /\ bounds'.timeouts = bounds.timeouts
           \/ bounds'.timeouts = bounds.timeouts + 1 /\ capture' = capture_text(cmd, capture)
     \/ /\ cmd.from = "script" /\ UNCHANGED <<shell, bounds>>
        /\ capture' = capture_text(cmd, capture)

LEMMA Runs ==
  ASSUME TerminalIInv, run_command_line
  PROVE  /\ queue # <<>> /\ queue' = Tail(queue) /\ Head(queue) \in Commands
         /\ shell.at = "idle" /\ Ran(Head(queue)) /\ LinesTyped' /\ ShellTyped'
         /\ UNCHANGED <<slots, own, pump, bound, typed>>
<1> DEFINE cmd == Head(queue)
<1>1. queue \in Seq(Commands) /\ queue # <<>> /\ queue' = Tail(queue) /\ shell.at = "idle"
      /\ UNCHANGED <<slots, own, pump, bound, typed>>
  BY DEF TerminalIInv, ShellTyped, run_command_line, fromShell
<1>2. cmd \in Commands /\ Tail(queue) \in Seq(Commands)
  BY <1>1, HeadTailProperties
<1>3. cmd.from \in Origins \cup {"script"} /\ cmd.line \in Nat
  BY <1>2 DEF Commands
<1>4. ran' = [ran EXCEPT ![cmd.from] = cmd] /\ (RunTyped(cmd) \/ RunLocal(cmd))
  BY DEF run_command_line
<1> HIDE DEF cmd
<1>5. ran \in [Origins \cup {"script"} -> Commands]
  BY DEF TerminalIInv, LinesTyped
<1>6. /\ ran' \in [Origins \cup {"script"} -> Commands]
      /\ \A f \in Origins \cup {"script"} : ran'[f] = IF f = cmd.from THEN cmd ELSE ran[f]
  BY <1>2, <1>3, <1>4, <1>5
<1> DEFINE B == [lines : Nat, timeouts : Nat, scripts : Nat]
           S == [active : BOOLEAN, cursor : 1 .. ScriptLines + 1]
           T == [active : BOOLEAN, buf : SUBSET Commands]
           one == capture_text(cmd, [active |-> TRUE, buf |-> {}])
           all == capture_text(cmd, capture)
<1>7. bounds \in B /\ script \in S /\ capture \in T /\ ScriptLines \in Nat
  BY TerminalAssumption DEF TerminalIInv, LinesTyped, ShellTyped
<1>8. one \in T /\ one.active = TRUE /\ one.buf = {cmd}
  <2>1. [active |-> TRUE, buf |-> {}] \in T
    OBVIOUS
  <2> DEFINE c == [active |-> TRUE, buf |-> {}]
  <2>2. c \in T /\ c.active = TRUE /\ c.buf = {}
    BY <2>1
  <2> HIDE DEF c
  <2>3. /\ capture_text(cmd, c) \in T /\ capture_text(cmd, c).active = TRUE
        /\ capture_text(cmd, c).buf = {cmd}
    BY <1>2, <2>2, Captures
  <2> QED
    BY <2>3 DEF c
<1>9. all \in T
  BY <1>2, <1>7, Captures
<1> HIDE DEF one, all
<1>10. ASSUME RunTyped(cmd)
       PROVE  /\ cmd.from # "script" /\ shell' = [at |-> "end", cmd |-> cmd, text |-> {}]
              /\ capture' \in T /\ bounds' \in B /\ script' \in S
              /\ \/ script' = script /\ bounds'.scripts = bounds.scripts
                 \/ Started
              /\ \/ capture' = one /\ bounds'.timeouts = bounds.timeouts
                 \/ bounds'.timeouts = bounds.timeouts + 1 /\ capture' = all
  <2>1. /\ cmd.from # "script" /\ shell' = [at |-> "end", cmd |-> cmd, text |-> {}]
        /\ \/ capture' = one /\ UNCHANGED <<bounds, script>>
           \/ /\ bounds' = [bounds EXCEPT !.timeouts = bounds.timeouts + 1] /\ capture' = all
              /\ UNCHANGED script
           \/ startScript /\ capture' = one
    BY <1>10 DEF RunTyped, begin_capture, TimesOut, one, all
  <2>2. CASE capture' = one /\ UNCHANGED <<bounds, script>>
    BY <1>7, <1>8, <2>1, <2>2
  <2>3. CASE bounds' = [bounds EXCEPT !.timeouts = bounds.timeouts + 1] /\ capture' = all
             /\ UNCHANGED script
    <3>1. /\ bounds' \in B /\ bounds'.timeouts = bounds.timeouts + 1
          /\ bounds'.scripts = bounds.scripts
      BY <1>7, <2>3
    <3> QED
      BY <1>7, <1>9, <2>1, <2>3, <3>1
  <2>4. CASE startScript /\ capture' = one
    <3>1. /\ ~script.active /\ script' = [active |-> TRUE, cursor |-> 1]
          /\ bounds' = [bounds EXCEPT !.scripts = bounds.scripts + 1]
      BY <2>4 DEF startScript
    <3>2. /\ bounds' \in B /\ bounds'.timeouts = bounds.timeouts
          /\ bounds'.scripts = bounds.scripts + 1
      BY <1>7, <3>1
    <3>3. script' \in S /\ Started
      BY <1>7, <3>1, <3>2 DEF Started
    <3> QED
      BY <1>8, <2>1, <2>4, <3>2, <3>3
  <2> QED
    BY <2>1, <2>2, <2>3, <2>4
<1>11. ASSUME RunLocal(cmd)
       PROVE  /\ cmd.from = "script" /\ UNCHANGED <<shell, script, bounds>> /\ capture' = all
  BY <1>11 DEF RunLocal, all
<1>12. LinesTyped'
  BY <1>1, <1>4, <1>6, <1>7, <1>10, <1>11 DEF TerminalIInv, LinesTyped
<1>13. ShellTyped'
  BY <1>1, <1>2, <1>4, <1>9, <1>10, <1>11 DEF TerminalIInv, ShellTyped
<1>14. Ran(cmd)
  BY <1>4, <1>6, <1>8, <1>10, <1>11 DEF Ran, all
<1> QED
  BY <1>1, <1>2, <1>12, <1>13, <1>14 DEF cmd

\* end_capture(): the text is had, or the wait ran out.
Ended ==
  /\ shell.at = "end" /\ shell'.at = "deliver" /\ shell'.cmd = shell.cmd
  /\ bounds'.scripts = bounds.scripts
  /\ \/ /\ shell'.text = capture.buf /\ ~capture'.active /\ capture'.buf = {}
        /\ bounds'.timeouts = bounds.timeouts
     \/ shell'.text = shell.text /\ UNCHANGED capture /\ bounds'.timeouts = bounds.timeouts + 1

LEMMA Ends ==
  ASSUME TerminalIInv, end_capture
  PROVE  /\ Ended /\ LinesTyped' /\ ShellTyped'
         /\ UNCHANGED <<slots, own, pump, queue, bound, script, typed, ran>>
<1> DEFINE B == [lines : Nat, timeouts : Nat, scripts : Nat]
           T == [active : BOOLEAN, buf : SUBSET Commands]
           H == [at : {"idle", "end", "deliver"}, cmd : Commands \cup {NoCommand},
                 text : SUBSET Commands]
<1>1. bounds \in B /\ capture \in T /\ shell \in H /\ shell.at = "end"
      /\ UNCHANGED <<slots, own, pump, queue, bound, script, typed, ran>>
  BY DEF TerminalIInv, LinesTyped, ShellTyped, end_capture, fromShell
<1>2. \/ /\ shell' = [shell EXCEPT !.at = "deliver", !.text = capture.buf]
         /\ capture' = [active |-> FALSE, buf |-> {}] /\ UNCHANGED bounds
      \/ /\ shell' = [shell EXCEPT !.at = "deliver"] /\ UNCHANGED capture
         /\ bounds' = [bounds EXCEPT !.timeouts = bounds.timeouts + 1]
  BY DEF end_capture, TimesOut
<1>3. Ended /\ bounds' \in B /\ capture' \in T /\ shell' \in H
  <2>1. CASE shell' = [shell EXCEPT !.at = "deliver", !.text = capture.buf]
             /\ capture' = [active |-> FALSE, buf |-> {}] /\ UNCHANGED bounds
    BY <1>1, <2>1 DEF Ended
  <2>2. CASE shell' = [shell EXCEPT !.at = "deliver"] /\ UNCHANGED capture
             /\ bounds' = [bounds EXCEPT !.timeouts = bounds.timeouts + 1]
    BY <1>1, <2>2 DEF Ended
  <2> QED
    BY <1>2, <2>1, <2>2
<1> QED
  BY <1>1, <1>3 DEF TerminalIInv, LinesTyped, ShellTyped

\* pollScript(): the next line is queued, or the script is over.
Polled ==
  LET line == NextLine(script.cursor) IN
  /\ script.active
  /\ \/ /\ line = ScriptLines + 1 /\ queue' = queue
        /\ script'.cursor = 1 /\ ~script'.active
     \/ /\ line # ScriptLines + 1 /\ Len(queue) < QueueLength
        /\ queue' = Append(queue, [from |-> "script", line |-> line, run |-> bounds.scripts])
        /\ script'.cursor = line + 1 /\ script'.active

LEMMA Polls ==
  ASSUME TerminalIInv, pollScript
  PROVE  /\ Polled /\ LinesTyped' /\ ShellTyped'
         /\ UNCHANGED <<slots, own, pump, shell, capture, bound, bounds, typed, ran>>
<1> DEFINE S == [active : BOOLEAN, cursor : 1 .. ScriptLines + 1]
           line == NextLine(script.cursor)
           c == [from |-> "script", line |-> line, run |-> bounds.scripts]
<1>1. script \in S /\ queue \in Seq(Commands) /\ ScriptLines \in Nat
      /\ UNCHANGED <<slots, own, pump, shell, capture, bound, bounds, typed, ran>>
  BY TerminalAssumption DEF TerminalIInv, LinesTyped, ShellTyped, pollScript
<1>2. line \in script.cursor .. ScriptLines + 1
  BY <1>1, NextLineIs
<1>3. \/ line > ScriptLines /\ script' = [active |-> FALSE, cursor |-> 1] /\ UNCHANGED queue
      \/ /\ ~(line > ScriptLines) /\ script' = [script EXCEPT !.cursor = line + 1]
         /\ Len(queue) < QueueLength /\ queue' = Append(queue, c)
  BY DEF pollScript, submitLocalCommand
<1> HIDE DEF line
<1>4. c \in Commands /\ script.active
  BY <1>1, <1>2 DEF Commands, pollScript, TerminalIInv, LinesTyped
<1> HIDE DEF c
<1>5. Append(queue, c) \in Seq(Commands)
  BY <1>1, <1>4, AppendProperties
<1>6. CASE line > ScriptLines /\ script' = [active |-> FALSE, cursor |-> 1] /\ UNCHANGED queue
  <2>1. script' \in S /\ script'.cursor = 1 /\ ~script'.active /\ line = ScriptLines + 1
    BY <1>1, <1>2, <1>6
  <2> QED
    BY <1>1, <1>4, <1>6, <2>1 DEF TerminalIInv, LinesTyped, ShellTyped, Polled, line
<1>7. CASE /\ ~(line > ScriptLines) /\ script' = [script EXCEPT !.cursor = line + 1]
           /\ Len(queue) < QueueLength /\ queue' = Append(queue, c)
  <2>1. script' \in S /\ script'.cursor = line + 1 /\ script'.active
    BY <1>1, <1>2, <1>4, <1>7
  <2> QED
    BY <1>1, <1>4, <1>5, <1>7, <2>1 DEF TerminalIInv, LinesTyped, ShellTyped, Polled, line, c
<1> QED
  BY <1>3, <1>6, <1>7

-----------------------------------------------------------------------------
(* Each part of the invariant is kept: types and slots.                    *)

\* The fields keep their types.
LEMMA SlotsTypedStep ==
  ASSUME TerminalIInv, TerminalNext PROVE SlotsTyped'
<1> USE DEF TerminalIInv
<1>1. ASSUME NEW o \in Origins, NEW link \in Targets, on_terminal_in(o, link)
      PROVE  SlotsTyped'
  <2>1. UNCHANGED <<own, pump>>
    BY <1>1 DEF on_terminal_in
  <2> QED
    BY <1>1, <2>1, Receives DEF SlotsTyped
<1>2. ASSUME NEW link \in Links, bind_target(link)
      PROVE  SlotsTyped'
  BY <1>2 DEF bind_target, SlotsTyped
<1>3. ASSUME NEW link \in Links, unbind_target(link)
      PROVE  SlotsTyped'
  BY <1>3, Unbinds DEF unbind_target, SlotsTyped
<1>4. CASE Moves
  BY <1>4, MovesOn DEF SlotsTyped
<1>5. CASE Snaps
  BY <1>5, Takes DEF Snaps, SlotsTyped
<1>6. CASE PumpWork
  BY <1>6, Works DEF SlotsTyped
<1>7. CASE PumpLine
  BY <1>7, Lines DEF SlotsTyped
<1>8. CASE run_command_line
  BY <1>8, Runs DEF SlotsTyped
<1>9. CASE end_capture
  BY <1>9, Ends DEF SlotsTyped
<1>10. CASE deliver_command_output
  <2>1. UNCHANGED <<own, pump>>
    BY <1>10 DEF deliver_command_output, fromShell
  <2> QED
    BY <1>10, <2>1, Delivers DEF SlotsTyped
<1>11. CASE pollScript
  BY <1>11, Polls DEF SlotsTyped
<1> QED
  BY <1>1, <1>2, <1>3, <1>4, <1>5, <1>6, <1>7, <1>8, <1>9, <1>10, <1>11,
     PumpCases DEF TerminalNext, ShellTask, Targets


\* What pump() submits: a number, of the origin at hand.
LEMMA Submits ==
  ASSUME TerminalIInv, AtWork, NEW line \in Nat, Queues(line)
  PROVE  /\ [from |-> pump.origin, line |-> line, run |-> 0] \in Commands /\ pump.origin \in Origins
         /\ queue' \in Seq(Commands) /\ Len(queue') <= QueueLength
<1> DEFINE c == [from |-> pump.origin, line |-> line, run |-> 0]
<1>1. pump.origin \in Origins /\ queue \in Seq(Commands) /\ QueueLength \in Nat
  BY TerminalAssumption DEF TerminalIInv, PumpInStep, ShellTyped
<1>2. c \in Commands
  BY <1>1 DEF Commands
<1> HIDE DEF c
<1>3. queue' = Append(queue, c) /\ Len(queue) < QueueLength
  BY DEF Queues, c
<1> QED
  BY <1>1, <1>2, <1>3, AppendProperties, LenProperties DEF c

\* A slot's line typed ahead, if it is the one pump() has at hand.
LEMMA WorkQueue ==
  ASSUME TerminalIInv, PumpWork
  PROVE  /\ AtWork /\ UNCHANGED pumpOnly
         /\ \/ queue' = queue
            \/ Queues(own[pump.slot].pending[1]) /\ own[pump.slot].pending[1] \in Nat
               /\ 1 \in DOMAIN own[pump.slot].pending
<1> DEFINE s == own[pump.slot].pending
<1>1. s \in Seq(Nat)
  BY DEF TerminalIInv, SlotsTyped, PumpRecords, OwnRecords
<1>2. queue' = queue \/ (s # <<>> /\ Queues(s[1]))
  <2>1. Worked(pump.slot)
    BY Works
  <2> QED
    BY <2>1 DEF Worked
<1> HIDE DEF s
<1>3. s # <<>> => 1 \in DOMAIN s /\ s[1] \in Nat
  BY <1>1
<1>4. AtWork /\ UNCHANGED pumpOnly
  BY DEF PumpWork, Work, AtWork
<1> QED
  BY <1>2, <1>3, <1>4 DEF s

LEMMA LineQueue ==
  ASSUME TerminalIInv, PumpLine
  PROVE  /\ AtWork /\ UNCHANGED pumpOnly
         /\ own[pump.slot].editor \in Seq(Nat) /\ own[pump.slot].editor # <<>>
         /\ \/ queue' = queue
            \/ Queues(Head(own[pump.slot].editor)) /\ Head(own[pump.slot].editor) \in Nat
<1> DEFINE s == own[pump.slot].editor
<1>1. s \in Seq(Nat) /\ s # <<>>
  BY DEF TerminalIInv, SlotsTyped, PumpRecords, OwnRecords, PumpLine
<1>2. queue' = queue \/ Queues(Head(s))
  BY Lines DEF Lined
<1>3. AtWork /\ UNCHANGED pumpOnly
  BY DEF PumpLine, AtWork
<1> HIDE DEF s
<1>4. Head(s) \in Nat
  BY <1>1
<1> QED
  BY <1>1, <1>2, <1>3, <1>4 DEF s

LEMMA ShellTypedStep ==
  ASSUME TerminalIInv, TerminalNext PROVE ShellTyped'
<1> USE DEF TerminalIInv
<1>1. ASSUME NEW o \in Origins, NEW link \in Targets, on_terminal_in(o, link)
      PROVE  ShellTyped'
  BY <1>1 DEF on_terminal_in, ShellTyped
<1>2. ASSUME NEW link \in Links, bind_target(link)
      PROVE  ShellTyped'
  BY <1>2 DEF bind_target, ShellTyped
<1>3. ASSUME NEW link \in Links, unbind_target(link)
      PROVE  ShellTyped'
  BY <1>3 DEF unbind_target, ShellTyped
<1>4. CASE Moves
  BY <1>4, MovesOn DEF ShellTyped, pumpOnly
<1>5. CASE Snaps
  <2>1. UNCHANGED <<queue, pumpOnly>>
    BY <1>5 DEF Snaps, PumpTake
  <2> QED
    BY <2>1 DEF ShellTyped, pumpOnly
<1>6. CASE PumpWork
  BY <1>6, WorkQueue, Submits DEF ShellTyped, pumpOnly
<1>7. CASE PumpLine
  BY <1>7, LineQueue, Submits DEF ShellTyped, pumpOnly
<1>8. CASE run_command_line
  BY <1>8, Runs
<1>9. CASE end_capture
  BY <1>9, Ends
<1>10. CASE deliver_command_output
  <2>1. UNCHANGED <<queue, capture>> /\ shell' = [at |-> "idle", cmd |-> NoCommand, text |-> {}]
    BY <1>10 DEF deliver_command_output, fromShell
  <2> QED
    BY <2>1 DEF ShellTyped
<1>11. CASE pollScript
  BY <1>11, Polls
<1> QED
  BY <1>1, <1>2, <1>3, <1>4, <1>5, <1>6, <1>7, <1>8, <1>9, <1>10, <1>11,
     PumpCases DEF TerminalNext, ShellTask, Targets


LEMMA LinesTypedStep ==
  ASSUME TerminalIInv, TerminalNext PROVE LinesTyped'
<1> USE DEF TerminalIInv
<1>1. ASSUME NEW o \in Origins, NEW link \in Targets, on_terminal_in(o, link)
      PROVE  LinesTyped'
  <2>1. /\ bounds' = [bounds EXCEPT !.lines = bounds.lines + 1]
        /\ typed' = [typed EXCEPT ![o] = typed[o] + 1] /\ UNCHANGED <<bound, script, ran>>
    BY <1>1 DEF on_terminal_in
  <2> QED
    BY <2>1 DEF LinesTyped
<1>2. ASSUME NEW link \in Links, bind_target(link)
      PROVE  LinesTyped'
  BY <1>2 DEF bind_target, LinesTyped
<1>3. ASSUME NEW link \in Links, unbind_target(link)
      PROVE  LinesTyped'
  BY <1>3 DEF unbind_target, LinesTyped
<1>4. CASE Moves
  BY <1>4, MovesOn DEF LinesTyped, pumpOnly
<1>5. CASE Snaps
  <2>1. UNCHANGED pumpOnly
    BY <1>5 DEF Snaps, PumpTake
  <2> QED
    BY <2>1 DEF LinesTyped, pumpOnly
<1>6. CASE PumpWork
  BY <1>6, WorkQueue DEF LinesTyped, pumpOnly
<1>7. CASE PumpLine
  BY <1>7, LineQueue DEF LinesTyped, pumpOnly
<1>8. CASE run_command_line
  BY <1>8, Runs
<1>9. CASE end_capture
  BY <1>9, Ends
<1>10. CASE deliver_command_output
  BY <1>10 DEF deliver_command_output, fromShell, LinesTyped
<1>11. CASE pollScript
  BY <1>11, Polls
<1> QED
  BY <1>1, <1>2, <1>3, <1>4, <1>5, <1>6, <1>7, <1>8, <1>9, <1>10, <1>11,
     PumpCases DEF TerminalNext, ShellTask, Targets


\* The queue, the hand-off buffers and the line typed ahead keep to their bounds.
LEMMA LimitsStep ==
  ASSUME TerminalIInv, TerminalNext PROVE Limits'
<1> USE DEF TerminalIInv
<1>1. ASSUME NEW o \in Origins, NEW link \in Targets, on_terminal_in(o, link)
      PROVE  Limits'
  <2>1. UNCHANGED <<own, queue, shell>>
    BY <1>1 DEF on_terminal_in
  <2>2. CASE slots' = slots
    BY <2>1, <2>2 DEF Limits
  <2>3. CASE slots' # slots
    <3>1. PICK i \in Slots : Received(o, link, i)
      BY <1>1, <2>3, Receives
    <3> QED
      BY <2>1, <3>1 DEF Limits, Received
  <2> QED
    BY <2>2, <2>3
<1>2. ASSUME NEW link \in Links, bind_target(link)
      PROVE  Limits'
  BY <1>2 DEF bind_target, Limits
<1>3. ASSUME NEW link \in Links, unbind_target(link)
      PROVE  Limits'
  <2>1. UNCHANGED <<own, queue, shell>>
    BY <1>3 DEF unbind_target
  <2> QED
    BY <1>3, <2>1, Unbinds DEF Limits
<1>4. CASE Moves
  BY <1>4, MovesOn DEF Limits, pumpOnly
<1>5. CASE Snaps
  <2>1. UNCHANGED <<own, queue, pumpOnly>>
    BY <1>5 DEF Snaps, PumpTake
  <2>2. Taken(pump.slot)
    BY <1>5, Takes DEF Snaps
  <2>3. Len(<<>>) = 0 /\ kMaxPendingIn \in Nat
    BY TerminalAssumption
  <2>4. slots[pump.slot].used
    BY <1>5 DEF Snaps
  <2>5. \A i \in Slots : slots'[i].used => slots[i].used /\ slots'[i].origin = slots[i].origin
    BY <2>2, <2>4 DEF Taken
  <2>6. \A i \in Slots : Len(slots'[i].in) <= kMaxPendingIn
    BY <2>2, <2>3 DEF Taken, Limits
  <2> QED
    BY <2>1, <2>5, <2>6 DEF Limits, pumpOnly
<1>6. CASE PumpWork
  <2>1. Worked(pump.slot) /\ UNCHANGED slots
    BY <1>6, Works
  <2>2. Len(queue') <= QueueLength
    BY <1>6, WorkQueue, Submits DEF Limits
  <2> QED
    BY <1>6, <2>1, <2>2, WorkQueue DEF Limits, pumpOnly, Worked
<1>7. CASE PumpLine
  <2>1. Lined(pump.slot) /\ UNCHANGED slots
    BY <1>7, Lines
  <2>2. Len(queue') <= QueueLength
    BY <1>7, LineQueue, Submits DEF Limits
  <2> QED
    BY <1>7, <2>1, <2>2, LineQueue DEF Limits, pumpOnly, Lined
<1>8. CASE run_command_line
  <2>1. Len(queue') <= QueueLength
    BY <1>8, Runs, TerminalAssumption, HeadTailProperties DEF Limits, ShellTyped
  <2> QED
    BY <1>8, <2>1, Runs DEF Limits, Ran
<1>9. CASE end_capture
  BY <1>9, Ends DEF Limits, Ended
<1>10. CASE deliver_command_output
  <2>1. UNCHANGED <<own, queue>> /\ shell'.at = "idle"
    BY <1>10 DEF deliver_command_output, fromShell
  <2> QED
    BY <1>10, <2>1, Delivers DEF Limits
<1>11. CASE pollScript
  <2>1. Len(queue') <= QueueLength
    BY <1>11, Polls, TerminalAssumption, LenProperties DEF Limits, ShellTyped, Polled
  <2> QED
    BY <1>11, <2>1, Polls DEF Limits
<1> QED
  BY <1>1, <1>2, <1>3, <1>4, <1>5, <1>6, <1>7, <1>8, <1>9, <1>10, <1>11,
     PumpCases DEF TerminalNext, ShellTask, Targets


\* A slot is given to an origin only when no slot has it.
LEMMA OneSlotStep ==
  ASSUME TerminalIInv, TerminalNext PROVE OneSlotEach'
<1> USE DEF TerminalIInv
<1>1. ASSUME NEW o \in Origins, NEW link \in Targets, on_terminal_in(o, link)
      PROVE  OneSlotEach'
  <2>1. CASE slots' = slots
    BY <2>1 DEF OneSlotEach
  <2>2. CASE slots' # slots
    <3>1. PICK i \in Slots : Received(o, link, i)
      BY <1>1, <2>2, Receives
    <3>2. \A k \in Slots \ {i} : ~(slots[k].used /\ slots[k].origin = o)
      BY <3>1 DEF OneSlotEach, Received, find
    <3> QED
      BY <3>1, <3>2 DEF OneSlotEach, Received
  <2> QED
    BY <2>1, <2>2
<1>2. ASSUME NEW link \in Links, bind_target(link)
      PROVE  OneSlotEach'
  BY <1>2 DEF bind_target, OneSlotEach
<1>3. ASSUME NEW link \in Links, unbind_target(link)
      PROVE  OneSlotEach'
  BY <1>3, Unbinds DEF OneSlotEach
<1>4. CASE Moves
  BY <1>4, MovesOn DEF OneSlotEach
<1>5. CASE Snaps
  BY <1>5, Takes DEF Snaps, Taken, OneSlotEach
<1>6. CASE PumpWork
  BY <1>6, Works DEF OneSlotEach
<1>7. CASE PumpLine
  BY <1>7, Lines DEF OneSlotEach
<1>8. CASE run_command_line
  BY <1>8, Runs DEF OneSlotEach
<1>9. CASE end_capture
  BY <1>9, Ends DEF OneSlotEach
<1>10. CASE deliver_command_output
  BY <1>10, Delivers DEF OneSlotEach
<1>11. CASE pollScript
  BY <1>11, Polls DEF OneSlotEach
<1> QED
  BY <1>1, <1>2, <1>3, <1>4, <1>5, <1>6, <1>7, <1>8, <1>9, <1>10, <1>11,
     PumpCases DEF TerminalNext, ShellTask, Targets



-----------------------------------------------------------------------------
(* Results, captures and the pump.                                         *)

\* A result goes to the slot of the origin it is for, and on to the pump with the origin.
LEMMA ResultsPlacedStep ==
  ASSUME TerminalIInv, TerminalNext PROVE ResultsPlaced'
<1> USE DEF TerminalIInv
<1>1. ASSUME NEW o \in Origins, NEW link \in Targets, on_terminal_in(o, link)
      PROVE  ResultsPlaced'
  <2>1. pump' = pump /\ bounds'.timeouts = bounds.timeouts
    BY <1>1 DEF on_terminal_in, LinesTyped
  <2>2. CASE slots' = slots
    BY <2>1, <2>2 DEF ResultsPlaced, ResultOf
  <2>3. CASE slots' # slots
    <3>1. PICK i \in Slots : Received(o, link, i)
      BY <1>1, <2>3, Receives
    <3>2. \A k \in Slots : slots'[k].ready =>
            /\ slots[k].ready /\ slots'[k].result = slots[k].result
            /\ slots'[k].origin = slots[k].origin
      BY <3>1 DEF Received, find
    <3> QED
      BY <2>1, <3>2 DEF ResultsPlaced, ResultOf
  <2> QED
    BY <2>2, <2>3
<1>2. ASSUME NEW link \in Links, bind_target(link)
      PROVE  ResultsPlaced'
  BY <1>2 DEF bind_target, ResultsPlaced, ResultOf
<1>3. ASSUME NEW link \in Links, unbind_target(link)
      PROVE  ResultsPlaced'
  <2>1. UNCHANGED <<pump, bounds>>
    BY <1>3 DEF unbind_target
  <2> QED
    BY <1>3, <2>1, Unbinds DEF ResultsPlaced, ResultOf
<1>4. CASE Moves
  BY <1>4, MovesOn DEF ResultsPlaced, ResultOf, pumpOnly
<1>5. CASE Snaps
  <2>1. UNCHANGED pumpOnly
    BY <1>5 DEF Snaps, PumpTake
  <2>2. Taken(pump.slot) /\ pump.slot \in Slots
    BY <1>5, Takes DEF Snaps, SlotsTyped, PumpRecords
  <2> QED
    BY <2>1, <2>2 DEF ResultsPlaced, ResultOf, pumpOnly, Taken
<1>6. CASE PumpWork
  <2>1. Worked(pump.slot) /\ UNCHANGED slots
    BY <1>6, Works
  <2> QED
    BY <1>6, <2>1, WorkQueue DEF ResultsPlaced, ResultOf, pumpOnly, Worked
<1>7. CASE PumpLine
  BY <1>7, Lines, LineQueue DEF ResultsPlaced, ResultOf, pumpOnly
<1>8. CASE run_command_line
  <2>1. UNCHANGED <<slots, pump>> /\ Ran(Head(queue))
    BY <1>8, Runs
  <2>2. bounds'.timeouts <= 1 => bounds.timeouts <= 1
    BY <2>1 DEF Ran, LinesTyped
  <2> QED
    BY <2>1, <2>2 DEF ResultsPlaced, ResultOf
<1>9. CASE end_capture
  <2>1. UNCHANGED <<slots, pump>> /\ Ended
    BY <1>9, Ends
  <2>2. bounds'.timeouts <= 1 => bounds.timeouts <= 1
    BY <2>1 DEF Ended, LinesTyped
  <2> QED
    BY <2>1, <2>2 DEF ResultsPlaced, ResultOf
<1>10. CASE deliver_command_output
  <2>1. UNCHANGED <<pump, bounds>> /\ shell.at = "deliver"
    BY <1>10 DEF deliver_command_output, fromShell
  <2> DEFINE res == [of |-> <<shell.cmd>>, text |-> shell.text]
  <2>2. res.of = <<shell.cmd>> /\ res.text = shell.text
    OBVIOUS
  <2>3. 1 \in DOMAIN res.of /\ res.of[1] = shell.cmd
    BY <2>2
  <2>4. bounds.timeouts <= 1 => res.text \subseteq {shell.cmd}
    BY <2>1, <2>2 DEF CaptureInStep
  <2> HIDE DEF res
  <2>5. \A i \in Slots :
          /\ slots'[i].origin = slots[i].origin
          /\ \/ slots'[i].ready = slots[i].ready /\ slots'[i].result = slots[i].result
             \/ slots[i].origin = shell.cmd.from /\ slots'[i].result = res
    BY <1>10, Delivers DEF res
  <2>6. ResultOf(res, shell.cmd.from)
    BY <2>3, <2>4 DEF ResultOf
  <2> QED
    BY <2>1, <2>5, <2>6 DEF ResultsPlaced, ResultOf
<1>11. CASE pollScript
  BY <1>11, Polls DEF ResultsPlaced, ResultOf
<1> QED
  BY <1>1, <1>2, <1>3, <1>4, <1>5, <1>6, <1>7, <1>8, <1>9, <1>10, <1>11,
     PumpCases DEF TerminalNext, ShellTask, Targets


\* Only a wait that ran out leaves a capture on; only a second one lets its text out.
LEMMA CaptureStep ==
  ASSUME TerminalIInv, TerminalNext PROVE CaptureInStep'
<1> USE DEF TerminalIInv
<1>1. ASSUME NEW o \in Origins, NEW link \in Targets, on_terminal_in(o, link)
      PROVE  CaptureInStep'
  <2>1. UNCHANGED <<shell, capture>> /\ bounds'.timeouts = bounds.timeouts
    BY <1>1 DEF on_terminal_in, LinesTyped
  <2> QED
    BY <2>1 DEF CaptureInStep
<1>2. ASSUME NEW link \in Links, bind_target(link)
      PROVE  CaptureInStep'
  BY <1>2 DEF bind_target, CaptureInStep
<1>3. ASSUME NEW link \in Links, unbind_target(link)
      PROVE  CaptureInStep'
  BY <1>3 DEF unbind_target, CaptureInStep
<1>4. CASE Moves
  BY <1>4, MovesOn DEF CaptureInStep, pumpOnly
<1>5. CASE Snaps
  <2>1. UNCHANGED pumpOnly
    BY <1>5 DEF Snaps, PumpTake
  <2> QED
    BY <2>1 DEF CaptureInStep, pumpOnly
<1>6. CASE PumpWork
  BY <1>6, WorkQueue DEF CaptureInStep, pumpOnly
<1>7. CASE PumpLine
  BY <1>7, LineQueue DEF CaptureInStep, pumpOnly
<1>8. CASE run_command_line
  <2> DEFINE cmd == Head(queue)
             all == capture_text(cmd, capture)
  <2>1. cmd \in Commands /\ shell.at = "idle" /\ Ran(cmd) /\ ShellTyped'
    BY <1>8, Runs
  <2>2. /\ all.active = capture.active /\ (capture.active => all.buf = capture.buf \cup {cmd})
        /\ ~capture.active => all.buf = capture.buf
    BY <2>1, Captures DEF ShellTyped
  <2>3. bounds.timeouts \in Nat
    BY DEF LinesTyped
  <2>4. ~capture.active => capture.buf = {}
    BY DEF CaptureInStep
  <2>5. capture.active => bounds.timeouts >= 1
    BY <2>1 DEF CaptureInStep
  <2> HIDE DEF cmd, all
  <2>6. CASE /\ cmd.from # "script" /\ shell'.at = "end" /\ shell'.cmd = cmd /\ shell'.text = {}
             /\ capture'.active /\ capture'.buf = {cmd} /\ bounds'.timeouts = bounds.timeouts
    BY <2>6 DEF CaptureInStep
  <2>7. CASE /\ cmd.from # "script" /\ shell'.at = "end" /\ shell'.cmd = cmd /\ shell'.text = {}
             /\ bounds'.timeouts = bounds.timeouts + 1 /\ capture' = all
    BY <2>2, <2>3, <2>4, <2>5, <2>7 DEF CaptureInStep
  <2>8. CASE UNCHANGED <<shell, bounds>> /\ capture' = all
    BY <2>1, <2>2, <2>4, <2>5, <2>8 DEF CaptureInStep
  <2> QED
    BY <2>1, <2>6, <2>7, <2>8 DEF Ran, all
<1>9. CASE end_capture
  <2>1. Ended /\ bounds.timeouts \in Nat
    BY <1>9, Ends DEF LinesTyped
  <2> QED
    BY <2>1 DEF Ended, CaptureInStep
<1>10. CASE deliver_command_output
  <2>1. UNCHANGED <<capture, bounds>> /\ shell.at = "deliver" /\ shell'.at = "idle"
    BY <1>10 DEF deliver_command_output, fromShell
  <2> QED
    BY <2>1 DEF CaptureInStep
<1>11. CASE pollScript
  BY <1>11, Polls DEF CaptureInStep
<1> QED
  BY <1>1, <1>2, <1>3, <1>4, <1>5, <1>6, <1>7, <1>8, <1>9, <1>10, <1>11,
     PumpCases DEF TerminalNext, ShellTask, Targets


\* A slot that changes hands under the pump is left to be reset.
LEMMA PumpInStepStep ==
  ASSUME TerminalIInv, TerminalNext PROVE PumpInStep'
<1> USE DEF TerminalIInv
<1>1. ASSUME NEW o \in Origins, NEW link \in Targets, on_terminal_in(o, link)
      PROVE  PumpInStep'
  <2>1. pump.slot \in Slots
    BY DEF SlotsTyped, PumpRecords
  <2>2. UNCHANGED <<own, pump>>
    BY <1>1 DEF on_terminal_in
  <2>3. CASE slots' = slots
    BY <2>2, <2>3 DEF PumpInStep, AtWork
  <2>4. CASE slots' # slots
    <3>1. PICK i \in Slots : Received(o, link, i)
      BY <1>1, <2>4, Receives
    <3>2. \A k \in Slots :
            slots'[k].used /\ ~slots'[k].reset
              => slots[k].used /\ ~slots[k].reset /\ slots'[k].origin = slots[k].origin
      BY <3>1 DEF Received, find
    <3> QED
      BY <2>1, <2>2, <3>2 DEF PumpInStep, AtWork
  <2> QED
    BY <2>3, <2>4
<1>2. ASSUME NEW link \in Links, bind_target(link)
      PROVE  PumpInStep'
  BY <1>2 DEF bind_target, PumpInStep, AtWork
<1>3. ASSUME NEW link \in Links, unbind_target(link)
      PROVE  PumpInStep'
  <2>1. pump.slot \in Slots
    BY DEF SlotsTyped, PumpRecords
  <2>2. UNCHANGED <<own, pump>>
    BY <1>3 DEF unbind_target
  <2>3. \A k \in Slots : /\ slots'[k].used => slots[k].used
                         /\ slots'[k].origin = slots[k].origin /\ slots'[k].reset = slots[k].reset
    BY <1>3, Unbinds
  <2> QED
    BY <2>1, <2>2, <2>3 DEF PumpInStep, AtWork
<1>4. CASE Moves
  BY <1>4, MovesOn DEF PumpInStep, AtWork
<1>5. CASE Snaps
  <2>1. pump.slot \in Slots
    BY DEF SlotsTyped, PumpRecords
  <2>2. /\ Taken(pump.slot) /\ UNCHANGED own /\ pump.at = "take" /\ slots[pump.slot].used
        /\ slots[pump.slot].origin \in Origins
    BY <1>5, <2>1, Takes DEF Snaps, PumpTake, Limits
  <2>3. \A k \in Slots \ {pump.slot} : ~(slots[k].used /\ slots[k].origin = slots[pump.slot].origin)
    BY <2>1, <2>2 DEF OneSlotEach
  <2>4. \A k \in Slots : own[k].editor = <<>>
    BY <2>2 DEF PumpInStep
  <2> QED
    BY <2>1, <2>2, <2>3, <2>4 DEF PumpInStep, AtWork, Taken
<1>6. CASE PumpWork
  <2>1. pump.slot \in Slots
    BY DEF SlotsTyped, PumpRecords
  <2>2. Worked(pump.slot) /\ UNCHANGED slots /\ pump.at = "work"
    BY <1>6, Works DEF PumpWork, Work
  <2> QED
    BY <2>1, <2>2 DEF PumpInStep, AtWork, Worked
<1>7. CASE PumpLine
  <2>1. pump.slot \in Slots
    BY DEF SlotsTyped, PumpRecords
  <2>2. Lined(pump.slot) /\ UNCHANGED <<slots, pump>>
    BY <1>7, Lines
  <2> QED
    BY <2>1, <2>2 DEF PumpInStep, AtWork, Lined
<1>8. CASE run_command_line
  BY <1>8, Runs DEF PumpInStep, AtWork
<1>9. CASE end_capture
  BY <1>9, Ends DEF PumpInStep, AtWork
<1>10. CASE deliver_command_output
  <2>1. pump.slot \in Slots
    BY DEF SlotsTyped, PumpRecords
  <2>2. UNCHANGED <<own, pump>>
    BY <1>10 DEF deliver_command_output, fromShell
  <2>3. \A k \in Slots : /\ slots'[k].used = slots[k].used
                         /\ slots'[k].origin = slots[k].origin /\ slots'[k].reset = slots[k].reset
    BY <1>10, Delivers
  <2> QED
    BY <2>1, <2>2, <2>3 DEF PumpInStep, AtWork
<1>11. CASE pollScript
  BY <1>11, Polls DEF PumpInStep, AtWork
<1> QED
  BY <1>1, <1>2, <1>3, <1>4, <1>5, <1>6, <1>7, <1>8, <1>9, <1>10, <1>11,
     PumpCases DEF TerminalNext, ShellTask, Targets



-----------------------------------------------------------------------------
(* The stages of a line.                                                   *)

\* The queue after an append, and after the shell has taken a command.
LEMMA Appended ==
  ASSUME NEW c \in Commands, queue \in Seq(Commands), queue' = Append(queue, c)
  PROVE  /\ Len(queue) \in Nat /\ DOMAIN queue = 1 .. Len(queue)
         /\ DOMAIN queue' = 1 .. Len(queue) + 1
         /\ \A k \in DOMAIN queue : queue'[k] = queue[k]
         /\ queue'[Len(queue) + 1] = c
BY AppendProperties, LenProperties

LEMMA TakenOff ==
  ASSUME queue \in Seq(Commands), queue # <<>>, queue' = Tail(queue)
  PROVE  /\ Len(queue) \in Nat \ {0} /\ DOMAIN queue = 1 .. Len(queue)
         /\ DOMAIN queue' = 1 .. (Len(queue) - 1)
         /\ \A k \in DOMAIN queue' : queue'[k] = queue[k + 1]
         /\ Head(queue) = queue[1]
<1>1. Len(queue) \in Nat \ {0} /\ DOMAIN queue = 1 .. Len(queue)
  BY EmptySeq, LenProperties
<1>2. queue' \in Seq(Commands) /\ Len(queue') = Len(queue) - 1 /\ Head(queue) = queue[1]
      /\ \A k \in 1 .. (Len(queue) - 1) : queue'[k] = queue[k + 1]
  BY HeadTailProperties
<1> QED
  BY <1>1, <1>2, LenProperties

LEMMA StagesTyped ==
  ASSUME TerminalIInv, NEW o \in Origins
  PROVE  /\ Past(o) \subseteq Nat /\ Ahead(o) \subseteq Nat /\ Hand(o) \subseteq Nat
         /\ Waiting(o) \subseteq Nat /\ typed[o] \in Nat
         /\ InOrder(Past(o), Ahead(o), Hand(o), Waiting(o), typed[o])
<1>1. /\ slots \in [Slots -> SlotRecords] /\ own \in [Slots -> OwnRecords] /\ pump \in PumpRecords
      /\ queue \in Seq(Commands) /\ ran[o] \in Commands /\ typed[o] \in Nat
      /\ InOrder(Past(o), Ahead(o), Hand(o), Waiting(o), typed[o])
  BY DEF TerminalIInv, SlotsTyped, ShellTyped, LinesTyped, StagesInStep
<1>2. \A k \in DOMAIN queue : queue[k].line \in Nat
  <2>1. \A k \in DOMAIN queue : queue[k] \in Commands
    BY <1>1
  <2> QED
    BY <2>1 DEF Commands
<1>3. \A s \in Seq(Nat) : \A k \in DOMAIN s : s[k] \in Nat
  OBVIOUS
<1>4. Past(o) \subseteq Nat
  BY <1>1, <1>2 DEF Past, Commands
<1>5. Ahead(o) \subseteq Nat
  <2>1. \A i \in Slots : own[i].pending \in Seq(Nat)
    BY <1>1 DEF OwnRecords
  <2> QED
    BY <1>3, <2>1 DEF Ahead
<1>6. Waiting(o) \subseteq Nat
  <2>1. \A i \in Slots : slots[i].in \in Seq(Nat)
    BY <1>1 DEF SlotRecords
  <2> QED
    BY <1>3, <2>1 DEF Waiting
<1>7. Hand(o) \subseteq Nat
  <2>1. pump.in \in Seq(Nat) /\ pump.slot \in Slots
    BY <1>1 DEF PumpRecords
  <2>2. own[pump.slot].editor \in Seq(Nat)
    BY <1>1, <2>1 DEF OwnRecords
  <2> QED
    BY <1>3, <2>1, <2>2 DEF Hand
<1> QED
  BY <1>1, <1>4, <1>5, <1>6, <1>7

\* Lines that are dropped leave the others in order.
LEMMA Dropped ==
  ASSUME NEW P, NEW A, NEW H, NEW W, NEW top, InOrder(P, A, H, W, top),
         NEW P1, NEW A1, NEW H1, NEW W1,
         P1 \subseteq P, A1 \subseteq A, H1 \subseteq H, W1 \subseteq W
  PROVE  InOrder(P1, A1, H1, W1, top)
BY DEF InOrder, Below

\* A line just typed comes after all.
LEMMA JustTyped ==
  ASSUME NEW P \in SUBSET Nat, NEW A \in SUBSET Nat, NEW H \in SUBSET Nat, NEW W \in SUBSET Nat,
         NEW top \in Nat, InOrder(P, A, H, W, top), NEW W1, W1 \subseteq W \cup {top + 1}
  PROVE  InOrder(P, A, H, W1, top + 1)
BY DEF InOrder, Below

\* What waits comes to hand.
LEMMA TakenUp ==
  ASSUME NEW P, NEW A, NEW H, NEW W, NEW top, InOrder(P, A, H, W, top)
  PROVE  InOrder(P, A, W, {}, top)
BY DEF InOrder, Below

\* The line typed ahead goes to the queue.
LEMMA Sent ==
  ASSUME NEW P, NEW A, NEW H, NEW W, NEW top, InOrder(P, A, H, W, top)
  PROVE  InOrder(P \cup A, {}, H, W, top)
BY DEF InOrder, Below

\* The first line at hand goes to the queue, or is held behind the line in flight.
LEMMA FirstGoes ==
  ASSUME NEW P, NEW H, NEW W, NEW top, InOrder(P, {}, H, W, top),
         NEW n \in H, NEW H1, H1 \subseteq H, \A m \in H1 : n < m
  PROVE  InOrder(P \cup {n}, {}, H1, W, top) /\ InOrder(P, {n}, H1, W, top)
BY DEF InOrder, Below

-----------------------------------------------------------------------------
(* How a step changes each stage.                                          *)

LEMMA PastKept ==
  ASSUME NEW o, UNCHANGED <<queue, ran>>
  PROVE  Past(o)' = Past(o)
BY DEF Past

LEMMA PastGrows ==
  ASSUME TerminalIInv, NEW o, NEW c \in Commands, queue' = Append(queue, c), ran' = ran
  PROVE  /\ Past(o)' \subseteq Past(o) \cup {c.line}
         /\ c.from # o => Past(o)' \subseteq Past(o)
<1>1. queue \in Seq(Commands)
  BY DEF TerminalIInv, ShellTyped
<1>2. /\ DOMAIN queue' = DOMAIN queue \cup {Len(queue) + 1} /\ queue'[Len(queue) + 1] = c
      /\ \A k \in DOMAIN queue : queue'[k] = queue[k]
  BY <1>1, Appended
<1>3. ASSUME NEW n \in Past(o)'
      PROVE  n \in Past(o) \/ (n = c.line /\ c.from = o)
  <2>1. n = ran[o].line \/ \E k \in DOMAIN queue' : queue'[k].from = o /\ n = queue'[k].line
    BY <1>3 DEF Past
  <2>2. ASSUME NEW k \in DOMAIN queue', queue'[k].from = o, n = queue'[k].line
        PROVE  n \in Past(o) \/ (n = c.line /\ c.from = o)
    <3>1. CASE k \in DOMAIN queue
      BY <1>2, <2>2, <3>1 DEF Past
    <3>2. CASE k = Len(queue) + 1
      BY <1>2, <2>2, <3>2
    <3> QED
      BY <1>2, <3>1, <3>2
  <2> QED
    BY <2>1, <2>2 DEF Past
<1> QED
  BY <1>3

LEMMA PastRuns ==
  ASSUME TerminalIInv, NEW o \in Origins, run_command_line
  PROVE  Past(o)' \subseteq Past(o)
<1>1. /\ queue \in Seq(Commands) /\ queue # <<>> /\ queue' = Tail(queue)
      /\ ran'[o] = IF o = Head(queue).from THEN Head(queue) ELSE ran[o]
  BY Runs DEF TerminalIInv, ShellTyped, Ran
<1>2. /\ Len(queue) \in Nat \ {0} /\ DOMAIN queue = 1 .. Len(queue)
      /\ DOMAIN queue' = 1 .. (Len(queue) - 1)
      /\ \A k \in DOMAIN queue' : queue'[k] = queue[k + 1]
      /\ Head(queue) = queue[1]
  BY <1>1, TakenOff
<1>3. ran'[o].line \in Past(o)
  BY <1>1, <1>2 DEF Past
<1>4. ASSUME NEW k \in DOMAIN queue', queue'[k].from = o
      PROVE  queue'[k].line \in Past(o)
  <2>1. k + 1 \in DOMAIN queue /\ queue'[k] = queue[k + 1]
    BY <1>2
  <2> QED
    BY <1>4, <2>1 DEF Past
<1> QED
  BY <1>3, <1>4 DEF Past

LEMMA AheadKept ==
  ASSUME NEW o, \A i \in Slots : Mine(i, o)' =>
                    \/ own'[i].pending = <<>>
                    \/ Mine(i, o) /\ own'[i].pending = own[i].pending
  PROVE  Ahead(o)' \subseteq Ahead(o)
<1>1. ASSUME NEW n \in Ahead(o)'
      PROVE  n \in Ahead(o)
  <2>1. PICK i \in Slots : Mine(i, o)' /\ \E k \in DOMAIN own'[i].pending : n = own'[i].pending[k]
    BY <1>1 DEF Ahead
  <2>2. Mine(i, o) /\ own'[i].pending = own[i].pending
    BY <2>1
  <2> QED
    BY <2>1, <2>2 DEF Ahead
<1> QED
  BY <1>1

LEMMA WaitingKept ==
  ASSUME NEW o, \A i \in Slots : slots'[i].used /\ slots'[i].origin = o =>
                    /\ slots[i].used /\ slots[i].origin = o
                    /\ slots'[i].in = slots[i].in \/ slots'[i].in = <<>>
  PROVE  Waiting(o)' \subseteq Waiting(o)
<1>1. ASSUME NEW n \in Waiting(o)'
      PROVE  n \in Waiting(o)
  <2>1. PICK i \in Slots : /\ slots'[i].used /\ slots'[i].origin = o
                           /\ \E k \in DOMAIN slots'[i].in : n = slots'[i].in[k]
    BY <1>1 DEF Waiting
  <2>2. /\ slots[i].used /\ slots[i].origin = o
        /\ slots'[i].in = slots[i].in \/ slots'[i].in = <<>>
    BY <2>1
  <2>3. slots'[i].in = slots[i].in
    BY <2>1, <2>2
  <2> QED
    BY <2>1, <2>2, <2>3 DEF Waiting
<1> QED
  BY <1>1

\* pump() has the one slot whose line typed ahead is its origin's.
LEMMA OnlyMine ==
  ASSUME TerminalIInv, AtWork, NEW i \in Slots, NEW o, Mine(i, o)
  PROVE  i = pump.slot <=> pump.origin = o
<1>1. pump.slot \in Slots
  BY DEF TerminalIInv, SlotsTyped, PumpRecords
<1>2. CASE i = pump.slot
  BY <1>2 DEF Mine
<1>3. CASE i # pump.slot
  BY <1>1, <1>3 DEF Mine, TerminalIInv, PumpInStep
<1> QED
  BY <1>2, <1>3

LEMMA TailOf ==
  ASSUME NEW e \in Seq(Nat), e # <<>>
  PROVE  /\ Head(e) \in Nat /\ 1 \in DOMAIN e /\ Head(e) = e[1] /\ Tail(e) \in Seq(Nat)
         /\ \A k \in DOMAIN Tail(e) :
              k \in Nat /\ k + 1 \in DOMAIN e /\ Tail(e)[k] = e[k + 1] /\ 1 < k + 1
OBVIOUS

LEMMA AppendIsLonger ==
  ASSUME NEW s \in Seq(Commands), NEW c
  PROVE  Len(Append(s, c)) # Len(s)
OBVIOUS

\* Nothing comes to a stage it was not in.
LEMMA Fewer ==
  ASSUME TerminalIInv, NEW o \in Origins, typed'[o] = typed[o],
         Past(o)' \subseteq Past(o), Ahead(o)' \subseteq Ahead(o),
         Hand(o)' \subseteq Hand(o), Waiting(o)' \subseteq Waiting(o)
  PROVE  InOrder(Past(o)', Ahead(o)', Hand(o)', Waiting(o)', typed'[o])
<1>1. InOrder(Past(o), Ahead(o), Hand(o), Waiting(o), typed[o])
  BY StagesTyped
<1> DEFINE P1 == Past(o)'
           A1 == Ahead(o)'
           H1 == Hand(o)'
           W1 == Waiting(o)'
<1>2. P1 \subseteq Past(o) /\ A1 \subseteq Ahead(o) /\ H1 \subseteq Hand(o) /\ W1 \subseteq Waiting(o)
  OBVIOUS
<1> HIDE DEF P1, A1, H1, W1
<1>3. InOrder(P1, A1, H1, W1, typed[o])
  BY <1>1, <1>2, Dropped
<1> QED
  BY <1>3 DEF P1, A1, H1, W1

\* The slots as pump() leaves them.
LEMMA SlotsKept ==
  ASSUME NEW o, UNCHANGED <<own, pump>>,
         \A i \in Slots : /\ slots'[i].used => slots[i].used
                          /\ slots'[i].origin = slots[i].origin
                          /\ slots'[i].reset = slots[i].reset /\ slots'[i].in = slots[i].in
  PROVE  /\ Ahead(o)' \subseteq Ahead(o) /\ Hand(o)' = Hand(o)
         /\ Waiting(o)' \subseteq Waiting(o)
<1>1. \A i \in Slots : Mine(i, o)' => Mine(i, o) /\ own'[i].pending = own[i].pending
  BY DEF Mine, AtWork
<1>2. Ahead(o)' \subseteq Ahead(o)
  BY <1>1, AheadKept
<1>3. Waiting(o)' \subseteq Waiting(o)
  BY WaitingKept
<1>4. Hand(o)' = Hand(o)
  BY DEF Hand, AtWork
<1> QED
  BY <1>2, <1>3, <1>4

\* A line just typed waits in the slot of its origin.
LEMMA WaitingGrows ==
  ASSUME TerminalIInv, NEW o \in Origins, NEW link, NEW i \in Slots,
         slots' \in [Slots -> SlotRecords], Received(o, link, i)
  PROVE  /\ Waiting(o)' \subseteq Waiting(o) \cup {typed[o] + 1}
         /\ \A q : q # o => Waiting(q)' \subseteq Waiting(q)
<1>1. slots[i].in \in Seq(Nat) /\ typed[o] \in Nat
  BY DEF TerminalIInv, SlotsTyped, SlotRecords, LinesTyped
<1>2. \A s \in Seq(Nat) : \A m \in Nat :
        /\ \A k \in DOMAIN Append(s, m) :
             Append(s, m)[k] = m \/ (k \in DOMAIN s /\ Append(s, m)[k] = s[k])
        /\ \A k \in DOMAIN <<m>> : <<m>>[k] = m
  OBVIOUS
<1>3. ASSUME NEW n \in Waiting(o)'
      PROVE  n \in Waiting(o) \/ n = typed[o] + 1
  <2>1. PICK j \in Slots : /\ slots'[j].used /\ slots'[j].origin = o
                           /\ \E k \in DOMAIN slots'[j].in : n = slots'[j].in[k]
    BY <1>3 DEF Waiting
  <2>2. CASE j # i
    BY <2>1, <2>2 DEF Received, Waiting
  <2>3. CASE j = i
    <3>1. PICK k \in DOMAIN slots'[i].in : n = slots'[i].in[k]
      BY <2>1, <2>3
    <3>2. CASE i \in find(o) /\ slots'[i].in = slots[i].in
      BY <3>1, <3>2 DEF find, Waiting
    <3>3. CASE i \in find(o) /\ slots'[i].in = Append(slots[i].in, typed[o] + 1)
      <4>1. n = typed[o] + 1 \/ (k \in DOMAIN slots[i].in /\ n = slots[i].in[k])
        BY <1>1, <1>2, <3>1, <3>3
      <4> QED
        BY <3>3, <4>1 DEF find, Waiting
    <3>4. CASE slots'[i].in = <<>> \/ slots'[i].in = <<typed[o] + 1>>
      BY <1>1, <1>2, <3>1, <3>4
    <3> QED
      BY <3>2, <3>3, <3>4 DEF Received
  <2> QED
    BY <2>2, <2>3
<1>4. ASSUME NEW q, q # o
      PROVE  Waiting(q)' \subseteq Waiting(q)
  <2>1. \A j \in Slots : slots'[j].used /\ slots'[j].origin = q => slots'[j] = slots[j]
    BY <1>4 DEF Received
  <2> QED
    BY <2>1, WaitingKept
<1> QED
  BY <1>3, <1>4

\* Each step moves the lines of an origin on, in order, or drops them.
LEMMA StagesStep ==
  ASSUME TerminalIInv, TerminalNext PROVE StagesInStep'
<1> USE DEF TerminalIInv
<1>1. ASSUME NEW o \in Origins, NEW link \in Targets, on_terminal_in(o, link)
      PROVE  StagesInStep'
  <2> SUFFICES ASSUME NEW q \in Origins
               PROVE  InOrder(Past(q)', Ahead(q)', Hand(q)', Waiting(q)', typed'[q])
    BY DEF StagesInStep
  <2>1. UNCHANGED <<queue, ran, own, pump>> /\ typed' = [typed EXCEPT ![o] = typed[o] + 1]
    BY <1>1 DEF on_terminal_in
  <2>2. Past(q)' = Past(q) /\ Hand(q)' = Hand(q)
    BY <2>1, PastKept DEF Hand, AtWork
  <2>3. /\ Ahead(q)' \subseteq Ahead(q)
        /\ Waiting(q)' \subseteq Waiting(q) \cup (IF q = o THEN {typed[o] + 1} ELSE {})
    <3>1. CASE slots' = slots
      BY <2>1, <3>1, SlotsKept
    <3>2. CASE slots' # slots
      <4>1. PICK i \in Slots : slots' \in [Slots -> SlotRecords] /\ Received(o, link, i)
        BY <1>1, <3>2, Receives
      <4>2. \A j \in Slots : slots'[j].used /\ ~slots'[j].reset =>
              slots[j].used /\ ~slots[j].reset /\ slots'[j].origin = slots[j].origin
        BY <4>1 DEF Received, find
      <4>3. \A j \in Slots : Mine(j, q)' => Mine(j, q) /\ own'[j].pending = own[j].pending
        BY <2>1, <4>2 DEF Mine, AtWork
      <4>4. Ahead(q)' \subseteq Ahead(q)
        BY <4>3, AheadKept
      <4> QED
        BY <4>1, <4>4, WaitingGrows
    <3> QED
      BY <3>1, <3>2
  <2> DEFINE P == Past(q)
             A == Ahead(q)
             H == Hand(q)
             W == Waiting(q)
             A1 == Ahead(q)'
             W1 == Waiting(q)'
  <2>4. /\ P \subseteq Nat /\ A \subseteq Nat /\ H \subseteq Nat /\ W \subseteq Nat
        /\ typed[q] \in Nat /\ InOrder(P, A, H, W, typed[q])
    BY StagesTyped
  <2>5. A1 \subseteq A /\ W1 \subseteq W \cup (IF q = o THEN {typed[o] + 1} ELSE {})
    BY <2>3
  <2> HIDE DEF P, A, H, W, A1, W1
  <2>6. InOrder(P, A1, H, W1, typed'[q])
    <3>1. CASE q = o
      <4>1. typed'[q] = typed[q] + 1
        BY <2>1, <3>1 DEF LinesTyped
      <4>2. InOrder(P, A, H, W1, typed[q] + 1)
        BY <2>4, <2>5, <3>1, JustTyped
      <4> QED
        BY <2>5, <4>1, <4>2, Dropped
    <3>2. CASE q # o
      <4>1. typed'[q] = typed[q] /\ W1 \subseteq W
        BY <2>1, <2>5, <3>2 DEF LinesTyped
      <4> QED
        BY <2>4, <2>5, <4>1, Dropped, ZenonT(30)
    <3> QED
      BY <3>1, <3>2
  <2> QED
    BY <2>2, <2>6 DEF P, A, H, W, A1, W1
<1>2. ASSUME NEW link \in Links, bind_target(link)
      PROVE  StagesInStep'
  <2> SUFFICES ASSUME NEW q \in Origins
               PROVE  InOrder(Past(q)', Ahead(q)', Hand(q)', Waiting(q)', typed'[q])
    BY DEF StagesInStep
  <2>1. typed' = typed /\ UNCHANGED <<queue, ran, slots, own, pump>>
    BY <1>2 DEF bind_target
  <2>2. Ahead(q)' \subseteq Ahead(q) /\ Hand(q)' = Hand(q) /\ Waiting(q)' \subseteq Waiting(q)
    BY <2>1, SlotsKept
  <2> QED
    BY <2>1, <2>2, PastKept, Fewer
<1>3. ASSUME NEW link \in Links, unbind_target(link)
      PROVE  StagesInStep'
  <2> SUFFICES ASSUME NEW q \in Origins
               PROVE  InOrder(Past(q)', Ahead(q)', Hand(q)', Waiting(q)', typed'[q])
    BY DEF StagesInStep
  <2>1. typed' = typed /\ UNCHANGED <<queue, ran, own, pump>>
    BY <1>3 DEF unbind_target
  <2>2. \A i \in Slots : /\ slots'[i].used => slots[i].used
                         /\ slots'[i].origin = slots[i].origin
                         /\ slots'[i].reset = slots[i].reset /\ slots'[i].in = slots[i].in
    BY <1>3, Unbinds
  <2>3. Ahead(q)' \subseteq Ahead(q) /\ Hand(q)' = Hand(q) /\ Waiting(q)' \subseteq Waiting(q)
    BY <2>1, <2>2, SlotsKept
  <2> QED
    BY <2>1, <2>3, PastKept, Fewer
<1>4. CASE Moves
  <2> SUFFICES ASSUME NEW q \in Origins
               PROVE  InOrder(Past(q)', Ahead(q)', Hand(q)', Waiting(q)', typed'[q])
    BY DEF StagesInStep
  <2>1. /\ typed' = typed /\ UNCHANGED <<queue, ran, slots, own>>
        /\ pump'.at \in {"idle", "take"}
        /\ pump.at # "work"
    BY <1>4, MovesOn DEF pumpOnly
  <2>2. \A j \in Slots : Mine(j, q)' => Mine(j, q) /\ own'[j].pending = own[j].pending
    BY <2>1 DEF Mine, AtWork, PumpInStep
  <2>3. Hand(q)' = {}
    BY <2>1 DEF Hand, AtWork
  <2>4. Waiting(q)' \subseteq Waiting(q)
    BY <2>1, WaitingKept
  <2> QED
    BY <2>1, <2>2, <2>3, <2>4, PastKept, AheadKept, Fewer
<1>5. CASE Snaps
  <2> SUFFICES ASSUME NEW q \in Origins
               PROVE  InOrder(Past(q)', Ahead(q)', Hand(q)', Waiting(q)', typed'[q])
    BY DEF StagesInStep
  <2> DEFINE i == pump.slot
  <2>1. /\ Taken(i) /\ UNCHANGED <<own, queue, ran, typed>> /\ slots[i].used /\ i \in Slots
        /\ pump.at = "take"
    BY <1>5, Takes DEF Snaps, PumpTake, SlotsTyped, PumpRecords, pumpOnly
  <2>2. own[i].editor = <<>>
    BY <2>1 DEF PumpInStep
  <2> HIDE DEF i
  <2>3. \A j \in Slots : Mine(j, q)' => Mine(j, q) /\ own'[j].pending = own[j].pending
    BY <2>1 DEF Mine, AtWork, Taken
  <2>4. Ahead(q)' \subseteq Ahead(q) /\ Past(q)' = Past(q)
    BY <2>1, <2>3, AheadKept, PastKept
  <2>5. \A j \in Slots : slots'[j].used /\ slots'[j].origin = q =>
          /\ slots[j].used /\ slots[j].origin = q
          /\ slots'[j].in = slots[j].in \/ slots'[j].in = <<>>
    BY <2>1 DEF Taken
  <2>6. Waiting(q)' \subseteq Waiting(q)
    BY <2>5, WaitingKept
  <2>7. CASE slots[i].origin = q
    <3>1. \A j \in Slots : slots'[j].used /\ slots'[j].origin = q => slots'[j].in = <<>>
      BY <2>1, <2>7 DEF Taken, OneSlotEach
    <3>2. Waiting(q)' = {}
      BY <3>1 DEF Waiting
    <3>3. Hand(q)' \subseteq Waiting(q)
      BY <2>1, <2>2, <2>7 DEF Hand, AtWork, Waiting, Taken
    <3> DEFINE P == Past(q)
               A == Ahead(q)
               H == Hand(q)
               W == Waiting(q)
               A1 == Ahead(q)'
               H1 == Hand(q)'
    <3>4. InOrder(P, A, H, W, typed[q]) /\ A1 \subseteq A /\ H1 \subseteq W
      BY <2>4, <3>3, StagesTyped
    <3> HIDE DEF P, A, H, W, A1, H1
    <3>5. InOrder(P, A, W, {}, typed[q])
      BY <3>4, TakenUp
    <3>6. InOrder(P, A1, H1, {}, typed[q])
      BY <3>4, <3>5, Dropped
    <3> QED
      BY <2>1, <2>4, <3>2, <3>6 DEF P, A, H, W, A1, H1
  <2>8. CASE slots[i].origin # q
    <3>1. Hand(q)' = {}
      BY <2>1, <2>8 DEF Hand, Taken
    <3> QED
      BY <2>1, <2>4, <2>6, <3>1, Fewer
  <2> QED
    BY <2>7, <2>8
<1>6. CASE PumpWork
  <2> SUFFICES ASSUME NEW q \in Origins
               PROVE  InOrder(Past(q)', Ahead(q)', Hand(q)', Waiting(q)', typed'[q])
    BY DEF StagesInStep
  <2> DEFINE i == pump.slot
  <2>1. /\ Worked(i) /\ UNCHANGED <<slots, ran, typed>> /\ i \in Slots /\ pump.at = "work"
        /\ AtWork /\ pump'.at = "lines"
    BY <1>6, Works, WorkQueue DEF PumpWork, Work, Worked, SlotsTyped, PumpRecords, pumpOnly
  <2>2. own[i].editor = <<>>
    BY <2>1 DEF PumpInStep
  <2>3. \A j \in Slots : Mine(j, q)' => Mine(j, q) \/ (j = i /\ pump.origin = q)
    BY <2>1 DEF Mine, AtWork, Worked
  <2>4. Waiting(q)' \subseteq Waiting(q)
    BY <2>1, WaitingKept
  <2>5. Hand(q)' \subseteq Hand(q)
    BY <2>1, <2>2 DEF Hand, AtWork, Worked
  <2>6. CASE queue' = queue
    <3>1. \A j \in Slots : Mine(j, q)' =>
            \/ own'[j].pending = <<>>
            \/ Mine(j, q) /\ own'[j].pending = own[j].pending
      <4>1. own'[i].pending = <<>> \/ (~pump.reset /\ own'[i].pending = own[i].pending)
        <5>1. queue' # Append(queue, [from |-> pump.origin, line |-> own[i].pending[1], run |-> 0])
          <6>1. queue \in Seq(Commands)
            BY DEF ShellTyped
          <6>2. \A c : Len(Append(queue, c)) # Len(queue)
            BY <6>1, AppendIsLonger
          <6> QED
            BY <2>6, <6>2
        <5> QED
          BY <2>1, <2>6, <5>1 DEF Worked, Queues
      <4> QED
        BY <2>1, <2>3, <4>1 DEF Mine, AtWork, Worked
    <3>2. Ahead(q)' \subseteq Ahead(q)
      BY <3>1, AheadKept
    <3> QED
      BY <2>1, <2>4, <2>5, <2>6, <3>2, PastKept, Fewer
  <2>7. CASE queue' # queue
    <3> DEFINE c == [from |-> pump.origin, line |-> own[i].pending[1], run |-> 0]
    <3>1. /\ Queues(own[i].pending[1]) /\ own[i].pending[1] \in Nat /\ 1 \in DOMAIN own[i].pending
          /\ own'[i].pending = <<>> /\ ~pump.reset
      BY <1>6, <2>1, <2>7, WorkQueue DEF Worked
    <3>2. c \in Commands /\ queue' = Append(queue, c) /\ c.from = pump.origin
          /\ c.line = own[i].pending[1]
      BY <2>1, <3>1, Submits DEF Queues
    <3> HIDE DEF c
    <3>3. CASE pump.origin = q
      <4>1. Mine(i, q)
        BY <2>1, <3>1, <3>3 DEF Mine
      <4>2. c.line \in Ahead(q)
        BY <2>1, <3>1, <3>2, <4>1 DEF Ahead
      <4>3. Past(q)' \subseteq Past(q) \cup Ahead(q)
        BY <2>1, <3>2, <4>2, PastGrows
      <4>4. \A j \in Slots : Mine(j, q)' => j = i
        BY <2>1, <2>3, <3>3, OnlyMine
      <4>5. Ahead(q)' = {}
        BY <3>1, <4>4 DEF Ahead
      <4> DEFINE P == Past(q)
                 A == Ahead(q)
                 H == Hand(q)
                 W == Waiting(q)
                 P1 == Past(q)'
                 H1 == Hand(q)'
                 W1 == Waiting(q)'
      <4>6. /\ InOrder(P, A, H, W, typed[q])
            /\ P1 \subseteq P \cup A /\ H1 \subseteq H /\ W1 \subseteq W
        BY <2>4, <2>5, <4>3, StagesTyped
      <4> HIDE DEF P, A, H, W, P1, H1, W1
      <4>7. InOrder(P \cup A, {}, H, W, typed[q])
        BY <4>6, Sent
      <4>8. InOrder(P1, {}, H1, W1, typed[q])
        BY <4>6, <4>7, Dropped
      <4> QED
        BY <2>1, <4>5, <4>8 DEF P, A, H, W, P1, H1, W1
    <3>4. CASE pump.origin # q
      <4>1. Past(q)' \subseteq Past(q)
        BY <2>1, <3>2, <3>4, PastGrows
      <4>2. \A j \in Slots : Mine(j, q)' => Mine(j, q) /\ own'[j].pending = own[j].pending
        BY <2>1, <2>3, <3>4, OnlyMine DEF Worked
      <4> QED
        BY <2>1, <2>4, <2>5, <4>1, <4>2, AheadKept, Fewer
    <3> QED
      BY <3>3, <3>4
  <2> QED
    BY <2>6, <2>7
<1>7. CASE PumpLine
  <2> SUFFICES ASSUME NEW q \in Origins
               PROVE  InOrder(Past(q)', Ahead(q)', Hand(q)', Waiting(q)', typed'[q])
    BY DEF StagesInStep
  <2> DEFINE i == pump.slot
             e == own[i].editor
             n == Head(e)
  <2>1. /\ Lined(i) /\ UNCHANGED <<slots, pump, ran, typed>> /\ i \in Slots /\ pump.at = "lines"
        /\ AtWork /\ e \in Seq(Nat) /\ e # <<>>
    BY <1>7, Lines, LineQueue DEF Lined, SlotsTyped, PumpRecords, pumpOnly
  <2> HIDE DEF i
  <2>2. pump.in = <<>> /\ ~pump.reset
    BY <2>1 DEF PumpInStep
  <2>3. \A j \in Slots : Mine(j, q)' <=> Mine(j, q)
    BY <2>1 DEF Mine, AtWork
  <2>4. Waiting(q)' \subseteq Waiting(q)
    BY <2>1, WaitingKept
  <2>5. CASE pump.origin # q
    <3>1. \A j \in Slots : Mine(j, q)' => Mine(j, q) /\ own'[j].pending = own[j].pending
      BY <2>1, <2>3, <2>5, OnlyMine DEF Lined, i
    <3>2. Hand(q)' = {}
      BY <2>1, <2>5 DEF Hand
    <3>3. Past(q)' \subseteq Past(q)
      <4>1. CASE queue' = queue
        BY <2>1, <4>1, PastKept
      <4>2. CASE queue' # queue
        <5> DEFINE c == [from |-> pump.origin, line |-> n, run |-> 0]
        <5>1. Queues(n) /\ n \in Nat
          BY <1>7, <4>2, LineQueue DEF i
        <5>2. c \in Commands /\ queue' = Append(queue, c) /\ c.from = pump.origin
          BY <2>1, <5>1, Submits DEF Queues
        <5> HIDE DEF c
        <5> QED
          BY <2>1, <2>5, <5>2, PastGrows
      <4> QED
        BY <4>1, <4>2
    <3> QED
      BY <2>1, <2>4, <3>1, <3>2, <3>3, AheadKept, Fewer
  <2>6. CASE pump.origin = q
    <3>1. \A j \in Slots : Mine(j, q) => j = i
      BY <2>1, <2>6, OnlyMine DEF i
    <3>2. /\ n \in Nat /\ 1 \in DOMAIN e /\ n = e[1] /\ Tail(e) \in Seq(Nat)
          /\ \A k \in DOMAIN Tail(e) : k + 1 \in DOMAIN e /\ Tail(e)[k] = e[k + 1] /\ 1 < k + 1
      BY <2>1, TailOf
    <3>3. /\ own'[i].editor = Tail(e) /\ e = own[i].editor
      BY <2>1 DEF Lined
    <3> HIDE DEF e, n
    <3>4. n \in Hand(q) /\ Hand(q)' \subseteq Hand(q)
      BY <2>1, <2>2, <2>6, <3>2, <3>3 DEF Hand, AtWork, i
    <3>5. \A m \in Hand(q)' : n < m
      <4>1. Ascends(e)
        BY <2>1, <3>3 DEF HandsInStep
      <4>2. \A k \in DOMAIN Tail(e) : n < Tail(e)[k]
        BY <3>2, <4>1 DEF Ascends
      <4> QED
        BY <2>1, <2>2, <2>6, <3>3, <4>2 DEF Hand, AtWork, i
    <3> DEFINE P == Past(q)
               A == Ahead(q)
               H == Hand(q)
               W == Waiting(q)
               P1 == Past(q)'
               A1 == Ahead(q)'
               H1 == Hand(q)'
               W1 == Waiting(q)'
    <3>6. InOrder(P, A, H, W, typed[q]) /\ W1 \subseteq W /\ H1 \subseteq H
          /\ n \in H /\ \A m \in H1 : n < m
      BY <2>4, <3>4, <3>5, StagesTyped
    <3>7. CASE own[i].pending = <<>>
      <4>1. A = {}
        BY <3>1, <3>7 DEF Ahead
      <4>2. A1 \subseteq {n}
        BY <2>1, <2>3, <3>1, <3>2, <3>3, <3>7 DEF Ahead, Lined, n, e
      <4>3. queue' # queue => P1 \subseteq P \cup {n} /\ A1 = {}
        <5>1. SUFFICES ASSUME queue' # queue
                       PROVE  P1 \subseteq P \cup {n} /\ A1 = {}
          OBVIOUS
        <5> DEFINE c == [from |-> pump.origin, line |-> n, run |-> 0]
        <5>2. Queues(n) /\ own'[i].pending = <<>>
          BY <2>1, <5>1 DEF Lined, n, e
        <5>3. c \in Commands /\ queue' = Append(queue, c) /\ c.line = n
          BY <2>1, <3>2, <5>2, Submits DEF Queues
        <5> HIDE DEF c
        <5>4. P1 \subseteq P \cup {n}
          BY <2>1, <5>3, PastGrows
        <5>5. A1 = {}
          BY <2>3, <3>1, <5>2 DEF Ahead
        <5> QED
          BY <5>4, <5>5
      <4>4. queue' = queue => P1 = P
        BY <2>1, PastKept
      <4> HIDE DEF P, A, H, W, P1, A1, H1, W1
      <4>5. InOrder(P \cup {n}, {}, H1, W, typed[q]) /\ InOrder(P, {n}, H1, W, typed[q])
        BY <3>6, <4>1, FirstGoes
      <4>6. InOrder(P1, A1, H1, W1, typed[q])
        BY <3>6, <4>2, <4>3, <4>4, <4>5, Dropped
      <4> QED
        BY <2>1, <4>6 DEF P1, A1, H1, W1
    <3>8. CASE own[i].pending # <<>>
      <4>1. queue' = queue /\ own'[i].pending = own[i].pending
        BY <2>1, <3>8 DEF Lined
      <4>2. Ahead(q)' \subseteq Ahead(q)
        BY <2>1, <2>3, <3>1, <4>1, AheadKept
      <4> QED
        BY <2>1, <2>4, <3>4, <4>1, <4>2, PastKept, Fewer
    <3> QED
      BY <3>7, <3>8
  <2> QED
    BY <2>5, <2>6
<1>8. CASE run_command_line
  <2> SUFFICES ASSUME NEW q \in Origins
               PROVE  InOrder(Past(q)', Ahead(q)', Hand(q)', Waiting(q)', typed'[q])
    BY DEF StagesInStep
  <2>1. UNCHANGED <<slots, own, pump, typed>>
    BY <1>8, Runs
  <2>2. Ahead(q)' \subseteq Ahead(q) /\ Hand(q)' = Hand(q) /\ Waiting(q)' \subseteq Waiting(q)
    BY <2>1, SlotsKept
  <2> QED
    BY <1>8, <2>1, <2>2, PastRuns, Fewer
<1>9. CASE end_capture
  <2> SUFFICES ASSUME NEW q \in Origins
               PROVE  InOrder(Past(q)', Ahead(q)', Hand(q)', Waiting(q)', typed'[q])
    BY DEF StagesInStep
  <2>1. typed' = typed /\ UNCHANGED <<queue, ran, slots, own, pump>>
    BY <1>9, Ends
  <2>2. Ahead(q)' \subseteq Ahead(q) /\ Hand(q)' = Hand(q) /\ Waiting(q)' \subseteq Waiting(q)
    BY <2>1, SlotsKept
  <2> QED
    BY <2>1, <2>2, PastKept, Fewer
<1>10. CASE deliver_command_output
  <2> SUFFICES ASSUME NEW q \in Origins
               PROVE  InOrder(Past(q)', Ahead(q)', Hand(q)', Waiting(q)', typed'[q])
    BY DEF StagesInStep
  <2>1. typed' = typed /\ UNCHANGED <<queue, ran, own, pump>>
    BY <1>10 DEF deliver_command_output, fromShell
  <2>2. \A i \in Slots : /\ slots'[i].used => slots[i].used
                         /\ slots'[i].origin = slots[i].origin
                         /\ slots'[i].reset = slots[i].reset /\ slots'[i].in = slots[i].in
    BY <1>10, Delivers
  <2>3. Ahead(q)' \subseteq Ahead(q) /\ Hand(q)' = Hand(q) /\ Waiting(q)' \subseteq Waiting(q)
    BY <2>1, <2>2, SlotsKept
  <2> QED
    BY <2>1, <2>3, PastKept, Fewer
<1>11. CASE pollScript
  <2> SUFFICES ASSUME NEW q \in Origins
               PROVE  InOrder(Past(q)', Ahead(q)', Hand(q)', Waiting(q)', typed'[q])
    BY DEF StagesInStep
  <2>1. UNCHANGED <<slots, own, pump, typed, ran>> /\ Polled /\ script \in [active : BOOLEAN,
     cursor : 1 .. ScriptLines + 1]
    BY <1>11, Polls DEF LinesTyped
  <2>2. Ahead(q)' \subseteq Ahead(q) /\ Hand(q)' = Hand(q) /\ Waiting(q)' \subseteq Waiting(q)
    BY <2>1, SlotsKept
  <2>3. Past(q)' \subseteq Past(q)
    <3> DEFINE line == NextLine(script.cursor)
               c == [from |-> "script", line |-> line, run |-> bounds.scripts]
    <3>1. line \in Nat /\ bounds.scripts \in Nat
      BY <2>1, NextLineIs, TerminalAssumption DEF LinesTyped
    <3>2. c \in Commands /\ c.from = "script" /\ "script" # q
      BY <3>1, TerminalAssumption DEF Commands
    <3>3. queue' = queue \/ queue' = Append(queue, c)
      BY <2>1 DEF Polled
    <3> HIDE DEF line, c
    <3> QED
      BY <2>1, <3>2, <3>3, PastKept, PastGrows
  <2> QED
    BY <2>1, <2>2, <2>3, Fewer
<1> QED
  BY <1>1, <1>2, <1>3, <1>4, <1>5, <1>6, <1>7, <1>8, <1>9, <1>10, <1>11,
     PumpCases DEF TerminalNext, ShellTask, Targets



-----------------------------------------------------------------------------
(* The order within a slot, in the queue and in the script.                *)

LEMMA AscendsBuilt ==
  /\ Ascends(<<>>)
  /\ \A m \in Nat : Ascends(<<m>>)
  /\ \A s \in Seq(Nat) : s # <<>> /\ Ascends(s) => Ascends(Tail(s))
  /\ \A s \in Seq(Nat), m \in Nat :
       Ascends(s) /\ (\A k \in DOMAIN s : s[k] < m) => Ascends(Append(s, m))
<1>1. Ascends(<<>>) /\ \A m \in Nat : Ascends(<<m>>)
  BY DEF Ascends
<1>2. ASSUME NEW s \in Seq(Nat), s # <<>>, Ascends(s)
      PROVE  Ascends(Tail(s))
  BY <1>2, TailOf, SMTT(30) DEF Ascends
<1>3. ASSUME NEW s \in Seq(Nat), NEW m \in Nat, Ascends(s), \A k \in DOMAIN s : s[k] < m
      PROVE  Ascends(Append(s, m))
  <2>1. /\ DOMAIN Append(s, m) = 1 .. Len(s) + 1 /\ DOMAIN s = 1 .. Len(s) /\ Len(s) \in Nat
        /\ Append(s, m)[Len(s) + 1] = m
        /\ \A k \in 1 .. Len(s) : Append(s, m)[k] = s[k]
    OBVIOUS
  <2> DEFINE t == Append(s, m)
  <2>2. /\ DOMAIN t = 1 .. Len(s) + 1 /\ t[Len(s) + 1] = m
        /\ \A k \in 1 .. Len(s) : t[k] = s[k]
    BY <2>1
  <2> HIDE DEF t
  <2>3. ASSUME NEW j \in DOMAIN t, NEW k \in DOMAIN t, j < k
        PROVE  t[j] < t[k]
    <3>1. CASE k = Len(s) + 1
      BY <1>3, <2>1, <2>2, <2>3, <3>1
    <3>2. CASE k # Len(s) + 1
      BY <1>3, <2>1, <2>2, <2>3, <3>2 DEF Ascends
    <3> QED
      BY <3>1, <3>2
  <2> QED
    BY <2>3 DEF Ascends, t
<1> QED
  BY <1>1, <1>2, <1>3

\* The lines of a slot keep their order from the receive task to the editor.
LEMMA HandsStep ==
  ASSUME TerminalIInv, TerminalNext PROVE HandsInStep'
<1> USE DEF TerminalIInv
<1>1. ASSUME NEW o \in Origins, NEW link \in Targets, on_terminal_in(o, link)
      PROVE  HandsInStep'
  <2>1. UNCHANGED <<own, pump>>
    BY <1>1 DEF on_terminal_in
  <2>2. CASE slots' = slots
    BY <2>1, <2>2 DEF HandsInStep
  <2>3. CASE slots' # slots
    <3>1. PICK i \in Slots : Received(o, link, i)
      BY <1>1, <2>3, Receives
    <3>2. slots[i].in \in Seq(Nat) /\ typed[o] + 1 \in Nat /\ Ascends(slots[i].in)
      BY DEF SlotsTyped, SlotRecords, LinesTyped, HandsInStep
    <3>3. ASSUME i \in find(o)
          PROVE  Ascends(Append(slots[i].in, typed[o] + 1))
      <4>1. \A k \in DOMAIN slots[i].in : slots[i].in[k] \in Waiting(o)
        BY <3>3 DEF find, Waiting
      <4>2. \A n \in Waiting(o) : n \in Nat /\ n <= typed[o]
        BY StagesTyped DEF InOrder
      <4>3. \A k \in DOMAIN slots[i].in : slots[i].in[k] < typed[o] + 1
        BY <4>1, <4>2 DEF LinesTyped
      <4> QED
        BY <3>2, <4>3, AscendsBuilt
    <3>4. Ascends(slots'[i].in)
      BY <3>1, <3>2, <3>3, AscendsBuilt DEF Received
    <3> QED
      BY <2>1, <3>1, <3>4 DEF HandsInStep, Received
  <2> QED
    BY <2>2, <2>3
<1>2. ASSUME NEW link \in Links, bind_target(link)
      PROVE  HandsInStep'
  BY <1>2 DEF HandsInStep, bind_target
<1>3. ASSUME NEW link \in Links, unbind_target(link)
      PROVE  HandsInStep'
  <2>1. UNCHANGED <<own, pump>>
    BY <1>3 DEF unbind_target
  <2> QED
    BY <1>3, <2>1, Unbinds DEF HandsInStep
<1>4. CASE Moves
  BY <1>4, MovesOn, AscendsBuilt DEF HandsInStep
<1>5. CASE Snaps
  <2>1. Taken(pump.slot) /\ UNCHANGED own /\ pump.slot \in Slots
    BY <1>5, Takes DEF Snaps, SlotsTyped, PumpRecords
  <2> QED
    BY <2>1, AscendsBuilt DEF HandsInStep, Taken
<1>6. CASE PumpWork
  BY <1>6, Works, AscendsBuilt DEF HandsInStep, Worked
<1>7. CASE PumpLine
  <2>1. /\ Lined(pump.slot) /\ UNCHANGED <<slots, pump>> /\ pump.slot \in Slots
        /\ own[pump.slot].editor \in Seq(Nat)
    BY <1>7, Lines, LineQueue DEF SlotsTyped, PumpRecords
  <2> QED
    BY <2>1, AscendsBuilt DEF HandsInStep, Lined
<1>8. CASE run_command_line
  BY <1>8, Runs DEF HandsInStep
<1>9. CASE end_capture
  BY <1>9, Ends DEF HandsInStep
<1>10. CASE deliver_command_output
  <2>1. UNCHANGED <<own, pump>>
    BY <1>10 DEF deliver_command_output, fromShell
  <2> QED
    BY <1>10, <2>1, Delivers DEF HandsInStep
<1>11. CASE pollScript
  BY <1>11, Polls DEF HandsInStep
<1> QED
  BY <1>1, <1>2, <1>3, <1>4, <1>5, <1>6, <1>7, <1>8, <1>9, <1>10, <1>11,
     PumpCases DEF TerminalNext, ShellTask, Targets


\* A line submitted for an origin is above those of the origin that are queued or have run.
LEMMA QueueGrows ==
  ASSUME TerminalIInv, NEW c \in Commands, queue' = Append(queue, c), UNCHANGED ran,
         c.from \in Origins => \A m \in Past(c.from) : m < c.line
  PROVE  QueueInStep'
<1>1. queue \in Seq(Commands)
  BY DEF TerminalIInv, ShellTyped
<1>2. /\ Len(queue) \in Nat /\ DOMAIN queue = 1 .. Len(queue)
      /\ DOMAIN queue' = 1 .. Len(queue) + 1
      /\ \A k \in DOMAIN queue : queue'[k] = queue[k]
      /\ queue'[Len(queue) + 1] = c
  BY <1>1, Appended
<1> SUFFICES ASSUME NEW o \in Origins
             PROVE  /\ \A k \in DOMAIN queue' : queue'[k].from = o => queue'[k].line > ran[o].line
                    /\ \A j, k \in DOMAIN queue' :
                         j < k /\ queue'[j].from = o /\ queue'[k].from = o
                           => queue'[j].line < queue'[k].line
  BY DEF QueueInStep
<1>3. /\ \A k \in DOMAIN queue : queue[k].from = o => queue[k].line > ran[o].line
      /\ \A j, k \in DOMAIN queue :
           j < k /\ queue[j].from = o /\ queue[k].from = o => queue[j].line < queue[k].line
  BY DEF TerminalIInv, QueueInStep
<1>4. /\ ran[o].line \in Past(o) /\ ran[o].line \in Nat /\ c.line \in Nat
      /\ \A k \in DOMAIN queue : queue[k].from = o => queue[k].line \in Past(o)
  BY DEF Past, TerminalIInv, LinesTyped, Commands
<1>5. ASSUME NEW k \in DOMAIN queue', queue'[k].from = o
      PROVE  queue'[k].line > ran[o].line
  <2>1. CASE k = Len(queue) + 1
    BY <1>2, <1>4, <1>5, <2>1
  <2>2. CASE k # Len(queue) + 1
    BY <1>2, <1>3, <1>5, <2>2
  <2> QED
    BY <2>1, <2>2
<1>6. ASSUME NEW j \in DOMAIN queue', NEW k \in DOMAIN queue', j < k,
             queue'[j].from = o, queue'[k].from = o
      PROVE  queue'[j].line < queue'[k].line
  <2>1. j \in DOMAIN queue
    BY <1>2, <1>6
  <2>2. CASE k = Len(queue) + 1
    BY <1>2, <1>4, <1>6, <2>1, <2>2
  <2>3. CASE k # Len(queue) + 1
    BY <1>2, <1>3, <1>6, <2>1, <2>3
  <2> QED
    BY <2>2, <2>3
<1> QED
  BY <1>5, <1>6

\* An origin's commands are queued in the order typed, above the last one run.
LEMMA QueueStep ==
  ASSUME TerminalIInv, TerminalNext PROVE QueueInStep'
<1> USE DEF TerminalIInv
<1>1. ASSUME NEW o \in Origins, NEW link \in Targets, on_terminal_in(o, link)
      PROVE  QueueInStep'
  BY <1>1 DEF QueueInStep, on_terminal_in
<1>2. ASSUME NEW link \in Links, bind_target(link)
      PROVE  QueueInStep'
  BY <1>2 DEF QueueInStep, bind_target
<1>3. ASSUME NEW link \in Links, unbind_target(link)
      PROVE  QueueInStep'
  BY <1>3 DEF QueueInStep, unbind_target
<1>4. CASE Moves
  BY <1>4, MovesOn DEF QueueInStep, pumpOnly
<1>5. CASE Snaps
  <2>1. UNCHANGED <<queue, pumpOnly>>
    BY <1>5 DEF Snaps, PumpTake
  <2> QED
    BY <2>1 DEF QueueInStep, pumpOnly
<1>6. CASE PumpWork
  <2>1. CASE queue' = queue
    BY <1>6, <2>1, WorkQueue DEF QueueInStep, pumpOnly
  <2>2. CASE queue' # queue
    <3> DEFINE i == pump.slot
               n == own[i].pending[1]
               c == [from |-> pump.origin, line |-> n, run |-> 0]
    <3>1. /\ Queues(n) /\ n \in Nat /\ 1 \in DOMAIN own[i].pending /\ AtWork /\ ran' = ran
          /\ ~pump.reset /\ i \in Slots
      BY <1>6, <2>2, WorkQueue, Works DEF Worked, pumpOnly, SlotsTyped, PumpRecords
    <3>2. c \in Commands /\ queue' = Append(queue, c) /\ c.from = pump.origin /\ c.line = n
      BY <3>1, Submits DEF Queues
    <3>3. Mine(i, pump.origin)
      BY <3>1 DEF Mine
    <3>4. n \in Ahead(pump.origin)
      BY <3>1, <3>3 DEF Ahead
    <3> HIDE DEF n, c
    <3>5. \A o \in Origins : \A m \in Past(o), k \in Ahead(o) : m < k
      BY StagesTyped DEF InOrder, Below
    <3> QED
      BY <3>1, <3>2, <3>4, <3>5, QueueGrows
  <2> QED
    BY <2>1, <2>2
<1>7. CASE PumpLine
  <2>1. CASE queue' = queue
    BY <1>7, <2>1, LineQueue DEF QueueInStep, pumpOnly
  <2>2. CASE queue' # queue
    <3> DEFINE e == own[pump.slot].editor
               n == Head(e)
               c == [from |-> pump.origin, line |-> n, run |-> 0]
    <3>1. Queues(n) /\ n \in Nat /\ AtWork /\ ran' = ran /\ e \in Seq(Nat) /\ e # <<>>
      BY <1>7, <2>2, LineQueue DEF pumpOnly
    <3>2. c \in Commands /\ queue' = Append(queue, c) /\ c.from = pump.origin /\ c.line = n
      BY <3>1, Submits DEF Queues
    <3>3. 1 \in DOMAIN e /\ n = e[1]
      BY <3>1, TailOf
    <3>4. n \in Hand(pump.origin)
      BY <3>1, <3>3 DEF Hand
    <3> HIDE DEF n, c
    <3>5. \A o \in Origins : \A m \in Past(o), k \in Hand(o) : m < k
      BY StagesTyped DEF InOrder, Below
    <3> QED
      BY <3>1, <3>2, <3>4, <3>5, QueueGrows
  <2> QED
    BY <2>1, <2>2
<1>8. CASE run_command_line
  <2>1. /\ queue \in Seq(Commands) /\ queue # <<>> /\ queue' = Tail(queue)
        /\ \A o \in Origins : ran'[o] = IF o = Head(queue).from THEN Head(queue) ELSE ran[o]
    BY <1>8, Runs DEF ShellTyped, Ran
  <2>2. /\ Len(queue) \in Nat \ {0} /\ DOMAIN queue = 1 .. Len(queue)
        /\ DOMAIN queue' = 1 .. (Len(queue) - 1)
        /\ \A k \in DOMAIN queue' : queue'[k] = queue[k + 1]
        /\ Head(queue) = queue[1]
    BY <2>1, TakenOff
  <2>3. \A k \in DOMAIN queue' : k + 1 \in DOMAIN queue /\ 1 < k + 1 /\ queue'[k] = queue[k + 1]
    BY <2>2
  <2>4. 1 \in DOMAIN queue
    BY <2>2
  <2>5. \A k \in DOMAIN queue : k \in Int
    BY <2>2
  <2>6. \A k \in DOMAIN queue' : k \in Int
    BY <2>2
  <2> SUFFICES ASSUME NEW o \in Origins
               PROVE  /\ \A k \in DOMAIN queue' : queue'[k].from = o => queue'[k].line > ran'[o].line
                      /\ \A j, k \in DOMAIN queue' :
                           j < k /\ queue'[j].from = o /\ queue'[k].from = o
                             => queue'[j].line < queue'[k].line
    BY DEF QueueInStep
  <2>7. /\ \A k \in DOMAIN queue : queue[k].from = o => queue[k].line > ran[o].line
        /\ \A j, k \in DOMAIN queue :
             j < k /\ queue[j].from = o /\ queue[k].from = o => queue[j].line < queue[k].line
    BY DEF QueueInStep
  <2>8. ASSUME NEW k \in DOMAIN queue', queue'[k].from = o
        PROVE  queue'[k].line > ran'[o].line
    <3>1. CASE queue[1].from = o
      BY <2>1, <2>2, <2>3, <2>4, <2>7, <2>8, <3>1
    <3>2. CASE queue[1].from # o
      BY <2>1, <2>2, <2>3, <2>7, <2>8, <3>2
    <3> QED
      BY <3>1, <3>2
  <2>9. ASSUME NEW j \in DOMAIN queue', NEW k \in DOMAIN queue', j < k,
               queue'[j].from = o, queue'[k].from = o
        PROVE  queue'[j].line < queue'[k].line
    <3>1. j + 1 \in DOMAIN queue /\ k + 1 \in DOMAIN queue /\ j + 1 < k + 1
      BY <2>3, <2>6, <2>9
    <3> QED
      BY <2>3, <2>7, <2>9, <3>1
  <2> QED
    BY <2>8, <2>9
<1>9. CASE end_capture
  BY <1>9, Ends DEF QueueInStep
<1>10. CASE deliver_command_output
  BY <1>10 DEF QueueInStep, deliver_command_output, fromShell
<1>11. CASE pollScript
  <2> DEFINE line == NextLine(script.cursor)
             c == [from |-> "script", line |-> line, run |-> bounds.scripts]
  <2>1. /\ UNCHANGED ran /\ script.cursor \in 1 .. ScriptLines + 1
        /\ queue' = queue \/ queue' = Append(queue, c)
    BY <1>11, Polls DEF LinesTyped, Polled
  <2>2. line \in Nat /\ bounds.scripts \in Nat
    BY <2>1, NextLineIs, TerminalAssumption DEF LinesTyped
  <2>3. c \in Commands /\ c.from \notin Origins
    BY <2>2, TerminalAssumption DEF Commands
  <2> HIDE DEF line, c
  <2> QED
    BY <2>1, <2>3, QueueGrows DEF QueueInStep
<1> QED
  BY <1>1, <1>2, <1>3, <1>4, <1>5, <1>6, <1>7, <1>8, <1>9, <1>10, <1>11,
     PumpCases DEF TerminalNext, ShellTask, Targets



\* Nothing of the script's moves.
LEMMA ScriptKept ==
  ASSUME TerminalIInv, ran' = ran, script' = script, bounds'.scripts = bounds.scripts,
         \/ queue' = queue
         \/ \E c \in Commands : c.from # "script" /\ queue' = Append(queue, c)
  PROVE  ScriptInStep'
<1>1. queue \in Seq(Commands)
  BY DEF TerminalIInv, ShellTyped
<1>2. Marks' = Marks /\ \A k \in Marks : Mark(k)' = Mark(k)
  <2>1. CASE queue' = queue
    BY <2>1 DEF Marks, Mark
  <2>2. CASE \E c \in Commands : c.from # "script" /\ queue' = Append(queue, c)
    <3>1. PICK c \in Commands : c.from # "script" /\ queue' = Append(queue, c)
      BY <2>2
    <3>2. /\ Len(queue) \in Nat /\ DOMAIN queue = 1 .. Len(queue)
          /\ DOMAIN queue' = 1 .. Len(queue) + 1
          /\ \A k \in DOMAIN queue : queue'[k] = queue[k]
          /\ queue'[Len(queue) + 1] = c
      BY <1>1, <3>1, Appended
    <3>3. /\ DOMAIN queue' = DOMAIN queue \cup {Len(queue) + 1} /\ 0 \notin DOMAIN queue
          /\ Len(queue) + 1 \notin DOMAIN queue
      BY <3>2, SMTT(40)
    <3>4. Marks' = Marks
      BY <3>1, <3>2, <3>3 DEF Marks
    <3>5. \A k \in Marks : Mark(k)' = Mark(k)
      BY <3>2 DEF Marks, Mark
    <3> QED
      BY <3>4, <3>5
  <2> QED
    BY <2>1, <2>2
<1>3. MarksInStep /\ CursorInStep
  BY DEF TerminalIInv, ScriptInStep
<1>4. MarksInStep'
  BY <1>2, <1>3 DEF MarksInStep
<1>5. CursorInStep'
  BY <1>2, <1>3 DEF CursorInStep, UnderWay, BetweenRuns
<1> QED
  BY <1>4, <1>5 DEF ScriptInStep

LEMMA MarksTyped ==
  ASSUME TerminalIInv
  PROVE  0 \in Marks /\ Marks \subseteq Nat /\ \A k \in Marks : Mark(k) \in Commands
<1>1. queue \in Seq(Commands) /\ ran["script"] \in Commands
  BY DEF TerminalIInv, ShellTyped, LinesTyped
<1>2. DOMAIN queue \subseteq Nat /\ \A k \in DOMAIN queue : queue[k] \in Commands
  BY <1>1
<1> QED
  BY <1>1, <1>2 DEF Marks, Mark

\* pollScript() queues the command that follows the last one queued, or ends the script.
LEMMA ScriptPolls ==
  ASSUME TerminalIInv, pollScript
  PROVE  ScriptInStep'
<1> DEFINE line == NextLine(script.cursor)
           c == [from |-> "script", line |-> line, run |-> bounds.scripts]
<1>1. /\ queue \in Seq(Commands) /\ ran' = ran /\ script.cursor \in 1 .. ScriptLines + 1
      /\ script.active /\ bounds' = bounds /\ bounds.scripts \in Nat
      /\ \/ line = ScriptLines + 1 /\ queue' = queue /\ script'.cursor = 1 /\ ~script'.active
         \/ /\ line # ScriptLines + 1 /\ queue' = Append(queue, c)
            /\ script'.cursor = line + 1 /\ script'.active
  BY Polls DEF TerminalIInv, ShellTyped, LinesTyped, Polled
<1>2. line \in Nat /\ line = NextLine(script.cursor)
  BY <1>1, NextLineIs, TerminalAssumption
<1>3. c \in Commands /\ c.from = "script" /\ c.line = line /\ c.run = bounds.scripts
  BY <1>1, <1>2 DEF Commands
<1>4. MarksInStep /\ CursorInStep
  BY DEF TerminalIInv, ScriptInStep
<1>5. \A k \in Marks : Mark(k).line \in Nat /\ Mark(k).run \in Nat
  BY MarksTyped DEF Commands
<1> HIDE DEF line, c
<1>6. CASE line = ScriptLines + 1 /\ queue' = queue /\ script'.cursor = 1 /\ ~script'.active
  <2>1. Marks' = Marks /\ \A k \in Marks : Mark(k)' = Mark(k)
    BY <1>1, <1>6 DEF Marks, Mark
  <2>2. MarksInStep'
    BY <1>4, <2>1 DEF MarksInStep
  <2>3. CursorInStep'
    <3>1. CASE script.cursor = 1
      BY <1>2, <1>6, <3>1 DEF CursorInStep
    <3>2. CASE script.cursor # 1
      <4>1. PICK k \in Marks : (\A m \in Marks : m <= k) /\ UnderWay(Mark(k))
        BY <1>4, <3>2 DEF CursorInStep, BetweenRuns
      <4>2. BetweenRuns(Mark(k))'
        BY <1>1, <1>2, <1>6, <2>1, <4>1 DEF UnderWay, BetweenRuns
      <4> QED
        BY <2>1, <4>1, <4>2 DEF CursorInStep
    <3> QED
      BY <3>1, <3>2
  <2> QED
    BY <2>2, <2>3 DEF ScriptInStep
<1>7. CASE queue' = Append(queue, c) /\ script'.cursor = line + 1 /\ script'.active
           /\ line # ScriptLines + 1
  <2>0. PICK top : top = Len(queue) + 1
    OBVIOUS
  <2>1. /\ Len(queue) \in Nat /\ DOMAIN queue = 1 .. Len(queue)
        /\ DOMAIN queue' = 1 .. Len(queue) + 1
        /\ \A k \in DOMAIN queue : queue'[k] = queue[k]
        /\ queue'[top] = c
    BY <1>1, <1>3, <1>7, <2>0, Appended
  <2>2. /\ Marks' = Marks \cup {top} /\ top \in Nat \ {0} /\ \A m \in Marks : m \in Nat /\ m < top
    <3>1. DOMAIN queue' = DOMAIN queue \cup {top}
      BY <2>0, <2>1
    <3> QED
      BY <1>3, <2>0, <2>1, <3>1 DEF Marks
  <2>3. Mark(top)' = c /\ \A k \in Marks : Mark(k)' = Mark(k)
    BY <1>1, <1>3, <2>1, <2>2 DEF Marks, Mark
  <2>4. PICK last \in Marks : /\ \A m \in Marks : m <= last
                              /\ UnderWay(Mark(last)) \/ BetweenRuns(Mark(last))
    BY <1>2, <1>4, <1>7 DEF CursorInStep
  <2>5. Follows(Mark(last), c)
    <3>1. CASE UnderWay(Mark(last))
      BY <1>2, <1>3, <3>1 DEF UnderWay, Follows
    <3>2. CASE BetweenRuns(Mark(last))
      BY <1>1, <1>2, <1>3, <3>2 DEF BetweenRuns, Follows
    <3> QED
      BY <2>4, <3>1, <3>2
  <2>6. ASSUME NEW j \in Marks', NEW k \in Marks', j < k, \A m \in Marks' : m <= j \/ k <= m
        PROVE  Follows(Mark(j)', Mark(k)')
    <3>1. j \in Marks
      BY <2>2, <2>6
    <3>2. CASE k \in Marks
      BY <1>4, <2>2, <2>3, <2>6, <3>1, <3>2 DEF MarksInStep
    <3>3. CASE k = top
      <4>1. j = last
        BY <2>2, <2>4, <2>6, <3>1, <3>3
      <4> QED
        BY <2>3, <2>5, <3>1, <3>3, <4>1
    <3> QED
      BY <2>2, <3>2, <3>3
  <2>7. MarksInStep'
    <3>1. \A j, k \in Marks' : j < k /\ (\A m \in Marks' : m <= j \/ k <= m)
                                 => Follows(Mark(j)', Mark(k)')
      BY <2>6
    <3> QED
      BY <3>1 DEF MarksInStep, Follows
  <2>8. CursorInStep'
    <3>1. top \in Marks' /\ \A m \in Marks' : m <= top
      BY <2>2
    <3>2. UnderWay(Mark(top))'
      BY <1>1, <1>3, <1>7, <2>3 DEF UnderWay
    <3> QED
      BY <3>1, <3>2 DEF CursorInStep
  <2> QED
    BY <2>7, <2>8 DEF ScriptInStep
<1> QED
  BY <1>1, <1>6, <1>7

\* The shell takes a command: if it is the script's, it is the first of its marks but one.
LEMMA ScriptRuns ==
  ASSUME TerminalIInv, run_command_line
  PROVE  ScriptInStep' /\ (Head(queue).from = "script" => Follows(ran["script"], Head(queue)))
<1>1. /\ queue \in Seq(Commands) /\ queue # <<>> /\ queue' = Tail(queue)
      /\ ran'["script"] = IF Head(queue).from = "script" THEN Head(queue) ELSE ran["script"]
      /\ (script' = script /\ bounds'.scripts = bounds.scripts) \/ Started
  BY Runs DEF TerminalIInv, ShellTyped, Ran
<1>2. /\ Len(queue) \in Nat \ {0} /\ DOMAIN queue = 1 .. Len(queue)
      /\ DOMAIN queue' = 1 .. (Len(queue) - 1)
      /\ \A k \in DOMAIN queue' : queue'[k] = queue[k + 1]
      /\ Head(queue) = queue[1]
  BY <1>1, TakenOff
<1>3. MarksInStep /\ CursorInStep
  BY DEF TerminalIInv, ScriptInStep
<1>4. 0 \in Marks /\ Marks \subseteq Nat /\ \A k \in Marks : Mark(k).run \in Nat
  BY MarksTyped DEF Commands
\* Where a mark was before the step.
<1> DEFINE was(k) == IF k = 0 /\ Head(queue).from # "script" THEN 0 ELSE k + 1
<1>5. Marks' \subseteq Nat /\ 0 \in Marks'
  BY <1>2 DEF Marks
<1>6. \A k \in Marks' : was(k) \in Marks /\ Mark(k)' = Mark(was(k))
  <2>1. ASSUME NEW k \in Marks', k # 0
        PROVE  was(k) \in Marks /\ Mark(k)' = Mark(was(k))
    <3>1. k \in DOMAIN queue' /\ queue'[k].from = "script" /\ was(k) = k + 1
      BY <2>1 DEF Marks
    <3>2. k + 1 \in DOMAIN queue /\ queue'[k] = queue[k + 1] /\ k + 1 # 0
      BY <1>2, <3>1
    <3> QED
      BY <2>1, <3>1, <3>2 DEF Marks, Mark
  <2>2. was(0) \in Marks /\ Mark(0)' = Mark(was(0))
    <3>1. CASE Head(queue).from = "script"
      <4>1. was(0) = 1 /\ 1 \in DOMAIN queue
        BY <1>2, <3>1
      <4> QED
        BY <1>1, <1>2, <3>1, <4>1 DEF Marks, Mark
    <3>2. CASE Head(queue).from # "script"
      BY <1>1, <1>4, <3>2 DEF Mark
    <3> QED
      BY <3>1, <3>2
  <2> QED
    BY <2>1, <2>2
<1>7. \A m \in Marks : m = 0 \/ \E k \in Marks' : was(k) = m
  <2> SUFFICES ASSUME NEW m \in Marks, m # 0
               PROVE  \E k \in Marks' : was(k) = m
    OBVIOUS
  <2>1. m \in 1 .. Len(queue) /\ queue[m].from = "script"
    BY <1>2 DEF Marks
  <2>2. CASE m = 1
    <3>1. was(0) = 1
      BY <1>2, <2>1, <2>2
    <3> QED
      BY <1>5, <2>2, <3>1
  <2>3. CASE m # 1
    <3>1. m - 1 \in DOMAIN queue' /\ (m - 1) + 1 = m /\ m - 1 # 0
      BY <1>2, <2>1, <2>3
    <3>2. m - 1 \in Marks'
      BY <1>2, <2>1, <3>1 DEF Marks
    <3> QED
      BY <3>1, <3>2
  <2> QED
    BY <2>2, <2>3
<1>8. \A j, k \in Marks' : j < k <=> was(j) < was(k)
  BY <1>5
<1>9. \A k \in Marks' : was(k) \in Nat
  BY <1>4, <1>6
<1> HIDE DEF was
<1>10. ASSUME NEW j \in Marks', NEW k \in Marks', j < k, \A m \in Marks' : m <= j \/ k <= m
       PROVE  Follows(Mark(j)', Mark(k)')
  <2>1. was(j) \in Marks /\ was(k) \in Marks /\ was(j) < was(k)
    BY <1>6, <1>8, <1>10
  <2>2. ASSUME NEW m \in Marks
        PROVE  m <= was(j) \/ was(k) <= m
    <3>1. CASE m = 0
      BY <1>9, <3>1
    <3>2. CASE m # 0
      <4>1. PICK n \in Marks' : was(n) = m
        BY <1>7, <3>2
      <4>2. ~(j < n) \/ ~(n < k)
        BY <1>5, <1>10
      <4>3. ~(was(j) < was(n)) \/ ~(was(n) < was(k))
        BY <1>8, <4>2
      <4> QED
        BY <1>9, <4>1, <4>3
    <3> QED
      BY <3>1, <3>2
  <2>3. Follows(Mark(was(j)), Mark(was(k)))
    BY <1>3, <2>1, <2>2 DEF MarksInStep
  <2> QED
    BY <1>6, <2>3
<1>11. MarksInStep'
  BY <1>10 DEF MarksInStep, Follows
<1>12. CursorInStep'
  <2>1. CASE script.cursor = 1 /\ NextLine(1) = ScriptLines + 1
    <3>1. script'.cursor = 1
      BY <1>1, <2>1 DEF Started
    <3> QED
      BY <2>1, <3>1 DEF CursorInStep
  <2>2. CASE ~(script.cursor = 1 /\ NextLine(1) = ScriptLines + 1)
    <3>1. PICK k \in Marks : /\ \A m \in Marks : m <= k
                             /\ UnderWay(Mark(k)) \/ BetweenRuns(Mark(k))
      BY <1>3, <2>2 DEF CursorInStep
    <3>2. PICK n \in Marks' : was(n) = k
      <4>1. CASE k = 0
        <5>1. was(0) = 0
          BY <1>5, <1>6, <1>9, <3>1, <4>1
        <5> QED
          BY <1>5, <4>1, <5>1
      <4>2. CASE k # 0
        BY <1>7, <4>2
      <4> QED
        BY <4>1, <4>2
    <3>3. \A m \in Marks' : m <= n
      <4>1. \A m \in Marks' : ~(was(n) < was(m))
        BY <1>4, <1>6, <1>9, <3>1, <3>2
      <4> QED
        BY <1>5, <1>8, <4>1
    <3>4. Mark(n)' = Mark(k)
      BY <1>6, <3>2
    <3>5. UnderWay(Mark(n))' \/ BetweenRuns(Mark(n))'
      <4>1. CASE script' = script /\ bounds'.scripts = bounds.scripts
        BY <3>1, <3>4, <4>1 DEF UnderWay, BetweenRuns
      <4>2. CASE Started
        BY <3>1, <3>4, <4>2 DEF Started, UnderWay, BetweenRuns
      <4> QED
        BY <1>1, <4>1, <4>2
    <3> QED
      BY <3>3, <3>5 DEF CursorInStep
  <2> QED
    BY <2>1, <2>2
<1>13. Head(queue).from = "script" => Follows(ran["script"], Head(queue))
  <2> SUFFICES ASSUME Head(queue).from = "script"
               PROVE  Follows(ran["script"], Head(queue))
    OBVIOUS
  <2>1. 1 \in Marks /\ Mark(1) = Head(queue) /\ Mark(0) = ran["script"]
    BY <1>2 DEF Marks, Mark
  <2>2. \A m \in Marks : m <= 0 \/ 1 <= m
    BY <1>4
  <2> QED
    BY <1>3, <1>4, <2>1, <2>2 DEF MarksInStep
<1> QED
  BY <1>11, <1>12, <1>13 DEF ScriptInStep

\* A script submits its lines one after the other, from where it left off.
LEMMA ScriptStep ==
  ASSUME TerminalIInv, TerminalNext PROVE ScriptInStep'
<1> USE DEF TerminalIInv
<1>1. ASSUME NEW o \in Origins, NEW link \in Targets, on_terminal_in(o, link)
      PROVE  ScriptInStep'
  <2>1. /\ bounds' = [bounds EXCEPT !.lines = bounds.lines + 1]
        /\ UNCHANGED <<queue, script, ran>>
    BY <1>1 DEF on_terminal_in
  <2>2. bounds'.scripts = bounds.scripts
    BY <2>1 DEF LinesTyped
  <2> QED
    BY <2>1, <2>2, ScriptKept
<1>2. ASSUME NEW link \in Links, bind_target(link)
      PROVE  ScriptInStep'
  BY <1>2, ScriptKept DEF bind_target
<1>3. ASSUME NEW link \in Links, unbind_target(link)
      PROVE  ScriptInStep'
  BY <1>3, ScriptKept DEF unbind_target
<1>4. CASE Moves
  BY <1>4, ScriptKept, MovesOn DEF pumpOnly
<1>5. CASE Snaps
  <2>1. UNCHANGED <<queue, pumpOnly>>
    BY <1>5 DEF Snaps, PumpTake
  <2> QED
    BY <2>1, ScriptKept DEF pumpOnly
<1>6. CASE PumpWork
  <2>1. AtWork /\ UNCHANGED <<script, ran, bounds>>
    BY <1>6, WorkQueue DEF pumpOnly
  <2>2. CASE queue' = queue
    BY <2>1, <2>2, ScriptKept
  <2>3. CASE queue' # queue
    <3> DEFINE n == own[pump.slot].pending[1]
               c == [from |-> pump.origin, line |-> n, run |-> 0]
    <3>1. Queues(n) /\ n \in Nat
      BY <1>6, <2>3, WorkQueue
    <3>2. c \in Commands /\ queue' = Append(queue, c) /\ c.from # "script"
      BY <2>1, <3>1, Submits, TerminalAssumption DEF Queues
    <3> HIDE DEF c
    <3> QED
      BY <2>1, <3>2, ScriptKept
  <2> QED
    BY <2>2, <2>3
<1>7. CASE PumpLine
  <2>1. AtWork /\ UNCHANGED <<script, ran, bounds>>
    BY <1>7, LineQueue DEF pumpOnly
  <2>2. CASE queue' = queue
    BY <2>1, <2>2, ScriptKept
  <2>3. CASE queue' # queue
    <3> DEFINE n == Head(own[pump.slot].editor)
               c == [from |-> pump.origin, line |-> n, run |-> 0]
    <3>1. Queues(n) /\ n \in Nat
      BY <1>7, <2>3, LineQueue
    <3>2. c \in Commands /\ queue' = Append(queue, c) /\ c.from # "script"
      BY <2>1, <3>1, Submits, TerminalAssumption DEF Queues
    <3> HIDE DEF c
    <3> QED
      BY <2>1, <3>2, ScriptKept
  <2> QED
    BY <2>2, <2>3
<1>8. CASE run_command_line
  BY <1>8, ScriptRuns
<1>9. CASE end_capture
  BY <1>9, ScriptKept, Ends DEF Ended
<1>10. CASE deliver_command_output
  BY <1>10, ScriptKept DEF deliver_command_output, fromShell
<1>11. CASE pollScript
  BY <1>11, ScriptPolls
<1> QED
  BY <1>1, <1>2, <1>3, <1>4, <1>5, <1>6, <1>7, <1>8, <1>9, <1>10, <1>11,
     PumpCases DEF TerminalNext, ShellTask, Targets


-----------------------------------------------------------------------------
(* The invariant and the theorems.                                         *)

LEMMA TerminalStarts ==
  TerminalInit => TerminalIInv
<1> SUFFICES ASSUME TerminalInit PROVE TerminalIInv
  OBVIOUS
<1> DEFINE fresh == [editor |-> <<>>, awaiting |-> FALSE, pending |-> <<>>]
<1>1. /\ kMaxOrigins \in Nat \ {0} /\ QueueLength \in Nat /\ kMaxPendingIn \in Nat
      /\ ScriptLines \in Nat
  BY TerminalAssumption
<1>2. <<>> \in Seq(Nat) /\ <<>> \in Seq(Commands) /\ Len(<<>>) = 0 /\ DOMAIN <<>> = {}
  OBVIOUS
<1>3. fresh \in OwnRecords /\ fresh.editor = <<>> /\ fresh.pending = <<>>
  BY <1>2 DEF OwnRecords
<1> HIDE DEF fresh
<1>4. /\ \A i \in Slots : slots[i] = Free /\ own[i] = fresh
      /\ slots = [i \in Slots |-> Free] /\ own = [i \in Slots |-> fresh]
      /\ pump = Idle /\ 1 \in Slots /\ queue = <<>>
      /\ shell = [at |-> "idle", cmd |-> NoCommand, text |-> {}]
      /\ capture = [active |-> FALSE, buf |-> {}] /\ bound = {}
      /\ script \in [active : BOOLEAN, cursor : {1}]
      /\ bounds = [lines |-> 0, timeouts |-> 0, scripts |-> IF script.active THEN 1 ELSE 0]
      /\ typed = [o \in Origins |-> 0] /\ ran = [o \in Origins \cup {"script"} |->
                [from |-> o, line |-> IF o = "script" THEN ScriptLines ELSE 0, run |-> 0]]
  BY <1>1 DEF TerminalInit, Slots, fresh
<1>5. /\ Free.used = FALSE /\ Free.ready = FALSE /\ Free.in = <<>>
      /\ pump.at = "idle" /\ pump.in = <<>> /\ pump.reset = FALSE /\ pump.have = FALSE
  BY <1>4, Made DEF Free
<1>6. SlotsTyped
  BY <1>3, <1>4, Made DEF SlotsTyped
<1>7. ShellTyped /\ shell.at = "idle" /\ capture.active = FALSE /\ capture.buf = {}
  BY <1>2, <1>4 DEF ShellTyped
<1>8. /\ LinesTyped /\ script.cursor = 1 /\ ran["script"].line = ScriptLines /\ ran["script"].run = 0
      /\ \A o \in Origins : ran[o].line = 0 /\ typed[o] = 0
  <2>1. script \in [active : BOOLEAN, cursor : 1 .. ScriptLines + 1] /\ script.cursor = 1
    BY <1>1, <1>4
  <2>2. bounds \in [lines : Nat, timeouts : Nat, scripts : Nat]
    BY <1>4
  <2>3. ran \in [Origins \cup {"script"} -> Commands]
    BY <1>1, <1>4 DEF Commands
  <2>4. /\ ran["script"].line = ScriptLines /\ ran["script"].run = 0
        /\ \A o \in Origins : ran[o].line = 0 /\ typed[o] = 0
    BY <1>4, TerminalAssumption
  <2> QED
    BY <1>4, <2>1, <2>2, <2>3, <2>4 DEF LinesTyped
<1>9. Limits
  BY <1>1, <1>2, <1>3, <1>4, <1>5, <1>7 DEF Limits
<1>10. OneSlotEach /\ ResultsPlaced
  BY <1>4, <1>5 DEF OneSlotEach, ResultsPlaced
<1>11. CaptureInStep
  BY <1>7 DEF CaptureInStep
<1>12. PumpInStep
  BY <1>3, <1>4, <1>5 DEF PumpInStep, AtWork
<1>13. StagesInStep
  <2> SUFFICES ASSUME NEW o \in Origins
               PROVE  InOrder(Past(o), Ahead(o), Hand(o), Waiting(o), typed[o])
    BY DEF StagesInStep
  <2>1. Past(o) = {0}
    BY <1>2, <1>4, <1>8 DEF Past
  <2>2. Ahead(o) = {}
    BY <1>2, <1>3, <1>4 DEF Ahead
  <2>3. Hand(o) = {}
    BY <1>5 DEF Hand, AtWork
  <2>4. Waiting(o) = {}
    BY <1>2, <1>4, <1>5 DEF Waiting
  <2> QED
    BY <1>8, <2>1, <2>2, <2>3, <2>4 DEF InOrder, Below
<1>14. HandsInStep
  BY <1>3, <1>4, <1>5, AscendsBuilt DEF HandsInStep
<1>15. QueueInStep
  BY <1>2, <1>4 DEF QueueInStep
<1>16. ScriptInStep
  <2>1. Marks = {0} /\ Mark(0) = ran["script"]
    BY <1>2, <1>4 DEF Marks, Mark
  <2>2. NextLine(ScriptLines + 1) = ScriptLines + 1
    BY <1>1, NextLineIs
  <2>3. bounds.scripts = IF script.active THEN 1 ELSE 0
    BY <1>4
  <2>4. BetweenRuns(Mark(0))
    BY <1>8, <2>1, <2>2, <2>3 DEF BetweenRuns
  <2> QED
    BY <2>1, <2>4 DEF ScriptInStep, MarksInStep, CursorInStep
<1> QED
  BY <1>6, <1>7, <1>8, <1>9, <1>10, <1>11, <1>12, <1>13, <1>14, <1>15, <1>16 DEF TerminalIInv

LEMMA TerminalStutters ==
  ASSUME TerminalIInv, UNCHANGED terminalVars
  PROVE  TerminalIInv'
<1> USE DEF TerminalIInv, terminalVars
<1>1. SlotsTyped' /\ ShellTyped' /\ LinesTyped' /\ Limits' /\ OneSlotEach'
  BY DEF SlotsTyped, ShellTyped, LinesTyped, Limits, OneSlotEach
<1>2. ResultsPlaced' /\ CaptureInStep' /\ PumpInStep'
  BY DEF ResultsPlaced, ResultOf, CaptureInStep, PumpInStep, AtWork
<1>3. StagesInStep'
  <2> SUFFICES ASSUME NEW o \in Origins
               PROVE  InOrder(Past(o)', Ahead(o)', Hand(o)', Waiting(o)', typed'[o])
    BY DEF StagesInStep
  <2>1. Ahead(o)' \subseteq Ahead(o) /\ Hand(o)' = Hand(o) /\ Waiting(o)' \subseteq Waiting(o)
    BY SlotsKept
  <2> QED
    BY <2>1, PastKept, Fewer
<1>4. HandsInStep' /\ QueueInStep'
  BY DEF HandsInStep, QueueInStep
<1>5. ScriptInStep'
  BY ScriptKept
<1> QED
  BY <1>1, <1>2, <1>3, <1>4, <1>5

LEMMA TerminalStep ==
  ASSUME TerminalIInv, [TerminalNext]_terminalVars
  PROVE  TerminalIInv'
<1>1. CASE TerminalNext
  <2>1. SlotsTyped' /\ ShellTyped' /\ LinesTyped' /\ Limits' /\ OneSlotEach'
    BY <1>1, SlotsTypedStep, ShellTypedStep, LinesTypedStep, LimitsStep, OneSlotStep
  <2>2. ResultsPlaced' /\ CaptureInStep' /\ PumpInStep'
    BY <1>1, ResultsPlacedStep, CaptureStep, PumpInStepStep
  <2>3. StagesInStep' /\ HandsInStep' /\ QueueInStep' /\ ScriptInStep'
    BY <1>1, StagesStep, HandsStep, QueueStep, ScriptStep
  <2> QED
    BY <2>1, <2>2, <2>3 DEF TerminalIInv
<1>2. CASE UNCHANGED terminalVars
  BY <1>2, TerminalStutters
<1> QED
  BY <1>1, <1>2

\* The strengthening holds of every reachable state of the terminals, whatever the number
\* of slots and origins and the lengths of the queue and of the buffers.
THEOREM TerminalInductive == TerminalSpec => []TerminalIInv
<1>1. TerminalInit => TerminalIInv
  BY TerminalStarts
<1>2. TerminalIInv /\ [TerminalNext]_terminalVars => TerminalIInv'
  BY TerminalStep
<1> QED
  BY <1>1, <1>2, PTL DEF TerminalSpec

\* Types and bounds: no slot takes more lines than its buffer holds, one line at most is held
\* behind the line in flight, the queue is never over-full, an origin has one slot.
THEOREM TerminalTypeCorrect == TerminalSpec => []TerminalTypeOK
<1>1. TerminalIInv => TerminalTypeOK
  <2> SUFFICES ASSUME TerminalIInv PROVE TerminalTypeOK
    OBVIOUS
  <2>1. slots \in [Slots -> SlotRecords] /\ pump \in PumpRecords /\ shell.at \in {"idle", "end", "deliver"}
        /\ script.cursor \in 1 .. ScriptLines + 1
    BY DEF TerminalIInv, SlotsTyped, ShellTyped, LinesTyped
  <2>2. \A i \in Slots : slots[i].target \in Links \cup {"radio"}
    BY <2>1 DEF SlotRecords, Targets
  <2>3. pump.slot \in Slots /\ pump.at \in {"idle", "take", "work", "lines"}
    BY <2>1 DEF PumpRecords
  <2> QED
    BY <2>1, <2>2, <2>3 DEF TerminalIInv, Limits, OneSlotEach, TerminalTypeOK
<1> QED
  BY <1>1, TerminalInductive, PTL

\* The result a slot shows is of a command its own origin typed, and its text is that
\* command's output alone unless two waits for the logger's mutex ran out.
THEOREM ResultsKeepOrigin == TerminalSpec => []ResultsStayWithTheirOrigin
<1>1. TerminalIInv => ResultsStayWithTheirOrigin
  BY DEF TerminalIInv, ResultsPlaced, ResultOf, ResultsStayWithTheirOrigin
<1> QED
  BY <1>1, TerminalInductive, PTL

\* A command is taken from the queue by the shell alone.
LEMMA OnlyTheShellTakes ==
  ASSUME TerminalIInv, [TerminalNext]_terminalVars, queue # <<>>, queue' = Tail(queue)
  PROVE  run_command_line
<1> USE DEF TerminalIInv
<1>1. queue' # queue /\ \A c : queue' # Append(queue, c)
  <2>1. queue \in Seq(Commands)
    BY DEF ShellTyped
  <2>2. Len(queue) \in Nat \ {0} /\ Len(queue') = Len(queue) - 1
    BY <2>1, EmptySeq, LenProperties, HeadTailProperties
  <2>3. ASSUME queue' = queue
        PROVE  FALSE
    <3>1. Len(queue') = Len(queue)
      BY <2>3
    <3> QED
      BY <2>2, <3>1
  <2>4. ASSUME NEW c, queue' = Append(queue, c)
        PROVE  FALSE
    <3>1. queue \in Seq(Commands \cup {c}) /\ c \in Commands \cup {c}
      BY <2>1
    <3>2. Len(Append(queue, c)) = Len(queue) + 1
      BY <3>1, AppendProperties
    <3>3. Len(queue') = Len(Append(queue, c))
      BY <2>4
    <3> QED
      BY <2>2, <3>2, <3>3
  <2> QED
    BY <2>3, <2>4
<1>2. queue' # queue
  BY <1>1
<1>3. CASE UNCHANGED terminalVars
  BY <1>2, <1>3 DEF terminalVars
<1>4. ASSUME NEW o \in Origins, NEW link \in Targets, on_terminal_in(o, link)
      PROVE  run_command_line
  BY <1>2, <1>4 DEF on_terminal_in
<1>5. ASSUME NEW link \in Links, bind_target(link) \/ unbind_target(link)
      PROVE  run_command_line
  BY <1>2, <1>5 DEF bind_target, unbind_target
<1>6. CASE Moves
  BY <1>2, <1>6, MovesOn
<1>7. CASE Snaps
  BY <1>2, <1>7 DEF Snaps, PumpTake
<1>8. CASE PumpWork
  BY <1>1, <1>2, <1>8, WorkQueue DEF Queues
<1>9. CASE PumpLine
  BY <1>1, <1>2, <1>9, LineQueue DEF Queues
<1>10. CASE end_capture \/ deliver_command_output
  BY <1>2, <1>10 DEF end_capture, deliver_command_output
<1>11. CASE pollScript
  BY <1>1, <1>2, <1>11, Polls DEF Polled
<1> QED
  BY <1>3, <1>4, <1>5, <1>6, <1>7, <1>8, <1>9, <1>10, <1>11,
     PumpCases DEF TerminalNext, ShellTask, Targets

LEMMA RunsInOrder ==
  ASSUME TerminalIInv, run_command_line
  PROVE  LET cmd  == Head(queue)
             last == ran[cmd.from] IN
         IF cmd.from = "script" THEN Follows(last, cmd) ELSE cmd.line > last.line
<1>1. queue \in Seq(Commands) /\ queue # <<>> /\ queue' = Tail(queue) /\ Head(queue) \in Commands
  BY Runs DEF TerminalIInv, ShellTyped
<1>2. 1 \in DOMAIN queue /\ Head(queue) = queue[1]
  BY <1>1, TakenOff
<1>3. \A o \in Origins : queue[1].from = o => queue[1].line > ran[o].line
  BY <1>2 DEF TerminalIInv, QueueInStep
<1>4. Head(queue).from \in Origins \cup {"script"}
  BY <1>1 DEF Commands
<1> QED
  BY <1>2, <1>3, <1>4, ScriptRuns

\* Every command the shell takes comes after the last one of its origin: a typed line is a later
\* line, through the slot, the editor, the line typed ahead, resets, refusals and evictions; a
\* script's line is the next of its run, and a run's first line follows the last of the run before.
THEOREM LinesRunInOrder == TerminalSpec => LinesInOrder
<1> DEFINE A == queue # <<>> /\ queue' = Tail(queue) =>
                  LET cmd  == Head(queue)
                      last == ran[cmd.from] IN
                  IF cmd.from = "script" THEN Follows(last, cmd) ELSE cmd.line > last.line
<1>1. TerminalIInv /\ [TerminalNext]_terminalVars => [A]_terminalVars
  BY OnlyTheShellTakes, RunsInOrder
<1>2. LinesInOrder <=> [][A]_terminalVars
  BY DEF LinesInOrder
<1> HIDE DEF A
<1> QED
  BY <1>1, <1>2, TerminalInductive, PTL DEF TerminalSpec
=============================================================================
