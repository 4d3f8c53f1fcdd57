--------------------------------- MODULE Journal ---------------------------------
(***************************************************************************)
(* From a lane's transcript to its journal, and from the journal to what a *)
(* monitor pass looks at: the tail reader (journal/reader), the stateful   *)
(* normalizers (journal/normalizers), the ingestor and its pool            *)
(* (journal/ingest, monitord), the append-only store (journal/store) and   *)
(* the bounded working context of load_lane_events (monitord).             *)
(*                                                                         *)
(* A record is a completed transcript line; Kind says what a normalizer    *)
(* makes of it.  An event is named by its record, its type and what it     *)
(* joins, which is the identity the store drops replays by.                *)
(***************************************************************************)
EXTENDS Naturals, Sequences, SequencesExt

CONSTANTS
    Kind,           \* record -> "call", "result", "said", "text", "end", "begin", "launch", "notice"
    Join,           \* record -> the tool call it belongs to
    Session,        \* record -> native session
    History,        \* rows of the journal from before, replayed rows among them
    Rewrites,       \* what a rewrite of the transcript in place may leave
    Replacements,   \* transcripts of other sessions that may be moved over it
    MaxRecords,     \* records in a transcript
    MaxChanges,     \* rewrites and replacements
    MaxFaults,      \* crashes, busy journal locks
    Batch,          \* records read, or rows loaded, in one go
    CacheEvents     \* _CACHE_EVENTS

VARIABLES
    file,           \* the transcript: [inode, recs]
    unread,         \* what the reader's open descriptor still holds of a replaced file
    reader,         \* JsonlTailReader
    norm,           \* TranscriptNormalizer
    poll,           \* JournalIngestor.poll in progress
    raced,          \* the transcript was rewritten while a poll looked at it
    log,            \* the journal
    cache,          \* _LaneJournalCache
    changes,
    faults

vars == <<file, unread, reader, norm, poll, raced, log, cache, changes, faults>>

Records == DOMAIN Kind
None == "none"

---------------------------------------------------------------------------
(* Normalization *)

Fresh == [text |-> None, tasks |-> {}, session |-> None, heads |-> {}, gen |-> 0]

\* begin_replay
Replayed(n) == [n EXCEPT !.text = None, !.tasks = {}]

Event(r, type, of) == [rec |-> r, type |-> type, of |-> of]
Context(r) == Event(r, "context", None)

\* The kinds whose event stands in the record itself: all of Amp's and Devin's,
\* and the calls and results of the others.
TypeOf(r) == [call |-> "call", result |-> "result", said |-> "final"][Kind[r]]
Plain(r) == Event(r, TypeOf(r), IF Kind[r] = "said" THEN r ELSE Join[r])

\* A turn's text is a final response only when the turn ends (Codex, Claude).
Ends(n, r) == Kind[r] = "end" /\ n.text # None

\* A background command's result is the notice of a task launched before (Claude).
Answers(n, r) == Kind[r] = "notice" /\ Join[r] \in n.tasks

EventOf(n, r) ==
    CASE Kind[r] \in {"call", "result", "said"} -> Plain(r)
      [] Ends(n, r) -> Event(r, "final", n.text)
      [] Answers(n, r) -> Event(r, "result", Join[r])
      [] OTHER -> Context(r)

After(n, r) ==
    [n EXCEPT !.session = Session[r],
              !.text = CASE Kind[r] = "text" -> r
                         [] Kind[r] \in {"end", "begin", "said"} -> None
                         [] OTHER -> @,
              !.tasks = CASE Kind[r] = "launch" -> @ \cup {Join[r]}
                          [] Kind[r] = "notice" -> @ \ {Join[r]}
                          [] OTHER -> @]

\* The session of a transcript never changes under one normalizer.
Foreign(n, r) == n.session # None /\ n.session # Session[r]

\* What a transcript says when it is read in one go.
Reference(recs) ==
    LET step(acc, r) == [n |-> After(acc.n, r), evs |-> acc.evs \cup {EventOf(acc.n, r)}]
    IN FoldLeft(step, [n |-> Fresh, evs |-> {}], recs).evs

---------------------------------------------------------------------------
(* The transcript *)

Closed == [open |-> FALSE, inode |-> 0, consumed |-> <<>>, gen |-> 1]
NoPoll == [at |-> "idle", found |-> "same", again |-> FALSE, recs |-> <<>>, rewrote |-> {}]
NoCache == [inode |-> 0, off |-> 0, evs |-> <<>>, seen |-> {}, kept |-> {}, calls |-> {}]

Init ==
    /\ file = [inode |-> 1, recs |-> <<>>] /\ unread = <<>>
    /\ reader = Closed /\ norm = Fresh /\ poll = NoPoll /\ raced = FALSE
    /\ log = [inode |-> 1, rows |-> History] /\ cache = NoCache
    /\ changes = 0 /\ faults = 0

\* The lane ends a record.  Any change moves the file's mtime, but one that a
\* poll has begun to look at is covered by the mtime it will remember.
Write(r) ==
    /\ Len(file.recs) < MaxRecords /\ r \notin ToSet(file.recs)
    /\ file.recs # <<>> => Session[r] = Session[file.recs[1]]
    /\ file' = [file EXCEPT !.recs = Append(@, r)]
    /\ raced' = (raced /\ poll.at = "drain")
    /\ UNCHANGED <<unread, reader, norm, poll, log, cache, changes, faults>>

Rewrite(recs) ==
    /\ changes < MaxChanges /\ recs # file.recs
    /\ file' = [file EXCEPT !.recs = recs]
    /\ raced' = (poll.at = "drain")
    /\ changes' = changes + 1
    /\ UNCHANGED <<unread, reader, norm, poll, log, cache, faults>>

\* A file moved over the path, a copy of the transcript or the file of another
\* session; an open descriptor keeps the old one.
Replace(recs) ==
    /\ changes < MaxChanges
    /\ file' = [inode |-> file.inode + 1, recs |-> recs]
    /\ unread' = IF reader.open /\ reader.inode = file.inode
                 THEN SubSeq(file.recs, Len(reader.consumed) + 1, Len(file.recs)) ELSE unread
    /\ raced' = FALSE
    /\ changes' = changes + 1
    /\ UNCHANGED <<reader, norm, poll, log, cache, faults>>

---------------------------------------------------------------------------
(* JsonlTailReader.poll *)

\* Fewer bytes than were read, other bytes just before the offset, or, when the
\* mtime has moved, any other consumed byte.
Broken ==
    LET k == Len(reader.consumed) IN
    \/ Len(file.recs) < k
    \/ k > 0 /\ file.recs[k] # reader.consumed[k]
    \/ ~raced /\ ~IsPrefix(reader.consumed, file.recs)

Opened == IF reader.open THEN reader ELSE [Closed EXCEPT !.open = TRUE, !.inode = file.inode]

Steady == reader.open /\ reader.inode = file.inode /\ (raced \/ ~Broken)
              /\ Len(reader.consumed) = Len(file.recs)

\* A pass polls each binding: a rebuilt ingestor polls once more.
PollLook ==
    /\ poll.at = "idle" \/ poll.at = "again"
    /\ ~Steady
    /\ reader' = Opened
    /\ poll' = [NoPoll EXCEPT !.at = "drain", !.again = (poll.at = "again"),
                   !.found = IF ~reader.open THEN "same"
                             ELSE IF reader.inode # file.inode THEN "replaced"
                             ELSE IF Broken THEN "rewritten" ELSE "same"]
    /\ UNCHANGED <<file, unread, norm, raced, log, cache, changes, faults>>

Tagged(recs, gen) == [i \in 1..Len(recs) |-> [rec |-> recs[i], gen |-> gen]]
Some(recs, k) == SubSeq(recs, k + 1, IF Len(recs) < k + Batch THEN Len(recs) ELSE k + Batch)

\* _drain on the open descriptor, and on the path after a rotation.  The path
\* is looked at once more at the end, for a rename that raced the read.
PollDrain ==
    LET rotated == [Closed EXCEPT !.open = TRUE, !.inode = file.inode, !.gen = reader.gen + 1,
                                  !.consumed = Some(file.recs, 0)]
        whole == Tagged(rotated.consumed, rotated.gen)
        more == Some(file.recs, Len(reader.consumed))
    IN
    /\ poll.at = "drain"
    /\ IF poll.found = "rewritten" /\ reader.inode = file.inode
       THEN /\ reader' = rotated /\ UNCHANGED unread
            /\ poll' = [poll EXCEPT !.at = "append", !.recs = whole, !.rewrote = {rotated.gen}]
       ELSE IF reader.inode # file.inode
       THEN /\ reader' = rotated /\ unread' = <<>>
            /\ poll' = [poll EXCEPT !.at = "append",
                           !.recs = Tagged(Some(unread, 0), reader.gen) \o whole]
       ELSE /\ reader' = [reader EXCEPT !.consumed = @ \o more] /\ UNCHANGED unread
            /\ poll' = [poll EXCEPT !.at = "append", !.recs = Tagged(more, reader.gen)]
    /\ UNCHANGED <<file, norm, raced, log, cache, changes, faults>>

---------------------------------------------------------------------------
(* JournalIngestor.poll *)

\* A generation is a read from byte zero; it is a replay after a rewrite in
\* place, and after a replacement that restarts a head seen before.
Began(n, x) ==
    IF x.gen = n.gen THEN n
    ELSE LET m == [n EXCEPT !.gen = x.gen, !.heads = @ \cup {x.rec}]
         IN IF x.gen \in poll.rewrote \/ x.rec \in n.heads THEN Replayed(m) ELSE m

Normalized ==
    LET step(acc, x) ==
            LET n == Began(acc.n, x) IN
            IF ~acc.ok \/ Foreign(n, x.rec) THEN [acc EXCEPT !.ok = FALSE]
            ELSE [n |-> After(n, x.rec), evs |-> Append(acc.evs, EventOf(n, x.rec)), ok |-> TRUE]
    IN FoldLeft(step, [n |-> norm, evs |-> <<>>, ok |-> TRUE], poll.recs)

\* _append_indexed: rows whose identity is not in the journal yet.
Unique(rows, evs) ==
    LET step(acc, e) == IF e \in ToSet(acc) THEN acc ELSE Append(acc, e)
    IN FoldLeft(step, rows, evs)

\* An ingestor whose poll failed is thrown away, with its reader.
DroppedNormalizer == norm' = Fresh /\ UNCHANGED <<reader, unread>>
Dropped == reader' = Closed /\ norm' = Fresh /\ unread' = <<>>

PollAppend ==
    /\ poll.at = "append"
    /\ IF Normalized.ok
       THEN /\ log' = [log EXCEPT !.rows = Unique(@, Normalized.evs)]
            /\ norm' = Normalized.n
            /\ poll' = NoPoll
            /\ UNCHANGED <<reader, unread>>
       ELSE /\ Dropped
            /\ poll' = IF poll.again THEN NoPoll ELSE [NoPoll EXCEPT !.at = "again"]
            /\ UNCHANGED log
    /\ UNCHANGED <<file, raced, cache, changes, faults>>

\* The journal's lock is not waited for.
PollLocked ==
    /\ poll.at = "append" /\ Normalized.ok /\ faults < MaxFaults
    /\ Dropped
    /\ poll' = NoPoll
    /\ faults' = faults + 1
    /\ UNCHANGED <<file, raced, log, cache, changes>>

---------------------------------------------------------------------------
(* load_lane_events *)

\* Final responses, and calls that no result has answered, are never evicted.
KeepsCalls(c, e) ==
    LET answered == {x \in c.calls : e.type = "result" /\ x.of = e.of} IN
    [c EXCEPT !.kept = (@ \ answered) \cup (IF e.type = "call" THEN {e} ELSE {}),
              !.calls = (@ \ answered) \cup (IF e.type = "call" THEN {e} ELSE {})]

Keeps(c, e) ==
    LET answered == {x \in c.calls : e.type = "result" /\ x.of = e.of} IN
    [c EXCEPT !.kept = (@ \ answered) \cup (IF e.type \in {"final", "call"} THEN {e} ELSE {}),
              !.calls = (@ \ answered) \cup (IF e.type = "call" THEN {e} ELSE {})]

\* _LaneJournalCache.add: over the limit the oldest event that is not kept
\* goes, and when there is none the new row is refused.
Add(c, e) ==
    IF e \in c.seen THEN c
    ELSE LET d == [Keeps(c, e) EXCEPT !.evs = Append(@, e)]
             out == SelectSeq(d.evs, LAMBDA x : x # e /\ x \notin d.kept)
         IN IF Len(d.evs) <= CacheEvents THEN [d EXCEPT !.seen = @ \cup {e}]
            ELSE IF out # <<>>
            THEN [d EXCEPT !.evs = SelectSeq(@, LAMBDA x : x # out[1]), !.seen = @ \cup {e}]
            ELSE c

Refuses(c, e) == e \notin c.seen /\ Add(c, e).seen = c.seen

\* The cache starts over when the journal is another file or is shorter.
Current == IF cache.inode # log.inode \/ Len(log.rows) < cache.off
           THEN [NoCache EXCEPT !.inode = log.inode] ELSE cache

\* EventJournal.load_from
NextRows(c) == Some(log.rows, c.off)

\* A batch of rows; a refused row ends the load with an error, before the
\* offset moves.
Load ==
    LET rows == NextRows(Current)
        step(acc, e) == IF ~acc.ok THEN acc
                        ELSE [c |-> IF Refuses(acc.c, e) THEN acc.c ELSE Add(acc.c, e),
                              ok |-> ~Refuses(acc.c, e)]
        done == FoldLeft(step, [c |-> Current, ok |-> TRUE], rows)
    IN
    /\ rows # <<>> \/ Current # cache
    /\ cache' = IF done.ok THEN [done.c EXCEPT !.off = @ + Len(rows)] ELSE done.c
    /\ UNCHANGED <<file, unread, reader, norm, poll, raced, log, changes, faults>>

\* chitra-journal-compact: the first row of each identity stays, in a new file.
Compact ==
    /\ Unique(<<>>, log.rows) # log.rows
    /\ log' = [inode |-> log.inode + 1, rows |-> Unique(<<>>, log.rows)]
    /\ UNCHANGED <<file, unread, reader, norm, poll, raced, cache, changes, faults>>

\* The monitor dies: the pool, the reader's buffers and the cache go with it.
Crash ==
    /\ faults < MaxFaults
    /\ poll' = NoPoll /\ Dropped /\ cache' = NoCache
    /\ faults' = faults + 1
    /\ UNCHANGED <<file, raced, log, changes>>

Next ==
    \/ \E r \in Records : Write(r)
    \/ \E recs \in Rewrites : Rewrite(recs)
    \/ \E recs \in {file.recs} \cup Replacements : Replace(recs)
    \/ PollLook \/ PollDrain \/ PollAppend \/ PollLocked \/ Load \/ Compact \/ Crash

Spec == Init /\ [][Next]_vars

---------------------------------------------------------------------------
\* However the reading was cut into batches, replayed, or started over after a
\* busy lock or a crash, an ingestor that has read the transcript to its end
\* has journalled exactly what the whole file says: no record was lost and no
\* normalizer state was (monitord.ingest_transcript_bindings drops an ingestor
\* whose poll failed, and a new one replays the file).
TranscriptIsJournalled ==
    poll = NoPoll /\ Steady /\ ~raced => Reference(file.recs) \subseteq ToSet(log.rows)

\* The bounded context of a pass keeps what the gates decide on: of the rows it
\* has taken in, every final response, and every call not answered by then.
ContextKeepsEvidence ==
    LET rows == SubSeq(log.rows, 1, cache.off) IN
    cache.inode = log.inode =>
        \A i \in DOMAIN rows :
            \/ rows[i].type = "final"
            \/ rows[i].type = "call" /\ ~\E j \in DOMAIN rows :
                                            j > i /\ rows[j].type = "result" /\ rows[j].of = rows[i].of
            => rows[i] \in ToSet(cache.evs)
=============================================================================
