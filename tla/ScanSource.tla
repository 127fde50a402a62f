----------------------------- MODULE ScanSource -----------------------------
(***************************************************************************)
(* A scan source that follows a change log (examples/hello-scan-source):   *)
(* a writer appends lines byte by byte, truncates, deletes and recreates   *)
(* the log; the host polls, keeps the marker, may run two polls at once    *)
(* (docs/scan-source.md:268-271), fail after a poll or clear the marker    *)
(* while one runs; each poll opens the log anew for every step.            *)
(*                                                                         *)
(* A byte of a line is the line's number; a newline is 0.                  *)
(***************************************************************************)
EXTENDS Integers, Sequences, FiniteSets, FiniteSetsExt, TLC

CONSTANTS
    Polls,          \* polls the host may have in flight
    MaxLines,       \* bound: lines the writer starts
    LineBytes,      \* bound: bytes of a line, without its newline
    MaxBytes,       \* bound: size of the log
    MaxRotations,   \* bound: truncations and deletions
    MaxEdits,       \* bound: edits of the source that clear the marker
    RotateDuringPoll \* whether the log may be rotated between a poll's steps

ASSUME BoundsAssumption ==
    /\ {MaxLines, MaxBytes, MaxRotations, MaxEdits} \subseteq Nat
    /\ LineBytes \in Nat \ {0}

None == -1          \* the empty marker
Unusable == -2      \* a marker this plugin did not write

VARIABLES
    exists, log,    \* the change log
    lineCount,      \* lines started so far
    generation,     \* rotations so far
    written,        \* complete lines the log ever held
    marker,         \* the host's marker
    markerGen,      \* the generation of the log it was computed from
    edits,
    poll,           \* the polls in flight
    reported,       \* lines whose scan the host queued
    skipped,        \* lines a first poll passed over
    collided        \* a rotated log had a newline just at the old marker

file == <<exists, log, lineCount, generation, written>>
source == <<marker, markerGen, edits>>
ghosts == <<reported, skipped, collided>>
vars == <<file, source, poll, ghosts>>

-----------------------------------------------------------------------------
(* The log's bytes.                                                        *)

LineEnds(bytes) == {i \in DOMAIN bytes : bytes[i] = 0}

\* completeLinesEnd: just past the last complete line.
CompleteLinesEnd(bytes) == Max({0} \cup LineEnds(bytes))

\* What a reader that starts at offset takes for the line that ends at e.
LineAt(bytes, offset, e) ==
    LET before == {i \in LineEnds(bytes) : i < e /\ i > offset}
    IN  SubSeq(bytes, Max({offset} \cup before) + 1, e - 1)

\* The non-blank complete lines after offset.
LinesAfter(bytes, offset) ==
    {LineAt(bytes, offset, e) : e \in {i \in LineEnds(bytes) : i > offset}}
        \ {<< >>}

\* Mutation: an unfinished line counts as a line.
ReadAppendedTail(bytes, offset) ==
    [lines |-> (LinesAfter(bytes, offset)
                \cup {SubSeq(bytes, Max({offset} \cup LineEnds(bytes)) + 1, Len(bytes))})
               \ {<< >>},
     next  |-> Max({offset, Len(bytes)})]

\* readAppended; past the end of the file it finds nothing.
ReadAppended(bytes, offset) ==
    [lines |-> LinesAfter(bytes, offset),
     next  |-> Max({offset, CompleteLinesEnd(bytes)})]

\* Mutation: the byte at the offset is read, not the one before it.
FollowsNewlineOffByOne(bytes, offset) ==
    offset < Len(bytes) /\ bytes[offset + 1] = 0

FollowsNewline(bytes, offset) == bytes[offset] = 0

-----------------------------------------------------------------------------

\* A poll: its marker and the marker's generation, then where it reads, then
\* its answer and the generation it was read from.
Poll(pc, m, gen) ==
    [pc |-> pc, marker |-> m, markerGen |-> gen, discard |-> FALSE, offset |-> 0,
     lines |-> {}, next |-> 0, skips |-> {}, generation |-> 0]

Idle == Poll("idle", None, 0)

Markers == (0..MaxBytes) \cup {None, Unusable}
Lines == UNION {[1..n -> 1..MaxLines] : n \in 1..LineBytes}

PollStates ==
    [pc : {"idle", "stat", "resync", "check", "read", "done"},
     marker : Markers, markerGen : 0..MaxRotations, discard : BOOLEAN,
     offset : 0..MaxBytes,
     lines : SUBSET Lines, next : 0..MaxBytes, skips : SUBSET Lines,
     generation : 0..MaxRotations]

TypeOK ==
    /\ exists \in BOOLEAN
    /\ log \in Seq(0..MaxLines) /\ Len(log) <= MaxBytes
    /\ lineCount \in 0..MaxLines
    /\ generation \in 0..MaxRotations
    /\ marker \in Markers
    /\ markerGen \in 0..MaxRotations
    /\ edits \in 0..MaxEdits
    /\ written \subseteq Lines /\ reported \subseteq Lines /\ skipped \subseteq Lines
    /\ poll \in [Polls -> PollStates]
    /\ \A p \in Polls : poll[p].pc = "idle" => poll[p] = Idle
    /\ collided \in BOOLEAN

Init ==
    /\ exists = FALSE
    /\ log = << >>
    /\ lineCount = 0
    /\ generation = 0
    /\ written = {}
    /\ marker \in {None, Unusable}
    /\ markerGen = 0
    /\ edits = 0
    /\ poll = [p \in Polls |-> Idle]
    /\ reported = {}
    /\ skipped = {}
    /\ collided = FALSE

-----------------------------------------------------------------------------
(* The writer.                                                             *)

AtLineStart == CompleteLinesEnd(log) = Len(log)

\* The bytes of the unfinished line.
Unfinished == SubSeq(log, CompleteLinesEnd(log) + 1, Len(log))

Append1(b) ==
    /\ Len(log) < MaxBytes
    /\ exists' = TRUE
    /\ log' = Append(log, b)

StartLine ==
    /\ AtLineStart /\ lineCount < MaxLines
    /\ lineCount' = lineCount + 1
    /\ Append1(lineCount + 1)
    /\ UNCHANGED <<generation, written, source, poll, ghosts>>

ContinueLine ==
    /\ ~AtLineStart /\ Len(Unfinished) < LineBytes
    /\ Append1(log[Len(log)])
    /\ UNCHANGED <<lineCount, generation, written, source, poll, ghosts>>

\* A newline ends the line; at the start of a line it makes a blank one.
EndLine ==
    /\ Append1(0)
    /\ written' = written \cup ({Unfinished} \ {<< >>})
    /\ UNCHANGED <<lineCount, generation, source, poll, ghosts>>

Reading(p) == poll[p].pc \in {"resync", "check", "read"}

\* The log is truncated, or removed.
Rotate(stays) ==
    /\ exists
    /\ generation < MaxRotations
    /\ RotateDuringPoll \/ \A p \in Polls : ~Reading(p)
    /\ generation' = generation + 1
    /\ exists' = stays
    /\ log' = << >>
    /\ UNCHANGED <<lineCount, written, source, poll, ghosts>>

-----------------------------------------------------------------------------
(* The host.                                                               *)

StartPoll(p) ==
    /\ poll[p] = Idle
    /\ poll' = [poll EXCEPT ![p] = Poll("stat", marker, markerGen)]
    /\ UNCHANGED <<file, source, ghosts>>

\* The source's settings change: the marker is cleared, and the new marker of
\* every poll in flight will be discarded.
Edit ==
    /\ edits < MaxEdits
    /\ edits' = edits + 1
    /\ marker' = None
    /\ poll' = [p \in Polls |-> IF poll[p] = Idle THEN Idle
                                ELSE [poll[p] EXCEPT !.discard = TRUE]]
    /\ markerGen' = 0
    /\ UNCHANGED <<file, ghosts>>

\* The scans are queued and the marker advances.
Finish(p) ==
    /\ poll[p].pc = "done"
    /\ reported' = reported \cup poll[p].lines
    /\ IF poll[p].discard
       THEN UNCHANGED <<marker, markerGen, skipped>>
       ELSE /\ marker' = poll[p].next
            /\ markerGen' = poll[p].generation
            /\ skipped' = skipped \cup poll[p].skips
    /\ poll' = [poll EXCEPT ![p] = Idle]
    /\ UNCHANGED <<file, edits, collided>>

\* The poll times out or its answer is lost, or a path fails to match and the
\* marker stays although scans of the others are queued.
Fail(p) ==
    /\ poll[p] # Idle
    /\ \E queued \in SUBSET poll[p].lines : reported' = reported \cup queued
    /\ poll' = [poll EXCEPT ![p] = Idle]
    /\ UNCHANGED <<file, source, skipped, collided>>

-----------------------------------------------------------------------------
(* PollChanges.                                                            *)

\* An error: the host keeps the marker.
Error(p) == poll' = [poll EXCEPT ![p] = Idle]

Go(p, pc, offset) ==
    poll' = [poll EXCEPT ![p].pc = pc, ![p].offset = offset]

Answer(p, lines, next, skips) ==
    poll' = [poll EXCEPT ![p].pc = "done", ![p].offset = 0,
                         ![p].lines = lines, ![p].next = next, ![p].skips = skips,
                         ![p].generation = generation]

\* Mutation: a truncated log is taken up at its end.
StatTruncatedResyncs(p) ==
    /\ poll[p].pc = "stat"
    /\ LET m == poll[p].marker IN
       CASE ~exists /\ m \in {None, 0} -> Answer(p, {}, 0, {})
         [] ~exists /\ m \notin {None, 0} -> Error(p)
         [] exists /\ (m < 0 \/ m > Len(log)) -> Go(p, "resync", 0)
         [] exists /\ m = 0 -> Go(p, "read", 0)
         [] OTHER -> Go(p, "check", m)
    /\ UNCHANGED <<file, source, ghosts>>

\* Mutation: a truncated log is an error.
StatTruncatedFails(p) ==
    /\ poll[p].pc = "stat"
    /\ LET m == poll[p].marker IN
       CASE ~exists /\ m \in {None, 0} -> Answer(p, {}, 0, {})
         [] ~exists /\ m \notin {None, 0} -> Error(p)
         [] exists /\ m < 0 -> Go(p, "resync", 0)
         [] exists /\ m > Len(log) -> Error(p)
         [] exists /\ m = 0 -> Go(p, "read", 0)
         [] OTHER -> Go(p, "check", m)
    /\ UNCHANGED <<file, source, ghosts>>

\* Mutation: only a missing marker is taken up at the end, not an unusable one.
StatUnusableChecked(p) ==
    /\ poll[p].pc = "stat"
    /\ LET m == poll[p].marker IN
       CASE ~exists /\ m \in {None, 0} -> Answer(p, {}, 0, {})
         [] ~exists /\ m \notin {None, 0} -> Error(p)
         [] exists /\ m = None -> Go(p, "resync", 0)
         [] exists /\ (m > Len(log) \/ m = 0) -> Go(p, "read", 0)
         [] OTHER -> Go(p, "check", m)
    /\ UNCHANGED <<file, source, ghosts>>

\* A missing log is empty to a source that never read it and an error to one
\* that did; a marker past the end is a truncated log's.
Stat(p) ==
    /\ poll[p].pc = "stat"
    /\ LET m == poll[p].marker IN
       CASE ~exists /\ m \in {None, 0} -> Answer(p, {}, 0, {})
         [] ~exists /\ m \notin {None, 0} -> Error(p)
         [] exists /\ m < 0 -> Go(p, "resync", 0)
         [] exists /\ (m > Len(log) \/ m = 0) -> Go(p, "read", 0)
         [] OTHER -> Go(p, "check", m)
    /\ UNCHANGED <<file, source, ghosts>>

\* resyncToEnd: start from now, or from where an unusable marker is replaced.
Resync(p) ==
    /\ poll[p].pc = "resync"
    /\ IF exists
       THEN Answer(p, {}, CompleteLinesEnd(log),
                   IF poll[p].marker < 0 THEN LinesAfter(log, 0) ELSE {})
       ELSE Error(p)
    /\ UNCHANGED <<file, source, ghosts>>

\* followsNewline: a marker that is not at the start of a line is a rotated
\* log's; a read past the end is an error.
Check(p) ==
    /\ poll[p].pc = "check"
    /\ LET m == poll[p].offset IN
       /\ IF ~exists \/ m > Len(log)
          THEN Error(p)
          ELSE Go(p, "read", IF FollowsNewline(log, m) THEN m ELSE 0)
       /\ collided' = (collided \/ (/\ m <= Len(log) /\ log[m] = 0
                                    /\ poll[p].markerGen # generation))
    /\ UNCHANGED <<file, source, reported, skipped>>

Read(p) ==
    /\ poll[p].pc = "read"
    /\ LET r == ReadAppended(log, poll[p].offset) IN
       IF exists THEN Answer(p, r.lines, r.next, {}) ELSE Error(p)
    /\ UNCHANGED <<file, source, ghosts>>

PollChanges(p) == Stat(p) \/ Resync(p) \/ Check(p) \/ Read(p)

-----------------------------------------------------------------------------

Writer == StartLine \/ ContinueLine \/ EndLine \/ \E stays \in BOOLEAN : Rotate(stays)

Next ==
    \/ Writer
    \/ Edit
    \/ \E p \in Polls : StartPoll(p) \/ Finish(p) \/ Fail(p) \/ PollChanges(p)

Spec == Init /\ [][Next]_vars

\* The host polls on a timer, a poll that runs goes on, and polling again and
\* again succeeds once.
Fairness ==
    \A p \in Polls :
        /\ WF_vars(StartPoll(p))
        /\ SF_vars(Stat(p)) /\ SF_vars(Resync(p)) /\ SF_vars(Check(p))
        /\ SF_vars(Read(p)) /\ SF_vars(Finish(p))

FairSpec == Spec /\ Fairness

-----------------------------------------------------------------------------
(* Properties.                                                             *)

\* Every complete line behind the marker was queued for a scan or was there at
\* a first poll, whatever failed, overlapped, was cleared or rotated on the
\* way; the one exception is the documented one, a rotated log that has a
\* newline just at the old marker (examples/hello-scan-source/README.md:21).
NoLineLost ==
    ~collided /\ marker > 0 /\ markerGen = generation /\ exists =>
        LinesAfter(SubSeq(log, 1, marker), 0) \subseteq reported \cup skipped

\* Every path the host is given is a line the writer completed: never an
\* unfinished line, nor the tail of a line (main.go:168-170).
ReportsWholeLines ==
    \A p \in Polls : poll[p].pc = "done" => poll[p].lines \subseteq written

\* A poll never replays what lies before its marker in the same log
\* (docs/scan-source.md:166-167, "Do not replay history from before the
\* marker").
NoReplay ==
    \A p \in Polls :
        /\ poll[p].pc = "done" /\ poll[p].marker > 0
        /\ poll[p].markerGen = poll[p].generation
        /\ generation = poll[p].generation
        => poll[p].lines \cap LinesAfter(SubSeq(log, 1, poll[p].marker), 0) = {}

\* A complete line in the log is reported in the end, if the log is not
\* rotated once more.
LineReported ==
    \A n \in 1..MaxLines :
        LET Held == exists /\ \E l \in LinesAfter(log, 0) : l[1] = n
        IN  Held ~> \/ ~Held
                    \/ collided
                    \/ \E l \in reported \cup skipped : l[1] = n
=============================================================================
