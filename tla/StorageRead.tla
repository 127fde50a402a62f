----------------------------- MODULE StorageRead ----------------------------
(***************************************************************************)
(* Stat and Read of the storage provider fixture (examples/hello-storage), *)
(* and a host that holds the stream to the contract of                     *)
(* proto/bloem/plugin/v1/storage_provider.proto:16-18: consecutive         *)
(* offsets, a bounded chunk, eof on the last one, a final OK.  The handler *)
(* and the host run concurrently over a stream with flow control, and the  *)
(* host may give the call up at any moment.                                *)
(*                                                                         *)
(* A byte of the book is its position.                                     *)
(***************************************************************************)
EXTENDS StorageList

CONSTANTS
    FileSize,       \* len(p.book)
    ChunkBytes,     \* 128 << 10
    MaxRead,        \* 8 << 20
    Window          \* chunks the stream holds before Send blocks

ASSUME ReadSizesAssumption ==
    /\ FileSize \in Nat /\ MaxRead \in Nat
    /\ ChunkBytes \in Nat \ {0} /\ Window \in Nat \ {0}

VARIABLES
    request,        \* the read in progress
    size,           \* what Stat told the host of the entry's size, or -1
    pc, offset,     \* the handler, and its loop variable
    stream,         \* chunks sent and not received
    status,         \* what the handler returned
    cancelled,      \* the stream's context is done
    got,            \* the bytes the host took
    ended,          \* the host took a chunk with eof
    verdict         \* what the host makes of the read

handler == <<pc, offset, status>>
host == <<got, ended, verdict>>
reading == <<request, size, stream, cancelled, handler, host>>

Scale == {"scale", "scale-failure"}
Faults == {"revision-conflict", "duplicate", "short", "blocking"}
\* Entries of the namespace: a third component is the number in "book-%07d".
Books(numbers) == {<<s, "book", n>> : s \in Scale, n \in numbers}

\* Mutation: the last entry of the namespace is not served.
FilesShort == {<<"fixture", "book">>} \cup ({"fixture"} \X Faults)
                 \cup Books(0..Entries - 2)

\* The files p.entry serves.
Files == {<<"fixture", "book">>} \cup ({"fixture"} \X Faults)
             \cup Books(0..Entries - 1)
Directories == {<<"fixture", "root">>, <<"fixture", "chapters">>} \cup (Scale \X {"root"})

\* The entries the host asks for: of the namespace the first, the last and one
\* that is not there.
Asked == {<<"missing", "book">>, <<"fixture", "missing">>, <<"fixture", "book">>}
             \cup ({"fixture"} \X Faults) \cup Directories
             \cup Books({0, Entries - 1, Entries})

Requests ==
    [entry : Asked,
     revision : {"", "v1", "v2"},
     offset : -1..FileSize + 1,
     length : -1..MaxRead + 1]

\* p.entry: the size of an entry; a directory's is 0.
SizeOf(entry) == IF entry \in Files THEN FileSize ELSE 0

Codes == {"OK", "Canceled", "InvalidArgument", "NotFound", "FailedPrecondition"}

\* Stat.
Stat(r) ==
    IF cancelled THEN "Canceled"
    ELSE IF r.revision = "" THEN "InvalidArgument"
    ELSE IF r.entry \notin Files \cup Directories THEN "NotFound"
    ELSE IF r.revision # "v1" THEN "FailedPrecondition"
    ELSE "OK"

InRange(r) ==
    /\ r.entry \in Files
    /\ 0 <= r.offset /\ r.offset <= FileSize
    /\ 0 <= r.length /\ r.length <= MaxRead
    /\ r.length <= FileSize - r.offset

\* What Read answers before it sends anything; OK lets it send.
Admit(r) ==
    IF Stat(r) # "OK" THEN Stat(r)
    ELSE IF ~InRange(r) THEN "InvalidArgument"
    ELSE IF r.entry[2] = "revision-conflict" THEN "FailedPrecondition"
    ELSE "OK"

-----------------------------------------------------------------------------
(* The chunks of a read.                                                   *)

\* p.book[from:to]
Book(from, to) == [i \in 1..(to - from) |-> from + i - 1]

Range(r) == Book(r.offset, r.offset + r.length)

\* Mutation: the last chunk is as long as the others.
NextOffsetUnbounded(r, at) == at + ChunkBytes

NextOffset(r, at) == Smaller(at + ChunkBytes, r.offset + r.length)

IsFault(r, fault) == r.entry[2] = fault /\ r.length > 0

\* Mutation: eof is set when a whole chunk was sent, not at the range's end.
ChunkEofEarly(r, at) ==
    LET next == NextOffset(r, at)
    IN  [offset |-> at,
         data |-> CASE IsFault(r, "blocking") -> Book(at, at + 1)
                    [] IsFault(r, "short")    -> Book(at, next - 1)
                    [] OTHER                  -> Book(at, next),
         eof |-> ~IsFault(r, "blocking")]

\* Mutation: a chunk's data starts at the read's offset, not at the chunk's.
ChunkFromStart(r, at) ==
    LET next == NextOffset(r, at)
    IN  [offset |-> at,
         data |-> CASE IsFault(r, "blocking") -> Book(at, at + 1)
                    [] IsFault(r, "short")    -> Book(at, next - 1)
                    [] OTHER                  -> Book(r.offset, r.offset + (next - at)),
         eof |-> next = r.offset + r.length /\ ~IsFault(r, "blocking")]

\* Mutation: the short entry is not shortened.
ChunkNotShort(r, at) ==
    LET next == NextOffset(r, at)
    IN  [offset |-> at,
         data |-> IF IsFault(r, "blocking") THEN Book(at, at + 1) ELSE Book(at, next),
         eof |-> IF IsFault(r, "blocking") THEN FALSE ELSE next = r.offset + r.length]

\* The chunk Read sends at offset at.
Chunk(r, at) ==
    LET next == NextOffset(r, at)
    IN  [offset |-> at,
         data |-> CASE IsFault(r, "blocking") -> Book(at, at + 1)
                    [] IsFault(r, "short")    -> Book(at, next - 1)
                    [] OTHER                  -> Book(at, next),
         eof |-> CASE IsFault(r, "blocking")  -> FALSE
                   [] IsFault(r, "short")     -> TRUE
                   [] OTHER                   -> next = r.offset + r.length]

Chunks ==
    [offset : 0..FileSize,
     data : UNION {[1..n -> 0..FileSize - 1] : n \in 0..ChunkBytes},
     eof : BOOLEAN]

NoRead == [entry |-> <<"missing", "book">>, revision |-> "", offset |-> 0, length |-> 0]

\* The whole state; got never outgrows the range asked for.
ReadTypeOK ==
    /\ request \in Requests
    /\ size \in {-1, 0, FileSize}
    /\ pc \in {"idle", "open", "send", "resend", "wait", "returned"}
    /\ offset \in -1..FileSize + 1
    /\ stream \in Seq(Chunks) /\ Len(stream) <= Window
    /\ status \in Codes \cup {"none"} /\ (status = "none" <=> pc # "returned")
    /\ cancelled \in BOOLEAN
    /\ got \in Seq(0..FileSize - 1) /\ Len(got) <= FileSize
    /\ ended \in BOOLEAN
    /\ verdict \in {"none", "reading", "accepted", "rejected", "cancelled"}

ReadInit ==
    /\ request = NoRead
    /\ size = -1
    /\ pc = "idle" /\ offset = 0 /\ stream = << >> /\ status = "none"
    /\ cancelled = FALSE
    /\ got = << >> /\ ended = FALSE /\ verdict = "none"

-----------------------------------------------------------------------------
(* The host asks.                                                          *)

\* The host may ask for the entry's size first.
AskStat(r) ==
    /\ verdict = "none" /\ size = -1
    /\ Stat(r) = "OK"
    /\ request' = r
    /\ size' = SizeOf(r.entry)
    /\ UNCHANGED <<stream, cancelled, handler, host>>

AskRead(r) ==
    /\ verdict = "none"
    /\ size # -1 => r.entry = request.entry /\ r.revision = request.revision
    /\ request' = r
    /\ verdict' = "reading"
    /\ pc' = "open"
    /\ UNCHANGED <<size, stream, cancelled, offset, status, got, ended>>

-----------------------------------------------------------------------------
(* The handler.                                                            *)

Return(code) ==
    /\ pc' = "returned"
    /\ status' = code
    /\ UNCHANGED <<offset, stream>>

Begin ==
    /\ offset' = request.offset
    /\ pc' = IF request.entry[2] = "blocking" /\ request.length = 0 THEN "wait" ELSE "send"
    /\ UNCHANGED <<stream, status>>

Open ==
    /\ pc = "open"
    /\ IF Admit(request) = "OK" THEN Begin ELSE Return(Admit(request))
    /\ UNCHANGED <<request, size, cancelled, host>>

\* stream.Send: waits for room, and fails once the call is given up.
Send(chunk) ==
    /\ Len(stream) < Window
    /\ stream' = Append(stream, chunk)

\* Mutation: a Send that waits for room does not hear of the cancellation.
SendFailsDeaf ==
    /\ pc \in {"send", "resend"}
    /\ cancelled /\ Len(stream) < Window
    /\ Return("Canceled")
    /\ UNCHANGED <<request, size, cancelled, host>>

SendFails ==
    /\ pc \in {"send", "resend"}
    /\ cancelled
    /\ Return("Canceled")
    /\ UNCHANGED <<request, size, cancelled, host>>

SendChunk ==
    /\ pc = "send"
    /\ Send(Chunk(request, offset))
    /\ LET next == NextOffset(request, offset)
           blocking == IsFault(request, "blocking")
           duplicate == IsFault(request, "duplicate")
           last == next = request.offset + request.length \/ IsFault(request, "short")
       IN  \/ /\ blocking
              /\ pc' = "wait" /\ UNCHANGED <<offset, status>>
           \/ /\ duplicate
              /\ pc' = "resend" /\ UNCHANGED <<offset, status>>
           \/ /\ ~blocking /\ ~duplicate /\ ~last
              /\ offset' = next /\ UNCHANGED <<pc, status>>
           \/ /\ ~blocking /\ ~duplicate /\ last
              /\ pc' = "returned" /\ status' = "OK" /\ UNCHANGED offset
    /\ UNCHANGED <<request, size, cancelled, host>>

\* The duplicate entry sends its chunk again and returns.
Resend ==
    /\ pc = "resend"
    /\ Send(Chunk(request, offset))
    /\ pc' = "returned" /\ status' = "OK"
    /\ UNCHANGED <<request, size, cancelled, offset, host>>

\* The blocking entry waits for the caller to give up.
Wait ==
    /\ pc = "wait"
    /\ cancelled
    /\ Return("Canceled")
    /\ UNCHANGED <<request, size, cancelled, host>>

-----------------------------------------------------------------------------
(* The host reads the stream.                                              *)

\* A chunk that keeps the contract.
Fits(chunk) ==
    /\ ~ended
    /\ chunk.offset = request.offset + Len(got)
    /\ Len(chunk.data) <= ChunkBytes
    /\ Len(got) + Len(chunk.data) <= request.length

Receive ==
    /\ verdict = "reading" /\ stream # << >>
    /\ stream' = Tail(stream)
    /\ IF Fits(Head(stream))
         THEN /\ got' = got \o Head(stream).data
              /\ ended' = Head(stream).eof
              /\ UNCHANGED <<verdict, cancelled>>
         ELSE /\ verdict' = "rejected" /\ cancelled' = TRUE
              /\ UNCHANGED <<got, ended>>
    /\ UNCHANGED <<request, size, handler>>

Finish ==
    /\ verdict = "reading" /\ stream = << >> /\ pc = "returned"
    /\ verdict' = IF status = "OK" /\ ended /\ Len(got) = request.length
                    THEN "accepted" ELSE "rejected"
    /\ UNCHANGED <<request, size, stream, cancelled, handler, got, ended>>

\* The caller cancels, or its deadline passes.
Cancel ==
    /\ verdict = "reading"
    /\ verdict' = "cancelled"
    /\ cancelled' = TRUE
    /\ UNCHANGED <<request, size, stream, handler, got, ended>>

Handler == Open \/ SendFails \/ SendChunk \/ Resend \/ Wait

ReadNext ==
    \/ \E r \in Requests : AskStat(r) \/ AskRead(r)
    \/ Handler
    \/ Receive \/ Finish \/ Cancel

-----------------------------------------------------------------------------
(* Properties.                                                             *)

\* storage_provider.proto:16: a read the host takes for good delivered
\* exactly the bytes of the range it asked for, of the revision it named.
Exact ==
    verdict = "accepted" => got = Range(request) /\ request.revision = "v1"

\* examples/hello-storage/README.md:29-32: no fault of the fixture passes
\* for a good read; a host that keeps the contract's rules catches each.
FaultsCaught ==
    verdict = "accepted" => \A fault \in Faults : ~IsFault(request, fault)

\* storage_provider.proto:16-18: a read of an honest entry, in range and at
\* its revision, is never turned down by a host that did not give it up.
HonestAccepted ==
    verdict = "rejected" =>
        \/ request.entry \notin Files \/ request.entry[2] \in Faults
        \/ request.revision # "v1"
        \/ ~ ({request.offset, request.offset + request.length} \subseteq 0..FileSize
              /\ request.length \in 0..MaxRead)

\* storage-provider.md:335: cancellation reaches the handler, so that none
\* outlives its call: not one that waits for room in the stream, and not
\* the blocking entry's.
HandlerReturns == (pc # "idle") ~> (pc = "returned")
=============================================================================
