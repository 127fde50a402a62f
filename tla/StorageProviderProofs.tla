------------------------ MODULE StorageProviderProofs -----------------------
(***************************************************************************)
(* Proofs about the storage provider fixture and its host, for every size  *)
(* of the namespace, the page, the book, the chunk and the stream's        *)
(* window.  Listing and reading have an invariant each: reading starts     *)
(* when the listing has ended and leaves it alone.                         *)
(***************************************************************************)
EXTENDS StorageProvider, TLAPS

-----------------------------------------------------------------------------
(* Runs of consecutive positions: pages, chunks, and what is taken of them.*)

LEMMA BookType ==
    ASSUME NEW a \in Int, NEW b \in Int, a <= b
    PROVE  /\ Len(Book(a, b)) = b - a
           /\ DOMAIN Book(a, b) = 1..(b - a)
           /\ Book(a, b) \in Seq(a..(b - 1))
  BY DEF Book

LEMMA BookConcat ==
    ASSUME NEW a \in Int, NEW b \in Int, NEW c \in Int, a <= b, b <= c
    PROVE  Book(a, b) \o Book(b, c) = Book(a, c)
  BY DEF Book

LEMMA BookPrefix ==
    ASSUME NEW a \in Int, NEW b \in Int, NEW n \in 0..(b - a)
    PROVE  SubSeq(Book(a, b), 1, n) = Book(a, a + n)
  BY DEF Book

LEMMA BookEmpty ==
    ASSUME NEW a \in Int
    PROVE  Book(a, a) = << >>
  BY DEF Book

-----------------------------------------------------------------------------
(* Listing.                                                                *)

LEMMA ListedSizes ==
    \A d \in DOMAIN Listed :
        /\ Listed[d] \in 0..Entries
        /\ d[1] = "scale-failure" => d = <<"scale-failure", "root">>
        /\ d[1] \in {"scale", "scale-failure"} => Listed[d] = Entries
        /\ d[1] \notin {"scale", "scale-failure"} => d[1] = "fixture" /\ Listed[d] \in 0..2
        /\ d \notin NotFound /\ d \notin NotDirectory
  <1> TAKE d \in DOMAIN Listed
  <1>1. Listed[d] \in {0, 2, Entries}
    BY Zenon DEF Listed
  <1>2. d[1] \notin {"scale", "scale-failure"} => Listed[d] \in {0, 2}
    BY DEF Listed
  <1>3. d[1] \in {"scale", "scale-failure"} => Listed[d] = Entries
    BY DEF Listed
  <1> QED
    BY <1>1, <1>2, <1>3, ListSizesAssumption DEF Listed, NotFound, NotDirectory

\* The four answers of List.
LEMMA ListAnswers ==
    ASSUME NEW d \in DOMAIN Listed \cup NotFound \cup NotDirectory,
           NEW c \in Int, NEW asked \in Nat
    PROVE  \/ List(d, c, asked) \in {Error("NotFound"), Error("InvalidArgument")}
           \/ /\ List(d, c, asked) = Error("Unavailable")
              /\ d \in DOMAIN Listed /\ d[1] = "scale-failure"
              /\ ValidCursor(d, c) /\ Start(c) >= PageCap
           \/ /\ List(d, c, asked) = Page(d, c, asked)
              /\ d \in DOMAIN Listed /\ ValidCursor(d, c)
              /\ d[1] = "scale-failure" => ~ (Start(c) >= PageCap)
  <1> DEFINE missing == d \in NotFound
             file == d \in NotDirectory
             foreign == d \in DOMAIN Listed /\ ~ValidCursor(d, c)
             fails == d[1] = "scale-failure" /\ ValidCursor(d, c) /\ Start(c) >= PageCap
             answer == List(d, c, asked)
  <1>1. answer = CASE missing -> Error("NotFound")
                   [] file -> Error("InvalidArgument")
                   [] foreign -> Error("InvalidArgument")
                   [] fails -> Error("Unavailable")
                   [] OTHER -> Page(d, c, asked)
    BY DEF List
  <1>2. /\ ~ (missing /\ file) /\ ~ (missing /\ foreign) /\ ~ (missing /\ fails)
        /\ ~ (file /\ foreign) /\ ~ (file /\ fails) /\ ~ (foreign /\ fails)
    BY DEF NotFound, NotDirectory, Listed
  <1>3. ~missing /\ ~file /\ ~foreign => d \in DOMAIN Listed /\ ValidCursor(d, c)
    OBVIOUS
  <1>4. ~fails /\ ValidCursor(d, c) => (d[1] = "scale-failure" => ~ (Start(c) >= PageCap))
    OBVIOUS
  <1>5. fails => d[1] = "scale-failure" /\ ValidCursor(d, c) /\ Start(c) >= PageCap
    OBVIOUS
  <1>6. fails => d \in DOMAIN Listed
    BY <1>2, <1>3
  <1> HIDE DEF missing, file, foreign, fails, answer
  <1>7. \/ (missing \/ file \/ foreign) /\ answer \in {Error("NotFound"), Error("InvalidArgument")}
        \/ fails /\ answer = Error("Unavailable")
        \/ ~missing /\ ~file /\ ~foreign /\ ~fails /\ answer = Page(d, c, asked)
    BY <1>1, <1>2, Zenon
  <1> QED
    BY <1>3, <1>4, <1>5, <1>6, <1>7 DEF answer

\* A page is the run of entries from its cursor, not empty before the end of
\* the directory, and its next cursor is its end.
LEMMA PageFacts ==
    ASSUME NEW d \in DOMAIN Listed, NEW c \in Int, ValidCursor(d, c), NEW asked \in Nat
    PROVE  \E end \in Start(c)..Listed[d] :
             /\ Page(d, c, asked).code = "OK"
             /\ Page(d, c, asked).entries = Book(Start(c), end)
             /\ Page(d, c, asked).complete = (end = Listed[d])
             /\ Page(d, c, asked).next = IF end = Listed[d] THEN None ELSE end
             /\ end <= Start(c) + PageCap
             /\ end # Listed[d] => end > Start(c)
  <1> DEFINE end == Smaller(Start(c) + Limit(asked), Listed[d])
  <1>1. Start(c) \in 0..Listed[d] /\ Listed[d] \in Nat
    BY ListedSizes DEF ValidCursor, Start, None
  <1>2. Limit(asked) \in 1..PageCap
    BY ListSizesAssumption DEF Limit
  <1>3. /\ end \in Start(c)..Listed[d]
        /\ end <= Start(c) + PageCap
        /\ end # Listed[d] => end > Start(c)
    BY <1>1, <1>2, ListSizesAssumption DEF Smaller
  <1>4. /\ Page(d, c, asked).code = "OK"
        /\ Page(d, c, asked).entries = Book(Start(c), end)
        /\ Page(d, c, asked).complete = (end = Listed[d])
        /\ Page(d, c, asked).next = IF end = Listed[d] THEN None ELSE end
    BY DEF Page, Book
  <1> HIDE DEF end
  <1> QED
    BY <1>3, <1>4

-----------------------------------------------------------------------------
(* What a listing keeps: the entries taken are a prefix of the directory,  *)
(* the cursor to send is where they end, unless it came from elsewhere,    *)
(* and every cursor to go back to is one of that directory's.  A listing   *)
(* of the failing source never gets past the page its failure cuts off.    *)

Foreign == cursor \in {Garbage, Entries + 1} /\ listed = << >> /\ cursors = {}

ListInv ==
    /\ ListTypeOK
    /\ listed = Book(0, Len(listed))
    /\ cursors # {} => directory \in DOMAIN Listed
    /\ \A c \in cursors : ValidCursor(directory, c)
    /\ outcome = "listing" /\ directory \in DOMAIN Listed =>
         Foreign \/ (ValidCursor(directory, cursor) /\ Start(cursor) = Len(listed))
    /\ outcome = "complete" =>
         directory \in DOMAIN Listed /\ Len(listed) = Listed[directory]
    /\ directory[1] = "scale-failure" => Len(listed) < 2 * PageCap
    /\ outcome = "Unavailable" => directory[1] = "scale-failure" /\ listed # << >>

LEMMA ListInitInv ==
    ListInit => ListInv
<1> SUFFICES ASSUME ListInit PROVE ListInv
  OBVIOUS
<1>1. listed = Book(0, Len(listed)) /\ Len(listed) = 0 /\ listed \in Seq(Nat)
  BY BookEmpty DEF ListInit
<1>2. directory \in DOMAIN Listed => Listed[directory] \in 0..Entries
  BY ListedSizes
<1>3. ListTypeOK
  BY <1>1, <1>2, ListSizesAssumption DEF ListInit, ListTypeOK, Cursors, None, Garbage
<1>4. cursor = None \/ Foreign
  BY DEF ListInit, Foreign
<1>5. cursor = None => Start(cursor) = 0 /\ ValidCursor(directory, cursor)
  BY DEF Start, ValidCursor
<1> QED
  BY <1>1, <1>3, <1>4, <1>5, ListSizesAssumption DEF ListInit, ListInv

\* A page taken continues the listing.
LEMMA NextPageInv ==
    ASSUME ListInv, NEW asked \in 0..MaxAsked, NextPage(asked)
    PROVE  ListInv'
<1> DEFINE page == List(directory, cursor, asked)
<1>1. cursor \in Int /\ asked \in Nat
      /\ directory \in DOMAIN Listed \cup NotFound \cup NotDirectory
  BY ListSizesAssumption DEF ListInv, ListTypeOK, Cursors, None, Garbage
<1>2. \/ page \in {Error("NotFound"), Error("InvalidArgument")}
      \/ /\ page = Error("Unavailable")
         /\ directory \in DOMAIN Listed /\ directory[1] = "scale-failure"
         /\ ValidCursor(directory, cursor) /\ Start(cursor) >= PageCap
      \/ /\ page = Page(directory, cursor, asked)
         /\ directory \in DOMAIN Listed /\ ValidCursor(directory, cursor)
         /\ directory[1] = "scale-failure" => ~ (Start(cursor) >= PageCap)
  BY <1>1, ListAnswers
<1>3. /\ outcome = "listing"
      /\ \/ /\ page.code = "OK"
            /\ listed' = listed \o page.entries
            /\ cursor' = page.next
            /\ outcome' = IF page.complete THEN "complete" ELSE "listing"
         \/ /\ page.code # "OK"
            /\ outcome' = page.code
            /\ listed' = listed /\ cursor' = None
      /\ IF outcome' = "listing"
           THEN cursors' = cursors \cup {cursor} /\ replays' = replays
           ELSE cursors' = {} /\ replays' = 0
      /\ directory' = directory
  BY DEF NextPage
<1>n. /\ Len(listed) \in Nat /\ PageCap \in Nat \ {0} /\ Entries \in Nat
      /\ MaxReplays \in Nat /\ replays \in 0..MaxReplays
      /\ listed = Book(0, Len(listed))
      /\ directory \in DOMAIN Listed => Listed[directory] \in 0..Entries
  BY ListSizesAssumption, ListedSizes DEF ListInv, ListTypeOK
<1> HIDE DEF page
<1>4. CASE page \in {Error("NotFound"), Error("InvalidArgument"), Error("Unavailable")}
  <2>1. /\ page.code # "OK" /\ page.code \in {"NotFound", "InvalidArgument", "Unavailable"}
    BY <1>4 DEF Error
  <2>2. /\ outcome' \in {"NotFound", "InvalidArgument", "Unavailable"}
        /\ outcome' = page.code
        /\ listed' = listed /\ cursor' = None /\ cursors' = {} /\ replays' = 0
        /\ directory' = directory
    BY <1>3, <2>1
  <2>3. outcome' = "Unavailable" => directory[1] = "scale-failure" /\ listed # << >>
    <3> SUFFICES ASSUME outcome' = "Unavailable"
                 PROVE  directory[1] = "scale-failure" /\ listed # << >>
      OBVIOUS
    <3>1. page = Error("Unavailable")
      BY <1>4, <2>2 DEF Error
    <3>2. /\ directory \in DOMAIN Listed /\ directory[1] = "scale-failure"
          /\ ValidCursor(directory, cursor) /\ Start(cursor) >= PageCap
      BY <1>2, <3>1 DEF Error, Page
    <3>3. ~Foreign
      BY <3>2, <1>n, ListSizesAssumption DEF ValidCursor, Foreign, None, Garbage
    <3>4. Start(cursor) = Len(listed)
      BY <3>2, <3>3, <1>3 DEF ListInv
    <3> QED
      BY <3>2, <3>4, <1>n
  <2>4. ListTypeOK'
    BY <2>2, <1>n DEF ListInv, ListTypeOK, Cursors
  <2> QED
    BY <2>2, <2>3, <2>4 DEF ListInv
<1>5. CASE page \notin {Error("NotFound"), Error("InvalidArgument"), Error("Unavailable")}
  <2>1. /\ page = Page(directory, cursor, asked)
        /\ directory \in DOMAIN Listed /\ ValidCursor(directory, cursor)
        /\ directory[1] = "scale-failure" => ~ (Start(cursor) >= PageCap)
    BY <1>2, <1>5
  <2> DEFINE all == Listed[directory]
  <2>2. PICK end \in Start(cursor)..all :
          /\ page.code = "OK"
          /\ page.entries = Book(Start(cursor), end)
          /\ page.complete = (end = all)
          /\ page.next = IF end = all THEN None ELSE end
          /\ end <= Start(cursor) + PageCap
    BY <1>1, <2>1, PageFacts
  <2>3. Start(cursor) \in 0..all /\ all \in 0..Entries
    BY <2>1, ListedSizes DEF Start, ValidCursor, None
  <2>4. ~Foreign
    BY <2>1, <1>n, ListSizesAssumption DEF ValidCursor, Foreign, None, Garbage
  <2>5. Start(cursor) = Len(listed)
    BY <2>1, <2>4, <1>3 DEF ListInv
  <2> HIDE DEF all
  <2>6. listed \o Book(Start(cursor), end) = Book(0, end)
    <3>1. Book(0, Start(cursor)) \o Book(Start(cursor), end) = Book(0, end)
      <4>1. Start(cursor) \in Int /\ end \in Int /\ 0 <= Start(cursor) /\ Start(cursor) <= end
        BY <1>n, <2>2, <2>3
      <4>2. \A a, b \in Int : 0 <= a /\ a <= b => Book(0, a) \o Book(a, b) = Book(0, b)
        BY BookConcat
      <4> QED
        BY <4>1, <4>2
    <3> QED
      BY <1>n, <2>5, <3>1
  <2>7. listed' = Book(0, end) /\ Len(listed') = end /\ listed' \in Seq(Nat) /\ end \in 0..all
    <3>1. listed' = Book(0, end)
      BY <1>3, <2>2, <2>6
    <3>2. end \in 0..all
      BY <2>3
    <3> QED
      BY <3>1, <3>2, <2>3, BookType DEF Book
  <2>8. /\ outcome' = IF end = all THEN "complete" ELSE "listing"
        /\ cursor' = IF end = all THEN None ELSE end
        /\ directory' = directory
        /\ cursors' \subseteq cursors \cup {cursor}
        /\ replays' \in 0..MaxReplays
    <3>1. /\ outcome' = IF end = all THEN "complete" ELSE "listing"
          /\ cursor' = IF end = all THEN None ELSE end
      BY <1>3, <2>2
    <3>2. /\ directory' = directory
          /\ cursors' \subseteq cursors \cup {cursor}
          /\ replays' \in {0, replays}
      BY <1>3
    <3> QED
      BY <3>1, <3>2, <1>n
  <2>9. outcome' = "listing" => ValidCursor(directory, cursor)' /\ Start(cursor)' = Len(listed')
    BY <2>3, <2>7, <2>8 DEF ValidCursor, Start, None, all
  <2>10. \A c \in cursors' : ValidCursor(directory', c)
    BY <2>1, <2>8 DEF ListInv
  <2>11. directory[1] = "scale-failure" => Len(listed') < 2 * PageCap
    BY <2>1, <2>2, <2>3, <2>7, <1>n
  <2>12. ListTypeOK'
    BY <1>1, <1>n, <2>1, <2>3, <2>7, <2>8, <2>10
    DEF ListInv, ListTypeOK, Cursors, None, all
  <2> QED
    BY <2>1, <2>7, <2>8, <2>9, <2>10, <2>11, <2>12 DEF ListInv, all
<1> QED
  BY <1>4, <1>5

\* Going back to an older cursor cuts the listing there.
LEMMA ResumeInv ==
    ASSUME ListInv, NEW c \in cursors, Resume(c)
    PROVE  ListInv'
<1>1. /\ outcome = "listing" /\ replays < MaxReplays /\ Start(c) <= Len(listed)
      /\ replays' = replays + 1 /\ cursor' = c
      /\ listed' = SubSeq(listed, 1, Start(c))
      /\ directory' = directory /\ cursors' = cursors /\ outcome' = outcome
  BY DEF Resume
<1>2. directory \in DOMAIN Listed /\ ValidCursor(directory, c)
  BY DEF ListInv
<1>3. Start(c) \in 0..Listed[directory] /\ Listed[directory] \in 0..Entries
  BY <1>2, ListedSizes DEF Start, ValidCursor, None
<1>4. Len(listed) \in Nat /\ listed = Book(0, Len(listed))
  BY DEF ListInv, ListTypeOK
<1>5. listed' = Book(0, Start(c))
  <2>1. SubSeq(Book(0, Len(listed)), 1, Start(c)) = Book(0, 0 + Start(c))
    <3>1. Start(c) \in 0..(Len(listed) - 0)
      BY <1>1, <1>3, <1>4, ListSizesAssumption
    <3> QED
      BY <1>4, <3>1 DEF Book
  <2> QED
    BY <1>1, <1>3, <1>4, <2>1
<1>6. Len(listed') = Start(c) /\ listed' \in Seq(Nat)
  BY <1>3, <1>5 DEF Book
<1>7. ListTypeOK'
  BY <1>1, <1>2, <1>3, <1>6, ListSizesAssumption DEF ListInv, ListTypeOK
<1>8. directory[1] = "scale-failure" => Len(listed') < 2 * PageCap
  BY <1>1, <1>3, <1>4, <1>6, ListSizesAssumption DEF ListInv
<1> QED
  BY <1>1, <1>2, <1>5, <1>6, <1>7, <1>8 DEF ListInv

LEMMA ListStepInv ==
    ListInv /\ [ListNext]_listing => ListInv'
<1> SUFFICES ASSUME ListInv, [ListNext]_listing PROVE ListInv'
  OBVIOUS
<1>1. CASE UNCHANGED listing
  BY <1>1 DEF listing, ListInv, ListTypeOK, Foreign
<1> QED
  BY <1>1, NextPageInv, ResumeInv DEF ListNext

LEMMA SpecKeepsListing ==
    /\ Init => ListInit
    /\ [Next]_vars => [ListNext]_listing
  BY DEF Init, Next, Use, vars

\* The entries listed are the directory's from the first on.
LEMMA ListInvariant == Spec => []ListInv
  BY ListInitInv, ListStepInv, SpecKeepsListing, PTL DEF Spec

-----------------------------------------------------------------------------

\* Whatever page sizes a host asks for and whatever older cursors it goes
\* back to, a complete listing is the whole directory, once, in order.
THEOREM CompleteListings == Spec => []CompleteIsWhole
<1>1. ListInv => CompleteIsWhole
  BY DEF ListInv, CompleteIsWhole, Book
<1> QED
  BY <1>1, ListInvariant, PTL

\* The source that fails after its first page is never taken for listed.
THEOREM OnlyTheFailingSource == Spec => []OnlyInjectedFailures
<1>1. ListInv => OnlyInjectedFailures
  BY ListedSizes, ListSizesAssumption DEF ListInv, ListTypeOK, OnlyInjectedFailures
<1> QED
  BY <1>1, ListInvariant, PTL

\* No listing goes round: the next cursor lies past the one sent, by no more
\* than the largest page.
THEOREM NextCursorsAdvance == Spec => CursorsAdvance
<1> DEFINE step == \/ replays' # replays
                   \/ cursor' \in Start(cursor) + 1 .. Start(cursor) + PageCap
                   \/ outcome' # "listing"
<1>1. ASSUME ListInv, ListNext
      PROVE  step
  <2>1. CASE \E c \in cursors : Resume(c)
    BY <2>1, <1>1 DEF Resume, ListInv, ListTypeOK
  <2>2. ASSUME NEW asked \in 0..MaxAsked, NextPage(asked), outcome' = "listing"
        PROVE  cursor' \in Start(cursor) + 1 .. Start(cursor) + PageCap
    <3> DEFINE page == List(directory, cursor, asked)
    <3>1. /\ cursor \in Int /\ asked \in Nat
          /\ directory \in DOMAIN Listed \cup NotFound \cup NotDirectory
      BY <1>1, ListSizesAssumption DEF ListInv, ListTypeOK, Cursors, None, Garbage
    <3>2. \/ page.code # "OK" /\ outcome' = page.code
          \/ page.code = "OK" /\ cursor' = page.next
             /\ outcome' = IF page.complete THEN "complete" ELSE "listing"
      BY <2>2 DEF NextPage
    <3>3. \/ page = Error("NotFound") \/ page = Error("InvalidArgument")
          \/ page = Error("Unavailable")
          \/ /\ page = Page(directory, cursor, asked)
             /\ directory \in DOMAIN Listed /\ ValidCursor(directory, cursor)
      BY <3>1, ListAnswers
    <3> HIDE DEF page
    <3>4. /\ page = Page(directory, cursor, asked)
          /\ directory \in DOMAIN Listed /\ ValidCursor(directory, cursor)
      BY <2>2, <3>2, <3>3 DEF Error
    <3>5. PICK end \in Start(cursor)..Listed[directory] :
            /\ page.code = "OK"
            /\ page.complete = (end = Listed[directory])
            /\ page.next = IF end = Listed[directory] THEN None ELSE end
            /\ end <= Start(cursor) + PageCap
            /\ end # Listed[directory] => end > Start(cursor)
      BY <3>1, <3>4, PageFacts
    <3>6. end # Listed[directory] /\ cursor' = end
      BY <2>2, <3>2, <3>5
    <3>7. Start(cursor) \in Int
      BY <3>1 DEF Start
    <3> QED
      BY <3>5, <3>6, <3>7, ListSizesAssumption
  <2> QED
    BY <1>1, <2>1, <2>2 DEF ListNext
<1>2. ListInv /\ [ListNext]_listing => [step]_listing
  BY <1>1
<1> QED
  BY <1>2, ListInvariant, SpecKeepsListing, PTL DEF Spec, CursorsAdvance

-----------------------------------------------------------------------------
(* What a read keeps.                                                      *)

End == request.offset + request.length
Taken == request.offset + Len(got)      \* where the bytes the host took end

Admitted ==
    request.revision = "v1" /\ InRange(request) /\ request.entry[2] # "revision-conflict"

\* The handler and the call: bytes are sent for an admitted request only, and
\* an error says what was wrong with the request.
CallInv ==
    /\ size # -1 => size = SizeOf(request.entry)
    /\ verdict = "none" <=> pc = "idle"
    /\ verdict \in {"none", "reading"} => ~cancelled
    /\ pc \in {"idle", "open"} => stream = << >> /\ got = << >> /\ ~ended
    /\ pc \in {"send", "resend", "wait"} \/ status = "OK"
         \/ stream # << >> \/ got # << >> => Admitted
    /\ pc = "wait" => request.entry[2] = "blocking"
    /\ pc = "resend" => IsFault(request, "duplicate")
    /\ status = "NotFound" => request.entry \notin Files \cup Directories
    /\ status = "FailedPrecondition" =>
         request.revision # "v1" \/ request.entry[2] = "revision-conflict"
    /\ status = "InvalidArgument" => request.revision = "" \/ ~InRange(request)

\* The bytes: a chunk's data start at its offset, and what the host took is a
\* prefix of the range it asked for.
BytesInv ==
    /\ pc \in {"send", "resend"} =>
         offset \in request.offset..End /\ (request.length > 0 => offset < End)
    /\ \A k \in DOMAIN stream :
         stream[k].data = Book(stream[k].offset, stream[k].offset + Len(stream[k].data))
    /\ got = Book(request.offset, Taken)
    /\ got # << >> => Len(got) <= request.length

\* The faults: a blocking read is never good; the short entry's only chunk
\* ends the stream and the range is not filled; of the duplicate's two chunks
\* the second is still to come, or to be turned down.
Chunked == Len(stream) + IF got = << >> THEN 0 ELSE 1

FaultInv ==
    /\ IsFault(request, "blocking") => status # "OK"
    /\ IsFault(request, "short") =>
         /\ \A k \in DOMAIN stream :
              stream[k].eof /\ Len(stream[k].data) < request.length
         /\ ended \/ got = << >>
         /\ Len(got) < request.length
    /\ IsFault(request, "duplicate") /\ verdict = "reading" =>
         /\ \A k \in DOMAIN stream :
              stream[k].offset = request.offset /\ stream[k].data # << >>
         /\ pc \in {"send", "resend"} => offset = request.offset
         /\ pc = "send" => Chunked = 0
         /\ pc = "resend" => Chunked = 1
         /\ status = "OK" => Chunked = 2

\* An honest read: the chunks on the stream continue where the host has got
\* to, each where the one before it ends and the handler after the last, and
\* eof is on the chunk after which the handler returned, on that one only.
Honest ==
    /\ request.revision = "v1" /\ InRange(request)
    /\ request.entry[2] \notin Faults

Follows(k) ==
    IF k = 1 THEN Taken ELSE NextOffset(request, stream[k - 1].offset)

HonestInv ==
    Honest /\ verdict = "reading" =>
        /\ pc = "returned" => status = "OK"
        /\ \A k \in 1..Len(stream) :
             /\ stream[k].offset \in request.offset..End
             /\ stream[k].offset = Follows(k)
             /\ stream[k].data = Book(stream[k].offset, NextOffset(request, stream[k].offset))
             /\ stream[k].eof = (NextOffset(request, stream[k].offset) = End)
             /\ stream[k].eof = (pc = "returned" /\ k = Len(stream))
        /\ pc = "send" => offset = Follows(Len(stream) + 1)
        /\ ended = (pc = "returned" /\ stream = << >>)
        /\ ended => Len(got) = request.length

\* The verdict.
VerdictInv ==
    /\ verdict = "accepted" =>
         /\ status = "OK" /\ Len(got) = request.length
         /\ \A fault \in Faults : ~IsFault(request, fault)
    /\ verdict = "rejected" => ~Honest

ReadInv ==
    ReadTypeOK /\ CallInv /\ BytesInv /\ FaultInv /\ HonestInv /\ VerdictInv

-----------------------------------------------------------------------------
(* The handler's answer and its chunks.                                    *)

LEMMA RequestFields ==
    ASSUME NEW r \in Requests
    PROVE  /\ r.entry \in Asked /\ r.revision \in {"", "v1", "v2"}
           /\ r.offset \in Int /\ r.length \in Int
           /\ r.offset \in -1..FileSize + 1
           /\ InRange(r) => /\ r.entry \in Files
                            /\ r.offset \in 0..FileSize /\ r.length \in 0..MaxRead
                            /\ r.offset + r.length \in r.offset..FileSize
  <1>1. /\ r.entry \in Asked /\ r.revision \in {"", "v1", "v2"}
        /\ r.offset \in -1..FileSize + 1 /\ r.length \in -1..MaxRead + 1
    BY DEF Requests
  <1>2. r.offset \in Int /\ r.length \in Int
    <2>2. -1..FileSize + 1 \subseteq Int /\ -1..MaxRead + 1 \subseteq Int
      BY ReadSizesAssumption
    <2> QED
      BY <1>1, <2>2
  <1>3. InRange(r) => /\ r.entry \in Files
                      /\ r.offset \in 0..FileSize /\ r.length \in 0..MaxRead
    BY <1>2 DEF InRange
  <1>4. InRange(r) => r.offset + r.length \in r.offset..FileSize
    <2> DEFINE o == r.offset
               l == r.length
    <2>1. InRange(r) => 0 <= l /\ l <= FileSize - o
      BY DEF InRange
    <2> HIDE DEF o, l
    <2>2. o \in Int /\ l \in Int
      BY <1>2 DEF o, l
    <2>3. InRange(r) => o + l \in o..FileSize
      BY <2>1, <2>2, ReadSizesAssumption
    <2> QED
      BY <2>3 DEF o, l
  <1> QED
    BY <1>1, <1>2, <1>3, <1>4

LEMMA AdmitAnswers ==
    ASSUME cancelled \in BOOLEAN
    PROVE  /\ Admit(request) \in Codes
           /\ Admit(request) = "OK" => /\ request.revision = "v1" /\ InRange(request)
                                 /\ request.entry[2] # "revision-conflict"
           /\ Admit(request) = "Canceled" => cancelled
           /\ Admit(request) = "NotFound" => request.entry \notin Files \cup Directories
           /\ Admit(request) = "FailedPrecondition" =>
                request.revision # "v1" \/ request.entry[2] = "revision-conflict"
           /\ Admit(request) = "InvalidArgument" => request.revision = "" \/ ~InRange(request)
  BY DEF Admit, Stat, Codes

\* Where the chunk from a position of the range ends.
LEMMA ChunkEnds ==
    ASSUME NEW r \in Requests, InRange(r), NEW at \in r.offset..(r.offset + r.length)
    PROVE  /\ NextOffset(r, at) \in at..(r.offset + r.length)
           /\ NextOffset(r, at) <= at + ChunkBytes
           /\ at < r.offset + r.length => at < NextOffset(r, at)
  <1> DEFINE end == r.offset + r.length
  <1>1. at \in Int /\ end \in Int /\ at <= end
    <2> DEFINE o == r.offset
               l == r.length
    <2>1. o \in Int /\ l \in Int /\ at \in o..(o + l)
      BY RequestFields
    <2> HIDE DEF o, l
    <2>2. at \in Int /\ o + l \in Int /\ at <= o + l
      BY <2>1
    <2> QED
      BY <2>2 DEF o, l
  <1>2. NextOffset(r, at) = IF at + ChunkBytes < end THEN at + ChunkBytes ELSE end
    BY DEF NextOffset, Smaller
  <1> HIDE DEF end
  <1>3. /\ NextOffset(r, at) \in at..end
        /\ NextOffset(r, at) <= at + ChunkBytes
        /\ at < end => at < NextOffset(r, at)
    BY <1>1, <1>2, ReadSizesAssumption
  <1> QED
    BY <1>3 DEF end

LEMMA BookIsData ==
    ASSUME NEW a \in 0..FileSize, NEW b \in a..FileSize, b - a <= ChunkBytes
    PROVE  Book(a, b) \in UNION {[1..n -> 0..FileSize - 1] : n \in 0..ChunkBytes}
  <1>1. b - a \in 0..ChunkBytes
    BY ReadSizesAssumption
  <1>2. Book(a, b) \in [1..(b - a) -> 0..FileSize - 1]
    BY ReadSizesAssumption DEF Book
  <1> QED
    BY <1>1, <1>2

LEMMA ChunkFacts ==
    ASSUME NEW r \in Requests, InRange(r), NEW at \in r.offset..(r.offset + r.length),
           r.length > 0 => at < r.offset + r.length
    PROVE  /\ Chunk(r, at) \in Chunks
           /\ Chunk(r, at).offset = at
           /\ Chunk(r, at).data = Book(at, at + Len(Chunk(r, at).data))
           /\ IsFault(r, "short") =>
                Chunk(r, at).eof /\ Len(Chunk(r, at).data) < r.length
           /\ IsFault(r, "duplicate") => Chunk(r, at).data # << >>
           /\ r.entry[2] \notin Faults =>
                /\ Chunk(r, at).data = Book(at, NextOffset(r, at))
                /\ Chunk(r, at).eof = (NextOffset(r, at) = r.offset + r.length)
  <1> DEFINE next == NextOffset(r, at)
             end == r.offset + r.length
             data == CASE IsFault(r, "blocking") -> Book(at, at + 1)
                       [] IsFault(r, "short")    -> Book(at, next - 1)
                       [] OTHER                  -> Book(at, next)
             eof == CASE IsFault(r, "blocking")  -> FALSE
                      [] IsFault(r, "short")     -> TRUE
                      [] OTHER                   -> next = end
             whole == ~IsFault(r, "blocking") /\ ~IsFault(r, "short")
  <1>1. Chunk(r, at) = [offset |-> at, data |-> data, eof |-> eof]
    BY DEF Chunk
  <1>2. /\ at \in 0..FileSize /\ end \in at..FileSize
        /\ next \in at..end /\ next <= at + ChunkBytes
        /\ at < end => at < next
        /\ end - at <= r.length
    <2> DEFINE o == r.offset
               l == r.length
    <2>1. o \in 0..FileSize /\ l \in 0..MaxRead /\ o + l \in o..FileSize
          /\ at \in o..(o + l)
      BY RequestFields
    <2>2. next \in at..end /\ next <= at + ChunkBytes /\ (at < end => at < next)
      BY ChunkEnds
    <2> HIDE DEF o, l
    <2>3. at \in 0..FileSize /\ o + l \in at..FileSize /\ (o + l) - at <= l
      BY <2>1, ReadSizesAssumption
    <2> QED
      BY <2>2, <2>3 DEF o, l
  <1>3. ~ (IsFault(r, "blocking") /\ IsFault(r, "short"))
    BY DEF IsFault
  <1>4. \A fault : IsFault(r, fault) => r.length > 0 /\ r.entry[2] = fault
    BY DEF IsFault
  <1>5. IsFault(r, "blocking") => data = Book(at, at + 1) /\ eof = FALSE
    BY <1>3, Zenon
  <1>6. IsFault(r, "short") => data = Book(at, next - 1) /\ eof = TRUE
    BY <1>3, Zenon
  <1>7. whole => data = Book(at, next) /\ eof = (next = end)
    BY Zenon
  <1> HIDE DEF data, eof, next
  <1>8. PICK stop \in at..end :
          /\ data = Book(at, stop) /\ stop - at <= ChunkBytes
          /\ IsFault(r, "short") => stop - at < r.length
          /\ IsFault(r, "duplicate") => stop > at
    <2>1. CASE IsFault(r, "blocking")
      <3>1. at + 1 \in at..end /\ (at + 1) - at <= ChunkBytes
        BY <1>2, <1>4, <2>1, ReadSizesAssumption
      <3> QED
        BY <1>2, <1>3, <1>5, <2>1, <3>1
    <2>2. CASE IsFault(r, "short")
      <3>1. next - 1 \in at..end /\ (next - 1) - at <= ChunkBytes /\ (next - 1) - at < r.length
        <4> DEFINE l == r.length
        <4>1. l \in Int /\ l > 0 /\ at < end /\ end - at <= l
          BY <1>2, <1>4, <2>2, RequestFields
        <4> HIDE DEF end, l
        <4> QED
          BY <1>2, <4>1, ReadSizesAssumption DEF l
      <3>2. ~IsFault(r, "duplicate")
        BY <2>2 DEF IsFault
      <3> QED
        BY <1>6, <2>2, <3>1, <3>2
    <2>3. CASE whole
      <3>1. next \in at..end /\ next - at <= ChunkBytes
        BY <1>2, ReadSizesAssumption
      <3>2. IsFault(r, "duplicate") => next > at
        BY <1>2, <1>4
      <3> QED
        BY <1>7, <2>3, <3>1, <3>2
    <2> QED
      BY <2>1, <2>2, <2>3
  <1>9. /\ stop \in Int /\ at \in Int /\ at <= stop
        /\ Len(data) = stop - at /\ at + Len(data) = stop
    <2>1. stop \in Int /\ at \in Int /\ at <= stop
      BY <1>2, <1>8
    <2>2. Len(Book(at, stop)) = stop - at
      BY <2>1, BookType
    <2> QED
      BY <1>8, <2>1, <2>2
  <1>10. data \in UNION {[1..n -> 0..FileSize - 1] : n \in 0..ChunkBytes}
    <2>1. stop \in at..FileSize
      BY <1>2, <1>8, ReadSizesAssumption
    <2> QED
      BY <1>2, <1>8, <2>1, BookIsData
  <1>11. eof \in BOOLEAN
    BY <1>5, <1>6, <1>7
  <1>12. r.entry[2] \notin Faults => whole
    BY DEF IsFault, Faults
  <1>13. IsFault(r, "duplicate") => data # << >>
    BY <1>8, <1>9
  <1>14. IsFault(r, "short") => eof /\ Len(data) < r.length
    BY <1>6, <1>8, <1>9
  <1>15. Chunk(r, at) \in Chunks
    BY <1>1, <1>2, <1>10, <1>11 DEF Chunks
  <1> QED
    BY <1>1, <1>7, <1>8, <1>9, <1>12, <1>13, <1>14, <1>15 DEF next

-----------------------------------------------------------------------------
(* The steps of a read.                                                    *)

LEMMA ReadInitInv ==
    ReadInit => ReadInv
<1> SUFFICES ASSUME ReadInit PROVE ReadInv
  OBVIOUS
<1>1. /\ request = NoRead /\ size = -1
      /\ pc = "idle" /\ offset = 0 /\ stream = << >> /\ status = "none"
      /\ cancelled = FALSE /\ got = << >> /\ ended = FALSE /\ verdict = "none"
  BY DEF ReadInit
<1>2. NoRead \in Requests /\ NoRead.offset = 0 /\ NoRead.length = 0
  BY ReadSizesAssumption DEF NoRead, Requests, Asked
<1>3. ReadTypeOK
  <2>1. 0 \in -1..FileSize + 1 /\ Len(<< >>) = 0 /\ 0 <= Window /\ 0 <= FileSize
    BY ReadSizesAssumption
  <2>2. << >> \in Seq(Chunks) /\ << >> \in Seq(0..FileSize - 1)
    OBVIOUS
  <2> QED
    BY <1>1, <1>2, <2>1, <2>2 DEF ReadTypeOK
<1>4. CallInv
  BY <1>1 DEF CallInv
<1>5. BytesInv
  <2>1. got = Book(request.offset, request.offset + Len(got))
    BY <1>1, <1>2, BookEmpty
  <2> QED
    BY <1>1, <2>1 DEF BytesInv, Taken
<1>6. FaultInv
  BY <1>1, <1>2 DEF FaultInv, IsFault
<1> QED
  BY <1>1, <1>3, <1>4, <1>5, <1>6 DEF ReadInv, HonestInv, VerdictInv

\* Before the read nothing has been sent or taken.
LEMMA AskInv ==
    ASSUME ReadInv, NEW r \in Requests, AskStat(r) \/ AskRead(r)
    PROVE  ReadInv'
<1>1. /\ request' = r /\ verdict = "none"
      /\ stream' = stream /\ cancelled' = cancelled /\ offset' = offset
      /\ status' = status /\ got' = got /\ ended' = ended
  BY DEF AskStat, AskRead, handler, host
<1>2. \/ /\ size' = SizeOf(r.entry) /\ pc' = pc /\ verdict' = verdict
      \/ /\ size' = size /\ pc' = "open" /\ verdict' = "reading"
         /\ size # -1 => r.entry = request.entry
  BY DEF AskStat, AskRead, handler, host
<1>3. /\ ReadTypeOK
      /\ pc = "idle" /\ ~cancelled
      /\ stream = << >> /\ got = << >> /\ ~ended
      /\ size # -1 => size = SizeOf(request.entry)
  BY <1>1 DEF ReadInv, CallInv
<1>4. status = "none" /\ offset \in -1..FileSize + 1
  BY <1>3 DEF ReadTypeOK
<1>5. /\ pc' \in {"idle", "open"} /\ verdict' \in {"none", "reading"}
      /\ verdict' = "none" <=> pc' = "idle"
      /\ size' \in {size, SizeOf(r.entry)}
  BY <1>1, <1>2, <1>3
<1>6. SizeOf(r.entry) \in {0, FileSize}
  BY DEF SizeOf
<1>7. size' # -1 => size' = SizeOf(r.entry)
  BY <1>2, <1>3
<1>8. ReadTypeOK'
  BY <1>1, <1>3, <1>4, <1>5, <1>6 DEF ReadTypeOK
<1>9. CallInv'
  BY <1>1, <1>3, <1>4, <1>5, <1>7 DEF CallInv
<1>10. BytesInv'
  <2>1. r.offset \in Int
    BY RequestFields
  <2>2. << >> = Book(r.offset, r.offset + Len(<< >>))
    BY <2>1, BookEmpty
  <2> QED
    BY <1>1, <1>3, <1>5, <2>2 DEF BytesInv, Taken
<1>11. FaultInv'
  <2>1. IsFault(r, "short") => Len(<< >>) < r.length
    BY RequestFields DEF IsFault
  <2> QED
    BY <1>1, <1>3, <1>4, <1>5, <2>1 DEF FaultInv
<1>12. HonestInv'
  <2>1. stream' = << >> /\ ~ended' /\ pc' \notin {"send", "returned"}
    BY <1>1, <1>3, <1>5
  <2>2. ended' = (pc' = "returned" /\ stream' = << >>)
    <3>1. ended' \in BOOLEAN
      BY <1>1, <1>3 DEF ReadTypeOK
    <3> QED
      BY <2>1, <3>1, Zenon
  <2> QED
    BY <2>1, <2>2 DEF HonestInv
<1>13. VerdictInv'
  BY <1>5 DEF VerdictInv
<1> QED
  BY <1>8, <1>9, <1>10, <1>11, <1>12, <1>13 DEF ReadInv

\* An error, before anything was sent or because the call was given up.
LEMMA ReturnInv ==
    ASSUME ReadInv, NEW code \in Codes \ {"OK"}, Return(code),
           UNCHANGED <<request, size, cancelled, host>>,
           pc \notin {"idle", "returned"},
           code = "Canceled" => cancelled,
           code # "Canceled" => pc = "open" /\ code = Admit(request)
    PROVE  ReadInv'
<1>1. /\ pc' = "returned" /\ status' = code /\ code # "OK"
      /\ offset' = offset /\ stream' = stream
      /\ request' = request /\ size' = size /\ cancelled' = cancelled
      /\ got' = got /\ ended' = ended /\ verdict' = verdict
  BY DEF Return, host
<1>2. ReadTypeOK /\ CallInv /\ BytesInv /\ FaultInv /\ HonestInv /\ VerdictInv
  BY DEF ReadInv
<1>3. cancelled \in BOOLEAN
  BY <1>2 DEF ReadTypeOK
<1>4. ReadTypeOK'
  BY <1>1, <1>2 DEF ReadTypeOK, Codes
<1>5. CallInv'
  <2>1. /\ code = "NotFound" => request.entry \notin Files \cup Directories
        /\ code = "FailedPrecondition" =>
             request.revision # "v1" \/ request.entry[2] = "revision-conflict"
        /\ code = "InvalidArgument" => request.revision = "" \/ ~InRange(request)
    <3> DEFINE answer == Admit(request)
               inside == InRange(request)
    <3>1. /\ answer = "NotFound" => request.entry \notin Files \cup Directories
          /\ answer = "FailedPrecondition" =>
               request.revision # "v1" \/ request.entry[2] = "revision-conflict"
          /\ answer = "InvalidArgument" => request.revision = "" \/ ~inside
      BY <1>3, AdmitAnswers
    <3>2. code # "Canceled" => code = answer
      OBVIOUS
    <3> HIDE DEF answer, inside
    <3> QED
      BY <3>1, <3>2 DEF inside
  <2>2. pc' \notin {"idle", "open", "send", "resend", "wait"}
    BY <1>1
  <2> QED
    <3>1. size' # -1 => size' = SizeOf(request'.entry)
      BY <1>1, <1>2 DEF CallInv
    <3>5. /\ verdict' = "none" <=> pc' = "idle"
          /\ verdict' \in {"none", "reading"} => ~cancelled'
      <4>1. verdict # "none" /\ verdict' = verdict /\ pc' # "idle"
        BY <1>1, <1>2 DEF CallInv
      <4>2. verdict' \in {"none", "reading"} => ~cancelled'
        <5>1. verdict \in {"none", "reading"} => ~cancelled
          BY <1>2 DEF CallInv
        <5> QED
          BY <1>1, <5>1
      <4> QED
        BY <4>1, <4>2
    <3>6. /\ pc' \in {"idle", "open"} => stream' = << >> /\ got' = << >> /\ ~ended'
          /\ pc' = "wait" => request'.entry[2] = "blocking"
          /\ pc' = "resend" => IsFault(request', "duplicate")
      BY <2>2
    <3>2. stream # << >> \/ got # << >> => Admitted
      BY <1>2 DEF CallInv
    <3>3. pc' \in {"send", "resend", "wait"} \/ status' = "OK"
            \/ stream' # << >> \/ got' # << >> => Admitted'
      BY <1>1, <2>2, <3>2 DEF Admitted
    <3>4. /\ status' = "NotFound" => request'.entry \notin Files \cup Directories
          /\ status' = "FailedPrecondition" =>
               request'.revision # "v1" \/ request'.entry[2] = "revision-conflict"
          /\ status' = "InvalidArgument" => request'.revision = "" \/ ~InRange(request')
      BY <1>1, <2>1
    <3> QED
      BY <3>1, <3>3, <3>4, <3>5, <3>6 DEF CallInv
<1>6. BytesInv'
  BY <1>1, <1>2 DEF BytesInv, Taken, End
<1>7. FaultInv'
  BY <1>1, <1>2 DEF FaultInv, Chunked
<1>8. HonestInv'
  <2>1. Honest /\ verdict = "reading" => FALSE
    <3> SUFFICES ASSUME Honest, verdict = "reading" PROVE FALSE
      OBVIOUS
    <3>1. ~cancelled
      BY <1>2 DEF CallInv
    <3>2. code = Admit(request)
      BY <3>1
    <3>3. /\ request.entry \in Files /\ InRange(request)
          /\ request.revision = "v1" /\ request.entry[2] # "revision-conflict"
      BY DEF Honest, InRange, Faults
    <3> QED
      BY <1>1, <1>3, <3>1, <3>2, <3>3, AdmitAnswers DEF Codes
  <2> QED
    BY <1>1, <2>1 DEF HonestInv, Honest
<1>9. VerdictInv'
  <2>1. verdict = "accepted" => FALSE
    <3>1. verdict = "accepted" => status = "OK"
      BY <1>2 DEF VerdictInv
    <3> QED
      BY <1>2, <3>1 DEF ReadTypeOK
  <2> QED
    BY <1>1, <1>2, <2>1 DEF VerdictInv, Honest
<1> QED
  BY <1>4, <1>5, <1>6, <1>7, <1>8, <1>9 DEF ReadInv

\* An admitted read starts at its offset, with an empty stream.
LEMMA BeginInv ==
    ASSUME ReadInv, pc = "open", Admit(request) = "OK", Begin,
           UNCHANGED <<request, size, cancelled, host>>
    PROVE  ReadInv'
<1>1. /\ offset' = request.offset
      /\ pc' = IF request.entry[2] = "blocking" /\ request.length = 0 THEN "wait" ELSE "send"
      /\ stream' = stream /\ status' = status
      /\ request' = request /\ size' = size /\ cancelled' = cancelled
      /\ got' = got /\ ended' = ended /\ verdict' = verdict
  BY DEF Begin, host
<1>2. ReadTypeOK /\ CallInv /\ BytesInv /\ FaultInv /\ HonestInv /\ VerdictInv
  BY DEF ReadInv
<1>3. /\ stream = << >> /\ got = << >> /\ ~ended /\ status = "none" /\ verdict # "none"
  BY <1>2 DEF CallInv, ReadTypeOK
<1>4. pc' \in {"wait", "send"} /\ (pc' = "wait" => request.entry[2] = "blocking")
      /\ (pc' = "wait" => request.length = 0)
  BY <1>1
<1>5. Admitted
  BY <1>2, AdmitAnswers DEF Admitted, ReadTypeOK
<1>6. InRange(request) /\ request \in Requests
  BY <1>2, <1>5 DEF Admitted, ReadTypeOK
<1>7. ReadTypeOK'
  <2>1. request.offset \in -1..FileSize + 1
    BY <1>6, RequestFields
  <2> QED
    BY <1>1, <1>2, <1>3, <1>4, <2>1 DEF ReadTypeOK
<1>8. CallInv'
  <2>1. /\ size' # -1 => size' = SizeOf(request'.entry)
        /\ verdict' \in {"none", "reading"} => ~cancelled'
    <3>1. /\ size # -1 => size = SizeOf(request.entry)
          /\ verdict \in {"none", "reading"} => ~cancelled
      BY <1>2 DEF CallInv
    <3> QED
      BY <1>1, <3>1
  <2>2. Admitted' /\ status' = "none" /\ verdict' # "none"
    BY <1>1, <1>3, <1>5 DEF Admitted
  <2> QED
    BY <1>1, <1>4, <2>1, <2>2 DEF CallInv
<1>9. BytesInv'
  <2>1. request.offset \in Int /\ request.length \in 0..MaxRead
    BY <1>6, RequestFields
  <2>2. /\ request.offset \in request.offset..(request.offset + request.length)
        /\ request.length > 0 => request.offset < request.offset + request.length
    <3> DEFINE o == request.offset
               l == request.length
    <3>1. o \in Int /\ l \in 0..MaxRead
      BY <2>1
    <3> HIDE DEF o, l
    <3>2. o \in o..(o + l) /\ (l > 0 => o < o + l)
      BY <3>1, ReadSizesAssumption
    <3> QED
      BY <3>2 DEF o, l
  <2>3. got = Book(request.offset, Taken)
    BY <1>2 DEF BytesInv
  <2> QED
    BY <1>1, <1>3, <2>2, <2>3 DEF BytesInv, Taken, End
<1>10. FaultInv'
  <2>1. IsFault(request, "short") => Len(got) < request.length
    BY <1>2 DEF FaultInv
  <2>2. Chunked' = 0
    BY <1>1, <1>3 DEF Chunked
  <2>3. \A k \in DOMAIN stream' : FALSE
    BY <1>1, <1>3
  <2> QED
    BY <1>1, <1>3, <1>4, <2>1, <2>2, <2>3 DEF FaultInv
<1>11. HonestInv'
  <2>1. Honest' => pc' = "send"
    BY <1>1, <1>4 DEF Honest, Faults
  <2>2. offset' = Follows(Len(stream) + 1)'
    <3>1. request.offset + Len(<< >>) = request.offset
      <4> DEFINE o == request.offset
      <4>1. o \in Int
        BY <1>6, RequestFields
      <4> HIDE DEF o
      <4>2. o + Len(<< >>) = o
        BY <4>1
      <4> QED
        BY <4>2 DEF o
    <3> QED
      BY <1>1, <1>3, <3>1 DEF Follows, Taken
  <2>3. ~ended' /\ ended' \in BOOLEAN
    BY <1>1, <1>3, <1>2 DEF ReadTypeOK
  <2>4. \A k \in 1..Len(stream') : FALSE
    BY <1>1, <1>3
  <2>5. pc' = "send" => ended' = (pc' = "returned" /\ stream' = << >>)
    BY <2>3, Zenon
  <2> QED
    BY <2>1, <2>2, <2>3, <2>4, <2>5 DEF HonestInv
<1>12. VerdictInv'
  <2>1. verdict # "accepted"
    BY <1>2, <1>3 DEF VerdictInv
  <2>2. verdict = "rejected" => ~Honest
    BY <1>2 DEF VerdictInv
  <2> QED
    BY <1>1, <2>1, <2>2 DEF VerdictInv, Honest
<1> QED
  BY <1>7, <1>8, <1>9, <1>10, <1>11, <1>12 DEF ReadInv

\* The caller gives up: the handler's state and the stream are as before.
LEMMA CancelInv ==
    ASSUME ReadInv, Cancel
    PROVE  ReadInv'
<1>1. /\ verdict = "reading" /\ verdict' = "cancelled" /\ cancelled' = TRUE
      /\ request' = request /\ size' = size /\ stream' = stream
      /\ pc' = pc /\ offset' = offset /\ status' = status
      /\ got' = got /\ ended' = ended
  BY DEF Cancel, handler
<1>2. ReadTypeOK /\ CallInv /\ BytesInv /\ FaultInv
  BY DEF ReadInv
<1>3. ReadTypeOK' /\ BytesInv' /\ FaultInv' /\ HonestInv' /\ VerdictInv'
  BY <1>1, <1>2
  DEF ReadTypeOK, BytesInv, Taken, End, FaultInv, HonestInv, VerdictInv
<1>4. CallInv'
  BY <1>1, <1>2 DEF CallInv, Admitted
<1> QED
  BY <1>3, <1>4 DEF ReadInv

\* The host takes the end of the stream.
LEMMA FinishInv ==
    ASSUME ReadInv, Finish
    PROVE  ReadInv'
<1>1. /\ verdict = "reading" /\ stream = << >> /\ pc = "returned"
      /\ verdict' = IF status = "OK" /\ ended /\ Len(got) = request.length
                      THEN "accepted" ELSE "rejected"
      /\ request' = request /\ size' = size /\ stream' = stream /\ cancelled' = cancelled
      /\ pc' = pc /\ offset' = offset /\ status' = status
      /\ got' = got /\ ended' = ended
  BY DEF Finish, handler
<1>2. ReadTypeOK /\ CallInv /\ BytesInv /\ FaultInv /\ HonestInv
  BY DEF ReadInv
<1>3. verdict' \in {"accepted", "rejected"}
  BY <1>1
<1>4. ReadTypeOK' /\ BytesInv' /\ FaultInv' /\ HonestInv'
  BY <1>1, <1>2, <1>3
  DEF ReadTypeOK, BytesInv, Taken, End, FaultInv, HonestInv
<1>5. CallInv'
  BY <1>1, <1>2, <1>3 DEF CallInv, Admitted
<1>6. verdict' = "rejected" => ~Honest
  <2> SUFFICES ASSUME Honest PROVE verdict' = "accepted"
    BY <1>3
  <2>1. status = "OK" /\ ended = (pc = "returned" /\ stream = << >>)
        /\ (ended => Len(got) = request.length)
    BY <1>1, <1>2 DEF HonestInv
  <2>2. ended
    BY <1>1, <2>1, Zenon
  <2> QED
    BY <1>1, <2>1, <2>2
<1>7. verdict' = "accepted" =>
        /\ status = "OK" /\ Len(got) = request.length
        /\ \A fault \in Faults : ~IsFault(request, fault)
  <2> SUFFICES ASSUME verdict' = "accepted"
               PROVE  /\ status = "OK" /\ Len(got) = request.length
                      /\ \A fault \in Faults : ~IsFault(request, fault)
    OBVIOUS
  <2>1. status = "OK" /\ Len(got) = request.length
    BY <1>1
  <2>2. ~IsFault(request, "revision-conflict")
    BY <1>2, <2>1 DEF CallInv, Admitted, IsFault
  <2>3. ~IsFault(request, "blocking")
    BY <1>2, <2>1 DEF FaultInv
  <2>4. ~IsFault(request, "short")
    <3>1. Len(got) \in Nat
      BY <1>2 DEF ReadTypeOK
    <3> QED
      BY <1>2, <2>1, <3>1 DEF FaultInv
  <2>5. ~IsFault(request, "duplicate")
    <3>1. Chunked # 2
      BY <1>1 DEF Chunked
    <3> QED
      BY <1>1, <1>2, <2>1, <3>1 DEF FaultInv
  <2> QED
    BY <2>1, <2>2, <2>3, <2>4, <2>5 DEF Faults
<1>8. VerdictInv'
  BY <1>1, <1>6, <1>7 DEF VerdictInv, Honest
<1> QED
  BY <1>4, <1>5, <1>8 DEF ReadInv

\* The handler sends the chunk at its offset.
LEMMA SendChunkInv ==
    ASSUME ReadInv, SendChunk
    PROVE  ReadInv'
<1> DEFINE chunk == Chunk(request, offset)
           next == NextOffset(request, offset)
           last == next = End \/ IsFault(request, "short")
<1>1. /\ pc = "send" /\ Len(stream) < Window /\ stream' = Append(stream, chunk)
      /\ request' = request /\ size' = size /\ cancelled' = cancelled
      /\ got' = got /\ ended' = ended /\ verdict' = verdict
  BY DEF SendChunk, Send, host
<1>2. \/ /\ IsFault(request, "blocking")
         /\ pc' = "wait" /\ offset' = offset /\ status' = status
      \/ /\ IsFault(request, "duplicate")
         /\ pc' = "resend" /\ offset' = offset /\ status' = status
      \/ /\ ~IsFault(request, "blocking") /\ ~IsFault(request, "duplicate") /\ ~last
         /\ pc' = "send" /\ offset' = next /\ status' = status
      \/ /\ ~IsFault(request, "blocking") /\ ~IsFault(request, "duplicate") /\ last
         /\ pc' = "returned" /\ status' = "OK" /\ offset' = offset
  BY <1>1 DEF SendChunk, End
<1>3. ReadTypeOK /\ CallInv /\ BytesInv /\ FaultInv /\ HonestInv /\ VerdictInv
  BY DEF ReadInv
<1>4. Admitted /\ status = "none" /\ verdict # "none"
  BY <1>1, <1>3 DEF CallInv, ReadTypeOK
<1>5. request \in Requests /\ InRange(request)
  BY <1>3, <1>4 DEF Admitted, ReadTypeOK
<1>6. offset \in request.offset..End /\ (request.length > 0 => offset < End)
  BY <1>1, <1>3 DEF BytesInv
<1>7. /\ chunk \in Chunks /\ chunk.offset = offset
      /\ chunk.data = Book(offset, offset + Len(chunk.data))
      /\ IsFault(request, "short") => chunk.eof /\ Len(chunk.data) < request.length
      /\ IsFault(request, "duplicate") => chunk.data # << >>
      /\ request.entry[2] \notin Faults =>
           chunk.data = Book(offset, next) /\ chunk.eof = (next = End)
  BY <1>5, <1>6, ChunkFacts DEF End
<1>8. next \in offset..End /\ (offset < End => offset < next)
  BY <1>5, <1>6, ChunkEnds DEF End
<1>9. offset \in Int /\ End \in 0..FileSize /\ request.offset \in 0..FileSize
  <2>1. request.offset \in 0..FileSize /\ End \in request.offset..FileSize
    BY <1>5, RequestFields DEF End
  <2> QED
    BY <1>6, <2>1, ReadSizesAssumption
<1> HIDE DEF chunk, next
<1>10. /\ stream \in Seq(Chunks) /\ Len(stream) \in Nat
       /\ stream' \in Seq(Chunks) /\ Len(stream') = Len(stream) + 1
       /\ stream'[Len(stream) + 1] = chunk
       /\ \A k \in 1..Len(stream) : stream'[k] = stream[k]
  BY <1>1, <1>3, <1>7 DEF ReadTypeOK
<1>11. /\ pc' \in {"wait", "resend", "send", "returned"}
       /\ pc' = "wait" => IsFault(request, "blocking")
       /\ pc' = "resend" => IsFault(request, "duplicate")
       /\ status' = IF pc' = "returned" THEN "OK" ELSE "none"
       /\ offset' = IF pc' = "send" THEN next ELSE offset
       /\ pc' = "send" => next # End /\ ~IsFault(request, "duplicate")
       /\ pc' = "returned" => /\ ~IsFault(request, "blocking")
                              /\ ~IsFault(request, "duplicate")
  BY <1>2, <1>4
<1>12. ReadTypeOK'
  <2>1. offset' \in -1..FileSize + 1
    BY <1>3, <1>8, <1>9, <1>11, ReadSizesAssumption DEF ReadTypeOK
  <2>2. Len(stream') <= Window
    BY <1>1, <1>10, ReadSizesAssumption
  <2> QED
    BY <1>1, <1>3, <1>10, <1>11, <2>1, <2>2 DEF ReadTypeOK, Codes
<1>13. CallInv'
  <2>1. /\ size # -1 => size = SizeOf(request.entry)
        /\ verdict \in {"none", "reading"} => ~cancelled
    BY <1>3 DEF CallInv
  <2>2. /\ size' # -1 => size' = SizeOf(request'.entry)
        /\ verdict' \in {"none", "reading"} => ~cancelled'
    BY <1>1, <2>1
  <2>3. Admitted' /\ status' \in {"OK", "none"} /\ verdict' # "none"
    BY <1>1, <1>4, <1>11 DEF Admitted
  <2>4. pc' = "wait" => request'.entry[2] = "blocking"
    BY <1>1, <1>11 DEF IsFault
  <2> QED
    BY <1>1, <1>11, <2>2, <2>3, <2>4 DEF CallInv
<1>14. BytesInv'
  <2>1. \A k \in DOMAIN stream' :
          stream'[k].data
            = Book(stream'[k].offset, stream'[k].offset + Len(stream'[k].data))
    BY <1>3, <1>7, <1>10 DEF BytesInv
  <2>2. pc' \in {"send", "resend"} =>
          offset' \in request.offset..End /\ (request.length > 0 => offset' < End)
    BY <1>6, <1>8, <1>9, <1>11
  <2>3. got = Book(request.offset, Taken) /\ (got # << >> => Len(got) <= request.length)
    BY <1>3 DEF BytesInv
  <2> QED
    BY <1>1, <2>1, <2>2, <2>3 DEF BytesInv, Taken, End
<1>15. FaultInv'
  <2>1. IsFault(request, "short") =>
          /\ \A k \in DOMAIN stream' : stream'[k].eof /\ Len(stream'[k].data) < request.length
          /\ ended' \/ got' = << >>
          /\ Len(got') < request.length
    BY <1>1, <1>3, <1>7, <1>10 DEF FaultInv
  <2>2. ASSUME IsFault(request, "duplicate"), verdict = "reading"
        PROVE  /\ \A k \in DOMAIN stream' :
                    stream'[k].offset = request.offset /\ stream'[k].data # << >>
               /\ offset' = request.offset
               /\ pc' = "resend" /\ status' = "none" /\ Chunked' = 1
    <3>1. /\ \A k \in DOMAIN stream :
                stream[k].offset = request.offset /\ stream[k].data # << >>
          /\ offset = request.offset /\ Chunked = 0
      BY <1>1, <1>3, <2>2 DEF FaultInv
    <3>2. pc' = "resend"
      BY <1>11, <2>2 DEF IsFault
    <3>3. Chunked' = 1
      BY <1>1, <1>10, <3>1 DEF Chunked
    <3> QED
      BY <1>7, <1>10, <1>11, <2>2, <3>1, <3>2, <3>3
  <2>3. IsFault(request, "blocking") => status' # "OK"
    BY <1>11
  <2> QED
    BY <1>1, <2>1, <2>2, <2>3 DEF FaultInv
<1>16. HonestInv'
  <2> SUFFICES ASSUME Honest, verdict = "reading"
               PROVE  /\ pc' = "returned" => status' = "OK"
                      /\ \A k \in 1..Len(stream') :
                           /\ stream'[k].offset \in request.offset..End
                           /\ stream'[k].offset = Follows(k)'
                           /\ stream'[k].data = Book(stream'[k].offset,
                                                     NextOffset(request, stream'[k].offset))
                           /\ stream'[k].eof = (NextOffset(request, stream'[k].offset) = End)
                           /\ stream'[k].eof = (pc' = "returned" /\ k = Len(stream'))
                      /\ pc' = "send" => offset' = Follows(Len(stream) + 1)'
                      /\ ended' = (pc' = "returned" /\ stream' = << >>)
                      /\ ended' => Len(got') = request.length
    BY <1>1 DEF HonestInv, Honest, End
  <2>1. /\ request.entry[2] \notin Faults
        /\ \A fault \in Faults : ~IsFault(request, fault)
    BY DEF Honest, IsFault
  <2>2. \/ pc' = "returned" /\ next = End
        \/ pc' = "send" /\ next # End
    BY <1>2, <2>1 DEF Faults
  <2>3. /\ \A k \in 1..Len(stream) :
             /\ stream[k].offset \in request.offset..End
             /\ stream[k].offset = Follows(k)
             /\ stream[k].data = Book(stream[k].offset, NextOffset(request, stream[k].offset))
             /\ stream[k].eof = (NextOffset(request, stream[k].offset) = End)
             /\ stream[k].eof = (pc = "returned" /\ k = Len(stream))
        /\ offset = Follows(Len(stream) + 1)
        /\ ended = (pc = "returned" /\ stream = << >>)
    BY <1>1, <1>3 DEF HonestInv
  <2>4. \A k \in 1..Len(stream) + 1 : Follows(k)' = Follows(k)
    BY <1>1, <1>10 DEF Follows, Taken
  <2>5. Follows(Len(stream) + 1)' = next
    BY <1>1, <1>7, <1>10 DEF Follows, next
  <2>6. ~ended /\ ended' = FALSE /\ stream' # << >>
    <3>1. ended = FALSE
      BY <1>1, <2>3, Zenon
    <3> QED
      BY <1>1, <1>10, <3>1
  <2>7. ASSUME NEW k \in 1..Len(stream')
        PROVE  /\ stream'[k].offset \in request.offset..End
               /\ stream'[k].offset = Follows(k)'
               /\ stream'[k].data = Book(stream'[k].offset,
                                         NextOffset(request, stream'[k].offset))
               /\ stream'[k].eof = (NextOffset(request, stream'[k].offset) = End)
               /\ stream'[k].eof = (pc' = "returned" /\ k = Len(stream'))
    <3>1. CASE k \in 1..Len(stream)
      <4>1. stream'[k] = stream[k] /\ Follows(k)' = Follows(k) /\ k # Len(stream')
        BY <1>10, <2>4, <3>1
      <4>2. stream[k].eof = (pc = "returned" /\ k = Len(stream))
        BY <2>3, <3>1
      <4>3. stream[k].eof = (pc' = "returned" /\ k = Len(stream'))
        BY <1>1, <4>1, <4>2, Zenon
      <4> QED
        BY <2>3, <3>1, <4>1, <4>3
    <3>2. CASE k = Len(stream) + 1
      <4>1. stream'[k] = chunk /\ Follows(k)' = offset /\ k = Len(stream')
        BY <1>10, <2>3, <2>4, <3>2
      <4>2. /\ chunk.offset = offset /\ chunk.data = Book(offset, next)
            /\ chunk.eof = (next = End)
        BY <1>7, <2>1
      <4>3. chunk.eof = (pc' = "returned" /\ k = Len(stream'))
        BY <2>2, <4>1, <4>2
      <4> QED
        BY <1>6, <4>1, <4>2, <4>3 DEF next
    <3> QED
      BY <1>10, <3>1, <3>2
  <2>8. ended' = (pc' = "returned" /\ stream' = << >>)
    BY <2>6, Zenon
  <2> QED
    BY <1>11, <2>5, <2>6, <2>7, <2>8
<1>17. VerdictInv'
  <2>1. verdict # "accepted"
    BY <1>3, <1>4 DEF VerdictInv
  <2>2. verdict = "rejected" => ~Honest
    BY <1>3 DEF VerdictInv
  <2> QED
    BY <1>1, <2>1, <2>2 DEF VerdictInv, Honest
<1> QED
  BY <1>12, <1>13, <1>14, <1>15, <1>16, <1>17 DEF ReadInv

\* The duplicate entry sends the chunk again.
LEMMA ResendInv ==
    ASSUME ReadInv, Resend
    PROVE  ReadInv'
<1> DEFINE chunk == Chunk(request, offset)
<1>1. /\ pc = "resend" /\ Len(stream) < Window /\ stream' = Append(stream, chunk)
      /\ pc' = "returned" /\ status' = "OK" /\ offset' = offset
      /\ request' = request /\ size' = size /\ cancelled' = cancelled
      /\ got' = got /\ ended' = ended /\ verdict' = verdict
  BY DEF Resend, Send, host
<1>2. ReadTypeOK /\ CallInv /\ BytesInv /\ FaultInv /\ HonestInv /\ VerdictInv
  BY DEF ReadInv
<1>3. Admitted /\ status = "none" /\ verdict # "none" /\ IsFault(request, "duplicate")
  BY <1>1, <1>2 DEF CallInv, ReadTypeOK
<1>4. request \in Requests /\ InRange(request)
  BY <1>2, <1>3 DEF Admitted, ReadTypeOK
<1>5. offset \in request.offset..End /\ (request.length > 0 => offset < End)
  BY <1>1, <1>2 DEF BytesInv
<1>6. /\ chunk \in Chunks /\ chunk.offset = offset /\ chunk.data # << >>
      /\ chunk.data = Book(offset, offset + Len(chunk.data))
  BY <1>3, <1>4, <1>5, ChunkFacts DEF End
<1> HIDE DEF chunk
<1>7. /\ stream' \in Seq(Chunks) /\ Len(stream') = Len(stream) + 1 /\ Len(stream) \in Nat
      /\ stream'[Len(stream) + 1] = chunk
      /\ \A k \in 1..Len(stream) : stream'[k] = stream[k]
  BY <1>1, <1>2, <1>6 DEF ReadTypeOK
<1>8. ~IsFault(request, "blocking") /\ ~IsFault(request, "short") /\ ~Honest
  BY <1>3 DEF IsFault, Honest, Faults
<1>9. ReadTypeOK'
  <2>1. Len(stream') <= Window
    BY <1>1, <1>7, ReadSizesAssumption
  <2> QED
    BY <1>1, <1>2, <1>7, <2>1 DEF ReadTypeOK, Codes
<1>10. CallInv'
  <2>1. /\ size # -1 => size = SizeOf(request.entry)
        /\ verdict \in {"none", "reading"} => ~cancelled
    BY <1>2 DEF CallInv
  <2>2. /\ size' # -1 => size' = SizeOf(request'.entry)
        /\ verdict' \in {"none", "reading"} => ~cancelled'
    BY <1>1, <2>1
  <2>3. Admitted' /\ status' = "OK" /\ pc' = "returned" /\ verdict' # "none"
    BY <1>1, <1>3 DEF Admitted
  <2> QED
    BY <2>2, <2>3 DEF CallInv
<1>11. BytesInv'
  <2>1. \A k \in DOMAIN stream' :
          stream'[k].data
            = Book(stream'[k].offset, stream'[k].offset + Len(stream'[k].data))
    BY <1>2, <1>6, <1>7 DEF BytesInv
  <2>2. got = Book(request.offset, Taken) /\ (got # << >> => Len(got) <= request.length)
    BY <1>2 DEF BytesInv
  <2> QED
    BY <1>1, <2>1, <2>2 DEF BytesInv, Taken, End
<1>12. FaultInv'
  <2>1. ASSUME verdict = "reading"
        PROVE  /\ \A k \in DOMAIN stream' :
                    stream'[k].offset = request.offset /\ stream'[k].data # << >>
               /\ Chunked' = 2
    <3>1. /\ \A k \in DOMAIN stream :
                stream[k].offset = request.offset /\ stream[k].data # << >>
          /\ offset = request.offset /\ Chunked = 1
      BY <1>1, <1>2, <1>3, <2>1 DEF FaultInv
    <3>2. Chunked' = 2
      BY <1>1, <1>7, <3>1 DEF Chunked
    <3> QED
      BY <1>6, <1>7, <3>1, <3>2
  <2> QED
    BY <1>1, <1>8, <2>1 DEF FaultInv
<1>13. HonestInv'
  BY <1>1, <1>8 DEF HonestInv, Honest
<1>14. VerdictInv'
  <2>1. verdict # "accepted"
    BY <1>2, <1>3 DEF VerdictInv
  <2> QED
    BY <1>1, <1>8, <2>1 DEF VerdictInv, Honest
<1> QED
  BY <1>9, <1>10, <1>11, <1>12, <1>13, <1>14 DEF ReadInv

\* The host takes a chunk that keeps the contract, and turns another down.
LEMMA ReceiveInv ==
    ASSUME ReadInv, Receive
    PROVE  ReadInv'
<1> DEFINE chunk == Head(stream)
<1>1. /\ verdict = "reading" /\ stream # << >> /\ stream' = Tail(stream)
      /\ request' = request /\ size' = size
      /\ pc' = pc /\ offset' = offset /\ status' = status
  BY DEF Receive, handler
<1>2. \/ /\ Fits(chunk)
         /\ got' = got \o chunk.data /\ ended' = chunk.eof
         /\ verdict' = "reading" /\ cancelled' = cancelled
      \/ /\ ~Fits(chunk)
         /\ verdict' = "rejected" /\ cancelled' = TRUE
         /\ got' = got /\ ended' = ended
  BY <1>1 DEF Receive
<1>3. ReadTypeOK /\ CallInv /\ BytesInv /\ FaultInv /\ HonestInv /\ VerdictInv
  BY DEF ReadInv
<1>4. Admitted
  BY <1>1, <1>3 DEF CallInv
<1>5. request \in Requests /\ InRange(request)
  BY <1>3, <1>4 DEF Admitted, ReadTypeOK
<1>6. /\ stream \in Seq(Chunks) /\ Len(stream) \in Nat \ {0} /\ Len(stream) <= Window
      /\ chunk = stream[1] /\ chunk \in Chunks
      /\ stream' \in Seq(Chunks) /\ Len(stream') = Len(stream) - 1
      /\ \A k \in 1..Len(stream') : stream'[k] = stream[k + 1]
  BY <1>1, <1>3 DEF ReadTypeOK
<1>7. /\ request.offset \in 0..FileSize /\ request.length \in 0..MaxRead
      /\ End \in request.offset..FileSize
  BY <1>5, RequestFields DEF End
<1>8. Len(got) \in Nat /\ got \in Seq(0..FileSize - 1) /\ ended \in BOOLEAN
      /\ cancelled \in BOOLEAN
  BY <1>3 DEF ReadTypeOK
<1>s. \A k \in DOMAIN stream' : stream'[k] = stream[k + 1] /\ k + 1 \in DOMAIN stream
  BY <1>6
<1> HIDE DEF chunk
<1>9. /\ chunk.data = Book(chunk.offset, chunk.offset + Len(chunk.data))
      /\ chunk.offset \in 0..FileSize /\ Len(chunk.data) \in Nat /\ chunk.eof \in BOOLEAN
  <2>1. chunk.data = Book(chunk.offset, chunk.offset + Len(chunk.data))
    BY <1>3, <1>6 DEF BytesInv
  <2>2. chunk.offset \in 0..FileSize /\ chunk.eof \in BOOLEAN
    BY <1>6 DEF Chunks
  <2>3. chunk.data \in UNION {[1..n -> 0..FileSize - 1] : n \in 0..ChunkBytes}
    BY <1>6 DEF Chunks
  <2>4. Len(chunk.data) \in Nat
    BY <2>3, ReadSizesAssumption
  <2> QED
    BY <2>1, <2>2, <2>4
<1>10. ASSUME Fits(chunk)
       PROVE  /\ ~ended /\ chunk.offset = Taken
              /\ Len(got') = Len(got) + Len(chunk.data)
              /\ Len(got') <= request.length
              /\ got' = Book(request.offset, Taken')
              /\ got' \in Seq(0..FileSize - 1)
  <2>1. ~ended /\ chunk.offset = Taken /\ Len(got) + Len(chunk.data) <= request.length
    BY <1>10 DEF Fits, Taken
  <2>2. got' = got \o chunk.data
    BY <1>2, <1>10
  <2> DEFINE o == request.offset
             m == Len(got)
             n == Len(chunk.data)
             l == request.length
  <2>3. got = Book(o, o + m) /\ chunk.data = Book(o + m, o + m + n)
    BY <1>3, <1>9, <2>1 DEF BytesInv, Taken
  <2>4. o \in 0..FileSize /\ m \in Nat /\ n \in Nat /\ l \in Nat /\ o + l \in o..FileSize
        /\ m + n <= l
    BY <1>7, <1>8, <1>9, <2>1, ReadSizesAssumption DEF End
  <2> HIDE DEF o, m, n, l
  <2>5. Book(o, o + m) \o Book(o + m, o + m + n) = Book(o, o + m + n)
    <3>1. o \in Int /\ o + m \in Int /\ o + m + n \in Int /\ o <= o + m /\ o + m <= o + m + n
      BY <2>4, ReadSizesAssumption
    <3> QED
      BY <3>1, BookConcat
  <2>6. got' = Book(o, o + m + n)
    BY <2>2, <2>3, <2>5
  <2>7. Len(got') = m + n /\ got' \in Seq(0..FileSize - 1)
    <3>1. \A i \in 1..(m + n) : o + i - 1 \in 0..FileSize - 1
      BY <2>4, ReadSizesAssumption
    <3>2. (o + m + n) - o = m + n /\ m + n \in Nat
      BY <2>4, ReadSizesAssumption
    <3>3. got' = [i \in 1..(m + n) |-> o + i - 1]
      BY <2>6, <3>2 DEF Book
    <3>4. got' \in [1..(m + n) -> 0..FileSize - 1]
      BY <3>1, <3>3
    <3>5. \A N \in Nat : \A S : \A f \in [1..N -> S] : f \in Seq(S) /\ Len(f) = N
      OBVIOUS
    <3> QED
      BY <3>2, <3>4, <3>5
  <2>8. o + Len(got') = o + m + n
    BY <2>4, <2>7, ReadSizesAssumption
  <2>9. got' = Book(request'.offset, request'.offset + Len(got'))
    BY <1>1, <2>6, <2>8 DEF o
  <2> QED
    BY <1>1, <2>1, <2>4, <2>7, <2>9 DEF Taken, m, n, l, o
<1>11. pc \notin {"idle", "open"} /\ verdict' \in {"reading", "rejected"}
  BY <1>1, <1>2, <1>3 DEF CallInv
<1>12. verdict' = "reading" => Fits(chunk)
  BY <1>2
<1>13. ReadTypeOK'
  <2>1. Len(stream') <= Window
    BY <1>6, ReadSizesAssumption
  <2>2. got' \in Seq(0..FileSize - 1) /\ Len(got') <= FileSize
    <3>1. CASE Fits(chunk)
      <4>1. request.length <= FileSize
        <5> DEFINE o == request.offset
                   l == request.length
        <5>1. o \in 0..FileSize /\ l \in 0..MaxRead /\ o + l \in o..FileSize
          BY <1>7 DEF End
        <5> HIDE DEF o, l
        <5>2. l <= FileSize
          BY <5>1, ReadSizesAssumption
        <5> QED
          BY <5>2 DEF l
      <4>2. Len(got') \in Nat
        BY <1>8, <1>9, <1>10, <3>1
      <4> QED
        BY <1>7, <1>10, <3>1, <4>1, <4>2, ReadSizesAssumption
    <3>2. CASE ~Fits(chunk)
      BY <1>2, <1>3, <3>2 DEF ReadTypeOK
    <3> QED
      BY <3>1, <3>2
  <2>3. ended' \in BOOLEAN /\ cancelled' \in BOOLEAN
    <3>1. CASE Fits(chunk)
      BY <1>2, <1>8, <1>9, <3>1
    <3>2. CASE ~Fits(chunk)
      BY <1>2, <1>8, <3>2
    <3> QED
      BY <3>1, <3>2
  <2> QED
    BY <1>1, <1>3, <1>6, <1>11, <2>1, <2>2, <2>3 DEF ReadTypeOK
<1>14. CallInv'
  <2>1. verdict' = "reading" => ~cancelled'
    <3>1. verdict' = "reading" => cancelled' = cancelled
      BY <1>2
    <3>2. ~cancelled
      BY <1>1, <1>3 DEF CallInv
    <3> QED
      BY <3>1, <3>2
  <2>2. Admitted' /\ verdict' # "none" /\ pc' \notin {"idle", "open"}
    BY <1>1, <1>4, <1>11 DEF Admitted
  <2>3. /\ size' # -1 => size' = SizeOf(request'.entry)
        /\ pc' = "wait" => request'.entry[2] = "blocking"
        /\ pc' = "resend" => IsFault(request', "duplicate")
        /\ status' = "NotFound" => request'.entry \notin Files \cup Directories
        /\ status' = "FailedPrecondition" =>
             request'.revision # "v1" \/ request'.entry[2] = "revision-conflict"
        /\ status' = "InvalidArgument" => request'.revision = "" \/ ~InRange(request')
    BY <1>1, <1>3 DEF CallInv
  <2> QED
    BY <1>11, <2>1, <2>2, <2>3 DEF CallInv
<1>15. BytesInv'
  <2>1. \A k \in DOMAIN stream' :
          stream'[k].data
            = Book(stream'[k].offset, stream'[k].offset + Len(stream'[k].data))
    <3>1. \A k \in DOMAIN stream :
            stream[k].data = Book(stream[k].offset, stream[k].offset + Len(stream[k].data))
      BY <1>3 DEF BytesInv
    <3> QED
      BY <1>s, <3>1
  <2>2. pc' \in {"send", "resend"} =>
          offset' \in request'.offset..End' /\ (request'.length > 0 => offset' < End')
    BY <1>1, <1>3 DEF BytesInv, End
  <2>3. got' = Book(request'.offset, Taken') /\ (got' # << >> => Len(got') <= request'.length)
    <3>1. CASE Fits(chunk)
      BY <1>1, <1>10, <3>1
    <3>2. CASE ~Fits(chunk)
      BY <1>1, <1>2, <1>3, <3>2 DEF BytesInv, Taken
    <3> QED
      BY <3>1, <3>2
  <2> QED
    BY <2>1, <2>2, <2>3 DEF BytesInv
<1>16. FaultInv'
  <2>1. IsFault(request, "blocking") => status # "OK"
    BY <1>3 DEF FaultInv
  <2>2. ASSUME IsFault(request, "short")
        PROVE  /\ \A k \in DOMAIN stream' :
                    stream'[k].eof /\ Len(stream'[k].data) < request.length
               /\ ended' \/ got' = << >>
               /\ Len(got') < request.length
    <3>1. /\ \A k \in DOMAIN stream : stream[k].eof /\ Len(stream[k].data) < request.length
          /\ ended \/ got = << >>
          /\ Len(got) < request.length
      BY <1>3, <2>2 DEF FaultInv
    <3>2. chunk.eof /\ Len(chunk.data) < request.length
      BY <1>6, <3>1
    <3>3. CASE Fits(chunk)
      <4>1. ended' /\ got = << >>
        BY <1>2, <1>10, <3>1, <3>2, <3>3
      <4>2. Len(got') = Len(chunk.data)
        BY <1>9, <1>10, <3>3, <4>1
      <4> QED
        BY <1>s, <3>1, <3>2, <4>1, <4>2
    <3>4. CASE ~Fits(chunk)
      BY <1>2, <1>s, <3>1, <3>4
    <3> QED
      BY <3>3, <3>4
  <2>3. ASSUME IsFault(request, "duplicate"), verdict' = "reading"
        PROVE  /\ \A k \in DOMAIN stream' :
                    stream'[k].offset = request.offset /\ stream'[k].data # << >>
               /\ pc' \in {"send", "resend"} => offset' = request.offset
               /\ pc' = "send" => Chunked' = 0
               /\ pc' = "resend" => Chunked' = 1
               /\ status' = "OK" => Chunked' = 2
    <3>1. /\ \A k \in DOMAIN stream :
                stream[k].offset = request.offset /\ stream[k].data # << >>
          /\ pc \in {"send", "resend"} => offset = request.offset
          /\ pc = "send" => Chunked = 0
          /\ pc = "resend" => Chunked = 1
          /\ status = "OK" => Chunked = 2
      BY <1>1, <1>3, <2>3 DEF FaultInv
    <3>2. chunk.offset = request.offset /\ chunk.data # << >>
      BY <1>6, <3>1
    <3>3. Fits(chunk)
      BY <1>12, <2>3
    <3>4. got = << >>
      <4> DEFINE o == request.offset
                 m == Len(got)
      <4>1. o = o + m /\ o \in Int /\ m \in Nat
        BY <1>7, <1>8, <1>10, <3>2, <3>3, ReadSizesAssumption DEF Taken
      <4> HIDE DEF o, m
      <4>2. m = 0
        BY <4>1
      <4> QED
        BY <1>8, <4>2 DEF m
    <3>5. got' # << >>
      <4>1. got' = << >> \o chunk.data
        BY <1>2, <3>3, <3>4
      <4>2. chunk.data \in UNION {[1..n -> 0..FileSize - 1] : n \in 0..ChunkBytes}
        BY <1>6 DEF Chunks
      <4>3. chunk.data \in Seq(0..FileSize - 1)
        BY <4>2, ReadSizesAssumption
      <4> QED
        BY <3>2, <4>1, <4>3
    <3>6. Chunked' = Chunked
      BY <1>6, <3>4, <3>5 DEF Chunked
    <3> QED
      BY <1>1, <1>s, <3>1, <3>6
  <2> QED
    BY <1>1, <2>1, <2>2, <2>3 DEF FaultInv
<1>17. Honest =>
          /\ chunk.offset = Taken
          /\ chunk.data = Book(Taken, NextOffset(request, Taken))
          /\ chunk.eof = (NextOffset(request, Taken) = End)
          /\ chunk.eof = (pc = "returned" /\ Len(stream) = 1)
          /\ Taken \in request.offset..End
          /\ ended = FALSE
  <2> SUFFICES ASSUME Honest
               PROVE  /\ chunk.offset = Taken
                      /\ chunk.data = Book(Taken, NextOffset(request, Taken))
                      /\ chunk.eof = (NextOffset(request, Taken) = End)
                      /\ chunk.eof = (pc = "returned" /\ Len(stream) = 1)
                      /\ Taken \in request.offset..End
                      /\ ended = FALSE
    OBVIOUS
  <2>1. 1 \in 1..Len(stream)
    BY <1>6
  <2>2. /\ stream[1].offset \in request.offset..End
        /\ stream[1].offset = Follows(1)
        /\ stream[1].data = Book(stream[1].offset, NextOffset(request, stream[1].offset))
        /\ stream[1].eof = (NextOffset(request, stream[1].offset) = End)
        /\ stream[1].eof = (pc = "returned" /\ 1 = Len(stream))
        /\ ended = (pc = "returned" /\ stream = << >>)
    BY <1>1, <1>3, <2>1 DEF HonestInv
  <2>3. Follows(1) = Taken
    BY DEF Follows
  <2>4. ended = FALSE
    BY <1>1, <2>2, Zenon
  <2>5. chunk.eof = (pc = "returned" /\ Len(stream) = 1)
    BY <1>6, <2>2
  <2> QED
    BY <1>6, <2>2, <2>3, <2>4, <2>5
<1> DEFINE next == NextOffset(request, Taken)
<1>18. Honest => /\ Fits(chunk)
                 /\ next \in Taken..End /\ Len(chunk.data) = next - Taken
  <2> SUFFICES ASSUME Honest
               PROVE  Fits(chunk) /\ next \in Taken..End /\ Len(chunk.data) = next - Taken
    OBVIOUS
  <2>1. next \in Taken..End /\ next <= Taken + ChunkBytes
    BY <1>5, <1>17, ChunkEnds DEF End
  <2> HIDE DEF next
  <2>2. Taken \in Int /\ next \in Int /\ Taken <= next
    BY <1>7, <1>17, <2>1
  <2>3. Len(chunk.data) = next - Taken
    <3>1. chunk.data = Book(Taken, next)
      BY <1>17 DEF next
    <3> QED
      BY <2>2, <3>1, BookType
  <2>4. Len(chunk.data) <= ChunkBytes
    BY <2>1, <2>2, <2>3, ReadSizesAssumption
  <2>5. Len(got) + Len(chunk.data) <= request.length
    <3> DEFINE o == request.offset
               l == request.length
               m == Len(got)
    <3>1. o \in Int /\ l \in Int /\ m \in Nat /\ Taken = o + m /\ next <= o + l
      BY <1>7, <1>8, <2>1 DEF Taken, End
    <3> HIDE DEF o, l, m
    <3>2. m + (next - Taken) <= l
      BY <2>2, <3>1
    <3> QED
      BY <2>3, <3>2 DEF l, m
  <2> QED
    BY <1>17, <2>1, <2>3, <2>4, <2>5 DEF Fits, Taken
<1>19. HonestInv'
  <2> SUFFICES ASSUME Honest, verdict' = "reading"
               PROVE  /\ pc' = "returned" => status' = "OK"
                      /\ \A k \in 1..Len(stream') :
                           /\ stream'[k].offset \in request.offset..End
                           /\ stream'[k].offset = Follows(k)'
                           /\ stream'[k].data = Book(stream'[k].offset,
                                                     NextOffset(request, stream'[k].offset))
                           /\ stream'[k].eof = (NextOffset(request, stream'[k].offset) = End)
                           /\ stream'[k].eof = (pc' = "returned" /\ k = Len(stream'))
                      /\ pc' = "send" => offset' = Follows(Len(stream) + 1)'
                      /\ ended' = (pc' = "returned" /\ stream' = << >>)
                      /\ ended' => Len(got') = request.length
    BY <1>1 DEF HonestInv, Honest, End
  <2>1. /\ pc = "returned" => status = "OK"
        /\ \A k \in 1..Len(stream) :
             /\ stream[k].offset \in request.offset..End
             /\ stream[k].offset = Follows(k)
             /\ stream[k].data = Book(stream[k].offset, NextOffset(request, stream[k].offset))
             /\ stream[k].eof = (NextOffset(request, stream[k].offset) = End)
             /\ stream[k].eof = (pc = "returned" /\ k = Len(stream))
        /\ pc = "send" => offset = Follows(Len(stream) + 1)
    BY <1>1, <1>3 DEF HonestInv
  <2>2. Taken' = next
    <3> DEFINE o == request.offset
               m == Len(got)
    <3>1. /\ Len(got') = m + (next - Taken) /\ Taken = o + m
          /\ o \in Int /\ m \in Nat /\ next \in Int
      <4>1. Len(got') = m + (next - Taken)
        BY <1>12, <1>10, <1>18
      <4>2. Taken \in Int
        BY <1>7, <1>17
      <4>3. next \in Int
        <5> HIDE DEF next
        <5> QED
          BY <1>7, <1>18, <4>2
      <4> QED
        BY <1>7, <1>8, <4>1, <4>3 DEF Taken
    <3> HIDE DEF o, m, next
    <3>2. o + Len(got') = next
      BY <3>1
    <3> QED
      BY <1>1, <3>2 DEF Taken, o
  <2>3. ASSUME NEW k \in 1..Len(stream') + 1
        PROVE  Follows(k)' = Follows(k + 1)
    <3>1. CASE k = 1
      <4>1. Follows(1)' = next
        BY <2>2 DEF Follows
      <4>2. Follows(2) = next
        BY <1>6, <1>17 DEF Follows
      <4> QED
        BY <3>1, <4>1, <4>2
    <3>2. CASE k # 1
      <4>1. k - 1 \in 1..Len(stream') /\ stream'[k - 1] = stream[k] /\ k + 1 # 1
            /\ (k + 1) - 1 = k
        BY <1>6, <3>2
      <4> QED
        BY <1>1, <3>2, <4>1 DEF Follows
    <3> QED
      BY <3>1, <3>2
  <2>4. ASSUME NEW k \in 1..Len(stream')
        PROVE  /\ stream'[k].offset \in request.offset..End
               /\ stream'[k].offset = Follows(k)'
               /\ stream'[k].data = Book(stream'[k].offset,
                                         NextOffset(request, stream'[k].offset))
               /\ stream'[k].eof = (NextOffset(request, stream'[k].offset) = End)
               /\ stream'[k].eof = (pc' = "returned" /\ k = Len(stream'))
    <3>1. /\ stream'[k] = stream[k + 1] /\ k + 1 \in 1..Len(stream)
          /\ (k + 1 = Len(stream)) <=> (k = Len(stream'))
      BY <1>6
    <3>2. Follows(k)' = Follows(k + 1)
      BY <1>6, <2>3
    <3>3. stream[k + 1].eof = (pc = "returned" /\ k + 1 = Len(stream))
      BY <2>1, <3>1
    <3>4. stream[k + 1].eof = (pc' = "returned" /\ k = Len(stream'))
      BY <1>1, <3>1, <3>3
    <3> QED
      BY <2>1, <3>1, <3>2, <3>4
  <2>5. pc' = "send" => offset' = Follows(Len(stream) + 1)'
    <3>1. Len(stream') + 1 \in 1..Len(stream') + 1 /\ (Len(stream') + 1) + 1 = Len(stream) + 1
      BY <1>6
    <3> QED
      BY <1>1, <2>1, <2>3, <3>1
  <2>6. ended' = (pc' = "returned" /\ stream' = << >>)
    <3>1. ended' = (pc = "returned" /\ Len(stream) = 1)
      BY <1>2, <1>12, <1>17
    <3>2. (Len(stream) = 1) <=> (stream' = << >>)
      BY <1>6
    <3> QED
      BY <1>1, <3>1, <3>2
  <2>7. ended' => Len(got') = request.length
    <3> SUFFICES ASSUME ended' PROVE Len(got') = request.length
      OBVIOUS
    <3>1. Taken' = End
      BY <1>2, <1>12, <1>17, <2>2
    <3> DEFINE o == request.offset
               l == request.length
               m == Len(got')
    <3>2. o + m = o + l /\ o \in Int /\ l \in Int /\ m \in Int
      BY <1>1, <1>7, <1>8, <1>9, <1>10, <1>12, <3>1 DEF Taken, End
    <3> HIDE DEF o, l, m
    <3>3. m = l
      BY <3>2
    <3> QED
      BY <3>3 DEF l, m
  <2> QED
    BY <1>1, <2>1, <2>4, <2>5, <2>6, <2>7
<1>20. VerdictInv'
  BY <1>1, <1>2, <1>18 DEF VerdictInv, Honest
<1> QED
  BY <1>13, <1>14, <1>15, <1>16, <1>19, <1>20 DEF ReadInv

LEMMA ReadStepInv ==
    ASSUME ReadInv, [ReadNext]_reading
    PROVE  ReadInv'
<1>1. CASE UNCHANGED reading
  <2>1. /\ request' = request /\ size' = size /\ stream' = stream /\ cancelled' = cancelled
        /\ pc' = pc /\ offset' = offset /\ status' = status
        /\ got' = got /\ ended' = ended /\ verdict' = verdict
    BY <1>1 DEF reading, handler, host
  <2>2. ReadTypeOK'
    BY <2>1 DEF ReadInv, ReadTypeOK
  <2>6. CallInv'
    BY <2>1 DEF ReadInv, CallInv, Admitted
  <2>7. BytesInv'
    BY <2>1 DEF ReadInv, BytesInv, Taken, End
  <2>3. FaultInv'
    BY <2>1 DEF ReadInv, FaultInv, Chunked
  <2>4. HonestInv'
    BY <2>1 DEF ReadInv, HonestInv, Honest, Follows, Taken, End
  <2>5. VerdictInv'
    BY <2>1 DEF ReadInv, VerdictInv, Honest
  <2> QED
    BY <2>2, <2>3, <2>4, <2>5, <2>6, <2>7 DEF ReadInv
<1>2. CASE \E r \in Requests : AskStat(r) \/ AskRead(r)
  BY <1>2, AskInv
<1>3. CASE Open
  <2>1. pc = "open" /\ UNCHANGED <<request, size, cancelled, host>>
    BY <1>3 DEF Open
  <2>2. CASE Admit(request) = "OK"
    BY <1>3, <2>1, <2>2, BeginInv DEF Open
  <2>3. CASE Admit(request) # "OK"
    <3>1. Return(Admit(request))
      BY <1>3, <2>3 DEF Open
    <3>2. cancelled \in BOOLEAN
      BY DEF ReadInv, ReadTypeOK
    <3>3. /\ Admit(request) \in Codes \ {"OK"}
          /\ Admit(request) = "Canceled" => cancelled
      BY <2>3, <3>2, AdmitAnswers
    <3> QED
      BY <2>1, <3>1, <3>3, ReturnInv
  <2> QED
    BY <2>2, <2>3
<1>4. CASE SendFails \/ Wait
  <2>1. /\ pc \in {"send", "resend", "wait"} /\ cancelled /\ Return("Canceled")
        /\ UNCHANGED <<request, size, cancelled, host>>
    BY <1>4 DEF SendFails, Wait
  <2>2. "Canceled" \in Codes \ {"OK"}
    BY DEF Codes
  <2> QED
    BY <2>1, <2>2, ReturnInv
<1> QED
  BY <1>1, <1>2, <1>3, <1>4, SendChunkInv, ResendInv, ReceiveInv, FinishInv, CancelInv
  DEF ReadNext, Handler

LEMMA SpecKeepsReading ==
    /\ Init => ReadInit
    /\ [Next]_vars => [ReadNext]_reading
  BY DEF Init, Next, Use, vars

LEMMA ReadInvariant == Spec => []ReadInv
  BY ReadInitInv, ReadStepInv, SpecKeepsReading, PTL DEF Spec

-----------------------------------------------------------------------------

\* Listings and reads are well-formed: pages, cursors and chunks within their
\* bounds, a stream never over its window.
THEOREM TypeCorrect == Spec => []TypeOK
<1>1. ListInv /\ ReadInv => TypeOK
  BY DEF ListInv, ReadInv, TypeOK
<1> QED
  BY <1>1, ListInvariant, ReadInvariant, PTL

\* A read the host takes for good is exactly the range it asked for.
THEOREM ReadsAreExact == Spec => []Exact
<1>1. ReadInv => Exact
  <2> SUFFICES ASSUME ReadInv, verdict = "accepted"
               PROVE  got = Range(request) /\ request.revision = "v1"
    BY DEF Exact
  <2>1. status = "OK" /\ Len(got) = request.length
    BY DEF ReadInv, VerdictInv
  <2>2. Admitted
    BY <2>1 DEF ReadInv, CallInv
  <2>3. got = Book(request.offset, request.offset + Len(got))
    BY DEF ReadInv, BytesInv, Taken
  <2> QED
    BY <2>1, <2>2, <2>3 DEF Range, Admitted
<1> QED
  BY <1>1, ReadInvariant, PTL

\* No injected fault passes for a good read.
THEOREM FaultsAreCaught == Spec => []FaultsCaught
<1>1. ReadInv => FaultsCaught
  BY DEF ReadInv, VerdictInv, FaultsCaught
<1> QED
  BY <1>1, ReadInvariant, PTL

\* An honest read is not turned down.
THEOREM HonestReadsPass == Spec => []HonestAccepted
<1>1. ReadInv => HonestAccepted
  <2> SUFFICES ASSUME ReadInv, verdict = "rejected",
                      request.entry \in Files, request.entry[2] \notin Faults,
                      request.revision = "v1",
                      {request.offset, request.offset + request.length} \subseteq 0..FileSize,
                      request.length \in 0..MaxRead
               PROVE  FALSE
    BY DEF HonestAccepted
  <2>1. InRange(request)
    <3> DEFINE o == request.offset
               l == request.length
    <3>1. o \in 0..FileSize /\ o + l \in 0..FileSize /\ l \in 0..MaxRead
      OBVIOUS
    <3> HIDE DEF o, l
    <3>2. 0 <= o /\ o <= FileSize /\ 0 <= l /\ l <= MaxRead /\ l <= FileSize - o
      BY <3>1, ReadSizesAssumption
    <3> QED
      BY <3>2 DEF InRange, o, l
  <2> QED
    BY <2>1 DEF ReadInv, VerdictInv, Honest
<1> QED
  BY <1>1, ReadInvariant, PTL

\* What a listing named is there to read, in every range of its size.
THEOREM ListedIsReadable == Spec => []ListedReadable
<1>1. ListInv /\ ReadInv => ListedReadable
  <2> SUFFICES ASSUME ListInv, ReadInv,
                      pc = "returned", request.entry \in ListedEntries,
                      request.revision = "v1"
               PROVE  /\ status \notin {"NotFound", "FailedPrecondition"}
                      /\ status = "InvalidArgument" =>
                           \/ KnownSize = 0 \/ request.length > MaxRead
                           \/ ~ ({request.offset, request.offset + request.length}
                                   \subseteq 0..KnownSize)
                           \/ request.length < 0
    BY DEF ListedReadable
  <2>1. /\ request.entry \in Files \cup Directories
        /\ request.entry[2] # "revision-conflict"
    <3>1. PICK j \in DOMAIN listed : request.entry = Entry(directory, listed[j])
      BY DEF ListedEntries
    <3>2. /\ directory \in DOMAIN Listed /\ Listed[directory] \in 0..Entries
          /\ listed[j] \in 0..Listed[directory] - 1
      <4>1. /\ Len(listed) \in Nat /\ j \in 1..Len(listed) /\ listed = Book(0, Len(listed))
            /\ Len(listed) <= IF directory \in DOMAIN Listed THEN Listed[directory] ELSE 0
        BY DEF ListInv, ListTypeOK
      <4>2. directory \in DOMAIN Listed /\ Listed[directory] \in 0..Entries
        BY <4>1, ListedSizes
      <4>3. listed[j] = j - 1
        BY <4>1 DEF Book
      <4> QED
        BY <4>1, <4>2, <4>3, ListSizesAssumption
    <3> DEFINE i == listed[j]
               s == directory[1]
    <3>3. CASE s \in Scale
      <4>1. i \in 0..Entries - 1
        BY <3>2, <3>3, ListedSizes DEF Scale
      <4>2. Entry(directory, i) = <<s, "book", i>>
        BY <3>3, Zenon DEF Entry
      <4> HIDE DEF i, s
      <4>3. <<s, "book", i>> \in Files
        BY <3>3, <4>1 DEF Files, Books
      <4> QED
        BY <3>1, <4>2, <4>3 DEF i
    <3>4. CASE s \notin Scale
      <4>1. Entry(directory, i) = <<s, IF i = 0 THEN "book" ELSE "chapters">>
        BY <3>4, Zenon DEF Entry
      <4>2. s = "fixture"
        BY <3>2, <3>4, ListedSizes DEF Scale
      <4> HIDE DEF i, s
      <4>3. <<"fixture", "book">> \in Files /\ <<"fixture", "chapters">> \in Directories
        BY DEF Files, Directories
      <4>4. request.entry \in {<<"fixture", "book">>, <<"fixture", "chapters">>}
        BY <3>1, <4>1, <4>2 DEF i
      <4> QED
        BY <4>3, <4>4
    <3> QED
      BY <3>3, <3>4
  <2>2. KnownSize = SizeOf(request.entry)
    BY DEF ReadInv, CallInv, KnownSize
  <2>3. status \notin {"NotFound", "FailedPrecondition"}
    BY <2>1 DEF ReadInv, CallInv
  <2>4. ASSUME status = "InvalidArgument", KnownSize # 0,
               ~ (request.length > MaxRead), ~ (request.length < 0),
               {request.offset, request.offset + request.length} \subseteq 0..KnownSize
        PROVE  FALSE
    <3>1. ~InRange(request)
      BY <2>4 DEF ReadInv, CallInv
    <3>2. request.entry \in Files /\ KnownSize = FileSize
      BY <2>2, <2>4 DEF SizeOf
    <3> DEFINE o == request.offset
               l == request.length
    <3>3. o \in 0..FileSize /\ o + l \in 0..FileSize
      BY <2>4, <3>2
    <3>4. ~ (l > MaxRead) /\ ~ (l < 0) /\ l \in Int
      BY <2>4, RequestFields DEF ReadInv, ReadTypeOK
    <3> HIDE DEF o, l
    <3>5. 0 <= o /\ o <= FileSize /\ 0 <= l /\ l <= MaxRead /\ l <= FileSize - o
      BY <3>3, <3>4, ReadSizesAssumption
    <3> QED
      BY <3>1, <3>2, <3>5 DEF InRange, o, l
  <2> QED
    BY <2>3, <2>4
<1> QED
  BY <1>1, ListInvariant, ReadInvariant, PTL
=============================================================================
