----------------------------- MODULE StorageList ----------------------------
(***************************************************************************)
(* List of the storage provider fixture (examples/hello-storage): pages    *)
(* bounded by the provider, cursors the caller sends back, an injected     *)
(* failure after the first page; and a host that lists a directory page by *)
(* page, with a page size of its choice each time, and may return to an    *)
(* older cursor.                                                           *)
(*                                                                         *)
(* An entry is its position in the directory; a cursor is the position it  *)
(* spells, None the empty string and Garbage a string Atoi refuses.        *)
(***************************************************************************)
EXTENDS Integers, Sequences

CONSTANTS
    Entries,        \* entries of the "scale" namespace, 2_000_000 in the code
    PageCap,        \* 512
    MaxAsked,       \* bound: the largest max_entries the host sends
    MaxReplays      \* bound: times the host restarts from an older cursor

\* The namespace is not smaller than the largest of the other directories.
ASSUME ListSizesAssumption ==
    /\ {Entries, MaxAsked, MaxReplays} \subseteq Nat /\ Entries >= 2
    /\ PageCap \in Nat \ {0}

None == -1
Garbage == -2

VARIABLES
    directory,      \* what the host lists: <<source, directory id>>
    listed,         \* the entries of the pages it took, in order
    cursors,        \* the cursors it has sent
    cursor,         \* the cursor it sends next
    outcome,        \* "listing", or how the listing ended
    replays

listing == <<directory, listed, cursors, cursor, outcome, replays>>

Listed ==   \* directories and the number of their entries
    [d \in {<<"fixture", "root">>, <<"fixture", "chapters">>,
            <<"scale", "root">>, <<"scale-failure", "root">>} |->
        CASE d = <<"fixture", "root">>     -> 2
          [] d = <<"fixture", "chapters">> -> 0
          [] OTHER                         -> Entries]

NotFound == {<<"missing", "root">>, <<"fixture", "missing">>, <<"scale", "chapters">>}
NotDirectory == {<<"fixture", "book">>}

Smaller(a, b) == IF a < b THEN a ELSE b

-----------------------------------------------------------------------------
(* The provider, which keeps no state between calls.                       *)

\* Mutation: the caller's page size is not bounded.
LimitUncapped(asked) == IF asked = 0 THEN PageCap ELSE asked

Limit(asked) == IF asked = 0 \/ asked > PageCap THEN PageCap ELSE asked

\* Where a page starts; the cursor must spell a position of the directory.
Start(c) == IF c = None THEN 0 ELSE c

ValidCursor(d, c) == c = None \/ c \in 0..Listed[d]

Error(code) == [code |-> code]

\* Mutation: a short last page is dropped.
PageWholeOnly(d, c, asked) ==
    LET end == Start(c) + Limit(asked)
    IN  [code |-> "OK",
         entries |-> IF end > Listed[d] THEN << >>
                     ELSE [i \in 1..Limit(asked) |-> Start(c) + i - 1],
         complete |-> end >= Listed[d],
         next |-> IF end >= Listed[d] THEN None ELSE end]

\* Mutation: the last page is not cut at the end of the directory.
PageUncut(d, c, asked) ==
    LET end == Start(c) + Limit(asked)
    IN  [code |-> "OK", entries |-> [i \in 1..(end - Start(c)) |-> Start(c) + i - 1],
         complete |-> end >= Listed[d],
         next |-> IF end >= Listed[d] THEN None ELSE end]

\* A page of at most Limit(asked) entries, and the cursor after it.
Page(d, c, asked) ==
    LET end == Smaller(Start(c) + Limit(asked), Listed[d])
    IN  [code |-> "OK", entries |-> [i \in 1..(end - Start(c)) |-> Start(c) + i - 1],
         complete |-> end = Listed[d],
         next |-> IF end = Listed[d] THEN None ELSE end]

\* Mutation: the failing source serves the page at its failure's position.
ListFailsLate(d, c, asked) ==
    CASE d \in NotFound -> Error("NotFound")
      [] d \in NotDirectory -> Error("InvalidArgument")
      [] d \in DOMAIN Listed /\ ~ValidCursor(d, c) -> Error("InvalidArgument")
      [] d[1] = "scale-failure" /\ ValidCursor(d, c) /\ Start(c) > PageCap
            -> Error("Unavailable")
      [] OTHER -> Page(d, c, asked)

\* List and listScale, which check in different orders.
List(d, c, asked) ==
    CASE d \in NotFound -> Error("NotFound")
      [] d \in NotDirectory -> Error("InvalidArgument")
      [] d \in DOMAIN Listed /\ ~ValidCursor(d, c) -> Error("InvalidArgument")
      [] d[1] = "scale-failure" /\ ValidCursor(d, c) /\ Start(c) >= PageCap
            -> Error("Unavailable")
      [] OTHER -> Page(d, c, asked)

-----------------------------------------------------------------------------
(* The host.                                                               *)

Cursors == {None, Garbage} \cup 0..Entries + 1

ListTypeOK ==
    /\ directory \in DOMAIN Listed \cup NotFound \cup NotDirectory
    /\ listed \in Seq(Nat)
    /\ Len(listed) <= IF directory \in DOMAIN Listed THEN Listed[directory] ELSE 0
    /\ cursors \subseteq Cursors
    /\ cursor \in Cursors
    /\ outcome \in {"listing", "complete", "NotFound", "InvalidArgument", "Unavailable"}
    /\ replays \in 0..MaxReplays

\* A listing starts at the start, or with a cursor from somewhere else.
ListInit ==
    /\ directory \in DOMAIN Listed \cup NotFound \cup NotDirectory
    /\ listed = << >> /\ cursors = {}
    /\ cursor \in {None, Garbage, Entries + 1}
    /\ outcome = "listing"
    /\ replays = 0

\* A call whose answer the host takes; the cursors are forgotten at the end.
NextPage(asked) ==
    /\ outcome = "listing"
    /\ LET page == List(directory, cursor, asked)
       IN  \/ /\ page.code = "OK"
              /\ listed' = listed \o page.entries
              /\ cursor' = page.next
              /\ outcome' = IF page.complete THEN "complete" ELSE "listing"
           \/ /\ page.code # "OK"
              /\ outcome' = page.code
              /\ UNCHANGED listed /\ cursor' = None
    /\ IF outcome' = "listing"
         THEN cursors' = cursors \cup {cursor} /\ UNCHANGED replays
         ELSE cursors' = {} /\ replays' = 0
    /\ UNCHANGED directory

\* The host forgets the pages from a cursor on and lists them again.
Resume(c) ==
    /\ outcome = "listing" /\ replays < MaxReplays
    /\ Start(c) <= Len(listed)
    /\ replays' = replays + 1
    /\ cursor' = c
    /\ listed' = SubSeq(listed, 1, Start(c))
    /\ UNCHANGED <<directory, cursors, outcome>>

ListNext ==
    \/ \E asked \in 0..MaxAsked : NextPage(asked)
    \/ \E c \in cursors : Resume(c)

-----------------------------------------------------------------------------
(* Properties.                                                             *)

\* storage_provider.proto:13 and docs/storage-provider.md:322: whatever page
\* sizes the host asked for, the pages of a complete listing hold every entry
\* of the directory once, in order.
CompleteIsWhole ==
    outcome = "complete" =>
        listed = [i \in 1..Listed[directory] |-> i - 1]

\* storage_provider.proto:13: the cursor of a page lies past every cursor
\* before it, by no more than the largest page.
CursorsAdvance ==
    [][\/ replays' # replays
       \/ cursor' \in Start(cursor) + 1 .. Start(cursor) + PageCap
       \/ outcome' # "listing"]_listing

\* examples/hello-storage/README.md:29-30: the failing source serves a page
\* only below its failure's position and is never taken for listed; no other
\* source is unavailable.
OnlyInjectedFailures ==
    /\ directory[1] = "scale-failure" /\ Entries >= 2 * PageCap =>
         outcome # "complete" /\ Len(listed) < 2 * PageCap
    /\ outcome = "Unavailable" => directory[1] = "scale-failure" /\ listed # << >>

=============================================================================
