--------------------------- MODULE StorageProvider --------------------------
(***************************************************************************)
(* The storage provider fixture as a host uses it: it lists a source, and  *)
(* then asks for the entries of that source, those it was listed and       *)
(* others, under the revision of the listing and others.                   *)
(***************************************************************************)
EXTENDS StorageRead

vars == <<listing, reading>>

\* One invariant for the types of both.
TypeOK == ListTypeOK /\ ReadTypeOK

Init == ListInit /\ ReadInit

\* The host asks nothing of a source other than the one it listed.
Use ==
    /\ outcome # "listing" /\ directory[2] = "root"
    /\ ReadNext
    /\ request' # request => request'.entry[1] = directory[1]
    /\ UNCHANGED listing

Next ==
    \/ ListNext /\ UNCHANGED reading
    \/ Use

Spec == Init /\ [][Next]_vars

\* The handler's goroutine runs; the host reads the stream it opened, and a
\* call that the handler does not end is ended by its deadline.
FairSpec ==
    /\ Spec
    /\ WF_vars(Handler /\ UNCHANGED listing)
    /\ WF_vars((Receive \/ Finish) /\ UNCHANGED listing)
    /\ WF_vars(Cancel /\ UNCHANGED listing)

-----------------------------------------------------------------------------

\* The entry at a position of a directory.
Entry(d, i) ==
    CASE d[1] \in Scale -> <<d[1], "book", i>>
      [] OTHER -> <<d[1], IF i = 0 THEN "book" ELSE "chapters">>

ListedEntries == {Entry(directory, listed[j]) : j \in DOMAIN listed}

\* The size the host goes by: Stat's, or else the listing's (a page's entries
\* come from p.entry, like Stat's answer).
KnownSize == IF size # -1 THEN size ELSE SizeOf(request.entry)

\* docs/storage-provider.md:315-322 and p.entry: what a listing named can be
\* read under its revision, in every range of its size that is no longer than
\* the largest read: the last entries of the namespace included, and those of
\* a listing that failed later.
ListedReadable ==
    /\ pc = "returned" /\ request.entry \in ListedEntries
    /\ request.revision = "v1"
    => /\ status \notin {"NotFound", "FailedPrecondition"}
       /\ status = "InvalidArgument" =>
            \/ KnownSize = 0 \/ request.length > MaxRead
            \/ ~ ({request.offset, request.offset + request.length} \subseteq 0..KnownSize)
            \/ request.length < 0
=============================================================================
