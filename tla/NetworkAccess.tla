---------------------------- MODULE NetworkAccess ----------------------------
(***************************************************************************)
(* The resident network access provider of examples/hello-network-access:  *)
(* Connect, Disconnect and GetStatus under one mutex, the desired_connected *)
(* intent it keeps in the host's instance state, restarts of its process   *)
(* between any two steps, and host calls that fail, fail to answer, or are *)
(* applied long after their caller gave them up.                           *)
(*                                                                         *)
(* p.mu serialises the handlers, so one program counter and one operation  *)
(* stand for all of them; the callers that wait for p.mu are the calls     *)
(* still to come.                                                          *)
(***************************************************************************)
EXTENDS Naturals

CONSTANT MaxRestarts   \* bound: how often the host restarts the process

ASSUME MaxRestartsAssumption == MaxRestarts \in Nat

VARIABLES
    stored,      \* the host's instance state under desired_connected
    adrift,      \* writes given up that the host may still apply
    bound,       \* sdkruntime.Host() # nil
    connected, desired, restored,   \* the provider's fields
    hostInfo,    \* p.hostInfo # nil
    op,          \* the operation whose handler holds p.mu
    pc,          \* where that handler is
    host,        \* its local host # nil
    reply,       \* the last answer: to which operation, and what it said
    \* what the admin and the process may conclude:
    acked,       \* the intent of the last Connect or Disconnect that was
                 \* acknowledged over a live host handle
    since,       \* intents whose writes were begun since, or adrift then
    apart,       \* this process's last write failed or was skipped, or a late
                 \* one overtook it
    restarts

fields == <<connected, desired, restored, hostInfo>>
server == <<stored, adrift>>
ghosts == <<acked, since, apart>>
vars == <<server, bound, fields, op, pc, host, reply, ghosts, restarts>>

Operations == {"Connect", "Disconnect", "GetStatus"}
Locations == {"idle", "restore", "read", "restoreInfo", "host", "info",
              "write", "report", "reply"}
Stored == {"none", "0", "1"}

Replies ==
    [op : {"none"}] \cup
    [op : Operations, ok : {FALSE}] \cup
    [op : Operations, ok : {TRUE}, desired : BOOLEAN, connected : BOOLEAN,
     listeners : BOOLEAN]

TypeOK ==
    /\ stored \in Stored
    /\ adrift \subseteq Stored
    /\ bound \in BOOLEAN
    /\ connected \in BOOLEAN /\ desired \in BOOLEAN
    /\ restored \in BOOLEAN /\ hostInfo \in BOOLEAN
    /\ op \in Operations \cup {"none"}
    /\ pc \in Locations
    /\ host \in BOOLEAN
    /\ reply \in Replies
    /\ acked \in Stored
    /\ since \subseteq Stored
    /\ apart \in BOOLEAN
    /\ restarts \in 0..MaxRestarts

Init ==
    /\ stored = "none" /\ adrift = {}
    /\ bound = FALSE
    /\ connected = FALSE /\ desired = FALSE
    /\ restored = FALSE /\ hostInfo = FALSE
    /\ op = "none"
    /\ pc = "idle"
    /\ host = FALSE
    /\ reply = [op |-> "none"]
    /\ acked = "none"
    /\ since = {}
    /\ apart = FALSE
    /\ restarts = 0

\* Mutation: the flag is spelled as strconv spells it.
WantedSpelled == IF desired THEN "true" ELSE "false"

Wanted == IF desired THEN "1" ELSE "0"

-----------------------------------------------------------------------------
(* The host and the process.                                               *)

\* BindHostBroker succeeds: Host() returns the client from now on.
Bind ==
    /\ ~bound
    /\ bound' = TRUE
    /\ UNCHANGED <<server, fields, op, pc, host, reply, ghosts, restarts>>

\* The process exits and the host starts it again; a call in flight fails,
\* and a write in flight may still arrive.
Restart ==
    /\ restarts < MaxRestarts
    /\ restarts' = restarts + 1
    /\ bound' = FALSE
    /\ connected' = FALSE /\ desired' = FALSE
    /\ restored' = FALSE /\ hostInfo' = FALSE
    /\ op' = "none"
    /\ pc' = "idle"
    /\ host' = FALSE
    /\ reply' = IF op = "none" THEN reply ELSE [op |-> op, ok |-> FALSE]
    /\ IF pc = "write" /\ host
       THEN /\ adrift' \in {adrift, adrift \cup {Wanted}}
            /\ since' = since \cup {Wanted}
       ELSE UNCHANGED <<adrift, since>>
    /\ apart' = FALSE
    /\ UNCHANGED <<stored, acked>>

\* A write that was given up arrives.  (It stays: two may have been.)
LateWrite ==
    /\ stored' \in adrift
    /\ apart' = (apart \/ restored \/ desired)
    /\ UNCHANGED <<adrift, bound, fields, op, pc, host, reply, acked, since,
                   restarts>>

\* A handler gets p.mu.
Call(o) ==
    /\ pc = "idle"
    /\ op' = o
    /\ pc' = "restore"
    /\ UNCHANGED <<server, bound, fields, host, reply, ghosts, restarts>>

-----------------------------------------------------------------------------
(* restoreLocked.                                                          *)

RestoreSkip ==
    /\ pc = "restore"
    /\ restored \/ ~bound
    /\ pc' = "host"
    /\ UNCHANGED <<server, bound, fields, op, host, reply, ghosts, restarts>>

RestoreStart ==
    /\ pc = "restore"
    /\ ~restored /\ bound
    /\ pc' = "read"
    /\ UNCHANGED <<server, bound, fields, op, host, reply, ghosts, restarts>>

\* Mutation: the flag is set before the read is known to have succeeded.
ReadFailsForGood ==
    /\ pc = "read"
    /\ restored' = TRUE
    /\ pc' = "host"
    /\ UNCHANGED <<server, bound, connected, desired, hostInfo, op, host,
                   reply, ghosts, restarts>>

\* The read fails: the next operation tries again.
ReadFails ==
    /\ pc = "read"
    /\ pc' = "host"
    /\ UNCHANGED <<server, bound, fields, op, host, reply, ghosts, restarts>>

\* Mutation: the intent is restored and nothing is connected.
ReadIntentOnly ==
    /\ pc = "read"
    /\ restored' = TRUE
    /\ desired' = (desired \/ stored = "1")
    /\ pc' = IF stored = "1" THEN "restoreInfo" ELSE "host"
    /\ UNCHANGED <<server, bound, connected, hostInfo, op, host, reply, ghosts,
                   restarts>>

\* The read succeeds: a stored "1" brings the overlay up again.
Read ==
    /\ pc = "read"
    /\ restored' = TRUE
    /\ IF stored = "1"
       THEN /\ desired' = TRUE /\ connected' = TRUE
            /\ pc' = "restoreInfo"
       ELSE /\ UNCHANGED <<desired, connected>>
            /\ pc' = "host"
    /\ UNCHANGED <<server, bound, hostInfo, op, host, reply, ghosts, restarts>>

\* GetHostInfo after a restore: its error is ignored.
RestoreInfo ==
    /\ pc = "restoreInfo"
    /\ hostInfo' \in {hostInfo, TRUE}
    /\ pc' = "host"
    /\ UNCHANGED <<server, bound, connected, desired, restored, op, host, reply,
                   ghosts, restarts>>

-----------------------------------------------------------------------------
(* Connect, Disconnect and GetStatus after restoreLocked.                  *)

Status ==
    [op |-> op, ok |-> TRUE, desired |-> desired, connected |-> connected,
     listeners |-> connected /\ hostInfo]

GetStatus ==
    /\ pc = "host" /\ op = "GetStatus"
    /\ pc' = "reply"
    /\ UNCHANGED <<server, bound, fields, op, host, reply, ghosts, restarts>>

\* Disconnect, and Connect on a nil host, go straight to persistLocked.
SetFields(want) ==
    /\ connected' = want /\ desired' = want
    /\ pc' = "write"

Disconnect ==
    /\ pc = "host" /\ op = "Disconnect"
    /\ host' = bound
    /\ SetFields(FALSE)
    /\ UNCHANGED <<server, bound, restored, hostInfo, op, reply, ghosts, restarts>>

Connect ==
    /\ pc = "host" /\ op = "Connect"
    /\ host' = bound
    /\ IF bound
       THEN pc' = "info" /\ UNCHANGED <<connected, desired>>
       ELSE SetFields(TRUE)
    /\ UNCHANGED <<server, bound, restored, hostInfo, op, reply, ghosts, restarts>>

ConnectInfo ==
    /\ pc = "info"
    /\ hostInfo' = TRUE
    /\ SetFields(TRUE)
    /\ UNCHANGED <<server, bound, restored, op, host, reply, ghosts, restarts>>

Fail ==
    /\ reply' = [op |-> op, ok |-> FALSE]
    /\ pc' = "idle"
    /\ op' = "none"
    /\ host' = FALSE

\* "get host info" fails: Connect gives up before it changed anything.
ConnectInfoFails ==
    /\ pc = "info"
    /\ Fail
    /\ UNCHANGED <<server, bound, fields, ghosts, restarts>>

-----------------------------------------------------------------------------
(* persistLocked and reportLocked.                                         *)

WriteSkip ==
    /\ pc = "write" /\ ~host
    /\ pc' = "reply"
    /\ apart' = TRUE
    /\ UNCHANGED <<server, bound, fields, op, host, reply, acked, since, restarts>>

Write ==
    /\ pc = "write" /\ host
    /\ stored' = Wanted
    /\ pc' = "report"
    /\ since' = since \cup {Wanted}
    /\ apart' = FALSE
    /\ UNCHANGED <<adrift, bound, fields, op, host, reply, acked, restarts>>

\* A failed write was refused, was applied and its answer lost, or was given up.
WriteLost ==
    /\ pc = "write" /\ host
    /\ \/ stored' \in {stored, Wanted} /\ UNCHANGED adrift
       \/ adrift' = adrift \cup {Wanted} /\ UNCHANGED stored
    /\ since' = since \cup {Wanted}
    /\ apart' = TRUE

\* Mutation: a failed write is logged like a failed report.
WriteFailsLogged ==
    /\ WriteLost
    /\ pc' = "report"
    /\ UNCHANGED <<bound, fields, op, host, reply, acked, restarts>>

\* WriteInstanceState returns an error, and the caller is told.
WriteFails ==
    /\ WriteLost
    /\ Fail
    /\ UNCHANGED <<bound, fields, acked, restarts>>

\* ReportNetworkAccessStatus; a failure is logged.
Report ==
    /\ pc = "report"
    /\ pc' = "reply"
    /\ UNCHANGED <<server, bound, fields, op, host, reply, ghosts, restarts>>

Reply ==
    /\ pc = "reply"
    /\ reply' = Status
    /\ IF host THEN acked' = Wanted /\ since' = adrift
               ELSE UNCHANGED <<acked, since>>
    /\ pc' = "idle"
    /\ op' = "none"
    /\ host' = FALSE
    /\ UNCHANGED <<server, bound, fields, apart, restarts>>

-----------------------------------------------------------------------------

Restore == RestoreSkip \/ RestoreStart \/ ReadFails \/ Read \/ RestoreInfo

Handler ==
    \/ Restore
    \/ GetStatus \/ Disconnect \/ Connect \/ ConnectInfo \/ ConnectInfoFails
    \/ WriteSkip \/ Write \/ WriteFails \/ Report \/ Reply

Next ==
    \/ Bind
    \/ Restart
    \/ LateWrite
    \/ \E o \in Operations : Call(o)
    \/ Handler

Spec == Init /\ [][Next]_vars

\* A handler that runs goes on, the host binds a process it started, and a
\* read that is tried again and again succeeds once.  Nobody need call.
Fairness ==
    /\ WF_vars(Bind)
    /\ WF_vars(Handler)
    /\ SF_vars(Read)

FairSpec == Spec /\ Fairness

-----------------------------------------------------------------------------
(* Properties.                                                             *)

\* What the host stores is the intent of the last Connect or Disconnect it
\* acknowledged over a live handle, or of one begun since whose caller was told
\* that it failed (or lost it with the process), or of a write that was still
\* adrift when it was acknowledged: across restarts, lost answers, failed
\* calls and late writes no other intent is ever restored (main.go:118-120,
\* "the admin must know the intent did not survive").
AckedIntentDurable == stored \in {acked} \cup since

\* Once restored, a process's own idea of the intent is the stored one, until
\* its write fails or is overtaken by a late one: a transient read error never
\* turns the stored intent into "disconnected" for good (main.go:102-107).
RestoredMatchesStore ==
    pc = "idle" /\ restored /\ ~apart => (desired <=> stored = "1")

\* The host calls each process until one of its reads was tried.
CalledUntilRestored == []<>(restored \/ pc = "read")

\* A stored intent is resumed after every restart (main.go:90-92), unless an
\* operation of the new process or a late write overtakes it, in processes
\* that are called: restoreLocked runs inside the RPCs alone (main.go:93), so a
\* process that nobody calls stays disconnected.
IntentResumed ==
    CalledUntilRestored =>
        (stored = "1" /\ ~apart ~> connected \/ stored # "1" \/ apart)

\* "A failure is returned to the RPC caller: the admin must know the intent
\* did not survive" (main.go:118-120), of every acknowledged operation, those
\* on a nil host included.
EveryAckedIntentStored ==
    /\ pc = "idle" /\ adrift = {}
    /\ reply.op \in {"Connect", "Disconnect"} /\ reply.ok
    => (reply.desired <=> stored = "1")
=============================================================================
