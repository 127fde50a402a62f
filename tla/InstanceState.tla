---------------------------- MODULE InstanceState ---------------------------
(***************************************************************************)
(* The instance state store of pkg/pluginsdk/runtimehost: ReadState and    *)
(* WriteState (tailscale's ipn.StateStore) over RPCs with a deadline,      *)
(* called by the goroutines of a plugin, and the host's table of values.   *)
(* A call may fail, be applied and not answered in time, or be applied     *)
(* long after its caller gave it up.                                       *)
(*                                                                         *)
(* Keys and values are their lengths in bytes: 0 is the empty one.         *)
(***************************************************************************)
EXTENDS Integers

CONSTANTS
    Callers,            \* goroutines
    MaxKeyBytes,        \* MaxInstanceStateKeyBytes, 256
    MaxValueBytes       \* MaxInstanceStateValueBytes, 256 << 10

ASSUME LimitsAssumption == MaxKeyBytes \in Nat /\ MaxValueBytes \in Nat

Absent == -1

VARIABLES
    timeout,    \* the store's, in deadlines: 0 disables it
    stored,     \* the host's table
    pc, op, key, value,     \* each caller's call
    answer,     \* what the host answered it
    result,     \* what the last call returned
    adrift,     \* writes their callers gave up and the host may still apply
    \* what a caller may conclude from the calls so far:
    alone,      \* no other write of its key overlaps this write
    may,        \* values a key may hold
    seen        \* values its key may have held since the call began

call == <<pc, op, key, value, alone>>
host == <<stored, adrift>>
vars == <<timeout, host, call, answer, result, may, seen>>

\* validateInstanceStateKey
ValidKey(k) == k # 0 /\ k <= MaxKeyBytes

\* Mutation: one byte more than the limit is sent.
ValidValueOff(v) == v <= MaxValueBytes + 1

\* The limit of WriteInstanceState.
ValidValue(v) == v <= MaxValueBytes

Keys == 1..MaxKeyBytes
Values == 0..MaxValueBytes
Cells == Values \cup {Absent}

\* A result or an answer: a value, ErrStateNotExist, done, or another error.
NotExist == [kind |-> "not exist"]
Done == [kind |-> "done"]
Failed == [kind |-> "error"]
Found(v) == [kind |-> "found", value |-> v]
Outcomes == {NotExist, Done, Failed} \cup [kind : {"found"}, value : Values]

TypeOK ==
    /\ timeout \in Nat
    /\ stored \in [Keys -> Cells]
    /\ pc \in [Callers -> {"idle", "sent", "answered"}]
    /\ op \in [Callers -> {"none", "read", "write"}]
    /\ key \in [Callers -> Keys \cup {0}]
    /\ value \in [Callers -> Values]
    /\ \A c \in Callers : pc[c] # "idle" => key[c] \in Keys
    /\ answer \in [Callers -> Outcomes]
    /\ result \in [Callers -> Outcomes]
    /\ adrift \in [Keys -> SUBSET Values]
    /\ alone \in [Callers -> BOOLEAN]
    /\ may \in [Keys -> SUBSET Cells]
    /\ seen \in [Callers -> SUBSET Cells]

\* A new store has the default timeout, and WithTimeout any other.
Init ==
    /\ timeout \in {0, 1}
    /\ stored = [k \in Keys |-> Absent]
    /\ pc = [c \in Callers |-> "idle"]
    /\ op = [c \in Callers |-> "none"]
    /\ key = [c \in Callers |-> 0]
    /\ value = [c \in Callers |-> 0]
    /\ answer = [c \in Callers |-> Failed]
    /\ result = [c \in Callers |-> Failed]
    /\ adrift = [k \in Keys |-> {}]
    /\ alone = [c \in Callers |-> FALSE]
    /\ may = [k \in Keys |-> {Absent}]
    /\ seen = [c \in Callers |-> {}]

-----------------------------------------------------------------------------
(* A caller.                                                               *)

\* A bad key or an oversized value is an error before the round trip.
Refuse(c, valid) ==
    /\ pc[c] = "idle"
    /\ ~valid
    /\ result' = [result EXCEPT ![c] = Failed]
    /\ seen' = [seen EXCEPT ![c] = {}]
    /\ UNCHANGED <<timeout, host, call, answer, may>>

Send(c, o, k) ==
    /\ pc[c] = "idle"
    /\ pc' = [pc EXCEPT ![c] = "sent"]
    /\ op' = [op EXCEPT ![c] = o]
    /\ key' = [key EXCEPT ![c] = k]
    /\ result' = [result EXCEPT ![c] = Failed]
    /\ UNCHANGED <<timeout, host, answer>>

ReadState(c, k) ==
    \/ Refuse(c, ValidKey(k))
    \/ /\ ValidKey(k)
       /\ Send(c, "read", k)
       /\ seen' = [seen EXCEPT ![c] = may[k]]
       /\ UNCHANGED <<value, alone, may>>

Writing(d, k) == pc[d] # "idle" /\ op[d] = "write" /\ key[d] = k

WriteState(c, k, v) ==
    \/ Refuse(c, ValidKey(k) /\ ValidValue(v))
    \/ /\ ValidKey(k) /\ ValidValue(v)
       /\ Send(c, "write", k)
       /\ value' = [value EXCEPT ![c] = v]
       /\ alone' = [d \in Callers |->
            IF d = c THEN \A e \in Callers \ {c} : ~Writing(e, k)
                     ELSE alone[d] /\ ~Writing(d, k)]
       /\ may' = [may EXCEPT ![k] = @ \cup {v}]
       /\ seen' = [d \in Callers |->
            IF pc[d] # "idle" /\ key[d] = k THEN seen[d] \cup {v} ELSE seen[d]]

Finish(c, r) ==
    /\ pc' = [pc EXCEPT ![c] = "idle"]
    /\ op' = [op EXCEPT ![c] = "none"]
    /\ key' = [key EXCEPT ![c] = 0]
    /\ value' = [value EXCEPT ![c] = 0]
    /\ alone' = [alone EXCEPT ![c] = FALSE]
    /\ answer' = [answer EXCEPT ![c] = Failed]
    /\ result' = [result EXCEPT ![c] = r]
    /\ seen' = [seen EXCEPT ![c] = IF r \in {Done, Failed} THEN {} ELSE @]
    /\ UNCHANGED <<timeout, stored>>

\* What a key may hold once a write of it is acknowledged: a value, and that
\* value, if no other write overlapped and none was given up.
Acknowledged(c) ==
    [may EXCEPT ![key[c]] =
        IF alone[c] THEN {value[c]} \cup adrift[key[c]] ELSE @ \ {Absent}]

\* The call returns what the host answered.
Return(c) ==
    /\ pc[c] = "answered"
    /\ Finish(c, answer[c])
    /\ may' = IF answer[c] = Done THEN Acknowledged(c) ELSE may
    /\ UNCHANGED adrift

\* The write its caller gives up, as the host has not answered it.
Adrift(c) ==
    IF op[c] = "write" /\ pc[c] = "sent"
      THEN [adrift EXCEPT ![key[c]] = @ \cup {value[c]}] ELSE adrift

\* Mutation: a deadline that passes is not an error of WriteState.
DeadlineQuiet(c) ==
    /\ timeout > 0 /\ pc[c] # "idle"
    /\ Finish(c, IF op[c] = "write" THEN Done ELSE Failed)
    /\ may' = IF op[c] = "write" THEN Acknowledged(c) ELSE may
    /\ UNCHANGED adrift

\* Mutation: a read that takes too long finds nothing.
DeadlineAbsent(c) ==
    /\ timeout > 0 /\ pc[c] # "idle"
    /\ Finish(c, IF op[c] = "read" THEN NotExist ELSE Failed)
    /\ adrift' = Adrift(c)
    /\ UNCHANGED may

\* Mutation: only a call that the host has answered is given up.
DeadlineAnswered(c) ==
    /\ timeout > 0 /\ pc[c] = "answered"
    /\ Finish(c, Failed)
    /\ UNCHANGED <<adrift, may>>

\* The deadline passes, before the host took the call or after it answered.
Deadline(c) ==
    /\ timeout > 0 /\ pc[c] # "idle"
    /\ Finish(c, Failed)
    /\ adrift' = Adrift(c)
    /\ UNCHANGED may

-----------------------------------------------------------------------------
(* The host.                                                               *)

Answer(c, a) ==
    /\ pc[c] = "sent"
    /\ pc' = [pc EXCEPT ![c] = "answered"]
    /\ answer' = [answer EXCEPT ![c] = a]
    /\ UNCHANGED <<timeout, op, key, value, result, alone, may, seen>>

HostRead(c) ==
    /\ op[c] = "read"
    /\ Answer(c, IF stored[key[c]] = Absent THEN NotExist ELSE Found(stored[key[c]]))
    /\ UNCHANGED host

HostWrite(c) ==
    /\ op[c] = "write"
    /\ Answer(c, Done)
    /\ stored' = [stored EXCEPT ![key[c]] = value[c]]
    /\ UNCHANGED adrift

\* Refused (a scope of 256 keys is full, the host shuts down), applied and its
\* answer lost, or the connection lost while the host works on it.
HostFails(c) ==
    /\ Answer(c, Failed)
    /\ \/ UNCHANGED host
       \/ op[c] = "write" /\ stored' = [stored EXCEPT ![key[c]] = value[c]]
          /\ UNCHANGED adrift
       \/ op[c] = "write" /\ adrift' = Adrift(c) /\ UNCHANGED stored

\* A write whose caller gave it up.  (It stays: two may have written it.)
LateWrite(k) ==
    /\ \E v \in adrift[k] : stored' = [stored EXCEPT ![k] = v]
    /\ UNCHANGED <<timeout, adrift, call, answer, result, may, seen>>

-----------------------------------------------------------------------------

Next ==
    \/ \E c \in Callers, k \in 0..MaxKeyBytes + 1 :
         \/ ReadState(c, k)
         \/ \E v \in 0..MaxValueBytes + 1 : WriteState(c, k, v)
    \/ \E c \in Callers :
         \/ Return(c) \/ Deadline(c)
         \/ HostRead(c) \/ HostWrite(c) \/ HostFails(c)
    \/ \E k \in Keys : LateWrite(k)

Spec == Init /\ [][Next]_vars

\* Goroutines run and timers fire; the host may never answer.
FairSpec == Spec /\ \A c \in Callers : WF_vars(Return(c)) /\ WF_vars(Deadline(c))

-----------------------------------------------------------------------------
(* Properties.                                                             *)

\* instance_state.go:33-34 and docs/network-access-provider.md: what the host
\* keeps under a key is the value of the last acknowledged write that had the
\* key to itself, or of a write begun since, or of one that timed out.
StoredExplained == \A k \in Keys : stored[k] \in may[k]

\* A ReadState that finds a value finds one the key may have held during the
\* call; ErrStateNotExist (instance_state.go:22-25) means that the key may
\* have held none, so an acknowledged key never looks absent, whatever timed
\* out: a tsnet node would give itself a new identity.
ReadExplained ==
    \A c \in Callers : pc[c] = "idle" =>
        /\ result[c].kind = "found" => result[c].value \in seen[c]
        /\ result[c] = NotExist => Absent \in seen[c]

\* instance_state.go:27-29: with a deadline every call returns, whatever the
\* host does.
EveryCallReturns ==
    \A c \in Callers : timeout > 0 /\ pc[c] # "idle" ~> pc[c] = "idle"
=============================================================================
