----------------------------- MODULE HostBroker -----------------------------
(***************************************************************************)
(* The plugin side of the connection to the host: pluginHostState of       *)
(* pkg/pluginsdk/runtime/runtime.go, called concurrently by the goroutines *)
(* that serve capability RPCs, and go-plugin's broker as that code uses it.*)
(*                                                                         *)
(* The host sends the connection info of a stream and then calls           *)
(* Runtime.BindHostBroker.  The broker keeps the info for Window ticks     *)
(* (five seconds), hands it to one Dial, and makes a Dial that finds none  *)
(* wait as long; Dial runs with the mutex held.                            *)
(***************************************************************************)
EXTENDS Naturals, FiniteSets

CONSTANTS
    Goroutines,   \* goroutines that call Host() or serve BindHostBroker
    Streams,      \* stream ids the host's broker allocates; 0 means unbound
    Window,       \* GRPCBroker.timeoutWait and Dial's own timeout, in ticks
    MaxBinds,     \* bound: how often the host calls BindHostBroker
    NoOne         \* the mutex is free

Nil == 0

ASSUME GoroutinesAssumption == NoOne \notin Goroutines
ASSUME StreamsAssumption == Streams \subseteq Nat \ {0}
ASSUME WindowAssumption == Window \in Nat \ {0}
ASSUME MaxBindsAssumption == MaxBinds \in Nat

VARIABLES
    broker,       \* s.broker # nil
    brokerID,     \* s.brokerID
    client,       \* the stream s.client was dialled on, Nil for a nil client
    mu,           \* the goroutine that holds s.mu, or NoOne
    pc,           \* where each goroutine is
    arg,          \* the id each BindHostBroker handler was called with
    result,       \* what each goroutine's last Host() call returned
    info,         \* the broker's connection info of each stream
    left,         \* ticks until the broker forgets an info it keeps
    patience,     \* ticks until the Dial in progress gives up
    binds,        \* BindHostBroker calls so far
    timely        \* streams whose last bind call found the info kept

state == <<broker, brokerID, client>>
bookkeeping == <<arg, binds, timely>>
streams == <<info, left>>
vars == <<state, mu, pc, result, streams, patience, bookkeeping>>

Locations == {"idle", "host", "bind", "dial", "wait", "unlock", "unlockBind"}

(* The life of a stream's connection info in the broker.                   *)
InfoStates == {"none", "sent", "kept", "expired", "used", "refused"}

TypeOK ==
    /\ broker \in BOOLEAN
    /\ brokerID \in Streams \cup {Nil}
    /\ client \in Streams \cup {Nil}
    /\ mu \in Goroutines \cup {NoOne}
    /\ pc \in [Goroutines -> Locations]
    /\ arg \in [Goroutines -> Streams \cup {Nil}]
    /\ result \in [Goroutines -> Streams \cup {Nil}]
    /\ info \in [Streams -> InfoStates]
    /\ left \in [Streams -> 0..Window]
    /\ patience \in 0..Window
    /\ binds \in 0..MaxBinds
    /\ timely \subseteq Streams

Init ==
    /\ broker = FALSE
    /\ brokerID = Nil
    /\ client = Nil
    /\ mu = NoOne
    /\ pc = [g \in Goroutines |-> "idle"]
    /\ arg = [g \in Goroutines |-> Nil]
    /\ result = [g \in Goroutines |-> Nil]
    /\ info = [s \in Streams |-> "none"]
    /\ left = [s \in Streams |-> 0]
    /\ patience = 0
    /\ binds = 0
    /\ timely = {}

-----------------------------------------------------------------------------
(* The host.                                                               *)

\* AcceptAndServe puts the connection info on the broker's own stream.
SendInfo(s) ==
    /\ broker
    /\ info[s] = "none"
    /\ info' = [info EXCEPT ![s] = "sent"]
    /\ UNCHANGED <<state, mu, pc, result, left, patience, bookkeeping>>

\* The host invokes BindHostBroker after it sent the info.  It waits for the
\* answer of one call before it makes another.
CallBind(g, s) ==
    /\ pc[g] = "idle"
    /\ info[s] # "none"
    /\ binds < MaxBinds
    /\ \A h \in Goroutines : arg[h] = Nil
    /\ pc' = [pc EXCEPT ![g] = "bind"]
    /\ arg' = [arg EXCEPT ![g] = s]
    /\ binds' = binds + 1
    /\ timely' = IF info[s] = "kept" /\ left[s] > 0
                 THEN timely \cup {s} ELSE timely \ {s}
    /\ UNCHANGED <<state, mu, result, streams, patience>>

-----------------------------------------------------------------------------
(* go-plugin's broker.                                                     *)

Arrive(s) ==
    /\ info[s] = "sent"
    /\ info' = [info EXCEPT ![s] = "kept"]
    /\ left' = [left EXCEPT ![s] = Window]
    /\ UNCHANGED <<state, mu, pc, result, patience, bookkeeping>>

Expire(s) ==
    /\ info[s] = "kept"
    /\ left[s] = 0
    /\ info' = [info EXCEPT ![s] = "expired"]
    /\ UNCHANGED <<state, mu, pc, result, left, patience, bookkeeping>>

\* The plugin goroutines' own steps take no time: none of them waits for a
\* free mutex, or inside the mutex for anything but Dial, while time passes.
Waiting(g) ==
    \/ pc[g] = "idle"
    \/ pc[g] \in {"host", "bind"} /\ mu # NoOne
    \/ pc[g] = "wait" /\ info[brokerID] # "kept" /\ patience > 0

Tick ==
    /\ \A g \in Goroutines : Waiting(g)
    /\ \A s \in Streams : info[s] = "kept" => left[s] > 0
    /\ \/ \E s \in Streams : info[s] = "kept"
       \/ \E g \in Goroutines : pc[g] = "wait"
    /\ left' = [s \in Streams |->
                  IF info[s] = "kept" THEN left[s] - 1 ELSE left[s]]
    /\ patience' = IF \E g \in Goroutines : pc[g] = "wait"
                   THEN patience - 1 ELSE patience
    /\ UNCHANGED <<state, mu, pc, result, info, bookkeeping>>

-----------------------------------------------------------------------------
(* The plugin.                                                             *)

\* setBroker, from registerServers, once and before any RPC is served; a
\* goroutine the plugin started before Serve may already call Host().
SetBroker ==
    /\ ~broker
    /\ mu = NoOne
    /\ broker' = TRUE
    /\ brokerID' = Nil
    /\ client' = Nil
    /\ UNCHANGED <<mu, pc, result, streams, patience, bookkeeping>>

CallHost(g) ==
    /\ pc[g] = "idle"
    /\ pc' = [pc EXCEPT ![g] = "host"]
    /\ UNCHANGED <<state, mu, result, streams, patience, bookkeeping>>

\* Mutation: host() without the mutex.
HostLockUnguarded(g) ==
    /\ pc[g] = "host"
    /\ mu' = g
    /\ pc' = [pc EXCEPT ![g] = "dial"]
    /\ UNCHANGED <<state, result, streams, patience, bookkeeping>>

\* host(): lock, then dialLocked.
HostLock(g) ==
    /\ pc[g] = "host"
    /\ mu = NoOne
    /\ mu' = g
    /\ pc' = [pc EXCEPT ![g] = "dial"]
    /\ UNCHANGED <<state, result, streams, patience, bookkeeping>>

\* Mutation: a new stream id keeps the client of the old stream.
SetBrokerIDKeepsClient(g) ==
    /\ pc[g] = "bind"
    /\ mu = NoOne
    /\ mu' = g
    /\ brokerID' = arg[g]
    /\ pc' = [pc EXCEPT ![g] = "dial"]
    /\ UNCHANGED <<broker, client, result, streams, patience, bookkeeping>>

\* Mutation: the dial is left to the first Host() call.
SetBrokerIDLazy(g) ==
    /\ pc[g] = "bind"
    /\ mu = NoOne
    /\ mu' = g
    /\ brokerID' = arg[g]
    /\ client' = Nil
    /\ pc' = [pc EXCEPT ![g] = "unlockBind"]
    /\ UNCHANGED <<broker, result, streams, patience, bookkeeping>>

\* Mutation: the id is off by one.
SetBrokerIDOffByOne(g) ==
    /\ pc[g] = "bind"
    /\ mu = NoOne
    /\ mu' = g
    /\ brokerID' = arg[g] + 1
    /\ client' = Nil
    /\ pc' = [pc EXCEPT ![g] = "dial"]
    /\ UNCHANGED <<broker, result, streams, patience, bookkeeping>>

\* setBrokerID(id): lock, store the id, drop the client, then dialLocked.
SetBrokerID(g) ==
    /\ pc[g] = "bind"
    /\ mu = NoOne
    /\ mu' = g
    /\ brokerID' = arg[g]
    /\ client' = Nil
    /\ pc' = [pc EXCEPT ![g] = "dial"]
    /\ UNCHANGED <<broker, result, streams, patience, bookkeeping>>

\* The caller of dialLocked returns next.
Leave(g) ==
    pc' = [pc EXCEPT ![g] = IF arg[g] = Nil THEN "unlock" ELSE "unlockBind"]

\* dialLocked's early return: connected already, or nothing to dial.
DialSkip(g) ==
    /\ pc[g] = "dial"
    /\ client # Nil \/ ~broker \/ brokerID = Nil
    /\ Leave(g)
    /\ UNCHANGED <<state, mu, result, streams, patience, bookkeeping>>

DialStart(g) ==
    /\ pc[g] = "dial"
    /\ client = Nil /\ broker /\ brokerID # Nil
    /\ pc' = [pc EXCEPT ![g] = "wait"]
    /\ patience' = Window
    /\ UNCHANGED <<state, mu, result, streams, bookkeeping>>

\* Dial takes the info, which is gone for good, and connects ...
DialConnects(g) ==
    /\ pc[g] = "wait"
    /\ info[brokerID] = "kept"
    /\ info' = [info EXCEPT ![brokerID] = "used"]
    /\ client' = brokerID
    /\ Leave(g)
    /\ UNCHANGED <<broker, brokerID, mu, result, left, patience, bookkeeping>>

\* ... or the connection cannot be made and Dial returns the error.
DialRefused(g) ==
    /\ pc[g] = "wait"
    /\ info[brokerID] = "kept"
    /\ info' = [info EXCEPT ![brokerID] = "refused"]
    /\ Leave(g)
    /\ UNCHANGED <<state, mu, result, left, patience, bookkeeping>>

\* Mutation: the error path returns without unlocking.
DialTimeoutKeepsMutex(g) ==
    /\ pc[g] = "wait"
    /\ patience = 0
    /\ pc' = [pc EXCEPT ![g] = "idle"]
    /\ arg' = [arg EXCEPT ![g] = Nil]
    /\ UNCHANGED <<state, mu, result, streams, patience, binds, timely>>

\* "timeout waiting for connection info".
DialTimeout(g) ==
    /\ pc[g] = "wait"
    /\ patience = 0
    /\ Leave(g)
    /\ UNCHANGED <<state, mu, result, streams, patience, bookkeeping>>

\* Mutation: a handle is returned although the dial failed.
HostReturnUndialled(g) ==
    /\ pc[g] = "unlock"
    /\ mu' = NoOne
    /\ pc' = [pc EXCEPT ![g] = "idle"]
    /\ result' = [result EXCEPT ![g] = brokerID]
    /\ UNCHANGED <<state, streams, patience, bookkeeping>>

\* host() reads s.client and unlocks.
HostReturn(g) ==
    /\ pc[g] = "unlock"
    /\ mu' = NoOne
    /\ pc' = [pc EXCEPT ![g] = "idle"]
    /\ result' = [result EXCEPT ![g] = client]
    /\ UNCHANGED <<state, streams, patience, bookkeeping>>

\* BindHostBroker answers success whether or not the dial succeeded.
BindReturn(g) ==
    /\ pc[g] = "unlockBind"
    /\ mu' = NoOne
    /\ pc' = [pc EXCEPT ![g] = "idle"]
    /\ arg' = [arg EXCEPT ![g] = Nil]
    /\ UNCHANGED <<state, result, streams, patience, binds, timely>>

-----------------------------------------------------------------------------

Lock(g) == HostLock(g) \/ SetBrokerID(g)

Run(g) ==
    \/ DialSkip(g) \/ DialStart(g)
    \/ DialConnects(g) \/ DialRefused(g) \/ DialTimeout(g)
    \/ HostReturn(g) \/ BindReturn(g)

Broker == \E s \in Streams : Arrive(s) \/ Expire(s)

Next ==
    \/ SetBroker
    \/ Tick
    \/ Broker
    \/ \E s \in Streams : SendInfo(s)
    \/ \E g \in Goroutines :
         \/ CallHost(g)
         \/ \E s \in Streams : CallBind(g, s)
         \/ Lock(g)
         \/ Run(g)

Spec == Init /\ [][Next]_vars

\* A goroutine that runs keeps running, timers fire, and a goroutine that
\* waits for the mutex gets it even when others come and go (sync.Mutex hands
\* the mutex to the first waiter after a millisecond of starvation).
Fairness ==
    /\ WF_vars(Tick)
    /\ WF_vars(Broker)
    /\ \A g \in Goroutines : WF_vars(Run(g)) /\ SF_vars(Lock(g))

FairSpec == Spec /\ Fairness

-----------------------------------------------------------------------------
(* Properties.                                                             *)

Inside == {"dial", "wait", "unlock", "unlockBind"}

\* The goroutine between lock and unlock is the one that holds s.mu; a Dial
\* waits only for a bound stream that has no client (a cached client is
\* returned without going back to the broker).
LockInv ==
    \A g \in Goroutines :
        /\ pc[g] \in Inside <=> mu = g
        /\ pc[g] = "wait" => client = Nil /\ broker /\ brokerID # Nil

\* A cached client is a connection on the stream that is bound now, and was
\* made from the one connection info of that stream: rebinding never leaves
\* the handle of an older stream behind (runtime.go:350-357).
ClientMatchesBinding ==
    client # Nil => /\ broker
                    /\ client = brokerID
                    /\ info[client] = "used"

\* The eager dial pins the connection (runtime.go:339-349): once the handler
\* of a BindHostBroker call that arrived while the broker kept the info has
\* returned, the process holds a client, however late or often Host() is
\* called, unless the connection itself was refused.  (common.proto 205: the
\* host binds once; after a second bind the old stream's dial may be late.)
EagerDialPins ==
    /\ binds <= 1
    /\ mu = NoOne
    /\ \A g \in Goroutines : arg[g] = Nil
    /\ brokerID \in timely
    /\ info[brokerID] # "refused"
    => client = brokerID

\* Within one binding no client is replaced or lost: the client changes only
\* from nothing to a connection, or in the critical section of setBrokerID
\* (runtime.go:315-320, "Holding one client and reusing it").
OneClientPerBinding ==
    [][client # Nil /\ client' # client
         => \E g \in Goroutines : pc[g] = "bind" /\ mu' = g]_vars

\* No Host() call and no BindHostBroker handler hangs, although Dial waits
\* with the mutex held.
EveryCallReturns ==
    \A g \in Goroutines : pc[g] # "idle" ~> pc[g] = "idle"

\* "Capability handlers should treat nil as transient" (runtime.go:388): a
\* bound process whose handlers go on calling Host() gets a client.
KeepsAsking == \A g \in Goroutines : WF_vars(CallHost(g))

AskingSpec == FairSpec /\ KeepsAsking

NilIsTransient ==
    (brokerID # Nil /\ client = Nil) ~> client # Nil

Handle == INSTANCE HostHandle WITH bound <- brokerID, handle <- client

\* The locked, timed, shared state implements the atomic handle.
ImplementsHandle == Handle!Spec
=============================================================================
