-------------------------- MODULE HostBrokerProofs --------------------------
(***************************************************************************)
(* Proofs about HostBroker for every set of goroutines, every set of       *)
(* streams and every window.                                               *)
(***************************************************************************)
EXTENDS HostBroker, TLAPS

\* Who a BindHostBroker handler runs for, and that RPCs are served only after
\* setBroker: without the second conjunct a late setBroker could forget the
\* binding under a handler that waits in Dial.
ServedInv ==
    /\ \A g \in Goroutines :
         /\ pc[g] \in {"bind", "unlockBind"} => arg[g] # Nil
         /\ arg[g] # Nil => broker
    /\ brokerID # Nil => broker
    /\ \A s \in Streams : info[s] # "none" => broker

Inv == TypeOK /\ LockInv /\ ServedInv /\ ClientMatchesBinding

LEMMA InitInv == Init => Inv
<1> SUFFICES ASSUME Init PROVE Inv
  OBVIOUS
<1>1. TypeOK
  <2>1. 0 \in 0..Window /\ 0 \in 0..MaxBinds
    BY WindowAssumption, MaxBindsAssumption
  <2>2. pc \in [Goroutines -> Locations] /\ info \in [Streams -> InfoStates]
    BY DEF Init, Locations, InfoStates
  <2>3. /\ arg \in [Goroutines -> Streams \cup {Nil}]
        /\ result \in [Goroutines -> Streams \cup {Nil}]
        /\ left \in [Streams -> 0..Window]
    BY <2>1 DEF Init
  <2> QED BY <2>1, <2>2, <2>3 DEF Init, TypeOK
<1>2. LockInv
  BY GoroutinesAssumption DEF Init, LockInv, Inside
<1>3. ServedInv /\ ClientMatchesBinding
  BY DEF Init, ServedInv, ClientMatchesBinding
<1> QED BY <1>1, <1>2, <1>3 DEF Inv

\* Every step preserves the inductive invariant.
LEMMA NextInv == Inv /\ [Next]_vars => Inv'
<1> SUFFICES ASSUME Inv, [Next]_vars PROVE Inv'
  OBVIOUS
<1> USE GoroutinesAssumption, StreamsAssumption, WindowAssumption,
        MaxBindsAssumption
    DEF Inv, TypeOK, LockInv, ServedInv, ClientMatchesBinding, Nil,
            Locations, InfoStates, Inside, state, streams, bookkeeping
<1>1. CASE SetBroker
  BY <1>1 DEF SetBroker
<1>2. CASE Tick
  <2>1. left' \in [Streams -> 0..Window]
    BY <1>2 DEF Tick
  <2>2. patience' \in 0..Window
    BY <1>2 DEF Tick, Waiting
  <2> QED BY <1>2, <2>1, <2>2 DEF Tick
<1>3. ASSUME NEW s \in Streams, Arrive(s) PROVE Inv'
  BY <1>3 DEF Arrive
<1>4. ASSUME NEW s \in Streams, Expire(s) PROVE Inv'
  BY <1>4 DEF Expire
<1>5. ASSUME NEW s \in Streams, SendInfo(s) PROVE Inv'
  BY <1>5 DEF SendInfo
<1>6. ASSUME NEW g \in Goroutines, CallHost(g) PROVE Inv'
  BY <1>6 DEF CallHost
<1>7. ASSUME NEW g \in Goroutines, NEW s \in Streams, CallBind(g, s) PROVE Inv'
  BY <1>7 DEF CallBind
<1>8. ASSUME NEW g \in Goroutines, HostLock(g) PROVE Inv'
  BY <1>8 DEF HostLock
<1>9. ASSUME NEW g \in Goroutines, SetBrokerID(g) PROVE Inv'
  BY <1>9 DEF SetBrokerID
<1>10. ASSUME NEW g \in Goroutines, DialSkip(g) PROVE Inv'
  BY <1>10 DEF DialSkip, Leave
<1>11. ASSUME NEW g \in Goroutines, DialStart(g) PROVE Inv'
  BY <1>11 DEF DialStart
<1>12. ASSUME NEW g \in Goroutines, DialConnects(g) PROVE Inv'
  BY <1>12 DEF DialConnects, Leave
<1>13. ASSUME NEW g \in Goroutines, DialRefused(g) PROVE Inv'
  BY <1>13 DEF DialRefused, Leave
<1>14. ASSUME NEW g \in Goroutines, DialTimeout(g) PROVE Inv'
  BY <1>14 DEF DialTimeout, Leave
<1>15. ASSUME NEW g \in Goroutines, HostReturn(g) PROVE Inv'
  BY <1>15 DEF HostReturn
<1>16. ASSUME NEW g \in Goroutines, BindReturn(g) PROVE Inv'
  BY <1>16 DEF BindReturn
<1>17. CASE UNCHANGED vars
  BY <1>17 DEF vars
<1> QED
  BY <1>1, <1>2, <1>3, <1>4, <1>5, <1>6, <1>7, <1>8, <1>9, <1>10, <1>11,
     <1>12, <1>13, <1>14, <1>15, <1>16, <1>17 DEF Next, Broker, Lock, Run

\* The inductive invariant holds in every reachable state of pluginHostState.
LEMMA InvHolds == Spec => []Inv
<1>1. Init => Inv
  BY InitInv
<1>2. Inv /\ [Next]_vars => Inv'
  BY NextInv
<1> QED BY <1>1, <1>2, PTL DEF Spec

\* The state of pluginHostState, of the broker and of the goroutines keeps its
\* type (runtime.go:321-326).
THEOREM TypeCorrect == Spec => []TypeOK
<1>1. Inv => TypeOK
  BY DEF Inv
<1> QED BY <1>1, InvHolds, PTL

\* s.mu is held exactly by the goroutine inside it, and nobody dials while a
\* client is cached (runtime.go:350-377).
THEOREM MutexHolds == Spec => []LockInv
<1>1. Inv => LockInv
  BY DEF Inv
<1> QED BY <1>1, InvHolds, PTL

\* The cached client always is a connection on the stream bound now
\* (runtime.go:350-370).
THEOREM ClientMatches == Spec => []ClientMatchesBinding
<1>1. Inv => ClientMatchesBinding
  BY DEF Inv
<1> QED BY <1>1, InvHolds, PTL

-----------------------------------------------------------------------------
(* The host binds once per process start (proto/silo/plugin/v1/common.proto *)
(* 205): then a bind call that arrives in time pins the connection.         *)

\* Before the one bind call nothing is bound, and the one handler is the only
\* goroutine with an id.
OneBindInv == binds <= 1 =>
    /\ binds = 0 => brokerID = Nil /\ timely = {} /\ \A g \in Goroutines : arg[g] = Nil
    /\ \A g, h \in Goroutines : arg[g] # Nil /\ arg[h] # Nil => g = h
    /\ \A g \in Goroutines : pc[g] = "bind" => brokerID = Nil

\* The broker still keeps the info of s, with time to spare.
Kept(s) == info[s] = "kept" /\ left[s] > 0

\* The stages of a timely bind of s: the handler waits for a mutex that nobody
\* keeps across a Dial; it is inside, about to dial or in a Dial that finds
\* the info at once; the dial is done.
Arrived(s) == brokerID = Nil /\ Kept(s)
                /\ \E g \in Goroutines : arg[g] = s /\ pc[g] = "bind"
Dialling(s) == brokerID = s /\ Kept(s)
                /\ \E g \in Goroutines :
                     \/ arg[g] = s /\ pc[g] = "dial"
                     \/ arg[g] = s /\ pc[g] = "wait" /\ patience > 0
Done(s) == brokerID = s /\ (client = s \/ info[s] = "refused")

PinInv == binds <= 1 => \A s \in timely : Arrived(s) \/ Dialling(s) \/ Done(s)

IInv == Inv /\ OneBindInv /\ PinInv

\* Binds are counted up.
LEMMA BindsGrow ==
  ASSUME Inv, [Next]_vars, binds' <= 1
  PROVE  binds <= 1
<1>1. binds' = binds \/ binds' = binds + 1
  BY DEF Next, vars, SetBroker, Tick, Broker, Arrive, Expire, SendInfo, CallHost,
         CallBind, Lock, HostLock, SetBrokerID, Run, DialSkip, DialStart,
         DialConnects, DialRefused, DialTimeout, HostReturn, BindReturn, bookkeeping
<1>2. binds \in Nat
  BY MaxBindsAssumption DEF Inv, TypeOK
<1> QED BY <1>1, <1>2

LEMMA OneBindStep ==
  ASSUME Inv, OneBindInv, [Next]_vars
  PROVE  OneBindInv'
<1> SUFFICES ASSUME binds' <= 1 PROVE OneBindInv'
  BY DEF OneBindInv
<1> binds <= 1
  BY BindsGrow
<1> USE StreamsAssumption
    DEF Inv, TypeOK, LockInv, ServedInv, OneBindInv, Nil, Inside,
        state, streams, bookkeeping
<1>1. ASSUME NEW g \in Goroutines, NEW s \in Streams, CallBind(g, s)
      PROVE  OneBindInv'
  <2>1. binds = 0
    BY <1>1, MaxBindsAssumption DEF CallBind
  <2> QED BY <1>1, <2>1 DEF CallBind
<1>2. ASSUME NEW g \in Goroutines, SetBrokerID(g) PROVE OneBindInv'
  BY <1>2 DEF SetBrokerID
<1>3. ASSUME NEW g \in Goroutines, BindReturn(g) PROVE OneBindInv'
  BY <1>3 DEF BindReturn
<1>4. ASSUME NEW g \in Goroutines, CallHost(g) \/ HostLock(g) \/ HostReturn(g)
      PROVE  OneBindInv'
  <2>1. UNCHANGED <<brokerID, bookkeeping>>
    BY <1>4 DEF CallHost, HostLock, HostReturn
  <2>2. \A h \in Goroutines : pc'[h] = "bind" => pc[h] = "bind"
    BY <1>4 DEF CallHost, HostLock, HostReturn
  <2> QED BY <2>1, <2>2
<1>5. ASSUME NEW g \in Goroutines,
             \/ DialSkip(g) \/ DialStart(g) \/ DialConnects(g)
             \/ DialRefused(g) \/ DialTimeout(g)
      PROVE  OneBindInv'
  <2>1. UNCHANGED <<brokerID, bookkeeping>>
    BY <1>5 DEF DialSkip, DialStart, DialConnects, DialRefused, DialTimeout
  <2>2. \A h \in Goroutines : pc'[h] = "bind" => pc[h] = "bind"
    BY <1>5 DEF DialSkip, DialStart, DialConnects, DialRefused, DialTimeout, Leave
  <2> QED BY <2>1, <2>2
<1>6. CASE SetBroker \/ Tick \/ Broker \/ (\E s \in Streams : SendInfo(s))
  <2>1. UNCHANGED <<pc, bookkeeping>> /\ brokerID' \in {Nil, brokerID}
    BY <1>6 DEF SetBroker, Tick, Broker, Arrive, Expire, SendInfo
  <2> QED BY <2>1
<1>7. CASE UNCHANGED vars
  BY <1>7 DEF vars
<1> QED
  BY <1>1, <1>2, <1>3, <1>4, <1>5, <1>6, <1>7 DEF Next, Lock, Run

\* While a timely bind is on its way no time passes: its goroutine is ready to
\* run, or waits for a mutex whose holder is.
LEMMA NoTickBeforeDial ==
  ASSUME Inv, NEW s \in timely, Arrived(s) \/ Dialling(s)
  PROVE  ~Tick
<1> USE DEF Inv, TypeOK, LockInv
<1>1. CASE Arrived(s)
  <2>1. PICK g \in Goroutines : arg[g] = s /\ pc[g] = "bind"
    BY <1>1 DEF Arrived
  <2>2. CASE mu = NoOne
    BY <2>1, <2>2 DEF Tick, Waiting
  <2>3. CASE mu # NoOne
    <3>1. mu \in Goroutines /\ pc[mu] \in Inside /\ pc[mu] # "wait"
      BY <1>1, <2>3 DEF Arrived
    <3>2. ~Waiting(mu)
      BY <3>1 DEF Waiting, Inside
    <3> QED BY <3>1, <3>2 DEF Tick
  <2> QED BY <2>2, <2>3
<1>2. CASE Dialling(s)
  <2>1. PICK g \in Goroutines : pc[g] \in {"dial", "wait"}
    BY <1>2 DEF Dialling
  <2>2. ~Waiting(g)
    BY <1>2, <2>1 DEF Dialling, Kept, Waiting
  <2> QED BY <2>2 DEF Tick
<1> QED BY <1>1, <1>2

LEMMA PinStep ==
  ASSUME IInv, [Next]_vars
  PROVE  PinInv'
<1> SUFFICES ASSUME binds' <= 1, NEW s \in timely'
             PROVE  Arrived(s)' \/ Dialling(s)' \/ Done(s)'
  BY DEF PinInv
<1> binds <= 1
  BY BindsGrow DEF IInv
<1> USE StreamsAssumption
    DEF IInv, Inv, TypeOK, LockInv, OneBindInv, Nil, Inside, Kept,
        state, streams, bookkeeping
<1> s \in Streams
  BY NextInv
<1> DEFINE Pinned == Arrived(s) \/ Dialling(s) \/ Done(s)
           Pinned2 == Arrived(s)' \/ Dialling(s)' \/ Done(s)'
<1>1. ASSUME NEW g \in Goroutines, NEW t \in Streams, CallBind(g, t)
      PROVE  Pinned2
  <2>1. binds = 0 /\ timely = {} /\ s = t /\ Kept(s)
    <3>1. binds = 0
      BY <1>1, MaxBindsAssumption DEF CallBind
    <3> QED BY <1>1, <3>1 DEF CallBind
  <2>2. Arrived(s)'
    BY <1>1, <2>1 DEF CallBind, Arrived
  <2> QED BY <2>2
<1> SUFFICES ASSUME ~ \E g \in Goroutines, t \in Streams : CallBind(g, t)
             PROVE  Pinned2
  BY <1>1
<1>2. UNCHANGED timely
  BY DEF Next, vars, SetBroker, Tick, Broker, Arrive, Expire, SendInfo, CallHost,
         Lock, HostLock, SetBrokerID, Run, DialSkip, DialStart, DialConnects,
         DialRefused, DialTimeout, HostReturn, BindReturn
<1>3. Pinned
  BY <1>2 DEF PinInv
<1> HIDE DEF Pinned, Pinned2
<1>4. CASE Tick
  <2>1. Done(s)
    BY <1>2, <1>3, <1>4, NoTickBeforeDial DEF Pinned
  <2> QED BY <1>4, <2>1 DEF Tick, Done, Pinned2
<1>5. CASE SetBroker
  <2>1. FALSE
    BY <1>2, <1>3, <1>5 DEF ServedInv, SetBroker, Pinned, Arrived, Dialling, Done
  <2> QED BY <2>1
<1>6. ASSUME NEW t \in Streams, Arrive(t) \/ Expire(t) \/ SendInfo(t)
      PROVE  Pinned2
  BY <1>3, <1>6 DEF Arrive, Expire, SendInfo, Arrived, Dialling, Done, Pinned, Pinned2
<1>7. ASSUME NEW g \in Goroutines, CallHost(g) \/ HostLock(g) \/ HostReturn(g)
      PROVE  Pinned2
  BY <1>3, <1>7 DEF CallHost, HostLock, HostReturn, Arrived, Dialling, Done, Pinned, Pinned2
<1>8. ASSUME NEW g \in Goroutines, SetBrokerID(g)
      PROVE  Pinned2
  <2>1. arg[g] # Nil /\ brokerID = Nil
    BY <1>8 DEF SetBrokerID, ServedInv
  <2>2. Arrived(s) /\ arg[g] = s
    BY <1>3, <2>1 DEF Pinned, Arrived, Dialling, Done
  <2>3. Dialling(s)'
    BY <1>8, <2>2 DEF SetBrokerID, Arrived, Dialling
  <2> QED BY <2>3 DEF Pinned2
<1>9. ASSUME NEW g \in Goroutines, DialSkip(g) \/ DialStart(g)
      PROVE  Pinned2
  BY <1>3, <1>9, WindowAssumption
     DEF DialSkip, DialStart, Leave, Arrived, Dialling, Done, Pinned, Pinned2,
         ClientMatchesBinding, ServedInv
<1>10. ASSUME NEW g \in Goroutines, DialConnects(g) \/ DialRefused(g)
      PROVE  Pinned2
  BY <1>3, <1>10
     DEF DialConnects, DialRefused, Leave, Arrived, Dialling, Done, Pinned, Pinned2
<1>11. ASSUME NEW g \in Goroutines, DialTimeout(g)
      PROVE  Pinned2
  BY <1>3, <1>11 DEF DialTimeout, Leave, Arrived, Dialling, Done, Pinned, Pinned2
<1>12. ASSUME NEW g \in Goroutines, BindReturn(g)
      PROVE  Pinned2
  BY <1>3, <1>12 DEF BindReturn, Arrived, Dialling, Done, Pinned, Pinned2, ServedInv
<1>13. CASE UNCHANGED vars
  BY <1>3, <1>13 DEF vars, Arrived, Dialling, Done, Pinned, Pinned2
<1> QED
  BY <1>4, <1>5, <1>6, <1>7, <1>8, <1>9, <1>10, <1>11, <1>12, <1>13
     DEF Next, Broker, Lock, Run

\* When the host binds once, a BindHostBroker call that arrives while the
\* broker keeps the info leaves the process with a client for good, whatever
\* goroutines call Host() before, during and after it, and however much later
\* (the eager dial of setBrokerID, runtime.go:339-357).
THEOREM EagerDialPinsOnce == Spec => []EagerDialPins
<1>1. Init => IInv
  <2>1. Init => OneBindInv /\ PinInv
    BY DEF Init, OneBindInv, PinInv
  <2> QED BY <2>1, InitInv DEF IInv
<1>2. IInv /\ [Next]_vars => IInv'
  <2> SUFFICES ASSUME IInv, [Next]_vars PROVE IInv'
    OBVIOUS
  <2>1. Inv'
    BY NextInv DEF IInv
  <2>2. OneBindInv'
    BY OneBindStep DEF IInv
  <2>3. PinInv'
    BY PinStep
  <2> QED BY <2>1, <2>2, <2>3 DEF IInv
<1>3. IInv => EagerDialPins
  <2> SUFFICES ASSUME IInv,
                      binds <= 1,
                      mu = NoOne,
                      \A g \in Goroutines : arg[g] = Nil,
                      brokerID \in timely,
                      info[brokerID] # "refused"
               PROVE  client = brokerID
    BY DEF EagerDialPins
  <2>1. brokerID # Nil
    BY StreamsAssumption DEF IInv, Inv, TypeOK, Nil
  <2>2. ~Arrived(brokerID) /\ ~Dialling(brokerID)
    BY <2>1 DEF Arrived, Dialling
  <2> QED BY <2>2 DEF IInv, PinInv, Done
<1> QED BY <1>1, <1>2, <1>3, PTL DEF Spec

-----------------------------------------------------------------------------
(* Refinement of the atomic handle.                                        *)

\* A step of HostBroker is a step of HostHandle or changes nothing it sees:
\* the critical section of setBrokerID is Bind followed by Connect, and a
\* Host() call takes effect where it reads s.client.
LEMMA HandleStep ==
  Inv /\ Inv' /\ [Next]_vars => [Handle!Next]_(Handle!vars)
<1> SUFFICES ASSUME Inv, Inv', [Next]_vars
             PROVE  [Handle!Next]_(Handle!vars)
  OBVIOUS
<1> USE DEF Handle!vars, Handle!Next, Handle!Bind, Handle!Connect,
            Handle!Return, Handle!Nil, Nil, state, streams, bookkeeping
<1>1. CASE SetBroker
  BY <1>1 DEF SetBroker, Inv, ServedInv, ClientMatchesBinding
<1>2. ASSUME NEW g \in Goroutines, SetBrokerID(g)
      PROVE  [Handle!Next]_(Handle!vars)
  <2>1. arg[g] \in Streams
    BY <1>2 DEF SetBrokerID, Inv, ServedInv, TypeOK
  <2>2. Handle!Bind(arg[g])
    BY <1>2 DEF SetBrokerID
  <2> QED BY <2>1, <2>2
<1>3. ASSUME NEW g \in Goroutines, DialConnects(g)
      PROVE  [Handle!Next]_(Handle!vars)
  BY <1>3 DEF DialConnects, Inv, LockInv
<1>4. ASSUME NEW g \in Goroutines, HostReturn(g)
      PROVE  [Handle!Next]_(Handle!vars)
  BY <1>4 DEF HostReturn
<1>5. ASSUME NEW g \in Goroutines,
             \/ CallHost(g) \/ HostLock(g) \/ DialSkip(g) \/ DialStart(g)
             \/ DialRefused(g) \/ DialTimeout(g) \/ BindReturn(g)
             \/ \E s \in Streams : CallBind(g, s)
      PROVE  UNCHANGED Handle!vars
  BY <1>5 DEF CallHost, HostLock, DialSkip, DialStart, DialRefused, DialTimeout,
              BindReturn, CallBind
<1>6. CASE Tick \/ Broker \/ (\E s \in Streams : SendInfo(s)) \/ UNCHANGED vars
  BY <1>6 DEF Tick, Broker, Arrive, Expire, SendInfo, vars
<1> QED
  BY <1>1, <1>2, <1>3, <1>4, <1>5, <1>6 DEF Next, Lock, Run

\* pluginHostState, with its mutex, its Dial and its timeouts, implements the
\* atomic handle: Host() calls are linearizable and one binding never answers
\* with two connections.
THEOREM Refinement == Spec => ImplementsHandle
<1>1. Init => Handle!Init
  BY DEF Init, Handle!Init, Nil, Handle!Nil
<1> QED
  BY <1>1, HandleStep, InvHolds, PTL DEF Spec, ImplementsHandle, Handle!Spec

\* Within one binding a client is neither replaced nor lost
\* (runtime.go:311-320).
THEOREM OneClient == Spec => OneClientPerBinding
<1> DEFINE Rebound == \E g \in Goroutines : pc[g] = "bind" /\ mu' = g
<1>1. Inv /\ [Next]_vars => [client # Nil /\ client' # client => Rebound]_vars
  <2> SUFFICES ASSUME Inv, Next, client # Nil, client' # client
               PROVE  Rebound
    BY DEF vars
  <2>1. ~SetBroker
    BY DEF SetBroker, Inv, ClientMatchesBinding
  <2>2. ASSUME NEW g \in Goroutines, DialConnects(g) PROVE FALSE
    BY <2>2 DEF DialConnects, Inv, LockInv
  <2>3. PICK g \in Goroutines : SetBrokerID(g)
    BY <2>1, <2>2
       DEF Next, Tick, Broker, Arrive, Expire, SendInfo, CallHost, CallBind, Lock,
           HostLock, Run, DialSkip, DialStart, DialRefused, DialTimeout,
           HostReturn, BindReturn, state
  <2> QED BY <2>3 DEF SetBrokerID
<1> QED BY <1>1, InvHolds, PTL DEF Spec, OneClientPerBinding
=============================================================================
