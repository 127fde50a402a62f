----------------------------- MODULE HostHandle -----------------------------
(***************************************************************************)
(* What runtime.Host() promises to the capability handlers of one plugin   *)
(* process: the process has at most one host stream bound at a time, opens *)
(* at most one connection on it, and every Host() call answers, at one     *)
(* instant between its call and its return, with that connection or with   *)
(* nothing.  HostBroker refines this module.                               *)
(***************************************************************************)
EXTENDS Naturals

CONSTANTS
    Goroutines,   \* goroutines of the plugin process
    Streams       \* broker stream ids the host may hand out, without 0

Nil == 0          \* no stream bound, no client: Go's zero values

VARIABLES
    bound,        \* the stream the host last bound, or Nil
    handle,       \* the stream the process is connected on, or Nil
    result        \* what each goroutine's last Host() call returned

vars == <<bound, handle, result>>

TypeOK ==
    /\ bound \in Streams \cup {Nil}
    /\ handle \in {Nil, bound}
    /\ result \in [Goroutines -> Streams \cup {Nil}]

Init ==
    /\ bound = Nil
    /\ handle = Nil
    /\ result = [g \in Goroutines |-> Nil]

\* A new binding forgets the connection of the previous one.
Bind(s) ==
    /\ bound' = s
    /\ handle' = Nil
    /\ UNCHANGED result

\* The one connection of the bound stream is made.
Connect ==
    /\ bound # Nil
    /\ handle = Nil
    /\ handle' = bound
    /\ UNCHANGED <<bound, result>>

Return(g) ==
    /\ result' = [result EXCEPT ![g] = handle]
    /\ UNCHANGED <<bound, handle>>

Next ==
    \/ \E s \in Streams : Bind(s)
    \/ Connect
    \/ \E g \in Goroutines : Return(g)

Spec == Init /\ [][Next]_vars
=============================================================================
