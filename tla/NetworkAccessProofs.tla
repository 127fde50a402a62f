------------------------- MODULE NetworkAccessProofs -------------------------
(***************************************************************************)
(* Proofs about NetworkAccess for every number of restarts.                *)
(***************************************************************************)
EXTENDS NetworkAccess, TLAPS

\* Only an operation past its Host() call holds a client; one that wrote
\* answers with what it wrote, unless a late write came between; what is adrift
\* was begun since, or was adrift already, when the last answer was given.
WriteInv ==
    /\ host => pc \in {"info", "write", "report", "reply"} /\ op # "GetStatus"
    /\ pc = "report" => host
    /\ pc # "idle" => op \in Operations
    /\ pc \in {"report", "reply"} /\ host => stored \in {Wanted} \cup adrift
    /\ adrift \subseteq since

\* Between a write that went through and the next, the process's intent is
\* never ahead of the stored one, and once restored never behind it.
IntentInv ==
    pc # "write" /\ ~apart =>
        /\ desired => stored = "1"
        /\ restored /\ stored = "1" => desired

Inv == TypeOK /\ WriteInv /\ AckedIntentDurable /\ IntentInv

\* The three shapes of an answer.
LEMMA ReplyShapes ==
    /\ [op |-> "none"] \in Replies
    /\ \A o \in Operations : [op |-> o, ok |-> FALSE] \in Replies
    /\ TypeOK /\ op \in Operations => Status \in Replies
<1>1. [op |-> "none"] \in Replies
  BY DEF Replies
<1>2. ASSUME NEW o \in Operations PROVE [op |-> o, ok |-> FALSE] \in Replies
  BY DEF Replies
<1>3. ASSUME TypeOK, op \in Operations PROVE Status \in Replies
  <2>1. Status \in [op : Operations, ok : {TRUE}, desired : BOOLEAN,
                     connected : BOOLEAN, listeners : BOOLEAN]
    BY <1>3 DEF TypeOK, Status
  <2> QED BY <2>1 DEF Replies
<1> QED BY <1>1, <1>2, <1>3

LEMMA NextInv == Inv /\ [Next]_vars => Inv'
<1> SUFFICES ASSUME Inv, [Next]_vars PROVE Inv'
  OBVIOUS
<1> USE MaxRestartsAssumption
    DEF Inv, TypeOK, WriteInv, AckedIntentDurable, IntentInv, Wanted, Stored,
        Operations, Locations, fields, ghosts, server
<1>1. CASE Bind
  BY <1>1 DEF Bind
<1>2. CASE Restart
  <2>1. reply' \in Replies
    <3>1. CASE op = "none"
      BY <1>2, <3>1 DEF Restart
    <3>2. CASE op \in Operations
      BY <1>2, <3>2, ReplyShapes DEF Restart
    <3> QED BY <3>1, <3>2
  <2>2. restarts' \in 0..MaxRestarts
    BY <1>2 DEF Restart
  <2>3. TypeOK'
    BY <1>2, <2>1, <2>2 DEF Restart
  <2>4. WriteInv' /\ AckedIntentDurable' /\ IntentInv'
    BY <1>2 DEF Restart
  <2> QED BY <2>3, <2>4
<1>2a. CASE LateWrite
  BY <1>2a DEF LateWrite
<1>3. ASSUME NEW o \in Operations, Call(o) PROVE Inv'
  BY <1>3 DEF Call
<1>4. CASE RestoreSkip
  BY <1>4 DEF RestoreSkip
<1>5. CASE RestoreStart
  BY <1>5 DEF RestoreStart
<1>6. CASE ReadFails
  BY <1>6 DEF ReadFails
<1>7. CASE Read
  BY <1>7 DEF Read
<1>8. CASE RestoreInfo
  <2>1. hostInfo' \in BOOLEAN
    BY <1>8 DEF RestoreInfo
  <2>2. TypeOK'
    BY <1>8, <2>1 DEF RestoreInfo
  <2>3. WriteInv'
    BY <1>8 DEF RestoreInfo
  <2>4. AckedIntentDurable'
    BY <1>8 DEF RestoreInfo
  <2>5. IntentInv'
    BY <1>8 DEF RestoreInfo
  <2> QED BY <2>2, <2>3, <2>4, <2>5
<1>9. CASE GetStatus
  BY <1>9 DEF GetStatus
<1>10. CASE Disconnect
  BY <1>10 DEF Disconnect, SetFields
<1>11. CASE Connect
  BY <1>11 DEF Connect, SetFields
<1>12. CASE ConnectInfo
  BY <1>12 DEF ConnectInfo, SetFields
<1>13. CASE ConnectInfoFails
  <2>1. reply' \in Replies
    BY <1>13, ReplyShapes DEF ConnectInfoFails, Fail
  <2>2. TypeOK'
    BY <1>13, <2>1 DEF ConnectInfoFails, Fail
  <2>3. WriteInv'
    BY <1>13 DEF ConnectInfoFails, Fail
  <2>4. AckedIntentDurable'
    BY <1>13 DEF ConnectInfoFails, Fail
  <2>5. IntentInv'
    BY <1>13 DEF ConnectInfoFails, Fail
  <2> QED BY <2>2, <2>3, <2>4, <2>5
<1>14. CASE WriteSkip
  BY <1>14 DEF WriteSkip
<1>15. CASE Write
  BY <1>15 DEF Write
<1>16. CASE WriteFails
  <2>1. reply' \in Replies
    BY <1>16, ReplyShapes DEF WriteFails, WriteLost, Fail
  <2>2. stored' \in Stored /\ adrift' \subseteq Stored /\ since' \subseteq Stored
    BY <1>16 DEF WriteFails, WriteLost
  <2>3. TypeOK'
    BY <1>16, <2>1, <2>2 DEF WriteFails, WriteLost, Fail
  <2>4. WriteInv'
    BY <1>16 DEF WriteFails, WriteLost, Fail
  <2>5. AckedIntentDurable'
    BY <1>16 DEF WriteFails, WriteLost, Fail
  <2>6. IntentInv'
    BY <1>16 DEF WriteFails, WriteLost, Fail
  <2> QED BY <2>3, <2>4, <2>5, <2>6
<1>17. CASE Report
  BY <1>17 DEF Report
<1>18. CASE Reply
  <2>1. reply' \in Replies
    BY <1>18, ReplyShapes DEF Reply
  <2>2. TypeOK'
    BY <1>18, <2>1 DEF Reply
  <2>3. WriteInv'
    BY <1>18 DEF Reply
  <2>4. AckedIntentDurable'
    <3>1. CASE host
      BY <1>18, <3>1 DEF Reply
    <3>2. CASE ~host
      BY <1>18, <3>2 DEF Reply
    <3> QED BY <3>1, <3>2
  <2>5. IntentInv'
    BY <1>18 DEF Reply
  <2> QED BY <2>2, <2>3, <2>4, <2>5
<1>19. CASE UNCHANGED vars
  BY <1>19 DEF vars
<1> HIDE DEF Inv, Operations
<1>20. CASE Restore
  BY <1>20, <1>4, <1>5, <1>6, <1>7, <1>8 DEF Restore
<1>21. CASE Handler
  BY <1>21, <1>20, <1>9, <1>10, <1>11, <1>12, <1>13, <1>14, <1>15, <1>16, <1>17,
     <1>18 DEF Handler
<1> QED
  BY <1>1, <1>2, <1>2a, <1>3, <1>19, <1>21 DEF Next

LEMMA InvHolds == Spec => []Inv
<1>1. Init => Inv
  <2> SUFFICES ASSUME Init PROVE Inv
    OBVIOUS
  <2>1. reply \in Replies
    BY ReplyShapes DEF Init
  <2>2. restarts \in 0..MaxRestarts
    BY MaxRestartsAssumption DEF Init
  <2> QED BY <2>1, <2>2
     DEF Init, Inv, TypeOK, WriteInv, AckedIntentDurable, IntentInv, Stored,
         Locations, Operations
<1> QED BY <1>1, NextInv, PTL DEF Spec

\* The provider, its host's state and the handler keep their types
\* (main.go:34-44).
THEOREM TypeCorrect == Spec => []TypeOK
<1>1. Inv => TypeOK
  BY DEF Inv
<1> QED BY <1>1, InvHolds, PTL

\* What the host stores is the last intent acknowledged over a live handle, or
\* one whose write was begun since, or was still adrift when that was
\* acknowledged: no restart, failed call, lost answer or late write leaves any
\* other (persistLocked, main.go:118-133).
THEOREM AckedDurable == Spec => []AckedIntentDurable
<1>1. Inv => AckedIntentDurable
  BY DEF Inv
<1> QED BY <1>1, InvHolds, PTL

\* A restored process whose last write went through, and was not overtaken by
\* a late one, agrees with the stored intent
\* (restoreLocked, main.go:93-116).
THEOREM RestoredMatches == Spec => []RestoredMatchesStore
<1>1. Inv => RestoredMatchesStore
  BY DEF Inv, IntentInv, RestoredMatchesStore, TypeOK
<1> QED BY <1>1, InvHolds, PTL
=============================================================================
