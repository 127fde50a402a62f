------------------------- MODULE InstanceStateProofs ------------------------
(***************************************************************************)
(* Proofs about InstanceState for every set of callers and all limits.     *)
(***************************************************************************)
EXTENDS InstanceState, TLAPS

Sends(c, o) == pc[c] # "idle" /\ op[c] = o

\* What the fields of a call say of each other.
CallInv ==
    \A c \in Callers :
        /\ pc[c] # "idle" => op[c] # "none"
        /\ pc[c] # "answered" => answer[c] = Failed
        /\ alone[c] => Sends(c, "write")

\* Whatever may still reach a key is among the values it may hold.
PendingInv ==
    /\ \A k \in Keys : adrift[k] \subseteq may[k]
    /\ \A c \in Callers : Sends(c, "write") => value[c] \in may[key[c]]

\* A write that has its key to itself really has, and once acknowledged left
\* its own value there unless a write given up came after it; any acknowledged
\* write left a value.
SettleInv ==
    \A c \in Callers : Sends(c, "write") =>
        /\ alone[c] => \A d \in Callers \ {c} : ~Writing(d, key[c])
        /\ answer[c] \in {Done, Failed}
        /\ answer[c] = Done => stored[key[c]] # Absent
        /\ answer[c] = Done /\ alone[c]
             => stored[key[c]] \in {value[c]} \cup adrift[key[c]]

\* A read has seen all the values its key may hold, and the one it brings.
ReadInv ==
    \A c \in Callers : Sends(c, "read") =>
        /\ may[key[c]] \subseteq seen[c]
        /\ answer[c] # Done
        /\ answer[c].kind = "found" => answer[c].value \in seen[c]
        /\ answer[c] = NotExist => Absent \in seen[c]

Inv ==
    /\ TypeOK /\ CallInv /\ StoredExplained /\ PendingInv /\ SettleInv
    /\ ReadInv /\ ReadExplained

LEMMA AbsentIsNoValue == Absent \notin Values
BY LimitsAssumption DEF Absent, Values

LEMMA Kinds ==
    /\ Failed \in Outcomes /\ Done \in Outcomes /\ NotExist \in Outcomes
    /\ \A v \in Values : /\ Found(v) \in Outcomes
                         /\ Found(v).kind = "found" /\ Found(v).value = v
                         /\ Found(v) # NotExist /\ Found(v) # Done /\ Found(v) # Failed
    /\ Failed.kind = "error" /\ Done.kind = "done" /\ NotExist.kind = "not exist"
    /\ Failed # NotExist /\ Done # NotExist /\ Failed # Done
<1> USE DEF Outcomes, Failed, Done, NotExist, Found
<1>1. Failed.kind = "error" /\ Done.kind = "done" /\ NotExist.kind = "not exist"
  OBVIOUS
<1>2. ASSUME NEW v \in Values
      PROVE  /\ Found(v) \in Outcomes
             /\ Found(v).kind = "found" /\ Found(v).value = v
  OBVIOUS
<1> HIDE DEF Failed, Done, NotExist, Found
<1> QED BY <1>1, <1>2

LEMMA InitInv == Init => Inv
<1> SUFFICES ASSUME Init PROVE Inv
  OBVIOUS
<1> USE DEF Init
<1>1. Keys \subseteq Nat /\ 0 \in Values /\ Absent \in Cells
  BY LimitsAssumption DEF Keys, Values, Cells
<1>2. TypeOK
  <2>1. Failed \in Outcomes
    BY Kinds
  <2>2. /\ timeout \in Nat
        /\ stored \in [Keys -> Cells] /\ value \in [Callers -> Values]
        /\ adrift \in [Keys -> SUBSET Values]
    BY <1>1
  <2>3. /\ may \in [Keys -> SUBSET Cells] /\ seen \in [Callers -> SUBSET Cells]
        /\ alone \in [Callers -> BOOLEAN]
    BY <1>1
  <2>4. /\ pc \in [Callers -> {"idle", "sent", "answered"}]
        /\ op \in [Callers -> {"none", "read", "write"}]
        /\ key \in [Callers -> Keys \cup {0}]
        /\ \A c \in Callers : pc[c] = "idle"
    OBVIOUS
  <2>5. answer \in [Callers -> Outcomes] /\ result \in [Callers -> Outcomes]
    BY <2>1
  <2> QED BY <2>2, <2>3, <2>4, <2>5 DEF TypeOK
<1>3. CallInv /\ PendingInv /\ SettleInv /\ ReadInv
  BY DEF CallInv, PendingInv, SettleInv, ReadInv, Sends
<1>4. StoredExplained
  BY DEF StoredExplained
<1>5. ReadExplained
  BY Kinds DEF ReadExplained
<1> QED BY <1>2, <1>3, <1>4, <1>5 DEF Inv

\* A caller's call ends, in an outcome of the host's or in an error; what its
\* key may hold is what it was, or what an acknowledged write alone leaves.
LEMMA FinishStep ==
    ASSUME Inv, NEW c \in Callers, NEW r \in Outcomes, Finish(c, r),
           pc[c] # "idle",
           r = Failed \/ r = answer[c],
           \/ may' = may
           \/ op[c] = "write" /\ answer[c] = Done /\ may' = Acknowledged(c),
           \/ adrift' = adrift
           \/ op[c] = "write"
              /\ adrift' = [adrift EXCEPT ![key[c]] = @ \cup {value[c]}] /\ may' = may
    PROVE  Inv'
<1> USE DEF Finish, Acknowledged
<1>1. TypeOK'
  <2>0. Failed \in Outcomes
    BY Kinds
  <2>1. 0 \in Values /\ 0 \in Keys \cup {0} /\ Failed \in Outcomes
    BY <2>0, LimitsAssumption DEF Values
  <2>2. TypeOK
    BY DEF Inv
  <2>3. key[c] \in Keys /\ value[c] \in Values /\ Values \subseteq Cells
    BY <2>2 DEF TypeOK, Cells
  <2>4. /\ timeout' \in Nat /\ (stored \in [Keys -> Cells])'
        /\ (value \in [Callers -> Values])' /\ (alone \in [Callers -> BOOLEAN])'
        /\ (seen \in [Callers -> SUBSET Cells])'
    BY <2>1, <2>2 DEF TypeOK
  <2>5. /\ (pc \in [Callers -> {"idle", "sent", "answered"}])'
        /\ (op \in [Callers -> {"none", "read", "write"}])'
        /\ (key \in [Callers -> Keys \cup {0}])'
        /\ (\A d \in Callers : pc[d] # "idle" => key[d] \in Keys)'
    BY <2>1, <2>2 DEF TypeOK
  <2>6. /\ (answer \in [Callers -> Outcomes])' /\ (result \in [Callers -> Outcomes])'
    BY <2>1, <2>2 DEF TypeOK
  <2>7. (adrift \in [Keys -> SUBSET Values])'
    BY <2>2, <2>3 DEF TypeOK
  <2>8. (may \in [Keys -> SUBSET Cells])'
    BY <2>2, <2>3, <2>7 DEF TypeOK
  <2> QED BY <2>4, <2>5, <2>6, <2>7, <2>8 DEF TypeOK
<1>2. CallInv'
  BY DEF Inv, CallInv, TypeOK, Sends
<1>3. StoredExplained'
  BY DEF Inv, StoredExplained, TypeOK, SettleInv, Sends
<1>4. PendingInv'
  BY AbsentIsNoValue DEF Inv, PendingInv, SettleInv, TypeOK, Sends, Writing
<1>5. SettleInv'
  BY DEF Inv, SettleInv, TypeOK, Sends, Writing
<1>6. ReadInv'
  BY DEF Inv, ReadInv, PendingInv, TypeOK, Sends
<1>7. ReadExplained'
  <2> SUFFICES ASSUME NEW d \in Callers, pc'[d] = "idle"
               PROVE  /\ result'[d].kind = "found" => result'[d].value \in seen'[d]
                      /\ result'[d] = NotExist => Absent \in seen'[d]
    BY DEF ReadExplained
  <2> USE DEF Inv, TypeOK
  <2>1. CASE d # c
    BY <2>1 DEF ReadExplained
  <2>2. CASE d = c /\ op[c] = "read"
    <3>1. /\ answer[c].kind = "found" => answer[c].value \in seen[c]
          /\ answer[c] = NotExist => Absent \in seen[c]
          /\ answer[c] # Done
      BY <2>2 DEF ReadInv, Sends
    <3>2. result'[c] = r /\ seen'[c] = IF r \in {Done, Failed} THEN {} ELSE seen[c]
      BY <2>2
    <3>3. Failed.kind # "found" /\ Failed # NotExist
      BY Kinds
    <3> QED BY <2>2, <3>1, <3>2, <3>3
  <2>3. CASE d = c /\ op[c] = "write"
    <3>1. answer[c] \in {Done, Failed}
      BY <2>3 DEF SettleInv, Sends
    <3>2. result'[c] = r
      BY <2>3
    <3>3. /\ Failed.kind # "found" /\ Failed # NotExist
          /\ Done.kind # "found" /\ Done # NotExist
      BY Kinds
    <3> QED BY <2>3, <3>1, <3>2, <3>3
  <2>4. op[c] \in {"read", "write"}
    BY DEF CallInv
  <2> QED BY <2>1, <2>2, <2>3, <2>4
<1> QED BY <1>1, <1>2, <1>3, <1>4, <1>5, <1>6, <1>7 DEF Inv

\* A call is sent: what a write may leave is recorded before the host has it.
LEMMA ReadStep ==
    ASSUME Inv, NEW c \in Callers, NEW k \in Keys, Send(c, "read", k),
           seen' = [seen EXCEPT ![c] = may[k]],
           UNCHANGED <<value, alone, may>>
    PROVE  Inv'
<1> USE DEF Send, host, Inv
<1>1. TypeOK'
  <2>1. Failed \in Outcomes
    BY Kinds
  <2> QED BY <2>1 DEF TypeOK
<1>2. CallInv'
  BY DEF CallInv, TypeOK, Sends
<1>3. StoredExplained'
  BY DEF StoredExplained
<1>4. PendingInv'
  BY DEF PendingInv, TypeOK, Sends
<1>5. SettleInv'
  BY DEF SettleInv, TypeOK, Sends, Writing
<1>6. ReadInv'
  <2>1. Failed.kind # "found" /\ Failed # NotExist /\ Failed # Done
    BY Kinds
  <2> QED BY <2>1 DEF ReadInv, CallInv, TypeOK, Sends
<1>7. ReadExplained'
  BY Kinds DEF ReadExplained, TypeOK
<1> QED BY <1>1, <1>2, <1>3, <1>4, <1>5, <1>6, <1>7

LEMMA WriteStep ==
    ASSUME Inv, NEW c \in Callers, NEW k \in Keys, NEW v \in Values,
           WriteState(c, k, v), ValidKey(k), ValidValue(v)
    PROVE  Inv'
<1>1. /\ pc[c] = "idle" /\ pc' = [pc EXCEPT ![c] = "sent"]
      /\ op' = [op EXCEPT ![c] = "write"] /\ key' = [key EXCEPT ![c] = k]
      /\ value' = [value EXCEPT ![c] = v]
      /\ result' = [result EXCEPT ![c] = Failed]
      /\ UNCHANGED <<timeout, stored, adrift, answer>>
  BY DEF WriteState, Refuse, Send, host
<1>2. alone' = [d \in Callers |->
        IF d = c THEN \A e \in Callers \ {c} : ~Writing(e, k)
                 ELSE alone[d] /\ ~Writing(d, k)]
  BY DEF WriteState, Refuse
<1>3. /\ may' = [may EXCEPT ![k] = @ \cup {v}]
      /\ seen' = [d \in Callers |->
           IF pc[d] # "idle" /\ key[d] = k THEN seen[d] \cup {v} ELSE seen[d]]
  BY DEF WriteState, Refuse
<1> USE DEF Inv
<1>4. TypeOK'
  <2>1. Failed \in Outcomes
    BY Kinds
  <2>2. v \in Cells
    BY DEF Cells
  <2>3. (may \in [Keys -> SUBSET Cells])'
    BY <1>3, <2>2 DEF TypeOK
  <2>4. (seen \in [Callers -> SUBSET Cells])'
    BY <1>3, <2>2 DEF TypeOK
  <2>5. (alone \in [Callers -> BOOLEAN])'
    BY <1>2 DEF TypeOK, Writing
  <2> QED BY <1>1, <2>1, <2>3, <2>4, <2>5 DEF TypeOK
<1>5. CallInv'
  BY <1>1, <1>2 DEF CallInv, TypeOK, Sends
<1>6. StoredExplained'
  BY <1>1, <1>3 DEF StoredExplained, TypeOK
<1>7. PendingInv'
  BY <1>1, <1>3 DEF PendingInv, TypeOK, Sends
<1>8. SettleInv'
  <2> SUFFICES ASSUME NEW d \in Callers, Sends(d, "write")'
               PROVE  /\ alone'[d] => \A e \in Callers \ {d} : ~Writing(e, key[d])'
                      /\ answer'[d] \in {Done, Failed}
                      /\ answer'[d] = Done => stored'[key'[d]] # Absent
                      /\ answer'[d] = Done /\ alone'[d]
                           => stored'[key'[d]] \in {value'[d]} \cup adrift'[key'[d]]
    BY DEF SettleInv
  <2>1. CASE d = c
    <3>1. answer'[d] = Failed
      BY <1>1, <2>1 DEF CallInv, TypeOK
    <3>2. Failed # Done
      BY Kinds
    <3>3. alone'[d] => \A e \in Callers \ {d} : ~Writing(e, key[d])'
      BY <1>1, <1>2, <2>1 DEF TypeOK, Writing
    <3> QED BY <3>1, <3>2, <3>3
  <2>2. CASE d # c
    <3>1. Sends(d, "write")
      BY <1>1, <2>2 DEF TypeOK, Sends
    <3>2. alone'[d] => alone[d] /\ key[d] # k
      BY <1>2, <2>2, <3>1 DEF Writing, Sends
    <3>3. alone'[d] => \A e \in Callers \ {d} : ~Writing(e, key[d])'
      BY <1>1, <2>2, <3>1, <3>2 DEF SettleInv, TypeOK, Writing
    <3>4. /\ answer'[d] \in {Done, Failed}
          /\ answer'[d] = Done => stored'[key'[d]] # Absent
          /\ answer'[d] = Done /\ alone'[d]
               => stored'[key'[d]] \in {value'[d]} \cup adrift'[key'[d]]
      BY <1>1, <2>2, <3>1, <3>2 DEF SettleInv, TypeOK
    <3> QED BY <3>3, <3>4
  <2> QED BY <2>1, <2>2
<1>9. ReadInv'
  BY <1>1, <1>3 DEF ReadInv, CallInv, TypeOK, Sends
<1>10. ReadExplained'
  <2>1. Failed.kind # "found" /\ Failed # NotExist
    BY Kinds
  <2> QED BY <1>1, <1>3, <2>1 DEF ReadExplained, TypeOK
<1> QED BY <1>4, <1>5, <1>6, <1>7, <1>8, <1>9, <1>10

LEMMA RefuseStep ==
    ASSUME Inv, NEW c \in Callers, NEW valid \in BOOLEAN, Refuse(c, valid)
    PROVE  Inv'
<1> USE DEF Refuse, host, call, Inv
<1>1. Failed \in Outcomes /\ Failed.kind # "found" /\ Failed # NotExist
  BY Kinds
<1>2. TypeOK'
  BY <1>1 DEF TypeOK
<1>3. CallInv' /\ StoredExplained' /\ PendingInv' /\ SettleInv'
  BY DEF CallInv, StoredExplained, PendingInv, SettleInv, Sends, Writing
<1>4. ReadInv'
  BY DEF ReadInv, TypeOK, Sends
<1>5. ReadExplained'
  BY <1>1 DEF ReadExplained, TypeOK
<1> QED BY <1>2, <1>3, <1>4, <1>5

\* The host answers: with the value it holds, having stored the write, or
\* with an error whatever became of the write.
LEMMA AnswerStep ==
    ASSUME Inv, NEW c \in Callers, NEW a \in Outcomes, Answer(c, a),
           op[c] = "write" => a \in {Done, Failed},
           op[c] = "read" =>
             /\ a # Done
             /\ a.kind = "found" => a.value = stored[key[c]]
             /\ a = NotExist => stored[key[c]] = Absent,
           a = Done => stored'[key[c]] = value[c],
           \/ stored' = stored
           \/ op[c] = "write" /\ stored' = [stored EXCEPT ![key[c]] = value[c]],
           \/ adrift' = adrift
           \/ op[c] = "write" /\ a = Failed /\ stored' = stored
              /\ adrift' = [adrift EXCEPT ![key[c]] = @ \cup {value[c]}]
    PROVE  Inv'
<1> USE DEF Answer, Inv
<1>1. TypeOK'
  <2>1. key[c] \in Keys /\ value[c] \in Values /\ value[c] \in Cells
    BY DEF TypeOK, Cells
  <2>2. /\ (pc \in [Callers -> {"idle", "sent", "answered"}])'
        /\ (\A d \in Callers : pc[d] # "idle" => key[d] \in Keys)'
    BY DEF TypeOK
  <2>3. (stored \in [Keys -> Cells])'
    BY <2>1 DEF TypeOK
  <2>4. (adrift \in [Keys -> SUBSET Values])'
    BY <2>1 DEF TypeOK
  <2>5. (answer \in [Callers -> Outcomes])'
    BY DEF TypeOK
  <2> QED BY <2>2, <2>3, <2>4, <2>5 DEF TypeOK
<1>2. CallInv'
  BY DEF CallInv, TypeOK, Sends
<1>3. StoredExplained'
  BY DEF StoredExplained, PendingInv, TypeOK, Sends
<1>4. PendingInv'
  BY DEF PendingInv, TypeOK, Sends
<1>5. SettleInv'
  <2> SUFFICES ASSUME NEW d \in Callers, Sends(d, "write")'
               PROVE  /\ alone'[d] => \A e \in Callers \ {d} : ~Writing(e, key[d])'
                      /\ answer'[d] \in {Done, Failed}
                      /\ answer'[d] = Done => stored'[key'[d]] # Absent
                      /\ answer'[d] = Done /\ alone'[d]
                           => stored'[key'[d]] \in {value'[d]} \cup adrift'[key'[d]]
    BY DEF SettleInv
  <2>1. Sends(d, "write")
    BY DEF TypeOK, Sends
  <2>2. alone'[d] => \A e \in Callers \ {d} : ~Writing(e, key[d])'
    BY <2>1 DEF SettleInv, TypeOK, Writing
  <2>3. CASE d = c
    <3>1. answer'[c] = a /\ a \in {Done, Failed} /\ value[c] \in Values
      BY <2>1, <2>3 DEF Sends, TypeOK
    <3> QED BY <2>1, <2>2, <2>3, <3>1, AbsentIsNoValue DEF Sends, TypeOK
  <2>4. CASE d # c
    <3>1. answer'[d] = answer[d] /\ answer[d] \in {Done, Failed}
      BY <2>1, <2>4 DEF SettleInv, TypeOK
    <3>2. ASSUME answer[d] = Done, alone[d]
          PROVE  stored'[key[d]] \in {value[d]} \cup adrift'[key[d]]
      <4>1. stored[key[d]] \in {value[d]} \cup adrift[key[d]]
        BY <2>1, <3>2 DEF SettleInv
      <4>2. op[c] = "write" => key[c] # key[d]
        BY <2>1, <2>4, <3>2 DEF SettleInv, Writing
      <4>3. key[d] \in Keys /\ key[c] \in Keys
        BY <2>1 DEF TypeOK, Sends
      <4>4. stored'[key[d]] = stored[key[d]] /\ adrift'[key[d]] = adrift[key[d]]
        BY <4>2, <4>3 DEF TypeOK
      <4> QED BY <4>1, <4>4
    <3>3. ASSUME answer[d] = Done PROVE stored'[key[d]] # Absent
      <4>1. stored[key[d]] # Absent
        BY <2>1, <3>3 DEF SettleInv
      <4>2. value[c] \in Values /\ stored'[key[d]] \in {stored[key[d]], value[c]}
        BY <2>1 DEF TypeOK, Sends
      <4> QED BY <4>1, <4>2, AbsentIsNoValue
    <3> QED BY <2>2, <3>1, <3>2, <3>3
  <2> QED BY <2>3, <2>4
<1>6. ReadInv'
  BY DEF ReadInv, StoredExplained, TypeOK, Sends
<1>7. ReadExplained'
  BY DEF ReadExplained, TypeOK
<1> QED BY <1>1, <1>2, <1>3, <1>4, <1>5, <1>6, <1>7

LEMMA LateStep ==
    ASSUME Inv, NEW k \in Keys, LateWrite(k)
    PROVE  Inv'
<1> USE DEF LateWrite, call, Inv
<1>1. TypeOK'
  BY DEF TypeOK, Cells
<1>2. CallInv' /\ PendingInv' /\ ReadInv' /\ ReadExplained'
  BY DEF CallInv, PendingInv, ReadInv, ReadExplained, Sends
<1>3. StoredExplained'
  BY DEF StoredExplained, PendingInv, TypeOK
<1>4. SettleInv'
  BY AbsentIsNoValue DEF SettleInv, TypeOK, Sends, Writing
<1> QED BY <1>1, <1>2, <1>3, <1>4

\* Every step keeps the invariant.
LEMMA NextInv == Inv /\ [Next]_vars => Inv'
<1> SUFFICES ASSUME Inv, [Next]_vars PROVE Inv'
  OBVIOUS
<1>1. ASSUME NEW c \in Callers, NEW k \in 0..MaxKeyBytes + 1, ReadState(c, k)
      PROVE  Inv'
  <2>1. CASE Refuse(c, ValidKey(k))
    <3>1. ValidKey(k) \in BOOLEAN
      BY DEF ValidKey
    <3> QED BY <2>1, <3>1, RefuseStep
  <2>2. CASE ~Refuse(c, ValidKey(k))
    <3>1. k \in Keys
      BY <1>1, <2>2, LimitsAssumption DEF ReadState, ValidKey, Keys
    <3> QED BY <1>1, <2>2, <3>1, ReadStep DEF ReadState
  <2> QED BY <2>1, <2>2
<1>2. ASSUME NEW c \in Callers, NEW k \in 0..MaxKeyBytes + 1,
             NEW v \in 0..MaxValueBytes + 1, WriteState(c, k, v)
      PROVE  Inv'
  <2>1. CASE Refuse(c, ValidKey(k) /\ ValidValue(v))
    <3>1. (ValidKey(k) /\ ValidValue(v)) \in BOOLEAN
      OBVIOUS
    <3> QED BY <2>1, <3>1, RefuseStep
  <2>2. CASE ~Refuse(c, ValidKey(k) /\ ValidValue(v))
    <3>1. ValidKey(k) /\ ValidValue(v)
      BY <1>2, <2>2 DEF WriteState
    <3>2. k \in Keys /\ v \in Values
      BY <3>1, LimitsAssumption DEF ValidKey, ValidValue, Keys, Values
    <3> QED BY <1>2, <3>1, <3>2, WriteStep
  <2> QED BY <2>1, <2>2
<1>3. ASSUME NEW c \in Callers, Return(c) PROVE Inv'
  <2>1. /\ answer[c] \in Outcomes /\ Finish(c, answer[c]) /\ pc[c] = "answered"
        /\ adrift' = adrift
    BY <1>3 DEF Return, Inv, TypeOK
  <2>2. CASE answer[c] = Done
    <3>1. op[c] = "write"
      BY <2>1, <2>2 DEF Inv, CallInv, ReadInv, Sends, TypeOK
    <3>2. may' = Acknowledged(c)
      BY <1>3, <2>2 DEF Return
    <3> QED BY <2>1, <2>2, <3>1, <3>2, FinishStep
  <2>3. CASE answer[c] # Done
    <3>1. may' = may
      BY <1>3, <2>3 DEF Return
    <3> QED BY <2>1, <3>1, FinishStep
  <2> QED BY <2>2, <2>3
<1>4. ASSUME NEW c \in Callers, Deadline(c) PROVE Inv'
  <2>1. /\ Failed \in Outcomes /\ Finish(c, Failed) /\ pc[c] # "idle" /\ may' = may
        /\ \/ adrift' = adrift
           \/ op[c] = "write" /\ adrift' = [adrift EXCEPT ![key[c]] = @ \cup {value[c]}]
    BY <1>4, Kinds DEF Deadline, Adrift
  <2> QED BY <2>1, FinishStep
<1>5. ASSUME NEW c \in Callers, HostRead(c) PROVE Inv'
  <2>1. op[c] = "read" /\ pc[c] = "sent" /\ UNCHANGED <<stored, adrift>>
    BY <1>5 DEF HostRead, Answer, host
  <2>2. stored[key[c]] \in Values \cup {Absent}
    BY <2>1 DEF Inv, TypeOK, Cells
  <2>3. CASE stored[key[c]] = Absent
    <3>1. Answer(c, NotExist)
      BY <1>5, <2>3 DEF HostRead
    <3>2. NotExist \in Outcomes /\ NotExist # Done /\ NotExist.kind # "found"
      BY Kinds
    <3> QED BY <2>1, <2>3, <3>1, <3>2, AnswerStep
  <2>4. CASE stored[key[c]] # Absent
    <3> DEFINE a == Found(stored[key[c]])
    <3>1. Answer(c, a)
      BY <1>5, <2>4 DEF HostRead
    <3>2. a \in Outcomes /\ a # Done /\ a # NotExist /\ a.value = stored[key[c]]
      BY <2>2, <2>4, Kinds
    <3> QED BY <2>1, <3>1, <3>2, AnswerStep
  <2> QED BY <2>3, <2>4
<1>6. ASSUME NEW c \in Callers, HostWrite(c) PROVE Inv'
  <2>1. /\ op[c] = "write" /\ pc[c] = "sent" /\ adrift' = adrift /\ Answer(c, Done)
        /\ stored' = [stored EXCEPT ![key[c]] = value[c]]
    BY <1>6 DEF HostWrite, Answer
  <2>2. stored'[key[c]] = value[c]
    BY <2>1 DEF Inv, TypeOK
  <2>3. Done \in Outcomes
    BY Kinds
  <2> QED BY <2>1, <2>2, <2>3, AnswerStep
<1>7. ASSUME NEW c \in Callers, HostFails(c) PROVE Inv'
  <2>1. /\ Failed \in Outcomes /\ Failed # Done /\ Failed # NotExist
        /\ Failed.kind # "found"
    BY Kinds
  <2>2. /\ Answer(c, Failed)
        /\ \/ stored' = stored
           \/ op[c] = "write" /\ stored' = [stored EXCEPT ![key[c]] = value[c]]
        /\ \/ adrift' = adrift
           \/ op[c] = "write" /\ stored' = stored
              /\ adrift' = [adrift EXCEPT ![key[c]] = @ \cup {value[c]}]
    BY <1>7 DEF HostFails, Answer, Adrift, host
  <2> QED BY <2>1, <2>2, AnswerStep
<1>8. ASSUME NEW k \in Keys, LateWrite(k) PROVE Inv'
  BY <1>8, LateStep
<1>9. CASE UNCHANGED vars
  <2> USE <1>9 DEF vars, call, host, Inv
  <2>1. TypeOK' /\ CallInv' /\ StoredExplained'
    BY DEF TypeOK, CallInv, StoredExplained, Sends
  <2>2. PendingInv' /\ SettleInv' /\ ReadInv' /\ ReadExplained'
    BY DEF PendingInv, SettleInv, ReadInv, ReadExplained, Sends, Writing
  <2> QED BY <2>1, <2>2
<1> QED BY <1>1, <1>2, <1>3, <1>4, <1>5, <1>6, <1>7, <1>8, <1>9 DEF Next

LEMMA InvHolds == Spec => []Inv
BY InitInv, NextInv, PTL DEF Spec

\* The type invariant, for all callers and limits: no key or value over its
\* limit is ever on its way to the host.
THEOREM TypeCorrect == Spec => []TypeOK
<1>1. Inv => TypeOK
  BY DEF Inv
<1> QED BY <1>1, InvHolds, PTL

\* Whatever is lost, late or given up, the host keeps a value that the calls
\* acknowledged, pending or given up account for.
THEOREM StoredIsExplained == Spec => []StoredExplained
<1>1. Inv => StoredExplained
  BY DEF Inv
<1> QED BY <1>1, InvHolds, PTL

\* And no read returns anything else, nor takes an acknowledged key for absent.
THEOREM ReadsAreExplained == Spec => []ReadExplained
<1>1. Inv => ReadExplained
  BY DEF Inv
<1> QED BY <1>1, InvHolds, PTL
=============================================================================
