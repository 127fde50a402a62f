-------------------------- MODULE JsonCallsProofs --------------------------
(***************************************************************************)
(* Theorems about JsonCalls, for all limits and bodies of any length.      *)
(***************************************************************************)
EXTENDS JsonCalls, TLAPS

-----------------------------------------------------------------------------
(* The inductive invariant.                                                *)

\* TypeOK, in two parts.
Flags ==
    /\ via \in {"http", "plugin"} /\ dest \in BOOLEAN
    /\ status \in Statuses /\ body \in Bodies /\ framing \in {"length", "chunked"}
    /\ pc \in {"sent", "returned"} \cup Reading
    /\ eof \in BOOLEAN /\ broken \in BOOLEAN
    /\ result \in {"none", "error", "status", "done", "empty", "value"}

Counts ==
    /\ read \in 0..Total(body) /\ read <= 2 * Limit
    /\ left \in Nat
    /\ taken \in 0..MaxPart

\* What a call that goes on may still return.
WaitInv ==
    pc = "sent" => /\ read = 0 /\ eof /\ ~broken
                   /\ result = "none"

\* DoJSON reads for one reason at a time.
PhaseInv ==
    /\ pc \in Reading => via = "http" /\ ~broken
    /\ pc \in Reading \ {"drain"} => result = "none"
    /\ pc = "error body" => status \notin 200..299
    /\ pc = "discard" => ~dest \/ status = 204
    /\ pc \in {"decode", "drain"} => dest /\ status = 200

\* What the LimitReaders let through was read: one until Decode returns, two
\* from there on.
ReadInv ==
    /\ pc \in Reading => /\ read + left >= Limit /\ read + left <= 2 * Limit
                         /\ left <= Limit
    /\ pc \in Reading \ {"drain"} => read + left = Limit

\* SuccessIsWhole, as soon as Decode has returned.
DecodedInv ==
    /\ result = "value" /\ pc = "drain" =>
         /\ body.kind # "bad"
         /\ \/ taken = body.value
            \/ body.kind = "number" /\ ValueEnd(body) > Limit
    /\ result = "empty" /\ pc = "drain" => body.value = 0 \/ body.lead >= Limit
    /\ pc = "drain" => result \in {"value", "empty", "error"}

Inv == Flags /\ Counts /\ WaitInv /\ PhaseInv /\ ReadInv /\ DecodedInv
         /\ SuccessIsWhole /\ ConnectionReusable

-----------------------------------------------------------------------------

\* The lengths of a body add up.
LEMMA Lengths ==
    ASSUME NEW b \in Bodies
    PROVE  /\ b.lead \in 0..MaxPart /\ b.value \in 0..MaxPart /\ b.tail \in 0..MaxPart
           /\ ValueEnd(b) = b.lead + b.value
           /\ Total(b) = b.lead + b.value + b.tail
           /\ b.value = 0 <=> b.kind = "none"
           /\ b.kind \in {"none", "object", "number", "bad"}
BY LimitsAssumption DEF Bodies, ValueEnd, Total

LEMMA NoBodyOK == NoBody \in Bodies /\ Total(NoBody) = 0
BY LimitsAssumption DEF NoBody, Bodies, Total, ValueEnd

\* No call was made yet.
LEMMA InitInv == Init => Inv
<1> SUFFICES ASSUME Init
             PROVE  Inv
  OBVIOUS
<1>1. body \in Bodies /\ Total(body) = 0 /\ eof /\ pc = "returned" /\ result = "none"
  BY NoBodyOK DEF Init
<1>2. Flags
  BY <1>1 DEF Init, Flags, Statuses
<1>3. Counts
  BY <1>1, LimitsAssumption DEF Init, Counts
<1>4. QED
  BY <1>1, <1>2, <1>3
     DEF Inv, WaitInv, PhaseInv, ReadInv, DecodedInv, SuccessIsWhole,
         ConnectionReusable, Reading

\* A call begins with nothing read, or ends at once.
LEMMA CallKeepsInv ==
    ASSUME Inv, NEW v \in {"http", "plugin"}, NEW d \in BOOLEAN, Call(v, d)
    PROVE  Inv'
<1>1. /\ body' \in Bodies /\ Total(body') = 0
      /\ read' = 0 /\ eof' /\ ~broken'
      /\ \/ pc' = "sent" /\ result' = "none"
         \/ pc' = "returned" /\ result' = "error"
  BY NoBodyOK DEF Call
<1>2. Flags'
  BY <1>1 DEF Call, Flags, Statuses
<1>3. Counts'
  BY <1>1, LimitsAssumption DEF Call, Counts
<1>4. QED
  BY <1>1, <1>2, <1>3
     DEF Inv, WaitInv, PhaseInv, ReadInv, DecodedInv, SuccessIsWhole,
         ConnectionReusable, Reading

LEMMA NoAnswerKeepsInv == Inv /\ NoAnswer => Inv'
BY LimitsAssumption
   DEF NoAnswer, Inv, Flags, Counts, WaitInv, PhaseInv, ReadInv, DecodedInv, SuccessIsWhole,
       ConnectionReusable, Reading, Statuses, request, answer, stream

\* The status decides what the body is read for.
LEMMA RespondKeepsInv ==
    ASSUME Inv, NEW s \in Statuses, NEW b \in Bodies,
           NEW f \in {"length", "chunked"}, Respond(s, b, f)
    PROVE  Inv'
<1>1. Total(b) \in Nat
  BY Lengths, LimitsAssumption
<1>2. /\ PhaseOf(s) \in {"error body", "discard", "decode"}
      /\ PhaseOf(s) = "error body" => s \notin 200..299
      /\ PhaseOf(s) = "discard" => ~dest \/ s = 204
      /\ PhaseOf(s) = "decode" => dest /\ s = 200
  BY DEF PhaseOf, Statuses, Inv, Flags
<1>3. /\ pc' = PhaseOf(s) /\ status' = s /\ body' = b /\ framing' = f
      /\ left' = Limit /\ eof' \in BOOLEAN /\ via = "http"
      /\ UNCHANGED <<via, dest, read, broken, result, taken>>
      /\ read = 0 /\ ~broken /\ result = "none"
  BY DEF Respond, Answers, Inv, WaitInv, request
<1>4. Flags'
  BY <1>2, <1>3 DEF Inv, Flags, Reading
<1>5. Counts'
  BY <1>1, <1>3, LimitsAssumption DEF Inv, Counts
<1>6. PhaseInv'
  BY <1>2, <1>3 DEF PhaseInv, Reading
<1>7. ReadInv'
  <2>1. read' + left' = Limit /\ left' <= Limit /\ Limit <= 2 * Limit
    BY <1>3, LimitsAssumption
  <2>2. QED
    BY <2>1, LimitsAssumption DEF ReadInv
<1>8. WaitInv' /\ DecodedInv' /\ SuccessIsWhole' /\ ConnectionReusable'
  BY <1>2, <1>3 DEF WaitInv, DecodedInv, SuccessIsWhole, ConnectionReusable
<1>9. QED
  BY <1>4, <1>5, <1>6, <1>7, <1>8 DEF Inv

\* The host's answer is judged at once.
LEMMA PluginAnswersKeepsInv ==
    ASSUME Inv, NEW s \in Statuses, NEW b \in Bodies,
           NEW f \in {"length", "chunked"}, PluginAnswers(s, b, f)
    PROVE  Inv'
<1>1. /\ Total(b) \in Nat /\ b.value \in 0..MaxPart
      /\ b.kind \in {"object", "number"} => b.kind # "bad"
  BY Lengths, LimitsAssumption
<1>2. /\ PluginOutcome(s, b) \in {"status", "error", "done", "value"}
      /\ PluginOutcome(s, b) = "value" => s < 400 /\ b.kind # "bad"
      /\ PluginOutcome(s, b) = "done" /\ dest => Total(b) = 0
      /\ PluginOutcome(s, b) \in {"value", "done"} => Total(b) <= PluginLimit
  BY <1>1, LimitsAssumption DEF PluginOutcome, Statuses, Inv, Flags
<1>3. /\ pc' = "returned" /\ result' = PluginOutcome(s, b)
      /\ status' = s /\ body' = b /\ framing' = f /\ via = "plugin"
      /\ taken' = IF result' = "value" THEN b.value ELSE 0
      /\ UNCHANGED <<via, dest, read, left, eof, broken>>
      /\ read = 0 /\ eof
  BY DEF PluginAnswers, Answers, Inv, WaitInv, request, stream
<1>4. Flags'
  BY <1>2, <1>3 DEF Inv, Flags
<1>5. Counts'
  BY <1>1, <1>3, LimitsAssumption DEF Inv, Counts
<1>6. WaitInv' /\ PhaseInv' /\ ReadInv' /\ DecodedInv' /\ ConnectionReusable'
  BY <1>2, <1>3
     DEF WaitInv, PhaseInv, ReadInv, DecodedInv, ConnectionReusable, Reading
<1>7. SuccessIsWhole'
  <2>1. Total(body') = Total(b)
    BY <1>3
  <2>2. QED
    BY <1>2, <1>3, <2>1 DEF SuccessIsWhole
<1>8. QED
  BY <1>4, <1>5, <1>6, <1>7 DEF Inv

-----------------------------------------------------------------------------

\* What Decode returned after n bytes, with the drain ahead.
LEMMA StopKeepsInv ==
    ASSUME Inv, pc = "decode", NEW n \in Nat, NEW r \in {"value", "empty", "error"},
           n <= Limit, n <= Total(body),
           Stop(r, n), read' = n, eof' \in BOOLEAN,
           UNCHANGED <<request, answer, broken>>,
           r = "value" => body.kind # "bad" /\ n >= body.lead,
           r = "value" /\ n < ValueEnd(body) => n = Limit /\ body.kind = "number",
           r = "empty" => body.value = 0 \/ body.lead >= Limit
    PROVE  Inv'
<1>1. /\ body.lead \in Nat /\ body.value \in 0..MaxPart /\ body.tail \in Nat
      /\ ValueEnd(body) = body.lead + body.value /\ Total(body) \in Nat
  BY Lengths, LimitsAssumption DEF Inv, Flags
<1>2. /\ pc' = "drain" /\ left' = Limit /\ result' = r
      /\ taken' \in 0..MaxPart
      /\ r = "value" => \/ taken' = body.value
                        \/ body.kind = "number" /\ ValueEnd(body) > Limit
  BY <1>1, LimitsAssumption DEF Stop, Smaller
<1>3. /\ read' = n /\ eof' \in BOOLEAN
      /\ UNCHANGED <<via, dest, status, body, framing, broken>>
  BY DEF request, answer
<1>4. Flags'
  BY <1>2, <1>3 DEF Inv, Flags, Reading
<1>5. Counts'
  BY <1>1, <1>2, <1>3, LimitsAssumption DEF Inv, Counts
<1>6. PhaseInv' /\ WaitInv'
  BY <1>2, <1>3 DEF Inv, PhaseInv, WaitInv, Reading
<1>7. ReadInv'
  BY <1>2, <1>3, LimitsAssumption DEF ReadInv, Reading
<1>8. ValueEnd(body') = ValueEnd(body)
  BY <1>3
<1>9. DecodedInv' /\ SuccessIsWhole' /\ ConnectionReusable'
  BY <1>2, <1>3, <1>8 DEF DecodedInv, SuccessIsWhole, ConnectionReusable
<1>10. QED
  BY <1>4, <1>5, <1>6, <1>7, <1>9 DEF Inv

\* While the phase is the same, so is what it stands for.
LEMMA PhaseStands ==
    ASSUME PhaseInv, UNCHANGED <<via, dest, status, pc, broken, result>>
    PROVE  PhaseInv'
BY DEF PhaseInv

LEMMA ArriveKeepsInv == Inv /\ Arrive => Inv'
<1> SUFFICES ASSUME Inv, Arrive
             PROVE  Inv'
  OBVIOUS
<1>1. PICK n \in 1..Smaller(Total(body) - read, left) :
        /\ read' = read + n
        /\ eof' = (framing = "length" /\ read + n = Total(body))
        /\ IF pc = "decode" /\ Decoded(read + n)
             THEN Stop(IF body.kind = "bad" THEN "error" ELSE "value", read + n)
             ELSE UNCHANGED <<pc, result, taken>> /\ left' = left - n
  BY DEF Arrive
<1>2. /\ pc \in Reading /\ UNCHANGED <<request, answer, broken>>
      /\ eof' \in BOOLEAN
  BY <1>1 DEF Arrive
<1>3. /\ body.lead \in Nat /\ body.value \in Nat /\ body.tail \in Nat
      /\ ValueEnd(body) = body.lead + body.value /\ Total(body) \in Nat
      /\ read \in Nat /\ left \in Nat /\ read <= Total(body)
  BY Lengths, LimitsAssumption DEF Inv, Flags, Counts
<1>4. /\ left <= Limit /\ read + left <= 2 * Limit
      /\ pc = "decode" => read + left = Limit
  BY <1>2 DEF Inv, ReadInv, Reading
<1>5. n \in Nat /\ n >= 1 /\ n <= left /\ n <= Total(body) - read
  BY <1>3 DEF Smaller
<1>6. CASE pc = "decode" /\ Decoded(read + n)
  <2> DEFINE m == read + n
  <2>1. /\ m \in Nat /\ m <= Limit /\ m <= Total(body)
        /\ m >= ValueEnd(body) /\ m >= body.lead
    BY <1>3, <1>4, <1>5, <1>6, LimitsAssumption DEF Decoded
  <2>2. read' = m /\ pc = "decode"
    BY <1>1, <1>6
  <2>3. Stop(IF body.kind = "bad" THEN "error" ELSE "value", m)
    BY <1>1, <1>6
  <2> HIDE DEF m
  <2>4. CASE body.kind = "bad"
    <3>1. Stop("error", m)
      BY <2>3, <2>4
    <3>2. QED
      BY <3>1, <1>2, <2>1, <2>2, StopKeepsInv
  <2>5. CASE body.kind # "bad"
    <3>1. Stop("value", m)
      BY <2>3, <2>5
    <3>2. body.lead \in Nat /\ ValueEnd(body) \in Nat
      BY <1>3
    <3>3. ~(m < ValueEnd(body))
      BY <2>1, <3>2
    <3>4. QED
      BY <3>1, <3>3, <1>2, <2>1, <2>2, <2>5, StopKeepsInv
  <2>6. QED
    BY <2>4, <2>5
<1>7. CASE ~(pc = "decode" /\ Decoded(read + n))
  <2>1. /\ pc' = pc /\ result' = result /\ taken' = taken
        /\ left' = left - n /\ read' = read + n
    BY <1>1, <1>7
  <2>2. pc # "sent" /\ pc # "returned"
    BY <1>2 DEF Reading
  <2>3. UNCHANGED <<via, dest, status, body, framing, broken>>
    BY <1>2 DEF request, answer
  <2>4. Flags'
    BY <1>2, <2>1, <2>3 DEF Inv, Flags
  <2>5. Counts'
    <3>1. read + n \in 0..Total(body) /\ read + n <= 2 * Limit /\ left - n \in Nat
      BY <1>3, <1>4, <1>5, LimitsAssumption
    <3>2. QED
      BY <2>1, <2>3, <3>1 DEF Inv, Counts
  <2>6. PhaseInv'
    <3>1. UNCHANGED <<via, dest, status, pc, broken, result>>
      BY <2>1, <2>3
    <3>2. QED
      BY <3>1, PhaseStands DEF Inv
  <2>7. ReadInv'
    <3>1. /\ (read + n) + (left - n) = read + left
          /\ left - n <= Limit
      BY <1>3, <1>4, <1>5, LimitsAssumption
    <3>2. /\ pc' = pc /\ read' + left' = read + left
          /\ left' <= Limit
      BY <2>1, <3>1
    <3>3. QED
      BY <3>2 DEF Inv, ReadInv
  <2>8. QED
    BY <2>1, <2>2, <2>3, <2>4, <2>5, <2>6, <2>7
       DEF Inv, WaitInv, DecodedInv, SuccessIsWhole, ConnectionReusable
<1>8. QED
  BY <1>6, <1>7

LEMMA EndOfInputKeepsInv == Inv /\ EndOfInput => Inv'
<1> SUFFICES ASSUME Inv, EndOfInput
             PROVE  Inv'
  OBVIOUS
<1>1. /\ body.lead \in Nat /\ body.value \in Nat /\ body.tail \in Nat
      /\ ValueEnd(body) = body.lead + body.value
      /\ Total(body) = body.lead + body.value + body.tail
      /\ body.kind \in {"none", "object", "number", "bad"}
      /\ body.value = 0 <=> body.kind = "none"
      /\ read \in Nat /\ left \in Nat /\ read <= Total(body)
      /\ eof \in BOOLEAN /\ pc \in Reading
  BY Lengths, LimitsAssumption DEF Inv, Flags, Counts, EndOfInput
<1>2. read' = read /\ UNCHANGED <<request, answer, broken>> /\ eof' = (eof \/ left > 0)
  BY DEF EndOfInput
<1>3. CASE pc = "decode"
  <2>1. Stop(AtEnd, read) /\ (left = 0 \/ read = Total(body))
    BY <1>3 DEF EndOfInput
  <2>2. read <= Limit /\ (left = 0 => read = Limit)
    BY <1>1, <1>3, LimitsAssumption DEF Inv, ReadInv, Reading
  <2>3. AtEnd \in {"value", "empty", "error"}
    BY <1>1 DEF AtEnd
  <2>4. AtEnd = "value" => /\ body.kind = "number" /\ read >= body.lead
                           /\ read < ValueEnd(body) => read = Limit
    BY <1>1, <2>1, <2>2 DEF AtEnd
  <2>5. AtEnd = "empty" => body.value = 0 \/ body.lead >= Limit
    <3>1. AtEnd = "empty" => body.value = 0 \/ read <= body.lead
      BY DEF AtEnd
    <3>2. read <= body.lead /\ left # 0 => body.value = 0
      BY <1>1, <2>1
    <3>3. read <= body.lead /\ left = 0 => body.lead >= Limit
      BY <1>1, <2>2, LimitsAssumption
    <3>4. QED
      BY <3>1, <3>2, <3>3
  <2>6. eof' \in BOOLEAN
    BY <1>1, <1>2
  <2>7. QED
    BY <1>1, <1>2, <1>3, <2>1, <2>2, <2>3, <2>4, <2>5, <2>6, StopKeepsInv
<1>4. CASE pc # "decode"
  <2>1. /\ pc' = "returned" /\ UNCHANGED <<taken, left>>
        /\ left = 0 \/ read = Total(body)
        /\ pc = "error body" => result' = "status"
        /\ pc = "discard" => result' = "done"
        /\ pc = "drain" => result' = result
    BY <1>4 DEF EndOfInput, Returned
  <2>2. pc \in {"error body", "discard", "drain"}
    BY <1>1, <1>4 DEF Reading
  <2>3. Total(body) < Limit => eof'
    <3>1. read + left >= Limit
      BY <1>1 DEF Inv, ReadInv
    <3>2. Total(body) < Limit => left > 0
      BY <1>1, <3>1, LimitsAssumption
    <3>3. QED
      BY <1>2, <3>2
  <2>4. UNCHANGED <<via, dest, status, body, framing, broken>>
    BY <1>2 DEF request, answer
  <2>5. Flags' /\ Counts'
    BY <1>1, <1>2, <2>1, <2>2, <2>4 DEF Inv, Flags, Counts
  <2>6. SuccessIsWhole'
    <3>1. PhaseInv /\ DecodedInv
      BY DEF Inv
    <3>2. CASE pc = "drain"
      <4>1. via = "http" /\ status = 200 /\ result' = result
        BY <2>1, <3>1, <3>2 DEF PhaseInv, Reading
      <4>2. QED
        BY <2>1, <2>4, <3>1, <3>2, <4>1 DEF DecodedInv, SuccessIsWhole
    <3>3. CASE pc = "error body"
      BY <2>1, <2>4, <3>3 DEF SuccessIsWhole
    <3>4. CASE pc = "discard"
      <4>1. via = "http" /\ (dest => status = 204)
        BY <3>1, <3>4 DEF PhaseInv, Reading
      <4>2. QED
        BY <2>1, <2>4, <3>4, <4>1 DEF SuccessIsWhole
    <3>5. QED
      BY <2>2, <3>2, <3>3, <3>4
  <2>7. QED
    BY <2>1, <2>3, <2>4, <2>5, <2>6
       DEF Inv, WaitInv, PhaseInv, ReadInv, DecodedInv, ConnectionReusable,
           Reading
<1>5. QED
  BY <1>3, <1>4

\* A cut connection takes no success with it that Decode had not returned.
LEMMA BreakKeepsInv == Inv /\ Break => Inv'
<1> SUFFICES ASSUME Inv, Break
             PROVE  Inv'
  OBVIOUS
<1>1. /\ pc' = "returned" /\ broken' = TRUE
      /\ UNCHANGED <<request, answer, read, left, eof, taken>>
      /\ pc \in {"error body", "discard", "decode", "drain"}
      /\ pc = "error body" => result' = "status"
      /\ pc = "discard" => result' = "done"
      /\ pc = "decode" => result' = "error"
      /\ pc = "drain" => result' = result
  BY DEF Break, Returned, Reading
<1>2. UNCHANGED <<via, dest, status, body, framing>>
  BY <1>1 DEF request, answer
<1>3. Flags' /\ Counts'
  BY <1>1, <1>2 DEF Inv, Flags, Counts
<1>4. SuccessIsWhole'
  <2>1. PhaseInv /\ DecodedInv
    BY DEF Inv
  <2>2. CASE pc = "drain"
    <3>1. via = "http" /\ status = 200 /\ result' = result
      BY <1>1, <2>1, <2>2 DEF PhaseInv, Reading
    <3>2. QED
      BY <1>1, <1>2, <2>1, <2>2, <3>1 DEF DecodedInv, SuccessIsWhole
  <2>3. CASE pc \in {"error body", "decode"}
    BY <1>1, <1>2, <2>3 DEF SuccessIsWhole
  <2>4. CASE pc = "discard"
    <3>1. via = "http" /\ (dest => status = 204)
      BY <2>1, <2>4 DEF PhaseInv, Reading
    <3>2. QED
      BY <1>1, <1>2, <2>4, <3>1 DEF SuccessIsWhole
  <2>5. QED
    BY <1>1, <2>2, <2>3, <2>4
<1>5. QED
  BY <1>1, <1>2, <1>3, <1>4
     DEF Inv, WaitInv, PhaseInv, ReadInv, DecodedInv, ConnectionReusable,
           Reading

LEMMA StepKeepsInv == Inv /\ [Next]_vars => Inv'
<1> SUFFICES ASSUME Inv, [Next]_vars
             PROVE  Inv'
  OBVIOUS
<1>1. CASE UNCHANGED vars
  <2>1. UNCHANGED <<via, dest, status, body, framing, pc, read, left, eof,
                    broken, result, taken>>
    BY <1>1 DEF vars, request, answer, stream
  <2>2. Flags' /\ Counts' /\ WaitInv'
    BY <2>1 DEF Inv, Flags, Counts, WaitInv
  <2>3. PhaseInv' /\ ReadInv'
    BY <2>1, PhaseStands DEF Inv, ReadInv
  <2>4. DecodedInv' /\ SuccessIsWhole' /\ ConnectionReusable'
    BY <2>1 DEF Inv, DecodedInv, SuccessIsWhole, ConnectionReusable
  <2>5. QED
    BY <2>2, <2>3, <2>4 DEF Inv
<1>2. CASE \E v \in {"http", "plugin"}, d \in BOOLEAN : Call(v, d)
  BY <1>2, CallKeepsInv
<1>3. CASE NoAnswer
  BY <1>3, NoAnswerKeepsInv
<1>4. CASE \E s \in Statuses, b \in Bodies, f \in {"length", "chunked"} :
             Respond(s, b, f) \/ PluginAnswers(s, b, f)
  BY <1>4, RespondKeepsInv, PluginAnswersKeepsInv
<1>5. CASE Arrive \/ EndOfInput \/ Break
  BY <1>5, ArriveKeepsInv, EndOfInputKeepsInv, BreakKeepsInv
<1>6. QED
  BY <1>1, <1>2, <1>3, <1>4, <1>5 DEF Next

THEOREM Invariance == Spec => []Inv
<1>1. QED
  BY InitInv, StepKeepsInv, PTL DEF Spec

-----------------------------------------------------------------------------

\* httpclient.go:115-127: however long a body is, DoJSON reads no more than
\* twice its limit of it.
THEOREM TypeCorrect == Spec => []TypeOK
<1>1. Inv => TypeOK
  BY DEF Inv, Flags, Counts, TypeOK
<1>2. QED
  BY <1>1, Invariance, PTL

\* httpclient.go:115-132, call_json.go:65-82: for all limits, bodies and cuts,
\* a call that succeeds returns the whole value of an answer that is no error
\* and, between plugins, not over the limit; DoJSON cuts a number that reaches
\* past its limit, and takes blanks that fill it for an empty answer.
THEOREM SuccessesAreWhole == Spec => []SuccessIsWhole
<1>1. Inv => SuccessIsWhole
  BY DEF Inv
<1>2. QED
  BY <1>1, Invariance, PTL

\* httpclient.go:125-127: every path leaves a connection that was not cut fit
\* for the pool, if the body is below the limit.
THEOREM ConnectionsAreReusable == Spec => []ConnectionReusable
<1>1. Inv => ConnectionReusable
  BY DEF Inv
<1>2. QED
  BY <1>1, Invariance, PTL
=============================================================================
