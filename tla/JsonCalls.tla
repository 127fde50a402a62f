------------------------------ MODULE JsonCalls -----------------------------
(***************************************************************************)
(* The two JSON calls of the SDK: httpclient.DoJSON, which reads a bounded *)
(* part of a body that is still arriving, and runtimehost.CallPluginJSON,  *)
(* which gets the whole of it from the host.                               *)
(*                                                                         *)
(* A body is a number of blanks, a JSON value of a number of bytes (0 for  *)
(* none) and a number of bytes after it.                                   *)
(***************************************************************************)
EXTENDS Integers

CONSTANTS
    Limit,          \* maxResponseBody, 1 << 20
    PluginLimit,    \* MaxResponseBytes of CallPluginJSONRequest
    MaxPart         \* bound: the length of each part of a body

ASSUME LimitsAssumption ==
    Limit \in Nat \ {0} /\ PluginLimit \in Nat \ {0} /\ MaxPart \in Nat

VARIABLES
    via, dest,      \* the call: "http" or "plugin", and whether it wants a value
    status, body,   \* the answer
    framing,        \* how the end of the body shows: "length" or "chunked"
    pc,
    read,           \* bytes of the body read from the connection
    left,           \* what the LimitReader lets through
    eof,            \* the transport saw the end: the connection can be pooled
    broken,         \* cut by the server, or by the client's timeout
    result,         \* what the call returned
    taken           \* bytes of the value that were decoded

request == <<via, dest>>
answer == <<status, body, framing>>
stream == <<read, left, eof, broken>>
vars == <<request, answer, pc, stream, result, taken>>

\* The decoder knows an "object" by its last byte, and a "bad" value too; a
\* "number" goes on until another byte or the end of the input.  What follows
\* is blank unless it is "trailing".
Bodies ==
    {b \in [lead : 0..MaxPart, value : 0..MaxPart, tail : 0..MaxPart,
            kind : {"none", "object", "number", "bad"}, trailing : BOOLEAN] :
        /\ b.value = 0 <=> b.kind = "none"
        /\ b.trailing => b.value > 0 /\ b.tail > 0}

Statuses == {200, 204, 302, 404}
NoBody == [lead |-> 0, value |-> 0, tail |-> 0,
           kind |-> "none", trailing |-> FALSE]

ValueEnd(b) == b.lead + b.value
Total(b) == ValueEnd(b) + b.tail

Reading == {"error body", "discard", "decode", "drain"}
Smaller(a, b) == IF a < b THEN a ELSE b

\* However long the body is, no more than twice the limit is read of it.
TypeOK ==
    /\ via \in {"http", "plugin"} /\ dest \in BOOLEAN
    /\ status \in Statuses /\ body \in Bodies /\ framing \in {"length", "chunked"}
    /\ pc \in {"sent", "returned"} \cup Reading
    /\ read \in 0..Total(body) /\ read <= 2 * Limit
    /\ left \in Nat
    /\ eof \in BOOLEAN /\ broken \in BOOLEAN
    /\ result \in {"none", "error", "status", "done", "empty", "value"}
    /\ taken \in 0..MaxPart

\* Nothing was called yet.
Init ==
    /\ via = "http" /\ dest = FALSE
    /\ status = 204 /\ body = NoBody /\ framing = "length"
    /\ pc = "returned"
    /\ read = 0 /\ left = 0 /\ eof = TRUE /\ broken = FALSE
    /\ result = "none" /\ taken = 0

-----------------------------------------------------------------------------

\* A call is sent, unless its base URL, its key or its request is no good.
Call(v, d) ==
    /\ pc = "returned"
    /\ via' = v /\ dest' = d
    /\ status' = 204 /\ body' = NoBody /\ framing' = "length"
    /\ read' = 0 /\ left' = 0 /\ eof' = TRUE /\ broken' = FALSE /\ taken' = 0
    /\ \/ pc' = "sent" /\ result' = "none"
       \/ pc' = "returned" /\ result' = "error"

\* No answer: the request failed, or its deadline passed.
NoAnswer ==
    /\ pc = "sent"
    /\ pc' = "returned" /\ result' = "error"
    /\ UNCHANGED <<request, answer, stream, taken>>

\* A 204 has no body over HTTP.
Answers(s, b, f) ==
    /\ pc = "sent"
    /\ via = "http" /\ s = 204 => Total(b) = 0
    /\ status' = s /\ body' = b /\ framing' = f

PhaseOf(s) ==
    IF s < 200 \/ s >= 300 THEN "error body"
    ELSE IF ~dest \/ s = 204 THEN "discard"
    ELSE "decode"

\* DoJSON has the header of the answer, and reads the body from here on.
Respond(s, b, f) ==
    /\ via = "http"
    /\ Answers(s, b, f)
    /\ pc' = PhaseOf(s)
    /\ left' = Limit
    /\ eof' = (f = "length" /\ Total(b) = 0)
    /\ UNCHANGED <<request, read, broken, result, taken>>

-----------------------------------------------------------------------------
(* CallPluginJSON.                                                         *)

\* json.Unmarshal takes one value with blanks around it.
PluginOutcome(s, b) ==
    IF s >= 400 THEN "status"
    ELSE IF Total(b) > PluginLimit THEN "error"
    ELSE IF ~dest \/ Total(b) = 0 THEN "done"
    ELSE IF b.kind \in {"object", "number"} /\ ~b.trailing THEN "value"
    ELSE "error"

PluginAnswers(s, b, f) ==
    /\ via = "plugin"
    /\ Answers(s, b, f)
    /\ pc' = "returned"
    /\ result' = PluginOutcome(s, b)
    /\ taken' = IF result' = "value" THEN b.value ELSE 0
    /\ UNCHANGED <<request, stream>>

-----------------------------------------------------------------------------
(* DoJSON reads.                                                           *)

\* The decoder stops at the end of an object, at the byte after a number, and
\* at the byte that shows a value bad.
Decoded(n) ==
    /\ body.value > 0
    /\ n >= ValueEnd(body) + (IF body.kind = "number" THEN 1 ELSE 0)

\* Mutation: the rest of the body is left on the connection.
StopUndrained(r, n) ==
    /\ pc' = "returned" /\ left' = Limit
    /\ result' = r
    /\ taken' = IF r = "value" THEN Smaller(body.value, n - body.lead) ELSE 0

\* Mutation: all that is left is drained.
StopUnlimited(r, n) ==
    /\ pc' = "drain" /\ left' = Total(body)
    /\ result' = r
    /\ taken' = IF r = "value" THEN Smaller(body.value, n - body.lead) ELSE 0

\* Decode returns after n bytes; the rest of the body is drained, up to the
\* limit again.
Stop(r, n) ==
    /\ pc' = "drain" /\ left' = Limit
    /\ result' = r
    /\ taken' = IF r = "value" THEN Smaller(body.value, n - body.lead) ELSE 0

\* Some bytes arrive; the end of a body of known length shows with the last.
Arrive ==
    /\ pc \in Reading
    /\ \E n \in 1..Smaller(Total(body) - read, left) :
         /\ read' = read + n
         /\ eof' = (framing = "length" /\ read + n = Total(body))
         /\ IF pc = "decode" /\ Decoded(read + n)
              THEN Stop(IF body.kind = "bad" THEN "error" ELSE "value", read + n)
              ELSE UNCHANGED <<pc, result, taken>> /\ left' = left - n
    /\ UNCHANGED <<request, answer, broken>>

\* Mutation: an input that ends inside a value is taken for an empty one.
AtEndLenient ==
    IF body.kind = "number" /\ read > body.lead THEN "value" ELSE "empty"

\* Decode at the end of its input: nothing but blanks is io.EOF, which DoJSON
\* does not count as an error; a number ends here; all else is cut off.
AtEnd ==
    IF body.value = 0 \/ read <= body.lead THEN "empty"
    ELSE IF body.kind = "number" THEN "value"
    ELSE "error"

\* What DoJSON returns once it stops reading outside of Decode.
Returned ==
    IF pc = "error body" THEN "status"
    ELSE IF pc = "discard" THEN "done"
    ELSE result

\* The LimitReader's end, or the body's.
EndOfInput ==
    /\ pc \in Reading
    /\ left = 0 \/ read = Total(body)
    /\ eof' = (eof \/ left > 0)
    /\ \/ pc = "decode" /\ Stop(AtEnd, read)
       \/ /\ pc # "decode"
          /\ pc' = "returned"
          /\ result' = Returned
          /\ UNCHANGED <<taken, left>>
    /\ UNCHANGED <<request, answer, read, broken>>

\* The server cuts the connection, or the client's timeout or the context ends
\* the call while it reads: an error of the decoder's read, and of no other.
Break ==
    /\ pc \in Reading
    /\ left > 0 /\ ~eof
    /\ broken' = TRUE
    /\ pc' = "returned"
    /\ result' = IF pc = "decode" THEN "error" ELSE Returned
    /\ UNCHANGED <<request, answer, read, left, eof, taken>>

-----------------------------------------------------------------------------

Next ==
    \/ \E v \in {"http", "plugin"}, d \in BOOLEAN : Call(v, d)
    \/ NoAnswer
    \/ \E s \in Statuses, b \in Bodies, f \in {"length", "chunked"} :
         Respond(s, b, f) \/ PluginAnswers(s, b, f)
    \/ Arrive \/ EndOfInput \/ Break

Spec == Init /\ [][Next]_vars

-----------------------------------------------------------------------------
(* Properties.                                                             *)

\* httpclient.go:3-8, 79-81 and call_json.go:65-82: a call that succeeds with a
\* value had an answer that is no error and decoded the whole of a good value
\* (a number that reaches past the limit is the exception: it is cut there); a
\* call that wanted a value and succeeds without one was sent none in what it
\* may read (blanks that fill DoJSON's limit hide one); and CallPluginJSON takes
\* no answer over its limit.
SuccessIsWhole ==
    pc = "returned" =>
        /\ result = "value" =>
             /\ status < (IF via = "http" THEN 300 ELSE 400)
             /\ body.kind # "bad"
             /\ \/ taken = body.value
                \/ via = "http" /\ body.kind = "number" /\ ValueEnd(body) > Limit
        /\ result = "empty" =>
             status = 200 /\ (body.value = 0 \/ body.lead >= Limit)
        /\ result = "done" /\ dest => (status = 204 \/ Total(body) = 0)
        /\ via = "plugin" /\ result \in {"value", "done"} => Total(body) <= PluginLimit

\* httpclient.go:118-119: a call whose connection was not cut leaves it fit for
\* the pool on every path (an error status, a value it does not want, a body
\* it cannot decode), if the body is below the limit.
ConnectionReusable ==
    pc = "returned" /\ ~broken /\ Total(body) < Limit => eof
=============================================================================
