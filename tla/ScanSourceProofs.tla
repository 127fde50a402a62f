-------------------------- MODULE ScanSourceProofs --------------------------
(***************************************************************************)
(* Proofs about the scan source that follows a change log, for any number  *)
(* of overlapping polls and any sizes of lines and log.  All but the types *)
(* are about logs that are not rotated between the steps of a poll.        *)
(***************************************************************************)
EXTENDS ScanSource, WellFoundedInduction, TLAPS

-----------------------------------------------------------------------------
(* The lines of a log, as runs between two line ends.                      *)

\* A set of bounded numbers has a largest element.
LEMMA MaxOf ==
    ASSUME NEW n \in Nat, NEW S, S \subseteq 0..n, S # {}
    PROVE  Max(S) \in S /\ \A y \in S : y <= Max(S)
<1> DEFINE T == {n - x : x \in S}
<1>1. T \subseteq Nat /\ T # {}
  <2>1. \A x \in S : n - x \in Nat
    OBVIOUS
  <2> QED
    BY <2>1
<1>2. \E x \in T : \A y \in T : ~ (y < x)
  <2> DEFINE R == {ss \in Nat \X Nat : ss[1] < ss[2]}
  <2>1. IsWellFoundedOn(R, Nat)
    BY NatLessThanWellFounded DEF OpToRel
  <2> HIDE DEF T, R
  <2>2. \E x \in T : \A y \in T : ~ (<<y, x>> \in R)
    BY <1>1, <2>1, WFMin
  <2>3. \A x, y \in Nat : y < x => <<y, x>> \in R
    BY DEF R
  <2> QED
    BY <1>1, <2>2, <2>3
<1>3. \E x \in S : \A y \in S : x >= y
  <2>1. PICK t \in T : \A y \in T : ~ (y < t)
    BY <1>2
  <2>2. PICK x \in S : t = n - x
    OBVIOUS
  <2>3. ASSUME NEW y \in S PROVE x >= y
    <3>1. ~ (n - y < n - x)
      BY <2>1, <2>2
    <3> QED
      BY <3>1
  <2> QED
    BY <2>3
<1>4. Max(S) \in S /\ \A y \in S : Max(S) >= y
  BY <1>3 DEF Max
<1> QED
  BY <1>4

\* A line starts after s, the start of the log or the end of another line,
\* and its newline is at e.
IsLine(bytes, s, e) ==
    /\ s \in {0} \cup LineEnds(bytes) /\ e \in LineEnds(bytes) /\ s < e
    /\ \A i \in LineEnds(bytes) : i < e => i <= s

\* The non-blank lines between two positions.
Runs(bytes, from, to) ==
    {l \in Seq(Nat) :
        /\ l # << >>
        /\ \E s, e \in 0..Len(bytes) :
             IsLine(bytes, s, e) /\ from <= s /\ e <= to /\ l = SubSeq(bytes, s + 1, e - 1)}

LEMMA LineEndsRange ==
    ASSUME NEW bytes \in Seq(Nat)
    PROVE  LineEnds(bytes) \subseteq 1..Len(bytes) /\ Len(bytes) \in Nat
BY DEF LineEnds

LEMMA RunType ==
    ASSUME NEW bytes \in Seq(Nat), NEW s \in Nat, NEW e \in Nat, s < e, e <= Len(bytes)
    PROVE  /\ SubSeq(bytes, s + 1, e - 1) \in Seq(Nat)
           /\ Len(SubSeq(bytes, s + 1, e - 1)) = (e - 1) - s
           /\ \A i \in 1..(e - 1) - s : SubSeq(bytes, s + 1, e - 1)[i] = bytes[s + i]
<1> DEFINE run == SubSeq(bytes, s + 1, e - 1)
<1>1. (e - 1) - s \in Nat /\ s + 1 \in 1..Len(bytes) /\ e - 1 \in Nat
      /\ e - 1 <= Len(bytes) /\ ((e - 1) - (s + 1)) + 1 = (e - 1) - s
  OBVIOUS
<1>2. \A i \in s + 1..e - 1 : bytes[i] \in Nat
  OBVIOUS
<1>3. run = [i \in 1..((e - 1) - s) |-> bytes[s + i]]
  <2>1. run = [i \in 1..((e - 1) - (s + 1)) + 1 |-> bytes[(s + 1 + i) - 1]]
    OBVIOUS
  <2>2. \A i \in 1..((e - 1) - s) : (s + 1 + i) - 1 = s + i
    OBVIOUS
  <2> QED
    BY <1>1, <2>1, <2>2
<1>4. \A i \in 1..((e - 1) - s) : bytes[s + i] \in Nat
  BY <1>2
<1>5. \A n \in Nat : \A f \in [1..n -> Nat] : f \in Seq(Nat) /\ Len(f) = n
  OBVIOUS
<1> HIDE DEF run
<1>6. run \in [1..((e - 1) - s) -> Nat]
  BY <1>3, <1>4
<1> QED
  BY <1>1, <1>3, <1>5, <1>6 DEF run

\* What a reader from the start of a line takes for the line that ends at e.
LEMMA LineAtIsRun ==
    ASSUME NEW bytes \in Seq(Nat), NEW offset \in {0} \cup LineEnds(bytes),
           NEW e \in LineEnds(bytes), offset < e
    PROVE  \E s \in 0..Len(bytes) :
             /\ IsLine(bytes, s, e) /\ offset <= s
             /\ LineAt(bytes, offset, e) = SubSeq(bytes, s + 1, e - 1)
<1> DEFINE before == {i \in LineEnds(bytes) : i < e /\ i > offset}
           starts == {offset} \cup before
           s == Max(starts)
<1>1. LineEnds(bytes) \subseteq 1..Len(bytes) /\ Len(bytes) \in Nat
  BY LineEndsRange
<1>2. starts \subseteq 0..Len(bytes) /\ starts # {}
  BY <1>1
<1>3. s \in starts /\ \A y \in starts : y <= s
  <2> HIDE DEF starts
  <2> QED
    BY <1>1, <1>2, MaxOf
<1>4. LineAt(bytes, offset, e) = SubSeq(bytes, s + 1, e - 1)
  BY DEF LineAt
<1> HIDE DEF s
<1>5. s \in 0..Len(bytes) /\ offset <= s /\ s < e /\ s \in {0} \cup LineEnds(bytes)
  BY <1>1, <1>2, <1>3
<1>6. \A i \in LineEnds(bytes) : i < e => i <= s
  BY <1>1, <1>3, <1>5
<1> QED
  BY <1>4, <1>5, <1>6 DEF IsLine

LEMMA LinesAreRuns ==
    ASSUME NEW bytes \in Seq(Nat), NEW offset \in {0} \cup LineEnds(bytes)
    PROVE  LinesAfter(bytes, offset) = Runs(bytes, offset, Len(bytes))
<1>1. LineEnds(bytes) \subseteq 1..Len(bytes) /\ Len(bytes) \in Nat
  BY LineEndsRange
<1>2. ASSUME NEW l \in LinesAfter(bytes, offset)
      PROVE  l \in Runs(bytes, offset, Len(bytes))
  <2>1. PICK e \in LineEnds(bytes) : e > offset /\ l = LineAt(bytes, offset, e)
    BY <1>2 DEF LinesAfter
  <2>2. l # << >>
    BY <1>2 DEF LinesAfter
  <2>3. PICK s \in 0..Len(bytes) :
          /\ IsLine(bytes, s, e) /\ offset <= s
          /\ l = SubSeq(bytes, s + 1, e - 1)
    BY <1>1, <2>1, LineAtIsRun
  <2>4. e \in 0..Len(bytes) /\ e <= Len(bytes) /\ s < e
    BY <1>1, <2>3 DEF IsLine
  <2>5. l \in Seq(Nat)
    <3>1. s \in Nat /\ e \in Nat /\ s < e /\ e <= Len(bytes)
      BY <1>1, <2>4
    <3> QED
      BY <2>3, <3>1, RunType
  <2> QED
    BY <2>2, <2>3, <2>4, <2>5 DEF Runs
<1>3. ASSUME NEW l \in Runs(bytes, offset, Len(bytes))
      PROVE  l \in LinesAfter(bytes, offset)
  <2>1. PICK s, e \in 0..Len(bytes) :
          /\ IsLine(bytes, s, e) /\ offset <= s
          /\ l = SubSeq(bytes, s + 1, e - 1)
    BY <1>3 DEF Runs
  <2>2. l # << >>
    BY <1>3 DEF Runs
  <2>3. e \in LineEnds(bytes) /\ offset < e
    BY <1>1, <2>1 DEF IsLine
  <2>4. PICK t \in 0..Len(bytes) :
          /\ IsLine(bytes, t, e) /\ offset <= t
          /\ LineAt(bytes, offset, e) = SubSeq(bytes, t + 1, e - 1)
    BY <1>1, <2>3, LineAtIsRun
  <2>5. s = t
    BY <1>1, <2>1, <2>4 DEF IsLine
  <2>6. l = LineAt(bytes, offset, e)
    BY <2>1, <2>4, <2>5
  <2> QED
    BY <1>1, <2>2, <2>3, <2>6 DEF LinesAfter
<1> QED
  BY <1>2, <1>3

\* The end of the last complete line.
LEMMA CompleteEnd ==
    ASSUME NEW bytes \in Seq(Nat)
    PROVE  /\ CompleteLinesEnd(bytes) \in {0} \cup LineEnds(bytes)
           /\ CompleteLinesEnd(bytes) \in 0..Len(bytes)
           /\ \A i \in LineEnds(bytes) : i <= CompleteLinesEnd(bytes)
<1> DEFINE S == {0} \cup LineEnds(bytes)
<1>1. LineEnds(bytes) \subseteq 1..Len(bytes) /\ Len(bytes) \in Nat
  BY LineEndsRange
<1>2. S \subseteq 0..Len(bytes) /\ S # {}
  BY <1>1
<1>3. Max(S) \in S /\ \A y \in S : y <= Max(S)
  <2> HIDE DEF S
  <2> QED
    BY <1>1, <1>2, MaxOf
<1> QED
  BY <1>1, <1>2, <1>3 DEF CompleteLinesEnd

\* A longer log has the same runs up to where the shorter one ends.
LEMMA RunsOfExtension ==
    ASSUME NEW bytes \in Seq(Nat), NEW longer \in Seq(Nat),
           Len(bytes) <= Len(longer),
           \A i \in 1..Len(bytes) : longer[i] = bytes[i],
           NEW from \in Nat, NEW to \in 0..Len(bytes)
    PROVE  Runs(longer, from, to) = Runs(bytes, from, to)
<1>1. /\ LineEnds(bytes) \subseteq 1..Len(bytes) /\ Len(bytes) \in Nat
      /\ LineEnds(longer) \subseteq 1..Len(longer) /\ Len(longer) \in Nat
  BY LineEndsRange
<1>2. \A i \in 1..Len(bytes) : i \in LineEnds(longer) <=> i \in LineEnds(bytes)
  BY <1>1 DEF LineEnds
<1>3. ASSUME NEW s \in Nat, NEW e \in Nat, s < e, e <= Len(bytes)
      PROVE  /\ IsLine(longer, s, e) <=> IsLine(bytes, s, e)
             /\ SubSeq(longer, s + 1, e - 1) = SubSeq(bytes, s + 1, e - 1)
  <2>1. \A i \in LineEnds(longer) : i < e => i \in LineEnds(bytes)
    BY <1>1, <1>2, <1>3
  <2>2. \A i \in LineEnds(bytes) : i \in LineEnds(longer)
    BY <1>1, <1>2
  <2>3. e \in 1..Len(bytes) /\ (s = 0 \/ s \in 1..Len(bytes))
    BY <1>3
  <2>4. IsLine(longer, s, e) <=> IsLine(bytes, s, e)
    BY <1>2, <2>1, <2>2, <2>3 DEF IsLine
  <2>5. SubSeq(longer, s + 1, e - 1) = SubSeq(bytes, s + 1, e - 1)
    BY <1>1, <1>3
  <2> QED
    BY <2>4, <2>5
<1>4. ASSUME NEW l \in Runs(longer, from, to)
      PROVE  l \in Runs(bytes, from, to)
  <2>1. PICK s, e \in 0..Len(longer) :
          /\ IsLine(longer, s, e) /\ from <= s /\ e <= to
          /\ l = SubSeq(longer, s + 1, e - 1)
    BY <1>4 DEF Runs
  <2>2. s \in Nat /\ e \in Nat /\ s < e /\ e <= Len(bytes) /\ e \in 0..Len(bytes)
        /\ s \in 0..Len(bytes)
    <3>1. s < e
      BY <2>1 DEF IsLine
    <3>2. s \in Nat /\ e \in Nat /\ e <= to /\ to \in Nat /\ to <= Len(bytes)
      BY <1>1, <2>1
    <3> QED
      BY <1>1, <3>1, <3>2
  <2>3. IsLine(bytes, s, e) /\ l = SubSeq(bytes, s + 1, e - 1)
    BY <1>3, <2>1, <2>2
  <2>4. l \in Seq(Nat) /\ l # << >>
    BY <1>4 DEF Runs
  <2> QED
    BY <2>1, <2>2, <2>3, <2>4 DEF Runs
<1>5. ASSUME NEW l \in Runs(bytes, from, to)
      PROVE  l \in Runs(longer, from, to)
  <2>1. PICK s, e \in 0..Len(bytes) :
          /\ IsLine(bytes, s, e) /\ from <= s /\ e <= to
          /\ l = SubSeq(bytes, s + 1, e - 1)
    BY <1>5 DEF Runs
  <2>2. s \in Nat /\ e \in Nat /\ s < e /\ e <= Len(bytes) /\ e \in 0..Len(longer)
        /\ s \in 0..Len(longer)
    <3>1. s < e
      BY <2>1 DEF IsLine
    <3>2. s \in Nat /\ e \in Nat /\ e <= to /\ to \in Nat /\ to <= Len(bytes)
      BY <1>1, <2>1
    <3> QED
      BY <1>1, <3>1, <3>2
  <2>3. IsLine(longer, s, e) /\ l = SubSeq(longer, s + 1, e - 1)
    BY <1>3, <2>1, <2>2
  <2>4. l \in Seq(Nat) /\ l # << >>
    BY <1>5 DEF Runs
  <2> QED
    BY <2>1, <2>2, <2>3, <2>4 DEF Runs
<1> QED
  BY <1>4, <1>5

\* The lines of the log's first m bytes, and where they begin to be others'.
LEMMA LinesOfPrefix ==
    ASSUME NEW bytes \in Seq(Nat), NEW m \in 0..Len(bytes)
    PROVE  LinesAfter(SubSeq(bytes, 1, m), 0) = Runs(bytes, 0, m)
<1> DEFINE prefix == SubSeq(bytes, 1, m)
<1>1. /\ prefix \in Seq(Nat) /\ Len(prefix) = m
      /\ \A i \in 1..m : bytes[i] = prefix[i]
      /\ m \in Nat /\ m <= Len(bytes)
  OBVIOUS
<1> HIDE DEF prefix
<1>2. LinesAfter(prefix, 0) = Runs(prefix, 0, m)
  BY <1>1, LinesAreRuns
<1>3. Runs(bytes, 0, m) = Runs(prefix, 0, m)
  BY <1>1, RunsOfExtension
<1> QED
  BY <1>2, <1>3 DEF prefix

\* Every line ends before a line end or starts after it.
LEMMA RunsSplit ==
    ASSUME NEW bytes \in Seq(Nat), NEW m \in {0} \cup LineEnds(bytes),
           NEW n \in 0..Len(bytes)
    PROVE  Runs(bytes, 0, n) \subseteq Runs(bytes, 0, m) \cup Runs(bytes, m, Len(bytes))
<1>1. LineEnds(bytes) \subseteq 1..Len(bytes) /\ Len(bytes) \in Nat
  BY LineEndsRange
<1> SUFFICES ASSUME NEW l \in Runs(bytes, 0, n), l \notin Runs(bytes, 0, m)
             PROVE  l \in Runs(bytes, m, Len(bytes))
  OBVIOUS
<1>2. PICK s, e \in 0..Len(bytes) : IsLine(bytes, s, e) /\ l = SubSeq(bytes, s + 1, e - 1)
  BY DEF Runs
<1>3. l \in Seq(Nat) /\ l # << >>
  BY DEF Runs
<1>4. ~ (e <= m)
  <2>1. 0 <= s
    BY <1>1
  <2> QED
    BY <1>2, <1>3, <2>1 DEF Runs
<1>5. m <= s
  BY <1>1, <1>2, <1>4 DEF IsLine
<1>6. e <= Len(bytes)
  BY <1>1
<1> QED
  BY <1>2, <1>3, <1>5, <1>6 DEF Runs

LEMMA RunsWithin ==
    ASSUME NEW bytes \in Seq(Nat), NEW m \in 0..Len(bytes), NEW n \in 0..Len(bytes)
    PROVE  Runs(bytes, m, n) \subseteq Runs(bytes, 0, Len(bytes))
BY DEF Runs

\* A newline adds the unfinished line.
LEMMA RunsOfNewline ==
    ASSUME NEW bytes \in Seq(Nat)
    PROVE  LET end == CompleteLinesEnd(bytes)
               longer == Append(bytes, 0)
           IN  Runs(longer, 0, Len(longer))
                 \subseteq Runs(bytes, 0, Len(bytes))
                            \cup ({SubSeq(bytes, end + 1, Len(bytes))} \ {<< >>})
<1> DEFINE end == CompleteLinesEnd(bytes)
           longer == Append(bytes, 0)
           n == Len(bytes)
<1>1. /\ LineEnds(bytes) \subseteq 1..n /\ n \in Nat
      /\ longer \in Seq(Nat) /\ Len(longer) = n + 1 /\ longer[n + 1] = 0
      /\ \A i \in 1..n : longer[i] = bytes[i]
  BY LineEndsRange
<1>2. LineEnds(longer) = LineEnds(bytes) \cup {n + 1}
  BY <1>1 DEF LineEnds
<1>3. /\ end \in {0} \cup LineEnds(bytes) /\ end \in 0..n
      /\ \A i \in LineEnds(bytes) : i <= end
  BY CompleteEnd
<1> HIDE DEF end, longer
<1> SUFFICES ASSUME NEW l \in Runs(longer, 0, Len(longer))
             PROVE  \/ l \in Runs(bytes, 0, n)
                    \/ l \in {SubSeq(bytes, end + 1, n)} \ {<< >>}
  BY DEF end, longer
<1>4. PICK s, e \in 0..Len(longer) : IsLine(longer, s, e) /\ l = SubSeq(longer, s + 1, e - 1)
  BY DEF Runs
<1>5. l \in Seq(Nat) /\ l # << >> /\ s < e /\ s \in Nat /\ e \in Nat /\ e <= n + 1
  <2>1. l \in Seq(Nat) /\ l # << >>
    BY DEF Runs
  <2>2. s < e
    BY <1>4 DEF IsLine
  <2>3. s \in Nat /\ e \in Nat /\ e <= n + 1
    BY <1>1
  <2> QED
    BY <2>1, <2>2, <2>3
<1>6. CASE e <= n
  <2>1. l \in Runs(longer, 0, n)
    <3>1. 0 <= s
      BY <1>5
    <3> QED
      BY <1>4, <1>5, <1>6, <3>1 DEF Runs
  <2>2. Runs(longer, 0, n) = Runs(bytes, 0, n)
    BY <1>1, RunsOfExtension
  <2> QED
    BY <2>1, <2>2
<1>7. CASE e = n + 1
  <2>1. s \in {0} \cup LineEnds(bytes) /\ \A i \in LineEnds(bytes) : i <= s
    <3>1. s \in {0} \cup LineEnds(longer) /\ \A i \in LineEnds(longer) : i < n + 1 => i <= s
      BY <1>4, <1>7 DEF IsLine
    <3>2. s < n + 1
      BY <1>5, <1>7
    <3>3. \A i \in LineEnds(bytes) : i \in LineEnds(longer) /\ i < n + 1
      BY <1>1, <1>2
    <3>4. n + 1 \notin {s}
      BY <1>1, <1>5, <3>2
    <3> QED
      BY <1>2, <3>1, <3>3, <3>4
  <2>2. s = end
    BY <1>1, <1>3, <2>1
  <2>3. SubSeq(longer, end + 1, n) = SubSeq(bytes, end + 1, n)
    BY <1>1, <1>3
  <2>4. (n + 1) - 1 = n
    BY <1>1
  <2> QED
    BY <1>4, <1>5, <1>7, <2>2, <2>3, <2>4
<1>8. e <= n \/ e = n + 1
  BY <1>1, <1>5
<1> QED
  BY <1>6, <1>7, <1>8

-----------------------------------------------------------------------------
(* Types, wherever the log is rotated.                                     *)

\* No stretch of the log without a newline is longer than a line.
Short(bytes) ==
    \A a, b \in 0..Len(bytes) :
        a < b /\ (\A i \in a + 1..b : bytes[i] # 0) => b - a <= LineBytes

TypeInv == TypeOK /\ Short(log)

LEMMA TypeFacts ==
    ASSUME TypeInv
    PROVE  /\ log \in Seq(Nat) /\ log \in Seq(0..MaxLines) /\ Len(log) \in Nat
           /\ \A i \in 1..Len(log) : log[i] \in Nat
           /\ Len(log) <= MaxBytes /\ lineCount \in Nat /\ generation \in Nat
           /\ MaxLines \in Nat /\ MaxBytes \in Nat /\ MaxRotations \in Nat
           /\ MaxEdits \in Nat /\ LineBytes \in Nat \ {0}
           /\ exists \in BOOLEAN /\ collided \in BOOLEAN
           /\ \A p \in Polls : poll[p] \in PollStates
<1>1. log \in Seq(0..MaxLines)
  BY DEF TypeInv, TypeOK
<1>2. log \in Seq(Nat)
  <2>1. MaxLines \in Nat
    BY BoundsAssumption
  <2>2. Len(log) \in Nat /\ log \in [1..Len(log) -> 0..MaxLines]
    <3>1. \A S : \A q \in Seq(S) : Len(q) \in Nat /\ q \in [1..Len(q) -> S]
      OBVIOUS
    <3> QED
      BY <1>1, <3>1
  <2>3. log \in [1..Len(log) -> Nat]
    BY <2>1, <2>2
  <2> QED
    BY <2>2, <2>3
<1>3. lineCount \in Nat /\ generation \in Nat /\ Len(log) <= MaxBytes
  BY BoundsAssumption DEF TypeInv, TypeOK
<1>4. exists \in BOOLEAN /\ collided \in BOOLEAN
  BY DEF TypeInv, TypeOK
<1>5. \A p \in Polls : poll[p] \in PollStates
  BY DEF TypeInv, TypeOK
<1>6. \A i \in 1..Len(log) : log[i] \in Nat
  BY <1>2
<1> QED
  BY <1>1, <1>2, <1>3, <1>4, <1>5, <1>6, BoundsAssumption

LEMMA SliceType ==
    ASSUME NEW S, NEW q \in Seq(S), NEW a \in 0..Len(q), NEW b \in 0..Len(q), a <= b
    PROVE  /\ SubSeq(q, a + 1, b) \in Seq(S)
           /\ Len(SubSeq(q, a + 1, b)) = b - a
           /\ \A i \in 1..b - a : SubSeq(q, a + 1, b)[i] = q[a + i]
<1> DEFINE slice == SubSeq(q, a + 1, b)
<1>1. b \in Nat /\ a \in Nat /\ (b - (a + 1)) + 1 = b - a /\ b - a \in Nat
  OBVIOUS
<1>2. slice = [i \in 1..(b - (a + 1)) + 1 |-> q[(a + 1 + i) - 1]]
  OBVIOUS
<1>3. \A i \in 1..b - a : (a + 1 + i) - 1 = a + i /\ a + i \in 1..Len(q)
  BY <1>1
<1> HIDE DEF slice
<1>4. slice = [i \in 1..b - a |-> q[a + i]]
  BY <1>1, <1>2, <1>3
<1>5. \A i \in 1..b - a : q[a + i] \in S
  BY <1>3
<1>6. slice \in [1..b - a -> S]
  BY <1>4, <1>5
<1>7. \A k \in Nat : \A f \in [1..k -> S] : f \in Seq(S) /\ Len(f) = k
  OBVIOUS
<1> QED
  BY <1>1, <1>4, <1>6, <1>7 DEF slice

\* A stretch without a newline is a line, or a part of one.
LEMMA StretchIsLine ==
    ASSUME NEW bytes \in Seq(0..MaxLines), Short(bytes),
           NEW a \in 0..Len(bytes), NEW b \in 0..Len(bytes), a < b,
           \A i \in a + 1..b : bytes[i] # 0
    PROVE  SubSeq(bytes, a + 1, b) \in Lines
<1> DEFINE line == SubSeq(bytes, a + 1, b)
<1>1. a \in Nat /\ b \in Nat /\ b - a \in Nat \ {0} /\ a <= b
      /\ MaxLines \in Nat /\ LineBytes \in Nat
  BY BoundsAssumption
<1>2. b - a \in 1..LineBytes
  <2>1. b - a <= LineBytes
    BY DEF Short
  <2> QED
    BY <1>1, <2>1
<1>3. /\ line \in Seq(0..MaxLines) /\ Len(line) = b - a
      /\ \A i \in 1..b - a : line[i] = bytes[a + i]
  BY <1>1, SliceType
<1> HIDE DEF line
<1>4. ASSUME NEW i \in 1..b - a PROVE line[i] \in 1..MaxLines
  <2>1. a + i \in a + 1..b /\ a + i \in 1..Len(bytes)
    BY <1>1
  <2>2. bytes[a + i] # 0
    BY <2>1
  <2>3. \A k \in 1..Len(bytes) : bytes[k] \in 0..MaxLines
    <3>1. \A S : \A q \in Seq(S) : \A k \in 1..Len(q) : q[k] \in S
      OBVIOUS
    <3> QED
      BY <3>1
  <2>4. line[i] = bytes[a + i] /\ bytes[a + i] \in 0..MaxLines
    BY <1>3, <2>1, <2>3
  <2> QED
    BY <1>1, <2>2, <2>4
<1>5. line \in [1..b - a -> 1..MaxLines]
  <2>1. \A S : \A q \in Seq(S) : q = [i \in 1..Len(q) |-> q[i]]
    OBVIOUS
  <2>2. line = [i \in 1..b - a |-> line[i]]
    BY <1>3, <2>1
  <2> QED
    BY <1>4, <2>2
<1> QED
  BY <1>2, <1>5 DEF Lines, line

\* Whatever offset a reader starts at, it takes nothing longer for a line.
LEMMA LinesAreTyped ==
    ASSUME TypeInv, NEW offset \in Nat
    PROVE  LinesAfter(log, offset) \in SUBSET Lines
<1> SUFFICES ASSUME NEW e \in LineEnds(log), e > offset, LineAt(log, offset, e) # << >>
             PROVE  LineAt(log, offset, e) \in Lines
  BY DEF LinesAfter
<1> DEFINE before == {i \in LineEnds(log) : i < e /\ i > offset}
           starts == {offset} \cup before
           s == Max(starts)
<1>1. LineEnds(log) \subseteq 1..Len(log) /\ Len(log) \in Nat /\ log \in Seq(0..MaxLines)
  BY TypeFacts, LineEndsRange
<1>2. starts \subseteq 0..Len(log) /\ starts # {}
  BY <1>1
<1>3. s \in starts /\ \A y \in starts : y <= s
  <2> HIDE DEF starts
  <2> QED
    BY <1>1, <1>2, MaxOf
<1>4. LineAt(log, offset, e) = SubSeq(log, s + 1, e - 1)
  BY DEF LineAt
<1> HIDE DEF s
<1>5. /\ s \in 0..Len(log) /\ offset <= s /\ s < e /\ e - 1 \in 0..Len(log)
      /\ s \in Nat /\ e \in Nat
  BY <1>1, <1>2, <1>3
<1>6. ASSUME NEW i \in s + 1..e - 1 PROVE log[i] # 0
  <2>1. i \in 1..Len(log) /\ i < e /\ i > offset /\ ~ (i <= s)
    BY <1>1, <1>5
  <2>2. i \notin LineEnds(log)
    BY <1>3, <2>1
  <2> QED
    BY <2>1, <2>2 DEF LineEnds
<1>7. s < e - 1
  <2>1. s <= e - 1
    BY <1>5
  <2>2. Len(SubSeq(log, s + 1, e - 1)) = (e - 1) - s
        /\ SubSeq(log, s + 1, e - 1) \in Seq(0..MaxLines)
    <3>1. PICK b \in 0..Len(log) : b = e - 1
      BY <1>5
    <3>2. s <= b
      BY <2>1, <3>1
    <3>3. log \in Seq(0..MaxLines) /\ s \in 0..Len(log)
      BY <1>1, <1>5
    <3>4. Len(SubSeq(log, s + 1, b)) = b - s /\ SubSeq(log, s + 1, b) \in Seq(0..MaxLines)
      BY <3>2, <3>3, SliceType
    <3> QED
      BY <3>1, <3>4
  <2>3. (e - 1) - s # 0
    BY <1>4, <2>2
  <2> QED
    BY <1>5, <2>1, <2>3
<1> QED
  <2>1. PICK b \in 0..Len(log) : b = e - 1
    BY <1>5
  <2>2. Short(log)
    BY DEF TypeInv
  <2>3. SubSeq(log, s + 1, b) \in Lines
    BY <1>1, <1>5, <1>6, <1>7, <2>1, <2>2, StretchIsLine
  <2> QED
    BY <1>4, <2>1, <2>3

\* The stretch after the last line end.
LEMMA UnfinishedIsLine ==
    ASSUME TypeInv
    PROVE  /\ Len(Unfinished) = Len(log) - CompleteLinesEnd(log)
           /\ Unfinished # << >> => Unfinished \in Lines
           /\ \A i \in 1..Len(log) : i > CompleteLinesEnd(log) => log[i] # 0
<1> DEFINE n == Len(log)
           end == CompleteLinesEnd(log)
<1>1. log \in Seq(0..MaxLines) /\ log \in Seq(Nat) /\ n \in Nat /\ n \in 0..n
  BY TypeFacts
<1>2. end \in 0..n /\ \A i \in LineEnds(log) : i <= end
  BY <1>1, CompleteEnd
<1>3. \A i \in 1..n : i > end => log[i] # 0
  BY <1>1, <1>2 DEF LineEnds
<1> HIDE DEF end
<1>4. end <= n /\ end \in Nat
  BY <1>1, <1>2
<1>5. Len(SubSeq(log, end + 1, n)) = n - end /\ SubSeq(log, end + 1, n) \in Seq(0..MaxLines)
  <2>1. log \in Seq(0..MaxLines) /\ end \in 0..Len(log) /\ Len(log) \in 0..Len(log)
        /\ end <= Len(log)
    BY <1>1, <1>2, <1>4
  <2> QED
    BY <2>1, SliceType
<1>6. Unfinished = SubSeq(log, end + 1, n)
  BY DEF Unfinished, end
<1>7. ASSUME Unfinished # << >> PROVE Unfinished \in Lines
  <2>1. end < n
    <3>1. n - end # 0
      BY <1>5, <1>6, <1>7
    <3> QED
      BY <1>1, <1>4, <3>1
  <2>2. \A i \in end + 1..n : log[i] # 0
    BY <1>1, <1>3, <1>4
  <2> QED
    BY <1>1, <1>2, <1>6, <2>1, <2>2, StretchIsLine DEF TypeInv
<1> QED
  BY <1>3, <1>5, <1>6, <1>7 DEF end

LEMMA AppendTypes ==
    ASSUME TypeInv, NEW b \in 0..MaxLines, Append1(b), UNCHANGED <<generation, source, poll, ghosts>>,
           lineCount' \in 0..MaxLines, written' \subseteq Lines,
           b # 0 => Len(log) + 1 - CompleteLinesEnd(log) <= LineBytes
    PROVE  TypeInv'
<1> DEFINE n == Len(log)
           end == CompleteLinesEnd(log)
<1>1. /\ log \in Seq(Nat) /\ log \in Seq(0..MaxLines) /\ n \in Nat /\ MaxBytes \in Nat
      /\ MaxLines \in Nat /\ b \in Nat
  BY TypeFacts
<1>2. /\ n < MaxBytes /\ exists' = TRUE /\ log' = Append(log, b)
      /\ generation' = generation /\ marker' = marker /\ markerGen' = markerGen
      /\ edits' = edits /\ poll' = poll
      /\ reported' = reported /\ skipped' = skipped /\ collided' = collided
  BY DEF Append1, source, ghosts
<1>3. /\ log' \in Seq(0..MaxLines) /\ Len(log') = n + 1
      /\ log'[n + 1] = b /\ \A i \in 1..n : log'[i] = log[i]
  BY <1>1, <1>2
<1>4. TypeOK'
  <2>1. Len(log') <= MaxBytes
    BY <1>1, <1>2, <1>3
  <2> QED
    BY <1>2, <1>3, <2>1 DEF TypeInv, TypeOK
<1>5. end \in {0} \cup LineEnds(log) /\ end \in 0..n
  BY <1>1, CompleteEnd
<1> HIDE DEF end
<1>6. ASSUME NEW x \in 0..n + 1, NEW y \in 0..n + 1, x < y,
             \A i \in x + 1..y : log'[i] # 0
      PROVE  y - x <= LineBytes
  <2>1. CASE y <= n
    <3>1. x \in 0..n /\ y \in 0..n
      BY <1>1, <1>6, <2>1
    <3>2. \A i \in x + 1..y : log[i] # 0
      <4>1. \A i \in x + 1..y : i \in 1..n
        BY <1>1, <1>6, <2>1, <3>1
      <4> QED
        BY <1>3, <1>6, <4>1
    <3> QED
      BY <1>6, <3>1, <3>2 DEF TypeInv, Short
  <2>2. CASE y = n + 1
    <3>1. b # 0
      <4>1. n + 1 \in x + 1..y
        BY <1>1, <1>6, <2>2
      <4> QED
        BY <1>3, <1>6, <4>1
    <3>2. end <= x
      <4> SUFFICES ASSUME x < end PROVE FALSE
        BY <1>1, <1>5
      <4>1. end \in x + 1..y /\ end \in 1..n /\ end \in LineEnds(log)
        BY <1>1, <1>5, <2>2
      <4>2. log[end] = 0
        BY <4>1 DEF LineEnds
      <4> QED
        BY <1>3, <1>6, <4>1, <4>2
    <3>3. n + 1 - end <= LineBytes /\ LineBytes \in Nat
      BY <3>1, BoundsAssumption DEF end
    <3> QED
      BY <1>1, <1>5, <2>2, <3>2, <3>3
  <2> QED
    BY <1>1, <1>6, <2>1, <2>2
<1>7. Short(log)'
  BY <1>3, <1>6 DEF Short
<1> QED
  BY <1>4, <1>7 DEF TypeInv

\* One poll moves to the state q; the log stays.
LEMMA PollTypes ==
    ASSUME TypeInv, NEW p \in Polls, NEW q \in PollStates,
           poll' = [poll EXCEPT ![p] = q], q.pc = "idle" => q = Idle,
           UNCHANGED <<file, edits>>,
           marker' \in Markers, markerGen' \in 0..MaxRotations,
           reported' \subseteq Lines, skipped' \subseteq Lines, collided' \in BOOLEAN
    PROVE  TypeInv'
<1>1. /\ exists' = exists /\ log' = log /\ lineCount' = lineCount
      /\ generation' = generation /\ written' = written /\ edits' = edits
  BY DEF file
<1>2. \A r \in Polls : poll'[r] = IF r = p THEN q ELSE poll[r]
  BY DEF TypeInv, TypeOK
<1> QED
  BY <1>1, <1>2 DEF TypeInv, TypeOK, Short

LEMMA OwnTypes ==
    ASSUME TypeInv, NEW p \in Polls, NEW q \in PollStates,
           poll' = [poll EXCEPT ![p] = q], q.pc = "idle" => q = Idle,
           UNCHANGED <<file, source, reported, skipped>>, collided' \in BOOLEAN
    PROVE  TypeInv'
<1>1. /\ UNCHANGED <<file, edits>> /\ marker' = marker /\ markerGen' = markerGen
      /\ reported' = reported /\ skipped' = skipped
  BY DEF source
<1>2. /\ reported \subseteq Lines /\ skipped \subseteq Lines
      /\ marker \in Markers /\ markerGen \in 0..MaxRotations
  BY DEF TypeInv, TypeOK
<1> QED
  BY <1>1, <1>2, PollTypes

LEMMA IdleType ==
    ASSUME TypeInv
    PROVE  Idle \in PollStates
<1>1. 0 \in 0..MaxBytes /\ 0 \in 0..MaxRotations
  BY TypeFacts
<1> QED
  BY <1>1 DEF Idle, Poll, PollStates, Markers

\* The poll goes on at an offset of the log.
LEMMA GoStep ==
    ASSUME TypeInv, NEW p \in Polls, NEW pc \in {"resync", "check", "read"},
           NEW offset \in 0..MaxBytes, Go(p, pc, offset)
    PROVE  \E q \in PollStates :
             /\ poll' = [poll EXCEPT ![p] = q]
             /\ q.pc = pc /\ q.offset = offset
             /\ q.marker = poll[p].marker /\ q.markerGen = poll[p].markerGen
             /\ q.lines = poll[p].lines /\ q.skips = poll[p].skips
             /\ q.generation = poll[p].generation
<1> DEFINE q == [poll[p] EXCEPT !.pc = pc, !.offset = offset]
<1>1. poll[p] \in PollStates
  BY TypeFacts
<1>2. q \in PollStates
  BY <1>1 DEF PollStates
<1>3. poll' = [poll EXCEPT ![p] = q]
  BY DEF Go
<1>4. /\ q.pc = pc /\ q.offset = offset
      /\ q.marker = poll[p].marker /\ q.markerGen = poll[p].markerGen
      /\ q.lines = poll[p].lines /\ q.skips = poll[p].skips
      /\ q.generation = poll[p].generation
  BY <1>1 DEF PollStates
<1> QED
  BY <1>2, <1>3, <1>4

\* The poll answers.
LEMMA AnswerStep ==
    ASSUME TypeInv, NEW p \in Polls, NEW lines \in SUBSET Lines, NEW next \in 0..MaxBytes,
           NEW skips \in SUBSET Lines, Answer(p, lines, next, skips)
    PROVE  \E q \in PollStates :
             /\ poll' = [poll EXCEPT ![p] = q]
             /\ q.pc = "done" /\ q.offset = 0
             /\ q.lines = lines /\ q.next = next /\ q.skips = skips
             /\ q.generation = generation
             /\ q.marker = poll[p].marker /\ q.markerGen = poll[p].markerGen
<1> DEFINE q == [poll[p] EXCEPT !.pc = "done", !.offset = 0, !.lines = lines,
                               !.next = next, !.skips = skips, !.generation = generation]
<1>1. poll[p] \in PollStates /\ generation \in 0..MaxRotations /\ MaxBytes \in Nat
  BY TypeFacts DEF TypeInv, TypeOK
<1>2. q \in PollStates
  <2> DEFINE q1 == [poll[p] EXCEPT !.pc = "done", !.offset = 0]
             q2 == [q1 EXCEPT !.lines = lines, !.next = next]
             q3 == [q2 EXCEPT !.skips = skips, !.generation = generation]
  <2>1. q1 \in PollStates
    <3>1. 0 \in 0..MaxBytes
      BY <1>1
    <3>2. "done" \in {"idle", "stat", "resync", "check", "read", "done"}
      OBVIOUS
    <3> QED
      BY <1>1, <3>1, <3>2 DEF PollStates
  <2>2. q2 \in PollStates
    <3> HIDE DEF q1
    <3> QED
      BY <2>1 DEF PollStates
  <2>3. q3 \in PollStates
    <3> HIDE DEF q2
    <3> QED
      BY <1>1, <2>2 DEF PollStates
  <2>4. q = q3
    BY <1>1 DEF PollStates
  <2> QED
    BY <2>3, <2>4
<1>3. poll' = [poll EXCEPT ![p] = q]
  BY DEF Answer
<1>4. /\ q.pc = "done" /\ q.offset = 0
      /\ q.lines = lines /\ q.next = next /\ q.skips = skips
      /\ q.generation = generation
      /\ q.marker = poll[p].marker /\ q.markerGen = poll[p].markerGen
  BY <1>1 DEF PollStates
<1> QED
  BY <1>2, <1>3, <1>4

LEMMA GoTypes ==
    ASSUME TypeInv, NEW p \in Polls, NEW pc \in {"resync", "check", "read"},
           NEW offset \in 0..MaxBytes, Go(p, pc, offset),
           UNCHANGED <<file, source, reported, skipped>>, collided' \in BOOLEAN
    PROVE  TypeInv'
<1>1. PICK q \in PollStates : poll' = [poll EXCEPT ![p] = q] /\ q.pc = pc
  BY GoStep
<1> QED
  BY <1>1, OwnTypes

LEMMA AnswerTypes ==
    ASSUME TypeInv, NEW p \in Polls, NEW lines \in SUBSET Lines, NEW next \in 0..MaxBytes,
           NEW skips \in SUBSET Lines, Answer(p, lines, next, skips),
           UNCHANGED <<file, source, ghosts>>
    PROVE  TypeInv'
<1>1. PICK q \in PollStates : poll' = [poll EXCEPT ![p] = q] /\ q.pc = "done"
  BY AnswerStep
<1>2. UNCHANGED <<file, source, reported, skipped>> /\ collided' \in BOOLEAN
  BY TypeFacts DEF ghosts
<1> QED
  BY <1>1, <1>2, OwnTypes

LEMMA ErrorTypes ==
    ASSUME TypeInv, NEW p \in Polls, Error(p),
           UNCHANGED <<file, source, reported, skipped>>, collided' \in BOOLEAN
    PROVE  TypeInv'
BY IdleType, OwnTypes DEF Error

LEMMA WriterTypes ==
    ASSUME TypeInv, Writer
    PROVE  TypeInv'
<1> DEFINE n == Len(log)
           end == CompleteLinesEnd(log)
<1>1. /\ log \in Seq(Nat) /\ log \in Seq(0..MaxLines) /\ n \in Nat
      /\ MaxLines \in Nat /\ MaxBytes \in Nat /\ MaxRotations \in Nat
      /\ generation \in Nat /\ lineCount \in Nat /\ LineBytes \in Nat \ {0}
  BY TypeFacts
<1>2. end \in 0..n
  BY <1>1, CompleteEnd
<1>3. written \subseteq Lines /\ lineCount \in 0..MaxLines
  BY DEF TypeInv, TypeOK
<1>4. /\ Len(Unfinished) = n - end
      /\ Unfinished # << >> => Unfinished \in Lines
  BY UnfinishedIsLine
<1>5. CASE StartLine
  <2> DEFINE b == lineCount + 1
  <2>1. /\ end = n /\ lineCount < MaxLines /\ lineCount' = b /\ written' = written
        /\ Append1(b) /\ UNCHANGED <<generation, source, poll, ghosts>>
    BY <1>5 DEF StartLine, AtLineStart
  <2>2. b \in 0..MaxLines /\ n + 1 - end <= LineBytes
    BY <1>1, <2>1
  <2> HIDE DEF b
  <2> QED
    BY <1>3, <2>1, <2>2, AppendTypes
<1>6. CASE ContinueLine
  <2>1. /\ end # n /\ Len(Unfinished) < LineBytes /\ Append1(log[n])
        /\ lineCount' = lineCount /\ written' = written
        /\ UNCHANGED <<generation, source, poll, ghosts>>
    BY <1>6 DEF ContinueLine, AtLineStart
  <2>2. n \in 1..n
    BY <1>1, <1>2, <2>1
  <2>3. PICK b \in 0..MaxLines : b = log[n]
    BY <1>1, <2>2
  <2>4. n + 1 - end <= LineBytes
    BY <1>1, <1>2, <1>4, <2>1
  <2> QED
    BY <1>3, <2>1, <2>3, <2>4, AppendTypes
<1>7. CASE EndLine
  <2>1. /\ Append1(0) /\ written' = written \cup ({Unfinished} \ {<< >>})
        /\ lineCount' = lineCount /\ UNCHANGED <<generation, source, poll, ghosts>>
    BY <1>7 DEF EndLine
  <2>2. written' \subseteq Lines /\ 0 \in 0..MaxLines
    BY <1>1, <1>3, <1>4, <2>1
  <2> QED
    BY <1>3, <2>1, <2>2, AppendTypes
<1>8. ASSUME NEW stays \in BOOLEAN, Rotate(stays) PROVE TypeInv'
  <2>1. /\ generation < MaxRotations /\ generation' = generation + 1
        /\ exists' = stays /\ log' = << >>
        /\ lineCount' = lineCount /\ written' = written /\ marker' = marker
        /\ markerGen' = markerGen /\ edits' = edits /\ poll' = poll
        /\ reported' = reported /\ skipped' = skipped /\ collided' = collided
    BY <1>8 DEF Rotate, source, ghosts
  <2>2. log' \in Seq(0..MaxLines) /\ Len(log') = 0
    BY <2>1
  <2>3. generation' \in 0..MaxRotations /\ Len(log') <= MaxBytes
    BY <1>1, <2>1, <2>2
  <2>4. TypeOK'
    BY <2>1, <2>2, <2>3 DEF TypeInv, TypeOK
  <2>5. Short(log)'
    BY <2>2 DEF Short
  <2> QED
    BY <2>4, <2>5 DEF TypeInv
<1> QED
  BY <1>5, <1>6, <1>7, <1>8 DEF Writer

LEMMA HostTypes ==
    ASSUME TypeInv, Edit \/ \E p \in Polls : StartPoll(p) \/ Finish(p) \/ Fail(p)
    PROVE  TypeInv'
<1>1. /\ reported \subseteq Lines /\ skipped \subseteq Lines /\ collided \in BOOLEAN
      /\ marker \in Markers /\ markerGen \in 0..MaxRotations /\ edits \in 0..MaxEdits
      /\ \A p \in Polls : poll[p] \in PollStates
      /\ MaxBytes \in Nat /\ MaxRotations \in Nat /\ MaxEdits \in Nat
  BY TypeFacts DEF TypeInv, TypeOK
<1>2. ASSUME NEW p \in Polls
      PROVE  /\ poll[p].lines \subseteq Lines /\ poll[p].skips \subseteq Lines
             /\ poll[p].next \in Markers /\ poll[p].generation \in 0..MaxRotations
  BY <1>1 DEF PollStates, Markers
<1>3. CASE Edit
  <2>1. /\ edits < MaxEdits /\ edits' = edits + 1 /\ marker' = None /\ markerGen' = 0
        /\ poll' = [p \in Polls |-> IF poll[p] = Idle THEN Idle
                                    ELSE [poll[p] EXCEPT !.discard = TRUE]]
        /\ exists' = exists /\ log' = log /\ lineCount' = lineCount
        /\ generation' = generation /\ written' = written
        /\ reported' = reported /\ skipped' = skipped /\ collided' = collided
    BY <1>3 DEF Edit, file, ghosts
  <2>2. ASSUME NEW p \in Polls
        PROVE  poll'[p] \in PollStates /\ (poll'[p].pc = "idle" => poll'[p] = Idle)
    <3>1. CASE poll[p] = Idle
      BY <2>1, <3>1, IdleType
    <3>2. CASE poll[p] # Idle
      <4>1. poll'[p] = [poll[p] EXCEPT !.discard = TRUE]
        BY <2>1, <3>2
      <4>2. poll'[p] \in PollStates /\ poll'[p].pc = poll[p].pc
        BY <1>1, <4>1 DEF PollStates
      <4>3. poll[p].pc # "idle"
        BY <3>2 DEF TypeInv, TypeOK
      <4> QED
        BY <4>2, <4>3
    <3> QED
      BY <3>1, <3>2
  <2>3. poll' \in [Polls -> PollStates] /\ \A p \in Polls : poll'[p].pc = "idle" => poll'[p] = Idle
    BY <2>1, <2>2
  <2>4. marker' \in Markers /\ markerGen' \in 0..MaxRotations /\ edits' \in 0..MaxEdits
    BY <1>1, <2>1 DEF Markers
  <2>5. TypeOK'
    BY <2>1, <2>3, <2>4 DEF TypeInv, TypeOK
  <2> QED
    BY <2>1, <2>5 DEF TypeInv, Short
<1>4. ASSUME NEW p \in Polls, StartPoll(p) PROVE TypeInv'
  <2>1. PICK q : q = Poll("stat", marker, markerGen)
    OBVIOUS
  <2>2. q \in PollStates /\ q.pc = "stat"
    <3>1. 0 \in 0..MaxBytes /\ 0 \in 0..MaxRotations
      BY <1>1
    <3> QED
      BY <1>1, <2>1, <3>1 DEF Poll, PollStates
  <2>3. /\ poll' = [poll EXCEPT ![p] = q] /\ UNCHANGED <<file, source, reported, skipped>>
        /\ collided' \in BOOLEAN
    BY <1>1, <1>4, <2>1 DEF StartPoll, ghosts
  <2> QED
    BY <2>2, <2>3, OwnTypes
<1>5. ASSUME NEW p \in Polls, Finish(p) PROVE TypeInv'
  <2>1. /\ reported' = reported \cup poll[p].lines
        /\ poll' = [poll EXCEPT ![p] = Idle]
        /\ UNCHANGED <<file, edits>> /\ collided' = collided
    BY <1>5 DEF Finish
  <2>2. \/ marker' = marker /\ markerGen' = markerGen /\ skipped' = skipped
        \/ /\ marker' = poll[p].next /\ markerGen' = poll[p].generation
           /\ skipped' = skipped \cup poll[p].skips
    BY <1>5 DEF Finish
  <2>3. /\ marker' \in Markers /\ markerGen' \in 0..MaxRotations
        /\ reported' \subseteq Lines /\ skipped' \subseteq Lines /\ collided' \in BOOLEAN
    BY <1>1, <1>2, <2>1, <2>2
  <2> QED
    BY <2>1, <2>3, IdleType, PollTypes
<1>6. ASSUME NEW p \in Polls, Fail(p) PROVE TypeInv'
  <2>1. PICK queued \in SUBSET poll[p].lines : reported' = reported \cup queued
    BY <1>6 DEF Fail
  <2>2. /\ poll' = [poll EXCEPT ![p] = Idle] /\ UNCHANGED <<file, edits>>
        /\ marker' = marker /\ markerGen' = markerGen
        /\ skipped' = skipped /\ collided' = collided
    BY <1>6 DEF Fail, source
  <2>3. reported' \subseteq Lines
    BY <1>1, <1>2, <2>1
  <2> QED
    BY <1>1, <2>2, <2>3, IdleType, PollTypes
<1> QED
  BY <1>3, <1>4, <1>5, <1>6

LEMMA PollChangesTypes ==
    ASSUME TypeInv, NEW p \in Polls, PollChanges(p)
    PROVE  TypeInv'
<1> DEFINE m == poll[p].marker
           o == poll[p].offset
<1>1. /\ log \in Seq(Nat) /\ Len(log) \in Nat /\ MaxBytes \in Nat /\ Len(log) <= MaxBytes
      /\ collided \in BOOLEAN /\ poll[p] \in PollStates
  BY TypeFacts
<1>2. m \in Markers /\ m \in Int /\ o \in 0..MaxBytes /\ o \in Nat /\ 0 \in 0..MaxBytes
  BY <1>1 DEF PollStates, Markers, None, Unusable
<1>3. CompleteLinesEnd(log) \in 0..Len(log) /\ {} \in SUBSET Lines
  BY <1>1, CompleteEnd
<1>4. LinesAfter(log, o) \in SUBSET Lines /\ LinesAfter(log, 0) \in SUBSET Lines
  BY <1>2, LinesAreTyped
<1> HIDE DEF m, o
<1>5. CASE Stat(p)
  <2>1. /\ UNCHANGED <<file, source, reported, skipped>> /\ collided' \in BOOLEAN
        /\ UNCHANGED <<file, source, ghosts>>
    BY <1>1, <1>5 DEF Stat, ghosts
  <2>2. \/ Answer(p, {}, 0, {})
        \/ Error(p)
        \/ Go(p, "resync", 0)
        \/ Go(p, "read", 0)
        \/ ~ (m < 0) /\ ~ (m > Len(log) \/ m = 0) /\ Go(p, "check", m)
    <3>1. ~exists \/ exists
      OBVIOUS
    <3>2. CASE ~exists
      BY <1>5, <3>2 DEF Stat, m
    <3>3. CASE exists
      BY <1>5, <3>3 DEF Stat, m
    <3> QED
      BY <3>2, <3>3
  <2>3. CASE Answer(p, {}, 0, {})
    BY <1>2, <1>3, <2>1, <2>3, AnswerTypes
  <2>4. CASE Error(p)
    BY <2>1, <2>4, ErrorTypes
  <2>5. CASE Go(p, "resync", 0) \/ Go(p, "read", 0)
    BY <1>2, <2>1, <2>5, GoTypes
  <2>6. CASE ~ (m < 0) /\ ~ (m > Len(log) \/ m = 0) /\ Go(p, "check", m)
    <3>1. m \in 0..MaxBytes
      BY <1>1, <1>2, <2>6
    <3>2. PICK k \in 0..MaxBytes : k = m
      BY <3>1
    <3> QED
      BY <2>1, <2>6, <3>2, GoTypes
  <2> QED
    BY <2>2, <2>3, <2>4, <2>5, <2>6
<1>6. CASE Resync(p)
  <2> DEFINE skips == IF m < 0 THEN LinesAfter(log, 0) ELSE {}
  <2>1. /\ UNCHANGED <<file, source, reported, skipped>> /\ collided' \in BOOLEAN
        /\ UNCHANGED <<file, source, ghosts>>
        /\ IF exists THEN Answer(p, {}, CompleteLinesEnd(log), skips) ELSE Error(p)
    BY <1>1, <1>6 DEF Resync, ghosts, m
  <2>2. PICK next \in 0..MaxBytes : next = CompleteLinesEnd(log)
    BY <1>1, <1>3
  <2>3. PICK ls \in SUBSET Lines : ls = skips
    BY <1>3, <1>4
  <2> HIDE DEF skips
  <2>4. Error(p) \/ Answer(p, {}, next, ls)
    BY <2>1, <2>2, <2>3
  <2> QED
    BY <1>3, <2>1, <2>4, AnswerTypes, ErrorTypes
<1>7. CASE Check(p)
  <2> DEFINE next == IF FollowsNewline(log, o) THEN o ELSE 0
  <2>1. /\ UNCHANGED <<file, source, reported, skipped>> /\ collided' \in BOOLEAN
        /\ Error(p) \/ Go(p, "read", next)
    BY <1>1, <1>7 DEF Check, o
  <2>2. PICK k \in 0..MaxBytes : k = next
    BY <1>2
  <2> HIDE DEF next
  <2> QED
    BY <2>1, <2>2, GoTypes, ErrorTypes
<1>8. CASE Read(p)
  <2> DEFINE end == CompleteLinesEnd(log)
             next == Max({o, end})
  <2>1. /\ UNCHANGED <<file, source, reported, skipped>> /\ collided' \in BOOLEAN
        /\ UNCHANGED <<file, source, ghosts>>
        /\ Error(p) \/ Answer(p, LinesAfter(log, o), next, {})
    BY <1>1, <1>8 DEF Read, ReadAppended, ghosts, o
  <2>2. next \in 0..MaxBytes
    <3> DEFINE S == {o, end}
    <3>1. S \subseteq 0..MaxBytes /\ S # {}
      BY <1>1, <1>2, <1>3
    <3> HIDE DEF S
    <3>2. Max(S) \in S
      BY <1>1, <3>1, MaxOf
    <3> QED
      BY <3>1, <3>2 DEF S
  <2> HIDE DEF next
  <2>3. PICK k \in 0..MaxBytes : k = next
    BY <2>2
  <2>4. PICK ls \in SUBSET Lines : ls = LinesAfter(log, o)
    BY <1>4
  <2> QED
    BY <1>3, <2>1, <2>3, <2>4, AnswerTypes, ErrorTypes
<1> QED
  BY <1>5, <1>6, <1>7, <1>8 DEF PollChanges

LEMMA TypeStep ==
    ASSUME TypeInv, [Next]_vars
    PROVE  TypeInv'
<1>1. CASE UNCHANGED vars
  <2>1. /\ exists' = exists /\ log' = log /\ lineCount' = lineCount
        /\ generation' = generation /\ written' = written /\ marker' = marker
        /\ markerGen' = markerGen /\ edits' = edits /\ poll' = poll
        /\ reported' = reported /\ skipped' = skipped /\ collided' = collided
    BY <1>1 DEF vars, file, source, ghosts
  <2>2. TypeOK' /\ Short(log)'
    BY <2>1 DEF TypeInv, TypeOK, Short
  <2> QED
    BY <2>2 DEF TypeInv
<1> QED
  BY <1>1, WriterTypes, HostTypes, PollChangesTypes DEF Next

LEMMA TypeInit ==
    ASSUME Init
    PROVE  TypeInv
<1>1. {MaxLines, MaxBytes, MaxRotations, MaxEdits} \subseteq Nat
  BY BoundsAssumption
<1>2. /\ exists = FALSE /\ log = << >> /\ lineCount = 0 /\ generation = 0 /\ written = {}
      /\ marker \in {None, Unusable} /\ markerGen = 0 /\ edits = 0
      /\ poll = [p \in Polls |-> Idle] /\ reported = {} /\ skipped = {} /\ collided = FALSE
  BY DEF Init
<1>3. log \in Seq(Nat) /\ log \in Seq(0..MaxLines) /\ Len(log) = 0
  BY <1>2
<1>4. Idle \in PollStates
  <2>1. 0 \in 0..MaxBytes /\ 0 \in 0..MaxRotations
    BY <1>1
  <2> QED
    BY <2>1 DEF Idle, Poll, PollStates, Markers
<1>5. /\ lineCount \in 0..MaxLines /\ generation \in 0..MaxRotations
      /\ markerGen \in 0..MaxRotations /\ edits \in 0..MaxEdits /\ Len(log) <= MaxBytes
  BY <1>1, <1>2, <1>3
<1>6. marker \in Markers
  BY <1>2 DEF Markers
<1>7. poll \in [Polls -> PollStates] /\ \A p \in Polls : poll[p] = Idle
  BY <1>2, <1>4
<1>8. Short(log)
  BY <1>3 DEF Short
<1> QED
  BY <1>2, <1>3, <1>5, <1>6, <1>7, <1>8 DEF TypeInv, TypeOK

\* Every part of the log, the source and the polls keeps its type, wherever
\* the log is rotated: an offset is a position of the log's bytes, and whatever
\* a poll answers has the form of a line.
THEOREM TypeCorrect == Spec => []TypeOK
<1>1. Init => TypeInv
  BY TypeInit
<1>2. TypeInv /\ [Next]_vars => TypeInv'
  BY TypeStep
<1>3. TypeInv => TypeOK
  BY DEF TypeInv
<1> QED
  BY <1>1, <1>2, <1>3, PTL DEF Spec

-----------------------------------------------------------------------------
(* What the log, the source and the polls keep.                            *)

\* The numbers of the lines grow along the log.
Ordered(bytes) ==
    \A i, j \in 1..Len(bytes) :
        i < j /\ bytes[i] # 0 /\ bytes[j] # 0 =>
            /\ bytes[i] <= bytes[j]
            /\ \A k \in i..j : bytes[k] = 0 => bytes[i] < bytes[j]

LogInv ==
    /\ Runs(log, 0, Len(log)) \subseteq written
    /\ Ordered(log)
    /\ \A i \in 1..Len(log) : log[i] <= lineCount
    /\ ~exists => log = << >>

\* A marker of the log as it is: it ends a line, and what is before it was
\* queued or passed over.
MarkerOK(m, gen) ==
    m > 0 /\ gen = generation =>
        /\ m \in LineEnds(log)
        /\ collided \/ Runs(log, 0, m) \subseteq reported \cup skipped

SourceInv == markerGen <= generation /\ MarkerOK(marker, markerGen)

PollOK(q) ==
    /\ q.markerGen <= generation /\ q.generation <= generation
    /\ q.lines \subseteq written /\ q.skips \subseteq written
    /\ MarkerOK(q.marker, q.markerGen)
    /\ q.pc = "resync" => q.marker < 0
    /\ q.pc = "check" => q.offset = q.marker /\ q.offset \in 1..Len(log)
    /\ q.pc = "read" =>
         /\ q.offset \in {0} \cup LineEnds(log)
         /\ q.offset > 0 => q.offset = q.marker /\ (collided \/ q.markerGen = generation)
         /\ q.marker > 0 /\ q.markerGen = generation => q.offset = q.marker
    /\ q.pc = "done" /\ q.generation = generation =>
         /\ q.next \in {0} \cup LineEnds(log)
         /\ collided \/ Runs(log, 0, q.next) \subseteq reported \cup skipped \cup q.lines \cup q.skips
         /\ q.marker > 0 /\ q.markerGen = generation =>
              q.lines \cap Runs(log, 0, q.marker) = {}

Inv == TypeInv /\ LogInv /\ SourceInv /\ \A p \in Polls : PollOK(poll[p])

\* In an ordered log a line before a line end is no line after it.
LEMMA RunsDiffer ==
    ASSUME NEW bytes \in Seq(Nat), Ordered(bytes), NEW m \in LineEnds(bytes)
    PROVE  Runs(bytes, m, Len(bytes)) \cap Runs(bytes, 0, m) = {}
<1> SUFFICES ASSUME NEW l \in Runs(bytes, m, Len(bytes)), l \in Runs(bytes, 0, m)
             PROVE  FALSE
  OBVIOUS
<1>1. LineEnds(bytes) \subseteq 1..Len(bytes) /\ Len(bytes) \in Nat
  BY LineEndsRange
<1>2. PICK s, e \in 0..Len(bytes) :
        IsLine(bytes, s, e) /\ e <= m /\ l = SubSeq(bytes, s + 1, e - 1)
  BY DEF Runs
<1>3. PICK t, f \in 0..Len(bytes) :
        IsLine(bytes, t, f) /\ m <= t /\ l = SubSeq(bytes, t + 1, f - 1)
  BY DEF Runs
<1>4. l # << >> /\ l \in Seq(Nat)
  BY DEF Runs
<1>5. ASSUME NEW a \in 0..Len(bytes), NEW b \in 0..Len(bytes), IsLine(bytes, a, b),
             l = SubSeq(bytes, a + 1, b - 1)
      PROVE  a + 1 < b /\ a + 1 \in 1..Len(bytes) /\ l[1] = bytes[a + 1] /\ bytes[a + 1] # 0
  <2>1. a < b
    BY <1>5 DEF IsLine
  <2>2. a \in Nat /\ b \in Nat /\ b <= Len(bytes)
    BY <1>1, <1>5
  <2>3. /\ Len(l) = (b - 1) - a
        /\ \A i \in 1..(b - 1) - a : l[i] = bytes[a + i]
    BY <1>5, <2>1, <2>2, RunType
  <2>4. Len(l) \in Nat \ {0}
    BY <1>4
  <2>5. (b - 1) - a \in Nat \ {0}
    BY <2>3, <2>4
  <2>6. a + 1 < b /\ a + 1 \in 1..Len(bytes) /\ 1 \in 1..(b - 1) - a
    BY <1>1, <2>2, <2>5
  <2>7. l[1] = bytes[a + 1]
    BY <2>3, <2>6
  <2>8. a + 1 \notin LineEnds(bytes)
    BY <1>5, <2>2, <2>6 DEF IsLine
  <2>9. bytes[a + 1] # 0
    BY <2>6, <2>8 DEF LineEnds
  <2> QED
    BY <2>6, <2>7, <2>9
<1>6. /\ s + 1 \in 1..Len(bytes) /\ t + 1 \in 1..Len(bytes)
      /\ bytes[s + 1] # 0 /\ bytes[t + 1] # 0 /\ bytes[s + 1] = bytes[t + 1] /\ s + 1 < e
  BY <1>2, <1>3, <1>5
<1>7. m \in s + 1..t + 1 /\ s + 1 < t + 1 /\ bytes[m] = 0
  <2>1. m \in 1..Len(bytes) /\ bytes[m] = 0
    BY <1>1 DEF LineEnds
  <2> QED
    BY <1>1, <1>2, <1>3, <1>6, <2>1
<1>8. bytes[s + 1] < bytes[t + 1]
  BY <1>6, <1>7 DEF Ordered
<1>9. bytes[s + 1] \in Nat
  BY <1>6
<1> QED
  BY <1>6, <1>8, <1>9

LEMMA NoRunsBefore ==
    ASSUME NEW bytes \in Seq(Nat)
    PROVE  Runs(bytes, 0, 0) = {}
<1> SUFFICES ASSUME NEW l \in Runs(bytes, 0, 0) PROVE FALSE
  OBVIOUS
<1>1. PICK s, e \in 0..Len(bytes) : IsLine(bytes, s, e) /\ e <= 0
  BY DEF Runs
<1>2. s < e
  BY <1>1 DEF IsLine
<1> QED
  BY <1>1, <1>2

-----------------------------------------------------------------------------
(* A log that only grows.                                                  *)

\* The log has grown, or is as it was, and so have the other sets.
Grown ==
    /\ generation' = generation
    /\ log' \in Seq(Nat) /\ Len(log) <= Len(log')
    /\ \A i \in 1..Len(log) : log'[i] = log[i]
    /\ written \subseteq written' /\ reported \subseteq reported' /\ skipped \subseteq skipped'
    /\ collided => collided'

LEMMA GrownRuns ==
    ASSUME log \in Seq(Nat), Grown
    PROVE  /\ LineEnds(log) \subseteq LineEnds(log')
           /\ \A m \in {0} \cup LineEnds(log) : Runs(log', 0, m) = Runs(log, 0, m)
<1>1. /\ LineEnds(log) \subseteq 1..Len(log) /\ Len(log) \in Nat /\ Len(log') \in Nat
      /\ log' \in Seq(Nat) /\ Len(log) <= Len(log')
      /\ \A i \in 1..Len(log) : log'[i] = log[i]
  BY LineEndsRange DEF Grown
<1>2. LineEnds(log) \subseteq LineEnds(log')
  BY <1>1 DEF LineEnds
<1>3. ASSUME NEW m \in {0} \cup LineEnds(log) PROVE Runs(log', 0, m) = Runs(log, 0, m)
  <2>1. m \in 0..Len(log)
    BY <1>1
  <2> QED
    BY <1>1, <2>1, RunsOfExtension
<1> QED
  BY <1>2, <1>3

LEMMA MarkerStaysOK ==
    ASSUME log \in Seq(Nat), Grown, NEW m \in Markers, NEW gen, MarkerOK(m, gen)
    PROVE  MarkerOK(m, gen)'
<1> SUFFICES ASSUME m > 0, gen = generation'
             PROVE  /\ m \in LineEnds(log')
                    /\ collided' \/ Runs(log', 0, m) \subseteq reported' \cup skipped'
  BY DEF MarkerOK
<1>1. /\ m \in LineEnds(log)
      /\ collided \/ Runs(log, 0, m) \subseteq reported \cup skipped
  BY DEF MarkerOK, Grown
<1>2. m \in LineEnds(log') /\ Runs(log', 0, m) = Runs(log, 0, m)
  BY <1>1, GrownRuns
<1> QED
  BY <1>1, <1>2 DEF Grown

LEMMA PollStaysOK ==
    ASSUME log \in Seq(Nat), Grown, NEW q \in PollStates, PollOK(q)
    PROVE  PollOK(q)'
<1>1. q.marker \in Markers /\ Len(log) \in Nat
  BY DEF PollStates
<1>2. MarkerOK(q.marker, q.markerGen)'
  BY <1>1, MarkerStaysOK DEF PollOK
<1>3. /\ q.markerGen <= generation' /\ q.generation <= generation'
      /\ q.lines \subseteq written' /\ q.skips \subseteq written'
      /\ q.pc = "resync" => q.marker < 0
  BY DEF PollOK, Grown
<1>4. q.pc = "check" => q.offset = q.marker /\ q.offset \in 1..Len(log')
  BY <1>1 DEF PollOK, Grown
<1>5. q.pc = "read" =>
        /\ q.offset \in {0} \cup LineEnds(log')
        /\ q.offset > 0 => q.offset = q.marker /\ (collided' \/ q.markerGen = generation')
        /\ q.marker > 0 /\ q.markerGen = generation' => q.offset = q.marker
  BY GrownRuns DEF PollOK, Grown
<1>6. ASSUME q.pc = "done", q.generation = generation'
      PROVE  /\ q.next \in {0} \cup LineEnds(log')
             /\ collided' \/ Runs(log', 0, q.next)
                               \subseteq reported' \cup skipped' \cup q.lines \cup q.skips
             /\ q.marker > 0 /\ q.markerGen = generation' =>
                  q.lines \cap Runs(log', 0, q.marker) = {}
  <2>1. /\ q.next \in {0} \cup LineEnds(log)
        /\ collided \/ Runs(log, 0, q.next)
                         \subseteq reported \cup skipped \cup q.lines \cup q.skips
        /\ q.marker > 0 /\ q.markerGen = generation =>
             q.lines \cap Runs(log, 0, q.marker) = {}
    BY <1>6 DEF PollOK, Grown
  <2>2. q.next \in LineEnds(log') \cup {0} /\ Runs(log', 0, q.next) = Runs(log, 0, q.next)
    BY <2>1, GrownRuns
  <2>3. q.marker > 0 /\ q.markerGen = generation' =>
          q.lines \cap Runs(log', 0, q.marker) = {}
    <3> SUFFICES ASSUME q.marker > 0, q.markerGen = generation'
                 PROVE  q.lines \cap Runs(log', 0, q.marker) = {}
      OBVIOUS
    <3>1. q.marker \in LineEnds(log) /\ q.markerGen = generation
      BY DEF PollOK, MarkerOK, Grown
    <3>2. Runs(log', 0, q.marker) = Runs(log, 0, q.marker)
      BY <3>1, GrownRuns
    <3> QED
      BY <2>1, <3>1, <3>2
  <2> QED
    BY <2>1, <2>2, <2>3 DEF Grown
<1> QED
  BY <1>2, <1>3, <1>4, <1>5, <1>6 DEF PollOK

-----------------------------------------------------------------------------
(* The writer's steps.                                                     *)

LEMMA InvTypes ==
    ASSUME Inv
    PROVE  /\ log \in Seq(Nat) /\ log \in Seq(0..MaxLines) /\ Len(log) \in Nat
           /\ \A i \in 1..Len(log) : log[i] \in Nat
           /\ Len(log) <= MaxBytes /\ lineCount \in Nat /\ generation \in Nat
           /\ MaxLines \in Nat /\ MaxBytes \in Nat /\ MaxRotations \in Nat
           /\ MaxEdits \in Nat /\ LineBytes \in Nat \ {0}
           /\ exists \in BOOLEAN /\ collided \in BOOLEAN
           /\ \A p \in Polls : poll[p] \in PollStates /\ PollOK(poll[p])
BY TypeFacts DEF Inv

\* A marker that stays is as good in a log that has grown.
LEMMA SourceStaysOK ==
    ASSUME Inv, Grown, marker' = marker, markerGen' = markerGen
    PROVE  SourceInv'
<1>1. PICK m \in Markers, gen \in 0..MaxRotations : m = marker /\ gen = markerGen
  BY DEF Inv, TypeInv, TypeOK
<1>2. MarkerOK(m, gen) /\ gen <= generation
  BY <1>1 DEF Inv, SourceInv
<1>3. MarkerOK(m, gen)' /\ gen <= generation'
  BY <1>2, InvTypes, MarkerStaysOK DEF Grown
<1>4. marker' = m /\ markerGen' = gen
  BY <1>1
<1> QED
  BY <1>3, <1>4 DEF SourceInv

\* A byte is appended: a newline that ends a line known as written, or a byte
\* of a line with a number not below those before it.
LEMMA AppendInv ==
    ASSUME Inv, TypeInv', NEW b \in 0..MaxLines, Append1(b),
           generation' = generation, UNCHANGED <<source, poll, ghosts>>,
           written \subseteq written', lineCount <= lineCount', b <= lineCount',
           b = 0 => {Unfinished} \ {<< >>} \subseteq written',
           b # 0 => \A i \in 1..Len(log) : log[i] # 0 =>
                      /\ log[i] <= b
                      /\ \A k \in i..Len(log) : log[k] = 0 => log[i] < b
    PROVE  Inv'
<1> DEFINE n == Len(log)
<1>0. /\ log \in Seq(Nat) /\ log \in Seq(0..MaxLines) /\ n \in Nat
      /\ \A i \in 1..n : log[i] \in Nat
      /\ MaxLines \in Nat /\ lineCount \in Nat /\ lineCount' \in Nat
      /\ \A p \in Polls : poll[p] \in PollStates /\ PollOK(poll[p])
  <2>1. lineCount' \in Nat
    BY BoundsAssumption DEF TypeInv, TypeOK
  <2> QED
    BY <2>1, InvTypes
<1>1. /\ Len(log) < MaxBytes /\ exists' = TRUE /\ log' = Append(log, b)
      /\ marker' = marker /\ markerGen' = markerGen /\ edits' = edits /\ poll' = poll
      /\ reported' = reported /\ skipped' = skipped /\ collided' = collided
  BY DEF Append1, source, ghosts
<1>2. b \in Nat
  BY BoundsAssumption
<1>3. /\ log' \in Seq(Nat) /\ log' \in Seq(0..MaxLines) /\ Len(log') = n + 1
      /\ log'[n + 1] = b /\ \A i \in 1..n : log'[i] = log[i]
  BY <1>0, <1>1, <1>2
<1>4. Grown
  BY <1>0, <1>1, <1>3 DEF Grown
<1>5. LogInv'
  <2>1. Runs(log', 0, Len(log')) \subseteq written'
    <3>1. Runs(log, 0, n) \subseteq written'
      BY DEF Inv, LogInv
    <3>2. CASE b = 0
      <4>1. Runs(log', 0, Len(log')) \subseteq Runs(log, 0, n) \cup ({Unfinished} \ {<< >>})
        BY <1>0, <1>1, <3>2, RunsOfNewline DEF Unfinished
      <4> QED
        BY <3>1, <3>2, <4>1
    <3>3. CASE b # 0
      <4>1. Runs(log', 0, n) = Runs(log, 0, n)
        <5>1. n <= Len(log') /\ n \in 0..n /\ 0 \in Nat
          BY <1>0, <1>3
        <5> QED
          BY <1>0, <1>3, <5>1, RunsOfExtension
      <4>2. Runs(log', 0, n + 1) \subseteq Runs(log', 0, n)
        <5> SUFFICES ASSUME NEW l \in Runs(log', 0, n + 1) PROVE l \in Runs(log', 0, n)
          OBVIOUS
        <5>1. PICK s, e \in 0..Len(log') :
                IsLine(log', s, e) /\ 0 <= s /\ e <= n + 1 /\ l = SubSeq(log', s + 1, e - 1)
          BY DEF Runs
        <5>2. e # n + 1
          BY <1>3, <3>3, <5>1 DEF IsLine, LineEnds
        <5>3. e <= n
          BY <1>0, <1>3, <5>1, <5>2
        <5> QED
          BY <5>1, <5>3 DEF Runs
      <4> QED
        BY <1>3, <3>1, <4>1, <4>2
    <3> QED
      BY <3>2, <3>3
  <2>2. Ordered(log')
    <3> SUFFICES ASSUME NEW i \in 1..n + 1, NEW j \in 1..n + 1,
                        i < j, log'[i] # 0, log'[j] # 0
                 PROVE  /\ log'[i] <= log'[j]
                        /\ \A k \in i..j : log'[k] = 0 => log'[i] < log'[j]
      BY <1>3 DEF Ordered
    <3>1. CASE j \in 1..n
      <4>1. i \in 1..n /\ \A k \in i..j : k \in 1..n
        BY <1>0, <3>1
      <4>2. Ordered(log)
        BY DEF Inv, LogInv
      <4>3. log[i] # 0 /\ log[j] # 0 /\ log'[i] = log[i] /\ log'[j] = log[j]
        BY <1>3, <3>1, <4>1
      <4> QED
        BY <1>3, <3>1, <4>1, <4>2, <4>3 DEF Ordered
    <3>2. CASE j = n + 1
      <4>1. i \in 1..n /\ log'[i] = log[i] /\ log'[j] = b /\ b # 0
        BY <1>0, <1>3, <3>2
      <4>2. /\ log[i] <= b
            /\ \A k \in i..n : log[k] = 0 => log[i] < b
        BY <4>1
      <4>3. \A k \in i..j : k = n + 1 \/ (k \in i..n /\ k \in 1..n)
        BY <1>0, <3>2, <4>1
      <4> QED
        BY <1>3, <4>1, <4>2, <4>3
    <3>3. j \in 1..n \/ j = n + 1
      BY <1>0
    <3> QED
      BY <3>1, <3>2, <3>3
  <2>3. \A i \in 1..Len(log') : log'[i] <= lineCount'
    <3> SUFFICES ASSUME NEW i \in 1..n + 1 PROVE log'[i] <= lineCount'
      BY <1>3
    <3>1. CASE i \in 1..n
      <4>1. log'[i] = log[i] /\ log[i] <= lineCount /\ log[i] \in Nat
        BY <1>0, <1>3, <3>1 DEF Inv, LogInv
      <4>2. lineCount <= lineCount' /\ lineCount' \in Nat
        BY <1>0
      <4> QED
        BY <1>0, <4>1, <4>2
    <3>2. CASE i = n + 1
      BY <1>3, <3>2
    <3>3. i \in 1..n \/ i = n + 1
      BY <1>0
    <3> QED
      BY <3>1, <3>2, <3>3
  <2> QED
    BY <1>1, <2>1, <2>2, <2>3 DEF LogInv
<1>6. SourceInv'
  BY <1>1, <1>4, SourceStaysOK
<1>7. ASSUME NEW p \in Polls PROVE PollOK(poll[p])'
  BY <1>0, <1>1, <1>4, PollStaysOK
<1> QED
  BY <1>5, <1>6, <1>7 DEF Inv

LEMMA StartLineInv ==
    ASSUME Inv, TypeInv', StartLine
    PROVE  Inv'
<1> DEFINE b == lineCount + 1
<1>1. /\ Len(log) \in Nat /\ lineCount \in Nat /\ MaxLines \in Nat
      /\ \A i \in 1..Len(log) : log[i] \in Nat /\ log[i] <= lineCount
  BY InvTypes DEF Inv, LogInv
<1>2. /\ lineCount < MaxLines /\ lineCount' = b
      /\ Append1(b) /\ generation' = generation /\ written' = written
      /\ UNCHANGED <<source, poll, ghosts>>
  BY DEF StartLine
<1>3. /\ b \in 0..MaxLines /\ b # 0 /\ lineCount <= b
      /\ \A i \in 1..Len(log) : log[i] < b /\ log[i] <= b
  BY <1>1, <1>2
<1> HIDE DEF b
<1> QED
  BY <1>2, <1>3, AppendInv

LEMMA ContinueLineInv ==
    ASSUME Inv, TypeInv', ContinueLine
    PROVE  Inv'
<1> DEFINE n == Len(log)
           b == log[n]
<1>1. /\ log \in Seq(Nat) /\ log \in Seq(0..MaxLines) /\ n \in Nat /\ lineCount \in Nat
      /\ MaxLines \in Nat /\ \A i \in 1..n : log[i] \in Nat
  BY InvTypes
<1>2. /\ CompleteLinesEnd(log) # n /\ Append1(b)
      /\ lineCount' = lineCount /\ generation' = generation /\ written' = written
      /\ UNCHANGED <<source, poll, ghosts>>
  BY DEF ContinueLine, AtLineStart
<1>3. n \in 1..n /\ CompleteLinesEnd(log) < n
  <2>1. CompleteLinesEnd(log) \in 0..n
    BY <1>1, CompleteEnd
  <2> QED
    BY <1>1, <1>2, <2>1
<1>4. b \in 0..MaxLines /\ b \in Nat /\ b # 0
  BY <1>1, <1>3, UnfinishedIsLine DEF Inv
<1>5. ASSUME NEW i \in 1..n, log[i] # 0
      PROVE  /\ log[i] <= b
             /\ \A k \in i..n : log[k] = 0 => log[i] < b
  <2>1. log[i] \in Nat
    BY <1>1
  <2>2. CASE i = n
    <3>1. \A k \in i..n : k = n
      BY <1>1, <2>2
    <3> QED
      BY <1>4, <2>2, <3>1
  <2>3. CASE i < n
    BY <1>3, <1>4, <1>5, <2>3 DEF Inv, LogInv, Ordered
  <2> QED
    BY <1>1, <2>2, <2>3
<1>6. b <= lineCount
  BY <1>3 DEF Inv, LogInv
<1> QED
  <2>1. \A i \in 1..Len(log) : log[i] # 0 =>
          /\ log[i] <= b
          /\ \A k \in i..Len(log) : log[k] = 0 => log[i] < b
    BY <1>5
  <2>2. lineCount <= lineCount' /\ b <= lineCount'
    BY <1>1, <1>2, <1>6
  <2>3. PICK c \in 0..MaxLines : c = b
    BY <1>4
  <2> HIDE DEF b
  <2> QED
    BY <1>2, <1>4, <2>1, <2>2, <2>3, AppendInv

LEMMA EndLineInv ==
    ASSUME Inv, TypeInv', EndLine
    PROVE  Inv'
<1>1. /\ Append1(0) /\ written' = written \cup ({Unfinished} \ {<< >>})
      /\ lineCount' = lineCount /\ generation' = generation
      /\ UNCHANGED <<source, poll, ghosts>>
  BY DEF EndLine
<1>2. lineCount <= lineCount' /\ 0 <= lineCount' /\ 0 \in 0..MaxLines
  BY <1>1, InvTypes
<1> QED
  BY <1>1, <1>2, AppendInv

\* A rotation leaves no marker and no poll of the log as it is.
LEMMA RotateInv ==
    ASSUME Inv, TypeInv', ~RotateDuringPoll, NEW stays \in BOOLEAN, Rotate(stays)
    PROVE  Inv'
<1>1. /\ generation < MaxRotations /\ generation' = generation + 1
      /\ exists' = stays /\ log' = << >>
      /\ \A p \in Polls : ~Reading(p)
      /\ lineCount' = lineCount /\ written' = written /\ marker' = marker
      /\ markerGen' = markerGen /\ edits' = edits /\ poll' = poll
      /\ reported' = reported /\ skipped' = skipped /\ collided' = collided
  BY DEF Rotate, source, ghosts
<1>2. /\ generation \in Nat /\ MaxRotations \in Nat /\ MaxBytes \in Nat /\ LineBytes \in Nat
      /\ \A p \in Polls : poll[p] \in PollStates /\ PollOK(poll[p])
  BY InvTypes
<1>3. log' \in Seq(Nat) /\ log' \in Seq(0..MaxLines) /\ Len(log') = 0
  BY <1>1
<1>4. LogInv'
  <2>1. Runs(log', 0, Len(log')) \subseteq written'
    BY <1>3, NoRunsBefore
  <2>2. Ordered(log') /\ \A i \in 1..Len(log') : log'[i] <= lineCount'
    BY <1>3 DEF Ordered
  <2> QED
    BY <1>1, <2>1, <2>2 DEF LogInv
<1>5. ASSUME NEW gen \in Nat, gen <= generation
      PROVE  gen <= generation' /\ gen # generation'
  BY <1>1, <1>2, <1>5
<1>6. SourceInv'
  <2>1. markerGen \in Nat /\ markerGen <= generation
    BY <1>2 DEF Inv, TypeInv, TypeOK, SourceInv
  <2> QED
    BY <1>1, <1>5, <2>1 DEF SourceInv, MarkerOK
<1>7. ASSUME NEW p \in Polls PROVE PollOK(poll[p])'
  <2>1. PICK q \in PollStates : q = poll[p] /\ PollOK(q)
    BY <1>2
  <2>2. q.markerGen \in Nat /\ q.markerGen <= generation /\ q.generation \in Nat /\ q.generation <= generation
    BY <1>2, <2>1 DEF PollStates, PollOK
  <2>3. q.markerGen <= generation' /\ q.markerGen # generation'
        /\ q.generation <= generation' /\ q.generation # generation'
    BY <1>5, <2>2
  <2>4. q.pc \notin {"resync", "check", "read"}
    BY <1>1, <2>1 DEF Reading
  <2>5. q.lines \subseteq written' /\ q.skips \subseteq written'
    BY <1>1, <2>1 DEF PollOK
  <2>6. PollOK(q)'
    BY <2>3, <2>4, <2>5 DEF PollOK, MarkerOK
  <2> QED
    BY <1>1, <2>1, <2>6
<1> QED
  BY <1>4, <1>6, <1>7 DEF Inv

-----------------------------------------------------------------------------
(* The host's and the polls' steps.                                        *)

\* One poll moves to the state q; the log stays.
LEMMA PollStepInv ==
    ASSUME Inv, TypeInv', NEW p \in Polls, NEW q \in PollStates,
           poll' = [poll EXCEPT ![p] = q], UNCHANGED file,
           reported \subseteq reported', skipped \subseteq skipped', collided => collided',
           SourceInv', PollOK(q)'
    PROVE  Inv'
<1>1. /\ exists' = exists /\ log' = log /\ lineCount' = lineCount
      /\ generation' = generation /\ written' = written
  BY DEF file
<1>2. log \in Seq(Nat) /\ Len(log) \in Nat /\ \A r \in Polls : poll[r] \in PollStates /\ PollOK(poll[r])
  BY InvTypes
<1>3. Grown
  BY <1>1, <1>2 DEF Grown
<1>4. \A r \in Polls : poll'[r] = IF r = p THEN q ELSE poll[r]
  BY DEF Inv, TypeInv, TypeOK
<1>5. LogInv'
  BY <1>1 DEF Inv, LogInv
<1>6. ASSUME NEW r \in Polls PROVE PollOK(poll[r])'
  <2>1. CASE r = p
    <3>1. poll'[r] = q
      BY <1>4, <2>1
    <3> QED
      BY <3>1
  <2>2. CASE r # p
    <3>1. PICK o \in PollStates : o = poll[r] /\ PollOK(o)
      BY <1>2
    <3>2. PollOK(o)'
      BY <1>2, <1>3, <3>1, PollStaysOK
    <3>3. poll'[r] = o
      BY <1>4, <2>2, <3>1
    <3> QED
      BY <3>2, <3>3
  <2> QED
    BY <2>1, <2>2
<1> QED
  BY <1>5, <1>6 DEF Inv

\* A poll's step leaves the source and what was queued as they are.
LEMMA OwnStepInv ==
    ASSUME Inv, TypeInv', NEW p \in Polls, NEW q \in PollStates,
           poll' = [poll EXCEPT ![p] = q], UNCHANGED <<file, source, ghosts>>, PollOK(q)
    PROVE  Inv'
<1>1. /\ log' = log /\ generation' = generation /\ written' = written
      /\ UNCHANGED file /\ marker' = marker /\ markerGen' = markerGen
      /\ reported' = reported /\ skipped' = skipped /\ collided' = collided
  BY DEF file, source, ghosts
<1>2. log \in Seq(Nat) /\ Len(log) \in Nat
  BY InvTypes
<1>3. Grown
  BY <1>1, <1>2 DEF Grown
<1>4. PollOK(q)'
  BY <1>2, <1>3, PollStaysOK
<1>5. SourceInv'
  BY <1>1, <1>3, SourceStaysOK
<1> QED
  BY <1>1, <1>4, <1>5, PollStepInv

LEMMA IdleOK ==
    ASSUME Inv
    PROVE  Idle \in PollStates /\ PollOK(Idle)
<1>1. generation \in Nat /\ Idle \in PollStates
  BY InvTypes, IdleType DEF Inv
<1> QED
  BY <1>1 DEF Idle, Poll, PollOK, MarkerOK, None

LEMMA ErrorInv ==
    ASSUME Inv, TypeInv', NEW p \in Polls, Error(p), UNCHANGED <<file, source, ghosts>>
    PROVE  Inv'
BY IdleOK, OwnStepInv DEF Error

\* What an answer must satisfy.
LEMMA AnswerInv ==
    ASSUME Inv, TypeInv', NEW p \in Polls, NEW lines \in SUBSET written, NEW next \in 0..MaxBytes,
           NEW skips \in SUBSET written, Answer(p, lines, next, skips),
           UNCHANGED <<file, source, ghosts>>,
           next \in {0} \cup LineEnds(log),
           collided \/ Runs(log, 0, next) \subseteq reported \cup skipped \cup lines \cup skips,
           poll[p].marker > 0 /\ poll[p].markerGen = generation =>
             lines \cap Runs(log, 0, poll[p].marker) = {}
    PROVE  Inv'
<1>1. lines \in SUBSET Lines /\ skips \in SUBSET Lines
  BY DEF Inv, TypeInv, TypeOK
<1>2. PICK q \in PollStates :
        /\ poll' = [poll EXCEPT ![p] = q]
        /\ q.pc = "done" /\ q.offset = 0
        /\ q.lines = lines /\ q.next = next /\ q.skips = skips
        /\ q.generation = generation
        /\ q.marker = poll[p].marker /\ q.markerGen = poll[p].markerGen
  BY <1>1, AnswerStep DEF Inv
<1>3. PollOK(poll[p]) /\ generation \in Nat
  BY InvTypes
<1>4. /\ q.markerGen <= generation /\ q.generation <= generation
      /\ q.lines \subseteq written /\ q.skips \subseteq written
      /\ MarkerOK(q.marker, q.markerGen)
  BY <1>2, <1>3 DEF PollOK
<1>5. PollOK(q)
  BY <1>2, <1>4 DEF PollOK
<1> QED
  BY <1>2, <1>5, OwnStepInv

\* A poll that goes on keeps its marker.
LEMMA GoInv ==
    ASSUME Inv, TypeInv', NEW p \in Polls, NEW pc \in {"resync", "check", "read"},
           NEW offset \in 0..MaxBytes, Go(p, pc, offset),
           UNCHANGED <<file, source, ghosts>>,
           pc = "resync" => poll[p].marker < 0,
           pc = "check" => offset = poll[p].marker /\ offset \in 1..Len(log),
           pc = "read" =>
             /\ offset \in {0} \cup LineEnds(log)
             /\ offset > 0 => offset = poll[p].marker
                                /\ (collided \/ poll[p].markerGen = generation)
             /\ poll[p].marker > 0 /\ poll[p].markerGen = generation =>
                  offset = poll[p].marker
    PROVE  Inv'
<1>1. PICK q \in PollStates :
        /\ poll' = [poll EXCEPT ![p] = q]
        /\ q.pc = pc /\ q.offset = offset
        /\ q.marker = poll[p].marker /\ q.markerGen = poll[p].markerGen
        /\ q.lines = poll[p].lines /\ q.skips = poll[p].skips
        /\ q.generation = poll[p].generation
  BY GoStep DEF Inv
<1>2. PollOK(poll[p])
  BY InvTypes
<1>3. /\ q.markerGen <= generation /\ q.generation <= generation
      /\ q.lines \subseteq written /\ q.skips \subseteq written
      /\ MarkerOK(q.marker, q.markerGen)
  BY <1>1, <1>2 DEF PollOK
<1>4. PollOK(q)
  BY <1>1, <1>3 DEF PollOK
<1> QED
  BY <1>1, <1>4, OwnStepInv

LEMMA StartPollInv ==
    ASSUME Inv, TypeInv', NEW p \in Polls, StartPoll(p)
    PROVE  Inv'
<1>1. PICK q : q = Poll("stat", marker, markerGen)
  OBVIOUS
<1>2. poll' = [poll EXCEPT ![p] = q] /\ UNCHANGED <<file, source, ghosts>>
  BY <1>1 DEF StartPoll
<1>3. generation \in Nat /\ MaxRotations \in Nat /\ MaxBytes \in Nat
  BY InvTypes
<1>4. /\ marker \in Markers /\ markerGen \in 0..MaxRotations /\ markerGen <= generation
      /\ MarkerOK(marker, markerGen)
  BY DEF Inv, TypeInv, TypeOK, SourceInv
<1>5. q \in PollStates /\ q.pc = "stat"
  <2>1. 0 \in 0..MaxBytes /\ 0 \in 0..MaxRotations
    BY <1>3
  <2> QED
    BY <1>1, <1>4, <2>1 DEF Poll, PollStates
<1>6. PollOK(q)
  BY <1>1, <1>3, <1>4 DEF Poll, PollOK
<1> QED
  BY <1>2, <1>5, <1>6, OwnStepInv

LEMMA EditInv ==
    ASSUME Inv, TypeInv', Edit
    PROVE  Inv'
<1>1. /\ edits < MaxEdits /\ edits' = edits + 1 /\ marker' = None /\ markerGen' = 0
      /\ poll' = [p \in Polls |-> IF poll[p] = Idle THEN Idle
                                  ELSE [poll[p] EXCEPT !.discard = TRUE]]
      /\ exists' = exists /\ log' = log /\ lineCount' = lineCount
      /\ generation' = generation /\ written' = written
      /\ reported' = reported /\ skipped' = skipped /\ collided' = collided
  BY DEF Edit, file, ghosts
<1>2. /\ log \in Seq(Nat) /\ Len(log) \in Nat /\ generation \in Nat
      /\ MaxRotations \in Nat /\ MaxEdits \in Nat
      /\ \A p \in Polls : poll[p] \in PollStates /\ PollOK(poll[p])
  BY InvTypes
<1>3. Grown
  BY <1>1, <1>2 DEF Grown
<1>4. Idle \in PollStates /\ PollOK(Idle)
  BY IdleOK
<1>5. ASSUME NEW p \in Polls
      PROVE  PollOK(poll[p])'
  <2>1. CASE poll[p] = Idle
    <3>1. poll'[p] = Idle
      BY <1>1, <2>1
    <3>2. PollOK(Idle)'
      BY <1>2, <1>3, <1>4, PollStaysOK
    <3> QED
      BY <1>4, <3>1, <3>2
  <2>2. CASE poll[p] # Idle
    <3>1. PICK q : q = [poll[p] EXCEPT !.discard = TRUE]
      OBVIOUS
    <3>2. poll'[p] = q
      BY <1>1, <2>2, <3>1
    <3>3. q \in PollStates
      BY <1>2, <3>1 DEF PollStates
    <3>4. /\ q.pc = poll[p].pc /\ q.marker = poll[p].marker /\ q.markerGen = poll[p].markerGen
          /\ q.offset = poll[p].offset /\ q.lines = poll[p].lines /\ q.next = poll[p].next
          /\ q.skips = poll[p].skips /\ q.generation = poll[p].generation
      BY <1>2, <3>1 DEF PollStates
    <3>5. PollOK(q)
      <4>1. PollOK(poll[p])
        BY <1>2
      <4> QED
        BY <3>4, <4>1 DEF PollOK
    <3>6. PollOK(q)'
      BY <1>2, <1>3, <3>3, <3>5, PollStaysOK
    <3> QED
      BY <3>2, <3>6
  <2> QED
    BY <2>1, <2>2
<1>6. LogInv'
  BY <1>1 DEF Inv, LogInv
<1>7. SourceInv'
  BY <1>1, <1>2 DEF SourceInv, MarkerOK, None
<1> QED
  BY <1>5, <1>6, <1>7 DEF Inv

LEMMA FinishInv ==
    ASSUME Inv, TypeInv', NEW p \in Polls, Finish(p)
    PROVE  Inv'
<1>1. PICK q \in PollStates : q = poll[p] /\ PollOK(q)
  BY InvTypes
<1>2. /\ q.pc = "done" /\ reported' = reported \cup q.lines
      /\ poll' = [poll EXCEPT ![p] = Idle]
      /\ UNCHANGED file /\ collided' = collided
      /\ log' = log /\ generation' = generation /\ written' = written
  BY <1>1 DEF Finish, file
<1>3. \/ marker' = marker /\ markerGen' = markerGen /\ skipped' = skipped
      \/ marker' = q.next /\ markerGen' = q.generation /\ skipped' = skipped \cup q.skips
  BY <1>1 DEF Finish
<1>4. reported \subseteq reported' /\ skipped \subseteq skipped'
  BY <1>2, <1>3
<1>5. log \in Seq(Nat) /\ Len(log) \in Nat
  BY InvTypes
<1>6. Grown
  BY <1>2, <1>4, <1>5 DEF Grown
<1>7. SourceInv'
  <2>1. CASE marker' = marker /\ markerGen' = markerGen
    BY <1>6, <2>1, SourceStaysOK
  <2>2. CASE marker' = q.next /\ markerGen' = q.generation /\ skipped' = skipped \cup q.skips
    <3>1. q.generation <= generation
      BY <1>1 DEF PollOK
    <3>2. ASSUME q.next > 0, q.generation = generation
          PROVE  /\ q.next \in LineEnds(log)
                 /\ collided \/ Runs(log, 0, q.next)
                                  \subseteq reported \cup skipped \cup q.lines \cup q.skips
      BY <1>1, <1>2, <3>2 DEF PollOK
    <3>3. MarkerOK(marker, markerGen)'
      BY <1>2, <2>2, <3>2 DEF MarkerOK
    <3> QED
      BY <1>2, <2>2, <3>1, <3>3 DEF SourceInv
  <2> QED
    BY <1>3, <2>1, <2>2
<1>8. Idle \in PollStates /\ PollOK(Idle)'
  BY <1>5, <1>6, IdleOK, PollStaysOK
<1> QED
  BY <1>2, <1>4, <1>7, <1>8, PollStepInv

LEMMA FailInv ==
    ASSUME Inv, TypeInv', NEW p \in Polls, Fail(p)
    PROVE  Inv'
<1>1. PICK queued \in SUBSET poll[p].lines : reported' = reported \cup queued
  BY DEF Fail
<1>2. /\ poll' = [poll EXCEPT ![p] = Idle] /\ UNCHANGED file
      /\ marker' = marker /\ markerGen' = markerGen
      /\ skipped' = skipped /\ collided' = collided
      /\ log' = log /\ generation' = generation /\ written' = written
  BY DEF Fail, file, source
<1>3. reported \subseteq reported'
  BY <1>1
<1>4. log \in Seq(Nat) /\ Len(log) \in Nat
  BY InvTypes
<1>5. Grown
  BY <1>2, <1>3, <1>4 DEF Grown
<1>6. SourceInv'
  BY <1>2, <1>5, SourceStaysOK
<1>7. Idle \in PollStates /\ PollOK(Idle)'
  BY <1>4, <1>5, IdleOK, PollStaysOK
<1> QED
  BY <1>2, <1>3, <1>6, <1>7, PollStepInv

LEMMA StatInv ==
    ASSUME Inv, TypeInv', NEW p \in Polls, Stat(p)
    PROVE  Inv'
<1> DEFINE m == poll[p].marker
<1>1. /\ log \in Seq(Nat) /\ Len(log) \in Nat /\ MaxBytes \in Nat
      /\ generation \in Nat /\ LineEnds(log) \subseteq 1..Len(log) /\ Len(log) <= MaxBytes
  BY InvTypes, LineEndsRange DEF Inv, TypeInv, TypeOK
<1>2. m \in Markers /\ PollOK(poll[p])
  BY InvTypes DEF PollStates
<1>3. UNCHANGED <<file, source, ghosts>>
  BY DEF Stat
<1>4. \/ Answer(p, {}, 0, {})
      \/ Error(p)
      \/ m < 0 /\ Go(p, "resync", 0)
      \/ (m > Len(log) \/ m = 0) /\ Go(p, "read", 0)
      \/ ~ (m < 0) /\ ~ (m > Len(log) \/ m = 0) /\ Go(p, "check", m)
  <2>1. ~exists \/ exists
    OBVIOUS
  <2>2. CASE ~exists
    BY <2>2 DEF Stat
  <2>3. CASE exists
    BY <2>3 DEF Stat
  <2> QED
    BY <2>2, <2>3
<1>5. m \in Int
  BY <1>1, <1>2 DEF Markers, None, Unusable
<1>6. 0 \in 0..MaxBytes
  BY <1>1
<1> HIDE DEF m
<1>7. CASE Answer(p, {}, 0, {})
  <2>1. Runs(log, 0, 0) = {}
    BY <1>1, NoRunsBefore
  <2>2. {} \in SUBSET written
    OBVIOUS
  <2> QED
    BY <1>3, <1>6, <1>7, <2>1, <2>2, AnswerInv
<1>8. CASE Error(p)
  BY <1>3, <1>8, ErrorInv
<1>9. CASE m < 0 /\ Go(p, "resync", 0)
  BY <1>3, <1>6, <1>9, GoInv DEF m
<1>10. CASE (m > Len(log) \/ m = 0) /\ Go(p, "read", 0)
  <2>1. ~ (m > 0 /\ poll[p].markerGen = generation)
    <3>1. m > 0 /\ poll[p].markerGen = generation => m \in LineEnds(log)
      BY <1>2 DEF PollOK, MarkerOK, m
    <3> QED
      BY <1>1, <1>5, <1>10, <3>1
  <2> QED
    BY <1>3, <1>6, <1>10, <2>1, GoInv DEF m
<1>11. CASE ~ (m < 0) /\ ~ (m > Len(log) \/ m = 0) /\ Go(p, "check", m)
  <2>1. m \in 1..Len(log) /\ m \in 0..MaxBytes
    BY <1>1, <1>5, <1>11
  <2>2. PICK o \in 0..MaxBytes : o = m
    BY <2>1
  <2> QED
    BY <1>3, <1>11, <2>1, <2>2, GoInv DEF m
<1> QED
  BY <1>4, <1>7, <1>8, <1>9, <1>10, <1>11

LEMMA ResyncInv ==
    ASSUME Inv, TypeInv', NEW p \in Polls, Resync(p)
    PROVE  Inv'
<1>1. /\ log \in Seq(Nat) /\ Len(log) \in Nat /\ MaxBytes \in Nat /\ Len(log) <= MaxBytes
      /\ PollOK(poll[p])
  BY InvTypes DEF Inv, TypeInv, TypeOK
<1>2. poll[p].marker < 0 /\ UNCHANGED <<file, source, ghosts>>
  BY <1>1 DEF Resync, PollOK
<1>3. CASE exists
  <2>1. Answer(p, {}, CompleteLinesEnd(log), LinesAfter(log, 0))
    BY <1>2, <1>3 DEF Resync
  <2>2. /\ CompleteLinesEnd(log) \in {0} \cup LineEnds(log)
        /\ CompleteLinesEnd(log) \in 0..Len(log)
    BY <1>1, CompleteEnd
  <2>3. LinesAfter(log, 0) = Runs(log, 0, Len(log))
    BY <1>1, LinesAreRuns
  <2>4. LinesAfter(log, 0) \in SUBSET written
    BY <2>3 DEF Inv, LogInv
  <2>5. Runs(log, 0, CompleteLinesEnd(log)) \subseteq LinesAfter(log, 0)
    <3>1. 0 \in 0..Len(log)
      BY <1>1
    <3> QED
      BY <1>1, <2>2, <2>3, <3>1, RunsWithin
  <2>6. CompleteLinesEnd(log) \in 0..MaxBytes
    BY <1>1, <2>2
  <2>7. PICK next \in 0..MaxBytes : next = CompleteLinesEnd(log)
    BY <2>6
  <2>8. PICK skips \in SUBSET written : skips = LinesAfter(log, 0)
    BY <2>4
  <2>9. {} \in SUBSET written /\ {} \cap Runs(log, 0, poll[p].marker) = {}
    OBVIOUS
  <2>10. Runs(log, 0, next) \subseteq reported \cup skipped \cup {} \cup skips
    BY <2>5, <2>7, <2>8
  <2> QED
    BY <1>2, <2>1, <2>2, <2>7, <2>8, <2>9, <2>10, AnswerInv
<1>4. CASE ~exists
  BY <1>2, <1>4, ErrorInv DEF Resync
<1> QED
  BY <1>3, <1>4

\* The check accepts a marker of this log, and of a rotated one only if a
\* newline happens to be there.
LEMMA CheckInv ==
    ASSUME Inv, TypeInv', NEW p \in Polls, Check(p)
    PROVE  Inv'
<1> DEFINE m == poll[p].offset
           next == IF FollowsNewline(log, m) THEN m ELSE 0
<1>1. /\ log \in Seq(Nat) /\ Len(log) \in Nat /\ MaxBytes \in Nat /\ Len(log) <= MaxBytes
      /\ generation \in Nat /\ collided \in BOOLEAN
      /\ poll[p] \in PollStates /\ PollOK(poll[p])
  BY InvTypes DEF Inv, TypeInv, TypeOK
<1>2. poll[p].pc = "check" /\ UNCHANGED <<file, source, reported, skipped>>
      /\ collided' = (collided \/ (/\ m <= Len(log) /\ log[m] = 0
                                   /\ poll[p].markerGen # generation))
      /\ IF ~exists \/ m > Len(log) THEN Error(p) ELSE Go(p, "read", next)
  BY DEF Check
<1>3. m = poll[p].marker /\ m \in 1..Len(log)
  BY <1>1, <1>2 DEF PollOK
<1>4. /\ UNCHANGED file /\ log' = log /\ generation' = generation
      /\ written' = written /\ marker' = marker /\ markerGen' = markerGen
      /\ reported' = reported /\ skipped' = skipped
  BY <1>2 DEF file, source
<1>5. collided => collided'
  BY <1>2
<1>6. Grown
  BY <1>1, <1>4, <1>5 DEF Grown
<1>7. SourceInv'
  BY <1>4, <1>6, SourceStaysOK
<1>8. CASE Error(p)
  <2>1. Idle \in PollStates /\ PollOK(Idle)'
    BY <1>1, <1>6, IdleOK, PollStaysOK
  <2> QED
    BY <1>4, <1>5, <1>7, <1>8, <2>1, PollStepInv DEF Error
<1>9. CASE Go(p, "read", next)
  <2>1. m \in 0..MaxBytes /\ 0 \in 0..MaxBytes
    BY <1>1, <1>3
  <2>2. next \in 0..MaxBytes
    BY <2>1
  <2>3. PICK q \in PollStates :
          /\ poll' = [poll EXCEPT ![p] = q]
          /\ q.pc = "read" /\ q.offset = next
          /\ q.marker = poll[p].marker /\ q.markerGen = poll[p].markerGen
          /\ q.lines = poll[p].lines /\ q.skips = poll[p].skips
          /\ q.generation = poll[p].generation
    <3>1. PICK o \in 0..MaxBytes : o = next
      BY <2>2
    <3> HIDE DEF next
    <3> QED
      BY <1>9, <3>1, GoStep DEF Inv
  <2>4. /\ q.markerGen <= generation' /\ q.generation <= generation'
        /\ q.lines \subseteq written' /\ q.skips \subseteq written'
    BY <1>1, <1>4, <2>3 DEF PollOK
  <2>5. MarkerOK(q.marker, q.markerGen)'
    <3>1. q.marker \in Markers /\ MarkerOK(q.marker, q.markerGen)
      BY <1>1, <2>3 DEF PollOK, PollStates
    <3> QED
      BY <1>1, <1>6, <3>1, MarkerStaysOK
  <2>6. next \in {0} \cup LineEnds(log')
    BY <1>3, <1>4 DEF FollowsNewline, LineEnds
  <2>7. next > 0 => next = m /\ (collided' \/ q.markerGen = generation')
    <3> SUFFICES ASSUME next > 0 PROVE next = m /\ (collided' \/ q.markerGen = generation')
      OBVIOUS
    <3>1. next = m /\ log[m] = 0
      BY <1>3 DEF FollowsNewline
    <3>2. m <= Len(log)
      BY <1>1, <1>3
    <3> QED
      BY <1>2, <1>4, <2>3, <3>1, <3>2
  <2>8. m > 0 /\ q.markerGen = generation' => next = m
    <3> SUFFICES ASSUME m > 0, q.markerGen = generation' PROVE next = m
      OBVIOUS
    <3>1. m \in LineEnds(log)
      BY <1>1, <1>3, <1>4, <2>3 DEF PollOK, MarkerOK
    <3>2. log[m] = 0
      BY <3>1 DEF LineEnds
    <3> QED
      BY <3>2 DEF FollowsNewline
  <2> HIDE DEF next, m
  <2>9. PollOK(q)'
    BY <1>3, <2>3, <2>4, <2>5, <2>6, <2>7, <2>8 DEF PollOK
  <2> QED
    BY <1>4, <1>5, <1>7, <2>3, <2>9, PollStepInv
<1> QED
  BY <1>2, <1>8, <1>9

\* A read from the start of the log or from a marker of this log answers with
\* every later line, and with none from before the marker.
LEMMA ReadInv ==
    ASSUME Inv, TypeInv', NEW p \in Polls, Read(p)
    PROVE  Inv'
<1> DEFINE o == poll[p].offset
           end == CompleteLinesEnd(log)
           lines == LinesAfter(log, o)
           next == Max({o, end})
<1>1. /\ log \in Seq(Nat) /\ Len(log) \in Nat /\ MaxBytes \in Nat /\ Len(log) <= MaxBytes
      /\ poll[p] \in PollStates /\ PollOK(poll[p])
  BY InvTypes DEF Inv, TypeInv, TypeOK
<1>2. /\ poll[p].pc = "read" /\ UNCHANGED <<file, source, ghosts>>
      /\ IF exists THEN Answer(p, lines, next, {}) ELSE Error(p)
  BY DEF Read, ReadAppended
<1>3. /\ o \in {0} \cup LineEnds(log)
      /\ o > 0 => o = poll[p].marker /\ (collided \/ poll[p].markerGen = generation)
      /\ poll[p].marker > 0 /\ poll[p].markerGen = generation => o = poll[p].marker
  BY <1>1, <1>2 DEF PollOK
<1>4. CASE ~exists
  BY <1>2, <1>4, ErrorInv
<1>5. CASE exists
  <2>1. LineEnds(log) \subseteq 1..Len(log)
    BY <1>1, LineEndsRange
  <2>2. /\ end \in {0} \cup LineEnds(log) /\ end \in 0..Len(log)
        /\ \A i \in LineEnds(log) : i <= end
    BY <1>1, CompleteEnd
  <2>3. next \in {0} \cup LineEnds(log) /\ next \in 0..Len(log)
    <3> HIDE DEF o, end
    <3>1. {o, end} \subseteq 0..Len(log) /\ {o, end} # {}
      BY <1>1, <1>3, <2>1, <2>2
    <3>2. next \in {o, end}
      <4> DEFINE S == {o, end}
      <4> HIDE DEF S
      <4>1. Max(S) \in S
        BY <1>1, <3>1, MaxOf DEF S
      <4> QED
        BY <4>1 DEF S
    <3> QED
      BY <1>3, <2>2, <3>1, <3>2
  <2>4. lines = Runs(log, o, Len(log))
    BY <1>1, <1>3, LinesAreRuns
  <2> HIDE DEF o, end, lines, next
  <2>5. o \in 0..Len(log) /\ Len(log) \in 0..Len(log)
    BY <1>1, <1>3, <2>1
  <2>6. lines \in SUBSET written
    <3>1. Runs(log, o, Len(log)) \subseteq Runs(log, 0, Len(log))
      BY <1>1, <2>5, RunsWithin
    <3> QED
      BY <2>4, <3>1 DEF Inv, LogInv
  <2>7. collided \/ Runs(log, 0, next) \subseteq reported \cup skipped \cup lines \cup {}
    <3>1. Runs(log, 0, next) \subseteq Runs(log, 0, o) \cup lines
      BY <1>1, <1>3, <2>3, <2>4, RunsSplit
    <3>2. collided \/ Runs(log, 0, o) \subseteq reported \cup skipped
      <4>1. CASE o = 0
        BY <1>1, <4>1, NoRunsBefore
      <4>2. CASE o > 0
        <5>1. o = poll[p].marker /\ (collided \/ poll[p].markerGen = generation)
          BY <1>3, <4>2
        <5>2. MarkerOK(poll[p].marker, poll[p].markerGen)
          BY <1>1 DEF PollOK
        <5> QED
          BY <4>2, <5>1, <5>2 DEF MarkerOK
      <4> QED
        BY <1>1, <2>5, <4>1, <4>2
    <3> QED
      BY <3>1, <3>2
  <2>8. poll[p].marker > 0 /\ poll[p].markerGen = generation =>
          lines \cap Runs(log, 0, poll[p].marker) = {}
    <3> SUFFICES ASSUME poll[p].marker > 0, poll[p].markerGen = generation
                 PROVE  lines \cap Runs(log, 0, poll[p].marker) = {}
      OBVIOUS
    <3>1. o = poll[p].marker /\ o \in LineEnds(log)
      <4>1. poll[p].marker \in LineEnds(log)
        BY <1>1 DEF PollOK, MarkerOK
      <4> QED
        BY <1>3, <4>1
    <3>2. Ordered(log)
      BY DEF Inv, LogInv
    <3>3. Runs(log, o, Len(log)) \cap Runs(log, 0, o) = {}
      BY <1>1, <3>1, <3>2, RunsDiffer
    <3> QED
      BY <2>4, <3>1, <3>3
  <2>9. PICK n \in 0..MaxBytes : n = next
    BY <1>1, <2>3
  <2>10. PICK ls \in SUBSET written : ls = lines
    BY <2>6
  <2>11. Answer(p, ls, n, {}) /\ {} \in SUBSET written
    BY <1>2, <1>5, <2>9, <2>10
  <2> QED
    BY <1>2, <2>3, <2>7, <2>8, <2>9, <2>10, <2>11, AnswerInv
<1> QED
  BY <1>4, <1>5

-----------------------------------------------------------------------------
(* The theorems.                                                           *)

LEMMA InitInv ==
    ASSUME Init
    PROVE  Inv
<1>1. /\ ~exists => log = << >>
      /\ generation = 0 /\ marker \in {None, Unusable} /\ markerGen = 0
      /\ log \in Seq(Nat) /\ Len(log) = 0
      /\ \A p \in Polls : poll[p] = Idle
  BY DEF Init
<1>2. LogInv
  <2>1. Runs(log, 0, Len(log)) \subseteq written
    BY <1>1, NoRunsBefore
  <2>2. Ordered(log) /\ \A i \in 1..Len(log) : log[i] <= lineCount
    BY <1>1 DEF Ordered
  <2> QED
    BY <1>1, <2>1, <2>2 DEF LogInv
<1>3. SourceInv
  BY <1>1 DEF SourceInv, MarkerOK, None, Unusable
<1>4. PollOK(Idle)
  BY <1>1 DEF Idle, Poll, PollOK, MarkerOK, None
<1> QED
  BY <1>1, <1>2, <1>3, <1>4, TypeInit DEF Inv

LEMMA NextInv ==
    ASSUME ~RotateDuringPoll, Inv, [Next]_vars
    PROVE  Inv'
<1>0. TypeInv'
  BY TypeStep DEF Inv
<1>1. CASE Writer
  BY <1>0, <1>1, StartLineInv, ContinueLineInv, EndLineInv, RotateInv DEF Writer
<1>2. CASE Edit
  BY <1>0, <1>2, EditInv
<1>3. ASSUME NEW p \in Polls, StartPoll(p) \/ Finish(p) \/ Fail(p) \/ PollChanges(p)
      PROVE  Inv'
  BY <1>0, <1>3, StartPollInv, FinishInv, FailInv, StatInv, ResyncInv, CheckInv, ReadInv
     DEF PollChanges
<1>4. CASE UNCHANGED vars
  <2>1. /\ exists' = exists /\ log' = log /\ lineCount' = lineCount
        /\ generation' = generation /\ written' = written /\ marker' = marker
        /\ markerGen' = markerGen /\ edits' = edits /\ poll' = poll
        /\ reported' = reported /\ skipped' = skipped /\ collided' = collided
    BY <1>4 DEF vars, file, source, ghosts
  <2>3. LogInv'
    BY <2>1 DEF Inv, LogInv
  <2>4. SourceInv'
    BY <2>1 DEF Inv, SourceInv, MarkerOK
  <2>5. ASSUME NEW p \in Polls PROVE PollOK(poll[p])'
    <3>1. PollOK(poll[p])
      BY DEF Inv
    <3> QED
      BY <2>1, <3>1 DEF PollOK, MarkerOK
  <2> QED
    BY <1>0, <2>3, <2>4, <2>5 DEF Inv
<1> QED
  BY <1>1, <1>2, <1>3, <1>4 DEF Next

THEOREM Invariance ==
    ASSUME ~RotateDuringPoll
    PROVE  Spec => []Inv
<1>1. Init => Inv
  BY InitInv
<1>2. Inv /\ [Next]_vars => Inv'
  BY NextInv
<1> QED
  BY <1>1, <1>2, PTL DEF Spec

\* Every path the host is given is a line the writer completed
\* (main.go:168-170): an answer holds neither an unfinished line nor a tail.
THEOREM CompleteLinesOnly ==
    ASSUME ~RotateDuringPoll
    PROVE  Spec => []ReportsWholeLines
<1>1. Inv => ReportsWholeLines
  BY DEF Inv, PollOK, ReportsWholeLines
<1> QED
  BY <1>1, Invariance, PTL

\* A poll never replays what lies before its marker in the same log
\* (docs/scan-source.md:166-167).
THEOREM NoReplays ==
    ASSUME ~RotateDuringPoll
    PROVE  Spec => []NoReplay
<1>1. Inv => NoReplay
  <2> SUFFICES ASSUME Inv, NEW p \in Polls, poll[p].pc = "done", poll[p].marker > 0,
                      poll[p].markerGen = poll[p].generation,
                      generation = poll[p].generation
               PROVE  poll[p].lines \cap LinesAfter(SubSeq(log, 1, poll[p].marker), 0) = {}
    BY DEF NoReplay
  <2>1. log \in Seq(Nat) /\ Len(log) \in Nat /\ PollOK(poll[p])
    BY InvTypes
  <2>2. /\ poll[p].marker \in LineEnds(log)
        /\ poll[p].lines \cap Runs(log, 0, poll[p].marker) = {}
    BY <2>1 DEF PollOK, MarkerOK
  <2>3. poll[p].marker \in 0..Len(log)
    BY <2>1, <2>2, LineEndsRange
  <2>4. LinesAfter(SubSeq(log, 1, poll[p].marker), 0) = Runs(log, 0, poll[p].marker)
    BY <2>1, <2>3, LinesOfPrefix
  <2> QED
    BY <2>2, <2>4
<1> QED
  BY <1>1, Invariance, PTL

\* Every complete line behind the marker was queued for a scan or was there at
\* a first poll, but where a rotated log has a newline just at the old marker
\* (examples/hello-scan-source/README.md:21).
THEOREM NoLinesLost ==
    ASSUME ~RotateDuringPoll
    PROVE  Spec => []NoLineLost
<1>1. Inv => NoLineLost
  <2> SUFFICES ASSUME Inv, ~collided, marker > 0, markerGen = generation
               PROVE  LinesAfter(SubSeq(log, 1, marker), 0) \subseteq reported \cup skipped
    BY DEF NoLineLost
  <2>1. log \in Seq(Nat) /\ Len(log) \in Nat
    BY InvTypes
  <2>2. marker \in LineEnds(log) /\ Runs(log, 0, marker) \subseteq reported \cup skipped
    BY DEF Inv, SourceInv, MarkerOK
  <2>3. marker \in 0..Len(log)
    BY <2>1, <2>2, LineEndsRange
  <2>4. LinesAfter(SubSeq(log, 1, marker), 0) = Runs(log, 0, marker)
    BY <2>1, <2>3, LinesOfPrefix
  <2> QED
    BY <2>2, <2>4
<1> QED
  BY <1>1, Invariance, PTL
=============================================================================
