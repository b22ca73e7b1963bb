--------------------------- MODULE SSERelayProofs ---------------------------
(***************************************************************************)
(* Theorems about the SSE relay, for every upstream stream, every split of *)
(* it into reads, every cap and every moment the client may leave.         *)
(***************************************************************************)
EXTENDS SSERelay, FiniteSetTheorems, WellFoundedInduction, SequenceTheorems, TLAPS

-----------------------------------------------------------------------------
(* Induction up to a number.                                               *)

\* A nonempty set of subsets of a finite set has a minimal one.
LEMMA MinimalSubset ==
  ASSUME NEW S, IsFiniteSet(S), NEW B \in SUBSET (SUBSET S), B # {}
  PROVE  \E T \in B : \A U \in B : U \subseteq T => U = T
<1>1. IsWellFoundedOn(StrictSubsetOrdering(S), FiniteSubsetsOf(S))
  BY FS_StrictSubsetOrderingWellFounded
<1>2. FiniteSubsetsOf(S) = SUBSET S
  BY FS_FiniteSubsetsOfFinite
<1>3. \E T \in B : \A U \in B : ~(<<U, T>> \in StrictSubsetOrdering(S))
  BY <1>1, <1>2, WFMin
<1>4. PICK T \in B : \A U \in B : ~(<<U, T>> \in StrictSubsetOrdering(S))
  BY <1>3
<1>5. ASSUME NEW U \in B, U \subseteq T, U # T PROVE FALSE
  <2>1. <<U, T>> \in StrictSubsetOrdering(S)
    BY <1>5 DEF StrictSubsetOrdering
  <2> QED
    BY <2>1, <1>4
<1> QED
  BY <1>5

\* What holds of 0 and is kept by the next number holds up to n.
LEMMA IntervalInduction ==
  ASSUME NEW n \in Nat, NEW G, 0 \in G, \A i \in 0..(n - 1) : i \in G => i + 1 \in G
  PROVE  \A i \in 0..n : i \in G
<1> SUFFICES ASSUME NEW bad \in 0..n, bad \notin G PROVE FALSE
  OBVIOUS
<1> DEFINE B == {0..i : i \in {k \in 0..n : k \notin G}}
<1>1. IsFiniteSet(0..n)
  BY FS_Interval
<1>2. B \in SUBSET (SUBSET (0..n))
  <2>1. ASSUME NEW i \in 0..n PROVE 0..i \in SUBSET (0..n)
    OBVIOUS
  <2> QED
    BY <2>1
<1>3. B # {}
  OBVIOUS
<1>4. PICK T \in B : \A U \in B : U \subseteq T => U = T
  <2> DEFINE D == 0..n
  <2>1. IsFiniteSet(D) /\ B \in SUBSET (SUBSET D) /\ B # {}
    BY <1>1, <1>2, <1>3
  <2> HIDE DEF B, D
  <2> QED
    BY <2>1, MinimalSubset
<1>5. PICK i \in 0..n : i \notin G /\ T = 0..i
  OBVIOUS
<1>6. i - 1 \in 0..(n - 1) /\ (i - 1) + 1 = i /\ i - 1 \in 0..n
  BY <1>5
<1>7. i - 1 \notin G
  BY <1>5, <1>6
<1>8. 0..(i - 1) \in B
  BY <1>6, <1>7
<1>9. 0..(i - 1) \subseteq T /\ i \in T /\ i \notin 0..(i - 1)
  BY <1>5
<1> QED
  BY <1>4, <1>8, <1>9

-----------------------------------------------------------------------------
(* The parser.                                                             *)

\* The tokens of the translator's own lines: field names, event names, kinds of
\* blocks, data.
Names == {"event:", "data:", "message_start", "content_block_start", "content_block_delta",
          "content_block_stop", "message_delta", "message_stop", "error"}
Kinds == {"none", "text", "tool"}
Contents == {"message", "block", "I", "stop_reason", "stop", "api_error"} \cup Kinds

\* The tokens of a stream, those the proxy writes itself included.
Words == STRING \cup {NoName, "", "M", ":ping", LF, CR} \cup Names \cup Contents

\* The states of an EventSource parser.
Parsers ==
  [line : Seq(Words), cr : BOOLEAN, name : Words, data : Seq(Words), blanks : Nat,
   seen : Seq(Words \X Words), events : Seq([name : Words, data : Seq(Words)])]

\* The parser starts in one of its states.
LEMMA StartType == ParseStart \in Parsers
<1>1. <<>> \in Seq(Words) /\ <<>> \in Seq(Words \X Words)
      /\ <<>> \in Seq([name : Words, data : Seq(Words)])
  OBVIOUS
<1>2. NoName \in Words
  BY DEF Words
<1> QED
  BY <1>1, <1>2 DEF ParseStart, Parsers

\* What a token does, by what the parser is in: the LF of a CRLF, an ordinary
\* token, the end of a blank line, of a data line, of an event line, of
\* another line.
LEMMA TokenSteps ==
  ASSUME NEW p \in Parsers, NEW t \in Words
  PROVE  /\ ParseToken(p, t) \in Parsers
         /\ t = LF /\ p.cr =>
              ParseToken(p, t) = [p EXCEPT !.cr = FALSE]
         /\ t \notin Terminators =>
              ParseToken(p, t) = [p EXCEPT !.line = Append(p.line, t), !.cr = FALSE]
         /\ t \in Terminators /\ ~(t = LF /\ p.cr) =>
              LET q == ParseToken(p, t)
              IN  /\ q.line = <<>> /\ q.cr = (t = CR)
                  /\ p.line = <<>> =>
                       /\ q.blanks = p.blanks + 1 /\ q.name = NoName /\ q.data = <<>> /\ q.seen = p.seen
                       /\ q.events = IF p.data = <<>> THEN p.events
                                     ELSE Append(p.events, [name |-> p.name, data |-> p.data])
                  /\ p.line # <<>> => q.blanks = p.blanks /\ q.events = p.events
                  /\ p.line # <<>> /\ p.line[1] = "data:" =>
                       /\ q.name = p.name /\ q.data = p.data \o Tail(p.line)
                       /\ q.seen = Append(p.seen, <<p.name, IF Len(p.line) > 1 THEN p.line[2] ELSE "">>)
                  /\ p.line # <<>> /\ p.line[1] = "event:" =>
                       /\ q.name = IF Len(p.line) > 1 THEN p.line[2] ELSE ""
                       /\ q.data = p.data /\ q.seen = p.seen
                  /\ p.line # <<>> /\ p.line[1] \notin {"data:", "event:"} =>
                       q.name = p.name /\ q.data = p.data /\ q.seen = p.seen
<1>1. CASE t = LF /\ p.cr
  <2>1. ParseToken(p, t) = [p EXCEPT !.cr = FALSE]
    BY <1>1 DEF ParseToken
  <2>2. t \in Terminators
    BY <1>1 DEF Terminators
  <2> QED
    BY <1>1, <2>1, <2>2 DEF Parsers
<1>2. CASE t \notin Terminators
  <2>1. ParseToken(p, t) = [p EXCEPT !.line = Append(p.line, t), !.cr = FALSE]
    BY <1>2 DEF ParseToken, Terminators
  <2>2. Append(p.line, t) \in Seq(Words)
    BY DEF Parsers
  <2>3. t # LF
    BY <1>2 DEF Terminators
  <2> QED
    BY <1>2, <2>1, <2>2, <2>3 DEF Parsers
<1>3. CASE t \in Terminators /\ ~(t = LF /\ p.cr)
  <2> DEFINE line == p.line
             ended == [p EXCEPT !.line = <<>>, !.cr = (t = CR)]
  <2>1. /\ p.line \in Seq(Words) /\ p.name \in Words /\ p.data \in Seq(Words) /\ p.blanks \in Nat
        /\ p.seen \in Seq(Words \X Words) /\ p.events \in Seq([name : Words, data : Seq(Words)])
    BY DEF Parsers
  <2>2. <<>> \in Seq(Words) /\ NoName \in Words /\ "" \in Words
    <3>1. NoName \in Words /\ "" \in Words
      BY DEF Words
    <3>2. <<>> \in Seq(Words)
      OBVIOUS
    <3> QED
      BY <3>1, <3>2
  <2>3. ended \in Parsers /\ ended.line = <<>> /\ ended.cr = (t = CR)
        /\ ended.blanks = p.blanks /\ ended.name = p.name /\ ended.data = p.data
        /\ ended.seen = p.seen /\ ended.events = p.events
    BY <2>2 DEF Parsers
  <2>4. CASE line = <<>>
    <3> DEFINE evs == IF p.data = <<>> THEN p.events
                      ELSE Append(p.events, [name |-> p.name, data |-> p.data])
    <3>1. ParseToken(p, t) = [ended EXCEPT !.blanks = p.blanks + 1, !.name = NoName, !.data = <<>>, !.events = evs]
      BY <1>3, <2>3, <2>4 DEF ParseToken
    <3>2. evs \in Seq([name : Words, data : Seq(Words)])
      <4> DEFINE E == [name : Words, data : Seq(Words)]
                 e == [name |-> p.name, data |-> p.data]
      <4>1. e \in E /\ p.events \in Seq(E)
        BY <2>1
      <4> SUFFICES (IF p.data = <<>> THEN p.events ELSE Append(p.events, e)) \in Seq(E)
        OBVIOUS
      <4> HIDE DEF E, e
      <4> QED
        BY <4>1
    <3> HIDE DEF ended, evs
    <3>3. LET q == ParseToken(p, t)
          IN  /\ q \in Parsers /\ q.line = <<>> /\ q.cr = (t = CR)
              /\ q.blanks = p.blanks + 1 /\ q.name = NoName /\ q.data = <<>> /\ q.seen = p.seen
              /\ q.events = evs
      <4>1. p.blanks + 1 \in Nat
        BY <2>1
      <4> DEFINE b == p.blanks + 1
      <4> HIDE DEF b
      <4>2. ParseToken(p, t) = [ended EXCEPT !.blanks = b, !.name = NoName, !.data = <<>>, !.events = evs]
        BY <3>1 DEF b
      <4>3. b \in Nat
        BY <4>1 DEF b
      <4>4. LET q == ParseToken(p, t)
            IN  /\ q \in Parsers /\ q.line = <<>> /\ q.cr = (t = CR)
                /\ q.blanks = b /\ q.name = NoName /\ q.data = <<>> /\ q.seen = p.seen
                /\ q.events = evs
        BY <2>2, <2>3, <3>2, <4>2, <4>3 DEF Parsers
      <4> QED
        BY <4>4 DEF b
    <3> QED
      BY <1>3, <2>4, <3>3 DEF evs
  <2>5. CASE line # <<>> /\ line[1] = "data:"
    <3> DEFINE pair == <<p.name, IF Len(line) > 1 THEN line[2] ELSE "">>
    <3>1. ParseToken(p, t) = [ended EXCEPT !.data = p.data \o Tail(line), !.seen = Append(p.seen, pair)]
      BY <1>3, <2>3, <2>5 DEF ParseToken
    <3>2. pair \in Words \X Words /\ Tail(line) \in Seq(Words)
      <4>1. Len(line) \in Nat /\ (Len(line) > 1 => line[2] \in Words) /\ Tail(line) \in Seq(Words)
        BY <2>1, <2>5
      <4> QED
        BY <2>1, <2>2, <4>1
    <3>3. p.data \o Tail(line) \in Seq(Words) /\ Append(p.seen, pair) \in Seq(Words \X Words)
      <4> HIDE DEF pair
      <4> QED
        BY <2>1, <3>2
    <3> HIDE DEF ended, pair
    <3>4. LET q == ParseToken(p, t)
          IN  /\ q \in Parsers /\ q.line = <<>> /\ q.cr = (t = CR)
              /\ q.blanks = p.blanks /\ q.events = p.events
              /\ q.name = p.name /\ q.data = p.data \o Tail(p.line) /\ q.seen = Append(p.seen, pair)
      BY <2>1, <2>3, <3>1, <3>3 DEF Parsers
    <3> QED
      BY <1>3, <2>5, <3>4 DEF pair
  <2>6. CASE line # <<>> /\ line[1] = "event:"
    <3> DEFINE nm == IF Len(line) > 1 THEN line[2] ELSE ""
    <3>1. ParseToken(p, t) = [ended EXCEPT !.name = nm]
      BY <1>3, <2>3, <2>6 DEF ParseToken
    <3>2. nm \in Words
      <4>1. Len(line) \in Nat /\ (Len(line) > 1 => line[2] \in Words)
        BY <2>1, <2>6
      <4> QED
        BY <2>2, <4>1
    <3> HIDE DEF ended, nm
    <3>3. LET q == ParseToken(p, t)
          IN  /\ q \in Parsers /\ q.line = <<>> /\ q.cr = (t = CR)
              /\ q.blanks = p.blanks /\ q.events = p.events
              /\ q.name = nm /\ q.data = p.data /\ q.seen = p.seen
      BY <2>1, <2>3, <3>1, <3>2 DEF Parsers
    <3> QED
      BY <1>3, <2>6, <3>3 DEF nm
  <2>7. CASE line # <<>> /\ line[1] \notin {"data:", "event:"}
    <3>1. ParseToken(p, t) = ended
      BY <1>3, <2>7 DEF ParseToken
    <3> QED
      BY <1>3, <2>3, <2>7, <3>1
  <2> QED
    BY <2>4, <2>5, <2>6, <2>7
<1> QED
  BY <1>1, <1>2, <1>3

\* The recursion of the parser has a solution, of its type, and its last
\* value is the parser after s.
LEMMA ParseUnfolds ==
  ASSUME NEW s \in Seq(Words)
  PROVE  \E g \in [0..Len(s) -> Parsers] :
           /\ g[0] = ParseStart /\ Parse(s) = g[Len(s)]
           /\ \A n \in 1..Len(s) : g[n] = ParseToken(g[n - 1], s[n])
<1> DEFINE N == Len(s)
           Upto(g, k) == /\ g \in [0..k -> Parsers] /\ g[0] = ParseStart
                         /\ \A n \in 1..k : g[n] = ParseToken(g[n - 1], s[n])
           G == {k \in 0..N : \E g : Upto(g, k)}
<1>0. N \in Nat /\ \A n \in 1..N : s[n] \in Words
  OBVIOUS
<1> HIDE DEF N
<1>2. 0 \in G
  <2> DEFINE g == [i \in 0..0 |-> ParseStart]
  <2>1. Upto(g, 0)
    BY StartType
  <2>2. 0 \in 0..N
    BY <1>0
  <2> HIDE DEF Upto, g
  <2> QED
    BY <2>1, <2>2
<1>3. ASSUME NEW k \in 0..(N - 1), k \in G PROVE k + 1 \in G
  <2>1. PICK g : Upto(g, k)
    BY <1>3
  <2> DEFINE h == [i \in 0..(k + 1) |-> IF i = k + 1 THEN ParseToken(g[k], s[k + 1]) ELSE g[i]]
  <2>2. k + 1 \in 1..N /\ k \in 0..k /\ g[k] \in Parsers /\ s[k + 1] \in Words
    BY <1>0, <2>1
  <2>3. h \in [0..(k + 1) -> Parsers]
    <3>1. ParseToken(g[k], s[k + 1]) \in Parsers
      BY <2>2, TokenSteps
    <3> QED
      BY <2>1, <3>1
  <2>4. h[0] = ParseStart
    BY <2>1
  <2>5. ASSUME NEW n \in 1..(k + 1) PROVE h[n] = ParseToken(h[n - 1], s[n])
    <3>1. CASE n = k + 1
      BY <3>1, <2>2
    <3>2. CASE n # k + 1
      <4>1. n \in 1..k /\ n - 1 \in 0..k /\ n \in 0..(k + 1) /\ n - 1 \in 0..(k + 1) /\ n - 1 # k + 1
        BY <3>2
      <4>2. h[n] = g[n] /\ h[n - 1] = g[n - 1]
        BY <3>2, <4>1
      <4> QED
        BY <2>1, <4>1, <4>2
    <3> QED
      BY <3>1, <3>2
  <2> HIDE DEF h
  <2>6. Upto(h, k + 1)
    BY <2>3, <2>4, <2>5
  <2> HIDE DEF Upto
  <2> QED
    BY <1>0, <2>2, <2>6
<1>4. N \in G
  <2>1. \A i \in 0..N : i \in G
    <3> HIDE DEF G
    <3> QED
      BY <1>0, <1>2, <1>3, IntervalInduction
  <2>2. N \in 0..N
    BY <1>0
  <2> HIDE DEF G
  <2> QED
    BY <2>1, <2>2
<1>5. PICK g : Upto(g, N)
  BY <1>4
<1> DEFINE Rec(f) == [n \in 0..N |-> IF n = 0 THEN ParseStart ELSE ParseToken(f[n - 1], s[n])]
<1>6. ASSUME NEW f, f = Rec(f) PROVE /\ DOMAIN f = 0..N /\ f[0] = ParseStart
                                     /\ \A n \in 1..N : f[n] = ParseToken(f[n - 1], s[n])
  <2>1. DOMAIN f = 0..N
    BY <1>6
  <2>2. \A n \in 0..N : f[n] = IF n = 0 THEN ParseStart ELSE ParseToken(f[n - 1], s[n])
    BY <1>6
  <2> QED
    BY <1>0, <2>1, <2>2
<1>7. g = Rec(g)
  <2>1. g = [n \in 0..N |-> g[n]]
    BY <1>5
  <2>2. \A n \in 0..N : g[n] = IF n = 0 THEN ParseStart ELSE ParseToken(g[n - 1], s[n])
    <3> TAKE n \in 0..N
    <3>1. n = 0 \/ n \in 1..N
      BY <1>0
    <3> QED
      BY <1>5, <3>1
  <2>3. \A n \in 0..N : g[n] = Rec(g)[n]
    BY <2>2
  <2>4. DOMAIN Rec(g) = 0..N
    OBVIOUS
  <2> HIDE DEF Rec
  <2>5. Rec(g) = [n \in 0..N |-> Rec(g)[n]]
    BY <2>4 DEF Rec
  <2> QED
    BY <2>1, <2>3, <2>5
<1> DEFINE after == CHOOSE f : f = Rec(f)
<1>8. after = Rec(after)
  BY <1>7
<1>9. Parse(s) = after[N]
  BY DEF Parse, N
<1> HIDE DEF after, Rec
<1>10. /\ DOMAIN after = 0..N /\ after[0] = ParseStart
       /\ \A n \in 1..N : after[n] = ParseToken(after[n - 1], s[n])
  BY <1>6, <1>8
<1>11. \A n \in 0..N : after[n] \in Parsers
  <2> DEFINE I == {n \in 0..N : after[n] \in Parsers}
  <2>1. 0 \in I
    BY <1>0, <1>10, StartType
  <2>2. ASSUME NEW n \in 0..(N - 1), n \in I PROVE n + 1 \in I
    <3>1. n + 1 \in 1..N /\ (n + 1) - 1 = n /\ n + 1 \in 0..N
      BY <1>0
    <3>2. after[n + 1] = ParseToken(after[n], s[n + 1])
      BY <1>10, <3>1
    <3>3. after[n] \in Parsers /\ s[n + 1] \in Words
      BY <1>0, <2>2, <3>1
    <3>4. ParseToken(after[n], s[n + 1]) \in Parsers
      BY <3>3, TokenSteps
    <3> QED
      BY <3>1, <3>2, <3>4
  <2>3. \A n \in 0..N : n \in I
    <3> HIDE DEF I
    <3> QED
      BY <1>0, <2>1, <2>2, IntervalInduction
  <2> QED
    BY <2>3
<1>12. after \in [0..N -> Parsers]
  <2>1. after = [n \in 0..N |-> after[n]]
    BY <1>8 DEF Rec
  <2> QED
    BY <1>11, <2>1
<1> QED
  BY <1>9, <1>10, <1>12 DEF N

\* The parser goes through s token by token.
LEMMA ParseSteps ==
  /\ Parse(<<>>) = ParseStart
  /\ \A s \in Seq(Words) : Parse(s) \in Parsers
  /\ \A s \in Seq(Words) : \A t \in Words : Parse(Append(s, t)) = ParseToken(Parse(s), t)
<1>1. Parse(<<>>) = ParseStart
  <2>1. <<>> \in Seq(Words) /\ Len(<<>>) = 0
    OBVIOUS
  <2> QED
    BY <2>1, ParseUnfolds
<1>2. ASSUME NEW s \in Seq(Words) PROVE Parse(s) \in Parsers
  <2>1. Len(s) \in 0..Len(s)
    OBVIOUS
  <2> QED
    BY <2>1, ParseUnfolds
<1>3. ASSUME NEW s \in Seq(Words), NEW t \in Words
      PROVE  Parse(Append(s, t)) = ParseToken(Parse(s), t)
  <2> DEFINE u == Append(s, t)
             N == Len(s)
  <2>1. /\ u \in Seq(Words) /\ Len(u) = N + 1 /\ N \in Nat
        /\ \A n \in 1..N : u[n] = s[n]
        /\ u[N + 1] = t
    OBVIOUS
  <2>2. PICK g \in [0..N -> Parsers] :
          /\ g[0] = ParseStart /\ Parse(s) = g[N]
          /\ \A n \in 1..N : g[n] = ParseToken(g[n - 1], s[n])
    BY ParseUnfolds
  <2> HIDE DEF u
  <2>3. \E h \in [0..Len(u) -> Parsers] :
          /\ h[0] = ParseStart /\ Parse(u) = h[Len(u)]
          /\ \A n \in 1..Len(u) : h[n] = ParseToken(h[n - 1], u[n])
    BY <2>1, ParseUnfolds
  <2> HIDE DEF N
  <2>3a. PICK h \in [0..(N + 1) -> Parsers] :
          /\ h[0] = ParseStart /\ Parse(u) = h[N + 1]
          /\ \A n \in 1..(N + 1) : h[n] = ParseToken(h[n - 1], u[n])
    BY <2>1, <2>3
  <2> DEFINE I == {n \in 0..N : h[n] = g[n]}
  <2>4. 0 \in I
    BY <2>1, <2>2, <2>3a
  <2>5. ASSUME NEW n \in 0..(N - 1), n \in I PROVE n + 1 \in I
    <3>1. n + 1 \in 1..N /\ n + 1 \in 1..(N + 1) /\ (n + 1) - 1 = n
      BY <2>1
    <3>2. h[n + 1] = ParseToken(h[n], u[n + 1]) /\ g[n + 1] = ParseToken(g[n], s[n + 1])
      BY <2>2, <2>3a, <3>1
    <3>3. n + 1 \in 0..N /\ u[n + 1] = s[n + 1] /\ h[n] = g[n]
      BY <2>1, <2>5, <3>1
    <3> QED
      BY <3>2, <3>3
  <2>6. N \in I
    <3>1. \A n \in 0..N : n \in I
      <4> HIDE DEF I
      <4> QED
        BY <2>1, <2>4, <2>5, IntervalInduction
    <3> QED
      BY <2>1, <3>1
  <2>7. h[N + 1] = ParseToken(h[N], u[N + 1])
    <3>1. N + 1 \in 1..(N + 1) /\ (N + 1) - 1 = N
      BY <2>1
    <3> QED
      BY <2>3a, <3>1
  <2>8. Parse(u) = ParseToken(Parse(s), t)
    BY <2>1, <2>2, <2>3a, <2>6, <2>7
  <2> QED
    BY <2>8 DEF u
<1> QED
  BY <1>1, <1>2, <1>3

-----------------------------------------------------------------------------
(* Lines.                                                                  *)

\* A complete line: a terminator, and no other before it.
IsLine(l) ==
  /\ l \in Seq(Words) /\ l # <<>> /\ l[Len(l)] \in Terminators
  /\ \A i \in 1..(Len(l) - 1) : l[i] \notin Terminators

\* A line without its terminator.
Body(l) == SubSeq(l, 1, Len(l) - 1)

\* A line is its body and its terminator.
LEMMA LineParts ==
  ASSUME NEW l, IsLine(l)
  PROVE  /\ Len(l) \in Nat /\ Len(l) >= 1
         /\ Body(l) \in Seq(Words) /\ Len(Body(l)) = Len(l) - 1
         /\ \A i \in 1..(Len(l) - 1) : Body(l)[i] = l[i] /\ Body(l)[i] \notin Terminators
         /\ l[Len(l)] \in Words /\ l = Append(Body(l), l[Len(l)])
         /\ Body(l) = <<>> <=> Len(l) = 1
<1>1. l \in Seq(Words) /\ l # <<>>
  BY DEF IsLine
<1>2. Len(l) \in Nat /\ Len(l) >= 1 /\ l[Len(l)] \in Words
  BY <1>1
<1>3. Body(l) \in Seq(Words) /\ Len(Body(l)) = Len(l) - 1
  <2> DEFINE n == Len(l) - 1
  <2>1. n \in Nat /\ \A i \in 1..n : l[i] \in Words
    BY <1>1, <1>2
  <2> SUFFICES SubSeq(l, 1, n) \in Seq(Words) /\ Len(SubSeq(l, 1, n)) = n
    BY DEF Body
  <2> HIDE DEF n
  <2> QED
    BY <2>1, SubSeqProperties
<1>4. \A i \in 1..(Len(l) - 1) : Body(l)[i] = l[i]
  BY <1>1, <1>2 DEF Body
<1>5. l = Append(Body(l), l[Len(l)])
  <2> DEFINE m == Append(Body(l), l[Len(l)])
  <2>1. m \in Seq(Words) /\ Len(m) = Len(l)
    BY <1>2, <1>3
  <2>2. \A i \in 1..Len(l) : m[i] = l[i]
    BY <1>2, <1>3, <1>4
  <2> HIDE DEF m
  <2>3. m = l
    BY <1>1, <2>1, <2>2, SeqEqual
  <2> QED
    BY <2>3 DEF m
<1>6. Body(l) = <<>> <=> Len(l) = 1
  BY <1>2, <1>3
<1> QED
  BY <1>2, <1>3, <1>4, <1>5, <1>6 DEF IsLine

\* A prefix grows by one token.
LEMMA PrefixGrows ==
  ASSUME NEW T, NEW b \in Seq(T), NEW j \in 0..(Len(b) - 1)
  PROVE  SubSeq(b, 1, j + 1) = Append(SubSeq(b, 1, j), b[j + 1]) /\ SubSeq(b, 1, j) \in Seq(T)
<1> DEFINE u == SubSeq(b, 1, j + 1)
           v == Append(SubSeq(b, 1, j), b[j + 1])
<1>1. j + 1 \in 1..Len(b) /\ b[j + 1] \in T /\ j \in Nat
  OBVIOUS
<1>2. u \in Seq(T) /\ Len(u) = j + 1 /\ \A i \in 1..(j + 1) : u[i] = b[i]
  BY <1>1
<1>3. SubSeq(b, 1, j) \in Seq(T) /\ Len(SubSeq(b, 1, j)) = j /\ \A i \in 1..j : SubSeq(b, 1, j)[i] = b[i]
  BY <1>1
<1>4. v \in Seq(T) /\ Len(v) = j + 1 /\ \A i \in 1..(j + 1) : v[i] = b[i]
  BY <1>1, <1>3
<1> SUFFICES u = v
  BY <1>3
<1> HIDE DEF u, v
<1> QED
  BY <1>1, <1>2, <1>4, SeqEqual

\* Appending is concatenating, on either side.
LEMMA ConcatAppend ==
  ASSUME NEW T, NEW s \in Seq(T), NEW u \in Seq(T), NEW t \in T
  PROVE  s \o Append(u, t) = Append(s \o u, t) /\ s \o u \in Seq(T)
<1> DEFINE x == s \o Append(u, t)
           y == Append(s \o u, t)
<1>1. Append(u, t) \in Seq(T) /\ s \o u \in Seq(T)
  OBVIOUS
<1>2. x \in Seq(T) /\ y \in Seq(T) /\ Len(x) = Len(s) + Len(u) + 1 /\ Len(y) = Len(s) + Len(u) + 1
  BY <1>1
<1>3. ASSUME NEW i \in 1..(Len(s) + Len(u) + 1) PROVE x[i] = y[i]
  <2>1. CASE i <= Len(s)
    BY <2>1
  <2>2. CASE i > Len(s) /\ i <= Len(s) + Len(u)
    BY <2>2
  <2>3. CASE i = Len(s) + Len(u) + 1
    BY <2>3
  <2> QED
    BY <2>1, <2>2, <2>3
<1> SUFFICES x = y
  BY <1>1
<1> HIDE DEF x, y
<1> QED
  BY <1>2, <1>3, SeqEqual

\* The parser after tokens that end no line.
AfterBody(p, b) == IF b = <<>> THEN p ELSE [p EXCEPT !.line = @ \o b, !.cr = FALSE]

\* A token that is no terminator joins the line.
LEMMA TokenJoins ==
  ASSUME NEW p \in Parsers, NEW t \in Words, t \notin Terminators
  PROVE  ParseToken(p, t) = [p EXCEPT !.line = Append(p.line, t), !.cr = FALSE]
<1>1. t # LF
  BY DEF Terminators
<1> QED
  BY <1>1 DEF ParseToken

\* One token more that ends no line.
LEMMA ParseBodyToken ==
  ASSUME NEW s \in Seq(Words), NEW u \in Seq(Words), NEW t \in Words, t \notin Terminators,
         Parse(s \o u) = AfterBody(Parse(s), u)
  PROVE  Parse(s \o Append(u, t)) = AfterBody(Parse(s), Append(u, t))
<1> DEFINE p == Parse(s)
           line == p.line
           m == AfterBody(p, u)
<1> HIDE DEF p, line, m
<1>1. p \in Parsers
  BY ParseSteps DEF p
<1>2. line \in Seq(Words)
  BY <1>1 DEF Parsers, line
<1>3. s \o Append(u, t) = Append(s \o u, t) /\ s \o u \in Seq(Words)
  BY ConcatAppend
<1>4. m \in Parsers
  BY <1>3, ParseSteps DEF m, p
<1>5. Parse(s \o Append(u, t)) = ParseToken(m, t)
  BY <1>3, ParseSteps DEF m, p
<1>6. ParseToken(m, t) = [m EXCEPT !.line = Append(m.line, t), !.cr = FALSE]
  BY <1>4, TokenJoins, Zenon
<1>7. line \o Append(u, t) = Append(line \o u, t)
  BY <1>2, ConcatAppend
<1>8. line \o <<t>> = Append(line, t) /\ Append(u, t) # <<>> /\ Append(<<>>, t) = <<t>>
  <2>1. Append(u, t) # <<>>
    OBVIOUS
  <2>2. Append(<<>>, t) = <<t>>
    OBVIOUS
  <2>3. line \o <<t>> = Append(line, t)
    BY <1>2, AppendIsConcat
  <2> QED
    BY <2>1, <2>2, <2>3
<1>9. AfterBody(p, Append(u, t)) = [p EXCEPT !.line = line \o Append(u, t), !.cr = FALSE]
  BY <1>8 DEF AfterBody, line
<1>10. CASE u = <<>>
  <2>1. m = p
    BY <1>10 DEF AfterBody, m
  <2>2. line \o Append(u, t) = Append(line, t)
    BY <1>8, <1>10
  <2>3. AfterBody(p, Append(u, t)) = [m EXCEPT !.line = Append(m.line, t), !.cr = FALSE]
    BY <1>9, <2>1, <2>2 DEF line
  <2> QED
    BY <1>5, <1>6, <2>3 DEF p
<1>11. CASE u # <<>>
  <2>1. m = [p EXCEPT !.line = line \o u, !.cr = FALSE]
    BY <1>11 DEF AfterBody, m, line
  <2> DEFINE x == line \o u
             y == line \o Append(u, t)
  <2> HIDE DEF x, y
  <2>2. m = [p EXCEPT !.line = x, !.cr = FALSE] /\ Append(x, t) = y
    BY <1>7, <2>1 DEF x, y
  <2>3. AfterBody(p, Append(u, t)) = [p EXCEPT !.line = y, !.cr = FALSE]
    BY <1>9 DEF y
  <2>4. m.line = x
    BY <1>1, <2>2 DEF Parsers
  <2>5. [m EXCEPT !.line = y, !.cr = FALSE] = [p EXCEPT !.line = y, !.cr = FALSE]
    BY <1>1, <2>2 DEF Parsers
  <2>6. AfterBody(p, Append(u, t)) = [m EXCEPT !.line = Append(m.line, t), !.cr = FALSE]
    BY <2>2, <2>3, <2>4, <2>5
  <2> QED
    BY <1>5, <1>6, <2>6 DEF p
<1> QED
  BY <1>10, <1>11

\* Tokens without a terminator only join the line under construction.
LEMMA ParseBody ==
  ASSUME NEW s \in Seq(Words), NEW b \in Seq(Words), \A i \in 1..Len(b) : b[i] \notin Terminators
  PROVE  Parse(s \o b) = AfterBody(Parse(s), b)
<1> DEFINE Pre(j) == SubSeq(b, 1, j)
           G == {j \in 0..Len(b) : Parse(s \o Pre(j)) = AfterBody(Parse(s), Pre(j))}
<1>0. Len(b) \in Nat
  OBVIOUS
<1>1. 0 \in G
  <2>1. Pre(0) = <<>> /\ s \o <<>> = s
    OBVIOUS
  <2>2. Parse(s \o Pre(0)) = AfterBody(Parse(s), Pre(0))
    BY <2>1 DEF AfterBody
  <2> QED
    BY <1>0, <2>2
<1>2. ASSUME NEW j \in 0..(Len(b) - 1), j \in G PROVE j + 1 \in G
  <2>1. Pre(j + 1) = Append(Pre(j), b[j + 1]) /\ Pre(j) \in Seq(Words)
    BY PrefixGrows
  <2>2. b[j + 1] \in Words /\ b[j + 1] \notin Terminators /\ j + 1 \in 0..Len(b)
    OBVIOUS
  <2>3. Parse(s \o Pre(j)) = AfterBody(Parse(s), Pre(j))
    BY <1>2
  <2>4. Parse(s \o Append(Pre(j), b[j + 1])) = AfterBody(Parse(s), Append(Pre(j), b[j + 1]))
    BY <2>1, <2>2, <2>3, ParseBodyToken
  <2> QED
    BY <2>1, <2>2, <2>4
<1>3. Len(b) \in G
  <2>1. \A j \in 0..Len(b) : j \in G
    <3> HIDE DEF G
    <3> QED
      BY <1>0, <1>1, <1>2, IntervalInduction
  <2>2. Len(b) \in 0..Len(b)
    BY <1>0
  <2> HIDE DEF G
  <2> QED
    BY <2>1, <2>2
<1>4. Pre(Len(b)) = b
  OBVIOUS
<1> QED
  BY <1>3, <1>4

\* The value on a line with that body.
ValueIn(b) == IF Len(b) > 1 THEN b[2] ELSE ""

\* What a whole line does to a parser between lines: nothing but its memory of
\* a CR if the line is the LF of a CRLF, else the event's end, its data, its
\* name, or nothing.
LEMMA ParseLine ==
  ASSUME NEW s \in Seq(Words), NEW l, IsLine(l), Parse(s).line = <<>>
  PROVE  LET p == Parse(s)
             q == Parse(s \o l)
             b == Body(l)
             swallowed == p.cr /\ l = <<LF>>
         IN  /\ q.line = <<>> /\ q.cr = (l[Len(l)] = CR)
             /\ swallowed => /\ q.blanks = p.blanks /\ q.events = p.events
                             /\ q.name = p.name /\ q.data = p.data /\ q.seen = p.seen
             /\ ~swallowed /\ b = <<>> =>
                  /\ q.blanks = p.blanks + 1 /\ q.name = NoName /\ q.data = <<>> /\ q.seen = p.seen
                  /\ q.events = IF p.data = <<>> THEN p.events
                                ELSE Append(p.events, [name |-> p.name, data |-> p.data])
             /\ b # <<>> => q.blanks = p.blanks /\ q.events = p.events
             /\ b # <<>> /\ b[1] = "data:" =>
                  /\ q.name = p.name /\ q.data = p.data \o Tail(b)
                  /\ q.seen = Append(p.seen, <<p.name, ValueIn(b)>>)
             /\ b # <<>> /\ b[1] = "event:" =>
                  q.name = ValueIn(b) /\ q.data = p.data /\ q.seen = p.seen
             /\ b # <<>> /\ b[1] \notin {"data:", "event:"} =>
                  q.name = p.name /\ q.data = p.data /\ q.seen = p.seen
<1> DEFINE p == Parse(s)
           b == Body(l)
           t == l[Len(l)]
           m == AfterBody(p, b)
           q == ParseToken(m, t)
<1>1. /\ b \in Seq(Words) /\ t \in Words /\ t \in Terminators /\ l = Append(b, t)
      /\ \A i \in 1..Len(b) : b[i] \notin Terminators
  BY LineParts DEF IsLine
<1>2. p \in Parsers /\ p.line = <<>>
  BY ParseSteps
<1>3. Parse(s \o b) = m
  BY <1>1, ParseBody
<1>4. s \o l = Append(s \o b, t) /\ s \o b \in Seq(Words)
  <2> HIDE DEF b, t
  <2>1. s \o Append(b, t) = Append(s \o b, t) /\ s \o b \in Seq(Words)
    BY <1>1, ConcatAppend
  <2> QED
    BY <1>1, <2>1
<1>5. Parse(s \o l) = q /\ m \in Parsers
  BY <1>1, <1>3, <1>4, ParseSteps
<1>6. l = <<LF>> <=> b = <<>> /\ t = LF
  <2>1. Len(b) = Len(l) - 1 /\ Len(l) \in Nat
    BY LineParts
  <2>2. l = <<LF>> => b = <<>> /\ t = LF
    BY <1>1, <2>1
  <2>3. b = <<>> /\ t = LF => l = <<LF>>
    BY <1>1
  <2> QED
    BY <2>2, <2>3
<1> HIDE DEF p, b, t, q
<1>7. /\ b = <<>> => m = p
      /\ b # <<>> => /\ m.line = b /\ m.cr = FALSE /\ m.name = p.name /\ m.data = p.data
                     /\ m.blanks = p.blanks /\ m.seen = p.seen /\ m.events = p.events
  <2>1. <<>> \o b = b
    BY <1>1
  <2>2. b # <<>> => m = [p EXCEPT !.line = p.line \o b, !.cr = FALSE]
    BY DEF AfterBody
  <2>3. b # <<>> => m = [p EXCEPT !.line = b, !.cr = FALSE]
    BY <1>2, <2>1, <2>2
  <2>4. b = <<>> => m = p
    BY DEF AfterBody
  <2> HIDE DEF m
  <2> QED
    BY <1>2, <2>3, <2>4 DEF Parsers
<1> HIDE DEF m
<1>8. CASE p.cr /\ l = <<LF>>
  <2>1. q = [p EXCEPT !.cr = FALSE]
    <3>1. m = p /\ t = LF
      BY <1>6, <1>7, <1>8
    <3>2. ParseToken(p, t) = [p EXCEPT !.cr = FALSE]
      BY <1>1, <1>2, <1>8, <3>1, TokenSteps
    <3> QED
      BY <3>1, <3>2 DEF q
  <2>2. LF # CR
    BY DEF LF, CR
  <2>3. q.line = <<>> /\ q.cr = FALSE /\ q.blanks = p.blanks /\ q.events = p.events
        /\ q.name = p.name /\ q.data = p.data /\ q.seen = p.seen
    BY <1>2, <2>1 DEF Parsers
  <2>4. q.cr = (t = CR)
    BY <1>6, <1>8, <2>2, <2>3
  <2> QED
    BY <1>5, <1>6, <1>8, <2>3, <2>4 DEF p, b, t, q
<1>9. CASE b = <<>> /\ ~(p.cr /\ l = <<LF>>)
  <2>1. ~(t = LF /\ m.cr) /\ m.line = <<>> /\ m = p
    BY <1>2, <1>6, <1>7, <1>9
  <2>2. /\ q.line = <<>> /\ q.cr = (t = CR)
        /\ q.blanks = p.blanks + 1 /\ q.name = NoName /\ q.data = <<>> /\ q.seen = p.seen
        /\ q.events = IF p.data = <<>> THEN p.events
                      ELSE Append(p.events, [name |-> p.name, data |-> p.data])
    BY <1>1, <1>5, <2>1, TokenSteps DEF q
  <2> QED
    BY <1>5, <1>9, <2>2 DEF p, b, t, q
<1>10. CASE b # <<>>
  <2>1. ~(t = LF /\ m.cr) /\ m.line = b /\ l # <<LF>>
    BY <1>6, <1>7, <1>10
  <2>2. /\ q.line = <<>> /\ q.cr = (t = CR) /\ q.blanks = m.blanks /\ q.events = m.events
        /\ b[1] = "data:" =>
             /\ q.name = m.name /\ q.data = m.data \o Tail(b)
             /\ q.seen = Append(m.seen, <<m.name, IF Len(b) > 1 THEN b[2] ELSE "">>)
        /\ b[1] = "event:" =>
             q.name = (IF Len(b) > 1 THEN b[2] ELSE "") /\ q.data = m.data /\ q.seen = m.seen
        /\ b[1] \notin {"data:", "event:"} =>
             q.name = m.name /\ q.data = m.data /\ q.seen = m.seen
    BY <1>1, <1>5, <1>10, <2>1, TokenSteps DEF q
  <2>3. /\ q.line = <<>> /\ q.cr = (t = CR) /\ q.blanks = p.blanks /\ q.events = p.events
        /\ b[1] = "data:" =>
             /\ q.name = p.name /\ q.data = p.data \o Tail(b)
             /\ q.seen = Append(p.seen, <<p.name, ValueIn(b)>>)
        /\ b[1] = "event:" => q.name = ValueIn(b) /\ q.data = p.data /\ q.seen = p.seen
        /\ b[1] \notin {"data:", "event:"} =>
             q.name = p.name /\ q.data = p.data /\ q.seen = p.seen
    BY <1>7, <1>10, <2>2 DEF ValueIn
  <2> QED
    BY <1>5, <1>10, <2>1, <2>3 DEF p, b, t, q
<1> QED
  BY <1>8, <1>9, <1>10

\* What the relay reads in a line is what its body says.
LEMMA LineReads ==
  ASSUME NEW l, IsLine(l)
  PROVE  /\ splitSSELineTerminator(l) = Body(l)
         /\ isEventBoundary(l) <=> Body(l) = <<>>
         /\ \A f : IsField(l, f) <=> Body(l) # <<>> /\ Body(l)[1] = f
         /\ FieldValue(l) = ValueIn(Body(l))
<1> DEFINE n == Len(l)
           b == Body(l)
<1>1. /\ n \in Nat /\ n >= 1 /\ b \in Seq(Words) /\ Len(b) = n - 1
      /\ l \in Seq(Words) /\ l[n] \in Terminators /\ (b = <<>> <=> n = 1)
  BY LineParts DEF IsLine
<1>2. n >= 2 => l[n - 1] # CR
  <2>1. n >= 2 => n - 1 \in 1..(n - 1)
    BY <1>1
  <2>2. n >= 2 => l[n - 1] \notin Terminators
    BY <2>1 DEF IsLine
  <2> QED
    BY <2>2 DEF Terminators
<1>3. splitSSELineTerminator(l) = b
  BY <1>1, <1>2 DEF splitSSELineTerminator, Body
<1>4. isEventBoundary(l) <=> b = <<>>
  <2>1. isEventBoundary(l) => n = 1 \/ (n = 2 /\ l[1] = CR)
    BY DEF isEventBoundary
  <2>2. n = 1 => l = <<l[1]>>
    BY <1>1
  <2>3. n = 1 => l \in {<<LF>>, <<CR>>}
    BY <1>1, <2>2 DEF Terminators
  <2> QED
    BY <1>1, <1>2, <2>1, <2>3 DEF isEventBoundary
<1>5. \A f : IsField(l, f) <=> b # <<>> /\ b[1] = f
  BY <1>3 DEF IsField
<1>6. FieldValue(l) = ValueIn(b)
  BY <1>3 DEF FieldValue, ValueIn
<1> QED
  BY <1>3, <1>4, <1>5, <1>6

\* The first t of b, when there is one.
LEMMA FirstToken ==
  ASSUME NEW b \in Seq(Words), NEW t
  PROVE  \/ IndexByte(b, t) = 0 /\ \A i \in 1..Len(b) : b[i] # t
         \/ /\ IndexByte(b, t) \in 1..Len(b) /\ b[IndexByte(b, t)] = t
            /\ \A i \in 1..(IndexByte(b, t) - 1) : b[i] # t
<1> DEFINE First(i) == b[i] = t /\ \A j \in 1..(i - 1) : b[j] # t
           G == {j \in 0..Len(b) : (\A i \in 1..j : b[i] # t) \/ (\E i \in 1..j : First(i))}
<1>0. Len(b) \in Nat
  OBVIOUS
<1>1. 0 \in G
  BY <1>0
<1>2. ASSUME NEW j \in 0..(Len(b) - 1), j \in G PROVE j + 1 \in G
  <2>1. j + 1 \in 0..Len(b) /\ (j + 1) - 1 = j
    BY <1>0
  <2>2. CASE \E i \in 1..j : First(i)
    BY <2>1, <2>2
  <2>3. CASE \A i \in 1..j : b[i] # t
    <3>1. CASE b[j + 1] = t
      <4>1. First(j + 1) /\ j + 1 \in 1..(j + 1)
        BY <2>1, <2>3, <3>1
      <4> QED
        BY <2>1, <4>1
    <3>2. CASE b[j + 1] # t
      BY <2>1, <2>3, <3>2
    <3> QED
      BY <3>1, <3>2
  <2> QED
    BY <1>2, <2>2, <2>3
<1>3. Len(b) \in G
  <2>1. \A j \in 0..Len(b) : j \in G
    <3> HIDE DEF G
    <3> QED
      BY <1>0, <1>1, <1>2, IntervalInduction
  <2>2. Len(b) \in 0..Len(b)
    BY <1>0
  <2> HIDE DEF G
  <2> QED
    BY <2>1, <2>2
<1>4. CASE \E i \in 1..Len(b) : b[i] = t
  <2>1. \E i \in 1..Len(b) : First(i)
    BY <1>3, <1>4
  <2>2. IndexByte(b, t) = CHOOSE i \in 1..Len(b) : First(i)
    BY <1>4 DEF IndexByte
  <2>3. IndexByte(b, t) \in 1..Len(b) /\ First(IndexByte(b, t))
    BY <2>1, <2>2
  <2> QED
    BY <2>3
<1>5. CASE ~ \E i \in 1..Len(b) : b[i] = t
  BY <1>5 DEF IndexByte
<1> QED
  BY <1>4, <1>5

\* The buffer is cut at its first terminator, whichever it is.
LEMMA LineEnds ==
  ASSUME NEW b \in Seq(Words)
  PROVE  \/ readToLineEnd(b) = 0 /\ \A i \in 1..Len(b) : b[i] \notin Terminators
         \/ /\ readToLineEnd(b) \in 1..Len(b) /\ b[readToLineEnd(b)] \in Terminators
            /\ \A i \in 1..(readToLineEnd(b) - 1) : b[i] \notin Terminators
<1> DEFINE lf == IndexByte(b, LF)
           u == IF lf > 0 THEN SubSeq(b, 1, lf - 1) ELSE b
           cr == IndexByte(u, CR)
<1>1. \/ lf = 0 /\ \A i \in 1..Len(b) : b[i] # LF
      \/ lf \in 1..Len(b) /\ b[lf] = LF /\ \A i \in 1..(lf - 1) : b[i] # LF
  BY FirstToken
<1>2. Len(b) \in Nat
  OBVIOUS
<1>3. readToLineEnd(b) = IF cr > 0 THEN cr ELSE lf
  BY DEF readToLineEnd
<1> HIDE DEF lf
<1>4. /\ u \in Seq(Words) /\ Len(u) \in Nat /\ Len(u) <= Len(b)
      /\ \A i \in 1..Len(u) : u[i] = b[i] /\ b[i] # LF
      /\ lf > 0 => Len(u) = lf - 1
      /\ lf = 0 => Len(u) = Len(b)
  <2>1. CASE lf = 0
    BY <1>1, <1>2, <2>1
  <2>2. CASE lf \in 1..Len(b) /\ b[lf] = LF /\ \A i \in 1..(lf - 1) : b[i] # LF
    <3> DEFINE n == lf - 1
    <3>1. n \in Nat /\ n < Len(b) /\ \A i \in 1..n : b[i] \in Words
      BY <1>2, <2>2
    <3>2. u = SubSeq(b, 1, n)
      BY <2>2
    <3> HIDE DEF n
    <3>3. /\ SubSeq(b, 1, n) \in Seq(Words) /\ Len(SubSeq(b, 1, n)) = n
          /\ \A i \in 1..n : SubSeq(b, 1, n)[i] = b[i]
      BY <3>1, SubSeqProperties
    <3> QED
      BY <1>2, <2>2, <3>1, <3>2, <3>3 DEF n
  <2> QED
    BY <1>1, <2>1, <2>2
<1> HIDE DEF u
<1>5. \/ cr = 0 /\ \A i \in 1..Len(u) : u[i] # CR
      \/ cr \in 1..Len(u) /\ u[cr] = CR /\ \A i \in 1..(cr - 1) : u[i] # CR
  BY <1>4, FirstToken
<1> HIDE DEF cr
<1>6. CASE cr \in 1..Len(u) /\ u[cr] = CR /\ \A i \in 1..(cr - 1) : u[i] # CR
  <2>1. readToLineEnd(b) = cr /\ cr \in 1..Len(b) /\ b[cr] = CR
    BY <1>2, <1>3, <1>4, <1>6
  <2>2. \A i \in 1..(cr - 1) : b[i] # CR /\ b[i] # LF
    BY <1>4, <1>6
  <2> QED
    BY <2>1, <2>2 DEF Terminators
<1>7. CASE cr = 0 /\ \A i \in 1..Len(u) : u[i] # CR
  <2>1. readToLineEnd(b) = lf
    BY <1>3, <1>7
  <2>2. \A i \in 1..Len(u) : b[i] # CR /\ b[i] # LF
    BY <1>4, <1>7
  <2> QED
    BY <1>1, <1>2, <1>4, <2>1, <2>2 DEF Terminators
<1> QED
  BY <1>5, <1>6, <1>7

\* A line with or without its terminator.
IsPiece(l) ==
  /\ l \in Seq(Words) /\ l # <<>>
  /\ \A i \in 1..(Len(l) - 1) : l[i] \notin Terminators

\* Nothing, or whole lines.
AtLineStart(s) == s = <<>> \/ s[Len(s)] \in Terminators

\* What a piece says.
LEMMA PieceSays ==
  ASSUME NEW l, IsPiece(l)
  PROVE  /\ l[Len(l)] \in Terminators => IsLine(l) /\ splitSSELineTerminator(l) = Body(l)
         /\ l[Len(l)] \notin Terminators => splitSSELineTerminator(l) = l
<1>1. l[Len(l)] \in Terminators => IsLine(l)
  BY DEF IsPiece, IsLine
<1>2. l[Len(l)] \in Terminators => splitSSELineTerminator(l) = Body(l)
  BY <1>1, LineReads
<1>3. l[Len(l)] \notin Terminators => splitSSELineTerminator(l) = l
  BY DEF splitSSELineTerminator, IsPiece, Terminators
<1> QED
  BY <1>1, <1>2, <1>3

\* A piece says a marker when its first two tokens are one and nothing but
\* its terminator follows.
LEMMA MarkerPiece ==
  ASSUME NEW l, IsPiece(l)
  PROVE  splitSSELineTerminator(l) \in Markers
         <=> /\ Len(l) >= 2 /\ <<l[1], l[2]>> \in Markers
             /\ Len(l) = 2 \/ (Len(l) = 3 /\ l[3] \in Terminators)
<1>1. l \in Seq(Words) /\ Len(l) \in Nat /\ Len(l) >= 1
  BY DEF IsPiece
<1>2. \A x, y : <<x, y>> \in Markers => x \notin Terminators /\ y \notin Terminators
  BY DEF Markers, Terminators, LF, CR
<1>3. \A u \in Seq(Words) : u \in Markers <=> Len(u) = 2 /\ <<u[1], u[2]>> \in Markers
  <2> TAKE u \in Seq(Words)
  <2>1. \A m \in Markers : m = <<m[1], m[2]>> /\ Len(m) = 2
    BY DEF Markers
  <2>2. Len(u) = 2 => u = <<u[1], u[2]>>
    OBVIOUS
  <2> QED
    BY <2>1, <2>2
<1>4. CASE l[Len(l)] \in Terminators
  <2>1. IsLine(l) /\ splitSSELineTerminator(l) = Body(l)
    BY <1>4, PieceSays
  <2>2. /\ Body(l) \in Seq(Words) /\ Len(Body(l)) = Len(l) - 1
        /\ \A i \in 1..(Len(l) - 1) : Body(l)[i] = l[i]
    BY <2>1, LineParts
  <2>3. Body(l) \in Markers <=> Len(l) = 3 /\ <<l[1], l[2]>> \in Markers
    <3>1. Body(l) \in Markers <=> Len(Body(l)) = 2 /\ <<Body(l)[1], Body(l)[2]>> \in Markers
      BY <1>3, <2>2
    <3>2. Len(l) = 3 => Body(l)[1] = l[1] /\ Body(l)[2] = l[2]
      BY <2>2
    <3>3. Len(Body(l)) = 2 <=> Len(l) = 3
      BY <1>1, <2>2
    <3> QED
      BY <3>1, <3>2, <3>3
  <2>4. Len(l) = 2 => <<l[1], l[2]>> \notin Markers
    BY <1>2, <1>4
  <2> QED
    BY <1>1, <1>4, <2>1, <2>3, <2>4
<1>5. CASE l[Len(l)] \notin Terminators
  <2>1. splitSSELineTerminator(l) = l
    BY <1>5, PieceSays
  <2> QED
    BY <1>1, <1>3, <1>5, <2>1
<1> QED
  BY <1>4, <1>5

\* A stream that grows by a piece has a marker line more when the piece is one.
LEMMA MarkerGrows ==
  ASSUME NEW s \in Seq(Words), AtLineStart(s), NEW l, IsPiece(l)
  PROVE  MarkerLine(s \o l) <=> MarkerLine(s) \/ isTerminalSSELine(l)
<1> DEFINE x == s \o l
           a == Len(s)
           n == Len(l)
<1> HIDE DEF x, a, n
<1>1. l \in Seq(Words) /\ n \in Nat /\ n >= 1 /\ a \in Nat
  BY DEF IsPiece, a, n
<1>2. /\ x \in Seq(Words) /\ Len(x) = a + n
      /\ \A i \in 1..a : x[i] = s[i]
      /\ \A i \in 1..n : x[a + i] = l[i]
  BY <1>1, ConcatProperties DEF x, a, n
<1>3. \A u, v : <<u, v>> \in Markers => u \notin Terminators /\ v \notin Terminators
  BY DEF Markers, Terminators, LF, CR
<1>4. a >= 1 => s[a] \in Terminators
  BY <1>1 DEF AtLineStart, a
<1>5. \A i \in 1..(n - 1) : l[i] \notin Terminators
  BY DEF IsPiece, n
<1>6. isTerminalSSELine(l) <=> /\ n >= 2 /\ <<l[1], l[2]>> \in Markers
                               /\ n = 2 \/ (n = 3 /\ l[3] \in Terminators)
  BY MarkerPiece DEF isTerminalSSELine, Markers, n
<1> SUFFICES MarkerLine(x) <=> MarkerLine(s) \/ isTerminalSSELine(l)
  BY DEF x
<1>7. ASSUME MarkerLine(x) PROVE MarkerLine(s) \/ isTerminalSSELine(l)
  <2>0. PICK i \in 1..(Len(x) - 1) :
          /\ <<x[i], x[i + 1]>> \in Markers
          /\ i = 1 \/ x[i - 1] \in Terminators
          /\ i + 2 > Len(x) \/ x[i + 2] \in Terminators
    BY <1>7 DEF MarkerLine
  <2>1. /\ i \in 1..(a + n - 1) /\ <<x[i], x[i + 1]>> \in Markers
        /\ i = 1 \/ x[i - 1] \in Terminators
        /\ i + 2 > a + n \/ x[i + 2] \in Terminators
    BY <1>1, <1>2, <2>0
  <2>2. x[i] \notin Terminators /\ x[i + 1] \notin Terminators
    BY <1>3, <2>1
  <2>3. CASE i + 1 <= a
    <3>1. x[i] = s[i] /\ x[i + 1] = s[i + 1]
      BY <1>1, <1>2, <2>3
    <3>2. i + 1 # a
      BY <1>1, <1>4, <2>2, <2>3, <3>1
    <3>3. i + 2 <= a /\ x[i + 2] = s[i + 2]
      BY <1>1, <1>2, <2>3, <3>2
    <3>4. i # 1 => i - 1 \in 1..a
      BY <1>1, <2>3
    <3>5. i # 1 => x[i - 1] = s[i - 1]
      BY <1>2, <3>4
    <3>6. i \in 1..(a - 1) /\ ~(i + 2 > a + n)
      BY <1>1, <3>3
    <3> QED
      BY <2>1, <3>1, <3>3, <3>5, <3>6 DEF MarkerLine, a
  <2>4. CASE i = a
    BY <1>1, <1>2, <1>4, <2>2, <2>4
  <2>5. CASE i > a
    <3> DEFINE j == i - a
    <3>1. j \in 1..(n - 1) /\ i = a + j /\ i + 1 = a + (j + 1) /\ i + 2 = a + (j + 2) /\ i - 1 = a + (j - 1)
      BY <1>1, <2>1, <2>5
    <3> HIDE DEF j
    <3>2. x[i] = l[j] /\ x[i + 1] = l[j + 1]
      BY <1>1, <1>2, <3>1
    <3>3. j = 1
      <4>1. CASE j > 1
        <5>1. j - 1 \in 1..(n - 1) /\ j - 1 \in 1..n /\ i # 1
          BY <1>1, <3>1, <4>1
        <5>2. x[i - 1] = l[j - 1]
          BY <1>2, <3>1, <5>1
        <5> QED
          BY <1>5, <2>1, <5>1, <5>2
      <4> QED
        BY <3>1, <4>1
    <3>4. n = 2 \/ (n = 3 /\ l[3] \in Terminators)
      <4>1. CASE n > 2
        <5>1. ~(i + 2 > a + n) /\ 3 \in 1..n /\ i + 2 = a + 3
          BY <1>1, <3>1, <3>3, <4>1
        <5>2. x[i + 2] = l[3]
          BY <1>2, <5>1
        <5>3. l[3] \in Terminators
          BY <2>1, <5>1, <5>2
        <5>4. ~(3 \in 1..(n - 1))
          BY <1>5, <5>3
        <5> QED
          BY <1>1, <4>1, <5>3, <5>4
      <4>2. n >= 2
        BY <1>1, <3>1
      <4> QED
        BY <1>1, <4>1, <4>2
    <3>5. n >= 2 /\ <<l[1], l[2]>> \in Markers
      BY <1>1, <2>1, <3>1, <3>2, <3>3
    <3> QED
      BY <1>6, <3>4, <3>5
  <2> QED
    BY <1>1, <2>1, <2>3, <2>4, <2>5
<1>8. ASSUME MarkerLine(s) PROVE MarkerLine(x)
  <2>1. PICK i \in 1..(a - 1) :
          /\ <<s[i], s[i + 1]>> \in Markers
          /\ i = 1 \/ s[i - 1] \in Terminators
          /\ i + 2 > a \/ s[i + 2] \in Terminators
    BY <1>8 DEF MarkerLine, a
  <2>2. i + 1 # a
    BY <1>1, <1>3, <1>4, <2>1
  <2>3. i + 2 <= a /\ i \in 1..a /\ i + 1 \in 1..a /\ i + 2 \in 1..a /\ i \in 1..(a + n - 1) /\ (i # 1 => i - 1 \in 1..a)
    BY <1>1, <2>1, <2>2
  <2>4. x[i] = s[i] /\ x[i + 1] = s[i + 1] /\ x[i + 2] = s[i + 2] /\ (i # 1 => x[i - 1] = s[i - 1])
    BY <1>2, <2>3
  <2>5. s[i + 2] \in Terminators
    BY <1>1, <2>1, <2>3
  <2>6. /\ i \in 1..(Len(x) - 1) /\ <<x[i], x[i + 1]>> \in Markers
        /\ i = 1 \/ x[i - 1] \in Terminators
        /\ x[i + 2] \in Terminators
    BY <1>1, <1>2, <2>1, <2>3, <2>4, <2>5
  <2> QED
    BY <2>6 DEF MarkerLine
<1>9. ASSUME isTerminalSSELine(l) PROVE MarkerLine(x)
  <2>1. /\ n >= 2 /\ <<l[1], l[2]>> \in Markers
        /\ n = 2 \/ (n = 3 /\ l[3] \in Terminators)
    BY <1>6, <1>9
  <2> DEFINE i == a + 1
  <2> HIDE DEF i
  <2>2. /\ 1 \in 1..n /\ 2 \in 1..n /\ i \in 1..(a + n - 1) /\ i + 1 = a + 2 /\ i + 2 = a + 3
        /\ (i # 1 => i - 1 = a /\ a \in 1..a /\ a >= 1) /\ i = a + 1
    BY <1>1, <2>1 DEF i
  <2>3. x[i] = l[1] /\ x[i + 1] = l[2] /\ (n = 3 => x[i + 2] = l[3]) /\ (i # 1 => x[i - 1] = s[a])
    BY <1>1, <1>2, <2>2
  <2>4. i + 2 > a + n \/ x[i + 2] \in Terminators
    BY <1>1, <2>1, <2>2, <2>3
  <2>5. i = 1 \/ x[i - 1] \in Terminators
    BY <1>4, <2>2, <2>3
  <2>6. /\ i \in 1..(Len(x) - 1) /\ <<x[i], x[i + 1]>> \in Markers
        /\ i + 2 > Len(x) \/ x[i + 2] \in Terminators
    BY <1>1, <1>2, <2>1, <2>2, <2>3, <2>4
  <2> QED
    BY <2>5, <2>6 DEF MarkerLine
<1> QED
  BY <1>7, <1>8, <1>9

\* Rewriting changes no token of the framing, and makes and breaks no marker.
LEMMA RewriteKeeps ==
  ASSUME NEW l, IsPiece(l)
  PROVE  LET r == rewriteSSELine(l)
         IN  /\ IsPiece(r) /\ Len(r) = Len(l)
             /\ \A i \in 1..Len(l) : r[i] = IF IsField(l, "data:") THEN rewriteOut(l[i]) ELSE l[i]
             /\ r[Len(l)] \in Terminators <=> l[Len(l)] \in Terminators
             /\ isTerminalSSELine(r) <=> isTerminalSSELine(l)
<1> DEFINE r == rewriteSSELine(l)
           n == Len(l)
<1>1. l \in Seq(Words) /\ n \in Nat /\ n >= 1
  BY DEF IsPiece
<1>2. \A i \in 1..n : r[i] = IF IsField(l, "data:") THEN rewriteOut(l[i]) ELSE l[i]
  BY <1>1 DEF rewriteSSELine
<1>3. \A x \in Words : rewriteOut(x) \in Words /\ (rewriteOut(x) \in Terminators <=> x \in Terminators)
  BY DEF rewriteOut, Words, Terminators, LF, CR
<1>4. r \in Seq(Words) /\ Len(r) = n
  <2>1. CASE IsField(l, "data:")
    <3>1. r = [i \in 1..n |-> rewriteOut(l[i])]
      BY <1>1, <2>1 DEF rewriteSSELine
    <3>2. \A i \in 1..n : rewriteOut(l[i]) \in Words
      BY <1>1, <1>3
    <3>3. r \in [1..n -> Words]
      BY <3>1, <3>2
    <3> HIDE DEF r
    <3> QED
      BY <1>1, <3>3
  <2>2. CASE ~IsField(l, "data:")
    BY <1>1, <2>2 DEF rewriteSSELine
  <2> QED
    BY <2>1, <2>2
<1>5. \A i \in 1..n : r[i] \in Terminators <=> l[i] \in Terminators
  BY <1>1, <1>2, <1>3
<1>6. IsPiece(r)
  BY <1>1, <1>4, <1>5 DEF IsPiece
<1>7. \A x, y : <<rewriteOut(x), rewriteOut(y)>> \in Markers <=> <<x, y>> \in Markers
  <2> TAKE x, y
  <2>1. \A z : (rewriteOut(z) = z) \/ (z = "m" /\ rewriteOut(z) = "M")
    BY DEF rewriteOut
  <2> QED
    BY <2>1 DEF Markers
<1>8. n >= 2 => (<<r[1], r[2]>> \in Markers <=> <<l[1], l[2]>> \in Markers)
  BY <1>1, <1>2, <1>7
<1>9. isTerminalSSELine(r) <=> isTerminalSSELine(l)
  <2>1. \A u : IsPiece(u) => (isTerminalSSELine(u) <=>
                               /\ Len(u) >= 2 /\ <<u[1], u[2]>> \in Markers
                               /\ Len(u) = 2 \/ (Len(u) = 3 /\ u[3] \in Terminators))
    BY MarkerPiece DEF isTerminalSSELine, Markers
  <2>2. n = 3 => (r[3] \in Terminators <=> l[3] \in Terminators)
    BY <1>5
  <2>3. isTerminalSSELine(l) <=> /\ n >= 2 /\ <<l[1], l[2]>> \in Markers
                                 /\ n = 2 \/ (n = 3 /\ l[3] \in Terminators)
    BY <2>1
  <2>4. isTerminalSSELine(r) <=> /\ n >= 2 /\ <<r[1], r[2]>> \in Markers
                                 /\ n = 2 \/ (n = 3 /\ r[3] \in Terminators)
    BY <1>4, <1>6, <2>1
  <2> HIDE DEF r, n
  <2> QED
    BY <1>8, <2>2, <2>3, <2>4
<1>10. n \in 1..n
  BY <1>1
<1> QED
  BY <1>2, <1>4, <1>5, <1>6, <1>9, <1>10

-----------------------------------------------------------------------------
(* Framing: what the copy has made of the lines it has dealt with.         *)

Results == {"run", "eof", "reset", "line_cap", "event_cap", "write_err"}

\* The copy has dealt with whole lines only.
Whole == AtLineStart(consumed)

\* Observer, event under way and statistics are the parser's.
Agrees ==
  LET p == Parse(consumed)
  IN  /\ p.line = <<>>
      /\ Len(obs) = Len(p.seen) /\ \A i \in 1..Len(obs) : obs[i][2] = p.seen[i][2]
      /\ input.surface = "openai" =>
           /\ obs = p.seen /\ frame.name = p.name /\ frame.crlf = p.cr
           /\ stats.events = p.blanks
           /\ stats.terminal <=> MarkerLine(consumed)

\* The buffer's counters, and the tokens of the line under construction.
BufferInv ==
  /\ input \in Inputs
  /\ got \in Nat /\ used \in Nat /\ acc \in Nat
  /\ acc <= used /\ used <= got /\ got <= Len(wire)
  /\ \A i \in (used - acc + 1)..used : wire[i] \notin Terminators

\* The types of what the copy keeps about events.
AccountTypeOK ==
  /\ frame \in [name : Words, pending : Nat, crlf : BOOLEAN]
  /\ stats \in [events : Nat, terminal : BOOLEAN]
  /\ obs \in Seq(Words \X Words)
  /\ result \in Results

\* A tail without a terminator is dealt with when all else is.
FramingInv ==
  /\ BufferInv /\ AccountTypeOK
  /\ input.surface = "openai" => frames = <<>>
  /\ Whole \/ (acc = 0 /\ used = Len(wire))
  /\ result \in {"run", "eof", "reset"} /\ Whole => Agrees

\* A sequence over a set is one over a larger set.
LEMMA SeqWidens ==
  ASSUME NEW S, NEW T, S \subseteq T, NEW w \in Seq(S)
  PROVE  w \in Seq(T) /\ Len(w) \in Nat
<1>1. \A k \in 1..Len(w) : w[k] \in T
  OBVIOUS
<1> QED
  BY <1>1

\* What the upstream sends are words.
LEMMA WireWords ==
  ASSUME NEW i \in Inputs
  PROVE  i.wire \in Seq(Words) /\ Len(i.wire) \in Nat /\ i.surface \in {"openai", "messages"}
         /\ i.ending \in {"eof", "reset"}
<1>1. i.wire \in Seq(STRING) /\ i.surface \in {"openai", "messages"} /\ i.ending \in {"eof", "reset"}
  BY RelayAssumption
<1> DEFINE w == i.wire
<1> HIDE DEF w
<1>2. w \in Seq(STRING)
  BY <1>1 DEF w
<1>3. STRING \subseteq Words
  BY DEF Words
<1>5. w \in Seq(Words) /\ Len(w) \in Nat
  BY <1>2, <1>3, SeqWidens
<1> QED
  BY <1>1, <1>5 DEF w

\* A prefix is a shorter one and the tokens between.
LEMMA PrefixSplits ==
  ASSUME NEW w \in Seq(Words), NEW m \in 0..Len(w), NEW k \in 0..m
  PROVE  /\ SubSeq(w, 1, m) = SubSeq(w, 1, k) \o SubSeq(w, k + 1, m)
         /\ SubSeq(w, 1, k) \in Seq(Words) /\ Len(SubSeq(w, 1, k)) = k
         /\ \A i \in 1..k : SubSeq(w, 1, k)[i] = w[i]
         /\ SubSeq(w, k + 1, m) \in Seq(Words) /\ Len(SubSeq(w, k + 1, m)) = m - k
         /\ \A i \in 1..(m - k) : SubSeq(w, k + 1, m)[i] = w[k + i]
<1> DEFINE x == SubSeq(w, 1, m)
           u == SubSeq(w, 1, k)
           v == SubSeq(w, k + 1, m)
<1> HIDE DEF x, u, v
<1>1. m \in Nat /\ k \in Nat /\ k <= m /\ m <= Len(w) /\ Len(w) \in Nat
  OBVIOUS
<1>2. x \in Seq(Words) /\ Len(x) = m /\ \A i \in 1..m : x[i] = w[i]
  <2>1. \A i \in 1..m : w[i] \in Words
    BY <1>1
  <2> QED
    BY <1>1, <2>1, SubSeqProperties DEF x
<1>3. u \in Seq(Words) /\ Len(u) = k /\ \A i \in 1..k : u[i] = w[i]
  <2>1. \A i \in 1..k : w[i] \in Words
    BY <1>1
  <2> QED
    BY <1>1, <2>1, SubSeqProperties DEF u
<1>4. v \in Seq(Words) /\ Len(v) = m - k /\ \A i \in 1..(m - k) : v[i] = w[k + i]
  <2>1. \A i \in (k + 1)..m : w[i] \in Words
    BY <1>1
  <2>2. k + 1 \in Int /\ m \in Int
    BY <1>1
  <2>3. v \in Seq(Words) /\ Len(v) = (IF k + 1 <= m THEN m - (k + 1) + 1 ELSE 0)
        /\ \A i \in 1..(m - (k + 1) + 1) : v[i] = w[(k + 1) + i - 1]
    BY <2>1, <2>2, SubSeqProperties DEF v
  <2>4. \A i \in 1..(m - k) : i \in 1..(m - (k + 1) + 1) /\ (k + 1) + i - 1 = k + i
    BY <1>1
  <2>5. Len(v) = m - k
    BY <1>1, <2>3
  <2> QED
    BY <2>3, <2>4, <2>5
<1>5. x = u \o v
  <2> DEFINE y == u \o v
  <2> HIDE DEF y
  <2>1. /\ y \in Seq(Words) /\ Len(y) = m
        /\ \A i \in 1..m : y[i] = IF i <= k THEN u[i] ELSE v[i - k]
    <3>1. /\ y \in Seq(Words) /\ Len(y) = Len(u) + Len(v)
          /\ \A i \in 1..(Len(u) + Len(v)) : y[i] = IF i <= Len(u) THEN u[i] ELSE v[i - Len(u)]
      BY <1>3, <1>4, ConcatProperties DEF y
    <3>2. k + (m - k) = m
      BY <1>1
    <3> QED
      BY <1>3, <1>4, <3>1, <3>2
  <2>2. \A i \in 1..m : y[i] = w[i]
    <3> TAKE i \in 1..m
    <3>1. CASE i <= k
      BY <1>3, <2>1, <3>1
    <3>2. CASE i > k
      <4>1. i - k \in 1..(m - k) /\ k + (i - k) = i
        BY <1>1, <3>2
      <4> QED
        BY <1>1, <1>4, <2>1, <3>2, <4>1
    <3> QED
      BY <1>1, <3>1, <3>2
  <2>3. x = y
    BY <1>1, <1>2, <2>1, <2>2, SeqEqual
  <2> QED
    BY <2>3 DEF y
<1> QED
  BY <1>3, <1>4, <1>5 DEF x, u, v

\* What the buffer invariant says of the wire.
LEMMA BufferFacts ==
  ASSUME BufferInv
  PROVE  /\ wire \in Seq(Words) /\ Len(wire) \in Nat
         /\ input.surface \in {"openai", "messages"} /\ input.ending \in {"eof", "reset"}
         /\ used - acc \in 0..Len(wire) /\ used - acc \in 0..used /\ used \in 0..Len(wire)
         /\ consumed \in Seq(Words) /\ Len(consumed) = used - acc
         /\ \A i \in 1..(used - acc) : consumed[i] = wire[i]
<1>1. wire \in Seq(Words) /\ Len(wire) \in Nat
      /\ input.surface \in {"openai", "messages"} /\ input.ending \in {"eof", "reset"}
  BY WireWords DEF BufferInv, wire
<1>2. used - acc \in 0..Len(wire) /\ used - acc \in 0..used /\ used \in 0..Len(wire)
  BY <1>1 DEF BufferInv
<1> DEFINE k == used - acc
<1> HIDE DEF k
<1>3. k \in 0..used /\ k = used - acc
  BY <1>2 DEF k
<1>4. /\ SubSeq(wire, 1, k) \in Seq(Words) /\ Len(SubSeq(wire, 1, k)) = k
      /\ \A i \in 1..k : SubSeq(wire, 1, k)[i] = wire[i]
  BY <1>1, <1>2, <1>3, PrefixSplits
<1> QED
  BY <1>1, <1>2, <1>3, <1>4 DEF consumed

\* The tokens between the consumed ones and the m-th make up a piece when only
\* the last of them may be a terminator.
LEMMA PieceOfWire ==
  ASSUME BufferInv, NEW m \in 0..Len(wire), used - acc < m,
         \A i \in (used - acc + 1)..(m - 1) : wire[i] \notin Terminators
  PROVE  LET line == SubSeq(wire, used - acc + 1, m)
         IN  /\ IsPiece(line) /\ Len(line) = m - (used - acc) /\ line[Len(line)] = wire[m]
             /\ \A i \in 1..Len(line) : line[i] = wire[used - acc + i]
             /\ SubSeq(wire, 1, m) = consumed \o line
<1> DEFINE k == used - acc
           line == SubSeq(wire, k + 1, m)
<1> HIDE DEF k, line
<1>1. wire \in Seq(Words) /\ Len(wire) \in Nat /\ k \in 0..m /\ m \in 0..Len(wire) /\ k < m /\ m \in Nat /\ k \in Nat
  BY BufferFacts DEF k
<1>2. /\ SubSeq(wire, 1, m) = SubSeq(wire, 1, k) \o line
      /\ line \in Seq(Words) /\ Len(line) = m - k
      /\ \A i \in 1..(m - k) : line[i] = wire[k + i]
  BY <1>1, PrefixSplits DEF line
<1>3. \A i \in (k + 1)..(m - 1) : wire[i] \notin Terminators
  BY DEF k
<1>5. IsPiece(line)
  <2>1. line # <<>>
    BY <1>1, <1>2
  <2>2. \A i \in 1..(Len(line) - 1) : line[i] \notin Terminators
    <3> TAKE i \in 1..(Len(line) - 1)
    <3>1. i \in 1..(m - k) /\ k + i \in (k + 1)..(m - 1)
      BY <1>1, <1>2
    <3>2. line[i] = wire[k + i]
      BY <1>2, <3>1
    <3> QED
      BY <1>3, <3>1, <3>2
  <2> QED
    BY <1>2, <2>1, <2>2 DEF IsPiece
<1>6. line[Len(line)] = wire[m]
  <2>1. m - k \in 1..(m - k) /\ k + (m - k) = m
    BY <1>1
  <2> QED
    BY <1>2, <2>1
<1>7. \A i \in 1..Len(line) : line[i] = wire[k + i]
  BY <1>2
<1> QED
  BY <1>2, <1>5, <1>6, <1>7 DEF consumed, k, line

\* Where ReadLine cuts the buffer.
LEMMA NextLine ==
  ASSUME BufferInv, used < got
  PROVE  LET c == readToLineEnd(buffered)
             line == SubSeq(wire, used - acc + 1, used + c)
         IN  /\ Len(buffered) = got - used
             /\ c = 0 => \A i \in (used - acc + 1)..got : wire[i] \notin Terminators
             /\ c # 0 => /\ c \in 1..(got - used) /\ IsLine(line) /\ line[Len(line)] = wire[used + c]
                         /\ \A i \in 1..Len(line) : line[i] = wire[used - acc + i]
                         /\ SubSeq(wire, 1, used + c) = consumed \o line
<1> DEFINE c == readToLineEnd(buffered)
<1> HIDE DEF c
<1>1. /\ wire \in Seq(Words) /\ Len(wire) \in Nat
      /\ got \in 0..Len(wire) /\ used \in 0..got /\ got \in Nat /\ used \in Nat /\ acc \in Nat /\ acc <= used
      /\ \A i \in (used - acc + 1)..used : wire[i] \notin Terminators
  BY BufferFacts DEF BufferInv
<1>2. /\ buffered \in Seq(Words) /\ Len(buffered) = got - used
      /\ \A i \in 1..(got - used) : buffered[i] = wire[used + i]
  BY <1>1, PrefixSplits DEF buffered
<1>3. \/ c = 0 /\ \A i \in 1..(got - used) : buffered[i] \notin Terminators
      \/ /\ c \in 1..(got - used) /\ buffered[c] \in Terminators
         /\ \A i \in 1..(c - 1) : buffered[i] \notin Terminators
  BY <1>2, LineEnds DEF c
<1>4. \A i \in (used + 1)..got : i - used \in 1..(got - used) /\ used + (i - used) = i
  BY <1>1
<1>5. \A i \in (used + 1)..got : wire[i] = buffered[i - used]
  BY <1>2, <1>4
<1>6. CASE c = 0 /\ \A i \in 1..(got - used) : buffered[i] \notin Terminators
  <2>1. \A i \in (used + 1)..got : wire[i] \notin Terminators
    BY <1>4, <1>5, <1>6
  <2>2. \A i \in (used - acc + 1)..got : i \in (used - acc + 1)..used \/ i \in (used + 1)..got
    BY <1>1
  <2>3. \A i \in (used - acc + 1)..got : wire[i] \notin Terminators
    BY <1>1, <2>1, <2>2
  <2> QED
    BY <1>2, <1>6, <2>3 DEF c
<1>7. CASE /\ c \in 1..(got - used) /\ buffered[c] \in Terminators
           /\ \A i \in 1..(c - 1) : buffered[i] \notin Terminators
  <2> DEFINE m == used + c
             line == SubSeq(wire, used - acc + 1, m)
  <2> HIDE DEF m, line
  <2>1. m \in 0..Len(wire) /\ used - acc < m /\ m = used + c /\ m \in Nat /\ c \in Nat
    BY <1>1, <1>7 DEF m
  <2>2. wire[m] \in Terminators
    BY <1>2, <1>7, <2>1
  <2>3. \A i \in (used - acc + 1)..(m - 1) : wire[i] \notin Terminators
    <3> TAKE i \in (used - acc + 1)..(m - 1)
    <3>1. CASE i \in (used - acc + 1)..used
      BY <1>1, <3>1
    <3>2. CASE i \in (used + 1)..(m - 1)
      <4>1. i - used \in 1..(c - 1) /\ i \in (used + 1)..got
        BY <1>1, <1>7, <2>1, <3>2
      <4> QED
        BY <1>5, <1>7, <4>1
    <3> QED
      BY <1>1, <2>1, <3>1, <3>2
  <2>4. /\ IsPiece(line) /\ line[Len(line)] = wire[m]
        /\ \A i \in 1..Len(line) : line[i] = wire[used - acc + i]
        /\ SubSeq(wire, 1, m) = consumed \o line
    BY <2>1, <2>3, PieceOfWire DEF line
  <2>5. IsLine(line)
    BY <2>2, <2>4, PieceSays
  <2>6. c # 0
    BY <1>1, <1>7
  <2> QED
    BY <1>2, <1>7, <2>4, <2>5, <2>6 DEF c, m, line
<1> QED
  BY <1>3, <1>6, <1>7

\* What is left at the end of the wire.
LEMMA LastPiece ==
  ASSUME BufferInv, acc > 0
  PROVE  LET line == SubSeq(wire, used - acc + 1, used)
         IN  /\ IsPiece(line) /\ line[Len(line)] = wire[used] /\ wire[used] \notin Terminators
             /\ \A i \in 1..Len(line) : line[i] = wire[used - acc + i]
             /\ SubSeq(wire, 1, used) = consumed \o line
<1>1. used \in 0..Len(wire) /\ used - acc < used /\ used \in (used - acc + 1)..used
  BY BufferFacts DEF BufferInv
<1>2. \A i \in (used - acc + 1)..(used - 1) : i \in (used - acc + 1)..used
  BY DEF BufferInv
<1>3. wire[used] \notin Terminators /\ \A i \in (used - acc + 1)..(used - 1) : wire[i] \notin Terminators
  BY <1>1, <1>2 DEF BufferInv
<1> QED
  BY <1>1, <1>3, PieceOfWire

\* The observer sees a data line, under the name its event has by then.
LEMMA ObservedLine ==
  ASSUME AccountTypeOK, NEW line, IsLine(line)
  PROVE  LET f == FrameAfter(line)
             b == Body(line)
         IN  /\ f \in [name : Words, pending : Nat, crlf : BOOLEAN] /\ f.crlf = frame.crlf
             /\ f.name = IF b = <<>> THEN NoName
                         ELSE IF b[1] = "event:" THEN ValueIn(b) ELSE frame.name
             /\ Observed(line, f) = IF b # <<>> /\ b[1] = "data:"
                                    THEN Append(obs, <<f.name, ValueIn(b)>>) ELSE obs
             /\ Observed(line, f) \in Seq(Words \X Words)
<1> DEFINE f == FrameAfter(line)
           b == Body(line)
           v == ValueIn(b)
<1>1. /\ isEventBoundary(line) <=> b = <<>>
      /\ IsField(line, "event:") <=> b # <<>> /\ b[1] = "event:"
      /\ IsField(line, "data:") <=> b # <<>> /\ b[1] = "data:"
      /\ FieldValue(line) = v
  BY LineReads
<1>2. b \in Seq(Words) /\ Len(line) \in Nat
  BY LineParts
<1>3. NoName \in Words /\ "" \in Words
  BY DEF Words
<1> HIDE DEF b
<1>4. v \in Words
  <2>1. Len(b) > 1 => b[2] \in Words
    BY <1>2
  <2> QED
    BY <1>3, <2>1 DEF ValueIn
<1> HIDE DEF v
<1>5. frame \in [name : Words, pending : Nat, crlf : BOOLEAN] /\ obs \in Seq(Words \X Words)
  BY DEF AccountTypeOK
<1>6. CASE b = <<>>
  <2> DEFINE n == IF input.surface = "messages" THEN 0 ELSE frame.pending
  <2>0. n \in Nat
    BY <1>5
  <2>1. f = [frame EXCEPT !.name = NoName, !.pending = n]
    BY <1>1, <1>6 DEF FrameAfter
  <2> HIDE DEF n, f
  <2>2. f \in [name : Words, pending : Nat, crlf : BOOLEAN] /\ f.crlf = frame.crlf /\ f.name = NoName
    BY <1>3, <1>5, <2>0, <2>1
  <2>3. Observed(line, f) = obs
    BY <1>1, <1>6 DEF Observed
  <2> QED
    BY <1>5, <1>6, <2>2, <2>3 DEF b, f
<1>7. CASE b # <<>>
  <2> DEFINE nm == IF b[1] = "event:" THEN v ELSE frame.name
             n == frame.pending + Len(line)
  <2>1. nm \in Words /\ n \in Nat
    BY <1>2, <1>4, <1>5
  <2>2. f = [frame EXCEPT !.pending = n, !.name = nm]
    BY <1>1, <1>7 DEF FrameAfter
  <2> HIDE DEF nm, n, f
  <2>3. f \in [name : Words, pending : Nat, crlf : BOOLEAN] /\ f.crlf = frame.crlf /\ f.name = nm
    BY <1>5, <2>1, <2>2
  <2>4. Observed(line, f) = IF b[1] = "data:" THEN Append(obs, <<f.name, v>>) ELSE obs
    BY <1>1, <1>7 DEF Observed
  <2>5. <<f.name, v>> \in Words \X Words
    BY <1>4, <2>1, <2>3
  <2>6. Append(obs, <<f.name, v>>) \in Seq(Words \X Words)
    BY <1>5, <2>5, AppendProperties
  <2>7. Observed(line, f) \in Seq(Words \X Words)
    BY <1>5, <2>4, <2>6
  <2> QED
    BY <1>7, <2>3, <2>4, <2>7 DEF b, v, nm, f
<1> QED
  BY <1>6, <1>7

\* An LF that completes a CRLF says nothing.
LEMMA LoneLF ==
  IsLine(<<LF>>) /\ Body(<<LF>>) = <<>> /\ ~isTerminalSSELine(<<LF>>)
<1>1. IsLine(<<LF>>)
  BY DEF IsLine, Words, Terminators
<1>2. Body(<<LF>>) = <<>>
  <2>1. Len(<<LF>>) = 1
    OBVIOUS
  <2> QED
    BY <1>1, <2>1, LineParts
<1>3. splitSSELineTerminator(<<LF>>) = <<>>
  BY <1>1, <1>2, LineReads
<1> QED
  BY <1>1, <1>2, <1>3 DEF isTerminalSSELine

\* A relayed line keeps the copy in agreement with the parser.
LEMMA RelayedAgrees ==
  ASSUME BufferInv, AccountTypeOK, Whole, Agrees, result = "run", input' = input,
         input.surface = "openai",
         NEW line, IsLine(line), consumed' = consumed \o line, RelayLine(line, "run")
  PROVE  AccountTypeOK' /\ (result' = "run" => Agrees')
<1> DEFINE f == FrameAfter(line)
           text == rewriteSSELine(line)
           swallowed == frame.crlf /\ line = <<LF>>
           b == Body(line)
           p == Parse(consumed)
           q == Parse(consumed \o line)
<1>1. /\ f \in [name : Words, pending : Nat, crlf : BOOLEAN] /\ f.crlf = frame.crlf
      /\ f.name = IF b = <<>> THEN NoName
                  ELSE IF b[1] = "event:" THEN ValueIn(b) ELSE frame.name
      /\ Observed(line, f) = IF b # <<>> /\ b[1] = "data:"
                             THEN Append(obs, <<f.name, ValueIn(b)>>) ELSE obs
      /\ Observed(line, f) \in Seq(Words \X Words)
  BY ObservedLine
<1>2. /\ frame \in [name : Words, pending : Nat, crlf : BOOLEAN]
      /\ stats \in [events : Nat, terminal : BOOLEAN] /\ obs \in Seq(Words \X Words)
  BY DEF AccountTypeOK
<1>3. IsPiece(line) /\ line[Len(line)] \in Terminators
  BY DEF IsLine, IsPiece
<1>4. isTerminalSSELine(text) <=> isTerminalSSELine(line)
  BY <1>3, RewriteKeeps
<1>5. isEventBoundary(line) <=> b = <<>>
  BY LineReads
<1>6. /\ p.line = <<>> /\ obs = p.seen /\ frame.name = p.name /\ frame.crlf = p.cr
      /\ stats.events = p.blanks /\ (stats.terminal <=> MarkerLine(consumed))
  BY DEF Agrees
<1>7. consumed \in Seq(Words) /\ AtLineStart(consumed)
  BY BufferFacts DEF Whole
<1>8. /\ q.line = <<>> /\ q.cr = (line[Len(line)] = CR)
      /\ swallowed => q.blanks = p.blanks /\ q.name = p.name /\ q.seen = p.seen
      /\ ~swallowed /\ b = <<>> => q.blanks = p.blanks + 1 /\ q.name = NoName /\ q.seen = p.seen
      /\ b # <<>> => q.blanks = p.blanks
      /\ b # <<>> /\ b[1] = "data:" => q.name = p.name /\ q.seen = Append(p.seen, <<p.name, ValueIn(b)>>)
      /\ b # <<>> /\ b[1] = "event:" => q.name = ValueIn(b) /\ q.seen = p.seen
      /\ b # <<>> /\ b[1] \notin {"data:", "event:"} => q.name = p.name /\ q.seen = p.seen
  BY <1>6, <1>7, ParseLine
<1>9. MarkerLine(consumed \o line) <=> MarkerLine(consumed) \/ isTerminalSSELine(line)
  BY <1>3, <1>7, MarkerGrows
<1>10. swallowed => ~isTerminalSSELine(line) /\ b = <<>> /\ line[Len(line)] = LF /\ LF # CR
  <2>1. line = <<LF>> => line[Len(line)] = LF
    OBVIOUS
  <2> QED
    BY <2>1, LoneLF DEF LF, CR
<1> HIDE DEF f, text, swallowed, b, p, q
<1>11. CASE ~swallowed /\ f.pending > MaxEventBytes
  <2>1. result' = "event_cap" /\ UNCHANGED <<frame, stats, obs>>
    BY <1>11 DEF RelayLine, f, swallowed
  <2> QED
    BY <1>2, <2>1 DEF AccountTypeOK, Results
<1>12. CASE ~(~swallowed /\ f.pending > MaxEventBytes)
  <2>1. PICK n \in Accepted(text) :
          /\ obs' = IF swallowed THEN obs ELSE Observed(line, f)
          /\ result' = IF n < Len(text) THEN "write_err" ELSE "run"
          /\ stats' = IF swallowed \/ n < Len(text) THEN stats
                      ELSE [events   |-> stats.events + (IF isEventBoundary(line) THEN 1 ELSE 0),
                            terminal |-> stats.terminal \/ isTerminalSSELine(text)]
          /\ frame' = IF swallowed THEN [frame EXCEPT !.crlf = FALSE]
                      ELSE [f EXCEPT !.crlf = (line[Len(line)] = CR),
                                     !.pending = IF isEventBoundary(line) THEN 0 ELSE @]
    BY <1>12 DEF RelayLine, f, text, swallowed
  <2>2. obs' \in Seq(Words \X Words) /\ result' \in Results
    BY <1>1, <1>2, <2>1 DEF Results
  <2>3. /\ frame' \in [name : Words, pending : Nat, crlf : BOOLEAN]
        /\ frame'.name = (IF swallowed THEN frame.name ELSE f.name)
        /\ frame'.crlf = (IF swallowed THEN FALSE ELSE line[Len(line)] = CR)
    <3>1. CASE swallowed
      BY <1>2, <2>1, <3>1
    <3>2. CASE ~swallowed
      <4> DEFINE m == IF isEventBoundary(line) THEN 0 ELSE f.pending
                 c == line[Len(line)] = CR
      <4>1. m \in Nat /\ c \in BOOLEAN
        BY <1>1
      <4>2. frame' = [f EXCEPT !.crlf = c, !.pending = m]
        BY <2>1, <3>2
      <4> HIDE DEF m, c
      <4>3. frame' \in [name : Words, pending : Nat, crlf : BOOLEAN] /\ frame'.name = f.name /\ frame'.crlf = c
        BY <1>1, <4>1, <4>2
      <4> QED
        BY <3>2, <4>3 DEF c
    <3> QED
      BY <3>1, <3>2
  <2>4. stats' \in [events : Nat, terminal : BOOLEAN]
    BY <1>2, <2>1
  <2>5. ASSUME result' = "run" PROVE Agrees'
    <3>1. ~(n < Len(text))
      BY <2>1, <2>5
    <3>2. /\ obs' = q.seen /\ frame'.name = q.name
      <4>1. CASE swallowed
        BY <1>6, <1>8, <2>1, <2>3, <4>1
      <4>2. CASE ~swallowed /\ b = <<>>
        BY <1>1, <1>6, <1>8, <2>1, <2>3, <4>2
      <4>3. CASE ~swallowed /\ b # <<>>
        <5>1. CASE b[1] = "data:"
          BY <1>1, <1>6, <1>8, <2>1, <2>3, <4>3, <5>1
        <5>2. CASE b[1] = "event:"
          BY <1>1, <1>6, <1>8, <2>1, <2>3, <4>3, <5>2
        <5>3. CASE b[1] \notin {"data:", "event:"}
          BY <1>1, <1>6, <1>8, <2>1, <2>3, <4>3, <5>3
        <5> QED
          BY <5>1, <5>2, <5>3
      <4> QED
        BY <4>1, <4>2, <4>3
    <3>3. frame'.crlf = q.cr
      BY <1>8, <1>10, <2>3
    <3>4. stats'.events = q.blanks
      BY <1>2, <1>5, <1>6, <1>8, <1>10, <2>1, <3>1
    <3>5. stats'.terminal <=> MarkerLine(consumed \o line)
      <4>1. CASE swallowed
        BY <1>6, <1>9, <1>10, <2>1, <4>1
      <4>2. CASE ~swallowed
        <5>1. stats'.terminal = (stats.terminal \/ isTerminalSSELine(text))
          BY <2>1, <3>1, <4>2
        <5> QED
          BY <1>4, <1>6, <1>9, <5>1
      <4> QED
        BY <4>1, <4>2
    <3>6. Parse(consumed)' = q
      BY DEF q
    <3>7. MarkerLine(consumed)' <=> MarkerLine(consumed \o line)
      OBVIOUS
    <3> QED
      BY <1>8, <3>2, <3>3, <3>4, <3>5, <3>6, <3>7 DEF Agrees
  <2> QED
    BY <2>2, <2>3, <2>4, <2>5 DEF AccountTypeOK
<1> QED
  BY <1>11, <1>12

\* A translated line keeps what was observed in agreement with the parser.
LEMMA TranslatedAgrees ==
  ASSUME BufferInv, AccountTypeOK, Whole, Agrees, result = "run", input' = input,
         input.surface # "openai",
         NEW line, IsLine(line), consumed' = consumed \o line, TranslateLine(line, "run")
  PROVE  AccountTypeOK' /\ (result' = "run" => Agrees')
<1> DEFINE f == FrameAfter(line)
           b == Body(line)
           p == Parse(consumed)
           q == Parse(consumed \o line)
           v == ValueIn(b)
<1>1. /\ f \in [name : Words, pending : Nat, crlf : BOOLEAN]
      /\ Observed(line, f) = IF b # <<>> /\ b[1] = "data:" THEN Append(obs, <<f.name, v>>) ELSE obs
      /\ Observed(line, f) \in Seq(Words \X Words)
  BY ObservedLine
<1>2. /\ frame \in [name : Words, pending : Nat, crlf : BOOLEAN]
      /\ stats \in [events : Nat, terminal : BOOLEAN] /\ obs \in Seq(Words \X Words)
  BY DEF AccountTypeOK
<1>3. p.line = <<>> /\ Len(obs) = Len(p.seen) /\ \A i \in 1..Len(obs) : obs[i][2] = p.seen[i][2]
  BY DEF Agrees
<1>4. consumed \in Seq(Words) /\ AtLineStart(consumed)
  BY BufferFacts DEF Whole
<1>5. /\ q.line = <<>>
      /\ b # <<>> /\ b[1] = "data:" => q.seen = Append(p.seen, <<p.name, v>>)
      /\ ~(b # <<>> /\ b[1] = "data:") => q.seen = p.seen
  BY <1>3, <1>4, ParseLine
<1>6. p \in Parsers
  BY <1>4, ParseSteps
<1>7. p.seen \in Seq(Words \X Words)
  BY <1>6 DEF Parsers
<1> DEFINE seen == p.seen
           x == <<f.name, v>>
           y == <<p.name, v>>
<1>8. x[2] = y[2]
  OBVIOUS
<1> HIDE DEF f, b, q, x, y, seen
<1>9. CASE f.pending > MaxEventBytes
  <2>1. result' = "event_cap" /\ UNCHANGED <<frame, stats, obs>>
    BY <1>9 DEF TranslateLine, f
  <2> QED
    BY <1>2, <2>1 DEF AccountTypeOK, Results
<1>10. CASE ~(f.pending > MaxEventBytes)
  <2>1. frame' = f /\ obs' = Observed(line, f) /\ result' = "run" /\ stats' = stats
    BY <1>10 DEF TranslateLine, f
  <2>2. AccountTypeOK'
    BY <1>1, <1>2, <2>1 DEF AccountTypeOK, Results
  <2>3. q.line = <<>> /\ Len(obs') = Len(q.seen) /\ \A i \in 1..Len(obs') : obs'[i][2] = q.seen[i][2]
    <3>1. CASE b # <<>> /\ b[1] = "data:"
      <4>1. obs' = Append(obs, x) /\ q.seen = Append(seen, y)
        BY <1>1, <1>5, <2>1, <3>1 DEF x, y, seen
      <4>2. Len(obs) = Len(seen) /\ Len(obs) \in Nat /\ seen \in Seq(Words \X Words)
            /\ \A i \in 1..Len(obs) : obs[i][2] = seen[i][2]
        BY <1>2, <1>3, <1>7 DEF seen
      <4>3. /\ Len(obs') = Len(obs) + 1 /\ Len(q.seen) = Len(obs) + 1
            /\ \A i \in 1..Len(obs) : obs'[i] = obs[i] /\ q.seen[i] = seen[i]
            /\ obs'[Len(obs) + 1] = x /\ q.seen[Len(obs) + 1] = y
        BY <1>2, <4>1, <4>2
      <4>4. ASSUME NEW i \in 1..Len(obs') PROVE obs'[i][2] = q.seen[i][2]
        <5>1. i \in 1..Len(obs) \/ i = Len(obs) + 1
          BY <4>2, <4>3
        <5> QED
          BY <1>8, <4>2, <4>3, <5>1
      <4> QED
        BY <1>5, <4>3, <4>4
    <3>2. CASE ~(b # <<>> /\ b[1] = "data:")
      BY <1>1, <1>3, <1>5, <2>1, <3>2
    <3> QED
      BY <3>1, <3>2
  <2>4. Agrees'
    <3>1. Parse(consumed)' = q
      BY DEF q
    <3> QED
      BY <2>3, <3>1 DEF Agrees
  <2> QED
    BY <2>2, <2>4
<1> QED
  BY <1>9, <1>10

\* What a step of the copy leaves of the frames owed.
LEMMA OpenAIOwesNothing ==
  ASSUME input.surface = "openai" => frames = <<>>, input' = input, NEW line, NEW after, TakeLine(line, after)
  PROVE  (input.surface = "openai" => frames = <<>>)'
BY DEF TakeLine, RelayLine

\* Starting the copy.
LEMMA InitFraming == Init => FramingInv
<1> SUFFICES ASSUME Init PROVE FramingInv
  OBVIOUS
<1>1. /\ input \in Inputs /\ got = 0 /\ used = 0 /\ acc = 0 /\ frame = noFrame /\ frames = <<>>
      /\ result = "run" /\ stats = [events |-> 0, terminal |-> FALSE] /\ obs = <<>>
  BY DEF Init
<1>2. BufferInv
  BY <1>1, WireWords DEF BufferInv, wire
<1>3. AccountTypeOK
  <2>1. <<>> \in Seq(Words \X Words)
    OBVIOUS
  <2>2. NoName \in Words
    BY DEF Words
  <2> QED
    BY <1>1, <2>1, <2>2 DEF AccountTypeOK, Results, noFrame
<1>4. consumed = <<>>
  BY <1>1, <1>2, BufferFacts
<1>5. Agrees
  <2>1. Parse(consumed) = ParseStart
    BY <1>4, ParseSteps
  <2>2. ~MarkerLine(consumed)
    <3>1. ~MarkerLine(<<>>)
      BY DEF MarkerLine
    <3> QED
      BY <1>4, <3>1
  <2>3. stats.terminal <=> MarkerLine(consumed)
    BY <1>1, <2>2
  <2>4. /\ ParseStart.line = <<>> /\ ParseStart.seen = <<>> /\ ParseStart.cr = FALSE
        /\ ParseStart.name = NoName /\ ParseStart.blanks = 0
    BY DEF ParseStart
  <2>5. frame.name = NoName /\ frame.crlf = FALSE /\ stats.events = 0
    BY <1>1 DEF noFrame
  <2>6. Len(obs) = 0
    BY <1>1
  <2>7. Len(obs) = Len(ParseStart.seen) /\ \A i \in 1..Len(obs) : obs[i][2] = ParseStart.seen[i][2]
    BY <1>1, <2>4, <2>6
  <2> QED
    BY <1>1, <2>1, <2>3, <2>4, <2>5, <2>7 DEF Agrees
<1>6. Whole
  BY <1>4 DEF Whole, AtLineStart
<1> QED
  BY <1>1, <1>2, <1>3, <1>5, <1>6 DEF FramingInv

\* A step that reads nothing out of the buffer and counts nothing keeps framing.
LEMMA FramingQuiet ==
  ASSUME FramingInv, UNCHANGED <<input, used, acc, frame, obs>>,
         got' \in Nat, got <= got', got' <= Len(wire),
         result' \in Results, result' \in {"run", "eof", "reset"} => result = "run" \/ result' = result,
         input.surface = "openai" => stats' = stats /\ frames' = <<>>,
         stats' \in [events : Nat, terminal : BOOLEAN]
  PROVE  FramingInv'
<1>1. wire' = wire /\ consumed' = consumed
  BY DEF wire, consumed
<1>2. BufferInv'
  BY <1>1 DEF FramingInv, BufferInv
<1>3. AccountTypeOK'
  BY DEF FramingInv, AccountTypeOK
<1>4. Whole' <=> Whole
  BY <1>1 DEF Whole
<1>5. result' \in {"run", "eof", "reset"} => result \in {"run", "eof", "reset"}
  OBVIOUS
<1>6. Agrees => Agrees'
  BY <1>1 DEF Agrees
<1> QED
  BY <1>1, <1>2, <1>3, <1>4, <1>5, <1>6 DEF FramingInv

\* Reading from the buffer.
LEMMA FramingRead ==
  ASSUME FramingInv, ReadLine
  PROVE  FramingInv'
<1>1. Running /\ frames = <<>> /\ used < got /\ UNCHANGED <<input, got>>
  BY DEF ReadLine
<1>2. result = "run" /\ wire' = wire
  BY <1>1 DEF Running, wire
<1> DEFINE c == readToLineEnd(buffered)
           n == IF c = 0 THEN Len(buffered) ELSE c
<1> HIDE DEF c
<1>3. BufferInv /\ AccountTypeOK
  BY DEF FramingInv
<1>4. /\ Len(buffered) = got - used
      /\ c = 0 => \A i \in (used - acc + 1)..got : wire[i] \notin Terminators
  BY <1>1, <1>3, NextLine DEF c
<1>5. got \in Nat /\ used \in Nat /\ acc \in Nat /\ acc <= used /\ used <= got /\ got <= Len(wire) /\ Len(wire) \in Nat
  BY <1>3, BufferFacts DEF BufferInv
<1>6. Whole /\ Agrees
  <2>1. used # Len(wire)
    BY <1>1, <1>5
  <2> QED
    BY <1>2, <2>1 DEF FramingInv
<1>7. CASE acc + n > MaxLineBytes
  <2>1. result' = "line_cap" /\ UNCHANGED <<used, acc, frame, frames, stats, obs>>
    BY <1>7 DEF ReadLine, c
  <2>2. result' \in Results /\ stats' \in [events : Nat, terminal : BOOLEAN]
    BY <1>3, <2>1 DEF AccountTypeOK, Results
  <2> QED
    BY <1>1, <1>5, <2>1, <2>2, FramingQuiet DEF FramingInv
<1>8. CASE ~(acc + n > MaxLineBytes) /\ c = 0
  <2>1. used' = used + (got - used) /\ acc' = acc + (got - used) /\ UNCHANGED <<frame, frames, result, stats, obs>>
    BY <1>4, <1>8 DEF ReadLine, c
  <2>2. used' = got /\ used' - acc' = used - acc /\ used' \in Nat /\ acc' \in Nat /\ acc' <= used'
    BY <1>1, <1>5, <2>1
  <2>3. consumed' = consumed
    BY <1>2, <2>2 DEF consumed
  <2>4. BufferInv'
    <3>1. \A i \in (used' - acc' + 1)..used' : wire'[i] \notin Terminators
      BY <1>2, <1>4, <1>8, <2>2
    <3>2. input' \in Inputs /\ got' \in Nat /\ got' <= Len(wire') /\ used' <= got'
      BY <1>1, <1>2, <1>3, <1>5, <2>2 DEF BufferInv
    <3> QED
      BY <2>2, <3>1, <3>2 DEF BufferInv
  <2>5. AccountTypeOK'
    BY <1>3, <2>1 DEF AccountTypeOK
  <2>6. Whole' /\ Agrees'
    BY <1>1, <1>6, <2>1, <2>3 DEF Whole, Agrees
  <2> QED
    BY <1>1, <2>1, <2>4, <2>5, <2>6 DEF FramingInv
<1>9. CASE ~(acc + n > MaxLineBytes) /\ c # 0
  <2> DEFINE line == SubSeq(wire, used - acc + 1, used + c)
  <2>1. /\ c \in 1..(got - used) /\ IsLine(line) /\ line[Len(line)] = wire[used + c]
        /\ SubSeq(wire, 1, used + c) = consumed \o line
    BY <1>1, <1>3, <1>9, NextLine DEF c
  <2>2. used' = used + c /\ acc' = 0 /\ TakeLine(line, "run")
    BY <1>9 DEF ReadLine, c
  <2> HIDE DEF line
  <2>3. consumed' = SubSeq(wire, 1, used + c)
    <3>1. used' - acc' = used + c
      BY <1>5, <2>1, <2>2
    <3> QED
      BY <1>2, <3>1 DEF consumed
  <2>4. consumed' = consumed \o line
    BY <2>1, <2>3
  <2>5. BufferInv'
    <3>1. \A i \in (used' - acc' + 1)..used' : FALSE
      BY <1>5, <2>1, <2>2
    <3>2. used' \in Nat /\ acc' \in Nat /\ acc' <= used' /\ used' <= got
      BY <1>5, <2>1, <2>2
    <3>3. \A i \in (used' - acc' + 1)..used' : wire'[i] \notin Terminators
      BY <3>1
    <3>4. input' \in Inputs /\ got' \in Nat /\ got' <= Len(wire') /\ used' <= got'
      BY <1>1, <1>2, <1>3, <1>5, <3>2 DEF BufferInv
    <3> QED
      BY <3>2, <3>3, <3>4 DEF BufferInv
  <2>6. AccountTypeOK' /\ (result' = "run" => Agrees')
    <3>1. CASE input.surface = "openai"
      <4>1. RelayLine(line, "run")
        BY <2>2, <3>1 DEF TakeLine
      <4> QED
        BY <1>1, <1>2, <1>3, <1>6, <2>1, <2>4, <3>1, <4>1, RelayedAgrees
    <3>2. CASE input.surface # "openai"
      <4>1. TranslateLine(line, "run")
        BY <1>3, <2>2, <3>2, BufferFacts DEF TakeLine
      <4> QED
        BY <1>1, <1>2, <1>3, <1>6, <2>1, <2>4, <3>2, <4>1, TranslatedAgrees
    <3> QED
      BY <3>1, <3>2
  <2>7. Whole'
    <3>1. Len(SubSeq(wire, 1, used + c)) = used + c /\ SubSeq(wire, 1, used + c)[used + c] = wire[used + c]
      <4>1. used + c \in 0..Len(wire) /\ used + c \in 1..(used + c)
        BY <1>5, <2>1
      <4>2. wire \in Seq(Words)
        BY <1>3, BufferFacts
      <4> QED
        BY <4>1, <4>2, PrefixSplits
    <3>2. wire[used + c] \in Terminators
      BY <2>1 DEF IsLine
    <3>3. AtLineStart(consumed')
      BY <2>3, <3>1, <3>2 DEF AtLineStart
    <3> QED
      BY <3>3 DEF Whole
  <2>8. result' \in {"run", "write_err", "event_cap"}
    BY <2>2 DEF TakeLine, RelayLine, TranslateLine
  <2>9. (input.surface = "openai" => frames = <<>>)'
    BY <1>1, <2>2, OpenAIOwesNothing
  <2> QED
    BY <2>5, <2>6, <2>7, <2>8, <2>9 DEF FramingInv
<1> QED
  BY <1>7, <1>8, <1>9

\* Any sequence of words is read with the types the copy keeps.
LEMMA LineTypes ==
  ASSUME AccountTypeOK, NEW line \in Seq(Words)
  PROVE  /\ FrameAfter(line) \in [name : Words, pending : Nat, crlf : BOOLEAN]
         /\ Observed(line, FrameAfter(line)) \in Seq(Words \X Words)
<1> DEFINE s == splitSSELineTerminator(line)
           v == FieldValue(line)
           f == FrameAfter(line)
<1>1. Len(line) \in Nat /\ \A i \in 1..Len(line) : line[i] \in Words
  OBVIOUS
<1>2. s \in Seq(Words)
  <2>1. ASSUME NEW m \in Int, m <= Len(line) PROVE SubSeq(line, 1, m) \in Seq(Words)
    <3>1. \A i \in 1..m : line[i] \in Words
      BY <1>1, <2>1
    <3> QED
      BY <3>1, SubSeqProperties
  <2>2. SubSeq(line, 1, Len(line) - 2) \in Seq(Words)
    BY <1>1, <2>1
  <2>3. SubSeq(line, 1, Len(line) - 1) \in Seq(Words)
    BY <1>1, <2>1
  <2> QED
    BY <2>2, <2>3 DEF splitSSELineTerminator
<1>3. v = IF Len(s) > 1 THEN s[2] ELSE ""
  BY DEF FieldValue
<1>4. NoName \in Words /\ "" \in Words
  BY DEF Words
<1> HIDE DEF s, v, f
<1>5. v \in Words
  <2>1. Len(s) > 1 => s[2] \in Words
    BY <1>2
  <2> QED
    BY <1>3, <1>4, <2>1
<1>6. frame \in [name : Words, pending : Nat, crlf : BOOLEAN] /\ obs \in Seq(Words \X Words)
  BY DEF AccountTypeOK
<1>7. f \in [name : Words, pending : Nat, crlf : BOOLEAN]
  <2>1. CASE isEventBoundary(line)
    <3> DEFINE n == IF input.surface = "messages" THEN 0 ELSE frame.pending
    <3>1. n \in Nat
      BY <1>6
    <3>2. f = [frame EXCEPT !.name = NoName, !.pending = n]
      BY <2>1 DEF FrameAfter, f
    <3> HIDE DEF n
    <3> QED
      BY <1>4, <1>6, <3>1, <3>2
  <2>2. CASE ~isEventBoundary(line)
    <3> DEFINE nm == IF IsField(line, "event:") THEN v ELSE frame.name
               n == frame.pending + Len(line)
    <3>1. nm \in Words /\ n \in Nat
      BY <1>1, <1>5, <1>6
    <3>2. f = [frame EXCEPT !.pending = n, !.name = nm]
      BY <2>2 DEF FrameAfter, f, v
    <3> HIDE DEF nm, n
    <3> QED
      BY <1>6, <3>1, <3>2
  <2> QED
    BY <2>1, <2>2
<1>8. Observed(line, f) \in Seq(Words \X Words)
  <2>1. <<f.name, v>> \in Words \X Words
    BY <1>5, <1>7
  <2>2. Append(obs, <<f.name, v>>) \in Seq(Words \X Words)
    BY <1>6, <2>1, AppendProperties
  <2> QED
    BY <1>6, <2>2 DEF Observed, v
<1> QED
  BY <1>7, <1>8 DEF f

\* Whatever line is taken, the accounts keep their types.
LEMMA TakenTypes ==
  ASSUME AccountTypeOK, NEW line \in Seq(Words), TakeLine(line, "run")
  PROVE  AccountTypeOK' /\ result' \in {"run", "write_err", "event_cap"}
<1> DEFINE f == FrameAfter(line)
           text == rewriteSSELine(line)
           swallowed == frame.crlf /\ line = <<LF>>
<1>1. f \in [name : Words, pending : Nat, crlf : BOOLEAN] /\ Observed(line, f) \in Seq(Words \X Words)
  BY LineTypes
<1>2. /\ frame \in [name : Words, pending : Nat, crlf : BOOLEAN]
      /\ stats \in [events : Nat, terminal : BOOLEAN] /\ obs \in Seq(Words \X Words)
  BY DEF AccountTypeOK
<1> HIDE DEF f, text, swallowed
<1>3. ASSUME result' = "event_cap", UNCHANGED <<frame, stats, obs>> PROVE AccountTypeOK'
  BY <1>2, <1>3 DEF AccountTypeOK, Results
<1>4. CASE input.surface = "messages"
  <2>1. TranslateLine(line, "run")
    BY <1>4 DEF TakeLine
  <2>2. \/ result' = "event_cap" /\ UNCHANGED <<frame, stats, obs>>
        \/ frame' = f /\ obs' = Observed(line, f) /\ result' = "run" /\ stats' = stats
    BY <2>1 DEF TranslateLine, f
  <2>3. CASE frame' = f /\ obs' = Observed(line, f) /\ result' = "run" /\ stats' = stats
    BY <1>1, <1>2, <2>3 DEF AccountTypeOK, Results
  <2> QED
    BY <1>3, <2>2, <2>3
<1>5. CASE input.surface # "messages"
  <2>1. RelayLine(line, "run")
    BY <1>5 DEF TakeLine
  <2>2. CASE ~swallowed /\ f.pending > MaxEventBytes
    <3>1. result' = "event_cap" /\ UNCHANGED <<frame, stats, obs>>
      BY <2>1, <2>2 DEF RelayLine, f, swallowed
    <3> QED
      BY <1>3, <3>1
  <2>3. CASE ~(~swallowed /\ f.pending > MaxEventBytes)
    <3>1. PICK n \in Accepted(text) :
            /\ obs' = IF swallowed THEN obs ELSE Observed(line, f)
            /\ result' = IF n < Len(text) THEN "write_err" ELSE "run"
            /\ stats' = IF swallowed \/ n < Len(text) THEN stats
                        ELSE [events   |-> stats.events + (IF isEventBoundary(line) THEN 1 ELSE 0),
                              terminal |-> stats.terminal \/ isTerminalSSELine(text)]
            /\ frame' = IF swallowed THEN [frame EXCEPT !.crlf = FALSE]
                        ELSE [f EXCEPT !.crlf = (line[Len(line)] = CR),
                                       !.pending = IF isEventBoundary(line) THEN 0 ELSE @]
      BY <2>1, <2>3 DEF RelayLine, f, text, swallowed
    <3>2. obs' \in Seq(Words \X Words) /\ result' \in {"run", "write_err"}
      BY <1>1, <1>2, <3>1
    <3>3. frame' \in [name : Words, pending : Nat, crlf : BOOLEAN]
      <4>1. CASE swallowed
        BY <1>2, <3>1, <4>1
      <4>2. CASE ~swallowed
        <5> DEFINE m == IF isEventBoundary(line) THEN 0 ELSE f.pending
                   c == line[Len(line)] = CR
        <5>1. m \in Nat /\ c \in BOOLEAN
          BY <1>1
        <5>2. frame' = [f EXCEPT !.crlf = c, !.pending = m]
          BY <3>1, <4>2
        <5> HIDE DEF m, c
        <5> QED
          BY <1>1, <5>1, <5>2
      <4> QED
        BY <4>1, <4>2
    <3>4. stats' \in [events : Nat, terminal : BOOLEAN]
      BY <1>2, <3>1
    <3> QED
      BY <3>2, <3>3, <3>4 DEF AccountTypeOK, Results
  <2> QED
    BY <2>2, <2>3
<1> QED
  BY <1>4, <1>5

\* The last line of a stream that ends without a terminator.
LEMMA FramingEnd ==
  ASSUME FramingInv, ReadEnd
  PROVE  FramingInv'
<1>1. /\ Running /\ frames = <<>> /\ used = got /\ got = Len(wire) /\ acc > 0 /\ acc' = 0
      /\ UNCHANGED <<input, got, used>> /\ TakeLine(SubSeq(wire, used - acc + 1, used), "run")
  BY DEF ReadEnd
<1>2. BufferInv /\ AccountTypeOK /\ wire' = wire
  BY <1>1 DEF FramingInv, wire
<1> DEFINE line == SubSeq(wire, used - acc + 1, used)
<1> HIDE DEF line
<1>3. wire[used] \notin Terminators /\ IsPiece(line)
  BY <1>1, <1>2, LastPiece DEF line
<1>4. line \in Seq(Words)
  BY <1>3 DEF IsPiece
<1>5. TakeLine(line, "run")
  BY <1>1 DEF line
<1>6. AccountTypeOK' /\ result' \in {"run", "write_err", "event_cap"}
  BY <1>2, <1>4, <1>5, TakenTypes
<1>7. got \in Nat /\ used \in Nat /\ used > 0
  BY <1>1, <1>2 DEF BufferInv
<1>8. BufferInv'
  <2>1. \A i \in (used' - acc' + 1)..used' : FALSE
    BY <1>1, <1>7
  <2>2. used' \in Nat /\ acc' \in Nat /\ acc' <= used' /\ used' <= got'
    BY <1>1, <1>7
  <2>3. \A i \in (used' - acc' + 1)..used' : wire'[i] \notin Terminators
    BY <2>1
  <2>4. input' \in Inputs /\ got' \in Nat /\ got' <= Len(wire')
    BY <1>1, <1>2 DEF BufferInv
  <2> QED
    BY <2>2, <2>3, <2>4 DEF BufferInv
<1>9. ~Whole'
  <2>1. used' - acc' = used
    BY <1>1, <1>7
  <2>2. consumed' = SubSeq(wire, 1, used)
    BY <1>2, <2>1 DEF consumed
  <2>3. Len(SubSeq(wire, 1, used)) = used /\ SubSeq(wire, 1, used)[used] = wire[used]
    <3>1. used \in 0..Len(wire) /\ used \in 1..used /\ wire \in Seq(Words) /\ used \in 0..used
      BY <1>2, <1>7, BufferFacts
    <3> QED
      BY <3>1, PrefixSplits
  <2>4. ~AtLineStart(consumed')
    <3> DEFINE x == SubSeq(wire, 1, used)
    <3> HIDE DEF x
    <3>1. Len(x) = used /\ x[used] = wire[used] /\ consumed' = x
      BY <2>2, <2>3 DEF x
    <3>2. x # <<>>
      BY <1>7, <3>1
    <3> QED
      BY <1>3, <3>1, <3>2 DEF AtLineStart
  <2> QED
    BY <2>4 DEF Whole
<1>10. (input.surface = "openai" => frames = <<>>)'
  BY <1>1, <1>5, OpenAIOwesNothing
<1>11. acc' = 0 /\ used' = Len(wire')
  BY <1>1, <1>2
<1> QED
  BY <1>6, <1>8, <1>9, <1>10, <1>11 DEF FramingInv

\* Every step keeps framing.
LEMMA NextFraming == FramingInv /\ [Next]_vars => FramingInv'
<1> SUFFICES ASSUME FramingInv, [Next]_vars PROVE FramingInv'
  OBVIOUS
<1>1. /\ got \in Nat /\ got <= Len(wire) /\ Len(wire) \in Nat
      /\ result \in Results /\ stats \in [events : Nat, terminal : BOOLEAN]
      /\ input.surface = "openai" => frames = <<>>
      /\ input.surface \in {"openai", "messages"} /\ input.ending \in {"eof", "reset"} /\ input \in Inputs
  <2>1. BufferInv
    BY DEF FramingInv
  <2> QED
    BY <2>1, BufferFacts DEF FramingInv, BufferInv, AccountTypeOK
<1>2. ASSUME NEW k \in input.reads, Fill(k) PROVE FramingInv'
  <2>1. k \in Nat
    BY <1>1, RelayAssumption
  <2>2. /\ got' = IF got + k > Len(wire) THEN Len(wire) ELSE got + k
        /\ got < Len(wire) /\ UNCHANGED <<input, used, acc, frame, frames, result, stats, obs>>
    BY <1>2 DEF Fill
  <2>3. got' \in Nat /\ got <= got' /\ got' <= Len(wire)
    BY <1>1, <2>1, <2>2
  <2> QED
    BY <1>1, <2>2, <2>3, FramingQuiet
<1>3. CASE ReadLine
  BY <1>3, FramingRead
<1>4. CASE ReadEnd
  BY <1>4, FramingEnd
<1>5. CASE CopyReturns
  <2>1. UNCHANGED <<input, got, used, acc, frame, stats, obs>> /\ Running /\ frames = <<>>
    BY <1>5 DEF CopyReturns
  <2>2. \/ input.surface = "messages" /\ result' = result
        \/ result' = input.ending /\ frames' = frames
    BY <1>5 DEF CopyReturns
  <2>3. result = "run"
    BY <2>1 DEF Running
  <2>4. result' \in Results
    BY <1>1, <2>2 DEF Results
  <2> QED
    BY <1>1, <2>1, <2>2, <2>3, <2>4, FramingQuiet
<1>6. CASE WriteFrame
  <2>1. UNCHANGED <<input, got, used, acc, frame, obs>> /\ result = "run" /\ frames # <<>>
    BY <1>6 DEF WriteFrame, Running
  <2>2. result' \in {"run", "write_err"} /\ stats' \in [events : Nat, terminal : BOOLEAN]
    <3> DEFINE line == Head(frames)
    <3> HIDE DEF line
    <3>1. PICK n \in Accepted(line) :
            IF n < Len(line)
            THEN result' = "write_err" /\ UNCHANGED <<stats, frames>>
            ELSE /\ frames' = Tail(frames)
                 /\ stats' = [events   |-> stats.events + (IF isEventBoundary(line) THEN 1 ELSE 0),
                              terminal |-> stats.terminal \/ isTerminalSSELine(line)]
                 /\ UNCHANGED result
      BY <1>6 DEF WriteFrame, line
    <3>2. CASE n < Len(line)
      BY <1>1, <3>1, <3>2
    <3>3. CASE ~(n < Len(line))
      <4> DEFINE e == stats.events + (IF isEventBoundary(line) THEN 1 ELSE 0)
                 t == stats.terminal \/ isTerminalSSELine(line)
      <4>1. e \in Nat /\ t \in BOOLEAN
        BY <1>1
      <4>2. stats' = [events |-> e, terminal |-> t] /\ result' = "run"
        BY <2>1, <3>1, <3>3
      <4> HIDE DEF e, t
      <4> QED
        BY <4>1, <4>2
    <3> QED
      BY <3>2, <3>3
  <2>3. result' \in Results
    BY <2>2 DEF Results
  <2> QED
    BY <1>1, <2>1, <2>2, <2>3, FramingQuiet
<1>7. CASE maybePing \/ StopHeartbeat \/ HeartbeatExits \/ Join \/ ClientLeaves \/ Done \/ UNCHANGED vars
  <2>1. UNCHANGED <<input, got, used, acc, frame, frames, result, stats, obs>>
    BY <1>7 DEF maybePing, StopHeartbeat, HeartbeatExits, Join, ClientLeaves, Done, vars
  <2> QED
    BY <1>1, <2>1, FramingQuiet
<1> QED
  BY <1>2, <1>3, <1>4, <1>5, <1>6, <1>7 DEF Next

\* What the copy has made of the lines it has dealt with is what the parser
\* makes of them, at every moment.
THEOREM FramingHolds == Spec => []FramingInv
<1>1. Init => FramingInv
  BY InitFraming
<1>2. FramingInv /\ [Next]_vars => FramingInv'
  BY NextFraming
<1> QED
  BY <1>1, <1>2, PTL DEF Spec

\* The observer and the statistics are functions of the upstream's bytes,
\* however its reads were split and whatever the heartbeat and the client did
\* meanwhile (CopySSE, readToLineEnd).
THEOREM FramingFollowsBytes == Spec => []FramingIsByteFunction
<1>1. FramingInv => FramingIsByteFunction
  <2> SUFFICES ASSUME FramingInv, result \in {"run", "eof", "reset"},
                      consumed # <<>> => consumed[Len(consumed)] \in Terminators
               PROVE  LET p == Parse(consumed)
                      IN  /\ Len(obs) = Len(p.seen)
                          /\ \A i \in 1..Len(obs) : obs[i][2] = p.seen[i][2]
                          /\ input.surface = "openai" =>
                               /\ obs = p.seen
                               /\ stats.events = p.blanks
                               /\ stats.terminal <=> MarkerLine(consumed)
    BY DEF FramingIsByteFunction
  <2>1. Whole
    BY DEF Whole, AtLineStart
  <2>2. Agrees
    BY <2>1 DEF FramingInv
  <2> QED
    BY <2>2 DEF Agrees
<1> QED
  BY <1>1, FramingHolds, PTL

-----------------------------------------------------------------------------
(* The lines the translator owes.                                          *)

\* A line of the translator: it ends in LF and is not the heartbeat's.
OwedLine == {f \in Seq(Words) : IsLine(f) /\ f[Len(f)] = LF /\ \A i \in 1..Len(f) : f[i] # ":ping"}

\* The states of a translator, and of a translation in progress.
Translators ==
  [started : BOOLEAN, stopped : BOOLEAN, failed : BOOLEAN, finish : BOOLEAN, usage : BOOLEAN,
   nextIndex : Nat, openIndex : Nat, openKind : Kinds]
Translations == [s : Translators, out : Seq(OwedLine)]

\* The lines of an event are lines of the translator.
LEMMA EventLines ==
  ASSUME NEW name \in Names, NEW data \in Seq(Contents)
  PROVE  appendEventFrame(name, data) \in Seq(OwedLine)
<1>0. Names \subseteq Words /\ Contents \subseteq Words /\ LF \in Words /\ "data:" \in Words /\ "event:" \in Words
  BY DEF Words, Names
<1>1. \A w \in Names \cup Contents : w \notin Terminators /\ w # ":ping"
  BY DEF Names, Contents, Kinds, Terminators, LF, CR
<1>2. LF \in Terminators /\ LF # ":ping" /\ "event:" \in Names /\ "data:" \in Names
  BY DEF Terminators, LF, Names
<1>3. <<LF>> \in OwedLine
  BY <1>0, <1>2 DEF OwedLine, IsLine
<1>4. <<"event:", name, LF>> \in OwedLine
  <2> DEFINE f == <<"event:", name, LF>>
  <2>1. f \in Seq(Words) /\ Len(f) = 3 /\ f # <<>>
    BY <1>0
  <2>2. f[1] = "event:" /\ f[2] = name /\ f[3] = LF
    OBVIOUS
  <2> HIDE DEF f
  <2>3. \A i \in 1..2 : f[i] \in Names
    BY <1>2, <2>2
  <2>4. \A i \in 1..3 : f[i] # ":ping"
    BY <1>1, <1>2, <2>2
  <2>5. \A i \in 1..(Len(f) - 1) : f[i] \notin Terminators
    <3>1. Len(f) - 1 = 2
      BY <2>1
    <3> QED
      BY <1>1, <2>3, <3>1
  <2>6. f[Len(f)] = LF /\ \A i \in 1..Len(f) : f[i] # ":ping"
    BY <2>1, <2>2, <2>4
  <2>7. f \in OwedLine
    BY <1>2, <2>1, <2>5, <2>6 DEF OwedLine, IsLine
  <2> QED
    BY <2>7 DEF f
<1>5. <<"data:">> \o data \o <<LF>> \in OwedLine
  <2> DEFINE d == <<"data:">> \o data
             f == d \o <<LF>>
             n == Len(data)
  <2>0. n \in Nat /\ <<"data:">> \in Seq(Words) /\ <<LF>> \in Seq(Words) /\ Len(<<LF>>) = 1 /\ Len(<<"data:">>) = 1
    BY <1>0
  <2>1. data \in Seq(Words) /\ \A i \in 1..n : data[i] \in Contents
    BY <1>0, SeqWidens
  <2>2. d \in Seq(Words) /\ Len(d) = n + 1 /\ \A i \in 1..(n + 1) : d[i] = IF i <= 1 THEN "data:" ELSE data[i - 1]
    <3>1. /\ d \in Seq(Words) /\ Len(d) = Len(<<"data:">>) + Len(data)
          /\ \A i \in 1..(Len(<<"data:">>) + Len(data)) :
                d[i] = IF i <= Len(<<"data:">>) THEN <<"data:">>[i] ELSE data[i - Len(<<"data:">>)]
      BY <2>0, <2>1, ConcatProperties
    <3>2. 1 + n = n + 1
      BY <2>0
    <3> QED
      BY <2>0, <3>1, <3>2
  <2> HIDE DEF d
  <2>3. f \in Seq(Words) /\ Len(f) = n + 2 /\ \A i \in 1..(n + 2) : f[i] = IF i <= n + 1 THEN d[i] ELSE LF
    <3>1. /\ f \in Seq(Words) /\ Len(f) = Len(d) + Len(<<LF>>)
          /\ \A i \in 1..(Len(d) + Len(<<LF>>)) : f[i] = IF i <= Len(d) THEN d[i] ELSE <<LF>>[i - Len(d)]
      BY <2>0, <2>2, ConcatProperties
    <3>2. Len(d) + Len(<<LF>>) = n + 2 /\ \A i \in 1..(n + 2) : ~(i <= n + 1) => i - (n + 1) = 1
      BY <2>0, <2>2
    <3> QED
      BY <2>0, <2>2, <3>1, <3>2
  <2> HIDE DEF f, n
  <2>4. \A i \in 1..(n + 1) : f[i] \in Names \cup Contents
    <3> TAKE i \in 1..(n + 1)
    <3>1. f[i] = IF i <= 1 THEN "data:" ELSE data[i - 1]
      BY <2>0, <2>2, <2>3
    <3>2. ~(i <= 1) => i - 1 \in 1..n
      BY <2>0
    <3> QED
      BY <1>2, <2>1, <3>1, <3>2
  <2>5. f[n + 2] = LF
    BY <2>0, <2>3
  <2>6. \A i \in 1..(n + 2) : i \in 1..(n + 1) \/ i = n + 2
    BY <2>0
  <2>7. \A i \in 1..(n + 2) : f[i] # ":ping"
    BY <1>1, <1>2, <2>4, <2>5, <2>6
  <2>8. f # <<>> /\ Len(f) - 1 = n + 1
    BY <2>0, <2>3
  <2>9. f \in OwedLine
    BY <1>1, <1>2, <2>3, <2>4, <2>5, <2>7, <2>8 DEF OwedLine, IsLine
  <2> QED
    BY <2>9 DEF f, d
<1> DEFINE x == <<"event:", name, LF>>
           y == <<"data:">> \o data \o <<LF>>
           z == <<LF>>
<1>6. appendEventFrame(name, data) = <<x, y, z>>
  BY DEF appendEventFrame
<1> HIDE DEF x, y, z
<1>7. x \in OwedLine /\ y \in OwedLine /\ z \in OwedLine
  BY <1>3, <1>4, <1>5 DEF x, y, z
<1> QED
  BY <1>6, <1>7

\* One event more.
LEMMA EmitType ==
  ASSUME NEW r \in Translations, NEW name \in Names, NEW data \in Seq(Contents)
  PROVE  Emit(r, name, data) \in Translations /\ Emit(r, name, data).s = r.s
<1> DEFINE e == appendEventFrame(name, data)
           o == r.out \o e
<1>1. e \in Seq(OwedLine) /\ r.out \in Seq(OwedLine)
  BY EventLines DEF Translations
<1> HIDE DEF e
<1>2. o \in Seq(OwedLine)
  BY <1>1
<1>3. Emit(r, name, data) = [r EXCEPT !.out = o]
  BY DEF Emit, e
<1> HIDE DEF o
<1> QED
  BY <1>2, <1>3 DEF Translations

\* A change of the translator's state only.
LEMMA StateType ==
  ASSUME NEW r \in Translations, NEW s \in Translators, NEW q, q = [r EXCEPT !.s = s]
  PROVE  q \in Translations /\ q.s = s /\ q.out = r.out
BY DEF Translations

\* A kind or a word before an index is data.
LEMMA IndexType ==
  ASSUME NEW k \in Contents, NEW n \in Nat
  PROVE  <<k>> \o Index(n) \in Seq(Contents)
<1>1. Index(n) \in Seq(Contents)
  <2>1. "I" \in Contents
    BY DEF Contents
  <2>2. Index(n) \in [1..n -> Contents]
    BY <2>1 DEF Index
  <2> QED
    BY <2>2
<1> HIDE DEF Index
<1>2. <<k>> \in Seq(Contents)
  OBVIOUS
<1> QED
  BY <1>1, <1>2

\* Closing what is open.
LEMMA CloseType ==
  ASSUME NEW r \in Translations
  PROVE  appendClose(r) \in Translations
<1>1. r.s \in Translators /\ r.s.openIndex \in Nat /\ "none" \in Kinds
  BY DEF Translations, Translators, Kinds
<1> DEFINE d == <<"block">> \o Index(r.s.openIndex)
           m == Emit(r, "content_block_stop", d)
           s == [r.s EXCEPT !.openKind = "none"]
<1>2. d \in Seq(Contents)
  <2>1. "block" \in Contents
    BY DEF Contents
  <2> QED
    BY <1>1, <2>1, IndexType
<1> HIDE DEF d
<1>3. m \in Translations /\ m.s = r.s
  <2>1. "content_block_stop" \in Names
    BY DEF Names
  <2> QED
    BY <1>2, <2>1, EmitType
<1>4. s \in Translators
  BY <1>1 DEF Translators
<1>5. appendClose(r) = IF r.s.openKind = "none" THEN r ELSE [m EXCEPT !.s.openKind = "none"]
  BY DEF appendClose, d
<1> HIDE DEF m
<1>6. [m EXCEPT !.s.openKind = "none"] = [m EXCEPT !.s = s]
  BY <1>3 DEF Translations
<1> HIDE DEF s
<1> QED
  BY <1>3, <1>4, <1>5, <1>6, StateType

\* Opening a block.
LEMMA OpenType ==
  ASSUME NEW r \in Translations, NEW kind \in {"text", "tool"}
  PROVE  OpenBlock(r, kind) \in Translations /\ OpenBlock(r, kind).s.openKind = kind
<1> DEFINE c == appendClose(r)
           d == <<kind>> \o Index(c.s.nextIndex)
           m == Emit(c, "content_block_start", d)
           n == c.s.nextIndex + 1
           s == [c.s EXCEPT !.openIndex = c.s.nextIndex, !.openKind = kind, !.nextIndex = n]
<1>1. c \in Translations
  BY CloseType
<1> HIDE DEF c
<1>2. c.s \in Translators /\ c.s.nextIndex \in Nat /\ kind \in Kinds /\ kind \in Contents
  BY <1>1 DEF Translations, Translators, Kinds, Contents
<1>3. d \in Seq(Contents)
  BY <1>2, IndexType
<1> HIDE DEF d
<1>4. m \in Translations /\ m.s = c.s
  <2>1. "content_block_start" \in Names
    BY DEF Names
  <2> QED
    BY <1>1, <1>3, <2>1, EmitType
<1>5. s \in Translators /\ s.openKind = kind
  <2>1. n \in Nat
    BY <1>2
  <2> HIDE DEF n
  <2> QED
    BY <1>2, <2>1 DEF Translators
<1>6. OpenBlock(r, kind) = [m EXCEPT !.s.openIndex = c.s.nextIndex, !.s.openKind = kind, !.s.nextIndex = @ + 1]
  BY DEF OpenBlock, c, d
<1> HIDE DEF m
<1>7. [m EXCEPT !.s.openIndex = c.s.nextIndex, !.s.openKind = kind, !.s.nextIndex = @ + 1] = [m EXCEPT !.s = s]
  BY <1>2, <1>4 DEF Translations, Translators
<1> HIDE DEF s
<1>8. OpenBlock(r, kind) = [m EXCEPT !.s = s]
  BY <1>6, <1>7
<1> QED
  BY <1>4, <1>5, <1>8, StateType

\* A delta of the open block.
LEMMA DeltaType ==
  ASSUME NEW r \in Translations
  PROVE  Delta(r) \in Translations /\ Delta(r).s = r.s
<1>1. r.s.openKind \in Contents /\ r.s.openIndex \in Nat /\ "content_block_delta" \in Names
  BY DEF Translations, Translators, Contents, Names
<1>2. <<r.s.openKind>> \o Index(r.s.openIndex) \in Seq(Contents)
  BY <1>1, IndexType
<1> QED
  BY <1>1, <1>2, EmitType DEF Delta

\* One tool call.
LEMMA ToolCallType ==
  ASSUME NEW r \in Translations, NEW call
  PROVE  ToolCall(r, call) \in Translations
<1> DEFINE opened == IF call.announced THEN OpenBlock(r, "tool") ELSE r
<1>1. opened \in Translations
  BY OpenType
<1> HIDE DEF opened
<1>2. ToolCall(r, call) = IF opened.s.openKind = "tool" /\ call.args THEN Delta(opened) ELSE opened
  BY DEF ToolCall, opened
<1> QED
  BY <1>1, <1>2, DeltaType

\* The recursion over the calls of a chunk has a solution, and the content is
\* its last value.
LEMMA ContentUnfolds ==
  ASSUME NEW r \in Translations, NEW chunk, Len(chunk.calls) \in Nat
  PROVE  \E g \in [0..Len(chunk.calls) -> Translations] :
           /\ g[0] = (IF ~chunk.text THEN r
                      ELSE IF r.s.openKind = "text" THEN Delta(r) ELSE Delta(OpenBlock(r, "text")))
           /\ \A k \in 1..Len(chunk.calls) : g[k] = ToolCall(g[k - 1], chunk.calls[k])
           /\ appendContent(r, chunk) = g[Len(chunk.calls)]
<1> DEFINE texted == IF ~chunk.text THEN r
                     ELSE IF r.s.openKind = "text" THEN Delta(r) ELSE Delta(OpenBlock(r, "text"))
           N == Len(chunk.calls)
           calls == chunk.calls
           Upto(g, k) == /\ g \in [0..k -> Translations] /\ g[0] = texted
                         /\ \A n \in 1..k : g[n] = ToolCall(g[n - 1], calls[n])
           G == {k \in 0..N : \E g : Upto(g, k)}
           Rec(f) == [k \in 0..N |-> IF k = 0 THEN texted ELSE ToolCall(f[k - 1], calls[k])]
           after == CHOOSE f : f = Rec(f)
<1>0. texted \in Translations
  BY OpenType, DeltaType
<1>1. appendContent(r, chunk) = after[N]
  BY DEF appendContent
<1>2. N \in Nat
  OBVIOUS
<1> HIDE DEF texted, N, calls
<1>3. 0 \in G
  <2> DEFINE g == [i \in 0..0 |-> texted]
  <2>1. Upto(g, 0)
    BY <1>0
  <2>2. 0 \in 0..N
    BY <1>2
  <2> HIDE DEF Upto, g
  <2> QED
    BY <2>1, <2>2
<1>4. ASSUME NEW k \in 0..(N - 1), k \in G PROVE k + 1 \in G
  <2>1. PICK g : Upto(g, k)
    BY <1>4
  <2> DEFINE h == [i \in 0..(k + 1) |-> IF i = k + 1 THEN ToolCall(g[k], calls[k + 1]) ELSE g[i]]
  <2>2. k + 1 \in 1..N /\ k \in 0..k /\ k + 1 \in 0..N /\ g[k] \in Translations
    BY <1>2, <2>1
  <2>3. h \in [0..(k + 1) -> Translations]
    <3>1. ToolCall(g[k], calls[k + 1]) \in Translations
      BY <2>2, ToolCallType
    <3> QED
      BY <2>1, <3>1
  <2>4. h[0] = texted
    BY <2>1
  <2>5. ASSUME NEW n \in 1..(k + 1) PROVE h[n] = ToolCall(h[n - 1], calls[n])
    <3>1. CASE n = k + 1
      BY <3>1, <2>2
    <3>2. CASE n # k + 1
      <4>1. n \in 1..k /\ n - 1 \in 0..k /\ n \in 0..(k + 1) /\ n - 1 \in 0..(k + 1) /\ n - 1 # k + 1
        BY <3>2
      <4>2. h[n] = g[n] /\ h[n - 1] = g[n - 1]
        BY <3>2, <4>1
      <4> QED
        BY <2>1, <4>1, <4>2
    <3> QED
      BY <3>1, <3>2
  <2> HIDE DEF h
  <2>6. Upto(h, k + 1)
    BY <2>3, <2>4, <2>5
  <2> HIDE DEF Upto
  <2> QED
    BY <2>2, <2>6
<1>5. N \in G
  <2>1. \A i \in 0..N : i \in G
    <3> HIDE DEF G
    <3> QED
      BY <1>2, <1>3, <1>4, IntervalInduction
  <2>2. N \in 0..N
    BY <1>2
  <2> HIDE DEF G
  <2> QED
    BY <2>1, <2>2
<1>6. PICK g : Upto(g, N)
  BY <1>5
<1>7. g = Rec(g)
  <2>1. g = [n \in 0..N |-> g[n]]
    BY <1>6
  <2>2. \A n \in 0..N : g[n] = IF n = 0 THEN texted ELSE ToolCall(g[n - 1], calls[n])
    <3> TAKE n \in 0..N
    <3>1. n = 0 \/ n \in 1..N
      BY <1>2
    <3> QED
      BY <1>6, <3>1
  <2>3. \A n \in 0..N : g[n] = Rec(g)[n]
    BY <2>2
  <2>4. DOMAIN Rec(g) = 0..N
    OBVIOUS
  <2> HIDE DEF Rec
  <2>5. Rec(g) = [n \in 0..N |-> Rec(g)[n]]
    BY <2>4 DEF Rec
  <2> QED
    BY <2>1, <2>3, <2>5
<1>8. after = Rec(after)
  BY <1>7
<1> HIDE DEF after
<1>9. /\ DOMAIN after = 0..N /\ after[0] = texted
      /\ \A n \in 1..N : after[n] = ToolCall(after[n - 1], calls[n])
  <2>1. DOMAIN after = 0..N
    BY <1>8
  <2>2. \A n \in 0..N : after[n] = IF n = 0 THEN texted ELSE ToolCall(after[n - 1], calls[n])
    BY <1>8
  <2> QED
    BY <1>2, <2>1, <2>2
<1>10. \A n \in 0..N : after[n] \in Translations
  <2> DEFINE I == {n \in 0..N : after[n] \in Translations}
  <2>1. 0 \in I
    BY <1>0, <1>2, <1>9
  <2>2. ASSUME NEW n \in 0..(N - 1), n \in I PROVE n + 1 \in I
    <3>1. n + 1 \in 1..N /\ (n + 1) - 1 = n /\ n + 1 \in 0..N
      BY <1>2
    <3>2. after[n + 1] = ToolCall(after[n], calls[n + 1])
      BY <1>9, <3>1
    <3>3. ToolCall(after[n], calls[n + 1]) \in Translations
      BY <2>2, ToolCallType
    <3> QED
      BY <3>1, <3>2, <3>3
  <2>3. \A n \in 0..N : n \in I
    <3> HIDE DEF I
    <3> QED
      BY <1>2, <2>1, <2>2, IntervalInduction
  <2> QED
    BY <2>3
<1>11. after \in [0..N -> Translations]
  <2>1. after = [n \in 0..N |-> after[n]]
    BY <1>8
  <2> QED
    BY <1>10, <2>1
<1> HIDE DEF Rec, G, Upto
<1> QED
  BY <1>1, <1>9, <1>11 DEF texted, N, calls

\* The content of a chunk.
LEMMA ContentType ==
  ASSUME NEW r \in Translations, NEW chunk, Len(chunk.calls) \in Nat
  PROVE  appendContent(r, chunk) \in Translations
<1>1. Len(chunk.calls) \in 0..Len(chunk.calls)
  OBVIOUS
<1> QED
  BY <1>1, ContentUnfolds

\* The end of a message.
LEMMA TerminateType ==
  ASSUME NEW r \in Translations
  PROVE  appendTerminate(r) \in Translations
<1> DEFINE s == [r.s EXCEPT !.stopped = TRUE]
           t == [r EXCEPT !.s.stopped = TRUE]
           c == appendClose(t)
           m == Emit(c, "message_delta", <<"stop_reason">>)
<1>1. s \in Translators
  BY DEF Translations, Translators
<1>2. t = [r EXCEPT !.s = s]
  BY DEF Translations
<1> HIDE DEF t, s
<1>3. t \in Translations
  BY <1>1, <1>2, StateType
<1>4. c \in Translations
  BY <1>3, CloseType
<1>5. "stop_reason" \in Contents /\ "stop" \in Contents /\ "message_delta" \in Names /\ "message_stop" \in Names
      /\ <<"stop_reason">> \in Seq(Contents) /\ <<"stop">> \in Seq(Contents)
  <2>1. "stop_reason" \in Contents /\ "stop" \in Contents /\ "message_delta" \in Names /\ "message_stop" \in Names
    BY DEF Contents, Names
  <2> QED
    BY <2>1
<1> HIDE DEF c
<1>6. m \in Translations
  BY <1>4, <1>5, EmitType
<1> HIDE DEF m
<1>7. Emit(m, "message_stop", <<"stop">>) \in Translations
  BY <1>5, <1>6, EmitType
<1>8. appendTerminate(r) = IF r.s.stopped THEN r ELSE Emit(m, "message_stop", <<"stop">>)
  BY DEF appendTerminate, c, m, t
<1> QED
  BY <1>7, <1>8

\* What a payload owes, and what a clean end owes, are lines of the translator.
LEMMA FrameType ==
  ASSUME NEW s \in Translators, NEW payload
  PROVE  Frame(s, payload) \in Translations /\ Finish(s) \in Translations
<1> DEFINE nothing == [s |-> s, out |-> <<>>]
<1>1. nothing \in Translations
  <2>1. <<>> \in Seq(OwedLine)
    OBVIOUS
  <2> QED
    BY <2>1 DEF Translations
<1>2. appendTerminate(nothing) \in Translations
  BY <1>1, TerminateType
<1>3. Finish(s) \in Translations
  BY <1>1, <1>2 DEF Finish
<1>4. ASSUME payload \in DOMAIN ChunkOf
      PROVE  LET chunk   == ChunkOf[payload]
                 latched == [s EXCEPT !.usage = @ \/ chunk.usage,
                                      !.finish = @ \/ chunk.finish,
                                      !.started = TRUE]
                 begun   == IF s.started THEN [s |-> latched, out |-> <<>>]
                            ELSE Emit([s |-> latched, out |-> <<>>],
                                      "message_start", <<"message">>)
                 body    == appendContent(begun, chunk)
             IN  (IF chunk.error
                 THEN Emit([nothing EXCEPT !.s.failed = TRUE], "error", <<"api_error">>)
                 ELSE IF latched.finish /\ latched.usage THEN appendTerminate(body)
                 ELSE body) \in Translations
  <2> DEFINE chunk   == ChunkOf[payload]
             u == s.usage \/ chunk.usage
             f == s.finish \/ chunk.finish
             latched == [s EXCEPT !.usage = u, !.finish = f, !.started = TRUE]
             plain   == [s |-> latched, out |-> <<>>]
             begun   == IF s.started THEN plain ELSE Emit(plain, "message_start", <<"message">>)
             body    == appendContent(begun, chunk)
             failed  == [nothing EXCEPT !.s.failed = TRUE]
  <2>1. Len(chunk.calls) \in Nat
    <3>1. chunk.calls \in Seq([announced : BOOLEAN, args : BOOLEAN])
      BY <1>4, ChunkAssumption
    <3> QED
      BY <3>1
  <2>2. latched \in Translators
    <3>1. u \in BOOLEAN /\ f \in BOOLEAN
      OBVIOUS
    <3> HIDE DEF u, f
    <3> QED
      BY <3>1 DEF Translators
  <2>3. "message_start" \in Names /\ "error" \in Names /\ <<"message">> \in Seq(Contents) /\ <<"api_error">> \in Seq(Contents)
    <3>1. "message" \in Contents /\ "api_error" \in Contents
      BY DEF Contents
    <3>2. "message_start" \in Names /\ "error" \in Names
      BY DEF Names
    <3> QED
      BY <3>1, <3>2
  <2>4. failed \in Translations
    <3>1. [s EXCEPT !.failed = TRUE] \in Translators
      BY DEF Translators
    <3> DEFINE z == [s EXCEPT !.failed = TRUE]
    <3>2. nothing.s = s
      OBVIOUS
    <3> HIDE DEF nothing
    <3>3. failed = [nothing EXCEPT !.s = z]
      BY <1>1, <3>2 DEF Translations
    <3> HIDE DEF failed, z
    <3> QED
      BY <1>1, <3>1, <3>3, StateType DEF z
  <2> HIDE DEF chunk, failed
  <2>5. Emit(failed, "error", <<"api_error">>) \in Translations
    BY <2>3, <2>4, EmitType
  <2>6. plain \in Translations
    <3>1. <<>> \in Seq(OwedLine)
      OBVIOUS
    <3> HIDE DEF latched
    <3> QED
      BY <2>2, <3>1 DEF Translations
  <2> HIDE DEF plain
  <2>7. begun \in Translations
    BY <2>3, <2>6, EmitType
  <2> HIDE DEF begun
  <2>8. body \in Translations
    BY <2>1, <2>7, ContentType
  <2> HIDE DEF body
  <2>9. appendTerminate(body) \in Translations
    BY <2>8, TerminateType
  <2>10. (IF chunk.error THEN Emit(failed, "error", <<"api_error">>)
          ELSE IF latched.finish /\ latched.usage THEN appendTerminate(body)
          ELSE body) \in Translations
    BY <2>5, <2>8, <2>9
  <2> QED
    BY <2>10 DEF chunk, failed, begun, body, plain
<1>5. Frame(s, payload) \in Translations
  BY <1>1, <1>2, <1>4 DEF Frame
<1> QED
  BY <1>3, <1>5

-----------------------------------------------------------------------------
(* What the client receives: one write or one ping at a time.              *)

\* No token of b is the heartbeat's.
Foreign(b) == \A i \in 1..Len(b) : b[i] # ":ping"

\* No comment of the heartbeat follows a terminal marker.
PingsBefore(o) == \A j \in 1..Len(o) : o[j] = ":ping" => ~MarkerLine(SubSeq(o, 1, j - 1))

\* What is appended is not part of a shorter prefix.
LEMMA PrefixStays ==
  ASSUME NEW s \in Seq(Words), NEW u \in Seq(Words), NEW k \in 0..Len(s)
  PROVE  /\ SubSeq(s \o u, 1, k) = SubSeq(s, 1, k) /\ SubSeq(s, 1, Len(s)) = s
         /\ s \o u \in Seq(Words) /\ Len(s \o u) = Len(s) + Len(u)
         /\ \A i \in 1..Len(s) : (s \o u)[i] = s[i]
         /\ \A i \in 1..Len(u) : (s \o u)[Len(s) + i] = u[i]
<1> DEFINE x == s \o u
<1>1. Len(s) \in Nat /\ Len(u) \in Nat
  OBVIOUS
<1>2. /\ x \in Seq(Words) /\ Len(x) = Len(s) + Len(u)
      /\ \A i \in 1..Len(s) : x[i] = s[i]
      /\ \A i \in 1..Len(u) : x[Len(s) + i] = u[i]
  <2>1. /\ x \in Seq(Words) /\ Len(x) = Len(s) + Len(u)
        /\ \A i \in 1..(Len(s) + Len(u)) : x[i] = IF i <= Len(s) THEN s[i] ELSE u[i - Len(s)]
    BY ConcatProperties
  <2> HIDE DEF x
  <2>2. \A i \in 1..Len(s) : x[i] = s[i]
    BY <1>1, <2>1
  <2>3. ASSUME NEW i \in 1..Len(u) PROVE x[Len(s) + i] = u[i]
    <3>1. Len(s) + i \in 1..(Len(s) + Len(u)) /\ ~(Len(s) + i <= Len(s)) /\ (Len(s) + i) - Len(s) = i
      BY <1>1
    <3> QED
      BY <2>1, <3>1
  <2> QED
    BY <2>1, <2>2, <2>3
<1> HIDE DEF x
<1>3. SubSeq(x, 1, k) = SubSeq(s, 1, k)
  <2> DEFINE a == SubSeq(x, 1, k)
             b == SubSeq(s, 1, k)
  <2>1. k \in Nat /\ k <= Len(s) /\ k <= Len(x)
    BY <1>1, <1>2
  <2>2. a \in Seq(Words) /\ Len(a) = k /\ \A i \in 1..k : a[i] = x[i]
    <3>1. \A i \in 1..k : x[i] \in Words
      BY <1>2, <2>1
    <3> QED
      BY <2>1, <3>1, SubSeqProperties
  <2>3. b \in Seq(Words) /\ Len(b) = k /\ \A i \in 1..k : b[i] = s[i]
    <3>1. \A i \in 1..k : s[i] \in Words
      BY <2>1
    <3> QED
      BY <2>1, <3>1, SubSeqProperties
  <2> HIDE DEF a, b
  <2>4. \A i \in 1..k : a[i] = b[i]
    <3>1. \A i \in 1..k : i \in 1..Len(s)
      BY <1>1, <2>1
    <3> QED
      BY <1>2, <2>2, <2>3, <3>1
  <2>5. a = b
    BY <2>2, <2>3, <2>4, SeqEqual
  <2> QED
    BY <2>5 DEF a, b
<1>4. SubSeq(s, 1, Len(s)) = s
  OBVIOUS
<1> QED
  BY <1>2, <1>3, <1>4 DEF x

\* Tokens of others do not put a comment anywhere.
LEMMA OthersKeepPings ==
  ASSUME NEW o \in Seq(Words), PingsBefore(o), NEW b \in Seq(Words), Foreign(b)
  PROVE  PingsBefore(o \o b)
<1> DEFINE x == o \o b
<1>0. Len(o) \in Nat /\ Len(b) \in Nat
  OBVIOUS
<1>1. /\ Len(x) = Len(o) + Len(b)
      /\ \A i \in 1..Len(o) : x[i] = o[i]
      /\ \A i \in 1..Len(b) : x[Len(o) + i] = b[i]
  <2>1. 0 \in 0..Len(o)
    BY <1>0
  <2> QED
    BY <2>1, PrefixStays
<1>2. \A k \in 0..Len(o) : SubSeq(x, 1, k) = SubSeq(o, 1, k)
  BY PrefixStays
<1> HIDE DEF x
<1>3. ASSUME NEW j \in 1..Len(x), x[j] = ":ping" PROVE ~MarkerLine(SubSeq(x, 1, j - 1))
  <2>1. CASE j \in 1..Len(o)
    <3>1. j - 1 \in 0..Len(o) /\ o[j] = ":ping"
      BY <1>0, <1>1, <1>3, <2>1
    <3>2. SubSeq(x, 1, j - 1) = SubSeq(o, 1, j - 1)
      BY <1>2, <3>1
    <3> QED
      BY <2>1, <3>1, <3>2 DEF PingsBefore
  <2>2. CASE j \notin 1..Len(o)
    <3>1. j - Len(o) \in 1..Len(b) /\ Len(o) + (j - Len(o)) = j
      BY <1>0, <1>1, <2>2
    <3>2. x[j] = b[j - Len(o)]
      BY <1>1, <3>1
    <3> QED
      BY <1>3, <3>1, <3>2 DEF Foreign
  <2> QED
    BY <2>1, <2>2
<1> QED
  BY <1>3 DEF PingsBefore, x

\* A ping between lines.
LEMMA PingGrows ==
  ASSUME NEW o \in Seq(Words), AtLineStart(o)
  PROVE  /\ o \o Ping = (o \o <<":ping", LF>>) \o <<LF>>
         /\ o \o Ping \in Seq(Words) /\ AtLineStart(o \o Ping)
         /\ MarkerLine(o \o Ping) <=> MarkerLine(o)
         /\ PingsBefore(o) /\ ~MarkerLine(o) => PingsBefore(o \o Ping)
<1> DEFINE a == <<":ping", LF>>
           b == <<LF>>
           x == o \o Ping
           y == (o \o a) \o b
<1>0. Len(o) \in Nat /\ ":ping" \in Words /\ LF \in Words /\ LF \in Terminators /\ ":ping" \notin Terminators /\ LF # ":ping"
  <2>1. ":ping" \in Words /\ LF \in Words
    BY DEF Words
  <2>2. LF \in Terminators /\ ":ping" \notin Terminators /\ LF # ":ping"
    BY DEF Terminators, LF, CR
  <2>3. Len(o) \in Nat
    OBVIOUS
  <2> QED
    BY <2>1, <2>2, <2>3
<1>1. Ping \in Seq(Words) /\ Len(Ping) = 3 /\ Ping[1] = ":ping" /\ Ping[2] = LF /\ Ping[3] = LF
  BY <1>0 DEF Ping
<1>2. /\ a \in Seq(Words) /\ Len(a) = 2 /\ a[1] = ":ping" /\ a[2] = LF
      /\ b \in Seq(Words) /\ Len(b) = 1 /\ b[1] = LF
  BY <1>0
<1>3. IsPiece(a) /\ IsPiece(b)
  <2>1. a # <<>> /\ b # <<>>
    OBVIOUS
  <2> HIDE DEF a, b
  <2>2. \A i \in 1..(Len(a) - 1) : i = 1
    BY <1>2
  <2>3. \A i \in 1..(Len(a) - 1) : a[i] \notin Terminators
    BY <1>0, <1>2, <2>2
  <2>4. \A i \in 1..(Len(b) - 1) : FALSE
    BY <1>2
  <2> QED
    BY <1>2, <2>1, <2>3, <2>4 DEF IsPiece
<1>4. ~isTerminalSSELine(a) /\ ~isTerminalSSELine(b)
  <2>1. IsLine(a) /\ IsLine(b) /\ Body(a)[1] = ":ping" /\ Body(b) = <<>>
    <3>1. IsLine(a) /\ IsLine(b)
      BY <1>0, <1>2, <1>3 DEF IsPiece, IsLine
    <3> HIDE DEF a, b
    <3>2. Body(a)[1] = a[1]
      <4>1. 1 \in 1..(Len(a) - 1)
        BY <1>2
      <4> QED
        BY <3>1, <4>1, LineParts
    <3>3. Body(b) = <<>>
      BY <1>2, <3>1, LineParts
    <3> QED
      BY <1>2, <3>1, <3>2, <3>3
  <2> HIDE DEF a, b
  <2>2. splitSSELineTerminator(a) = Body(a) /\ splitSSELineTerminator(b) = Body(b)
    BY <2>1, LineReads
  <2> QED
    BY <2>1, <2>2 DEF isTerminalSSELine
<1> HIDE DEF a, b
<1>5. /\ o \o a \in Seq(Words) /\ Len(o \o a) = Len(o) + 2
      /\ \A i \in 1..Len(o) : (o \o a)[i] = o[i]
      /\ (o \o a)[Len(o) + 1] = ":ping" /\ (o \o a)[Len(o) + 2] = LF
  <2>1. /\ o \o a \in Seq(Words) /\ Len(o \o a) = Len(o) + Len(a)
        /\ \A i \in 1..Len(o) : (o \o a)[i] = o[i]
        /\ \A i \in 1..Len(a) : (o \o a)[Len(o) + i] = a[i]
    <3>1. 0 \in 0..Len(o)
      BY <1>0
    <3> QED
      BY <1>2, <3>1, PrefixStays
  <2>2. 1 \in 1..Len(a) /\ 2 \in 1..Len(a)
    BY <1>2
  <2> QED
    BY <1>2, <2>1, <2>2
<1>6. AtLineStart(o \o a)
  BY <1>0, <1>5 DEF AtLineStart
<1>7. /\ y \in Seq(Words) /\ Len(y) = Len(o) + 3
      /\ \A i \in 1..(Len(o) + 2) : y[i] = (o \o a)[i]
      /\ y[Len(o) + 3] = LF
  <2> DEFINE z == o \o a
  <2> HIDE DEF z
  <2>1. z \in Seq(Words) /\ Len(z) = Len(o) + 2 /\ 0 \in 0..Len(z)
    BY <1>0, <1>5 DEF z
  <2>2. /\ z \o b \in Seq(Words) /\ Len(z \o b) = Len(z) + Len(b)
        /\ \A i \in 1..Len(z) : (z \o b)[i] = z[i]
        /\ \A i \in 1..Len(b) : (z \o b)[Len(z) + i] = b[i]
    BY <1>2, <2>1, PrefixStays
  <2>3. Len(z) + 1 = Len(o) + 3 /\ 1 \in 1..Len(b)
    BY <1>0, <1>2, <2>1
  <2> QED
    BY <1>2, <2>1, <2>2, <2>3 DEF z
<1>8. /\ x \in Seq(Words) /\ Len(x) = Len(o) + 3
      /\ \A k \in 0..Len(o) : SubSeq(x, 1, k) = SubSeq(o, 1, k)
      /\ \A i \in 1..Len(o) : x[i] = o[i]
      /\ x[Len(o) + 1] = ":ping" /\ x[Len(o) + 2] = LF /\ x[Len(o) + 3] = LF
  <2>1. /\ x \in Seq(Words) /\ Len(x) = Len(o) + Len(Ping)
        /\ \A k \in 0..Len(o) : SubSeq(x, 1, k) = SubSeq(o, 1, k)
        /\ \A i \in 1..Len(o) : x[i] = o[i]
        /\ \A i \in 1..Len(Ping) : x[Len(o) + i] = Ping[i]
    <3>1. 0 \in 0..Len(o)
      BY <1>0
    <3> QED
      BY <1>1, <3>1, PrefixStays
  <2>2. 1 \in 1..Len(Ping) /\ 2 \in 1..Len(Ping) /\ 3 \in 1..Len(Ping)
    BY <1>1
  <2> QED
    BY <1>1, <2>1, <2>2
<1> HIDE DEF x
<1>9. x = y
  <2> HIDE DEF y
  <2>1. \A i \in 1..(Len(o) + 3) : i \in 1..Len(o) \/ i = Len(o) + 1 \/ i = Len(o) + 2 \/ i = Len(o) + 3
    BY <1>0
  <2>2. \A i \in 1..Len(o) : i \in 1..(Len(o) + 2)
    BY <1>0
  <2>3. Len(o) + 1 \in 1..(Len(o) + 2) /\ Len(o) + 2 \in 1..(Len(o) + 2)
    BY <1>0
  <2>4. \A i \in 1..(Len(o) + 3) : x[i] = y[i]
    <3> TAKE i \in 1..(Len(o) + 3)
    <3> QED
      BY <1>5, <1>7, <1>8, <2>1, <2>2, <2>3
  <2> QED
    BY <1>7, <1>8, <2>4, SeqEqual
<1>10. MarkerLine(y) <=> MarkerLine(o)
  <2>1. MarkerLine(o \o a) <=> MarkerLine(o)
    BY <1>3, <1>4, MarkerGrows
  <2> QED
    BY <1>3, <1>4, <1>5, <1>6, <2>1, MarkerGrows
<1>11. AtLineStart(x)
  BY <1>0, <1>8 DEF AtLineStart
<1>12. ASSUME PingsBefore(o), ~MarkerLine(o) PROVE PingsBefore(x)
  <2>1. ASSUME NEW j \in 1..Len(x), x[j] = ":ping" PROVE ~MarkerLine(SubSeq(x, 1, j - 1))
    <3>1. CASE j \in 1..Len(o)
      <4>1. j - 1 \in 0..Len(o) /\ o[j] = ":ping"
        BY <1>0, <1>8, <2>1, <3>1
      <4>2. SubSeq(x, 1, j - 1) = SubSeq(o, 1, j - 1)
        BY <1>8, <4>1
      <4> QED
        BY <1>12, <3>1, <4>1, <4>2 DEF PingsBefore
    <3>2. CASE j = Len(o) + 1
      <4>1. j - 1 = Len(o) /\ Len(o) \in 0..Len(o) /\ SubSeq(o, 1, Len(o)) = o
        BY <1>0, <3>2
      <4>2. SubSeq(x, 1, j - 1) = o
        BY <1>8, <4>1
      <4> QED
        BY <1>12, <4>2
    <3>3. j \in 1..Len(o) \/ j = Len(o) + 1 \/ j = Len(o) + 2 \/ j = Len(o) + 3
      BY <1>0, <1>8
    <3> QED
      BY <1>0, <1>8, <2>1, <3>1, <3>2, <3>3
  <2> QED
    BY <2>1 DEF PingsBefore
<1>13. o \o Ping = (o \o <<":ping", LF>>) \o <<LF>>
  BY <1>9 DEF x, a, b
<1> QED
  BY <1>8, <1>9, <1>10, <1>11, <1>12, <1>13 DEF x

\* Only a lone LF looks like a blank line to the heartbeat.
LEMMA BlankOnly ==
  ASSUME NEW c, IsPiece(c), endsWithBlankLine(c)
  PROVE  c = <<LF>>
<1> DEFINE IsLast(i) == c[i] = LF /\ \A k \in (i + 1)..Len(c) : c[k] # LF
           i == CHOOSE i \in 1..Len(c) : IsLast(i)
           before == {k \in 1..(i - 1) : c[k] = LF}
           j == IF before = {} THEN 0 ELSE CHOOSE k \in before : \A m \in before : m <= k
<1>1. c \in Seq(Words) /\ Len(c) \in Nat /\ Len(c) >= 1 /\ \A k \in 1..(Len(c) - 1) : c[k] \notin Terminators
  BY DEF IsPiece
<1>2. LF \in Terminators /\ CR \in Terminators
  BY DEF Terminators
<1>3. PICK l \in 1..Len(c) : c[l] = LF
  BY DEF endsWithBlankLine
<1>4. l = Len(c)
  BY <1>1, <1>2, <1>3
<1>5. IsLast(l)
  BY <1>1, <1>3, <1>4
<1>6. i \in 1..Len(c) /\ c[i] = LF
  BY <1>5
<1>7. i = Len(c)
  BY <1>1, <1>2, <1>6
<1>8. SubSeq(c, j + 1, i - 1) \in {<<>>, <<CR>>}
  BY DEF endsWithBlankLine
<1> HIDE DEF i
<1>9. before = {}
  BY <1>1, <1>2, <1>7
<1>10. j = 0
  BY <1>9
<1> HIDE DEF j
<1>11. SubSeq(c, 1, Len(c) - 1) \in {<<>>, <<CR>>}
  <2>1. j + 1 = 1
    BY <1>10
  <2> QED
    BY <1>7, <1>8, <2>1
<1>12. Len(Body(c)) = Len(c) - 1 /\ \A k \in 1..(Len(c) - 1) : Body(c)[k] = c[k]
  <2>1. IsLine(c)
    BY <1>1, <1>2, <1>3, <1>4 DEF IsPiece, IsLine
  <2> QED
    BY <2>1, LineParts
<1>13. Body(c) = <<>>
  <2>1. CASE Body(c) = <<CR>>
    <3>1. Len(c) - 1 = 1 /\ Body(c)[1] = CR
      BY <1>12, <2>1
    <3>2. 1 \in 1..(Len(c) - 1)
      BY <3>1
    <3>3. c[1] = CR
      BY <1>12, <3>1, <3>2
    <3> QED
      BY <1>1, <1>2, <3>2, <3>3
  <2> QED
    BY <1>11, <2>1 DEF Body
<1>14. Len(c) = 1
  BY <1>1, <1>12, <1>13
<1> QED
  BY <1>1, <1>3, <1>4, <1>14

\* The heartbeat's record.
Heartbeats == [boundary : BOOLEAN, finished : BOOLEAN, live : BOOLEAN, pings : Nat]

OutTypeOK ==
  /\ out \in Seq(Words) /\ hb \in Heartbeats /\ gone \in BOOLEAN
  /\ tr \in Translators /\ frames \in Seq(OwedLine)

\* While the client is there, the heartbeat knows when a marker went out, sees a
\* boundary only between lines, and a whole number of lines was written.
OutInv ==
  /\ OutTypeOK
  /\ PingsBefore(out)
  /\ ~gone => /\ MarkerLine(out) => hb.finished
              /\ hb.boundary => AtLineStart(out)
              /\ input.surface = "messages" \/ Whole => AtLineStart(out)

\* A change of the heartbeat's record keeps its type.
LEMMA HeartbeatWritten ==
  ASSUME NEW h \in Heartbeats, NEW x \in BOOLEAN, NEW y \in BOOLEAN
  PROVE  LET g == [h EXCEPT !.boundary = x, !.finished = y]
         IN  g \in Heartbeats /\ g.boundary = x /\ g.finished = y
BY DEF Heartbeats

\* What a write does: all of the piece while the client is there, a piece
\* without an end once it is not.
LEMMA WriteFacts ==
  ASSUME OutTypeOK, NEW b, IsPiece(b), Foreign(b), NEW n \in Accepted(b), Write(n, b)
  PROVE  /\ out' \in Seq(Words) /\ hb' \in Heartbeats
         /\ ~gone => /\ n = Len(b) /\ out' = out \o b
                     /\ hb'.boundary => endsWithBlankLine(b)
                     /\ hb'.finished <=> hb.finished \/ isTerminalSSELine(b)
         /\ gone => /\ n < Len(b)
                    /\ \E w \in Seq(Words) : /\ out' = out \o w /\ Foreign(w)
                                             /\ \A i \in 1..Len(w) : w[i] \notin Terminators
<1> DEFINE w == SubSeq(b, 1, n)
           x == endsWithBlankLine(w)
           y == hb.finished \/ isTerminalSSELine(w)
<1>1. b \in Seq(Words) /\ Len(b) \in Nat /\ Len(b) >= 1 /\ \A i \in 1..(Len(b) - 1) : b[i] \notin Terminators
  BY DEF IsPiece
<1>2. out \in Seq(Words) /\ hb \in Heartbeats /\ gone \in BOOLEAN
  BY DEF OutTypeOK
<1>3. n \in 0..Len(b) /\ (gone => n \in 0..(Len(b) - 1)) /\ (~gone => n = Len(b))
  BY <1>1 DEF Accepted
<1>4. w \in Seq(Words) /\ Len(w) = n /\ \A i \in 1..n : w[i] = b[i]
  BY <1>1, <1>3, PrefixSplits
<1>5. x \in BOOLEAN /\ y \in BOOLEAN
  <2>1. x \in BOOLEAN
    BY DEF endsWithBlankLine
  <2>2. y \in BOOLEAN
    OBVIOUS
  <2> QED
    BY <2>1, <2>2
<1>6. ~gone => w = b
  <2> SUFFICES ASSUME ~gone PROVE w = b
    OBVIOUS
  <2>1. Len(w) = Len(b) /\ \A i \in 1..Len(b) : w[i] = b[i]
    BY <1>3, <1>4
  <2> HIDE DEF w
  <2> QED
    BY <1>1, <1>4, <2>1, SeqEqual
<1>7. out' = out \o w
  BY DEF Write
<1>8. hb' = IF n = 0 THEN hb ELSE [hb EXCEPT !.boundary = x, !.finished = y]
  <2>1. hb' = IF n = 0 THEN hb ELSE [hb EXCEPT !.boundary = x, !.finished = @ \/ isTerminalSSELine(w)]
    BY DEF Write
  <2> QED
    BY <1>2, <2>1 DEF Heartbeats
<1> HIDE DEF w, x, y
<1>9. out' \in Seq(Words)
  BY <1>2, <1>4, <1>7
<1>10. hb' \in Heartbeats /\ (n # 0 => hb'.boundary = x /\ hb'.finished = y)
  <2>1. LET g == [hb EXCEPT !.boundary = x, !.finished = y]
        IN  g \in Heartbeats /\ g.boundary = x /\ g.finished = y
    BY <1>2, <1>5, HeartbeatWritten
  <2> QED
    BY <1>2, <1>8, <2>1
<1>11. ASSUME ~gone
       PROVE  /\ n = Len(b) /\ out' = out \o b
              /\ hb'.boundary => endsWithBlankLine(b)
              /\ hb'.finished <=> hb.finished \/ isTerminalSSELine(b)
  <2>1. n = Len(b) /\ w = b /\ n # 0
    BY <1>1, <1>3, <1>6, <1>11
  <2>2. (x <=> endsWithBlankLine(b)) /\ (y <=> hb.finished \/ isTerminalSSELine(b))
    BY <2>1 DEF x, y
  <2> QED
    BY <1>7, <1>10, <2>1, <2>2
<1>12. ASSUME gone
       PROVE  n < Len(b) /\ Foreign(w) /\ \A i \in 1..Len(w) : w[i] \notin Terminators
  <2>1. n < Len(b) /\ \A i \in 1..n : i \in 1..(Len(b) - 1) /\ i \in 1..Len(b)
    BY <1>1, <1>3, <1>12
  <2> QED
    BY <1>1, <1>4, <2>1 DEF Foreign
<1> QED
  BY <1>4, <1>7, <1>9, <1>10, <1>11, <1>12

\* A write of a piece keeps what is known of the client's bytes.
LEMMA WriteKeepsOut ==
  ASSUME OutTypeOK, PingsBefore(out), ~gone => AtLineStart(out) /\ (MarkerLine(out) => hb.finished),
         NEW b, IsPiece(b), Foreign(b), NEW n \in Accepted(b), Write(n, b)
  PROVE  /\ out' \in Seq(Words) /\ hb' \in Heartbeats /\ PingsBefore(out')
         /\ ~gone => /\ MarkerLine(out') => hb'.finished
                     /\ hb'.boundary => AtLineStart(out')
                     /\ b[Len(b)] \in Terminators => AtLineStart(out')
<1>1. /\ out' \in Seq(Words) /\ hb' \in Heartbeats
      /\ ~gone => /\ n = Len(b) /\ out' = out \o b
                  /\ hb'.boundary => endsWithBlankLine(b)
                  /\ hb'.finished <=> hb.finished \/ isTerminalSSELine(b)
      /\ gone => /\ n < Len(b)
                 /\ \E w \in Seq(Words) : /\ out' = out \o w /\ Foreign(w)
                                          /\ \A i \in 1..Len(w) : w[i] \notin Terminators
  BY WriteFacts
<1>2. out \in Seq(Words) /\ b \in Seq(Words) /\ Len(b) \in Nat /\ Len(b) >= 1
  BY DEF OutTypeOK, IsPiece
<1>3. PingsBefore(out')
  <2>1. CASE gone
    <3>1. PICK w \in Seq(Words) : out' = out \o w /\ Foreign(w)
      BY <1>1, <2>1
    <3>2. PingsBefore(out \o w)
      BY <1>2, <3>1, OthersKeepPings
    <3> QED
      BY <3>1, <3>2
  <2>2. CASE ~gone
    <3>1. PingsBefore(out \o b)
      BY <1>2, OthersKeepPings
    <3> QED
      BY <1>1, <2>2, <3>1
  <2> QED
    BY <2>1, <2>2
<1>4. ASSUME ~gone
      PROVE  /\ MarkerLine(out') => hb'.finished
             /\ hb'.boundary => AtLineStart(out')
             /\ b[Len(b)] \in Terminators => AtLineStart(out')
  <2>1. MarkerLine(out \o b) <=> MarkerLine(out) \/ isTerminalSSELine(b)
    BY <1>2, <1>4, MarkerGrows
  <2>2. MarkerLine(out') => hb'.finished
    BY <1>1, <1>4, <2>1
  <2>3. b[Len(b)] \in Terminators => AtLineStart(out')
    <3>1. Len(out \o b) = Len(out) + Len(b) /\ (out \o b)[Len(out) + Len(b)] = b[Len(b)]
      <4>1. 0 \in 0..Len(out) /\ Len(b) \in 1..Len(b)
        BY <1>2
      <4> QED
        BY <1>2, <4>1, PrefixStays
    <3> QED
      BY <1>1, <1>4, <3>1 DEF AtLineStart
  <2>4. hb'.boundary => b[Len(b)] \in Terminators
    <3>1. endsWithBlankLine(b) => b = <<LF>>
      BY BlankOnly
    <3>2. LF \in Terminators
      BY DEF Terminators
    <3>3. b = <<LF>> => b[Len(b)] = LF
      OBVIOUS
    <3>4. hb'.boundary => endsWithBlankLine(b)
      BY <1>1, <1>4
    <3> HIDE DEF Terminators
    <3> QED
      BY <3>1, <3>2, <3>3, <3>4
  <2> QED
    BY <2>2, <2>3, <2>4
<1> QED
  BY <1>1, <1>3, <1>4

\* What a step that takes a line out of the buffer does: it keeps what has been
\* dealt with, or deals with the next piece of the wire, which completes a CRLF
\* only when the wire holds one.
LEMMA TakenLine ==
  ASSUME FramingInv, ReadLine \/ ReadEnd
  PROVE  /\ UNCHANGED <<input, got, gone, stage>> /\ result = "run" /\ frames = <<>> /\ wire' = wire
         /\ \/ /\ UNCHANGED <<frame, tr, frames, stats, obs, out, hb>> /\ consumed' = consumed
               /\ result' \in {"run", "line_cap"}
            \/ \E line \in Seq(Words) :
                 /\ IsPiece(line) /\ Foreign(line) /\ consumed' = consumed \o line
                 /\ Whole /\ Agrees /\ TakeLine(line, "run")
                 /\ line[Len(line)] \notin Terminators => ~Whole'
                 /\ (line = <<LF>> /\ consumed # <<>> /\ consumed[Len(consumed)] = CR) => HasCRLF
<1>1. UNCHANGED <<input, got, gone, stage>> /\ result = "run" /\ frames = <<>> /\ wire' = wire
  BY DEF ReadLine, ReadEnd, Running, wire
<1>2. BufferInv /\ (Whole => Agrees)
  BY <1>1 DEF FramingInv
<1>3. /\ wire \in Seq(Words) /\ Len(wire) \in Nat /\ used - acc \in 0..Len(wire) /\ used \in 0..Len(wire)
      /\ consumed \in Seq(Words) /\ Len(consumed) = used - acc
      /\ \A i \in 1..(used - acc) : consumed[i] = wire[i]
  BY <1>2, BufferFacts
<1>4. used \in Nat /\ acc \in Nat /\ got \in Nat /\ acc <= used /\ used <= got /\ got <= Len(wire)
  BY <1>2 DEF BufferInv
<1>5. \A k \in 1..Len(wire) : wire[k] # ":ping"
  <2>1. DOMAIN wire = 1..Len(wire) /\ input \in Inputs
    BY <1>2, <1>3 DEF BufferInv
  <2> QED
    BY <2>1, RelayAssumption DEF wire
\* A piece that reaches to the m-th token of the wire.
<1>6. ASSUME NEW m \in 0..Len(wire), used - acc < m, Whole,
             \A i \in (used - acc + 1)..(m - 1) : wire[i] \notin Terminators,
             used' = m, acc' = 0,
             TakeLine(SubSeq(wire, used - acc + 1, m), "run")
      PROVE  \E line \in Seq(Words) :
                 /\ IsPiece(line) /\ Foreign(line) /\ consumed' = consumed \o line
                 /\ Whole /\ Agrees /\ TakeLine(line, "run")
                 /\ line[Len(line)] \notin Terminators => ~Whole'
                 /\ (line = <<LF>> /\ consumed # <<>> /\ consumed[Len(consumed)] = CR) => HasCRLF
  <2> DEFINE line == SubSeq(wire, used - acc + 1, m)
             k == used - acc
  <2>1. /\ IsPiece(line) /\ Len(line) = m - k /\ line[Len(line)] = wire[m]
        /\ \A i \in 1..Len(line) : line[i] = wire[k + i]
        /\ SubSeq(wire, 1, m) = consumed \o line
    BY <1>2, <1>6, PieceOfWire
  <2>2. TakeLine(line, "run")
    BY <1>6
  <2>3. k \in Nat /\ m \in Nat /\ k < m /\ m <= Len(wire) /\ Len(consumed) = k /\ used' - acc' = m
    BY <1>3, <1>6
  <2> HIDE DEF line, k
  <2>4. consumed' = SubSeq(wire, 1, m)
    BY <1>1, <2>3 DEF consumed
  <2>5. \A i \in 1..Len(line) : k + i \in 1..Len(wire)
    BY <1>3, <2>1, <2>3
  <2>6. Foreign(line)
    BY <1>5, <2>1, <2>5 DEF Foreign
  <2>7. ASSUME line[Len(line)] \notin Terminators PROVE ~Whole'
    <3> DEFINE x == SubSeq(wire, 1, m)
    <3>1. Len(x) = m /\ x[m] = wire[m]
      <4>1. m \in 1..m /\ m \in 0..Len(wire) /\ m \in 0..m
        BY <2>3
      <4> QED
        BY <1>3, <4>1, PrefixSplits
    <3> HIDE DEF x
    <3>2. x # <<>>
      BY <2>3, <3>1
    <3>3. consumed' = x
      BY <2>4 DEF x
    <3>4. ~AtLineStart(x)
      BY <2>1, <2>7, <3>1, <3>2 DEF AtLineStart
    <3>5. ~AtLineStart(consumed')
      BY <3>3, <3>4
    <3> QED
      BY <3>5 DEF Whole
  <2>8. ASSUME line = <<LF>>, consumed # <<>>, consumed[Len(consumed)] = CR PROVE HasCRLF
    <3>1. k >= 1
      BY <1>3, <2>3, <2>8
    <3>2. k \in 1..k /\ k \in 1..(Len(wire) - 1)
      BY <1>3, <2>3, <3>1
    <3>3. wire[k] = CR
      BY <1>3, <2>3, <2>8, <3>2 DEF k
    <3>4. wire[k + 1] = LF
      <4>1. Len(line) = 1 /\ line[1] = LF /\ 1 \in 1..Len(line)
        BY <2>8
      <4> QED
        BY <2>1, <4>1
    <3> QED
      BY <3>2, <3>3, <3>4 DEF HasCRLF
  <2>9. line \in Seq(Words)
    BY <2>1 DEF IsPiece
  <2>10. Agrees
    BY <1>2, <1>6
  <2> QED
    BY <1>6, <2>1, <2>2, <2>4, <2>6, <2>7, <2>8, <2>9, <2>10
<1>7. CASE ReadEnd
  <2>1. /\ used = got /\ got = Len(wire) /\ acc > 0 /\ acc' = 0 /\ used' = used
        /\ TakeLine(SubSeq(wire, used - acc + 1, used), "run")
    BY <1>7 DEF ReadEnd
  <2>2. Whole
    BY <2>1 DEF FramingInv
  <2>3. used - acc < used
    BY <1>4, <2>1
  <2>4. \A i \in (used - acc + 1)..(used - 1) : wire[i] \notin Terminators
    BY <1>2, <1>4 DEF BufferInv
  <2> QED
    BY <1>1, <1>3, <1>6, <2>1, <2>2, <2>3, <2>4
<1>8. CASE ReadLine
  <2> DEFINE c == readToLineEnd(buffered)
             n == IF c = 0 THEN Len(buffered) ELSE c
  <2>1. /\ used < got
        /\ IF acc + n > MaxLineBytes
           THEN /\ result' = "line_cap"
                /\ UNCHANGED <<used, acc, frame, tr, frames, stats, obs, out, hb>>
           ELSE /\ used' = used + n
                /\ IF c = 0
                   THEN /\ acc' = acc + n
                        /\ UNCHANGED <<frame, tr, frames, result, stats, obs, out, hb>>
                   ELSE /\ acc' = 0
                        /\ TakeLine(SubSeq(wire, used - acc + 1, used + n), "run")
    BY <1>8 DEF ReadLine
  <2>2. /\ Len(buffered) = got - used
        /\ c # 0 => /\ c \in 1..(got - used) /\ IsLine(SubSeq(wire, used - acc + 1, used + c))
                    /\ \A i \in 1..Len(SubSeq(wire, used - acc + 1, used + c)) :
                          SubSeq(wire, used - acc + 1, used + c)[i] = wire[used - acc + i]
    BY <1>2, <2>1, NextLine
  <2> HIDE DEF c
  <2>3. CASE acc + n > MaxLineBytes
    BY <1>1, <2>1, <2>3 DEF consumed
  <2>4. CASE ~(acc + n > MaxLineBytes) /\ c = 0
    <3>1. used' - acc' = used - acc
      BY <1>4, <2>1, <2>2, <2>4
    <3>2. consumed' = consumed
      BY <1>1, <3>1 DEF consumed
    <3> QED
      BY <1>1, <2>1, <2>4, <3>2
  <2>5. CASE ~(acc + n > MaxLineBytes) /\ c # 0
    <3> DEFINE m == used + c
               k == used - acc
               line == SubSeq(wire, k + 1, m)
    <3>1. used' = m /\ acc' = 0 /\ TakeLine(SubSeq(wire, used - acc + 1, m), "run")
      BY <2>1, <2>5
    <3>2. c \in 1..(got - used)
      BY <2>2, <2>5
    <3>3. Whole
      BY <1>4, <2>1 DEF FramingInv
    <3>4. m \in 0..Len(wire) /\ used - acc < m /\ k \in 0..m /\ k \in Nat /\ m \in Nat
      BY <1>4, <3>2
    <3>5. IsLine(line) /\ \A i \in 1..Len(line) : line[i] = wire[k + i]
      BY <2>2, <2>5
    <3> HIDE DEF m, k
    <3>6. Len(line) = m - k
      BY <1>3, <3>4, PrefixSplits
    <3> HIDE DEF line
    <3>7. \A j \in 1..(Len(line) - 1) : line[j] \notin Terminators
      BY <3>5 DEF IsLine
    <3>8. ASSUME NEW i \in (k + 1)..(m - 1) PROVE wire[i] \notin Terminators
      <4>1. i - k \in 1..(Len(line) - 1) /\ i - k \in 1..Len(line) /\ k + (i - k) = i
        BY <3>4, <3>6
      <4> QED
        BY <3>5, <3>7, <4>1
    <3>9. \A i \in (used - acc + 1)..(m - 1) : wire[i] \notin Terminators
      BY <3>8 DEF k
    <3> QED
      BY <1>1, <1>6, <3>1, <3>3, <3>4, <3>9
  <2> QED
    BY <2>3, <2>4, <2>5
<1> QED
  BY <1>7, <1>8

\* A relayed line is written as rewritten, unless its event was too long.
LEMMA RelayWrites ==
  ASSUME NEW line, RelayLine(line, "run")
  PROVE  /\ UNCHANGED <<tr, frames>>
         /\ \/ result' = "event_cap" /\ UNCHANGED <<out, hb>>
            \/ \E n \in Accepted(rewriteSSELine(line)) :
                  /\ Write(n, rewriteSSELine(line))
                  /\ result' = IF n < Len(rewriteSSELine(line)) THEN "write_err" ELSE "run"
BY DEF RelayLine

\* A rewritten piece of the upstream's is a piece, and not the heartbeat's.
LEMMA RewriteForeign ==
  ASSUME NEW line, IsPiece(line), Foreign(line)
  PROVE  /\ IsPiece(rewriteSSELine(line)) /\ Foreign(rewriteSSELine(line))
         /\ rewriteSSELine(line)[Len(rewriteSSELine(line))] \in Terminators <=> line[Len(line)] \in Terminators
<1> DEFINE r == rewriteSSELine(line)
<1>1. /\ IsPiece(r) /\ Len(r) = Len(line)
      /\ \A i \in 1..Len(line) : r[i] = IF IsField(line, "data:") THEN rewriteOut(line[i]) ELSE line[i]
      /\ r[Len(line)] \in Terminators <=> line[Len(line)] \in Terminators
  BY RewriteKeeps
<1> HIDE DEF r
<1>2. \A x : x # ":ping" => rewriteOut(x) # ":ping"
  BY DEF rewriteOut
<1>3. Foreign(r)
  BY <1>1, <1>2 DEF Foreign
<1> QED
  BY <1>1, <1>3 DEF r

\* Before the copy starts.
LEMMA InitOut == Init => OutInv
<1> SUFFICES ASSUME Init PROVE OutInv
  OBVIOUS
<1>1. /\ out = <<>> /\ frames = <<>> /\ gone = FALSE /\ tr = NewChatToMessagesStream
      /\ hb = [boundary |-> TRUE, finished |-> FALSE, live |-> TRUE, pings |-> 0]
  BY DEF Init
<1>2. out \in Seq(Words) /\ frames \in Seq(OwedLine)
  BY <1>1
<1>3. hb \in Heartbeats
  BY <1>1 DEF Heartbeats
<1>4. tr \in Translators
  BY <1>1 DEF NewChatToMessagesStream, Translators, Kinds
<1>5. AtLineStart(out)
  BY <1>1 DEF AtLineStart
<1>6. ~MarkerLine(out)
  <2>1. \A i \in 1..(Len(out) - 1) : FALSE
    BY <1>1
  <2> QED
    BY <2>1 DEF MarkerLine
<1>7. PingsBefore(out)
  <2>1. \A i \in 1..Len(out) : FALSE
    BY <1>1
  <2> QED
    BY <2>1 DEF PingsBefore
<1> QED
  BY <1>1, <1>2, <1>3, <1>4, <1>5, <1>6, <1>7 DEF OutInv, OutTypeOK

\* A step that writes nothing and deals with no line, or with one of a
\* translated stream.
LEMMA OutQuiet ==
  ASSUME OutInv, out' = out, input' = input, gone' \in BOOLEAN, gone => gone',
         hb' \in Heartbeats, hb.finished => hb'.finished, hb'.boundary = hb.boundary,
         tr' \in Translators, frames' \in Seq(OwedLine),
         Whole' /\ input.surface # "messages" => Whole
  PROVE  OutInv'
BY DEF OutInv, OutTypeOK, PingsBefore, AtLineStart, MarkerLine

\* A tick of the heartbeat.
LEMMA OutPing ==
  ASSUME OutInv, maybePing
  PROVE  OutInv'
<1>1. /\ ~hb.finished /\ hb.boundary /\ UNCHANGED <<input, tr, frames, gone>> /\ consumed' = consumed
      /\ IF gone THEN hb' = [hb EXCEPT !.live = FALSE] /\ out' = out
         ELSE /\ out' = out \o Ping
              /\ hb' = [hb EXCEPT !.pings = @ + 1]
  BY DEF maybePing, consumed, wire
<1>2. OutTypeOK
  BY DEF OutInv
<1>3. /\ out \in Seq(Words) /\ hb \in Heartbeats /\ gone \in BOOLEAN
      /\ tr \in Translators /\ frames \in Seq(OwedLine)
  BY <1>2 DEF OutTypeOK
<1>4. CASE gone
  <2>1. hb' \in Heartbeats /\ hb'.finished = hb.finished /\ hb'.boundary = hb.boundary
    BY <1>1, <1>3, <1>4 DEF Heartbeats
  <2>2. Whole' = Whole
    BY <1>1 DEF Whole, AtLineStart
  <2> QED
    BY <1>1, <1>3, <1>4, <2>1, <2>2, OutQuiet
<1>5. CASE ~gone
  <2>1. hb' \in Heartbeats /\ hb'.finished = hb.finished /\ hb'.boundary = hb.boundary
    <3> DEFINE n == hb.pings + 1
    <3>1. n \in Nat
      BY <1>3 DEF Heartbeats
    <3>2. hb' = [hb EXCEPT !.pings = n]
      BY <1>1, <1>3, <1>5 DEF Heartbeats
    <3> HIDE DEF n
    <3> QED
      BY <1>3, <3>1, <3>2 DEF Heartbeats
  <2>2. PingsBefore(out) /\ AtLineStart(out) /\ ~MarkerLine(out)
    BY <1>1, <1>5 DEF OutInv
  <2>3. /\ out \o Ping \in Seq(Words) /\ AtLineStart(out \o Ping)
        /\ ~MarkerLine(out \o Ping) /\ PingsBefore(out \o Ping)
    BY <1>3, <2>2, PingGrows
  <2>4. out' = out \o Ping
    BY <1>1, <1>5
  <2>5. /\ out' \in Seq(Words) /\ AtLineStart(out')
        /\ ~MarkerLine(out') /\ PingsBefore(out')
    BY <2>3, <2>4
  <2> QED
    BY <1>1, <1>3, <1>5, <2>1, <2>5 DEF OutInv, OutTypeOK
<1> QED
  BY <1>4, <1>5

\* A line of the upstream's.
LEMMA OutTaken ==
  ASSUME FramingInv, OutInv, ReadLine \/ ReadEnd
  PROVE  OutInv'
<1>1. /\ UNCHANGED <<input, gone>>
      /\ \/ UNCHANGED <<tr, frames, out, hb>> /\ consumed' = consumed
         \/ \E line \in Seq(Words) :
              /\ IsPiece(line) /\ Foreign(line)
              /\ Whole /\ TakeLine(line, "run")
              /\ line[Len(line)] \notin Terminators => ~Whole'
  BY TakenLine
<1>2. OutTypeOK
  BY DEF OutInv
<1>3. /\ out \in Seq(Words) /\ hb \in Heartbeats /\ gone \in BOOLEAN
      /\ tr \in Translators /\ frames \in Seq(OwedLine)
  BY <1>2 DEF OutTypeOK
<1>4. CASE UNCHANGED <<tr, frames, out, hb>> /\ consumed' = consumed
  <2>1. Whole' = Whole
    BY <1>4 DEF Whole, AtLineStart
  <2> QED
    BY <1>1, <1>3, <1>4, <2>1, OutQuiet
<1>5. ASSUME NEW line \in Seq(Words), IsPiece(line), Foreign(line), Whole, TakeLine(line, "run"),
             line[Len(line)] \notin Terminators => ~Whole'
      PROVE  OutInv'
  <2>1. CASE input.surface = "messages"
    <3>1. /\ UNCHANGED <<out, hb>>
          /\ \/ UNCHANGED <<tr, frames>>
             \/ \E payload : tr' = Frame(tr, payload).s /\ frames' = Frame(tr, payload).out
      BY <1>5, <2>1 DEF TakeLine, TranslateLine
    <3>2. tr' \in Translators /\ frames' \in Seq(OwedLine)
      <4>1. CASE UNCHANGED <<tr, frames>>
        BY <1>3, <4>1
      <4>2. ASSUME NEW payload, tr' = Frame(tr, payload).s, frames' = Frame(tr, payload).out
            PROVE  tr' \in Translators /\ frames' \in Seq(OwedLine)
        <5>1. Frame(tr, payload) \in Translations
          BY <1>3, FrameType
        <5> QED
          BY <4>2, <5>1 DEF Translations
      <4> QED
        BY <3>1, <4>1, <4>2
    <3> QED
      BY <1>1, <1>3, <2>1, <3>1, <3>2, OutQuiet
  <2>2. CASE input.surface # "messages"
    <3> DEFINE text == rewriteSSELine(line)
    <3>1. RelayLine(line, "run")
      BY <1>5, <2>2 DEF TakeLine
    <3>2. /\ UNCHANGED <<tr, frames>>
          /\ \/ result' = "event_cap" /\ UNCHANGED <<out, hb>>
             \/ \E n \in Accepted(text) : Write(n, text)
      BY <3>1, RelayWrites
    <3>3. IsPiece(text) /\ Foreign(text) /\ (text[Len(text)] \in Terminators <=> line[Len(line)] \in Terminators)
      BY <1>5, RewriteForeign
    <3> HIDE DEF text
    <3>4. CASE UNCHANGED <<out, hb>>
      BY <1>1, <1>3, <1>5, <3>2, <3>4, OutQuiet
    <3>5. ASSUME NEW n \in Accepted(text), Write(n, text) PROVE OutInv'
      <4>1. PingsBefore(out) /\ (~gone => AtLineStart(out) /\ (MarkerLine(out) => hb.finished))
        BY <1>5 DEF OutInv
      <4>2. /\ out' \in Seq(Words) /\ hb' \in Heartbeats /\ PingsBefore(out')
            /\ ~gone => /\ MarkerLine(out') => hb'.finished
                        /\ hb'.boundary => AtLineStart(out')
                        /\ text[Len(text)] \in Terminators => AtLineStart(out')
        BY <1>2, <3>3, <3>5, <4>1, WriteKeepsOut
      <4> QED
        BY <1>1, <1>3, <1>5, <2>2, <3>2, <3>3, <4>2 DEF OutInv, OutTypeOK
    <3> QED
      BY <3>2, <3>4, <3>5
  <2> QED
    BY <2>1, <2>2
<1> QED
  BY <1>1, <1>4, <1>5

\* A line the translator owes.
LEMMA OutWritten ==
  ASSUME FramingInv, OutInv, WriteFrame
  PROVE  OutInv'
<1> DEFINE line == Head(frames)
<1>1. /\ frames # <<>> /\ UNCHANGED <<input, used, acc, tr, gone>>
      /\ \E n \in Accepted(line) : Write(n, line) /\ (frames' = frames \/ frames' = Tail(frames))
  BY DEF WriteFrame
<1>2. OutTypeOK
  BY DEF OutInv
<1>3. /\ out \in Seq(Words) /\ hb \in Heartbeats /\ gone \in BOOLEAN
      /\ tr \in Translators /\ frames \in Seq(OwedLine)
  BY <1>2 DEF OutTypeOK
<1>4. line \in OwedLine /\ Tail(frames) \in Seq(OwedLine)
  BY <1>1, <1>3
<1> HIDE DEF line
<1>5. IsPiece(line) /\ Foreign(line) /\ line[Len(line)] \in Terminators
  <2>1. IsLine(line) /\ \A i \in 1..Len(line) : line[i] # ":ping"
    BY <1>4 DEF OwedLine
  <2> QED
    BY <2>1 DEF IsLine, IsPiece, Foreign
<1>6. input.surface = "messages"
  <2>1. BufferInv /\ (input.surface = "openai" => frames = <<>>)
    BY DEF FramingInv
  <2> QED
    BY <1>1, <2>1, BufferFacts
<1>7. PICK n \in Accepted(line) : Write(n, line) /\ (frames' = frames \/ frames' = Tail(frames))
  BY <1>1
<1>8. PingsBefore(out) /\ (~gone => AtLineStart(out) /\ (MarkerLine(out) => hb.finished))
  BY <1>6 DEF OutInv
<1>9. /\ out' \in Seq(Words) /\ hb' \in Heartbeats /\ PingsBefore(out')
      /\ ~gone => /\ MarkerLine(out') => hb'.finished
                  /\ hb'.boundary => AtLineStart(out')
                  /\ line[Len(line)] \in Terminators => AtLineStart(out')
  BY <1>2, <1>5, <1>7, <1>8, WriteKeepsOut
<1>10. frames' \in Seq(OwedLine)
  BY <1>3, <1>4, <1>7
<1> QED
  BY <1>1, <1>3, <1>5, <1>9, <1>10 DEF OutInv, OutTypeOK

\* Every step keeps what is known of the client's bytes.
LEMMA NextOut == FramingInv /\ OutInv /\ [Next]_vars => OutInv'
<1> SUFFICES ASSUME FramingInv, OutInv, [Next]_vars PROVE OutInv'
  OBVIOUS
<1>1. /\ out \in Seq(Words) /\ hb \in Heartbeats /\ gone \in BOOLEAN
      /\ tr \in Translators /\ frames \in Seq(OwedLine)
  BY DEF OutInv, OutTypeOK
<1>2. CASE ReadLine \/ ReadEnd
  BY <1>2, OutTaken
<1>3. CASE WriteFrame
  BY <1>3, OutWritten
<1>4. CASE maybePing
  BY <1>4, OutPing
<1>5. CASE CopyReturns
  <2>1. /\ UNCHANGED <<input, used, acc, out, hb, gone>>
        /\ \/ UNCHANGED <<tr, frames>>
           \/ tr' = Finish(tr).s /\ frames' = Finish(tr).out
    BY <1>5 DEF CopyReturns
  <2>2. Finish(tr) \in Translations
    BY <1>1, FrameType
  <2>3. tr' \in Translators /\ frames' \in Seq(OwedLine)
    BY <1>1, <2>1, <2>2 DEF Translations
  <2>4. Whole' = Whole
    BY <2>1 DEF Whole, consumed, wire, AtLineStart
  <2> QED
    BY <1>1, <2>1, <2>3, <2>4, OutQuiet
<1>6. CASE (\E k \in input.reads : Fill(k)) \/ StopHeartbeat \/ HeartbeatExits \/ Join \/ ClientLeaves \/ Done
           \/ UNCHANGED vars
  <2>1. /\ UNCHANGED <<input, used, acc, out, tr, frames>>
        /\ gone' = gone \/ gone' = TRUE
        /\ hb' \in {hb, [hb EXCEPT !.finished = TRUE], [hb EXCEPT !.live = FALSE]}
    BY <1>6 DEF Fill, StopHeartbeat, HeartbeatExits, Join, ClientLeaves, Done, vars
  <2>2. hb' \in Heartbeats /\ (hb.finished => hb'.finished) /\ hb'.boundary = hb.boundary
    BY <1>1, <2>1 DEF Heartbeats
  <2>3. Whole' = Whole
    BY <2>1 DEF Whole, consumed, wire, AtLineStart
  <2>4. gone' \in BOOLEAN /\ (gone => gone')
    <3>1. gone \in BOOLEAN /\ (gone' = gone \/ gone' = TRUE)
      BY <1>1, <2>1
    <3>2. CASE gone' = gone
      BY <3>1, <3>2
    <3>3. CASE gone' = TRUE
      BY <3>3
    <3> QED
      BY <3>1, <3>2, <3>3
  <2>5. Whole' /\ input.surface # "messages" => Whole
    BY <2>3
  <2> QED
    BY <1>1, <2>1, <2>2, <2>4, <2>5, OutQuiet
<1> QED
  BY <1>2, <1>3, <1>4, <1>5, <1>6 DEF Next

-----------------------------------------------------------------------------
(* What the client's parser makes of the rewritten stream.                 *)

\* The events a parser dispatches.
Events == [name : Words, data : Seq(Words)]

\* Tokens after the rewriter.
Rewritten(u) == [k \in DOMAIN u |-> rewriteOut(u[k])]

\* The rewriter's tokens are words, and it touches no terminator and no field
\* name.
LEMMA RewrittenWord ==
  /\ \A w \in Words : rewriteOut(w) \in Words
  /\ \A w \in Terminators \cup {"data:"} : rewriteOut(w) = w
<1>1. "M" \in Words
  BY DEF Words
<1>2. "m" \notin Terminators /\ "m" # "data:"
  BY DEF Terminators, LF, CR
<1> HIDE DEF Words, Terminators
<1> QED
  BY <1>1, <1>2 DEF rewriteOut

\* Rewriting goes token by token.
LEMMA RewrittenSeq ==
  ASSUME NEW u \in Seq(Words)
  PROVE  /\ Rewritten(u) \in Seq(Words) /\ Len(Rewritten(u)) = Len(u) /\ Len(u) \in Nat
         /\ \A i \in 1..Len(u) : Rewritten(u)[i] = rewriteOut(u[i])
         /\ Rewritten(u) = <<>> <=> u = <<>>
<1>1. DOMAIN u = 1..Len(u) /\ Len(u) \in Nat /\ \A i \in 1..Len(u) : u[i] \in Words
  OBVIOUS
<1> DEFINE r == Rewritten(u)
<1>2. r = [k \in 1..Len(u) |-> rewriteOut(u[k])]
  BY <1>1 DEF Rewritten
<1>3. \A i \in 1..Len(u) : rewriteOut(u[i]) \in Words
  BY <1>1, RewrittenWord
<1> HIDE DEF r
<1>4. r \in [1..Len(u) -> Words] /\ \A i \in 1..Len(u) : r[i] = rewriteOut(u[i])
  BY <1>2, <1>3
<1>5. r \in Seq(Words) /\ Len(r) = Len(u)
  BY <1>1, <1>4
<1>6. r = <<>> <=> u = <<>>
  BY <1>1, <1>5
<1> QED
  BY <1>1, <1>4, <1>5, <1>6 DEF r

\* Rewriting a concatenation.
LEMMA RewrittenConcat ==
  ASSUME NEW u \in Seq(Words), NEW v \in Seq(Words)
  PROVE  Rewritten(u \o v) = Rewritten(u) \o Rewritten(v)
<1> DEFINE x == u \o v
           a == Rewritten(u)
           b == Rewritten(v)
           y == a \o b
           r == Rewritten(x)
<1>0. Len(u) \in Nat /\ Len(v) \in Nat
  OBVIOUS
<1>1. /\ x \in Seq(Words) /\ Len(x) = Len(u) + Len(v)
      /\ \A i \in 1..(Len(u) + Len(v)) : x[i] = IF i <= Len(u) THEN u[i] ELSE v[i - Len(u)]
  BY ConcatProperties
<1>2. a \in Seq(Words) /\ Len(a) = Len(u) /\ \A i \in 1..Len(u) : a[i] = rewriteOut(u[i])
  BY RewrittenSeq
<1>3. b \in Seq(Words) /\ Len(b) = Len(v) /\ \A i \in 1..Len(v) : b[i] = rewriteOut(v[i])
  BY RewrittenSeq
<1> HIDE DEF x, a, b
<1>4. r \in Seq(Words) /\ Len(r) = Len(x) /\ \A i \in 1..Len(x) : r[i] = rewriteOut(x[i])
  BY <1>1, RewrittenSeq
<1>5. /\ y \in Seq(Words) /\ Len(y) = Len(a) + Len(b)
      /\ \A i \in 1..(Len(a) + Len(b)) : y[i] = IF i <= Len(a) THEN a[i] ELSE b[i - Len(a)]
  <2>1. a \in Seq(Words) /\ b \in Seq(Words)
    BY <1>2, <1>3
  <2> QED
    BY <2>1, ConcatProperties
<1> HIDE DEF r, y
<1>6. ASSUME NEW i \in 1..(Len(u) + Len(v)) PROVE r[i] = y[i]
  <2>1. CASE i <= Len(u)
    <3>1. i \in 1..Len(u)
      BY <1>0, <2>1
    <3> QED
      BY <1>0, <1>1, <1>2, <1>3, <1>4, <1>5, <2>1, <3>1
  <2>2. CASE ~(i <= Len(u))
    <3>1. i - Len(u) \in 1..Len(v)
      BY <1>0, <2>2
    <3> QED
      BY <1>0, <1>1, <1>2, <1>3, <1>4, <1>5, <2>2, <3>1
  <2> QED
    BY <2>1, <2>2
<1>7. r = y
  BY <1>1, <1>2, <1>3, <1>4, <1>5, <1>6, SeqEqual
<1> QED
  BY <1>7 DEF r, y, x, a, b

\* Rewriting what follows the first token.
LEMMA RewrittenTail ==
  ASSUME NEW u \in Seq(Words), u # <<>>
  PROVE  Tail(Rewritten(u)) = Rewritten(Tail(u)) /\ Tail(u) \in Seq(Words)
<1> DEFINE t == Tail(u)
           r == Rewritten(u)
           a == Tail(r)
           b == Rewritten(t)
<1>1. /\ t \in Seq(Words) /\ Len(t) = Len(u) - 1 /\ Len(u) \in Nat /\ Len(u) >= 1
      /\ \A i \in 1..(Len(u) - 1) : t[i] = u[i + 1]
  OBVIOUS
<1>2. r \in Seq(Words) /\ Len(r) = Len(u) /\ r # <<>> /\ \A i \in 1..Len(u) : r[i] = rewriteOut(u[i])
  BY RewrittenSeq
<1> HIDE DEF t, r
<1>3. a \in Seq(Words) /\ Len(a) = Len(u) - 1 /\ \A i \in 1..(Len(u) - 1) : a[i] = r[i + 1]
  BY <1>1, <1>2
<1>4. b \in Seq(Words) /\ Len(b) = Len(t) /\ \A i \in 1..Len(t) : b[i] = rewriteOut(t[i])
  BY <1>1, RewrittenSeq
<1> HIDE DEF a, b
<1>5. \A i \in 1..(Len(u) - 1) : i + 1 \in 1..Len(u)
  BY <1>1
<1>6. \A i \in 1..(Len(u) - 1) : a[i] = b[i]
  BY <1>1, <1>2, <1>3, <1>4, <1>5
<1>7. a = b
  BY <1>1, <1>3, <1>4, <1>6, SeqEqual
<1> QED
  BY <1>1, <1>7 DEF a, b, t, r

\* Rewriting one event more.
LEMMA RewrittenAppend ==
  /\ RewrittenEvents(<<>>) = <<>>
  /\ \A E \in Seq(Events) : RewrittenEvents(E) \in Seq(Events)
  /\ \A E \in Seq(Events) : \A e \in Events :
        RewrittenEvents(Append(E, e)) =
           Append(RewrittenEvents(E), [name |-> e.name, data |-> Rewritten(e.data)])
<1> DEFINE Of(e) == [name |-> e.name, data |-> Rewritten(e.data)]
<1>1. \A E : RewrittenEvents(E) = [i \in DOMAIN E |-> Of(E[i])]
  BY DEF RewrittenEvents, Rewritten
<1>2. \A e \in Events : Of(e) \in Events
  <2> TAKE e \in Events
  <2>1. e.name \in Words /\ e.data \in Seq(Words)
    BY DEF Events
  <2>2. Rewritten(e.data) \in Seq(Words)
    BY <2>1, RewrittenSeq
  <2> QED
    BY <2>1, <2>2 DEF Events
<1> HIDE DEF Of
<1>3. ASSUME NEW E \in Seq(Events)
      PROVE  /\ RewrittenEvents(E) \in Seq(Events) /\ Len(RewrittenEvents(E)) = Len(E)
             /\ \A i \in 1..Len(E) : RewrittenEvents(E)[i] = Of(E[i])
  <2> DEFINE r == RewrittenEvents(E)
  <2>1. DOMAIN E = 1..Len(E) /\ Len(E) \in Nat /\ \A i \in 1..Len(E) : E[i] \in Events
    OBVIOUS
  <2>2. r = [i \in 1..Len(E) |-> Of(E[i])]
    BY <1>1, <2>1
  <2> HIDE DEF r
  <2>3. r \in [1..Len(E) -> Events] /\ \A i \in 1..Len(E) : r[i] = Of(E[i])
    BY <1>2, <2>1, <2>2
  <2>4. r \in Seq(Events) /\ Len(r) = Len(E)
    BY <2>1, <2>3
  <2> QED
    BY <2>3, <2>4 DEF r
<1>4. RewrittenEvents(<<>>) = <<>>
  <2>1. <<>> \in Seq(Events) /\ Len(<<>>) = 0
    OBVIOUS
  <2> DEFINE r == RewrittenEvents(<<>>)
  <2>2. r \in Seq(Events) /\ Len(r) = 0
    BY <1>3, <2>1
  <2> HIDE DEF r
  <2>3. r = <<>>
    BY <2>2
  <2> QED
    BY <2>3 DEF r
<1>5. ASSUME NEW E \in Seq(Events), NEW e \in Events
      PROVE  RewrittenEvents(Append(E, e)) = Append(RewrittenEvents(E), Of(e))
  <2> DEFINE x == Append(E, e)
             a == RewrittenEvents(x)
             r == RewrittenEvents(E)
             f == Of(e)
             b == Append(r, f)
             n == Len(E)
  <2>1. n \in Nat /\ x \in Seq(Events) /\ Len(x) = n + 1 /\ x[n + 1] = e /\ \A i \in 1..n : x[i] = E[i]
    OBVIOUS
  <2>2. r \in Seq(Events) /\ Len(r) = n /\ \A i \in 1..n : r[i] = Of(E[i])
    BY <1>3
  <2>3. f \in Events
    BY <1>2
  <2> HIDE DEF x, r, f, n
  <2>4. a \in Seq(Events) /\ Len(a) = Len(x) /\ \A i \in 1..Len(x) : a[i] = Of(x[i])
    BY <1>3, <2>1
  <2>5. b \in Seq(Events) /\ Len(b) = Len(r) + 1 /\ b[Len(r) + 1] = f /\ \A i \in 1..Len(r) : b[i] = r[i]
    BY <2>2, <2>3, AppendProperties
  <2> HIDE DEF a, b
  <2>6. \A i \in 1..(n + 1) : a[i] = b[i]
    <3> TAKE i \in 1..(n + 1)
    <3>1. i \in 1..n \/ i = n + 1
      BY <2>1
    <3>2. CASE i \in 1..n
      BY <2>1, <2>2, <2>4, <2>5, <3>2
    <3>3. CASE i = n + 1
      BY <2>1, <2>2, <2>4, <2>5, <3>3 DEF f
    <3> QED
      BY <3>1, <3>2, <3>3
  <2>7. a = b
    BY <2>1, <2>2, <2>4, <2>5, <2>6, SeqEqual
  <2> QED
    BY <2>7 DEF a, b, r, f, x
<1> QED
  BY <1>3, <1>4, <1>5 DEF Of

\* A sequence is a prefix of itself, and of what a longer one grows to.
LEMMA PrefixGrowth ==
  ASSUME NEW T, NEW s \in Seq(T), NEW t \in Seq(T), IsPrefix(s, t), NEW e \in T
  PROVE  IsPrefix(s, Append(t, e)) /\ IsPrefix(t, t)
<1> DEFINE n == Len(s)
           m == Len(t)
           u == Append(t, e)
           a == SubSeq(t, 1, n)
           b == SubSeq(u, 1, n)
<1>1. n \in Nat /\ m \in Nat /\ n <= m /\ SubSeq(s, 1, n) = a
  BY DEF IsPrefix
<1>2. u \in Seq(T) /\ Len(u) = m + 1 /\ \A i \in 1..m : u[i] = t[i]
  OBVIOUS
<1> HIDE DEF u
<1>3. \A i \in 1..n : i \in 1..m /\ t[i] \in T /\ u[i] \in T
  BY <1>1, <1>2
<1>4. a \in Seq(T) /\ Len(a) = n /\ \A i \in 1..n : a[i] = t[i]
  BY <1>1, <1>3, SubSeqProperties
<1>5. b \in Seq(T) /\ Len(b) = n /\ \A i \in 1..n : b[i] = u[i]
  BY <1>1, <1>2, <1>3, SubSeqProperties
<1> HIDE DEF a, b
<1>6. \A i \in 1..n : a[i] = b[i]
  BY <1>2, <1>3, <1>4, <1>5
<1>7. a = b
  BY <1>4, <1>5, <1>6, SeqEqual
<1>8. IsPrefix(s, u)
  <2>1. n <= Len(u)
    BY <1>1, <1>2
  <2>2. SubSeq(s, 1, n) = SubSeq(u, 1, n)
    BY <1>1, <1>7 DEF b
  <2> QED
    BY <2>1, <2>2 DEF IsPrefix
<1>9. IsPrefix(t, t)
  BY <1>1 DEF IsPrefix
<1> QED
  BY <1>8, <1>9 DEF u

\* A rewritten line: only the tokens of a data line's body change.
LEMMA RewrittenLine ==
  ASSUME NEW l, IsLine(l)
  PROVE  LET r == rewriteSSELine(l)
         IN  /\ IsLine(r) /\ r[Len(r)] = l[Len(l)]
             /\ Body(r) = IF Body(l) # <<>> /\ Body(l)[1] = "data:" THEN Rewritten(Body(l)) ELSE Body(l)
             /\ r = <<LF>> <=> l = <<LF>>
<1> DEFINE r == rewriteSSELine(l)
           b == Body(l)
           c == Body(r)
           d == Rewritten(b)
           data == IsField(l, "data:")
<1>1. /\ Len(l) \in Nat /\ Len(l) >= 1 /\ b \in Seq(Words) /\ Len(b) = Len(l) - 1
      /\ \A i \in 1..(Len(l) - 1) : b[i] = l[i]
      /\ b = <<>> <=> Len(l) = 1
  BY LineParts
<1>2. data <=> b # <<>> /\ b[1] = "data:"
  BY LineReads
<1>3. IsPiece(l) /\ l[Len(l)] \in Terminators /\ l \in Seq(Words)
  BY DEF IsLine, IsPiece
<1>4. /\ IsPiece(r) /\ Len(r) = Len(l)
      /\ \A i \in 1..Len(l) : r[i] = IF data THEN rewriteOut(l[i]) ELSE l[i]
      /\ r[Len(l)] \in Terminators
  BY <1>3, RewriteKeeps
<1> HIDE DEF r, b, data
<1>5. Len(l) \in 1..Len(l) /\ \A i \in 1..(Len(l) - 1) : i \in 1..Len(l)
  BY <1>1
<1>6. IsLine(r) /\ r[Len(r)] = l[Len(l)]
  <2>1. rewriteOut(l[Len(l)]) = l[Len(l)]
    BY <1>3, RewrittenWord
  <2>2. r[Len(r)] = l[Len(l)]
    BY <1>4, <1>5, <2>1
  <2> QED
    BY <1>4, <2>2 DEF IsLine, IsPiece
<1>7. c \in Seq(Words) /\ Len(c) = Len(r) - 1 /\ \A i \in 1..(Len(r) - 1) : c[i] = r[i]
  BY <1>6, LineParts
<1>8. d \in Seq(Words) /\ Len(d) = Len(b) /\ \A i \in 1..Len(b) : d[i] = rewriteOut(b[i])
  BY <1>1, RewrittenSeq
<1> HIDE DEF c, d
<1>9. c = IF data THEN d ELSE b
  <2>1. CASE data
    <3>1. \A i \in 1..(Len(l) - 1) : c[i] = d[i]
      BY <1>1, <1>4, <1>5, <1>7, <1>8, <2>1
    <3>2. c = d
      BY <1>1, <1>4, <1>7, <1>8, <3>1, SeqEqual
    <3> QED
      BY <2>1, <3>2
  <2>2. CASE ~data
    <3>1. \A i \in 1..(Len(l) - 1) : c[i] = b[i]
      BY <1>1, <1>4, <1>5, <1>7, <2>2
    <3>2. c = b
      BY <1>1, <1>4, <1>7, <3>1, SeqEqual
    <3> QED
      BY <2>2, <3>2
  <2> QED
    BY <2>1, <2>2
<1>10. r = <<LF>> <=> l = <<LF>>
  <2>1. l \in Seq(Words) /\ r \in Seq(Words) /\ Len(r) = Len(l) /\ r[Len(r)] = l[Len(l)]
    BY <1>3, <1>4, <1>6 DEF IsPiece
  <2>2. \A x \in Seq(Words) : x = <<LF>> <=> Len(x) = 1 /\ x[Len(x)] = LF
    OBVIOUS
  <2> QED
    BY <2>1, <2>2
<1> QED
  BY <1>2, <1>6, <1>9, <1>10 DEF r, b, c, d

\* The client's parser is where the upstream's is, but for rewriting.
Mirrors(p, q) ==
  /\ q.line = <<>> /\ (q.cr => p.cr) /\ q.name = p.name
  /\ q.data = Rewritten(p.data) /\ q.events = RewrittenEvents(p.events)

\* Nothing of an event has been received.
Quiet(q) == q.line = <<>> /\ q.cr = FALSE /\ q.name = NoName /\ q.data = <<>>

\* The upstream's parser after a line: the events only grow, and remember a CR
\* that ended the line.
LEMMA EventsGrow ==
  ASSUME NEW s \in Seq(Words), NEW l, IsLine(l), Parse(s).line = <<>>
  PROVE  /\ Parse(s \o l).cr = (l[Len(l)] = CR)
         /\ Parse(s).events \in Seq(Events)
         /\ \/ Parse(s \o l).events = Parse(s).events
            \/ \E e \in Events : Parse(s \o l).events = Append(Parse(s).events, e)
<1> DEFINE p == Parse(s)
           q == Parse(s \o l)
           b == Body(l)
           e == [name |-> p.name, data |-> p.data]
<1>1. /\ q.cr = (l[Len(l)] = CR)
      /\ p.cr /\ l = <<LF>> => q.events = p.events
      /\ ~(p.cr /\ l = <<LF>>) /\ b = <<>> =>
           q.events = IF p.data = <<>> THEN p.events ELSE Append(p.events, e)
      /\ b # <<>> => q.events = p.events
  BY ParseLine
<1>2. p \in Parsers
  BY ParseSteps
<1> HIDE DEF p, q, b
<1>3. e \in Events /\ p.events \in Seq(Events)
  BY <1>2 DEF Parsers, Events
<1> HIDE DEF e
<1>4. q.events = p.events \/ q.events = Append(p.events, e)
  BY <1>1
<1> QED
  BY <1>1, <1>3, <1>4 DEF p, q

\* A line goes through the rewriter and both parsers move alike, unless it is
\* the LF of a CRLF.
LEMMA MirroredLine ==
  ASSUME NEW s \in Seq(Words), NEW o \in Seq(Words), Parse(s).line = <<>>,
         Mirrors(Parse(s), Parse(o)), NEW l, IsLine(l), l = <<LF>> => ~Parse(s).cr
  PROVE  LET q == Parse(o \o rewriteSSELine(l))
         IN  Mirrors(Parse(s \o l), q) /\ (l = <<LF>> => Quiet(q))
<1> DEFINE r == rewriteSSELine(l)
           b == Body(l)
           c == Body(r)
           p == Parse(s)
           q == Parse(o)
           pp == Parse(s \o l)
           qq == Parse(o \o r)
<1>1. /\ IsLine(r) /\ r[Len(r)] = l[Len(l)] /\ (r = <<LF>> <=> l = <<LF>>)
      /\ c = IF b # <<>> /\ b[1] = "data:" THEN Rewritten(b) ELSE b
  BY RewrittenLine
<1>2. b \in Seq(Words)
  BY LineParts
<1>3. p \in Parsers /\ q \in Parsers
  BY ParseSteps
<1>4. /\ pp.line = <<>> /\ pp.cr = (l[Len(l)] = CR)
      /\ b = <<>> => /\ pp.name = NoName /\ pp.data = <<>>
                     /\ pp.events = IF p.data = <<>> THEN p.events
                                    ELSE Append(p.events, [name |-> p.name, data |-> p.data])
      /\ b # <<>> => pp.events = p.events
      /\ b # <<>> /\ b[1] = "data:" => pp.name = p.name /\ pp.data = p.data \o Tail(b)
      /\ b # <<>> /\ b[1] = "event:" => pp.name = ValueIn(b) /\ pp.data = p.data
      /\ b # <<>> /\ b[1] \notin {"data:", "event:"} => pp.name = p.name /\ pp.data = p.data
  BY ParseLine
<1>5. /\ q.line = <<>> /\ (q.cr => p.cr) /\ q.name = p.name
      /\ q.data = Rewritten(p.data) /\ q.events = RewrittenEvents(p.events)
  BY DEF Mirrors
<1> HIDE DEF r
<1>6. /\ qq.line = <<>> /\ qq.cr = (r[Len(r)] = CR)
      /\ c = <<>> => /\ qq.name = NoName /\ qq.data = <<>>
                     /\ qq.events = IF q.data = <<>> THEN q.events
                                    ELSE Append(q.events, [name |-> q.name, data |-> q.data])
      /\ c # <<>> => qq.events = q.events
      /\ c # <<>> /\ c[1] = "data:" => qq.name = q.name /\ qq.data = q.data \o Tail(c)
      /\ c # <<>> /\ c[1] = "event:" => qq.name = ValueIn(c) /\ qq.data = q.data
      /\ c # <<>> /\ c[1] \notin {"data:", "event:"} => qq.name = q.name /\ qq.data = q.data
  <2>1. ~(q.cr /\ r = <<LF>>)
    BY <1>1, <1>5
  <2> QED
    BY <1>1, <1>5, <2>1, ParseLine
<1>7. p.name \in Words /\ p.data \in Seq(Words) /\ p.events \in Seq(Events)
  BY <1>3 DEF Parsers, Events
<1> HIDE DEF b, c, p, q, pp, qq
<1>8. qq.cr => pp.cr
  BY <1>1, <1>4, <1>6
<1>9. qq.name = pp.name /\ qq.data = Rewritten(pp.data) /\ qq.events = RewrittenEvents(pp.events)
  <2>1. CASE b = <<>>
    <3>1. c = <<>>
      BY <1>1, <2>1
    <3>2. qq.name = pp.name
      BY <1>4, <1>6, <2>1, <3>1
    <3>3. qq.data = Rewritten(pp.data)
      <4>1. <<>> \in Seq(Words)
        OBVIOUS
      <4>2. Rewritten(<<>>) = <<>>
        BY <4>1, RewrittenSeq
      <4> QED
        BY <1>4, <1>6, <2>1, <3>1, <4>2
    <3>4. q.data = <<>> <=> p.data = <<>>
      BY <1>5, <1>7, RewrittenSeq
    <3>5. CASE p.data = <<>>
      BY <1>4, <1>5, <1>6, <2>1, <3>1, <3>2, <3>3, <3>4, <3>5
    <3>6. CASE p.data # <<>>
      <4> DEFINE e == [name |-> p.name, data |-> p.data]
                 f == [name |-> e.name, data |-> Rewritten(e.data)]
      <4>1. e \in Events
        BY <1>7 DEF Events
      <4>2. f = [name |-> q.name, data |-> q.data]
        BY <1>5
      <4> HIDE DEF e
      <4>3. RewrittenEvents(Append(p.events, e)) = Append(RewrittenEvents(p.events), f)
        BY <1>7, <4>1, RewrittenAppend
      <4>4. pp.events = Append(p.events, e)
        BY <1>4, <2>1, <3>6 DEF e
      <4> HIDE DEF f
      <4>5. qq.events = Append(q.events, f)
        BY <1>6, <3>1, <3>4, <3>6, <4>2
      <4>6. qq.events = RewrittenEvents(pp.events)
        BY <1>5, <4>3, <4>4, <4>5
      <4> QED
        BY <3>2, <3>3, <4>6
    <3> QED
      BY <3>5, <3>6
  <2>2. CASE b # <<>> /\ b[1] = "data:"
    <3> DEFINE u == Tail(b)
    <3>1. c = Rewritten(b)
      BY <1>1, <2>2
    <3>2. c # <<>> /\ c[1] = "data:" /\ Tail(c) = Rewritten(u) /\ u \in Seq(Words)
      <4>1. /\ Len(c) = Len(b) /\ Len(b) \in Nat
            /\ \A i \in 1..Len(b) : c[i] = rewriteOut(b[i])
            /\ c = <<>> <=> b = <<>>
        BY <1>2, <3>1, RewrittenSeq
      <4>2. Len(b) >= 1
        BY <1>2, <2>2
      <4>3. 1 \in 1..Len(b)
        BY <4>1, <4>2
      <4>4. c[1] = "data:"
        BY <2>2, <4>1, <4>3, RewrittenWord
      <4>5. Tail(c) = Rewritten(u) /\ u \in Seq(Words)
        BY <1>2, <2>2, <3>1, RewrittenTail
      <4> QED
        BY <2>2, <4>1, <4>4, <4>5
    <3> HIDE DEF u
    <3>3. Rewritten(p.data \o u) = Rewritten(p.data) \o Rewritten(u)
      BY <1>7, <3>2, RewrittenConcat
    <3>4. pp.data = p.data \o u
      BY <1>4, <2>2 DEF u
    <3>5. qq.data = Rewritten(pp.data)
      BY <1>5, <1>6, <3>2, <3>3, <3>4
    <3> QED
      BY <1>4, <1>5, <1>6, <2>2, <3>2, <3>5
  <2>3. CASE b # <<>> /\ b[1] # "data:"
    <3>1. c = b
      BY <1>1, <2>3
    <3> QED
      BY <1>4, <1>5, <1>6, <2>3, <3>1
  <2> QED
    BY <2>1, <2>2, <2>3
<1>10. Mirrors(pp, qq)
  BY <1>6, <1>8, <1>9 DEF Mirrors
<1>11. ASSUME l = <<LF>> PROVE Quiet(qq)
  <2>1. r = <<LF>> /\ LF # CR
    BY <1>1, <1>11 DEF LF, CR
  <2>2. c = <<>>
    BY <2>1, LoneLF DEF c
  <2>3. r[Len(r)] = LF
    BY <2>1
  <2>4. qq.cr = FALSE
    BY <1>6, <2>1, <2>3
  <2> QED
    BY <1>6, <2>2, <2>4 DEF Quiet
<1> QED
  BY <1>10, <1>11 DEF pp, qq, r

\* Tokens that end no line dispatch nothing.
LEMMA TornSilent ==
  ASSUME NEW o \in Seq(Words), NEW w \in Seq(Words), \A i \in 1..Len(w) : w[i] \notin Terminators
  PROVE  Parse(o \o w).events = Parse(o).events
<1>1. Parse(o \o w) = AfterBody(Parse(o), w) /\ Parse(o) \in Parsers
  BY ParseBody, ParseSteps
<1> DEFINE p == Parse(o)
           z == p.line \o w
<1>2. AfterBody(p, w) = IF w = <<>> THEN p ELSE [p EXCEPT !.line = z, !.cr = FALSE]
  BY <1>1 DEF AfterBody, Parsers
<1> HIDE DEF z
<1>3. AfterBody(p, w).events = p.events
  BY <1>1, <1>2 DEF Parsers
<1> QED
  BY <1>1, <1>3

\* A ping between events dispatches nothing and leaves the parser between
\* events.
LEMMA PingSilent ==
  ASSUME NEW o \in Seq(Words), AtLineStart(o), Quiet(Parse(o))
  PROVE  Quiet(Parse(o \o Ping)) /\ Parse(o \o Ping).events = Parse(o).events
<1> DEFINE a == <<":ping", LF>>
           b == <<LF>>
           p == Parse(o)
           q == Parse(o \o a)
           r == Parse((o \o a) \o b)
<1>1. o \o Ping = (o \o a) \o b
  BY PingGrows
<1>2. IsLine(b) /\ Body(b) = <<>>
  BY LoneLF
<1>3. ":ping" \in Words /\ LF \in Words /\ LF \in Terminators /\ ":ping" \notin Terminators /\ LF # CR
  <2>1. ":ping" \in Words /\ LF \in Words
    BY DEF Words
  <2>2. LF \in Terminators /\ ":ping" \notin Terminators /\ LF # CR
    BY DEF Terminators, LF, CR
  <2> QED
    BY <2>1, <2>2
<1>4. a \in Seq(Words) /\ Len(a) = 2 /\ a[1] = ":ping" /\ a[2] = LF /\ a # b
  BY <1>3
<1>5. b[Len(b)] = LF
  OBVIOUS
<1> HIDE DEF a, b
<1>6. IsLine(a)
  <2>1. \A i \in 1..(Len(a) - 1) : i = 1
    BY <1>4
  <2>2. \A i \in 1..(Len(a) - 1) : a[i] \notin Terminators
    BY <1>3, <1>4, <2>1
  <2>3. a # <<>>
    BY DEF a
  <2> QED
    BY <1>3, <1>4, <2>2, <2>3 DEF IsLine
<1>7. Body(a) # <<>> /\ Body(a)[1] = ":ping"
  <2>1. /\ \A i \in 1..(Len(a) - 1) : Body(a)[i] = a[i]
        /\ Body(a) = <<>> <=> Len(a) = 1
    BY <1>6, LineParts
  <2>2. 1 \in 1..(Len(a) - 1)
    BY <1>4
  <2> QED
    BY <1>4, <2>1, <2>2
<1>8. p.line = <<>> /\ p.name = NoName /\ p.data = <<>>
  BY DEF Quiet
<1>9. q.line = <<>> /\ q.cr = FALSE /\ q.name = NoName /\ q.data = <<>> /\ q.events = p.events
  <2>1. /\ q.line = <<>> /\ q.cr = (a[Len(a)] = CR)
        /\ Body(a) # <<>> => q.events = p.events
        /\ Body(a) # <<>> /\ Body(a)[1] \notin {"data:", "event:"} => q.name = p.name /\ q.data = p.data
    BY <1>6, <1>8, ParseLine
  <2>2. a[Len(a)] = LF
    BY <1>4
  <2>3. Body(a)[1] \notin {"data:", "event:"}
    BY <1>7
  <2> HIDE DEF p, q
  <2> QED
    BY <1>3, <1>7, <1>8, <2>1, <2>2, <2>3
<1>10. r.line = <<>> /\ r.cr = FALSE /\ r.name = NoName /\ r.data = <<>> /\ r.events = p.events
  <2>1. o \o a \in Seq(Words)
    BY <1>4
  <2> DEFINE z == o \o a
  <2>2. z \in Seq(Words) /\ q = Parse(z)
    BY <2>1
  <2>3. r = Parse(z \o b)
    OBVIOUS
  <2> HIDE DEF z, p, q, r
  <2>4. /\ r.line = <<>> /\ r.cr = (b[Len(b)] = CR)
        /\ ~(q.cr /\ b = <<LF>>) /\ Body(b) = <<>> =>
             /\ r.name = NoName /\ r.data = <<>>
             /\ r.events = IF q.data = <<>> THEN q.events ELSE Append(q.events, [name |-> q.name, data |-> q.data])
    BY <1>2, <1>9, <2>2, <2>3, ParseLine
  <2> QED
    BY <1>2, <1>3, <1>5, <1>9, <2>4
<1>11. Parse(o \o Ping) = r
  BY <1>1
<1> HIDE DEF r, p
<1>12. Quiet(r) /\ r.events = p.events
  BY <1>10 DEF Quiet
<1> QED
  BY <1>11, <1>12 DEF p

\* The client has been dispatched the upstream's events, rewritten: all of
\* those of the lines dealt with, unless the copy gave up on one; between lines
\* both parsers stand alike; and where the heartbeat sees a boundary, none of
\* an event has been received.
PassInv ==
  (input.surface = "openai" /\ ~HasCRLF) =>
    LET p == Parse(consumed)
        q == Parse(out)
        s == RewrittenEvents(p.events)
    IN  /\ IsPrefix(q.events, s)
        /\ result \in {"run", "eof", "reset", "line_cap"} =>
             /\ q.events = s
             /\ Whole => /\ Mirrors(p, q)
                         /\ p.cr => consumed # <<>> /\ consumed[Len(consumed)] = CR
        /\ hb.boundary /\ ~gone => Quiet(q)

\* Before the copy starts.
LEMMA InitPass == Init => PassInv
<1> SUFFICES ASSUME Init PROVE PassInv
  OBVIOUS
<1>1. out = <<>> /\ consumed = <<>>
  <2>1. out = <<>> /\ used = 0 /\ acc = 0
    BY DEF Init
  <2>2. BufferInv
    BY InitFraming DEF FramingInv
  <2>3. consumed \in Seq(Words) /\ Len(consumed) = 0
    BY <2>1, <2>2, BufferFacts
  <2> QED
    BY <2>1, <2>3
<1> DEFINE p == Parse(<<>>)
<1>2. p.line = <<>> /\ p.cr = FALSE /\ p.name = NoName /\ p.data = <<>> /\ p.events = <<>>
  <2>1. p = ParseStart
    BY ParseSteps
  <2> QED
    BY <2>1 DEF ParseStart
<1>3. Parse(consumed) = p /\ Parse(out) = p
  BY <1>1
<1> HIDE DEF p
<1>4. RewrittenEvents(p.events) = <<>>
  BY <1>2, RewrittenAppend
<1>5. IsPrefix(p.events, <<>>)
  <2>1. Len(<<>>) <= Len(<<>>)
    OBVIOUS
  <2> QED
    BY <1>2, <2>1 DEF IsPrefix
<1>6. Quiet(p)
  BY <1>2 DEF Quiet
<1>7. Mirrors(p, p)
  <2>1. <<>> \in Seq(Words)
    OBVIOUS
  <2>2. Rewritten(<<>>) = <<>>
    BY <2>1, RewrittenSeq
  <2> QED
    BY <1>2, <1>4, <2>2 DEF Mirrors
<1> QED
  BY <1>2, <1>3, <1>4, <1>5, <1>6, <1>7 DEF PassInv

\* A step that neither writes nor deals with a line.
LEMMA PassQuiet ==
  ASSUME PassInv, out' = out, input' = input, consumed' = consumed,
         result' \in {"run", "eof", "reset", "line_cap"} => result \in {"run", "eof", "reset", "line_cap"},
         hb'.boundary /\ ~gone' => hb.boundary /\ ~gone
  PROVE  PassInv'
<1>1. HasCRLF' = HasCRLF
  BY DEF HasCRLF, wire
<1>2. Whole' = Whole
  BY DEF Whole, AtLineStart
<1>3. Parse(out') = Parse(out) /\ Parse(consumed') = Parse(consumed)
  OBVIOUS
<1> QED
  BY <1>1, <1>2, <1>3 DEF PassInv

\* A tick of the heartbeat.
LEMMA PassPing ==
  ASSUME OutInv, PassInv, maybePing
  PROVE  PassInv'
<1>1. /\ hb.boundary /\ UNCHANGED <<input, result, gone>> /\ consumed' = consumed
      /\ IF gone THEN out' = out ELSE out' = out \o Ping
  BY DEF maybePing, consumed, wire
<1>2. CASE gone
  BY <1>1, <1>2, PassQuiet
<1>3. CASE ~gone
  <2>1. /\ out \in Seq(Words) /\ AtLineStart(out)
    BY <1>1, <1>3 DEF OutInv, OutTypeOK
  <2>2. HasCRLF' = HasCRLF /\ Whole' = Whole
    BY <1>1 DEF HasCRLF, wire, Whole, AtLineStart
  <2> SUFFICES ASSUME input.surface = "openai", ~HasCRLF
               PROVE  LET p == Parse(consumed)'
                          q == Parse(out)'
                          s == RewrittenEvents(p.events)
                      IN  /\ IsPrefix(q.events, s)
                          /\ (result \in {"run", "eof", "reset", "line_cap"})' =>
                               /\ q.events = s
                               /\ Whole' => /\ Mirrors(p, q)
                                            /\ p.cr => (consumed # <<>> /\ consumed[Len(consumed)] = CR)'
                          /\ (hb.boundary /\ ~gone)' => Quiet(q)
    BY <1>1, <2>2 DEF PassInv
  <2> DEFINE p == Parse(consumed)
             q == Parse(out)
             r == Parse(out \o Ping)
             s == RewrittenEvents(p.events)
  <2>3. /\ IsPrefix(q.events, s)
        /\ result \in {"run", "eof", "reset", "line_cap"} =>
             /\ q.events = s
             /\ Whole => /\ Mirrors(p, q)
                         /\ p.cr => consumed # <<>> /\ consumed[Len(consumed)] = CR
        /\ Quiet(q)
    BY <1>1, <1>3 DEF PassInv
  <2>4. Quiet(r) /\ r.events = q.events
    BY <2>1, <2>3, PingSilent
  <2>5. Parse(consumed)' = p /\ Parse(out)' = r /\ result' = result
    BY <1>1, <1>3
  <2> HIDE DEF p, q, r, s
  <2>6. Mirrors(p, q) => Mirrors(p, r)
    BY <2>3, <2>4 DEF Mirrors, Quiet
  <2>7. RewrittenEvents(p.events) = s
    BY DEF s
  <2> QED
    BY <1>1, <2>2, <2>3, <2>4, <2>5, <2>6, <2>7
<1> QED
  BY <1>2, <1>3

\* What the client is owed grows with each piece dealt with.
LEMMA OwedGrows ==
  ASSUME NEW s \in Seq(Words), NEW l, IsPiece(l), Parse(s).line = <<>>
  PROVE  LET a == RewrittenEvents(Parse(s).events)
             b == RewrittenEvents(Parse(s \o l).events)
         IN  /\ IsPrefix(a, b) /\ IsPrefix(b, b)
             /\ l[Len(l)] \notin Terminators => b = a
<1> DEFINE p == Parse(s)
           q == Parse(s \o l)
           a == RewrittenEvents(p.events)
           b == RewrittenEvents(q.events)
<1>0. l \in Seq(Words) /\ Len(l) \in Nat /\ Len(l) >= 1 /\ l # <<>>
      /\ \A i \in 1..(Len(l) - 1) : l[i] \notin Terminators
  BY DEF IsPiece
<1>1. p.events \in Seq(Events)
  <2>1. p \in Parsers
    BY ParseSteps
  <2> QED
    BY <2>1 DEF Parsers, Events
<1>2. \/ q.events = p.events
      \/ /\ l[Len(l)] \in Terminators
         /\ \E e \in Events : q.events = Append(p.events, e)
  <2>1. CASE l[Len(l)] \in Terminators
    <3>1. IsLine(l)
      BY <1>0, <2>1 DEF IsLine
    <3> QED
      BY <2>1, <3>1, EventsGrow
  <2>2. CASE l[Len(l)] \notin Terminators
    <3>1. \A i \in 1..Len(l) : i \in 1..(Len(l) - 1) \/ i = Len(l)
      BY <1>0
    <3>2. \A i \in 1..Len(l) : l[i] \notin Terminators
      BY <1>0, <2>2, <3>1
    <3> QED
      BY <1>0, <3>2, TornSilent
  <2> QED
    BY <2>1, <2>2
<1> HIDE DEF p, q
<1>3. a \in Seq(Events)
  BY <1>1, RewrittenAppend
<1>4. \A x \in Seq(Events) : IsPrefix(x, x)
  <2> TAKE x \in Seq(Events)
  <2>1. Len(x) <= Len(x)
    OBVIOUS
  <2> QED
    BY <2>1 DEF IsPrefix
<1>5. CASE q.events = p.events
  <2>1. b = a
    BY <1>5
  <2> HIDE DEF a, b
  <2>2. IsPrefix(a, a)
    BY <1>3, <1>4
  <2>3. IsPrefix(a, b) /\ IsPrefix(b, b) /\ b = a
    BY <2>1, <2>2
  <2> QED
    BY <2>3 DEF a, b, p, q
<1>6. ASSUME NEW e \in Events, q.events = Append(p.events, e), l[Len(l)] \in Terminators
      PROVE  IsPrefix(a, b) /\ IsPrefix(b, b)
  <2> DEFINE f == [name |-> e.name, data |-> Rewritten(e.data)]
  <2>1. b = Append(a, f)
    BY <1>1, <1>6, RewrittenAppend
  <2>2. f \in Events
    <3>1. e.name \in Words /\ e.data \in Seq(Words)
      BY DEF Events
    <3>2. Rewritten(e.data) \in Seq(Words)
      BY <3>1, RewrittenSeq
    <3> QED
      BY <3>1, <3>2 DEF Events
  <2> HIDE DEF f, a, b
  <2>3. IsPrefix(a, a)
    BY <1>3, <1>4
  <2>4. IsPrefix(a, Append(a, f))
    BY <1>3, <2>2, <2>3, PrefixGrowth
  <2>5. b \in Seq(Events)
    BY <1>3, <2>1, <2>2
  <2>6. IsPrefix(b, b)
    BY <1>4, <2>5
  <2> QED
    BY <2>1, <2>4, <2>6
<1>7. CASE \E e \in Events : q.events = Append(p.events, e) /\ l[Len(l)] \in Terminators
  BY <1>6, <1>7 DEF a, b, p, q
<1> QED
  BY <1>2, <1>5, <1>7

\* A line of the upstream's.
LEMMA PassTaken ==
  ASSUME FramingInv, OutInv, PassInv, ReadLine \/ ReadEnd
  PROVE  PassInv'
<1>1. /\ UNCHANGED <<input, gone>> /\ result = "run" /\ wire' = wire
      /\ \/ /\ UNCHANGED <<out, hb>> /\ consumed' = consumed
            /\ result' \in {"run", "line_cap"}
         \/ \E line \in Seq(Words) :
              /\ IsPiece(line) /\ Foreign(line) /\ consumed' = consumed \o line
              /\ Whole /\ Agrees /\ TakeLine(line, "run")
              /\ line[Len(line)] \notin Terminators => ~Whole'
              /\ (line = <<LF>> /\ consumed # <<>> /\ consumed[Len(consumed)] = CR) => HasCRLF
  BY TakenLine
<1>2. CASE UNCHANGED <<out, hb>> /\ consumed' = consumed /\ result' \in {"run", "line_cap"}
  BY <1>1, <1>2, PassQuiet
<1>3. ASSUME NEW line \in Seq(Words), IsPiece(line), Foreign(line), consumed' = consumed \o line,
             Whole, Agrees, TakeLine(line, "run"),
             line[Len(line)] \notin Terminators => ~Whole',
             (line = <<LF>> /\ consumed # <<>> /\ consumed[Len(consumed)] = CR) => HasCRLF
      PROVE  PassInv'
  <2> DEFINE text == rewriteSSELine(line)
             p == Parse(consumed)
             q == Parse(out)
             s == RewrittenEvents(p.events)
             pp == Parse(consumed \o line)
             ss == RewrittenEvents(pp.events)
  <2>1. HasCRLF' = HasCRLF
    BY <1>1 DEF HasCRLF
  <2> SUFFICES ASSUME input.surface = "openai", ~HasCRLF
               PROVE  LET qq == Parse(out')
                      IN  /\ IsPrefix(qq.events, ss)
                          /\ result' \in {"run", "eof", "reset", "line_cap"} =>
                               /\ qq.events = ss
                               /\ Whole' => /\ Mirrors(pp, qq)
                                            /\ pp.cr => consumed' # <<>> /\ consumed'[Len(consumed')] = CR
                          /\ hb'.boundary /\ ~gone' => Quiet(qq)
    BY <1>1, <1>3, <2>1 DEF PassInv
  <2>2. /\ q.events = s /\ Mirrors(p, q)
        /\ p.cr => consumed # <<>> /\ consumed[Len(consumed)] = CR
        /\ hb.boundary /\ ~gone => Quiet(q)
    BY <1>1, <1>3 DEF PassInv
  <2>3. p.line = <<>>
    BY <1>3 DEF Agrees
  <2>4. consumed \in Seq(Words) /\ out \in Seq(Words) /\ Len(consumed) \in Nat /\ gone \in BOOLEAN
    <3>1. BufferInv
      BY DEF FramingInv
    <3>2. consumed \in Seq(Words)
      BY <3>1, BufferFacts
    <3> QED
      BY <3>2 DEF OutInv, OutTypeOK
  <2>5. line \in Seq(Words) /\ Len(line) \in Nat /\ Len(line) >= 1 /\ line # <<>>
        /\ \A i \in 1..(Len(line) - 1) : line[i] \notin Terminators
    BY <1>3 DEF IsPiece
  <2>6. IsPrefix(s, ss) /\ IsPrefix(ss, ss) /\ (line[Len(line)] \notin Terminators => ss = s)
    BY <1>3, <2>3, <2>4, OwedGrows
  <2>7. /\ IsPiece(text) /\ Foreign(text)
        /\ text[Len(text)] \in Terminators <=> line[Len(line)] \in Terminators
    BY <1>3, RewriteForeign
  <2>8. \/ result' = "event_cap" /\ UNCHANGED <<out, hb>>
        \/ \E n \in Accepted(text) : Write(n, text) /\ result' = IF n < Len(text) THEN "write_err" ELSE "run"
    <3>1. RelayLine(line, "run")
      BY <1>3 DEF TakeLine
    <3> QED
      BY <3>1, RelayWrites
  <2>9. CASE result' = "event_cap" /\ UNCHANGED <<out, hb>>
    <3>1. Parse(out') = q
      BY <2>9
    <3> HIDE DEF q, s, ss, pp, p
    <3> QED
      BY <1>1, <2>2, <2>6, <2>9, <3>1
  <2>10. ASSUME NEW n \in Accepted(text), Write(n, text),
                result' = IF n < Len(text) THEN "write_err" ELSE "run"
         PROVE  LET qq == Parse(out')
                IN  /\ IsPrefix(qq.events, ss)
                    /\ result' \in {"run", "eof", "reset", "line_cap"} =>
                         /\ qq.events = ss
                         /\ Whole' => /\ Mirrors(pp, qq)
                                      /\ pp.cr => consumed' # <<>> /\ consumed'[Len(consumed')] = CR
                    /\ hb'.boundary /\ ~gone' => Quiet(qq)
    <3>1. /\ ~gone => n = Len(text) /\ out' = out \o text /\ (hb'.boundary => endsWithBlankLine(text))
          /\ gone => /\ n < Len(text)
                     /\ \E w \in Seq(Words) : out' = out \o w /\ \A i \in 1..Len(w) : w[i] \notin Terminators
      <4>1. OutTypeOK
        BY DEF OutInv
      <4> HIDE DEF text
      <4> QED
        BY <2>7, <2>10, <4>1, WriteFacts
    <3>2. CASE gone
      <4>1. PICK w \in Seq(Words) : out' = out \o w /\ \A i \in 1..Len(w) : w[i] \notin Terminators
        BY <3>1, <3>2
      <4>2. Parse(out \o w).events = Parse(out).events
        BY <2>4, <4>1, TornSilent
      <4>3. Parse(out').events = s
        BY <2>2, <4>1, <4>2
      <4>4. result' = "write_err" /\ gone'
        BY <1>1, <2>10, <3>1, <3>2
      <4> HIDE DEF s, ss, pp
      <4> QED
        BY <2>6, <4>3, <4>4
    <3>3. CASE ~gone /\ line[Len(line)] \in Terminators
      <4> DEFINE qq == Parse(out \o text)
      <4>1. IsLine(line)
        BY <2>5, <3>3 DEF IsLine
      <4>2. line = <<LF>> => ~p.cr
        BY <1>3, <2>2
      <4>3. Mirrors(pp, qq) /\ (line = <<LF>> => Quiet(qq))
        BY <2>2, <2>3, <2>4, <4>1, <4>2, MirroredLine
      <4>4. pp.cr => line[Len(line)] = CR
        BY <2>3, <2>4, <4>1, EventsGrow
      <4>5. consumed' # <<>> /\ consumed'[Len(consumed')] = line[Len(line)]
        <5> DEFINE x == consumed \o line
        <5>1. /\ Len(x) = Len(consumed) + Len(line)
              /\ x[Len(consumed) + Len(line)] = line[Len(line)] /\ x \in Seq(Words)
          <6>1. 0 \in 0..Len(consumed) /\ Len(line) \in 1..Len(line)
            BY <2>4, <2>5
          <6> QED
            BY <2>4, <2>5, <6>1, PrefixStays
        <5>2. consumed' = x
          BY <1>3
        <5> HIDE DEF x
        <5>3. x # <<>>
          BY <2>4, <2>5, <5>1
        <5> QED
          BY <5>1, <5>2, <5>3
      <4>6. hb'.boundary => line = <<LF>>
        <5>1. endsWithBlankLine(text) => text = <<LF>>
          BY <2>7, BlankOnly
        <5>2. text = <<LF>> <=> line = <<LF>>
          BY <4>1, RewrittenLine
        <5> QED
          BY <3>1, <3>3, <5>1, <5>2
      <4>7. out' = out \o text
        BY <3>1, <3>3
      <4>8. Parse(out') = qq
        BY <4>7
      <4> HIDE DEF qq, pp, p, q, ss
      <4>9. qq.events = ss
        BY <4>3 DEF Mirrors, ss
      <4> QED
        BY <2>6, <4>3, <4>4, <4>5, <4>6, <4>8, <4>9
    <3>4. CASE ~gone /\ line[Len(line)] \notin Terminators
      <4>1. text[Len(text)] \notin Terminators /\ text \in Seq(Words) /\ Len(text) \in Nat
            /\ \A i \in 1..(Len(text) - 1) : text[i] \notin Terminators
        BY <2>7, <3>4 DEF IsPiece
      <4>2. \A i \in 1..Len(text) : text[i] \notin Terminators
        <5>1. \A i \in 1..Len(text) : i \in 1..(Len(text) - 1) \/ i = Len(text)
          BY <4>1
        <5> QED
          BY <4>1, <5>1
      <4>3. Parse(out \o text).events = Parse(out).events
        <5> HIDE DEF text
        <5> QED
          BY <2>4, <4>1, <4>2, TornSilent
      <4>4. out' = out \o text
        BY <3>1, <3>4
      <4>5. Parse(out').events = ss
        BY <2>2, <2>6, <3>4, <4>3, <4>4
      <4>6. ~hb'.boundary
        <5>1. endsWithBlankLine(text) => text = <<LF>>
          BY <2>7, BlankOnly
        <5>2. text # <<LF>>
          <6>1. LF \in Terminators
            BY DEF Terminators
          <6> HIDE DEF text
          <6>2. text = <<LF>> => text[Len(text)] = LF
            OBVIOUS
          <6> QED
            BY <4>1, <6>1, <6>2
        <5> QED
          BY <3>1, <3>4, <5>1, <5>2
      <4>7. ~Whole'
        BY <1>3, <3>4
      <4> HIDE DEF pp, ss
      <4> QED
        BY <2>6, <4>5, <4>6, <4>7
    <3> QED
      BY <3>2, <3>3, <3>4
  <2> QED
    BY <2>8, <2>9, <2>10
<1> QED
  BY <1>1, <1>2, <1>3

\* Every step keeps what the client was dispatched.
LEMMA NextPass == FramingInv /\ OutInv /\ PassInv /\ [Next]_vars => PassInv'
<1> SUFFICES ASSUME FramingInv, OutInv, PassInv, [Next]_vars PROVE PassInv'
  OBVIOUS
<1>1. CASE ReadLine \/ ReadEnd
  BY <1>1, PassTaken
<1>2. CASE maybePing
  BY <1>2, PassPing
<1>3. CASE WriteFrame
  <2>1. frames # <<>> /\ input' = input
    BY <1>3 DEF WriteFrame
  <2>2. input.surface # "openai"
    BY <2>1 DEF FramingInv
  <2> QED
    BY <2>1, <2>2 DEF PassInv
<1>4. CASE CopyReturns
  <2>1. UNCHANGED <<input, used, acc, out, hb, gone>> /\ result = "run"
    BY <1>4 DEF CopyReturns, Running
  <2>2. consumed' = consumed
    BY <2>1 DEF consumed, wire
  <2> QED
    BY <2>1, <2>2, PassQuiet
<1>5. CASE (\E k \in input.reads : Fill(k)) \/ StopHeartbeat \/ HeartbeatExits \/ Join \/ ClientLeaves \/ Done
           \/ UNCHANGED vars
  <2>1. /\ UNCHANGED <<input, used, acc, out, result>>
        /\ gone' = gone \/ gone' = TRUE
        /\ hb' \in {hb, [hb EXCEPT !.finished = TRUE], [hb EXCEPT !.live = FALSE]}
    BY <1>5 DEF Fill, StopHeartbeat, HeartbeatExits, Join, ClientLeaves, Done, vars
  <2>2. hb'.boundary = hb.boundary
    BY <2>1 DEF OutInv, OutTypeOK, Heartbeats
  <2>3. ~gone' => ~gone
    <3>1. CASE gone' = gone
      BY <3>1
    <3>2. CASE gone' = TRUE
      BY <3>2
    <3> QED
      BY <2>1, <3>1, <3>2
  <2>4. consumed' = consumed
    BY <2>1 DEF consumed, wire
  <2> QED
    BY <2>1, <2>2, <2>3, <2>4, PassQuiet
<1> QED
  BY <1>1, <1>2, <1>3, <1>4, <1>5 DEF Next

\* What the client is dispatched, at every moment.
THEOREM PassHolds == Spec => [](FramingInv /\ OutInv /\ PassInv)
<1>1. Init => FramingInv /\ OutInv /\ PassInv
  BY InitFraming, InitOut, InitPass
<1>2. FramingInv /\ OutInv /\ PassInv /\ [Next]_vars => (FramingInv /\ OutInv /\ PassInv)'
  BY NextFraming, NextOut, NextPass
<1> QED
  BY <1>1, <1>2, PTL DEF Spec

\* The heartbeat is invisible to the client of a passthrough stream, and silent
\* after a terminal marker on every surface, whatever the upstream sends without
\* CRLF, however its reads are split and whenever the client leaves
\* (pingWriter.maybePing, pingWriter.Write).
THEOREM PingsAreInvisible == Spec => []PingsInvisible
<1>1. FramingInv /\ OutInv /\ PassInv => PingsInvisible
  <2> SUFFICES ASSUME FramingInv, OutInv, PassInv PROVE PingsInvisible
    OBVIOUS
  <2>1. \A j \in 1..Len(out) : out[j] = ":ping" => ~MarkerLine(SubSeq(out, 1, j - 1))
    BY DEF OutInv, PingsBefore
  <2>2. ASSUME input.surface = "openai", ~HasCRLF
        PROVE  LET seen == Parse(out).events
                   sent == RewrittenEvents(Parse(consumed).events)
               IN  /\ IsPrefix(seen, sent)
                   /\ result \notin {"write_err", "event_cap"} => seen = sent
    <3>1. result \in Results
      BY DEF FramingInv, AccountTypeOK
    <3>2. result \notin {"write_err", "event_cap"} => result \in {"run", "eof", "reset", "line_cap"}
      BY <3>1 DEF Results
    <3> QED
      BY <2>2, <3>2 DEF PassInv
  <2> QED
    BY <2>1, <2>2 DEF PingsInvisible
<1> QED
  BY <1>1, PassHolds, PTL

-----------------------------------------------------------------------------
(* The grammar of a message.                                               *)

EventNames == {"message_start", "content_block_start", "content_block_delta", "content_block_stop",
               "message_delta", "message_stop", "error"}
Openings == "content_block_start"
Closings == "content_block_stop"

\* The positions up to i of the events of one name; blocks opened and closed
\* up to i, and the last one opened.
NamedIn(ev, n, i) == {j \in 1..i : ev[j].name = n}
StartsIn(ev, i) == Cardinality(NamedIn(ev, Openings, i))
StopsIn(ev, i) == Cardinality(NamedIn(ev, Closings, i))
LastStart(ev, i) == CHOOSE j \in NamedIn(ev, Openings, i) : \A k \in NamedIn(ev, Openings, i) : k <= j

\* The i-th event fits what came before it.
Fits(ev, i) ==
  /\ ev[i].name \in EventNames /\ ev[i].data # <<>>
  /\ ev[i].name = "message_start" => i = 1
  /\ ev[i].name = Openings =>
       i > 1 /\ StartsIn(ev, i - 1) = StopsIn(ev, i - 1) /\ Tail(ev[i].data) = Index(StartsIn(ev, i - 1))
  /\ ev[i].name = "content_block_delta" =>
       /\ StartsIn(ev, i) = StopsIn(ev, i) + 1
       /\ LastStart(ev, i) \in 1..i /\ ev[i].data = ev[LastStart(ev, i)].data
  /\ ev[i].name = Closings =>
       /\ StartsIn(ev, i) = StopsIn(ev, i)
       /\ LastStart(ev, i) \in 1..i /\ Tail(ev[i].data) = Tail(ev[LastStart(ev, i)].data)
  /\ ev[i].name = "message_delta" =>
       i > 1 /\ StartsIn(ev, i) = StopsIn(ev, i) /\ NamedIn(ev, "message_delta", i) = {i}
  /\ ev[i].name = "message_stop" => i > 1 /\ ev[i - 1].name = "message_delta"

\* The i-th event may be followed by others, or is the last.
Ends(ev, i) == ev[i].name \in {"error", "message_stop"} => i = Len(ev)

\* Events that fit and end make a well-formed message.
LEMMA FittingEvents ==
  ASSUME NEW ev, \A i \in 1..Len(ev) : Fits(ev, i) /\ Ends(ev, i)
  PROVE  WellFormedMessage(ev)
<1> DEFINE Arm(i) ==
           CASE ev[i].name = "message_start" -> i = 1
             [] ev[i].name = "error" -> i = Len(ev)
             [] ev[i].name = "content_block_start" ->
                    /\ i > 1
                    /\ StartsIn(ev, i - 1) = StopsIn(ev, i - 1)
                    /\ Tail(ev[i].data) = Index(StartsIn(ev, i - 1))
             [] ev[i].name = "content_block_delta" ->
                    /\ StartsIn(ev, i) = StopsIn(ev, i) + 1
                    /\ ev[i].data = ev[LastStart(ev, i)].data
             [] ev[i].name = "content_block_stop" ->
                    /\ StartsIn(ev, i) = StopsIn(ev, i)
                    /\ Tail(ev[i].data) = Tail(ev[LastStart(ev, i)].data)
             [] ev[i].name = "message_delta" ->
                    i > 1 /\ StartsIn(ev, i) = StopsIn(ev, i) /\ NamedIn(ev, "message_delta", i) = {i}
             [] ev[i].name = "message_stop" ->
                    i = Len(ev) /\ i > 1 /\ ev[i - 1].name = "message_delta"
             [] OTHER -> FALSE
<1>1. WellFormedMessage(ev) = \A i \in 1..Len(ev) : Arm(i)
  BY DEF WellFormedMessage, StartsIn, StopsIn, LastStart, NamedIn, Openings, Closings
<1>2. ASSUME NEW i \in 1..Len(ev) PROVE Arm(i)
  BY <1>2 DEF Fits, Ends, EventNames, Openings, Closings
<1> QED
  BY <1>1, <1>2

\* What an event may look back at depends on nothing after it.
LEMMA FitsAgrees ==
  ASSUME NEW ev, NEW f, NEW i \in Nat, i >= 1, \A j \in 1..i : f[j] = ev[j]
  PROVE  /\ \A n : \A k \in 0..i : NamedIn(f, n, k) = NamedIn(ev, n, k)
         /\ Fits(ev, i) => Fits(f, i)
<1>1. ASSUME NEW n, NEW k \in 0..i PROVE NamedIn(f, n, k) = NamedIn(ev, n, k)
  <2>1. \A j \in 1..k : f[j] = ev[j]
    OBVIOUS
  <2> QED
    BY <2>1 DEF NamedIn
<1>2. i \in 0..i /\ i - 1 \in 0..i /\ i \in 1..i /\ (i > 1 => i - 1 \in 1..i)
  OBVIOUS
<1>3. /\ StartsIn(f, i) = StartsIn(ev, i) /\ StopsIn(f, i) = StopsIn(ev, i)
      /\ StartsIn(f, i - 1) = StartsIn(ev, i - 1) /\ StopsIn(f, i - 1) = StopsIn(ev, i - 1)
      /\ LastStart(f, i) = LastStart(ev, i) /\ NamedIn(f, "message_delta", i) = NamedIn(ev, "message_delta", i)
  BY <1>1, <1>2 DEF StartsIn, StopsIn, LastStart
<1>4. f[i] = ev[i] /\ (i > 1 => f[i - 1] = ev[i - 1])
  BY <1>2
<1>5. LastStart(ev, i) \in 1..i => f[LastStart(ev, i)] = ev[LastStart(ev, i)]
  OBVIOUS
<1>6. ASSUME Fits(ev, i) PROVE Fits(f, i)
  BY <1>3, <1>4, <1>5, <1>6 DEF Fits
<1> QED
  BY <1>1, <1>6

\* Positions are finitely many.
LEMMA NamedCount ==
  ASSUME NEW ev, NEW n, NEW i \in Nat
  PROVE  IsFiniteSet(NamedIn(ev, n, i)) /\ Cardinality(NamedIn(ev, n, i)) \in Nat
<1>1. IsFiniteSet(1..i)
  BY FS_Interval
<1>2. NamedIn(ev, n, i) \subseteq 1..i
  BY DEF NamedIn
<1>3. IsFiniteSet(NamedIn(ev, n, i))
  BY <1>1, <1>2, FS_Subset
<1> QED
  BY <1>3, FS_CardinalityType

\* One event more: the counts, the last block opened, and the fit of those
\* before.
LEMMA EventAppended ==
  ASSUME NEW ev \in Seq(Events), \A i \in 1..Len(ev) : Fits(ev, i), NEW e \in Events
  PROVE  LET f == Append(ev, e)
             n == Len(ev)
         IN  /\ f \in Seq(Events) /\ n \in Nat /\ Len(f) = n + 1 /\ f[n + 1] = e
             /\ \A i \in 1..n : f[i] = ev[i] /\ Fits(f, i)
             /\ StartsIn(ev, n) \in Nat /\ StopsIn(ev, n) \in Nat
             /\ StartsIn(f, n) = StartsIn(ev, n) /\ StopsIn(f, n) = StopsIn(ev, n)
             /\ StartsIn(f, n + 1) = IF e.name = Openings THEN StartsIn(ev, n) + 1 ELSE StartsIn(ev, n)
             /\ StopsIn(f, n + 1) = IF e.name = Closings THEN StopsIn(ev, n) + 1 ELSE StopsIn(ev, n)
             /\ LastStart(f, n + 1) = IF e.name = Openings THEN n + 1 ELSE LastStart(ev, n)
             /\ e.name = "message_delta" /\ (\A i \in 1..n : ev[i].name # "message_delta") =>
                  NamedIn(f, "message_delta", n + 1) = {n + 1}
<1> DEFINE f == Append(ev, e)
           n == Len(ev)
<1>1. f \in Seq(Events) /\ n \in Nat /\ Len(f) = n + 1 /\ f[n + 1] = e /\ \A i \in 1..n : f[i] = ev[i]
  OBVIOUS
<1> HIDE DEF f, n
<1>2. \A i \in 1..n : Fits(f, i)
  <2> TAKE i \in 1..n
  <2>1. i \in Nat /\ i >= 1 /\ \A j \in 1..i : f[j] = ev[j]
    BY <1>1
  <2>2. Fits(ev, i)
    BY DEF n
  <2> QED
    BY <2>1, <2>2, FitsAgrees
<1>3. \A x : NamedIn(f, x, n) = NamedIn(ev, x, n)
  BY <1>1 DEF NamedIn
<1>4. \A x : NamedIn(f, x, n + 1) = IF e.name = x THEN NamedIn(f, x, n) \cup {n + 1} ELSE NamedIn(f, x, n)
  <2> TAKE x
  <2>1. \A j : j \in 1..(n + 1) <=> j \in 1..n \/ j = n + 1
    BY <1>1
  <2> QED
    BY <1>1, <2>1 DEF NamedIn
<1>5. \A x : n + 1 \notin NamedIn(f, x, n)
  BY <1>1 DEF NamedIn
<1>6. \A x : /\ IsFiniteSet(NamedIn(f, x, n)) /\ Cardinality(NamedIn(f, x, n)) \in Nat
  BY <1>1, NamedCount
<1>7. \A x : Cardinality(NamedIn(f, x, n + 1)) =
             IF e.name = x THEN Cardinality(NamedIn(f, x, n)) + 1 ELSE Cardinality(NamedIn(f, x, n))
  <2> TAKE x
  <2>1. Cardinality(NamedIn(f, x, n) \cup {n + 1}) = Cardinality(NamedIn(f, x, n)) + 1
    BY <1>5, <1>6, FS_AddElement
  <2> QED
    BY <1>4, <2>1
<1>8. LastStart(f, n + 1) = IF e.name = Openings THEN n + 1 ELSE LastStart(ev, n)
  <2> DEFINE S == NamedIn(f, Openings, n + 1)
  <2>1. CASE e.name = Openings
    <3>1. n + 1 \in S /\ \A k \in S : k <= n + 1 /\ k \in Nat
      <4>1. n + 1 \in S
        BY <1>4, <2>1
      <4>2. \A k \in S : k \in 1..(n + 1)
        BY DEF NamedIn
      <4> QED
        BY <1>1, <4>1, <4>2
    <3>2. LastStart(f, n + 1) = CHOOSE j \in S : \A k \in S : k <= j
      BY DEF LastStart
    <3> HIDE DEF S
    <3>3. \A j \in S : (\A k \in S : k <= j) => j = n + 1
      BY <1>1, <3>1
    <3>4. (CHOOSE j \in S : \A k \in S : k <= j) = n + 1
      BY <3>1, <3>3
    <3> QED
      BY <2>1, <3>2, <3>4
  <2>2. CASE e.name # Openings
    <3>1. NamedIn(f, Openings, n + 1) = NamedIn(ev, Openings, n)
      BY <1>3, <1>4, <2>2
    <3> QED
      BY <2>2, <3>1 DEF LastStart
  <2> QED
    BY <2>1, <2>2
<1>9. ASSUME e.name = "message_delta", \A i \in 1..n : ev[i].name # "message_delta"
      PROVE  NamedIn(f, "message_delta", n + 1) = {n + 1}
  <2>1. NamedIn(ev, "message_delta", n) = {}
    BY <1>9 DEF NamedIn
  <2> QED
    BY <1>3, <1>4, <1>9, <2>1
<1> QED
  BY <1>1, <1>2, <1>3, <1>6, <1>7, <1>8, <1>9 DEF StartsIn, StopsIn, f, n

\* The events told so far fit one another and are those the translator counts:
\* as many blocks opened as it has numbered, all of them closed but the open
\* one, which is the last.
Spoken(ev, s) ==
  /\ ev \in Seq(Events) /\ \A i \in 1..Len(ev) : Fits(ev, i)
  /\ StartsIn(ev, Len(ev)) = s.nextIndex
  /\ StopsIn(ev, Len(ev)) = IF s.openKind = "none" THEN s.nextIndex ELSE s.nextIndex - 1
  /\ s.openKind # "none" =>
       /\ LastStart(ev, Len(ev)) \in 1..Len(ev)
       /\ ev[LastStart(ev, Len(ev))].data = <<s.openKind>> \o Index(s.openIndex)

\* A message that has begun and may go on.
Unended(ev) ==
  ev # <<>> /\ \A i \in 1..Len(ev) : ev[i].name \notin {"message_delta", "message_stop", "error"}

\* An event, as the translator states it.
Event(name, data) == [name |-> name, data |-> data]

\* Only the numbering and the open block of a translator are spoken of.
LEMMA SpokenState ==
  ASSUME NEW ev, NEW s, NEW t, Spoken(ev, s),
         t.nextIndex = s.nextIndex, t.openKind = s.openKind, t.openIndex = s.openIndex
  PROVE  Spoken(ev, t)
BY DEF Spoken

\* The data of an event: a word, then an index.
LEMMA WordAndIndex ==
  ASSUME NEW k \in Contents, NEW n \in Nat
  PROVE  LET d == <<k>> \o Index(n)
         IN  d \in Seq(Contents) /\ d \in Seq(Words) /\ d # <<>> /\ Tail(d) = Index(n)
<1> DEFINE x == Index(n)
           d == <<k>> \o x
<1>1. x \in Seq(Contents)
  <2>1. "I" \in Contents
    BY DEF Contents
  <2>2. x \in [1..n -> Contents]
    BY <2>1 DEF Index
  <2> QED
    BY <2>2
<1> HIDE DEF x
<1>2. <<k>> \in Seq(Contents) /\ Len(<<k>>) = 1
  OBVIOUS
<1>3. /\ d \in Seq(Contents) /\ Len(d) = Len(<<k>>) + Len(x)
      /\ \A i \in 1..(Len(<<k>>) + Len(x)) : d[i] = IF i <= Len(<<k>>) THEN <<k>>[i] ELSE x[i - Len(<<k>>)]
  BY <1>1, <1>2, ConcatProperties
<1>4. Len(x) \in Nat
  BY <1>1
<1> HIDE DEF d
<1>5. d # <<>> /\ Len(d) = Len(x) + 1
  BY <1>2, <1>3, <1>4
<1>6. \A i \in 1..Len(x) : d[i + 1] = x[i]
  <2> TAKE i \in 1..Len(x)
  <2>1. i + 1 \in 1..(Len(<<k>>) + Len(x)) /\ ~(i + 1 <= Len(<<k>>)) /\ (i + 1) - Len(<<k>>) = i
    BY <1>2, <1>4
  <2> QED
    BY <1>3, <2>1
<1>7. Tail(d) \in Seq(Contents) /\ Len(Tail(d)) = Len(x) /\ \A i \in 1..Len(x) : Tail(d)[i] = d[i + 1]
  BY <1>3, <1>4, <1>5
<1> DEFINE t == Tail(d)
<1> HIDE DEF t
<1>8. t \in Seq(Contents) /\ Len(t) = Len(x) /\ \A i \in 1..Len(x) : t[i] = x[i]
  BY <1>6, <1>7 DEF t
<1>9. t = x
  BY <1>1, <1>8, SeqEqual
<1>10. Contents \subseteq Words
  BY DEF Words
<1>11. d \in Seq(Words)
  BY <1>3, <1>10, SeqWidens
<1> QED
  BY <1>3, <1>5, <1>9, <1>11 DEF d, t, x

\* An event that fits, with the counts it leads to.
LEMMA SpokenMore ==
  ASSUME NEW ev, NEW s, Spoken(ev, s), NEW e \in Events, e.data # <<>>
  PROVE  LET f == Append(ev, e)
             n == Len(ev)
         IN  /\ f \in Seq(Events) /\ n \in Nat /\ Len(f) = n + 1 /\ f[n + 1] = e
             /\ \A i \in 1..n : f[i] = ev[i] /\ Fits(f, i)
             /\ StartsIn(ev, n) \in Nat /\ StopsIn(ev, n) \in Nat
             /\ StartsIn(f, n) = StartsIn(ev, n) /\ StopsIn(f, n) = StopsIn(ev, n)
             /\ StartsIn(f, n + 1) = IF e.name = Openings THEN StartsIn(ev, n) + 1 ELSE StartsIn(ev, n)
             /\ StopsIn(f, n + 1) = IF e.name = Closings THEN StopsIn(ev, n) + 1 ELSE StopsIn(ev, n)
             /\ LastStart(f, n + 1) = IF e.name = Openings THEN n + 1 ELSE LastStart(ev, n)
             /\ e.name = "message_delta" /\ (\A i \in 1..n : ev[i].name # "message_delta") =>
                  NamedIn(f, "message_delta", n + 1) = {n + 1}
             /\ StartsIn(ev, n) = s.nextIndex
             /\ StopsIn(ev, n) = IF s.openKind = "none" THEN s.nextIndex ELSE s.nextIndex - 1
             /\ Fits(f, n + 1) => \A i \in 1..(n + 1) : Fits(f, i)
<1> DEFINE f == Append(ev, e)
           n == Len(ev)
<1>1. ev \in Seq(Events) /\ \A i \in 1..Len(ev) : Fits(ev, i)
  BY DEF Spoken
<1>2. /\ f \in Seq(Events) /\ n \in Nat /\ Len(f) = n + 1 /\ f[n + 1] = e
      /\ \A i \in 1..n : f[i] = ev[i] /\ Fits(f, i)
      /\ StartsIn(ev, n) \in Nat /\ StopsIn(ev, n) \in Nat
      /\ StartsIn(f, n) = StartsIn(ev, n) /\ StopsIn(f, n) = StopsIn(ev, n)
      /\ StartsIn(f, n + 1) = IF e.name = Openings THEN StartsIn(ev, n) + 1 ELSE StartsIn(ev, n)
      /\ StopsIn(f, n + 1) = IF e.name = Closings THEN StopsIn(ev, n) + 1 ELSE StopsIn(ev, n)
      /\ LastStart(f, n + 1) = IF e.name = Openings THEN n + 1 ELSE LastStart(ev, n)
      /\ e.name = "message_delta" /\ (\A i \in 1..n : ev[i].name # "message_delta") =>
           NamedIn(f, "message_delta", n + 1) = {n + 1}
  BY <1>1, EventAppended
<1>3. /\ StartsIn(ev, n) = s.nextIndex
      /\ StopsIn(ev, n) = IF s.openKind = "none" THEN s.nextIndex ELSE s.nextIndex - 1
  BY DEF Spoken
<1> HIDE DEF f, n
<1>4. Fits(f, n + 1) => \A i \in 1..(n + 1) : Fits(f, i)
  <2>1. \A i \in 1..(n + 1) : i \in 1..n \/ i = n + 1
    BY <1>2
  <2> QED
    BY <1>2, <2>1
<1> QED
  BY <1>2, <1>3, <1>4 DEF f, n

\* A delta of the open block.
LEMMA SpokenDelta ==
  ASSUME NEW ev, NEW s \in Translators, Spoken(ev, s), s.openKind # "none",
         NEW e, e = Event("content_block_delta", <<s.openKind>> \o Index(s.openIndex)), e \in Events
  PROVE  Spoken(Append(ev, e), s)
<1> DEFINE f == Append(ev, e)
           n == Len(ev)
           d == <<s.openKind>> \o Index(s.openIndex)
<1>1. s.openKind \in Contents /\ s.openIndex \in Nat /\ s.nextIndex \in Nat
  BY DEF Translators, Contents
<1>2. d # <<>>
  BY <1>1, WordAndIndex
<1>3. e.name = "content_block_delta" /\ e.data = d
  BY DEF Event
<1> HIDE DEF d
<1>4. /\ f \in Seq(Events) /\ n \in Nat /\ Len(f) = n + 1 /\ f[n + 1] = e
      /\ \A i \in 1..n : f[i] = ev[i]
      /\ StartsIn(f, n + 1) = IF e.name = Openings THEN StartsIn(ev, n) + 1 ELSE StartsIn(ev, n)
      /\ StopsIn(f, n + 1) = IF e.name = Closings THEN StopsIn(ev, n) + 1 ELSE StopsIn(ev, n)
      /\ LastStart(f, n + 1) = IF e.name = Openings THEN n + 1 ELSE LastStart(ev, n)
      /\ StartsIn(ev, n) = s.nextIndex
      /\ StopsIn(ev, n) = IF s.openKind = "none" THEN s.nextIndex ELSE s.nextIndex - 1
      /\ Fits(f, n + 1) => \A i \in 1..(n + 1) : Fits(f, i)
  BY <1>2, <1>3, SpokenMore
<1>5. LastStart(ev, n) \in 1..n /\ ev[LastStart(ev, n)].data = d
  BY DEF Spoken, d
<1> HIDE DEF f, n
<1>6. StartsIn(f, n + 1) = s.nextIndex /\ StopsIn(f, n + 1) = s.nextIndex - 1 /\ LastStart(f, n + 1) = LastStart(ev, n)
  BY <1>3, <1>4 DEF Openings, Closings
<1>7. LastStart(f, n + 1) \in 1..(n + 1) /\ f[LastStart(f, n + 1)].data = d
  BY <1>4, <1>5, <1>6
<1>8. Fits(f, n + 1)
  <2>1. StartsIn(f, n + 1) = StopsIn(f, n + 1) + 1
    BY <1>1, <1>6
  <2> QED
    BY <1>2, <1>3, <1>4, <1>7, <2>1 DEF Fits, EventNames, Openings, Closings
<1>9. Spoken(f, s)
  BY <1>4, <1>6, <1>7, <1>8 DEF Spoken, d
<1> QED
  BY <1>9 DEF f

\* The open block is closed.
LEMMA SpokenClose ==
  ASSUME NEW ev, NEW s \in Translators, Spoken(ev, s), s.openKind # "none",
         NEW e, e = Event(Closings, <<"block">> \o Index(s.openIndex)), e \in Events,
         NEW t, t.openKind = "none", t.nextIndex = s.nextIndex
  PROVE  Spoken(Append(ev, e), t)
<1> DEFINE f == Append(ev, e)
           n == Len(ev)
           d == <<s.openKind>> \o Index(s.openIndex)
           c == <<"block">> \o Index(s.openIndex)
<1>1. s.openKind \in Contents /\ s.openIndex \in Nat /\ s.nextIndex \in Nat /\ "block" \in Contents
  BY DEF Translators, Contents
<1>2. c # <<>> /\ Tail(c) = Tail(d)
  BY <1>1, WordAndIndex
<1>3. e.name = Closings /\ e.data = c
  BY DEF Event
<1> HIDE DEF d, c
<1>4. /\ f \in Seq(Events) /\ n \in Nat /\ Len(f) = n + 1 /\ f[n + 1] = e
      /\ \A i \in 1..n : f[i] = ev[i]
      /\ StartsIn(f, n + 1) = IF e.name = Openings THEN StartsIn(ev, n) + 1 ELSE StartsIn(ev, n)
      /\ StopsIn(f, n + 1) = IF e.name = Closings THEN StopsIn(ev, n) + 1 ELSE StopsIn(ev, n)
      /\ LastStart(f, n + 1) = IF e.name = Openings THEN n + 1 ELSE LastStart(ev, n)
      /\ StartsIn(ev, n) = s.nextIndex
      /\ StopsIn(ev, n) = IF s.openKind = "none" THEN s.nextIndex ELSE s.nextIndex - 1
      /\ Fits(f, n + 1) => \A i \in 1..(n + 1) : Fits(f, i)
  BY <1>2, <1>3, SpokenMore
<1>5. LastStart(ev, n) \in 1..n /\ ev[LastStart(ev, n)].data = d
  BY DEF Spoken, d
<1> HIDE DEF f, n
<1>6. StartsIn(f, n + 1) = s.nextIndex /\ StopsIn(f, n + 1) = s.nextIndex /\ LastStart(f, n + 1) = LastStart(ev, n)
  <2>1. (s.nextIndex - 1) + 1 = s.nextIndex
    BY <1>1
  <2> QED
    BY <1>3, <1>4, <2>1 DEF Openings, Closings
<1>7. LastStart(f, n + 1) \in 1..(n + 1) /\ f[LastStart(f, n + 1)].data = d
  BY <1>4, <1>5, <1>6
<1>8. Fits(f, n + 1)
  BY <1>2, <1>3, <1>4, <1>6, <1>7 DEF Fits, EventNames, Openings, Closings
<1>9. Spoken(f, t)
  BY <1>4, <1>6, <1>8 DEF Spoken
<1> QED
  BY <1>9 DEF f

\* A block is opened.
LEMMA SpokenOpen ==
  ASSUME NEW ev, NEW s \in Translators, Spoken(ev, s), s.openKind = "none", ev # <<>>,
         NEW kind \in {"text", "tool"},
         NEW e, e = Event(Openings, <<kind>> \o Index(s.nextIndex)), e \in Events,
         NEW t, t.openKind = kind, t.nextIndex = s.nextIndex + 1, t.openIndex = s.nextIndex
  PROVE  Spoken(Append(ev, e), t)
<1> DEFINE f == Append(ev, e)
           n == Len(ev)
           d == <<kind>> \o Index(s.nextIndex)
<1>1. kind \in Contents /\ s.nextIndex \in Nat /\ kind # "none"
  BY DEF Translators, Contents, Kinds
<1>2. d # <<>> /\ Tail(d) = Index(s.nextIndex)
  BY <1>1, WordAndIndex
<1>3. e.name = Openings /\ e.data = d
  BY DEF Event
<1> HIDE DEF d
<1>4. /\ f \in Seq(Events) /\ n \in Nat /\ Len(f) = n + 1 /\ f[n + 1] = e
      /\ StartsIn(f, n) = StartsIn(ev, n) /\ StopsIn(f, n) = StopsIn(ev, n)
      /\ StartsIn(f, n + 1) = IF e.name = Openings THEN StartsIn(ev, n) + 1 ELSE StartsIn(ev, n)
      /\ StopsIn(f, n + 1) = IF e.name = Closings THEN StopsIn(ev, n) + 1 ELSE StopsIn(ev, n)
      /\ LastStart(f, n + 1) = IF e.name = Openings THEN n + 1 ELSE LastStart(ev, n)
      /\ StartsIn(ev, n) = s.nextIndex
      /\ StopsIn(ev, n) = IF s.openKind = "none" THEN s.nextIndex ELSE s.nextIndex - 1
      /\ Fits(f, n + 1) => \A i \in 1..(n + 1) : Fits(f, i)
  BY <1>2, <1>3, SpokenMore
<1>5. n >= 1
  BY <1>4 DEF n, Spoken
<1> HIDE DEF f, n
<1>6. StartsIn(f, n + 1) = s.nextIndex + 1 /\ StopsIn(f, n + 1) = s.nextIndex /\ LastStart(f, n + 1) = n + 1
      /\ StartsIn(f, n) = s.nextIndex /\ StopsIn(f, n) = s.nextIndex
  BY <1>3, <1>4 DEF Openings, Closings
<1>7. (n + 1) - 1 = n /\ n + 1 > 1 /\ n + 1 \in 1..(n + 1) /\ (s.nextIndex + 1) - 1 = s.nextIndex
  BY <1>1, <1>4, <1>5
<1>8. Fits(f, n + 1)
  BY <1>2, <1>3, <1>4, <1>6, <1>7 DEF Fits, EventNames, Openings, Closings
<1>9. Spoken(f, t)
  BY <1>1, <1>3, <1>4, <1>6, <1>7, <1>8 DEF Spoken, d
<1> QED
  BY <1>9 DEF f

\* Events that open and close nothing: the first, the last two, an error.
LEMMA SpokenOther ==
  ASSUME NEW ev, NEW s \in Translators, Spoken(ev, s), NEW e \in Events, e.data # <<>>,
         \/ e.name = "message_start" /\ ev = <<>>
         \/ e.name = "error"
         \/ /\ e.name = "message_delta" /\ s.openKind = "none" /\ ev # <<>>
            /\ \A i \in 1..Len(ev) : ev[i].name # "message_delta"
         \/ e.name = "message_stop" /\ ev # <<>> /\ ev[Len(ev)].name = "message_delta"
  PROVE  Spoken(Append(ev, e), s)
<1> DEFINE f == Append(ev, e)
           n == Len(ev)
<1>1. e.name \notin {Openings, Closings, "content_block_delta"} /\ e.name \in EventNames
  BY DEF Openings, Closings, EventNames
<1>2. /\ f \in Seq(Events) /\ n \in Nat /\ Len(f) = n + 1 /\ f[n + 1] = e
      /\ \A i \in 1..n : f[i] = ev[i]
      /\ StartsIn(f, n + 1) = IF e.name = Openings THEN StartsIn(ev, n) + 1 ELSE StartsIn(ev, n)
      /\ StopsIn(f, n + 1) = IF e.name = Closings THEN StopsIn(ev, n) + 1 ELSE StopsIn(ev, n)
      /\ LastStart(f, n + 1) = IF e.name = Openings THEN n + 1 ELSE LastStart(ev, n)
      /\ e.name = "message_delta" /\ (\A i \in 1..n : ev[i].name # "message_delta") =>
           NamedIn(f, "message_delta", n + 1) = {n + 1}
      /\ StartsIn(ev, n) = s.nextIndex
      /\ StopsIn(ev, n) = IF s.openKind = "none" THEN s.nextIndex ELSE s.nextIndex - 1
      /\ Fits(f, n + 1) => \A i \in 1..(n + 1) : Fits(f, i)
  BY SpokenMore
<1>3. /\ ev = <<>> => n = 0
      /\ ev # <<>> => n >= 1
  BY <1>2 DEF Spoken
<1>4. s.openKind # "none" => LastStart(ev, n) \in 1..n /\ ev[LastStart(ev, n)].data = <<s.openKind>> \o Index(s.openIndex)
  BY DEF Spoken
<1>5. \/ e.name = "message_start" /\ n = 0
      \/ e.name = "error"
      \/ e.name = "message_delta" /\ s.openKind = "none" /\ n >= 1 /\ NamedIn(f, "message_delta", n + 1) = {n + 1}
      \/ e.name = "message_stop" /\ n >= 1 /\ f[n].name = "message_delta"
  <2>1. n >= 1 => n \in 1..n
    BY <1>2
  <2> QED
    BY <1>2, <1>3, <2>1
<1> HIDE DEF f, n
<1>6. /\ StartsIn(f, n + 1) = s.nextIndex
      /\ StopsIn(f, n + 1) = IF s.openKind = "none" THEN s.nextIndex ELSE s.nextIndex - 1
      /\ LastStart(f, n + 1) = LastStart(ev, n)
  BY <1>1, <1>2
<1>7. (n + 1) - 1 = n /\ (n >= 1 => n + 1 > 1) /\ (n = 0 => n + 1 = 1)
  BY <1>2
<1>8. Fits(f, n + 1)
  BY <1>1, <1>2, <1>5, <1>6, <1>7 DEF Fits
<1>9. s.openKind # "none" => /\ LastStart(f, n + 1) \in 1..(n + 1)
                             /\ f[LastStart(f, n + 1)].data = <<s.openKind>> \o Index(s.openIndex)
  BY <1>2, <1>4, <1>6
<1>10. Spoken(f, s)
  BY <1>2, <1>6, <1>8, <1>9 DEF Spoken
<1> QED
  BY <1>10 DEF f

\* The lines are those of the events after the first k, but for the first ph
\* of them.
Covers(lines, ev, k, ph) ==
  /\ Len(lines) = 3 * (Len(ev) - k) - ph
  /\ \A i \in (k + 1)..Len(ev) :
       LET m == 3 * (i - k) - ph
       IN  /\ lines[m] = <<LF>>
           /\ m >= 2 => lines[m - 1] = <<"data:">> \o ev[i].data \o <<LF>>
           /\ m >= 3 => lines[m - 2] = <<"event:", ev[i].name, LF>>

\* The lines tell what ev adds to the events before.
Told(before, ev, lines) ==
  /\ Len(before) <= Len(ev) /\ \A i \in 1..Len(before) : ev[i] = before[i]
  /\ Covers(lines, ev, Len(before), 0)

\* One event more, one more told.
LEMMA CoversMore ==
  ASSUME NEW ev \in Seq(Events), NEW k \in 0..Len(ev), NEW lines \in Seq(OwedLine), Covers(lines, ev, k, 0),
         NEW name, NEW data, Event(name, data) \in Events, appendEventFrame(name, data) \in Seq(OwedLine)
  PROVE  Covers(lines \o appendEventFrame(name, data), Append(ev, Event(name, data)), k, 0)
<1> DEFINE e == Event(name, data)
           f == Append(ev, e)
           n == Len(ev)
           y == appendEventFrame(name, data)
           x == lines \o y
           L == Len(lines)
<1>1. f \in Seq(Events) /\ n \in Nat /\ Len(f) = n + 1 /\ f[n + 1] = e /\ \A i \in 1..n : f[i] = ev[i]
  OBVIOUS
<1>2. Len(y) = 3 /\ y[1] = <<"event:", name, LF>> /\ y[2] = <<"data:">> \o data \o <<LF>> /\ y[3] = <<LF>>
  <2> DEFINE a == <<"event:", name, LF>>
             b == <<"data:">> \o data \o <<LF>>
             c == <<LF>>
  <2>1. y = <<a, b, c>>
    BY DEF appendEventFrame
  <2> HIDE DEF a, b, c, y
  <2>2. Len(y) = 3 /\ y[1] = a /\ y[2] = b /\ y[3] = c
    BY <2>1
  <2> QED
    BY <2>2 DEF a, b, c
<1>3. e.name = name /\ e.data = data
  BY DEF Event
<1>4. y \in Seq(OwedLine)
  OBVIOUS
<1> HIDE DEF f, n, e, y
<1>5. L \in Nat /\ L = 3 * (n - k) /\ k \in 0..n
  <2>1. L = 3 * (n - k) - 0
    BY DEF Covers, n
  <2>2. k \in 0..n
    BY DEF n
  <2> QED
    BY <1>1, <2>1, <2>2
<1>6. /\ Len(x) = L + 3
      /\ \A i \in 1..L : x[i] = lines[i]
      /\ x[L + 1] = y[1] /\ x[L + 2] = y[2] /\ x[L + 3] = y[3]
  <2>1. /\ Len(x) = Len(lines) + Len(y)
        /\ \A i \in 1..(Len(lines) + Len(y)) : x[i] = IF i <= Len(lines) THEN lines[i] ELSE y[i - Len(lines)]
    BY <1>4, ConcatProperties
  <2> HIDE DEF x, L
  <2>2. Len(lines) = L
    BY DEF L
  <2>3. /\ Len(x) = L + 3
        /\ \A i \in 1..(L + 3) : x[i] = IF i <= L THEN lines[i] ELSE y[i - L]
    BY <1>2, <2>1, <2>2
  <2>4. /\ \A i \in 1..L : i \in 1..(L + 3) /\ i <= L
        /\ L + 1 \in 1..(L + 3) /\ ~(L + 1 <= L) /\ (L + 1) - L = 1
        /\ L + 2 \in 1..(L + 3) /\ ~(L + 2 <= L) /\ (L + 2) - L = 2
        /\ L + 3 \in 1..(L + 3) /\ ~(L + 3 <= L) /\ (L + 3) - L = 3
    BY <1>5
  <2> QED
    BY <2>3, <2>4
<1> HIDE DEF x
<1>7. ASSUME NEW i \in (k + 1)..n
      PROVE  LET m == 3 * (i - k) - 0
             IN  /\ x[m] = <<LF>>
                 /\ m >= 2 => x[m - 1] = <<"data:">> \o f[i].data \o <<LF>>
                 /\ m >= 3 => x[m - 2] = <<"event:", f[i].name, LF>>
  <2> DEFINE m == 3 * (i - k) - 0
  <2>1. /\ lines[m] = <<LF>>
        /\ m >= 2 => lines[m - 1] = <<"data:">> \o ev[i].data \o <<LF>>
        /\ m >= 3 => lines[m - 2] = <<"event:", ev[i].name, LF>>
    BY DEF Covers, n
  <2>2. m \in 1..L /\ m - 1 \in 1..L /\ m - 2 \in 1..L /\ i \in 1..n
    BY <1>1, <1>5
  <2> HIDE DEF m
  <2>3. f[i] = ev[i]
    BY <1>1, <2>2
  <2>4. /\ x[m] = <<LF>>
        /\ m >= 2 => x[m - 1] = <<"data:">> \o f[i].data \o <<LF>>
        /\ m >= 3 => x[m - 2] = <<"event:", f[i].name, LF>>
    BY <1>6, <2>1, <2>2, <2>3
  <2> QED
    BY <2>4 DEF m
<1>8. LET m == 3 * ((n + 1) - k) - 0
      IN  /\ x[m] = <<LF>>
          /\ m >= 2 => x[m - 1] = <<"data:">> \o f[n + 1].data \o <<LF>>
          /\ m >= 3 => x[m - 2] = <<"event:", f[n + 1].name, LF>>
  <2> DEFINE m == 3 * ((n + 1) - k) - 0
  <2>1. m = L + 3 /\ m - 1 = L + 2 /\ m - 2 = L + 1
    BY <1>1, <1>5
  <2> HIDE DEF m
  <2>2. /\ x[m] = <<LF>>
        /\ m >= 2 => x[m - 1] = <<"data:">> \o f[n + 1].data \o <<LF>>
        /\ m >= 3 => x[m - 2] = <<"event:", f[n + 1].name, LF>>
    BY <1>1, <1>2, <1>3, <1>6, <2>1
  <2> QED
    BY <2>2 DEF m
<1>9. \A i \in (k + 1)..(n + 1) : i \in (k + 1)..n \/ i = n + 1
  BY <1>1, <1>5
<1>10. Len(x) = 3 * ((n + 1) - k) - 0
  BY <1>1, <1>5, <1>6
<1>11. Covers(x, f, k, 0)
  <2>1. \A i \in (k + 1)..(n + 1) :
          LET m == 3 * (i - k) - 0
          IN  /\ x[m] = <<LF>>
              /\ m >= 2 => x[m - 1] = <<"data:">> \o f[i].data \o <<LF>>
              /\ m >= 3 => x[m - 2] = <<"event:", f[i].name, LF>>
    BY <1>7, <1>8, <1>9
  <2> QED
    BY <1>1, <1>10, <2>1 DEF Covers
<1> QED
  BY <1>11 DEF x, f, e, y

\* Emitting an event tells it.
LEMMA EmitTold ==
  ASSUME NEW before \in Seq(Events), NEW ev \in Seq(Events), NEW r \in Translations, Told(before, ev, r.out),
         NEW name \in Names, NEW data \in Seq(Contents)
  PROVE  LET e == Event(name, data)
             t == Emit(r, name, data)
         IN  /\ e \in Events /\ t \in Translations /\ t.s = r.s
             /\ Told(before, Append(ev, e), t.out)
<1> DEFINE e == Event(name, data)
           t == Emit(r, name, data)
           y == appendEventFrame(name, data)
           z == r.out \o y
<1>1. t \in Translations /\ t.s = r.s
  BY EmitType
<1>2. e \in Events
  <2>1. name \in Words
    BY DEF Words
  <2>2. Contents \subseteq Words
    BY DEF Words
  <2>3. data \in Seq(Words)
    BY <2>2, SeqWidens
  <2> QED
    BY <2>1, <2>3 DEF Event, Events
<1>3. y \in Seq(OwedLine) /\ r.out \in Seq(OwedLine)
  BY EventLines DEF Translations
<1>4. t.out = z
  <2>1. t = [r EXCEPT !.out = z]
    BY DEF Emit
  <2> HIDE DEF z, t
  <2> QED
    BY <2>1 DEF Translations
<1>5. /\ Len(before) \in 0..Len(ev) /\ Len(ev) \in Nat /\ Len(before) \in Nat
      /\ \A i \in 1..Len(before) : ev[i] = before[i]
      /\ Covers(r.out, ev, Len(before), 0)
  <2>1. Len(ev) \in Nat /\ Len(before) \in Nat
    OBVIOUS
  <2> QED
    BY <2>1 DEF Told
<1> HIDE DEF e, t
<1>6. Covers(z, Append(ev, e), Len(before), 0)
  BY <1>2, <1>3, <1>5, CoversMore DEF e
<1> HIDE DEF z
<1>7. Len(before) <= Len(Append(ev, e)) /\ \A i \in 1..Len(before) : Append(ev, e)[i] = before[i]
  <2> DEFINE f == Append(ev, e)
  <2>1. Len(f) = Len(ev) + 1 /\ \A i \in 1..Len(ev) : f[i] = ev[i]
    BY <1>2
  <2> HIDE DEF f
  <2>2. Len(before) <= Len(f) /\ \A i \in 1..Len(before) : i \in 1..Len(ev)
    BY <1>5, <2>1
  <2>3. Len(before) <= Len(f) /\ \A i \in 1..Len(before) : f[i] = before[i]
    BY <1>5, <2>1, <2>2
  <2> QED
    BY <2>3 DEF f
<1>8. Told(before, Append(ev, e), t.out)
  BY <1>4, <1>6, <1>7 DEF Told
<1> QED
  BY <1>1, <1>2, <1>8 DEF e, t

\* What has been told of a message that may go on is what was there before and
\* what the translation in progress adds.
Talks(before, r) ==
  \E ev \in Seq(Events) : Told(before, ev, r.out) /\ Spoken(ev, r.s) /\ Unended(ev)

\* The parts of a translator's state that its events do not show.
SameFlags(s, t) ==
  t.started = s.started /\ t.stopped = s.stopped /\ t.failed = s.failed /\ t.finish = s.finish

\* An event that does not end the message leaves it unended.
LEMMA UnendedMore ==
  ASSUME NEW ev \in Seq(Events), ev = <<>> \/ Unended(ev), NEW e \in Events,
         e.name \notin {"message_delta", "message_stop", "error"}
  PROVE  Append(ev, e) \in Seq(Events) /\ Unended(Append(ev, e))
<1> DEFINE f == Append(ev, e)
           n == Len(ev)
<1>1. f \in Seq(Events) /\ n \in Nat /\ Len(f) = n + 1 /\ f[n + 1] = e /\ \A i \in 1..n : f[i] = ev[i]
  OBVIOUS
<1>2. \A i \in 1..n : ev[i].name \notin {"message_delta", "message_stop", "error"}
  <2>1. CASE ev = <<>>
    <3>1. \A i \in 1..n : FALSE
      BY <2>1
    <3> QED
      BY <3>1
  <2>2. CASE Unended(ev)
    BY <2>2 DEF Unended
  <2> QED
    BY <2>1, <2>2
<1> HIDE DEF f, n
<1>3. \A i \in 1..(n + 1) : i \in 1..n \/ i = n + 1
  BY <1>1
<1>4. f # <<>>
  BY <1>1
<1>5. Unended(f)
  BY <1>1, <1>2, <1>3, <1>4 DEF Unended
<1> QED
  BY <1>1, <1>5 DEF f

\* Closing what is open.
LEMMA CloseTalks ==
  ASSUME NEW before \in Seq(Events), NEW r \in Translations, Talks(before, r)
  PROVE  LET c == appendClose(r)
         IN  /\ c \in Translations /\ Talks(before, c)
             /\ c.s.openKind = "none" /\ c.s.nextIndex = r.s.nextIndex /\ SameFlags(r.s, c.s)
<1>1. r.s \in Translators /\ r.s.openIndex \in Nat
  BY DEF Translations, Translators
<1>2. CASE r.s.openKind = "none"
  <2>1. appendClose(r) = r
    BY <1>2 DEF appendClose
  <2> QED
    BY <1>2, <2>1 DEF SameFlags
<1>3. CASE r.s.openKind # "none"
  <2> DEFINE d == <<"block">> \o Index(r.s.openIndex)
             m == Emit(r, "content_block_stop", d)
             s == [r.s EXCEPT !.openKind = "none"]
             e == Event("content_block_stop", d)
             c == appendClose(r)
  <2>1. "content_block_stop" \in Names /\ "block" \in Contents
    BY DEF Names, Contents
  <2>2. d \in Seq(Contents)
    BY <1>1, <2>1, WordAndIndex
  <2>3. PICK ev \in Seq(Events) : Told(before, ev, r.out) /\ Spoken(ev, r.s) /\ Unended(ev)
    BY DEF Talks
  <2>4. e = Event(Closings, d)
    BY DEF Closings
  <2>5. c = [m EXCEPT !.s.openKind = "none"]
    BY <1>3 DEF appendClose
  <2> HIDE DEF c
  <2>6. e \in Events /\ m \in Translations /\ m.s = r.s /\ Told(before, Append(ev, e), m.out)
    <3> HIDE DEF d
    <3> QED
      BY <2>1, <2>2, <2>3, EmitTold
  <2>7. s \in Translators /\ s.openKind = "none" /\ s.nextIndex = r.s.nextIndex /\ SameFlags(r.s, s)
    BY <1>1 DEF Translators, Kinds, SameFlags
  <2>8. e.name = "content_block_stop"
    BY DEF Event
  <2> HIDE DEF m, e
  <2>9. c = [m EXCEPT !.s = s]
    BY <2>5, <2>6 DEF Translations
  <2> HIDE DEF s
  <2>10. c \in Translations /\ c.s = s /\ c.out = m.out
    BY <2>6, <2>7, <2>9, StateType
  <2>11. Spoken(Append(ev, e), s)
    BY <1>1, <1>3, <2>3, <2>4, <2>6, <2>7, SpokenClose
  <2>12. Append(ev, e) \in Seq(Events) /\ Unended(Append(ev, e))
    BY <2>3, <2>6, <2>8, UnendedMore
  <2>13. Talks(before, c)
    <3> DEFINE f == Append(ev, e)
    <3> HIDE DEF f
    <3>1. f \in Seq(Events) /\ Told(before, f, c.out) /\ Spoken(f, c.s) /\ Unended(f)
      BY <2>6, <2>10, <2>11, <2>12 DEF f
    <3> QED
      BY <3>1 DEF Talks
  <2> QED
    BY <2>7, <2>10, <2>13 DEF c
<1> QED
  BY <1>2, <1>3

\* Opening a block.
LEMMA OpenTalks ==
  ASSUME NEW before \in Seq(Events), NEW r \in Translations, Talks(before, r), NEW kind \in {"text", "tool"}
  PROVE  LET o == OpenBlock(r, kind)
         IN  o \in Translations /\ Talks(before, o) /\ o.s.openKind = kind /\ SameFlags(r.s, o.s)
<1> DEFINE c == appendClose(r)
           d == <<kind>> \o Index(c.s.nextIndex)
           m == Emit(c, "content_block_start", d)
           n == c.s.nextIndex + 1
           s == [c.s EXCEPT !.openIndex = c.s.nextIndex, !.openKind = kind, !.nextIndex = n]
           e == Event("content_block_start", d)
           o == OpenBlock(r, kind)
<1>1. c \in Translations /\ Talks(before, c) /\ c.s.openKind = "none" /\ SameFlags(r.s, c.s)
  BY CloseTalks
<1>2. o = [m EXCEPT !.s.openIndex = c.s.nextIndex, !.s.openKind = kind, !.s.nextIndex = @ + 1]
  BY DEF OpenBlock
<1> HIDE DEF o, c
<1>3. c.s \in Translators /\ c.s.nextIndex \in Nat /\ kind \in Kinds /\ kind \in Contents
  BY <1>1 DEF Translations, Translators, Kinds, Contents
<1>4. d \in Seq(Contents) /\ "content_block_start" \in Names
  <2>1. "content_block_start" \in Names
    BY DEF Names
  <2> QED
    BY <1>3, <2>1, WordAndIndex
<1>5. PICK ev \in Seq(Events) : Told(before, ev, c.out) /\ Spoken(ev, c.s) /\ Unended(ev)
  BY <1>1 DEF Talks
<1>6. e = Event(Openings, d)
  BY DEF Openings
<1>7. e \in Events /\ m \in Translations /\ m.s = c.s /\ Told(before, Append(ev, e), m.out)
  <2> HIDE DEF d
  <2> QED
    BY <1>1, <1>4, <1>5, EmitTold
<1>8. /\ s \in Translators /\ s.openKind = kind /\ s.nextIndex = n /\ s.openIndex = c.s.nextIndex
      /\ SameFlags(c.s, s)
  <2>1. n \in Nat
    BY <1>3
  <2> HIDE DEF n
  <2> QED
    BY <1>3, <2>1 DEF Translators, SameFlags
<1>9. e.name = "content_block_start"
  BY DEF Event
<1> HIDE DEF m, e
<1>10. o = [m EXCEPT !.s = s]
  BY <1>2, <1>3, <1>7 DEF Translations, Translators
<1> HIDE DEF s
<1>11. o \in Translations /\ o.s = s /\ o.out = m.out
  BY <1>7, <1>8, <1>10, StateType
<1>12. Spoken(Append(ev, e), s)
  <2>1. ev # <<>>
    BY <1>5 DEF Unended
  <2> QED
    BY <1>1, <1>3, <1>5, <1>6, <1>7, <1>8, <2>1, SpokenOpen
<1>13. Append(ev, e) \in Seq(Events) /\ Unended(Append(ev, e))
  BY <1>5, <1>7, <1>9, UnendedMore
<1>14. Talks(before, o)
  <2> DEFINE f == Append(ev, e)
  <2> HIDE DEF f
  <2>1. f \in Seq(Events) /\ Told(before, f, o.out) /\ Spoken(f, o.s) /\ Unended(f)
    BY <1>7, <1>11, <1>12, <1>13 DEF f
  <2> QED
    BY <2>1 DEF Talks
<1>15. SameFlags(r.s, s)
  BY <1>1, <1>8 DEF SameFlags
<1> QED
  BY <1>8, <1>11, <1>14, <1>15 DEF o

\* A delta of the open block.
LEMMA DeltaTalks ==
  ASSUME NEW before \in Seq(Events), NEW r \in Translations, Talks(before, r), r.s.openKind # "none"
  PROVE  Delta(r) \in Translations /\ Talks(before, Delta(r)) /\ Delta(r).s = r.s
<1> DEFINE d == <<r.s.openKind>> \o Index(r.s.openIndex)
           m == Delta(r)
           e == Event("content_block_delta", d)
<1>1. r.s \in Translators /\ r.s.openKind \in Contents /\ r.s.openIndex \in Nat /\ "content_block_delta" \in Names
  BY DEF Translations, Translators, Contents, Names
<1>2. d \in Seq(Contents)
  BY <1>1, WordAndIndex
<1>3. m = Emit(r, "content_block_delta", d)
  BY DEF Delta
<1>4. PICK ev \in Seq(Events) : Told(before, ev, r.out) /\ Spoken(ev, r.s) /\ Unended(ev)
  BY DEF Talks
<1> HIDE DEF m
<1>5. e \in Events /\ m \in Translations /\ m.s = r.s /\ Told(before, Append(ev, e), m.out)
  <2> HIDE DEF d
  <2> QED
    BY <1>1, <1>2, <1>3, <1>4, EmitTold
<1>6. e.name = "content_block_delta"
  BY DEF Event
<1>7. Spoken(Append(ev, e), r.s)
  BY <1>1, <1>4, <1>5, SpokenDelta
<1> HIDE DEF e
<1>8. Append(ev, e) \in Seq(Events) /\ Unended(Append(ev, e))
  BY <1>4, <1>5, <1>6, UnendedMore
<1>9. Talks(before, m)
  <2> DEFINE f == Append(ev, e)
  <2> HIDE DEF f
  <2>1. f \in Seq(Events) /\ Told(before, f, m.out) /\ Spoken(f, m.s) /\ Unended(f)
    BY <1>5, <1>7, <1>8 DEF f
  <2> QED
    BY <2>1 DEF Talks
<1> QED
  BY <1>5, <1>9 DEF m

\* One tool call.
LEMMA ToolCallTalks ==
  ASSUME NEW before \in Seq(Events), NEW r \in Translations, Talks(before, r), NEW call
  PROVE  LET t == ToolCall(r, call)
         IN  t \in Translations /\ Talks(before, t) /\ SameFlags(r.s, t.s)
<1> DEFINE opened == IF call.announced THEN OpenBlock(r, "tool") ELSE r
<1>1. opened \in Translations /\ Talks(before, opened) /\ SameFlags(r.s, opened.s)
  <2>1. LET o == OpenBlock(r, "tool")
        IN  o \in Translations /\ Talks(before, o) /\ SameFlags(r.s, o.s)
    BY OpenTalks
  <2>2. SameFlags(r.s, r.s)
    BY DEF SameFlags
  <2> QED
    BY <2>1, <2>2
<1> HIDE DEF opened
<1>2. ToolCall(r, call) = IF opened.s.openKind = "tool" /\ call.args THEN Delta(opened) ELSE opened
  BY DEF ToolCall, opened
<1>3. opened.s.openKind = "tool" =>
         Delta(opened) \in Translations /\ Talks(before, Delta(opened)) /\ Delta(opened).s = opened.s
  BY <1>1, DeltaTalks
<1> QED
  BY <1>1, <1>2, <1>3

\* The content of a chunk.
LEMMA ContentTalks ==
  ASSUME NEW before \in Seq(Events), NEW r \in Translations, Talks(before, r),
         NEW chunk, Len(chunk.calls) \in Nat
  PROVE  LET t == appendContent(r, chunk)
         IN  t \in Translations /\ Talks(before, t) /\ SameFlags(r.s, t.s)
<1> DEFINE N == Len(chunk.calls)
           texted == IF ~chunk.text THEN r
                     ELSE IF r.s.openKind = "text" THEN Delta(r) ELSE Delta(OpenBlock(r, "text"))
           Good(t) == t \in Translations /\ Talks(before, t) /\ SameFlags(r.s, t.s)
<1>1. PICK g \in [0..N -> Translations] :
         /\ g[0] = texted
         /\ \A k \in 1..N : g[k] = ToolCall(g[k - 1], chunk.calls[k])
         /\ appendContent(r, chunk) = g[N]
  BY ContentUnfolds
<1>2. Good(texted)
  <2>1. SameFlags(r.s, r.s)
    BY DEF SameFlags
  <2>2. r.s.openKind = "text" => Good(Delta(r))
    BY <2>1, DeltaTalks
  <2>3. Good(Delta(OpenBlock(r, "text")))
    <3> DEFINE o == OpenBlock(r, "text")
    <3>1. o \in Translations /\ Talks(before, o) /\ o.s.openKind = "text" /\ SameFlags(r.s, o.s)
      BY OpenTalks
    <3> HIDE DEF o
    <3>2. Delta(o) \in Translations /\ Talks(before, Delta(o)) /\ Delta(o).s = o.s
      BY <3>1, DeltaTalks
    <3>3. Good(Delta(o))
      BY <3>1, <3>2
    <3> QED
      BY <3>3 DEF o
  <2>4. Good(r)
    BY <2>1
  <2> HIDE DEF Good
  <2> QED
    BY <2>2, <2>3, <2>4
<1>3. N \in Nat
  OBVIOUS
<1> DEFINE I == {n \in 0..N : Good(g[n])}
<1> HIDE DEF N, texted
<1>4. 0 \in I
  BY <1>1, <1>2, <1>3
<1>5. ASSUME NEW n \in 0..(N - 1), n \in I PROVE n + 1 \in I
  <2>1. n + 1 \in 1..N /\ (n + 1) - 1 = n /\ n + 1 \in 0..N
    BY <1>3
  <2>2. g[n + 1] = ToolCall(g[n], chunk.calls[n + 1])
    BY <1>1, <2>1
  <2>3. Good(g[n])
    BY <1>5
  <2> DEFINE a == g[n]
             c == chunk.calls[n + 1]
             t == ToolCall(a, c)
  <2>4. a \in Translations /\ Talks(before, a) /\ SameFlags(r.s, a.s)
    BY <2>3
  <2> HIDE DEF a, c
  <2>5. t \in Translations /\ Talks(before, t) /\ SameFlags(a.s, t.s)
    BY <2>4, ToolCallTalks
  <2>6. Good(t)
    BY <2>4, <2>5 DEF SameFlags
  <2>7. g[n + 1] = t
    BY <2>2 DEF a, c
  <2> HIDE DEF Good, t
  <2> QED
    BY <2>1, <2>6, <2>7
<1>6. \A n \in 0..N : n \in I
  <2> HIDE DEF I
  <2> QED
    BY <1>3, <1>4, <1>5, IntervalInduction
<1>7. Good(g[N])
  <2>1. N \in 0..N
    BY <1>3
  <2> HIDE DEF Good
  <2> QED
    BY <1>6, <2>1
<1> QED
  BY <1>1, <1>7

\* All the events of a message so far, given the translator: they fit and end;
\* none of them ends the message while the translator may go on; and a stop was
\* told only after a finish.
Speaks(ev, s) ==
  /\ Spoken(ev, s) /\ \A i \in 1..Len(ev) : Ends(ev, i)
  /\ ~s.stopped /\ ~s.failed => (ev = <<>> /\ ~s.started) \/ (Unended(ev) /\ s.started)
  /\ s.finish => s.started
  /\ (\E i \in 1..Len(ev) : ev[i].name = "message_stop") => s.finish

\* An event that nothing follows.
LEMMA EndsMore ==
  ASSUME NEW ev \in Seq(Events), NEW e \in Events,
         \A i \in 1..Len(ev) : ev[i].name \notin {"error", "message_stop"}
  PROVE  LET f == Append(ev, e)
         IN  /\ f \in Seq(Events) /\ Len(f) = Len(ev) + 1 /\ f[Len(f)] = e /\ f # <<>>
             /\ \A i \in 1..Len(f) : Ends(f, i)
             /\ \A i \in 1..Len(ev) : f[i] = ev[i]
             /\ \A x : (\A i \in 1..Len(ev) : ev[i].name # x) /\ e.name # x => \A i \in 1..Len(f) : f[i].name # x
<1> DEFINE f == Append(ev, e)
           n == Len(ev)
<1>1. f \in Seq(Events) /\ n \in Nat /\ Len(f) = n + 1 /\ f[n + 1] = e /\ \A i \in 1..n : f[i] = ev[i]
  OBVIOUS
<1>2. \A i \in 1..n : ev[i].name \notin {"error", "message_stop"}
  OBVIOUS
<1> HIDE DEF f, n
<1>3. \A i \in 1..(n + 1) : i \in 1..n \/ i = n + 1
  BY <1>1
<1>4. \A i \in 1..Len(f) : Ends(f, i)
  BY <1>1, <1>2, <1>3 DEF Ends
<1>5. ASSUME NEW x, \A i \in 1..n : ev[i].name # x, e.name # x
      PROVE  \A i \in 1..Len(f) : f[i].name # x
  BY <1>1, <1>3, <1>5
<1>6. f # <<>>
  BY <1>1
<1> QED
  BY <1>1, <1>4, <1>5, <1>6 DEF f, n

\* A message that has not ended.
LEMMA UnendedSpeaks ==
  ASSUME NEW ev \in Seq(Events), NEW s, Spoken(ev, s), Unended(ev), s.started
  PROVE  Speaks(ev, s)
<1>1. \A i \in 1..Len(ev) : Ends(ev, i) /\ ev[i].name # "message_stop"
  BY DEF Unended, Ends
<1> QED
  BY <1>1 DEF Speaks

\* The end of a message.
LEMMA TerminateTalks ==
  ASSUME NEW before \in Seq(Events), NEW r \in Translations, Talks(before, r),
         ~r.s.stopped, r.s.finish, r.s.started
  PROVE  LET t == appendTerminate(r)
         IN  /\ t \in Translations /\ t.s.finish
             /\ \E ev \in Seq(Events) : Told(before, ev, t.out) /\ Speaks(ev, t.s)
<1> DEFINE s == [r.s EXCEPT !.stopped = TRUE]
           p == [r EXCEPT !.s.stopped = TRUE]
           c == appendClose(p)
           m == Emit(c, "message_delta", <<"stop_reason">>)
           t == Emit(m, "message_stop", <<"stop">>)
           d == Event("message_delta", <<"stop_reason">>)
           e == Event("message_stop", <<"stop">>)
<1>1. /\ s \in Translators /\ s.stopped /\ s.finish /\ s.started
      /\ s.nextIndex = r.s.nextIndex /\ s.openKind = r.s.openKind /\ s.openIndex = r.s.openIndex
  BY DEF Translations, Translators
<1>2. p = [r EXCEPT !.s = s]
  BY DEF Translations
<1>3. appendTerminate(r) = t
  BY DEF appendTerminate
<1> HIDE DEF p, s
<1>4. p \in Translations /\ p.s = s /\ p.out = r.out
  BY <1>1, <1>2, StateType
<1>5. Talks(before, p)
  <2>1. PICK ev \in Seq(Events) : Told(before, ev, r.out) /\ Spoken(ev, r.s) /\ Unended(ev)
    BY DEF Talks
  <2>2. Spoken(ev, s)
    BY <1>1, <2>1, SpokenState
  <2> QED
    BY <1>4, <2>1, <2>2 DEF Talks
<1>6. c \in Translations /\ Talks(before, c) /\ c.s.openKind = "none" /\ SameFlags(p.s, c.s)
  BY <1>4, <1>5, CloseTalks
<1>7. "stop_reason" \in Contents /\ "stop" \in Contents /\ "message_delta" \in Names /\ "message_stop" \in Names
      /\ <<"stop_reason">> \in Seq(Contents) /\ <<"stop">> \in Seq(Contents)
  <2>1. "stop_reason" \in Contents /\ "stop" \in Contents /\ "message_delta" \in Names /\ "message_stop" \in Names
    BY DEF Contents, Names
  <2> QED
    BY <2>1
<1> HIDE DEF c
<1>8. c.s \in Translators /\ c.s.stopped /\ c.s.finish /\ c.s.started
  BY <1>1, <1>4, <1>6 DEF SameFlags, Translations
<1>9. PICK ev \in Seq(Events) : Told(before, ev, c.out) /\ Spoken(ev, c.s) /\ Unended(ev)
  BY <1>6 DEF Talks
<1>10. d \in Events /\ m \in Translations /\ m.s = c.s /\ Told(before, Append(ev, d), m.out)
  BY <1>6, <1>7, <1>9, EmitTold
<1> DEFINE f == Append(ev, d)
           g == Append(f, e)
<1>11. d.name = "message_delta" /\ d.data # <<>> /\ e.name = "message_stop" /\ e.data # <<>>
  BY DEF Event
<1> HIDE DEF m, d
<1>12. ev # <<>> /\ \A i \in 1..Len(ev) : ev[i].name \notin {"error", "message_stop"} /\ ev[i].name # "message_delta"
  BY <1>9 DEF Unended
<1>13. Spoken(f, c.s)
  BY <1>6, <1>8, <1>9, <1>10, <1>11, <1>12, SpokenOther
<1>14. f \in Seq(Events) /\ f # <<>> /\ f[Len(f)].name = "message_delta"
       /\ \A i \in 1..Len(f) : f[i].name \notin {"error", "message_stop"}
  <2>1. /\ f \in Seq(Events) /\ f[Len(f)] = d /\ f # <<>>
        /\ \A x : (\A i \in 1..Len(ev) : ev[i].name # x) /\ d.name # x => \A i \in 1..Len(f) : f[i].name # x
    BY <1>10, <1>12, EndsMore
  <2>2. (\A i \in 1..Len(f) : f[i].name # "error") /\ \A i \in 1..Len(f) : f[i].name # "message_stop"
    BY <1>11, <1>12, <2>1
  <2> QED
    BY <1>11, <2>1, <2>2
<1>15. Told(before, f, m.out)
  BY <1>10
<1> HIDE DEF f
<1>16. e \in Events /\ t \in Translations /\ t.s = m.s /\ Told(before, Append(f, e), t.out)
  BY <1>7, <1>10, <1>14, <1>15, EmitTold
<1> HIDE DEF e, t
<1>17. Spoken(g, c.s)
  BY <1>8, <1>11, <1>13, <1>14, <1>16, SpokenOther
<1>18. g \in Seq(Events) /\ \A i \in 1..Len(g) : Ends(g, i)
  BY <1>14, <1>16, EndsMore
<1>19. Told(before, g, t.out)
  BY <1>16
<1> HIDE DEF g
<1>20. Speaks(g, c.s)
  BY <1>8, <1>17, <1>18 DEF Speaks
<1>21. t.s = c.s
  BY <1>10, <1>16
<1> QED
  BY <1>3, <1>8, <1>16, <1>18, <1>19, <1>20, <1>21

\* The translation owes the client the events that f adds, and f is all there is
\* to the message.
Owes(ev, t) == \E f \in Seq(Events) : Told(ev, f, t.out) /\ Speaks(f, t.s)

\* Nothing is owed.
LEMMA NothingTold ==
  ASSUME NEW ev \in Seq(Events)
  PROVE  Told(ev, ev, <<>>)
<1> DEFINE n == Len(ev)
           e == <<>>
<1>1. n \in Nat /\ Len(e) = 0
  OBVIOUS
<1> HIDE DEF n, e
<1>2. Len(e) = 3 * (n - n) - 0 /\ n <= n
  BY <1>1
<1>3. \A i \in (n + 1)..n : FALSE
  BY <1>1
<1>4. Covers(e, ev, n, 0)
  BY <1>2, <1>3 DEF Covers, n
<1> QED
  BY <1>2, <1>4 DEF Told, n, e

\* A translation of nothing.
LEMMA NothingType ==
  ASSUME NEW s \in Translators
  PROVE  LET r == [s |-> s, out |-> <<>>]
         IN  r \in Translations /\ r.s = s /\ r.out = <<>>
<1>1. <<>> \in Seq(OwedLine)
  OBVIOUS
<1> QED
  BY <1>1 DEF Translations

\* What a clean end owes, and what the upstream's own end does.
LEMMA FinishSpeaks ==
  ASSUME NEW ev \in Seq(Events), NEW s \in Translators, Speaks(ev, s), ~s.stopped, ~s.failed, s.finish
  PROVE  LET t == appendTerminate([s |-> s, out |-> <<>>])
         IN  t \in Translations /\ Owes(ev, t) /\ t.s.finish
<1> DEFINE r == [s |-> s, out |-> <<>>]
           t == appendTerminate(r)
<1>1. r \in Translations /\ r.s = s /\ r.out = <<>>
  BY NothingType
<1> HIDE DEF r
<1>2. Talks(ev, r)
  <2>1. Told(ev, ev, r.out)
    BY <1>1, NothingTold
  <2>2. Spoken(ev, r.s) /\ Unended(ev)
    BY <1>1 DEF Speaks
  <2> QED
    BY <2>1, <2>2 DEF Talks
<1>3. ~r.s.stopped /\ r.s.finish /\ r.s.started
  BY <1>1 DEF Speaks
<1>4. /\ t \in Translations /\ t.s.finish
      /\ \E f \in Seq(Events) : Told(ev, f, t.out) /\ Speaks(f, t.s)
  BY <1>1, <1>2, <1>3, TerminateTalks
<1> HIDE DEF t
<1>5. t \in Translations /\ Owes(ev, t) /\ t.s.finish
  BY <1>4 DEF Owes
<1> QED
  BY <1>5 DEF r, t

\* A chunk that starts the message, or goes on with it, latched.
LEMMA BegunTalks ==
  ASSUME NEW ev \in Seq(Events), NEW s \in Translators, Speaks(ev, s), ~s.stopped, ~s.failed,
         NEW l \in Translators, l.nextIndex = s.nextIndex, l.openKind = s.openKind, l.openIndex = s.openIndex
  PROVE  LET plain == [s |-> l, out |-> <<>>]
             begun == IF s.started THEN plain ELSE Emit(plain, "message_start", <<"message">>)
         IN  begun \in Translations /\ begun.s = l /\ Talks(ev, begun)
<1> DEFINE plain == [s |-> l, out |-> <<>>]
           m == Emit(plain, "message_start", <<"message">>)
           e == Event("message_start", <<"message">>)
<1>1. plain \in Translations /\ plain.s = l /\ plain.out = <<>>
  BY NothingType
<1> HIDE DEF plain
<1>2. Told(ev, ev, plain.out)
  BY <1>1, NothingTold
<1>3. Spoken(ev, l)
  <2>1. Spoken(ev, s)
    BY DEF Speaks
  <2> QED
    BY <2>1, SpokenState
<1>4. CASE s.started
  <2>1. Unended(ev)
    BY <1>4 DEF Speaks
  <2>2. Talks(ev, plain)
    BY <1>1, <1>2, <1>3, <2>1 DEF Talks
  <2> QED
    BY <1>1, <1>4, <2>2 DEF plain
<1>5. CASE ~s.started
  <2>1. ev = <<>>
    BY <1>5 DEF Speaks
  <2>2. "message_start" \in Names /\ <<"message">> \in Seq(Contents)
    <3>1. "message" \in Contents
      BY DEF Contents
    <3>2. "message_start" \in Names
      BY DEF Names
    <3> QED
      BY <3>1, <3>2
  <2>3. e \in Events /\ m \in Translations /\ m.s = plain.s /\ Told(ev, Append(ev, e), m.out)
    BY <1>1, <1>2, <2>2, EmitTold
  <2>4. e.name = "message_start" /\ e.data # <<>>
    BY DEF Event
  <2> HIDE DEF e, m
  <2>5. Spoken(Append(ev, e), l)
    BY <1>3, <2>1, <2>3, <2>4, SpokenOther
  <2>6. Append(ev, e) \in Seq(Events) /\ Unended(Append(ev, e))
    BY <2>1, <2>3, <2>4, UnendedMore
  <2>7. Talks(ev, m)
    <3> DEFINE f == Append(ev, e)
    <3> HIDE DEF f
    <3>1. f \in Seq(Events) /\ Told(ev, f, m.out) /\ Spoken(f, m.s) /\ Unended(f)
      BY <1>1, <2>3, <2>5, <2>6 DEF f
    <3> QED
      BY <3>1 DEF Talks
  <2> QED
    BY <1>1, <1>5, <2>3, <2>7 DEF m, plain
<1> QED
  BY <1>4, <1>5

\* A chunk that is an error.
LEMMA ErrorSpeaks ==
  ASSUME NEW ev \in Seq(Events), NEW s \in Translators, Speaks(ev, s), ~s.stopped, ~s.failed
  PROVE  LET nothing == [s |-> s, out |-> <<>>]
             t == Emit([nothing EXCEPT !.s.failed = TRUE], "error", <<"api_error">>)
         IN  t \in Translations /\ Owes(ev, t) /\ t.s.finish = s.finish
<1> DEFINE nothing == [s |-> s, out |-> <<>>]
           z == [s EXCEPT !.failed = TRUE]
           p == [nothing EXCEPT !.s.failed = TRUE]
           t == Emit(p, "error", <<"api_error">>)
           e == Event("error", <<"api_error">>)
<1>1. nothing \in Translations /\ nothing.s = s /\ nothing.out = <<>>
  BY NothingType
<1>2. /\ z \in Translators /\ z.failed /\ z.finish = s.finish /\ z.started = s.started
      /\ z.nextIndex = s.nextIndex /\ z.openKind = s.openKind /\ z.openIndex = s.openIndex
  BY DEF Translators
<1> HIDE DEF nothing
<1>3. p = [nothing EXCEPT !.s = z]
  BY <1>1 DEF Translations
<1> HIDE DEF p, z
<1>4. p \in Translations /\ p.s = z /\ p.out = <<>>
  BY <1>1, <1>2, <1>3, StateType
<1>5. Told(ev, ev, p.out)
  BY <1>4, NothingTold
<1>6. "error" \in Names /\ <<"api_error">> \in Seq(Contents)
  <2>1. "api_error" \in Contents
    BY DEF Contents
  <2>2. "error" \in Names
    BY DEF Names
  <2> QED
    BY <2>1, <2>2
<1>7. e \in Events /\ t \in Translations /\ t.s = p.s /\ Told(ev, Append(ev, e), t.out)
  BY <1>4, <1>5, <1>6, EmitTold
<1>8. e.name = "error" /\ e.data # <<>>
  BY DEF Event
<1> HIDE DEF e, t
<1>9. Spoken(ev, z)
  <2>1. Spoken(ev, s)
    BY DEF Speaks
  <2> QED
    BY <1>2, <2>1, SpokenState
<1>10. Spoken(Append(ev, e), z)
  BY <1>2, <1>7, <1>8, <1>9, SpokenOther
<1>11. \A i \in 1..Len(ev) : ev[i].name \notin {"error", "message_stop"}
  <2>1. CASE ev = <<>>
    <3>1. \A i \in 1..Len(ev) : FALSE
      BY <2>1
    <3> QED
      BY <3>1
  <2>2. CASE Unended(ev)
    BY <2>2 DEF Unended
  <2> QED
    BY <2>1, <2>2 DEF Speaks
<1> DEFINE f == Append(ev, e)
<1>12. /\ f \in Seq(Events) /\ \A i \in 1..Len(f) : Ends(f, i)
       /\ \A x : (\A i \in 1..Len(ev) : ev[i].name # x) /\ e.name # x => \A i \in 1..Len(f) : f[i].name # x
  BY <1>7, <1>11, EndsMore
<1>13. Told(ev, f, t.out) /\ Spoken(f, z)
  BY <1>7, <1>10
<1> HIDE DEF f
<1>14. \A i \in 1..Len(f) : f[i].name # "message_stop"
  BY <1>8, <1>11, <1>12
<1>15. Speaks(f, z)
  <2>1. z.finish => z.started
    BY <1>2 DEF Speaks
  <2> QED
    BY <1>2, <1>12, <1>13, <1>14, <2>1 DEF Speaks
<1>16. t \in Translations /\ t.s = z /\ Owes(ev, t)
  BY <1>4, <1>7, <1>12, <1>13, <1>15 DEF Owes
<1> QED
  BY <1>2, <1>16 DEF t, p, nothing

\* What a payload owes.
LEMMA FrameSpeaks ==
  ASSUME NEW ev \in Seq(Events), NEW s \in Translators, Speaks(ev, s), NEW payload
  PROVE  LET t == Frame(s, payload)
         IN  /\ t \in Translations /\ Owes(ev, t)
             /\ t.s.finish => s.finish \/ (payload \in DOMAIN ChunkOf /\ ChunkOf[payload].finish)
<1> DEFINE nothing == [s |-> s, out |-> <<>>]
           Good(t) == /\ t \in Translations /\ Owes(ev, t)
                      /\ t.s.finish => s.finish \/ (payload \in DOMAIN ChunkOf /\ ChunkOf[payload].finish)
<1>1. Good(nothing)
  <2>1. nothing \in Translations /\ nothing.s = s /\ nothing.out = <<>>
    BY NothingType
  <2> HIDE DEF nothing
  <2>2. Owes(ev, nothing)
    BY <2>1, NothingTold DEF Owes
  <2> QED
    BY <2>1, <2>2
<1>2. ASSUME ~s.stopped, ~s.failed, s.finish PROVE Good(appendTerminate(nothing))
  BY <1>2, FinishSpeaks
<1>3. ASSUME ~s.stopped, ~s.failed, payload \in DOMAIN ChunkOf
      PROVE  LET chunk   == ChunkOf[payload]
                 latched == [s EXCEPT !.usage = @ \/ chunk.usage,
                                      !.finish = @ \/ chunk.finish,
                                      !.started = TRUE]
                 begun   == IF s.started THEN [s |-> latched, out |-> <<>>]
                            ELSE Emit([s |-> latched, out |-> <<>>],
                                      "message_start", <<"message">>)
                 body    == appendContent(begun, chunk)
             IN  Good(IF chunk.error
                      THEN Emit([nothing EXCEPT !.s.failed = TRUE], "error", <<"api_error">>)
                      ELSE IF latched.finish /\ latched.usage THEN appendTerminate(body)
                      ELSE body)
  <2> DEFINE chunk   == ChunkOf[payload]
             u == s.usage \/ chunk.usage
             f == s.finish \/ chunk.finish
             l == [s EXCEPT !.usage = u, !.finish = f, !.started = TRUE]
             plain   == [s |-> l, out |-> <<>>]
             begun   == IF s.started THEN plain ELSE Emit(plain, "message_start", <<"message">>)
             body    == appendContent(begun, chunk)
             failed  == Emit([nothing EXCEPT !.s.failed = TRUE], "error", <<"api_error">>)
  <2>1. Len(chunk.calls) \in Nat
    <3>1. chunk.calls \in Seq([announced : BOOLEAN, args : BOOLEAN])
      BY <1>3, ChunkAssumption
    <3> QED
      BY <3>1
  <2>2. /\ l \in Translators /\ l.started /\ l.finish = f /\ l.stopped = s.stopped /\ l.failed = s.failed
        /\ l.nextIndex = s.nextIndex /\ l.openKind = s.openKind /\ l.openIndex = s.openIndex
    <3>1. u \in BOOLEAN /\ f \in BOOLEAN
      OBVIOUS
    <3> HIDE DEF u, f
    <3> QED
      BY <3>1 DEF Translators
  <2>3. Good(failed)
    <3>1. failed \in Translations /\ Owes(ev, failed) /\ failed.s.finish = s.finish
      BY <1>3, ErrorSpeaks
    <3> HIDE DEF failed
    <3> QED
      BY <3>1
  <2> SUFFICES Good(IF chunk.error THEN failed ELSE IF l.finish /\ l.usage THEN appendTerminate(body) ELSE body)
    OBVIOUS
  <2> HIDE DEF failed, l
  <2>4. begun \in Translations /\ begun.s = l /\ Talks(ev, begun)
    BY <1>3, <2>2, BegunTalks
  <2> HIDE DEF begun
  <2>5. body \in Translations /\ Talks(ev, body) /\ SameFlags(begun.s, body.s)
    <3> HIDE DEF chunk
    <3> QED
      BY <2>1, <2>4, ContentTalks
  <2>6. body.s.started /\ body.s.finish = f /\ ~body.s.stopped /\ ~body.s.failed
    BY <1>3, <2>2, <2>4, <2>5 DEF SameFlags
  <2>7. f => s.finish \/ ChunkOf[payload].finish
    BY DEF f, chunk
  <2> HIDE DEF body, f, chunk
  <2>8. Good(body)
    <3>1. PICK g \in Seq(Events) : Told(ev, g, body.out) /\ Spoken(g, body.s) /\ Unended(g)
      BY <2>5 DEF Talks
    <3>2. Speaks(g, body.s)
      BY <2>6, <3>1, UnendedSpeaks
    <3>3. Owes(ev, body)
      BY <3>1, <3>2 DEF Owes
    <3> QED
      BY <1>3, <2>5, <2>6, <2>7, <3>3
  <2>9. ASSUME l.finish PROVE Good(appendTerminate(body))
    <3> DEFINE t == appendTerminate(body)
    <3>1. f
      BY <2>2, <2>9
    <3>2. body.s.finish
      BY <2>6, <3>1
    <3>3. /\ t \in Translations /\ t.s.finish
          /\ \E g \in Seq(Events) : Told(ev, g, t.out) /\ Speaks(g, t.s)
      BY <2>5, <2>6, <3>2, TerminateTalks
    <3> HIDE DEF t
    <3>4. Owes(ev, t)
      BY <3>3 DEF Owes
    <3>5. Good(t)
      BY <1>3, <2>7, <3>1, <3>3, <3>4
    <3> QED
      BY <3>5 DEF t
  <2> HIDE DEF Good
  <2> QED
    BY <2>3, <2>8, <2>9
<1> HIDE DEF Good, nothing
<1>4. Good(Frame(s, payload))
  <2>1. CASE s.stopped \/ s.failed
    BY <1>1, <2>1 DEF Frame, nothing
  <2>2. CASE ~(s.stopped \/ s.failed) /\ payload = "[DONE]"
    BY <1>1, <1>2, <2>2 DEF Frame, nothing
  <2>3. CASE ~(s.stopped \/ s.failed) /\ payload # "[DONE]" /\ payload \notin DOMAIN ChunkOf
    BY <1>1, <2>3 DEF Frame, nothing
  <2>4. CASE ~(s.stopped \/ s.failed) /\ payload # "[DONE]" /\ payload \in DOMAIN ChunkOf
    BY <1>3, <2>4 DEF Frame, nothing
  <2> QED
    BY <2>1, <2>2, <2>3, <2>4
<1> QED
  BY <1>4 DEF Good

-----------------------------------------------------------------------------
(* What the client's parser makes of the translator's lines.               *)

\* The client has been dispatched the first k events, and has the first ph
\* lines of the next.
At(q, ev, k, ph) ==
  /\ q.line = <<>> /\ q.cr = FALSE
  /\ Len(q.events) = k /\ \A i \in 1..k : q.events[i] = ev[i]
  /\ q.name = IF ph = 0 THEN NoName ELSE ev[k + 1].name
  /\ q.data = IF ph = 2 THEN ev[k + 1].data ELSE <<>>

\* What is left of the lines after the first.
LEMMA CoversTail ==
  ASSUME NEW ev \in Seq(Events), NEW k \in Nat, NEW ph \in 0..2, NEW lines \in Seq(OwedLine), lines # <<>>,
         Covers(lines, ev, k, ph),
         NEW j \in Nat, NEW h \in 0..2, 3 * j + h = 3 * k + ph + 1, k <= j
  PROVE  Covers(Tail(lines), ev, j, h)
<1> DEFINE L == Len(ev)
           t == Tail(lines)
           N == Len(lines)
<1>1. L \in Nat /\ N \in Nat /\ N >= 1 /\ N = 3 * (L - k) - ph
  BY DEF Covers
<1>2. Len(t) = N - 1 /\ \A i \in 1..(N - 1) : t[i] = lines[i + 1]
  OBVIOUS
<1>3. \A i \in (k + 1)..L :
       LET m == 3 * (i - k) - ph
       IN  /\ lines[m] = <<LF>>
           /\ m >= 2 => lines[m - 1] = <<"data:">> \o ev[i].data \o <<LF>>
           /\ m >= 3 => lines[m - 2] = <<"event:", ev[i].name, LF>>
  BY DEF Covers
<1> HIDE DEF L, t, N
<1>4. N - 1 = 3 * (L - j) - h
  BY <1>1
<1>5. ASSUME NEW i \in (j + 1)..L
      PROVE  LET m == 3 * (i - j) - h
             IN  /\ t[m] = <<LF>>
                 /\ m >= 2 => t[m - 1] = <<"data:">> \o ev[i].data \o <<LF>>
                 /\ m >= 3 => t[m - 2] = <<"event:", ev[i].name, LF>>
  <2> DEFINE m == 3 * (i - j) - h
             a == 3 * (i - k) - ph
  <2>1. i \in (k + 1)..L /\ a = m + 1 /\ m \in 1..(N - 1) /\ m \in Int
    BY <1>1
  <2>2. /\ lines[a] = <<LF>>
        /\ a >= 2 => lines[a - 1] = <<"data:">> \o ev[i].data \o <<LF>>
        /\ a >= 3 => lines[a - 2] = <<"event:", ev[i].name, LF>>
    BY <1>3, <2>1
  <2> HIDE DEF m, a
  <2>3. t[m] = lines[a]
    BY <1>2, <2>1
  <2>4. ASSUME m >= 2 PROVE t[m - 1] = lines[a - 1] /\ a >= 2
    <3>1. m - 1 \in 1..(N - 1) /\ (m - 1) + 1 = a - 1 /\ a >= 2
      BY <1>1, <2>1, <2>4
    <3> QED
      BY <1>2, <3>1
  <2>5. ASSUME m >= 3 PROVE t[m - 2] = lines[a - 2] /\ a >= 3
    <3>1. m - 2 \in 1..(N - 1) /\ (m - 2) + 1 = a - 2 /\ a >= 3
      BY <1>1, <2>1, <2>5
    <3> QED
      BY <1>2, <3>1
  <2>6. /\ t[m] = <<LF>>
        /\ m >= 2 => t[m - 1] = <<"data:">> \o ev[i].data \o <<LF>>
        /\ m >= 3 => t[m - 2] = <<"event:", ev[i].name, LF>>
    BY <2>2, <2>3, <2>4, <2>5
  <2> QED
    BY <2>6 DEF m
<1>6. Covers(t, ev, j, h)
  BY <1>2, <1>4, <1>5 DEF Covers, L
<1> QED
  BY <1>6 DEF t

\* The first of the lines.
LEMMA CoversHead ==
  ASSUME NEW ev \in Seq(Events), NEW k \in Nat, NEW ph \in 0..2, NEW lines \in Seq(OwedLine), lines # <<>>,
         Covers(lines, ev, k, ph)
  PROVE  /\ k + 1 \in 1..Len(ev) /\ Head(lines) \in OwedLine
         /\ ph = 0 => Head(lines) = <<"event:", ev[k + 1].name, LF>>
         /\ ph = 1 => Head(lines) = <<"data:">> \o ev[k + 1].data \o <<LF>>
         /\ ph = 2 => Head(lines) = <<LF>>
<1> DEFINE L == Len(ev)
           N == Len(lines)
           m == 3 * ((k + 1) - k) - ph
<1>1. L \in Nat /\ N \in Nat /\ N >= 1 /\ N = 3 * (L - k) - ph
  BY DEF Covers
<1>2. Head(lines) = lines[1] /\ Head(lines) \in OwedLine
  BY HeadTailProperties
<1>3. k + 1 \in (k + 1)..L /\ k + 1 \in 1..L /\ m = 3 - ph
  <2> HIDE DEF L, N
  <2> QED
    BY <1>1
<1>4. /\ lines[m] = <<LF>>
      /\ m >= 2 => lines[m - 1] = <<"data:">> \o ev[k + 1].data \o <<LF>>
      /\ m >= 3 => lines[m - 2] = <<"event:", ev[k + 1].name, LF>>
  BY <1>3 DEF Covers
<1> HIDE DEF m, L, N
<1>5. /\ ph = 0 => m >= 3 /\ m - 2 = 1
      /\ ph = 1 => m >= 2 /\ m - 1 = 1
      /\ ph = 2 => m = 1
  BY <1>3
<1>6. /\ ph = 0 => Head(lines) = <<"event:", ev[k + 1].name, LF>>
      /\ ph = 1 => Head(lines) = <<"data:">> \o ev[k + 1].data \o <<LF>>
      /\ ph = 2 => Head(lines) = <<LF>>
  BY <1>2, <1>4, <1>5
<1> QED
  BY <1>2, <1>3, <1>6 DEF L

\* What the name line and the data line of an event say.
LEMMA EventLineSays ==
  ASSUME NEW name \in Words, NEW data \in Seq(Words)
  PROVE  LET a == <<"event:", name, LF>>
             d == <<"data:">> \o data \o <<LF>>
         IN  /\ Body(a) = <<"event:", name>> /\ Body(a) # <<>> /\ Body(a)[1] = "event:" /\ ValueIn(Body(a)) = name
             /\ a[Len(a)] = LF
             /\ Body(d) # <<>> /\ Body(d)[1] = "data:" /\ Tail(Body(d)) = data /\ d[Len(d)] = LF
<1> DEFINE a == <<"event:", name, LF>>
           x == <<"data:">> \o data
           d == <<"data:">> \o data \o <<LF>>
           one == <<"data:">>
           end == <<LF>>
<1>1. "event:" \in Words /\ "data:" \in Words /\ LF \in Words
  BY DEF Words, Names
<1>2. Body(a) = <<"event:", name>> /\ Body(a) # <<>> /\ Body(a)[1] = "event:" /\ ValueIn(Body(a)) = name
      /\ a[Len(a)] = LF
  <2> DEFINE b == Body(a)
  <2>1. a \in Seq(Words) /\ Len(a) = 3 /\ a[1] = "event:" /\ a[2] = name /\ a[3] = LF
    BY <1>1
  <2>2. b = SubSeq(a, 1, 2)
    BY <2>1 DEF Body
  <2> HIDE DEF a
  <2>3. b \in Seq(Words) /\ Len(b) = 2 /\ \A i \in 1..2 : b[i] = a[i]
    <3>1. 3 \in 0..Len(a) /\ 2 \in 0..3
      BY <2>1
    <3>2. /\ SubSeq(a, 1, 2) \in Seq(Words) /\ Len(SubSeq(a, 1, 2)) = 2
          /\ \A i \in 1..2 : SubSeq(a, 1, 2)[i] = a[i]
      BY <2>1, <3>1, PrefixSplits
    <3> QED
      BY <2>2, <3>2
  <2> HIDE DEF b
  <2>4. b = <<"event:", name>>
    <3> DEFINE c == <<"event:", name>>
    <3>1. c \in Seq(Words) /\ Len(c) = 2 /\ c[1] = "event:" /\ c[2] = name
      BY <1>1
    <3> HIDE DEF c
    <3>2. \A i \in 1..2 : i = 1 \/ i = 2
      OBVIOUS
    <3>3. \A i \in 1..2 : b[i] = c[i]
      BY <2>1, <2>3, <3>1, <3>2
    <3>4. b = c
      BY <2>3, <3>1, <3>3, SeqEqual
    <3> QED
      BY <3>4 DEF c
  <2>5. b # <<>> /\ b[1] = "event:" /\ ValueIn(b) = name
    <3>1. 1 \in 1..2 /\ 2 \in 1..2
      OBVIOUS
    <3>2. b[1] = "event:" /\ b[2] = name
      BY <2>1, <2>3, <3>1
    <3>3. b # <<>> /\ Len(b) > 1
      <4>1. Len(b) = 2 /\ Len(<<>>) = 0
        BY <2>3
      <4>2. 2 # 0 /\ 2 > 1
        OBVIOUS
      <4>3. Len(b) > 1
        BY <4>1, <4>2
      <4>4. b # <<>>
        BY <4>1, <4>2
      <4> QED
        BY <4>3, <4>4
    <3> QED
      BY <3>2, <3>3 DEF ValueIn
  <2> QED
    BY <2>1, <2>4, <2>5 DEF b
<1>3. one \in Seq(Words) /\ Len(one) = 1 /\ one[1] = "data:" /\ end \in Seq(Words) /\ Len(end) = 1 /\ end[1] = LF
  BY <1>1
<1>4. d = x \o end /\ x = one \o data
  OBVIOUS
<1> HIDE DEF a, d, x, one, end
<1>5. /\ x \in Seq(Words) /\ Len(x) = Len(one) + Len(data) /\ Len(data) \in Nat
      /\ \A i \in 1..Len(one) : x[i] = one[i]
      /\ \A i \in 1..Len(data) : x[Len(one) + i] = data[i]
  <2>1. 0 \in 0..Len(one) /\ Len(data) \in Nat
    BY <1>3
  <2> QED
    BY <1>3, <1>4, <2>1, PrefixStays
<1>6. /\ d \in Seq(Words) /\ Len(d) = Len(x) + 1 /\ SubSeq(d, 1, Len(x)) = x
      /\ d[Len(x) + 1] = LF
  <2>1. Len(x) \in 0..Len(x) /\ 1 \in 1..Len(end)
    BY <1>3, <1>5
  <2>2. /\ SubSeq(x \o end, 1, Len(x)) = SubSeq(x, 1, Len(x)) /\ SubSeq(x, 1, Len(x)) = x
        /\ x \o end \in Seq(Words) /\ Len(x \o end) = Len(x) + Len(end)
        /\ \A i \in 1..Len(end) : (x \o end)[Len(x) + i] = end[i]
    BY <1>3, <1>5, <2>1, PrefixStays
  <2> QED
    BY <1>3, <1>4, <2>1, <2>2
<1>7. Body(d) = x /\ d[Len(d)] = LF
  <2>1. Len(d) - 1 = Len(x)
    BY <1>5, <1>6
  <2> QED
    BY <1>6, <2>1 DEF Body
<1>8. x # <<>> /\ x[1] = "data:" /\ Tail(x) = data
  <2>1. x # <<>> /\ x[1] = "data:"
    <3>1. 1 \in 1..Len(one) /\ Len(x) >= 1
      BY <1>3, <1>5
    <3> QED
      BY <1>3, <1>5, <3>1
  <2> DEFINE t == Tail(x)
  <2>2. t \in Seq(Words) /\ Len(t) = Len(data) /\ \A i \in 1..Len(data) : t[i] = x[1 + i]
    BY <1>3, <1>5, <2>1
  <2> HIDE DEF t
  <2>3. \A i \in 1..Len(data) : t[i] = data[i]
    BY <1>3, <1>5, <2>2
  <2>4. t = data
    BY <2>2, <2>3, SeqEqual
  <2> QED
    BY <2>1, <2>4 DEF t
<1> QED
  BY <1>2, <1>7, <1>8 DEF a, d

\* The client has received the name of a message_stop.
StopHeard(ev, k, ph) == \E i \in 1..(IF ph = 0 THEN k ELSE k + 1) : ev[i].name = "message_stop"

\* The client receives one line more.
LEMMA LineHeard ==
  ASSUME NEW o \in Seq(Words), NEW ev \in Seq(Events), \A i \in 1..Len(ev) : Fits(ev, i),
         NEW k \in Nat, NEW ph \in 0..2, NEW lines \in Seq(OwedLine), lines # <<>>,
         Covers(lines, ev, k, ph), At(Parse(o), ev, k, ph)
  PROVE  \E j \in Nat : \E h \in 0..2 :
           /\ Covers(Tail(lines), ev, j, h) /\ At(Parse(o \o Head(lines)), ev, j, h) /\ j <= Len(ev)
           /\ Head(lines) = <<LF>> => h = 0
           /\ StopHeard(ev, j, h) => StopHeard(ev, k, ph) \/ isTerminalSSELine(Head(lines))
<1> DEFINE l == Head(lines)
           p == Parse(o)
           q == Parse(o \o l)
           e == ev[k + 1]
           b == Body(l)
           Good(j, h) == /\ Covers(Tail(lines), ev, j, h) /\ At(q, ev, j, h) /\ j <= Len(ev)
                         /\ l = <<LF>> => h = 0
                         /\ StopHeard(ev, j, h) => StopHeard(ev, k, ph) \/ isTerminalSSELine(l)
<1>1. /\ k + 1 \in 1..Len(ev) /\ l \in OwedLine
      /\ ph = 0 => l = <<"event:", e.name, LF>>
      /\ ph = 1 => l = <<"data:">> \o e.data \o <<LF>>
      /\ ph = 2 => l = <<LF>>
  BY CoversHead
<1>2. Len(ev) \in Nat /\ k + 1 <= Len(ev) /\ k <= Len(ev)
  <2>1. Len(ev) \in Nat
    OBVIOUS
  <2> QED
    BY <1>1, <2>1
<1>3. e \in Events /\ e.data # <<>> /\ e.name \in Words /\ e.data \in Seq(Words)
  <2>1. e \in Events /\ Fits(ev, k + 1)
    BY <1>1
  <2> QED
    BY <2>1 DEF Fits, Events
<1>4. IsLine(l)
  BY <1>1 DEF OwedLine
<1>5. p.line = <<>> /\ p.cr = FALSE /\ p \in Parsers
  BY ParseSteps DEF At
<1>6. LF # CR
  BY DEF LF, CR
<1> HIDE DEF l
<1>7. /\ q.line = <<>> /\ q.cr = (l[Len(l)] = CR)
      /\ b = <<>> =>
           /\ q.name = NoName /\ q.data = <<>>
           /\ q.events = IF p.data = <<>> THEN p.events
                         ELSE Append(p.events, [name |-> p.name, data |-> p.data])
      /\ b # <<>> => q.events = p.events
      /\ b # <<>> /\ b[1] = "data:" => q.name = p.name /\ q.data = p.data \o Tail(b)
      /\ b # <<>> /\ b[1] = "event:" => q.name = ValueIn(b) /\ q.data = p.data
  BY <1>4, <1>5, ParseLine
<1>8. /\ Len(p.events) = k /\ \A i \in 1..k : p.events[i] = ev[i]
      /\ p.name = IF ph = 0 THEN NoName ELSE e.name
      /\ p.data = IF ph = 2 THEN e.data ELSE <<>>
  BY DEF At
<1>9. l[Len(l)] = LF
  BY <1>1 DEF OwedLine
<1>10. q.cr = FALSE
  BY <1>6, <1>7, <1>9
<1> HIDE DEF p, q, e
<1>11. CASE ph = 0
  <2> DEFINE a == <<"event:", e.name, LF>>
  <2>1. Body(a) = <<"event:", e.name>> /\ Body(a) # <<>> /\ Body(a)[1] = "event:" /\ ValueIn(Body(a)) = e.name
    BY <1>3, EventLineSays
  <2>2. b = <<"event:", e.name>> /\ b # <<>> /\ b[1] = "event:" /\ ValueIn(b) = e.name
    BY <1>1, <1>11, <2>1
  <2> HIDE DEF b
  <2>3. At(q, ev, k, 1)
    BY <1>7, <1>8, <1>10, <1>11, <2>2 DEF At, e
  <2>4. Covers(Tail(lines), ev, k, 1)
    <3>1. 1 \in 0..2 /\ 3 * k + 1 = 3 * k + ph + 1 /\ k <= k
      BY <1>11
    <3> QED
      BY <3>1, CoversTail
  <2>5. l # <<LF>>
    <3>1. Len(a) = 3 /\ Len(<<LF>>) = 1 /\ 3 # 1
      OBVIOUS
    <3>2. l = a
      BY <1>1, <1>11
    <3> HIDE DEF a
    <3> QED
      BY <3>1, <3>2
  <2>6. StopHeard(ev, k, 1) => StopHeard(ev, k, ph) \/ isTerminalSSELine(l)
    <3>1. \A i \in 1..(k + 1) : i \in 1..k \/ i = k + 1
      OBVIOUS
    <3>2. e.name = "message_stop" => isTerminalSSELine(l)
      <4>1. splitSSELineTerminator(l) = b
        BY <1>4, LineReads DEF b
      <4> QED
        BY <2>2, <4>1 DEF isTerminalSSELine
    <3> QED
      BY <1>11, <3>1, <3>2 DEF StopHeard, e
  <2>7. 1 \in 0..2 /\ Good(k, 1)
    BY <1>2, <2>3, <2>4, <2>5, <2>6
  <2> HIDE DEF Good
  <2>8. \E j \in Nat : \E h \in 0..2 : Good(j, h)
    BY <2>7
  <2> QED
    BY <2>8 DEF Good, l, q
<1>12. CASE ph = 1
  <2> DEFINE d == <<"data:">> \o e.data \o <<LF>>
  <2>1. Body(d) # <<>> /\ Body(d)[1] = "data:" /\ Tail(Body(d)) = e.data
    BY <1>3, EventLineSays
  <2>2. b # <<>> /\ b[1] = "data:" /\ Tail(b) = e.data
    BY <1>1, <1>12, <2>1
  <2> HIDE DEF b
  <2>3. p.data = <<>> /\ q.data = p.data \o e.data /\ q.name = e.name /\ q.events = p.events
    <3>1. q.name = p.name /\ q.data = p.data \o Tail(b) /\ q.events = p.events
      BY <1>7, <2>2
    <3>2. p.data = <<>> /\ p.name = e.name
      BY <1>8, <1>12
    <3> HIDE DEF l
    <3> QED
      BY <2>2, <3>1, <3>2
  <2>4. q.data = e.data
    <3>1. <<>> \o e.data = e.data
      BY <1>3
    <3> QED
      BY <2>3, <3>1
  <2>5. At(q, ev, k, 2)
    BY <1>7, <1>8, <1>10, <2>3, <2>4 DEF At, e
  <2>6. Covers(Tail(lines), ev, k, 2)
    <3>1. 2 \in 0..2 /\ 3 * k + 2 = 3 * k + ph + 1 /\ k <= k
      BY <1>12
    <3> QED
      BY <3>1, CoversTail
  <2>7. l # <<LF>>
    BY <2>2, LoneLF DEF b
  <2>8. StopHeard(ev, k, 2) => StopHeard(ev, k, ph)
    BY <1>12 DEF StopHeard
  <2>9. 2 \in 0..2 /\ Good(k, 2)
    BY <1>2, <2>5, <2>6, <2>7, <2>8
  <2> HIDE DEF Good
  <2>10. \E j \in Nat : \E h \in 0..2 : Good(j, h)
    BY <2>9
  <2> QED
    BY <2>10 DEF Good, l, q
<1>13. CASE ph = 2
  <2>1. b = <<>>
    BY <1>1, <1>13, LoneLF
  <2> HIDE DEF b
  <2>2. p.data = e.data /\ p.name = e.name
    BY <1>8, <1>13
  <2>3. q.name = NoName /\ q.data = <<>> /\ q.events = Append(p.events, e)
    <3>1. e = [name |-> e.name, data |-> e.data]
      BY <1>3 DEF Events
    <3> QED
      BY <1>3, <1>7, <2>1, <2>2, <3>1
  <2>4. Len(q.events) = k + 1 /\ \A i \in 1..(k + 1) : q.events[i] = ev[i]
    <3>1. p.events \in Seq(Events)
      BY <1>5 DEF Parsers, Events
    <3> DEFINE s == p.events
               f == Append(s, e)
    <3> HIDE DEF s
    <3>2. s \in Seq(Events) /\ Len(s) = k /\ \A i \in 1..k : s[i] = ev[i]
      BY <1>8, <3>1 DEF s
    <3>3. Len(f) = k + 1 /\ f[k + 1] = e /\ \A i \in 1..k : f[i] = s[i]
      BY <1>3, <3>2
    <3> HIDE DEF f
    <3>4. \A i \in 1..(k + 1) : i \in 1..k \/ i = k + 1
      OBVIOUS
    <3>5. \A i \in 1..(k + 1) : f[i] = ev[i]
      BY <3>2, <3>3, <3>4 DEF e
    <3> QED
      BY <2>3, <3>3, <3>5 DEF f, s
  <2>5. At(q, ev, k + 1, 0)
    BY <1>7, <1>10, <2>3, <2>4 DEF At
  <2>6. k + 1 \in Nat /\ 0 \in 0..2
    OBVIOUS
  <2>7. Covers(Tail(lines), ev, k + 1, 0)
    <3>1. 3 * (k + 1) + 0 = 3 * k + ph + 1 /\ k <= k + 1
      BY <1>13
    <3> QED
      BY <2>6, <3>1, CoversTail
  <2>8. StopHeard(ev, k + 1, 0) => StopHeard(ev, k, ph)
    BY <1>13 DEF StopHeard
  <2>9. Good(k + 1, 0)
    BY <1>2, <2>5, <2>7, <2>8
  <2> HIDE DEF Good
  <2>10. \E j \in Nat : \E h \in 0..2 : Good(j, h)
    BY <2>6, <2>9
  <2> QED
    BY <2>10 DEF Good, l, q
<1>14. ph = 0 \/ ph = 1 \/ ph = 2
  OBVIOUS
<1> QED
  BY <1>11, <1>12, <1>13, <1>14

\* The upstream states a finish reason somewhere.
FinishOnWire ==
  \E i \in 1..Len(wire) :
    LET payload == rewriteOut(wire[i])
    IN  payload \in DOMAIN ChunkOf /\ ChunkOf[payload].finish

\* The message so far is ev: the client has been dispatched its first k events,
\* and while the copy runs the lines owed are those of the others, but for the
\* first ph that the client already has.
MessageInv(ev, k, ph) ==
  /\ Speaks(ev, tr) /\ k <= Len(ev)
  /\ Len(Parse(out).events) = k /\ \A i \in 1..k : Parse(out).events[i] = ev[i]
  /\ result = "run" => Covers(frames, ev, k, ph) /\ At(Parse(out), ev, k, ph)
  /\ StopHeard(ev, k, ph) => stats.terminal
  /\ hb.boundary /\ ~gone => Quiet(Parse(out))
  /\ tr.finish => FinishOnWire

MessagesInv ==
  input.surface = "messages" =>
    \E ev \in Seq(Events) : \E k \in Nat : \E ph \in 0..2 : MessageInv(ev, k, ph)

\* Before the copy starts nothing has been said.
LEMMA InitMessages == Init => MessagesInv
<1> SUFFICES ASSUME Init PROVE MessagesInv
  OBVIOUS
<1> DEFINE e == <<>>
           s == NewChatToMessagesStream
<1>1. e \in Seq(Events) /\ Len(e) = 0
  OBVIOUS
<1>2. tr = s /\ out = <<>> /\ frames = <<>>
  BY DEF Init
<1>3. s.nextIndex = 0 /\ s.openKind = "none" /\ ~s.started /\ ~s.finish
  BY DEF NewChatToMessagesStream
<1> HIDE DEF s
<1>4. Told(e, e, <<>>)
  BY <1>1, NothingTold
<1> HIDE DEF e
<1>5. \A i \in 1..0 : FALSE
  OBVIOUS
<1>6. Spoken(e, s)
  <2>1. \A n : NamedIn(e, n, 0) = {}
    BY <1>5 DEF NamedIn
  <2>2. StartsIn(e, 0) = 0 /\ StopsIn(e, 0) = 0
    BY <2>1, FS_EmptySet DEF StartsIn, StopsIn
  <2> QED
    BY <1>1, <1>3, <1>5, <2>2 DEF Spoken
<1>7. Speaks(e, s)
  BY <1>1, <1>3, <1>5, <1>6 DEF Speaks, e
<1>8. Parse(out) = ParseStart
  BY <1>2, ParseSteps
<1>9. Quiet(Parse(out)) /\ Parse(out).events = <<>>
  BY <1>8 DEF ParseStart, Quiet
<1>10. Covers(frames, e, 0, 0)
  BY <1>1, <1>2, <1>4 DEF Told
<1> DEFINE q == Parse(out)
           v == Parse(out).events
<1>11. Len(v) = 0
  BY <1>9
<1> HIDE DEF q, v
<1>12. At(q, e, 0, 0)
  BY <1>5, <1>9, <1>11 DEF At, Quiet, q, v
<1>13. ~StopHeard(e, 0, 0)
  BY <1>5 DEF StopHeard
<1>14. 0 \in Nat /\ 0 \in 0..2 /\ 0 <= Len(e)
  BY <1>1
<1>15. MessageInv(e, 0, 0)
  BY <1>2, <1>3, <1>5, <1>7, <1>9, <1>10, <1>11, <1>12, <1>13, <1>14 DEF MessageInv, q, v
<1> QED
  BY <1>1, <1>14, <1>15 DEF MessagesInv

\* A step that writes nothing and translates nothing.
LEMMA MessagesQuiet ==
  ASSUME MessagesInv, UNCHANGED <<input, out, tr, frames, stats>>,
         result' = "run" => result = "run",
         hb'.boundary /\ ~gone' => hb.boundary /\ ~gone
  PROVE  MessagesInv'
<1>1. ASSUME input.surface = "messages"
      PROVE  \E ev \in Seq(Events) : \E k \in Nat : \E ph \in 0..2 : MessageInv(ev, k, ph)'
  <2>1. PICK ev \in Seq(Events) : \E k \in Nat : \E ph \in 0..2 : MessageInv(ev, k, ph)
    BY <1>1 DEF MessagesInv
  <2>2. PICK k \in Nat, ph \in 0..2 : MessageInv(ev, k, ph)
    BY <2>1
  <2>3. FinishOnWire' = FinishOnWire
    BY DEF FinishOnWire, wire
  <2>4. Parse(out)' = Parse(out)
    OBVIOUS
  <2>5. MessageInv(ev, k, ph)'
    BY <2>2, <2>3, <2>4 DEF MessageInv
  <2> QED
    BY <2>5
<1> QED
  BY <1>1 DEF MessagesInv

\* A tick of the heartbeat.
LEMMA MessagesPing ==
  ASSUME OutInv, MessagesInv, maybePing
  PROVE  MessagesInv'
<1>1. UNCHANGED <<input, tr, frames, stats, result, gone>> /\ hb.boundary
  BY DEF maybePing
<1>2. hb \in Heartbeats
  BY DEF OutInv, OutTypeOK
<1>3. CASE gone
  <2>1. out' = out /\ hb' = [hb EXCEPT !.live = FALSE]
    BY <1>3 DEF maybePing
  <2> QED
    BY <1>1, <1>3, <2>1, MessagesQuiet
<1>4. CASE ~gone
  <2>1. out' = out \o Ping
    BY <1>4 DEF maybePing
  <2>2. ASSUME input.surface = "messages"
        PROVE  \E ev \in Seq(Events) : \E k \in Nat : \E ph \in 0..2 : MessageInv(ev, k, ph)'
    <3>1. PICK ev \in Seq(Events) : \E k \in Nat : \E ph \in 0..2 : MessageInv(ev, k, ph)
      BY <2>2 DEF MessagesInv
    <3>2. PICK k \in Nat, ph \in 0..2 : MessageInv(ev, k, ph)
      BY <3>1
    <3> DEFINE q == Parse(out)
               r == Parse(out \o Ping)
    <3>3. Quiet(q)
      BY <1>1, <1>4, <3>2 DEF MessageInv
    <3>4. out \in Seq(Words) /\ AtLineStart(out)
      BY <1>1, <1>4 DEF OutInv, OutTypeOK
    <3>5. Quiet(r) /\ r.events = q.events
      BY <3>3, <3>4, PingSilent
    <3>6. Parse(out)' = r
      BY <2>1
    <3> HIDE DEF q, r
    <3>7. At(q, ev, k, ph) => At(r, ev, k, ph)
      BY <3>3, <3>5 DEF At, Quiet
    <3>8. FinishOnWire' = FinishOnWire
      BY <1>1 DEF FinishOnWire, wire
    <3>9. /\ Speaks(ev, tr) /\ k <= Len(ev)
          /\ Len(q.events) = k /\ \A i \in 1..k : q.events[i] = ev[i]
          /\ result = "run" => Covers(frames, ev, k, ph) /\ At(q, ev, k, ph)
          /\ StopHeard(ev, k, ph) => stats.terminal
          /\ tr.finish => FinishOnWire
      BY <3>2 DEF MessageInv, q
    <3>10. MessageInv(ev, k, ph)'
      BY <1>1, <3>5, <3>6, <3>7, <3>8, <3>9 DEF MessageInv
    <3> QED
      BY <3>10
  <2> QED
    BY <1>1, <2>2 DEF MessagesInv
<1> QED
  BY <1>2, <1>3, <1>4 DEF OutInv, OutTypeOK

\* A line the translator owes is written, or torn.
LEMMA MessagesWritten ==
  ASSUME OutInv, MessagesInv, WriteFrame
  PROVE  MessagesInv'
<1> DEFINE b == Head(frames)
           rest == Tail(frames)
<1>1. /\ UNCHANGED <<input, tr, gone>> /\ result = "run" /\ frames # <<>>
  BY DEF WriteFrame, Running
<1>2. OutTypeOK /\ out \in Seq(Words) /\ frames \in Seq(OwedLine)
  BY DEF OutInv, OutTypeOK
<1>3. PICK n \in Accepted(b) :
        /\ Write(n, b)
        /\ n < Len(b) => result' = "write_err" /\ UNCHANGED <<stats, frames>>
        /\ ~(n < Len(b)) => /\ frames' = rest /\ stats'.terminal = (stats.terminal \/ isTerminalSSELine(b))
                            /\ result' = result
  BY DEF WriteFrame
<1>4. b \in OwedLine
  BY <1>1, <1>2, HeadTailProperties
<1>5. IsPiece(b) /\ Foreign(b) /\ Len(b) \in Nat
  BY <1>4 DEF OwedLine, IsLine, IsPiece, Foreign
<1> HIDE DEF b, rest
<1>6. /\ ~gone => /\ n = Len(b) /\ out' = out \o b
                  /\ hb'.boundary => endsWithBlankLine(b)
      /\ gone => /\ n < Len(b)
                 /\ \E w \in Seq(Words) : /\ out' = out \o w
                                          /\ \A i \in 1..Len(w) : w[i] \notin Terminators
  BY <1>2, <1>3, <1>5, WriteFacts
<1>7. FinishOnWire' = FinishOnWire
  BY <1>1 DEF FinishOnWire, wire
<1>8. ASSUME input.surface = "messages"
      PROVE  \E ev \in Seq(Events) : \E k \in Nat : \E ph \in 0..2 : MessageInv(ev, k, ph)'
  <2>1. PICK ev \in Seq(Events) : \E k \in Nat : \E ph \in 0..2 : MessageInv(ev, k, ph)
    BY <1>8 DEF MessagesInv
  <2>2. PICK k \in Nat, ph \in 0..2 : MessageInv(ev, k, ph)
    BY <2>1
  <2>3. /\ Speaks(ev, tr) /\ k <= Len(ev)
        /\ Len(Parse(out).events) = k /\ \A i \in 1..k : Parse(out).events[i] = ev[i]
        /\ Covers(frames, ev, k, ph) /\ At(Parse(out), ev, k, ph)
        /\ StopHeard(ev, k, ph) => stats.terminal
        /\ tr.finish => FinishOnWire
    BY <1>1, <2>2 DEF MessageInv
  <2>4. CASE gone
    <3>1. PICK w \in Seq(Words) : out' = out \o w /\ \A i \in 1..Len(w) : w[i] \notin Terminators
      BY <1>6, <2>4
    <3>2. Parse(out \o w).events = Parse(out).events
      BY <1>2, <3>1, TornSilent
    <3>3. Parse(out)'.events = Parse(out).events
      BY <3>1, <3>2
    <3>4. result' = "write_err" /\ UNCHANGED <<stats, frames>>
      BY <1>3, <1>6, <2>4
    <3>5. MessageInv(ev, k, ph)'
      BY <1>1, <1>7, <2>3, <2>4, <3>3, <3>4 DEF MessageInv
    <3> QED
      BY <3>5
  <2>5. CASE ~gone
    <3>1. /\ frames' = rest /\ stats'.terminal = (stats.terminal \/ isTerminalSSELine(b)) /\ result' = result
          /\ out' = out \o b /\ (hb'.boundary => endsWithBlankLine(b))
      BY <1>3, <1>5, <1>6, <2>5
    <3>2. \A i \in 1..Len(ev) : Fits(ev, i)
      BY <2>3 DEF Speaks, Spoken
    <3>3. PICK j \in Nat, h \in 0..2 :
            /\ Covers(rest, ev, j, h) /\ At(Parse(out \o b), ev, j, h) /\ j <= Len(ev)
            /\ b = <<LF>> => h = 0
            /\ StopHeard(ev, j, h) => StopHeard(ev, k, ph) \/ isTerminalSSELine(b)
      BY <1>1, <1>2, <2>3, <3>2, LineHeard DEF b, rest
    <3>4. Parse(out)' = Parse(out \o b)
      BY <3>1
    <3> DEFINE q == Parse(out \o b)
    <3> HIDE DEF q
    <3>5. Len(q.events) = j /\ \A i \in 1..j : q.events[i] = ev[i]
      BY <3>3 DEF At, q
    <3>6. hb'.boundary => Quiet(q)
      <4> SUFFICES ASSUME hb'.boundary PROVE Quiet(q)
        OBVIOUS
      <4>1. h = 0
        BY <1>5, <3>1, <3>3, BlankOnly
      <4> QED
        BY <3>3, <4>1 DEF At, Quiet, q
    <3>7. StopHeard(ev, j, h) => stats'.terminal
      BY <2>3, <3>1, <3>3
    <3>8. MessageInv(ev, j, h)'
      BY <1>1, <1>7, <2>3, <3>1, <3>3, <3>4, <3>5, <3>6, <3>7 DEF MessageInv, q
    <3> QED
      BY <3>8
  <2> QED
    BY <2>4, <2>5
<1> QED
  BY <1>1, <1>8 DEF MessagesInv

\* What a translation adds to a message of which everything was written.
LEMMA MessagesTranslated ==
  ASSUME OutInv, MessagesInv, result = "run", frames = <<>>, input.surface = "messages",
         UNCHANGED <<input, out, stats, hb, gone>>, NEW t, tr' = t.s, frames' = t.out,
         \A ev \in Seq(Events) : Speaks(ev, tr) => Owes(ev, t),
         t.s.finish => tr.finish \/ FinishOnWire
  PROVE  MessagesInv'
<1>1. PICK ev \in Seq(Events) : \E k \in Nat : \E ph \in 0..2 : MessageInv(ev, k, ph)
  BY DEF MessagesInv
<1>2. PICK k \in Nat, ph \in 0..2 : MessageInv(ev, k, ph)
  BY <1>1
<1> DEFINE q == Parse(out)
<1>3. /\ Speaks(ev, tr) /\ k <= Len(ev)
      /\ Len(q.events) = k /\ \A i \in 1..k : q.events[i] = ev[i]
      /\ Covers(frames, ev, k, ph) /\ At(q, ev, k, ph)
      /\ StopHeard(ev, k, ph) => stats.terminal
      /\ hb.boundary /\ ~gone => Quiet(q)
      /\ tr.finish => FinishOnWire
  BY <1>2 DEF MessageInv
<1>4. ph = 0 /\ k = Len(ev)
  <2> DEFINE L == Len(ev)
  <2>1. L \in Nat /\ 0 = 3 * (L - k) - ph
    BY <1>3 DEF Covers
  <2> HIDE DEF L
  <2>2. ph = 0 /\ k = L
    BY <2>1
  <2> QED
    BY <2>2 DEF L
<1>5. PICK f \in Seq(Events) : Told(ev, f, t.out) /\ Speaks(f, t.s)
  BY <1>3 DEF Owes
<1> HIDE DEF q
<1>6. k <= Len(f) /\ (\A i \in 1..k : f[i] = ev[i]) /\ Covers(t.out, f, k, 0)
  BY <1>4, <1>5 DEF Told
<1>7. At(q, f, k, 0)
  BY <1>3, <1>4, <1>6 DEF At
<1>8. StopHeard(f, k, 0) => stats.terminal
  BY <1>3, <1>4, <1>6 DEF StopHeard
<1>9. FinishOnWire' = FinishOnWire
  BY DEF FinishOnWire, wire
<1>10. Parse(out)' = q
  BY DEF q
<1>11. \A i \in 1..k : q.events[i] = f[i]
  BY <1>3, <1>6
<1>12. MessageInv(f, k, 0)'
  BY <1>3, <1>5, <1>6, <1>7, <1>8, <1>9, <1>10, <1>11 DEF MessageInv
<1>13. 0 \in 0..2
  OBVIOUS
<1> QED
  BY <1>12, <1>13 DEF MessagesInv

\* The value of a line is one of its tokens, or empty.
LEMMA PieceValue ==
  ASSUME NEW l, IsPiece(l)
  PROVE  FieldValue(l) = "" \/ \E i \in 1..Len(l) : FieldValue(l) = l[i]
<1> DEFINE c == splitSSELineTerminator(l)
<1>1. FieldValue(l) = IF Len(c) > 1 THEN c[2] ELSE ""
  BY DEF FieldValue
<1> HIDE DEF c
<1>2. Len(l) \in Nat
  BY DEF IsPiece
<1>3. CASE l[Len(l)] \in Terminators
  <2>1. IsLine(l) /\ c = Body(l)
    BY <1>3, PieceSays DEF c
  <2>2. Len(Body(l)) = Len(l) - 1 /\ \A i \in 1..(Len(l) - 1) : Body(l)[i] = l[i]
    BY <2>1, LineParts
  <2>3. ASSUME Len(c) > 1 PROVE 2 \in 1..Len(l) /\ c[2] = l[2]
    <3>1. Len(l) - 1 > 1
      BY <2>1, <2>2, <2>3
    <3>2. 2 \in 1..(Len(l) - 1) /\ 2 \in 1..Len(l)
      BY <1>2, <3>1
    <3> QED
      BY <2>1, <2>2, <3>2
  <2> QED
    BY <1>1, <2>3
<1>4. CASE l[Len(l)] \notin Terminators
  <2>1. c = l
    BY <1>4, PieceSays DEF c
  <2>2. Len(l) > 1 => 2 \in 1..Len(l)
    BY <1>2
  <2> QED
    BY <1>1, <2>1, <2>2
<1> QED
  BY <1>3, <1>4

\* The tokens of a line taken are the wire's.
LEMMA TokensOfWire ==
  ASSUME BufferInv, BufferInv', wire' = wire, NEW line \in Seq(Words), consumed' = consumed \o line
  PROVE  \A i \in 1..Len(line) : \E j \in 1..Len(wire) : line[i] = wire[j]
<1> DEFINE w == wire
           s == consumed
           m == used' - acc'
<1>1. w \in Seq(Words) /\ Len(w) \in Nat /\ s \in Seq(Words) /\ Len(s) \in Nat
  <2>1. wire \in Seq(Words) /\ Len(wire) \in Nat /\ consumed \in Seq(Words)
    BY BufferFacts
  <2> QED
    BY <2>1
<1>2. m \in 0..Len(w)
  <2>1. used' \in Nat /\ acc' \in Nat /\ got' \in Nat /\ acc' <= used' /\ used' <= got' /\ got' <= Len(wire)
    BY DEF BufferInv
  <2> DEFINE a == acc'
             u == used'
             g == got'
             n == Len(w)
  <2>2. u \in Nat /\ a \in Nat /\ g \in Nat /\ n \in Nat /\ a <= u /\ u <= g /\ g <= n /\ m = u - a
    BY <1>1, <2>1
  <2> HIDE DEF a, u, g, n, m
  <2>3. m \in 0..n
    BY <2>2
  <2> QED
    BY <2>3 DEF n
<1>3. s \o line = SubSeq(w, 1, m)
  BY DEF consumed
<1> HIDE DEF w, s, m
<1>4. 0 \in 0..Len(s) /\ Len(line) \in Nat /\ m \in 0..m
  BY <1>1, <1>2
<1>5. Len(s \o line) = Len(s) + Len(line) /\ \A i \in 1..Len(line) : (s \o line)[Len(s) + i] = line[i]
  BY <1>1, <1>4, PrefixStays
<1>6. Len(SubSeq(w, 1, m)) = m /\ \A i \in 1..m : SubSeq(w, 1, m)[i] = w[i]
  BY <1>1, <1>2, <1>4, PrefixSplits
<1>7. ASSUME NEW i \in 1..Len(line) PROVE \E j \in 1..Len(w) : line[i] = w[j]
  <2>1. m = Len(s) + Len(line)
    BY <1>3, <1>5, <1>6
  <2>2. Len(s) + i \in 1..m /\ Len(s) + i \in 1..Len(w)
    BY <1>1, <1>2, <1>4, <2>1
  <2>3. line[i] = w[Len(s) + i]
    BY <1>3, <1>5, <1>6, <2>2
  <2> QED
    BY <2>2, <2>3
<1> QED
  BY <1>7 DEF w

\* A line of the upstream's.
LEMMA MessagesTaken ==
  ASSUME FramingInv, FramingInv', OutInv, MessagesInv, ReadLine \/ ReadEnd
  PROVE  MessagesInv'
<1>1. UNCHANGED <<input, got, gone, stage>> /\ result = "run" /\ frames = <<>> /\ wire' = wire
  BY TakenLine
<1>2. \/ UNCHANGED <<tr, frames, stats, out, hb>>
      \/ \E line \in Seq(Words) : IsPiece(line) /\ consumed' = consumed \o line /\ TakeLine(line, "run")
  BY TakenLine
<1>3. tr \in Translators
  BY DEF OutInv, OutTypeOK
<1>4. CASE UNCHANGED <<tr, frames, stats, out, hb>>
  BY <1>1, <1>4, MessagesQuiet
<1>5. ASSUME NEW line \in Seq(Words), IsPiece(line), consumed' = consumed \o line, TakeLine(line, "run"),
             input.surface = "messages"
      PROVE  MessagesInv'
  <2> DEFINE payload == rewriteOut(FieldValue(line))
             t == Frame(tr, payload)
  <2>1. /\ UNCHANGED <<stats, out, hb>>
        /\ \/ UNCHANGED <<tr, frames>>
           \/ tr' = t.s /\ frames' = t.out
    BY <1>5 DEF TakeLine, TranslateLine
  <2>2. CASE UNCHANGED <<tr, frames>>
    BY <1>1, <2>1, <2>2, MessagesQuiet
  <2>3. CASE tr' = t.s /\ frames' = t.out
    <3>1. payload \in DOMAIN ChunkOf /\ ChunkOf[payload].finish => FinishOnWire
      <4> SUFFICES ASSUME payload \in DOMAIN ChunkOf, ChunkOf[payload].finish PROVE FinishOnWire
        OBVIOUS
      <4>1. FieldValue(line) # ""
        <5>1. rewriteOut("") = ""
          BY DEF rewriteOut
        <5> QED
          BY <5>1, ChunkAssumption
      <4>2. PICK i \in 1..Len(line) : FieldValue(line) = line[i]
        BY <1>5, <4>1, PieceValue
      <4>3. \A n \in 1..Len(line) : \E j \in 1..Len(wire) : line[n] = wire[j]
        <5>1. BufferInv /\ BufferInv'
          BY DEF FramingInv
        <5> QED
          BY <1>1, <1>5, <5>1, TokensOfWire
      <4>4. PICK j \in 1..Len(wire) : line[i] = wire[j]
        BY <4>3
      <4>5. payload = rewriteOut(wire[j])
        BY <4>2, <4>4
      <4> HIDE DEF payload
      <4> QED
        BY <4>5 DEF FinishOnWire
    <3>2. \A ev \in Seq(Events) : Speaks(ev, tr) =>
            /\ Owes(ev, t)
            /\ t.s.finish => tr.finish \/ (payload \in DOMAIN ChunkOf /\ ChunkOf[payload].finish)
      BY <1>3, FrameSpeaks
    <3> HIDE DEF t, payload
    <3>3. t.s.finish => tr.finish \/ FinishOnWire
      <4>1. PICK ev \in Seq(Events) : Speaks(ev, tr)
        BY <1>5 DEF MessagesInv, MessageInv
      <4> QED
        BY <3>1, <3>2, <4>1
    <3> QED
      BY <1>1, <1>5, <2>1, <2>3, <3>2, <3>3, MessagesTranslated
  <2> QED
    BY <2>1, <2>2, <2>3
<1>6. CASE input.surface # "messages"
  BY <1>1, <1>6 DEF MessagesInv
<1> QED
  BY <1>2, <1>4, <1>5, <1>6

\* The end of the upstream's stream.
LEMMA MessagesReturn ==
  ASSUME OutInv, MessagesInv, CopyReturns
  PROVE  MessagesInv'
<1> DEFINE t == Finish(tr)
<1>1. UNCHANGED <<input, stats, out, hb, gone>> /\ result = "run" /\ frames = <<>>
      /\ \/ input.surface = "messages" /\ tr' = t.s /\ frames' = t.out
         \/ UNCHANGED <<tr, frames>>
  BY DEF CopyReturns, Running
<1>2. tr \in Translators
  BY DEF OutInv, OutTypeOK
<1>3. CASE UNCHANGED <<tr, frames>>
  BY <1>1, <1>3, MessagesQuiet
<1>4. CASE input.surface = "messages" /\ tr' = t.s /\ frames' = t.out
  <2> DEFINE nothing == [s |-> tr, out |-> <<>>]
             z == tr.finish /\ ~tr.stopped /\ ~tr.failed
  <2>1. nothing.s = tr /\ nothing.out = <<>>
    OBVIOUS
  <2>2. t = IF z THEN appendTerminate(nothing) ELSE nothing
    BY DEF Finish
  <2>3. \A ev \in Seq(Events) : Speaks(ev, tr) => Owes(ev, t)
    <3> TAKE ev \in Seq(Events)
    <3> HAVE Speaks(ev, tr)
    <3>1. z => Owes(ev, appendTerminate(nothing))
      BY <1>2, FinishSpeaks
    <3>2. Owes(ev, nothing)
      <4> HIDE DEF nothing
      <4> QED
        BY <2>1, NothingTold DEF Owes
    <3> HIDE DEF t, nothing, z
    <3> QED
      BY <2>2, <3>1, <3>2
  <2>4. t.s.finish => tr.finish
    <3>1. CASE z
      BY <3>1
    <3>2. CASE ~z
      <4>1. t = nothing
        BY <2>2, <3>2
      <4> HIDE DEF t, nothing
      <4> QED
        BY <2>1, <4>1
    <3> QED
      BY <3>1, <3>2
  <2> HIDE DEF t
  <2> QED
    BY <1>1, <1>4, <2>3, <2>4, MessagesTranslated
<1> QED
  BY <1>1, <1>3, <1>4

\* Every step keeps the message well told.
LEMMA NextMessages == FramingInv /\ OutInv /\ MessagesInv /\ [Next]_vars => MessagesInv'
<1> SUFFICES ASSUME FramingInv, OutInv, MessagesInv, [Next]_vars PROVE MessagesInv'
  OBVIOUS
<1>1. CASE ReadLine \/ ReadEnd
  <2>1. FramingInv'
    BY NextFraming
  <2> QED
    BY <1>1, <2>1, MessagesTaken
<1>2. CASE maybePing
  BY <1>2, MessagesPing
<1>3. CASE WriteFrame
  BY <1>3, MessagesWritten
<1>4. CASE CopyReturns
  BY <1>4, MessagesReturn
<1>5. CASE (\E k \in input.reads : Fill(k)) \/ StopHeartbeat \/ HeartbeatExits \/ Join \/ ClientLeaves \/ Done
           \/ UNCHANGED vars
  <2>1. /\ UNCHANGED <<input, out, tr, frames, stats, result>>
        /\ gone' = gone \/ gone' = TRUE
        /\ hb' \in {hb, [hb EXCEPT !.finished = TRUE], [hb EXCEPT !.live = FALSE]}
    BY <1>5 DEF Fill, StopHeartbeat, HeartbeatExits, Join, ClientLeaves, Done, vars
  <2>2. hb'.boundary = hb.boundary
    BY <2>1 DEF OutInv, OutTypeOK, Heartbeats
  <2>3. ~gone' => ~gone
    <3>1. CASE gone' = gone
      BY <3>1
    <3>2. CASE gone' = TRUE
      BY <3>2
    <3> QED
      BY <2>1, <3>1, <3>2
  <2> QED
    BY <2>1, <2>2, <2>3, MessagesQuiet
<1> QED
  BY <1>1, <1>2, <1>3, <1>4, <1>5 DEF Next

\* Whatever the upstream sends, however its reads are split and whenever the
\* client leaves, what the client of the Messages surface was dispatched when
\* the copy returns is a well-formed message so far, that stops only after the
\* upstream's finish reason and only with the terminal flag set
\* (ChatToMessagesStream, writeFrames).
THEOREM MessagesAreWellFormed == Spec => []MessagesWellFormed
<1>1. Init => FramingInv /\ OutInv /\ MessagesInv
  BY InitFraming, InitOut, InitMessages
<1>2. FramingInv /\ OutInv /\ MessagesInv /\ [Next]_vars => (FramingInv /\ OutInv /\ MessagesInv)'
  BY NextFraming, NextOut, NextMessages
<1>3. MessagesInv => MessagesWellFormed
  <2> SUFFICES ASSUME MessagesInv, input.surface = "messages"
               PROVE  LET f == Parse(out).events
                      IN  /\ WellFormedMessage(f)
                          /\ (\E i \in 1..Len(f) : f[i].name = "message_stop") => FinishOnWire
                          /\ (\E i \in 1..Len(f) : f[i].name = "message_stop") => stats.terminal
    BY DEF MessagesWellFormed, FinishOnWire
  <2>1. PICK ev \in Seq(Events) : \E k \in Nat : \E ph \in 0..2 : MessageInv(ev, k, ph)
    BY DEF MessagesInv
  <2>2. PICK k \in Nat, ph \in 0..2 : MessageInv(ev, k, ph)
    BY <2>1
  <2> DEFINE f == Parse(out).events
             L == Len(ev)
  <2>3. /\ Speaks(ev, tr) /\ k <= L /\ Len(f) = k /\ \A i \in 1..k : f[i] = ev[i]
        /\ StopHeard(ev, k, ph) => stats.terminal
        /\ tr.finish => FinishOnWire
    BY <2>2 DEF MessageInv
  <2> HIDE DEF f
  <2>4. L \in Nat
    OBVIOUS
  <2>5. (\A i \in 1..L : Fits(ev, i) /\ Ends(ev, i))
        /\ ((\E i \in 1..L : ev[i].name = "message_stop") => tr.finish)
    BY <2>3 DEF Speaks, Spoken
  <2>6. \A i \in 1..k : i \in 1..L /\ i \in Nat /\ i >= 1 /\ \A j \in 1..i : j \in 1..k
    <3> HIDE DEF L
    <3> QED
      BY <2>3, <2>4
  <2>7. \A i \in 1..Len(f) : Fits(f, i) /\ Ends(f, i)
    <3> SUFFICES ASSUME NEW i \in 1..k PROVE Fits(f, i) /\ Ends(f, i)
      BY <2>3
    <3>1. i \in 1..L /\ i \in Nat /\ i >= 1 /\ \A j \in 1..i : f[j] = ev[j]
      BY <2>3, <2>6
    <3>2. Fits(ev, i) /\ Ends(ev, i) /\ f[i] = ev[i]
      BY <2>3, <2>5, <3>1
    <3>3. Fits(f, i)
      BY <3>1, <3>2, FitsAgrees
    <3>4. Ends(f, i)
      <4>1. ASSUME i = L PROVE i = k
        <5> HIDE DEF L
        <5> QED
          BY <2>3, <2>4, <4>1
      <4> QED
        BY <2>3, <3>2, <4>1 DEF Ends
    <3> QED
      BY <3>3, <3>4
  <2>8. WellFormedMessage(f)
    BY <2>7, FittingEvents
  <2>9. ASSUME NEW i \in 1..Len(f), f[i].name = "message_stop"
        PROVE  FinishOnWire /\ stats.terminal
    <3>1. i \in 1..k /\ i \in 1..L /\ ev[i].name = "message_stop"
      BY <2>3, <2>6, <2>9
    <3>2. FinishOnWire
      BY <2>3, <2>5, <3>1
    <3>3. i \in 1..(k + 1)
      BY <3>1
    <3>4. StopHeard(ev, k, ph)
      BY <3>1, <3>3 DEF StopHeard
    <3> QED
      BY <2>3, <3>2, <3>4
  <2> QED
    BY <2>8, <2>9 DEF f
<1> QED
  BY <1>1, <1>2, <1>3, PTL DEF Spec
=============================================================================
