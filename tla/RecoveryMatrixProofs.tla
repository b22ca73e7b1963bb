------------------------ MODULE RecoveryMatrixProofs ------------------------
(***************************************************************************)
(* Proofs about RecoveryMatrix: the decision for a failure is the one the  *)
(* file declares, and throwing a switch is never rejected.                 *)
(***************************************************************************)
EXTENDS RecoveryMatrix, FiniteSetTheorems, FunctionTheorems, SequenceTheorems, TLAPS

-----------------------------------------------------------------------------
(* Ranking a finite set.                                                   *)

\* R is a strict order on S that compares any two of its members.
StrictOrder(R, S) ==
  /\ \A x \in S : <<x, x>> \notin R
  /\ \A x, y, z \in S : <<x, y>> \in R /\ <<y, z>> \in R => <<x, z>> \in R
  /\ \A x, y \in S : x = y \/ <<x, y>> \in R \/ <<y, x>> \in R

\* Ranked enumerates the set, each member once, in the order.
LEMMA RankedSorts ==
  ASSUME NEW S, IsFiniteSet(S), NEW R, StrictOrder(R, S)
  PROVE  /\ Cardinality(S) \in Nat
         /\ Ranked(S, R) \in [1..Cardinality(S) -> S]
         /\ \A x \in S : \E k \in 1..Cardinality(S) : Ranked(S, R)[k] = x
         /\ \A k, l \in 1..Cardinality(S) : k < l => <<Ranked(S, R)[k], Ranked(S, R)[l]>> \in R
<1> DEFINE n == Cardinality(S)
           Below(x) == {y \in S : <<y, x>> \in R}
           rank == [x \in S |-> Cardinality(Below(x))]
<1>0. n \in Nat
  BY FS_CardinalityType
<1>1. \A x \in S : IsFiniteSet(Below(x)) /\ Cardinality(Below(x)) \in Nat
  <2> TAKE x \in S
  <2>1. Below(x) \in SUBSET S
    OBVIOUS
  <2> HIDE DEF Below
  <2>2. IsFiniteSet(Below(x))
    BY <2>1, FS_Subset
  <2> QED
    BY <2>2, FS_CardinalityType
<1>2. \A x \in S : Cardinality(Below(x)) \in 0..(n - 1)
  <2> TAKE x \in S
  <2>1. Below(x) \in SUBSET (S \ {x})
    BY DEF StrictOrder
  <2>2. IsFiniteSet(S \ {x}) /\ Cardinality(S \ {x}) = n - 1
    BY FS_RemoveElement
  <2>3. Cardinality(Below(x)) <= Cardinality(S \ {x})
    <3> HIDE DEF Below
    <3> QED
      BY <2>1, <2>2, FS_Subset
  <2>4. Cardinality(Below(x)) \in Nat
    BY <1>1
  <2> HIDE DEF Below, n
  <2> QED
    BY <2>2, <2>3, <2>4, <1>0
<1>3. \A x, y \in S : <<x, y>> \in R => Cardinality(Below(x)) < Cardinality(Below(y))
  <2> SUFFICES ASSUME NEW x \in S, NEW y \in S, <<x, y>> \in R
               PROVE  Cardinality(Below(x)) < Cardinality(Below(y))
    OBVIOUS
  <2>1. Below(x) \cup {x} \in SUBSET Below(y) /\ x \notin Below(x)
    BY DEF StrictOrder
  <2>2. IsFiniteSet(Below(x)) /\ IsFiniteSet(Below(y))
        /\ Cardinality(Below(x)) \in Nat /\ Cardinality(Below(y)) \in Nat
    BY <1>1
  <2> HIDE DEF Below
  <2>3. Cardinality(Below(x) \cup {x}) = Cardinality(Below(x)) + 1
    BY <2>1, <2>2, FS_AddElement
  <2>4. Cardinality(Below(x) \cup {x}) <= Cardinality(Below(y))
    BY <2>1, <2>2, FS_Subset
  <2> QED
    BY <2>2, <2>3, <2>4
<1> HIDE DEF Below
<1>4. \A x, y \in S : rank[x] = rank[y] => x = y
  <2> SUFFICES ASSUME NEW x \in S, NEW y \in S, rank[x] = rank[y], x # y PROVE FALSE
    OBVIOUS
  <2>1. Cardinality(Below(x)) \in Nat /\ Cardinality(Below(x)) = Cardinality(Below(y))
    BY <1>1
  <2>2. <<x, y>> \in R \/ <<y, x>> \in R
    BY DEF StrictOrder
  <2> QED
    BY <1>3, <2>1, <2>2
<1>5. rank \in [S -> 0..(n - 1)]
  BY <1>2
<1>6. \A k \in 0..(n - 1) : \E x \in S : rank[x] = k
  <2>1. IsFiniteSet(0..(n - 1)) /\ Cardinality(0..(n - 1)) = n
    BY <1>0, FS_Interval
  <2> HIDE DEF rank
  <2>2. rank \in Injection(S, 0..(n - 1))
    BY <1>4, <1>5 DEF Injection, IsInjective
  <2>3. rank \in Surjection(S, 0..(n - 1))
    BY <2>1, <2>2, FS_Injection
  <2> QED
    BY <2>3 DEF Surjection
<1>7. \A k \in 1..n : Ranked(S, R)[k] \in S /\ rank[Ranked(S, R)[k]] = k - 1
  <2> TAKE k \in 1..n
  <2>1. \E x \in S : Cardinality(Below(x)) = k - 1
    BY <1>0, <1>6
  <2>2. Ranked(S, R)[k] = CHOOSE x \in S : Cardinality(Below(x)) = k - 1
    BY DEF Ranked, Below
  <2> QED
    BY <2>1, <2>2
<1>8. Ranked(S, R) \in [1..n -> S]
  BY <1>7 DEF Ranked
<1>9. ASSUME NEW x \in S PROVE \E k \in 1..n : Ranked(S, R)[k] = x
  <2>1. rank[x] \in 0..(n - 1) /\ rank[x] + 1 \in 1..n
    BY <1>0, <1>5
  <2> HIDE DEF rank
  <2>2. Ranked(S, R)[rank[x] + 1] \in S /\ rank[Ranked(S, R)[rank[x] + 1]] = rank[x]
    BY <1>7, <2>1
  <2>3. Ranked(S, R)[rank[x] + 1] = x
    BY <1>4, <2>2
  <2> QED
    BY <2>1, <2>3
<1>10. ASSUME NEW k \in 1..n, NEW l \in 1..n, k < l
       PROVE  <<Ranked(S, R)[k], Ranked(S, R)[l]>> \in R
  <2> DEFINE x == Ranked(S, R)[k]
             y == Ranked(S, R)[l]
  <2>1. x \in S /\ y \in S /\ rank[x] = k - 1 /\ rank[y] = l - 1
    BY <1>7
  <2> HIDE DEF x, y
  <2>2. ~(rank[y] < rank[x]) /\ x # y
    BY <1>0, <1>10, <2>1
  <2>3. <<y, x>> \notin R
    BY <1>3, <2>1, <2>2
  <2>4. <<x, y>> \in R
    BY <2>1, <2>2, <2>3 DEF StrictOrder
  <2> QED
    BY <2>4 DEF x, y
<1> QED
  BY <1>0, <1>8, <1>9, <1>10

\* A nonempty set of positions has a first one.
LEMMA FirstPosition ==
  ASSUME NEW n \in Nat, NEW T \in SUBSET (1..n), T # {}
  PROVE  \E i \in T : \A j \in T : i <= j
<1> DEFINE R == {w \in T \X T : w[1] < w[2]}
<1>1. IsFiniteSet(T)
  <2>1. IsFiniteSet(1..n)
    BY FS_Interval
  <2> QED
    BY <2>1, FS_Subset
<1>2. StrictOrder(R, T)
  BY DEF StrictOrder
<1> HIDE DEF R
<1> DEFINE first == Ranked(T, R)
<1>3. /\ Cardinality(T) \in Nat
      /\ first \in [1..Cardinality(T) -> T]
      /\ \A x \in T : \E k \in 1..Cardinality(T) : first[k] = x
      /\ \A k, l \in 1..Cardinality(T) : k < l => <<first[k], first[l]>> \in R
  BY <1>1, <1>2, RankedSorts
<1> HIDE DEF first
<1> DEFINE c == Cardinality(T)
<1> HIDE DEF c
<1>4. c \in Nat /\ 1 \in 1..c
  <2>1. \E k \in 1..c : TRUE
    BY <1>3 DEF c
  <2>2. c \in Nat
    BY <1>3 DEF c
  <2> QED
    BY <2>1, <2>2
<1>5. \A j \in T : first[1] = j \/ <<first[1], j>> \in R
  BY <1>3, <1>4 DEF c
<1>6. first[1] \in T
  BY <1>3, <1>4 DEF c
<1>7. \A j \in T : <<first[1], j>> \in R => first[1] < j
  BY DEF R
<1>8. \A j \in T : j \in Nat
  OBVIOUS
<1> DEFINE i == first[1]
<1>9. i \in T /\ \A j \in T : i = j \/ i < j
  BY <1>5, <1>6, <1>7
<1> HIDE DEF i
<1>10. \A j \in T : i <= j
  BY <1>8, <1>9
<1> QED
  BY <1>9, <1>10

-----------------------------------------------------------------------------
(* Sorting the rules.                                                      *)

\* A specificity is a number.
LEMMA SpecificityType == ASSUME NEW m PROVE Specificity(m) \in Nat
BY DEF Specificity, Bit

\* Identities in use are ordered by their place in IDOrder.
LEMMA IDBeforeOrder ==
  /\ \A k \in DOMAIN IDOrder : ~IDBefore(IDOrder[k], IDOrder[k])
  /\ \A k, l \in DOMAIN IDOrder : IDBefore(IDOrder[k], IDOrder[l]) <=> k < l
<1>1. \A k, l \in DOMAIN IDOrder : IDOrder[k] = IDOrder[l] => k = l
  BY MatrixAssumption
<1>2. \A k \in DOMAIN IDOrder : k \in Nat
  BY MatrixAssumption
<1> QED
  BY <1>1, <1>2 DEF IDBefore

\* sortRules permutes the list and puts it in order.
LEMMA SortPermutes ==
  ASSUME NEW S, NEW rules \in Seq(S), DistinctIDs(rules), Identified(rules)
  PROVE  \E order \in [1..Len(rules) -> 1..Len(rules)] :
           /\ sortRules(rules) = [k \in 1..Len(rules) |-> rules[order[k]]]
           /\ \A i \in 1..Len(rules) : \E k \in 1..Len(rules) : order[k] = i
           /\ \A k, l \in 1..Len(rules) : order[k] = order[l] => k = l
           /\ \A k, l \in 1..Len(rules) : k < l => Precedes(rules[order[k]], rules[order[l]])
<1> DEFINE n == Len(rules)
           D == 1..n
           R == {w \in D \X D : Precedes(rules[w[1]], rules[w[2]])}
           order == Ranked(D, R)
<1>0. n \in Nat /\ DOMAIN rules = D
  BY LenProperties
<1>1. IsFiniteSet(D) /\ Cardinality(D) = n
  BY <1>0, FS_Interval
<1>2. PICK place \in [D -> DOMAIN IDOrder] : \A i \in D : IDOrder[place[i]] = rules[i].id
  <2>1. \A i \in D : \E k \in DOMAIN IDOrder : IDOrder[k] = rules[i].id
    BY <1>0 DEF Identified
  <2> DEFINE place == [i \in D |-> CHOOSE k \in DOMAIN IDOrder : IDOrder[k] = rules[i].id]
  <2>2. place \in [D -> DOMAIN IDOrder] /\ \A i \in D : IDOrder[place[i]] = rules[i].id
    BY <2>1
  <2> QED
    BY <2>2
<1>3. \A i \in D : place[i] \in Nat /\ place[i] \in DOMAIN IDOrder
  BY MatrixAssumption
<1>4. \A i, j \in D : place[i] = place[j] => i = j
  BY <1>0, <1>2 DEF DistinctIDs
<1> DEFINE spec == [i \in D |-> Specificity(rules[i].match)]
<1>5. \A i \in D : spec[i] \in Nat
  BY SpecificityType
<1>6. \A i, j \in D : Precedes(rules[i], rules[j]) <=>
                      (spec[i] > spec[j] \/ (spec[i] = spec[j] /\ place[i] < place[j]))
  <2> TAKE i, j \in D
  <2>1. IDBefore(rules[i].id, rules[j].id) <=> place[i] < place[j]
    BY <1>2, <1>3, IDBeforeOrder
  <2> QED
    BY <2>1 DEF Precedes
<1> HIDE DEF spec
<1>7. \A i, j \in D : <<i, j>> \in R <=> (spec[i] > spec[j] \/ (spec[i] = spec[j] /\ place[i] < place[j]))
  BY <1>6
<1> HIDE DEF R
<1>8. StrictOrder(R, D)
  <2>1. \A x \in D : <<x, x>> \notin R
    BY <1>3, <1>5, <1>7
  <2>2. \A x, y, z \in D : <<x, y>> \in R /\ <<y, z>> \in R => <<x, z>> \in R
    BY <1>3, <1>5, <1>7
  <2>3. \A x, y \in D : x = y \/ <<x, y>> \in R \/ <<y, x>> \in R
    <3> TAKE x, y \in D
    <3>1. /\ spec[x] \in Nat /\ spec[y] \in Nat /\ place[x] \in Nat /\ place[y] \in Nat
          /\ place[x] = place[y] => x = y
      BY <1>3, <1>4, <1>5
    <3> QED
      BY <3>1, <1>7
  <2> QED
    BY <2>1, <2>2, <2>3 DEF StrictOrder
<1>9. /\ order \in [D -> D]
      /\ \A i \in D : \E k \in D : order[k] = i
      /\ \A k, l \in D : k < l => <<order[k], order[l]>> \in R
  BY <1>1, <1>8, RankedSorts
<1>10. sortRules(rules) = [k \in D |-> rules[order[k]]]
  BY <1>0 DEF sortRules, R
<1> HIDE DEF order
<1>11. \A k, l \in D : order[k] = order[l] => k = l
  <2> SUFFICES ASSUME NEW k \in D, NEW l \in D, order[k] = order[l], k < l PROVE FALSE
    BY <1>0
  <2>1. <<order[k], order[l]>> \in R /\ order[k] \in D
    BY <1>9
  <2> QED
    BY <2>1, <1>8 DEF StrictOrder
<1>12. \A k, l \in D : k < l => Precedes(rules[order[k]], rules[order[l]])
  BY <1>9 DEF R
<1> QED
  BY <1>9, <1>10, <1>11, <1>12

\* Sorting keeps the rules and what makes them acceptable.
LEMMA SortKeeps ==
  ASSUME NEW S, NEW rules \in Seq(S), Acceptable(rules), Identified(rules)
  PROVE  /\ sortRules(rules) \in Seq(S)
         /\ Acceptable(sortRules(rules)) /\ Identified(sortRules(rules))
         /\ Range(sortRules(rules)) = Range(rules)
         /\ \A k, l \in DOMAIN sortRules(rules) :
               k < l => Specificity(sortRules(rules)[k].match) >= Specificity(sortRules(rules)[l].match)
<1> DEFINE D == 1..Len(rules)
           s == sortRules(rules)
<1>0. Len(rules) \in Nat /\ DOMAIN rules = D /\ \A i \in D : rules[i] \in S
  BY LenProperties, ElementOfSeq
<1>1. DistinctIDs(rules)
  BY DEF Acceptable
<1>2. PICK order \in [D -> D] :
           /\ s = [k \in D |-> rules[order[k]]]
           /\ \A i \in D : \E k \in D : order[k] = i
           /\ \A k, l \in D : order[k] = order[l] => k = l
           /\ \A k, l \in D : k < l => Precedes(rules[order[k]], rules[order[l]])
  BY <1>1, SortPermutes
<1> HIDE DEF s
<1>3. s \in Seq(S) /\ Len(s) = Len(rules) /\ DOMAIN s = D
  BY <1>0, <1>2
<1>4. \A k \in D : s[k] = rules[order[k]] /\ order[k] \in D
  BY <1>2
<1>5. DistinctIDs(s)
  <2> SUFFICES ASSUME NEW k \in D, NEW l \in D, s[k].id = s[l].id PROVE k = l
    BY <1>3 DEF DistinctIDs
  <2>1. order[k] \in D /\ order[l] \in D /\ rules[order[k]].id = rules[order[l]].id
    BY <1>4
  <2>2. order[k] = order[l]
    BY <1>0, <1>1, <2>1 DEF DistinctIDs
  <2> QED
    BY <1>2, <2>2
<1>6. \A k \in DOMAIN s : validate(s[k].match) /\ validateRuleAction(s[k])
  BY <1>0, <1>3, <1>4 DEF Acceptable
<1>7. \A k, l \in DOMAIN s : k < l => ~Ambiguous(s[k], s[l])
  <2> SUFFICES ASSUME NEW k \in D, NEW l \in D, k < l PROVE ~Ambiguous(s[k], s[l])
    BY <1>3
  <2>1. order[k] \in Nat /\ order[l] \in Nat /\ order[k] # order[l]
    <3>1. order[k] \in D /\ order[l] \in D /\ k # l
      BY <1>0, <1>4
    <3>2. order[k] # order[l]
      BY <1>2, <3>1
    <3>3. order[k] \in Nat /\ order[l] \in Nat
      BY <1>0, <3>1
    <3> QED
      BY <3>2, <3>3
  <2>2. CASE order[k] < order[l]
    BY <2>2, <1>0, <1>4 DEF Acceptable
  <2>3. CASE order[l] < order[k]
    <3>1. ~Ambiguous(rules[order[l]], rules[order[k]])
      BY <2>3, <1>0, <1>4 DEF Acceptable
    <3>2. Ambiguous(rules[order[k]], rules[order[l]]) => Ambiguous(rules[order[l]], rules[order[k]])
      BY DEF Ambiguous, overlaps, Compatible
    <3> QED
      BY <1>4, <3>1, <3>2
  <2> QED
    BY <2>1, <2>2, <2>3
<1>8. Identified(s)
  BY <1>0, <1>3, <1>4 DEF Identified
<1>9. Range(s) = Range(rules)
  <2>1. ASSUME NEW r \in Range(s) PROVE r \in Range(rules)
    BY <1>0, <1>3, <1>4 DEF Range
  <2>2. ASSUME NEW r \in Range(rules) PROVE r \in Range(s)
    <3>1. PICK i \in D : r = rules[i]
      BY <1>0 DEF Range
    <3>2. PICK k \in D : order[k] = i
      BY <1>2
    <3> QED
      BY <1>3, <1>4, <3>1, <3>2 DEF Range
  <2> QED
    BY <2>1, <2>2
<1>10. ASSUME NEW k \in DOMAIN s, NEW l \in DOMAIN s, k < l
       PROVE  Specificity(s[k].match) >= Specificity(s[l].match)
  <2>1. Precedes(s[k], s[l])
    BY <1>2, <1>3, <1>4, <1>10
  <2>2. Specificity(s[k].match) \in Nat /\ Specificity(s[l].match) \in Nat
    BY SpecificityType
  <2> QED
    BY <2>1, <2>2 DEF Precedes
<1> QED
  BY <1>3, <1>5, <1>6, <1>7, <1>8, <1>9, <1>10 DEF Acceptable, s

-----------------------------------------------------------------------------
(* Matching a failure.                                                     *)

\* What the classification gives: the members of one layer only, a status
\* with its bucket and a transport cause with its class.
Classified(o) ==
  /\ o["class"] \in Layers
  /\ \A p \in DOMAIN LayerOf : Says(o, p) => LayerOf[p] = o["class"]
  /\ Says(o, "status") => StatusClassOf[o["status"]] = o["statusClass"]
  /\ Says(o, "transportCause") => TransportClassOfCause(o["transportCause"]) = o["transportClass"]

\* What the predicates are.
LEMMA PredicateNames ==
  /\ DOMAIN LayerOf = {"status", "statusClass", "errorType", "errorCode", "transportClass",
                       "transportCause", "protocolCause", "callerCause", "credentialCause"}
  /\ Predicates = DOMAIN LayerOf \cup {"class", "streaming", "candidateIndex", "retryIndex"}
BY DEF LayerOf, Predicates

\* Two rules that match one classified failure overlap: what overlaps takes
\* for disjoint is disjoint.
LEMMA MatchingRulesOverlap ==
  ASSUME NEW o, Classified(o), NEW m, NEW n, matches(m, o), matches(n, o)
  PROVE  overlaps(m, n)
<1>1. \A p \in Predicates : /\ Says(m, p) => m[p] = o[p] /\ Says(o, p)
                            /\ Says(n, p) => n[p] = o[p] /\ Says(o, p)
  BY DEF matches, Says
<1>2. ASSUME NEW k, \A p \in Predicates : Says(k, p) => k[p] = o[p] /\ Says(o, p)
      PROVE  o["class"] \in classSet(k)
  <2> DEFINE named == {q \in DOMAIN LayerOf \ {"errorType", "errorCode"} : Says(k, q)}
             inferred == {LayerOf[p] : p \in named}
  <2>1. \A q \in named : LayerOf[q] = o["class"]
    BY <1>2, PredicateNames DEF Classified
  <2>2. Says(k, "class") => k["class"] = o["class"]
    BY <1>2, PredicateNames
  <2>3. inferred # {} => o["class"] \in inferred
    <3> HIDE DEF named
    <3> QED
      BY <2>1
  <2>4. classSet(k) = IF Says(k, "class") THEN {k["class"]}
                      ELSE IF inferred = {} THEN Layers ELSE inferred
    BY DEF classSet
  <2> HIDE DEF inferred
  <2> QED
    BY <2>2, <2>3, <2>4 DEF Classified
<1>3. o["class"] \in classSet(m) /\ o["class"] \in classSet(n)
  BY <1>1, <1>2
<1>4. \A p \in Predicates : Compatible(m, n, p)
  BY <1>1 DEF Compatible
<1>5. CrossCompatible(m, n) /\ CrossCompatible(n, m)
  <2>1. {"status", "statusClass", "transportCause", "transportClass"} \subseteq Predicates
    BY PredicateNames
  <2> QED
    BY <1>1, <2>1 DEF CrossCompatible, Classified
<1> QED
  BY <1>3, <1>4, <1>5 DEF overlaps

\* On an acceptable list in order, the first match is the one most specific
\* match.
LEMMA MatchIsMostSpecific ==
  ASSUME NEW S, NEW p, p.rules \in Seq(S), Acceptable(p.rules),
         \A k, l \in DOMAIN p.rules : k < l => Specificity(p.rules[k].match) >= Specificity(p.rules[l].match),
         NEW o, Classified(o)
  PROVE  LET hits == {r \in Range(p.rules) : matches(r.match, o)}
             top == {r \in hits : \A t \in hits : Specificity(t.match) <= Specificity(r.match)}
         IN  IF hits = {} THEN Match(p, o) = [action |-> p.default, id |-> Unset]
             ELSE \E r \in top : top = {r} /\ Match(p, o) = [action |-> r.action, id |-> r.id]
<1> DEFINE rules == p.rules
           D == 1..Len(rules)
           hits == {r \in Range(rules) : matches(r.match, o)}
           top == {r \in hits : \A t \in hits : Specificity(t.match) <= Specificity(r.match)}
           at == {i \in DOMAIN rules : matches(rules[i].match, o)}
<1>0. Len(rules) \in Nat /\ DOMAIN rules = D
  BY LenProperties
<1>1. hits = {rules[i] : i \in at}
  BY DEF Range
<1>2. Match(p, o) = IF at = {} THEN [action |-> p.default, id |-> Unset]
                    ELSE LET r == rules[CHOOSE i \in at : \A j \in at : i <= j]
                         IN  [action |-> r.action, id |-> r.id]
  BY DEF Match
<1>3. \A i \in at : i \in D /\ matches(rules[i].match, o)
  BY <1>0
<1>4. CASE at = {}
  <2>1. hits = {}
    BY <1>1, <1>4
  <2> QED
    BY <1>2, <1>4, <2>1
<1>5. CASE at # {}
  <2>0. at \in SUBSET (1..Len(rules))
    BY <1>3
  <2> HIDE DEF at, hits
  <2>1. \E i \in at : \A j \in at : i <= j
    BY <1>0, <1>5, <2>0, FirstPosition
  <2> DEFINE i == CHOOSE x \in at : \A j \in at : x <= j
             r == rules[i]
  <2>2. i \in at /\ \A j \in at : i <= j
    BY <2>1
  <2> HIDE DEF i
  <2>3. Match(p, o) = [action |-> r.action, id |-> r.id]
    BY <1>2, <1>5 DEF i
  <2>4. r \in hits
    BY <1>1, <2>2
  <2>5. ASSUME NEW j \in at PROVE Specificity(rules[j].match) <= Specificity(r.match)
    <3>1. Specificity(rules[j].match) \in Nat /\ Specificity(rules[i].match) \in Nat
      BY SpecificityType
    <3>2. i \in D /\ j \in D /\ (i = j \/ i < j)
      BY <1>0, <1>3, <2>2
    <3> QED
      BY <1>0, <3>1, <3>2
  <2>6. ASSUME NEW j \in at, Specificity(rules[j].match) = Specificity(r.match) PROVE j = i
    <3> SUFFICES ASSUME j # i PROVE FALSE
      OBVIOUS
    <3>1. i \in D /\ j \in D /\ i < j
      BY <1>0, <1>3, <2>2
    <3>2. matches(rules[i].match, o) /\ matches(rules[j].match, o)
      BY <1>3, <2>2
    <3>3. overlaps(rules[i].match, rules[j].match)
      BY <3>2, MatchingRulesOverlap
    <3>4. Ambiguous(rules[i], rules[j])
      BY <2>6, <3>3 DEF Ambiguous
    <3> QED
      BY <1>0, <3>1, <3>4 DEF Acceptable
  <2>7. r \in top
    BY <1>1, <2>4, <2>5
  <2>8. ASSUME NEW t \in top PROVE t = r
    <3>1. PICK j \in at : t = rules[j]
      BY <1>1
    <3>2. Specificity(r.match) <= Specificity(t.match) /\ Specificity(t.match) <= Specificity(r.match)
      BY <2>4, <2>5, <3>1
    <3>3. Specificity(t.match) \in Nat /\ Specificity(r.match) \in Nat
      BY SpecificityType
    <3>4. Specificity(rules[j].match) = Specificity(r.match)
      BY <3>1, <3>2, <3>3
    <3> QED
      BY <2>6, <3>1, <3>4
  <2>9. top = {r}
    BY <2>7, <2>8
  <2>10. hits # {}
    BY <2>4
  <2> HIDE DEF top, r
  <2> QED
    BY <2>3, <2>7, <2>9, <2>10 DEF hits, top
<1> QED
  BY <1>4, <1>5

-----------------------------------------------------------------------------
(* What the engine asks the matrix about.                                  *)

\* The class and the cause of a dial failure agree with the matrix's table.
LEMMA ClassAgreesWithCause ==
  ASSUME NEW err
  PROVE  Cause(Classify(err), err) = Unset
           \/ TransportClassOfCause(Cause(Classify(err), err)) = transportClassOf(Classify(err))
<1>1. Classify(err) \in {"canceled", "timeout", "proxy_auth", "proxy_connect", "connection"}
  BY DEF Classify
<1>2. CASE Classify(err) = "canceled"
  BY <1>2 DEF Cause
<1>3. CASE Classify(err) = "timeout"
  BY <1>3 DEF Cause, TransportClassOfCause, transportClassOf, TransportClasses
<1>4. CASE Classify(err) = "proxy_auth"
  BY <1>4 DEF Cause, TransportClassOfCause, transportClassOf, TransportClasses
<1>5. CASE Classify(err) = "proxy_connect"
  BY <1>5 DEF Cause, TransportClassOfCause, transportClassOf, TransportClasses
<1>6. CASE Classify(err) = "connection"
  BY <1>6 DEF Cause, causeOfConnection, TransportClassOfCause, transportClassOf, TransportClasses
<1> QED
  BY <1>1, <1>2, <1>3, <1>4, <1>5, <1>6

\* The observation states the facts and the request, nothing else.
LEMMA ObservationStates ==
  ASSUME NEW facts, NEW q \in Requests,
         NEW o, o = [p \in Predicates |-> IF p \in DOMAIN q THEN q[p] ELSE Stating(facts)[p]]
  PROVE  \A p \in DOMAIN LayerOf \cup {"class"} : o[p] = IF p \in DOMAIN facts THEN facts[p] ELSE Unset
<1>1. DOMAIN q = {"streaming", "candidateIndex", "retryIndex"}
  BY DEF Requests
<1>2. \A p \in DOMAIN LayerOf \cup {"class"} : p \in Predicates /\ p \notin DOMAIN q
  BY <1>1, PredicateNames
<1> QED
  BY <1>2 DEF Stating

\* Every failure that is asked about is classified.
LEMMA ConsultsClassified ==
  ASSUME DialFailed \/ ErrorAnswered \/ AnswerUnusable \/ PoolCooling
  PROVE  Classified(observation') /\ decision' = Match(policy, observation')
         /\ phase = "live" /\ decision.action = Unset
         /\ UNCHANGED <<position, blocks, policy, phase>>
<1> USE DEF Says
<1>0. /\ "class" \in DOMAIN LayerOf \cup {"class"}
      /\ DOMAIN LayerOf = {"status", "statusClass", "errorType", "errorCode", "transportClass",
                           "transportCause", "protocolCause", "callerCause", "credentialCause"}
  BY PredicateNames
<1>1. ASSUME NEW facts, Consult(facts)
      PROVE  /\ \A p \in DOMAIN LayerOf \cup {"class"} :
                   observation'[p] = IF p \in DOMAIN facts THEN facts[p] ELSE Unset
             /\ decision' = Match(policy, observation')
             /\ phase = "live" /\ decision.action = Unset
             /\ UNCHANGED <<position, blocks, policy, phase>>
  <2>1. PICK q \in Requests :
           /\ observation' = [p \in Predicates |-> IF p \in DOMAIN q THEN q[p] ELSE Stating(facts)[p]]
           /\ decision' = Match(policy, observation')
    BY <1>1 DEF Consult
  <2> QED
    BY <1>1, <2>1, ObservationStates DEF Consult
<1>2. ASSUME NEW cause, NEW class, Consult([class |-> "transport", transportCause |-> cause, transportClass |-> class]),
             cause = Unset \/ TransportClassOfCause(cause) = class
      PROVE  Classified(observation')
  <2> DEFINE facts == [class |-> "transport", transportCause |-> cause, transportClass |-> class]
  <2>1. DOMAIN facts = {"class", "transportCause", "transportClass"}
    OBVIOUS
  <2>2. /\ facts["class"] = "transport" /\ facts["transportCause"] = cause
        /\ facts["transportClass"] = class
    OBVIOUS
  <2>3. Consult(facts)
    BY <1>2
  <2> HIDE DEF facts
  <2>4. \A p \in DOMAIN LayerOf \cup {"class"} :
           observation'[p] = IF p \in DOMAIN facts THEN facts[p] ELSE Unset
    BY <1>1, <2>3
  <2>5. /\ observation'["class"] = "transport" /\ observation'["status"] = Unset
        /\ observation'["transportCause"] = cause /\ observation'["transportClass"] = class
        /\ \A p \in DOMAIN LayerOf : observation'[p] # Unset => p \in {"transportCause", "transportClass"}
    BY <1>0, <2>1, <2>2, <2>4
  <2>6. LayerOf["transportCause"] = "transport" /\ LayerOf["transportClass"] = "transport"
    BY DEF LayerOf
  <2> QED
    BY <1>2, <2>5, <2>6 DEF Classified, Layers
<1>3. CASE DialFailed
  <2> PICK ctx \in Contexts, err \in Errors, exhausted \in BOOLEAN :
        LET f == ClassifyAttempt(ctx, err)
        IN  /\ ~f.callerTerminated
            /\ Consult(IF exhausted
                       THEN [class |-> "transport", transportCause |-> "no_eligible_endpoint",
                             transportClass |-> TransportClassOfCause("no_eligible_endpoint")]
                       ELSE [class |-> "transport", transportCause |-> f.cause,
                             transportClass |-> transportClassOf(f.class)])
    BY <1>3 DEF DialFailed
  <2>1. CASE exhausted
    <3>1. Consult([class |-> "transport", transportCause |-> "no_eligible_endpoint",
                   transportClass |-> TransportClassOfCause("no_eligible_endpoint")])
      BY <2>1
    <3> QED
      BY <3>1, <1>1, <1>2
  <2>2. CASE ~exhausted
    <3> DEFINE f == ClassifyAttempt(ctx, err)
    <3>1. Consult([class |-> "transport", transportCause |-> f.cause,
                   transportClass |-> transportClassOf(f.class)])
      BY <2>2
    <3>2. f.class = Classify(err) /\ f.cause = Cause(Classify(err), err)
      BY DEF ClassifyAttempt
    <3> HIDE DEF f
    <3>3. f.cause = Unset \/ TransportClassOfCause(f.cause) = transportClassOf(f.class)
      BY <3>2, ClassAgreesWithCause
    <3> QED
      BY <3>1, <3>3, <1>1, <1>2
  <2> QED
    BY <2>1, <2>2
<1>4. CASE ErrorAnswered
  <2> PICK a \in Answers :
        Consult([class |-> "http", status |-> a.status, statusClass |-> StatusClassOf[a.status],
                 errorType |-> a.type, errorCode |-> a.code])
    BY <1>4 DEF ErrorAnswered
  <2> DEFINE facts == [class |-> "http", status |-> a.status, statusClass |-> StatusClassOf[a.status],
                       errorType |-> a.type, errorCode |-> a.code]
  <2>1. DOMAIN facts = {"class", "status", "statusClass", "errorType", "errorCode"}
    OBVIOUS
  <2>2. /\ facts["class"] = "http" /\ facts["status"] = a.status
        /\ facts["statusClass"] = StatusClassOf[a.status]
    OBVIOUS
  <2>3. Consult(facts)
    OBVIOUS
  <2> HIDE DEF facts
  <2>4. \A p \in DOMAIN LayerOf \cup {"class"} :
           observation'[p] = IF p \in DOMAIN facts THEN facts[p] ELSE Unset
    BY <1>1, <2>3
  <2>5. /\ observation'["class"] = "http" /\ observation'["status"] = a.status
        /\ observation'["statusClass"] = StatusClassOf[a.status]
        /\ observation'["transportCause"] = Unset
        /\ \A p \in DOMAIN LayerOf :
              observation'[p] # Unset => p \in {"status", "statusClass", "errorType", "errorCode"}
    BY <1>0, <2>1, <2>2, <2>4
  <2>6. \A p \in {"status", "statusClass", "errorType", "errorCode"} : LayerOf[p] = "http"
    BY DEF LayerOf
  <2>7. Classified(observation')
    BY <2>5, <2>6 DEF Classified, Layers
  <2> QED
    BY <2>3, <2>7, <1>1
<1>5. CASE AnswerUnusable \/ PoolCooling
  <2>1. ASSUME NEW layer \in {"protocol", "credential"}, NEW facts, Consult(facts),
               DOMAIN facts = {"class", IF layer = "protocol" THEN "protocolCause" ELSE "credentialCause"},
               facts["class"] = layer
        PROVE  Classified(observation')
    <3>1. \A p \in DOMAIN LayerOf \cup {"class"} :
             observation'[p] = IF p \in DOMAIN facts THEN facts[p] ELSE Unset
      BY <1>1, <2>1
    <3>2. /\ observation'["class"] = layer /\ observation'["status"] = Unset
          /\ observation'["transportCause"] = Unset
          /\ \A p \in DOMAIN LayerOf : observation'[p] # Unset =>
                p = IF layer = "protocol" THEN "protocolCause" ELSE "credentialCause"
      BY <1>0, <2>1, <3>1
    <3>3. LayerOf["protocolCause"] = "protocol" /\ LayerOf["credentialCause"] = "credential"
      BY DEF LayerOf
    <3> QED
      BY <2>1, <3>2, <3>3 DEF Classified, Layers
  <2>2. CASE AnswerUnusable
    <3> PICK c : Consult([class |-> "protocol", protocolCause |-> c])
      BY <2>2 DEF AnswerUnusable
    <3> DEFINE facts == [class |-> "protocol", protocolCause |-> c]
    <3>1. DOMAIN facts = {"class", "protocolCause"} /\ facts["class"] = "protocol" /\ Consult(facts)
      OBVIOUS
    <3> HIDE DEF facts
    <3> QED
      BY <3>1, <2>1, <1>1
  <2>3. CASE PoolCooling
    <3> DEFINE facts == [class |-> "credential", credentialCause |-> "cooldown"]
    <3>1. DOMAIN facts = {"class", "credentialCause"} /\ facts["class"] = "credential" /\ Consult(facts)
      BY <2>3 DEF PoolCooling
    <3> HIDE DEF facts
    <3> QED
      BY <3>1, <2>1, <1>1
  <2> QED
    BY <1>5, <2>2, <2>3
<1> QED
  BY <1>3, <1>4, <1>5

-----------------------------------------------------------------------------
(* From the blocks of a file to the list of rules.                         *)

\* Every row a block of the file can give a matrix.
AllRows == Rules \cup {ShorthandRow(k) : k \in UNION {b.shorthand : b \in Blocks}}

\* The rows of a block are a sequence of rows.
LEMMA BuildType ==
  ASSUME NEW b \in Blocks
  PROVE  buildRecoveryMatrix(b) \in Seq(AllRows) /\ Identified(buildRecoveryMatrix(b))
<1> DEFINE keys == SetToSeq(b.shorthand)
           n == Cardinality(b.shorthand)
           short == [i \in DOMAIN keys |-> ShorthandRow(keys[i])]
<1>0. IsFiniteSet(b.shorthand) /\ b.rules \in Seq(Rules) /\ Identified(buildRecoveryMatrix(b))
  BY MatrixAssumption
<1>1. n \in Nat /\ keys \in [1..n -> b.shorthand]
  <2>1. n \in Nat /\ ExistsBijection(1..n, b.shorthand)
    BY <1>0, FS_CardinalityType
  <2>2. \E f \in [1..n -> b.shorthand] : IsInjective(f)
    BY <2>1 DEF ExistsBijection, Bijection, Injection, IsInjective
  <2> QED
    BY <2>1, <2>2 DEF SetToSeq
<1>2. short \in Seq(AllRows)
  <2>1. DOMAIN keys = 1..n /\ \A i \in 1..n : keys[i] \in b.shorthand
    BY <1>1
  <2>2. \A i \in 1..n : ShorthandRow(keys[i]) \in AllRows
    BY <2>1 DEF AllRows
  <2> HIDE DEF keys
  <2> QED
    BY <1>1, <2>1, <2>2
<1>3. b.rules \in Seq(AllRows)
  BY <1>0, SeqMonotonic DEF AllRows
<1>4. buildRecoveryMatrix(b) = short \o b.rules
  BY DEF buildRecoveryMatrix
<1> HIDE DEF short
<1> QED
  BY <1>0, <1>2, <1>3, <1>4, ConcatProperties

\* A block without rows has none.
LEMMA BuildNothing ==
  ASSUME NEW b, b.shorthand = {}, b.rules = <<>>
  PROVE  buildRecoveryMatrix(b) = <<>>
<1> DEFINE keys == SetToSeq({})
<1>1. keys \in [1..0 -> {}]
  <2>1. Cardinality({}) = 0
    BY FS_EmptySet
  <2>2. \E f \in [1..0 -> {}] : IsInjective(f)
    <3> DEFINE f == [x \in {} |-> x]
    <3>1. 1..0 = {}
      OBVIOUS
    <3>2. f \in [1..0 -> {}] /\ IsInjective(f)
      BY <3>1 DEF IsInjective
    <3> QED
      BY <3>2
  <2> QED
    BY <2>1, <2>2 DEF SetToSeq
<1>2. DOMAIN keys = 1..0
  BY <1>1
<1>3. buildRecoveryMatrix(b) = [i \in DOMAIN keys |-> ShorthandRow(keys[i])] \o <<>>
  BY DEF buildRecoveryMatrix
<1> HIDE DEF keys
<1>4. [i \in DOMAIN keys |-> ShorthandRow(keys[i])] \in Seq({})
  BY <1>2
<1>5. [i \in DOMAIN keys |-> ShorthandRow(keys[i])] = <<>>
  BY <1>2, <1>4
<1> QED
  BY <1>3, <1>5

\* mergeMatrix keeps the rows that are not restated and has all the new ones.
LEMMA MergeRows ==
  ASSUME NEW S, NEW base \in Seq(S), NEW rows \in Seq(S), DistinctIDs(rows)
  PROVE  /\ mergeMatrix(base, rows) \in Seq(S)
         /\ Range(mergeMatrix(base, rows)) =
              {r \in Range(base) : \A t \in Range(rows) : t.id # r.id} \cup Range(rows)
<1> DEFINE Restates(id) == {j \in DOMAIN rows : rows[j].id = id}
           replaced == [i \in DOMAIN base |->
                          IF Restates(base[i].id) = {} THEN base[i]
                          ELSE rows[CHOOSE j \in Restates(base[i].id) : TRUE]]
           new == {j \in DOMAIN rows : \A i \in DOMAIN base : base[i].id # rows[j].id}
           R == {w \in new \X new : w[1] < w[2]}
           order == Ranked(new, R)
           fresh == [k \in DOMAIN order |-> rows[order[k]]]
           n == Cardinality(new)
<1>0. /\ Len(base) \in Nat /\ DOMAIN base = 1..Len(base) /\ \A i \in DOMAIN base : base[i] \in S
      /\ Len(rows) \in Nat /\ DOMAIN rows = 1..Len(rows) /\ \A j \in DOMAIN rows : rows[j] \in S
  BY LenProperties, ElementOfSeq
<1>1. mergeMatrix(base, rows) = replaced \o fresh
  BY DEF mergeMatrix
<1>2. \A i \in DOMAIN base : Restates(base[i].id) # {} =>
          \A j \in Restates(base[i].id) : replaced[i] = rows[j]
  <2> SUFFICES ASSUME NEW i \in DOMAIN base, NEW j \in Restates(base[i].id) PROVE replaced[i] = rows[j]
    OBVIOUS
  <2> DEFINE c == CHOOSE x \in Restates(base[i].id) : TRUE
  <2>1. c \in Restates(base[i].id)
    OBVIOUS
  <2>2. c \in DOMAIN rows /\ rows[c].id = rows[j].id /\ j \in DOMAIN rows
    BY <2>1
  <2>3. replaced[i] = rows[c]
    BY <2>1
  <2> HIDE DEF c
  <2> QED
    BY <2>2, <2>3 DEF DistinctIDs
<1>3. \A i \in DOMAIN base : Restates(base[i].id) = {} => replaced[i] = base[i]
  OBVIOUS
<1>4. DOMAIN replaced = 1..Len(base)
  BY <1>0
<1>5. IsFiniteSet(new) /\ new \subseteq DOMAIN rows
  <2>1. IsFiniteSet(1..Len(rows))
    BY <1>0, FS_Interval
  <2>2. new \in SUBSET (1..Len(rows))
    BY <1>0
  <2> QED
    BY <2>1, <2>2, FS_Subset, <1>0
<1>6. StrictOrder(R, new)
  <2>1. \A x \in new : x \in Nat
    BY <1>0
  <2> HIDE DEF new
  <2> QED
    BY <2>1 DEF StrictOrder
<1>7. /\ n \in Nat /\ order \in [1..n -> new]
      /\ \A j \in new : \E k \in 1..n : order[k] = j
  <2> HIDE DEF new, R
  <2> QED
    BY <1>5, <1>6, RankedSorts
<1>8. replaced \in Seq(S) /\ Len(replaced) = Len(base)
  <2>1. \A i \in 1..Len(base) : replaced[i] \in S
    BY <1>0, <1>2, <1>3
  <2> HIDE DEF replaced
  <2>2. replaced = [i \in 1..Len(base) |-> replaced[i]]
    BY <1>4 DEF replaced
  <2> QED
    BY <1>0, <1>4, <2>1, <2>2
<1> HIDE DEF R, order, n
<1>9. /\ fresh \in Seq(S) /\ Len(fresh) = n /\ DOMAIN fresh = 1..n
      /\ \A k \in 1..n : fresh[k] = rows[order[k]]
  <2>1. DOMAIN order = 1..n /\ \A k \in 1..n : order[k] \in DOMAIN rows
    BY <1>5, <1>7
  <2> QED
    BY <1>0, <1>7, <2>1
<1> HIDE DEF replaced, fresh
<1> DEFINE m == replaced \o fresh
<1>10. /\ m \in Seq(S) /\ Len(m) = Len(base) + n
       /\ DOMAIN m = 1..(Len(base) + n)
       /\ \A i \in 1..(Len(base) + n) : m[i] = IF i <= Len(base) THEN replaced[i] ELSE fresh[i - Len(base)]
  BY <1>0, <1>7, <1>8, <1>9, ConcatProperties
<1>11. Range(m) = Range(replaced) \cup Range(fresh)
  <2>1. ASSUME NEW r \in Range(m) PROVE r \in Range(replaced) \cup Range(fresh)
    <3>1. PICK i \in 1..(Len(base) + n) : r = m[i]
      BY <1>10 DEF Range
    <3>2. CASE i <= Len(base)
      BY <1>0, <1>4, <1>10, <3>1, <3>2 DEF Range
    <3>3. CASE ~(i <= Len(base))
      <4>1. i - Len(base) \in 1..n
        BY <1>0, <1>7, <3>1, <3>3
      <4> QED
        BY <1>9, <1>10, <3>1, <3>3, <4>1 DEF Range
    <3> QED
      BY <3>2, <3>3
  <2>2. ASSUME NEW r \in Range(replaced) PROVE r \in Range(m)
    <3>1. PICK i \in 1..Len(base) : r = replaced[i]
      BY <1>4 DEF Range
    <3>2. i \in 1..(Len(base) + n) /\ i <= Len(base)
      BY <1>0, <1>7
    <3> QED
      BY <1>10, <3>1, <3>2 DEF Range
  <2>3. ASSUME NEW r \in Range(fresh) PROVE r \in Range(m)
    <3>1. PICK k \in 1..n : r = fresh[k]
      BY <1>9 DEF Range
    <3>2. Len(base) + k \in 1..(Len(base) + n) /\ ~(Len(base) + k <= Len(base)) /\ (Len(base) + k) - Len(base) = k
      BY <1>0, <1>7
    <3>3. m[Len(base) + k] = fresh[k]
      BY <1>10, <3>2
    <3> QED
      BY <1>10, <3>1, <3>2, <3>3 DEF Range
  <2> QED
    BY <2>1, <2>2, <2>3
<1>12. Range(fresh) = {rows[j] : j \in new}
  <2>1. ASSUME NEW r \in Range(fresh) PROVE r \in {rows[j] : j \in new}
    BY <1>7, <1>9 DEF Range
  <2>2. ASSUME NEW j \in new PROVE rows[j] \in Range(fresh)
    <3>1. PICK k \in 1..n : order[k] = j
      BY <1>7
    <3> QED
      BY <1>9, <3>1 DEF Range
  <2> QED
    BY <2>1, <2>2
<1>13. \A r : r \in Range(rows) <=> \E j \in DOMAIN rows : r = rows[j]
  BY DEF Range
<1>14. \A r : r \in Range(base) <=> \E i \in DOMAIN base : r = base[i]
  BY DEF Range
<1>15. \A r : r \in Range(replaced) <=> \E i \in DOMAIN base : r = replaced[i]
  BY <1>0, <1>4 DEF Range
<1>16. ASSUME NEW r \in Range(m)
       PROVE  r \in {x \in Range(base) : \A t \in Range(rows) : t.id # x.id} \cup Range(rows)
  <2>1. CASE r \in Range(replaced)
    <3>1. PICK i \in DOMAIN base : r = replaced[i]
      BY <1>15, <2>1
    <3>2. CASE Restates(base[i].id) = {}
      <4>1. r = base[i]
        BY <1>3, <3>1, <3>2
      <4>2. \A t \in Range(rows) : t.id # r.id
        BY <1>13, <3>2, <4>1
      <4> QED
        BY <1>14, <4>1, <4>2
    <3>3. CASE Restates(base[i].id) # {}
      <4>1. PICK j \in Restates(base[i].id) : TRUE
        BY <3>3
      <4>2. r = rows[j] /\ j \in DOMAIN rows
        BY <1>2, <3>1, <4>1
      <4> QED
        BY <1>13, <4>2
    <3> QED
      BY <3>2, <3>3
  <2>2. CASE r \in Range(fresh)
    BY <1>5, <1>12, <1>13, <2>2
  <2> QED
    BY <1>11, <1>16, <2>1, <2>2
<1>17. ASSUME NEW r \in Range(base), \A t \in Range(rows) : t.id # r.id
       PROVE  r \in Range(m)
  <2>1. PICK i \in DOMAIN base : r = base[i]
    BY <1>14
  <2>2. Restates(base[i].id) = {}
    BY <1>13, <1>17, <2>1
  <2>3. r = replaced[i]
    BY <1>3, <2>1, <2>2
  <2> QED
    BY <1>11, <1>15, <2>1, <2>3
<1>18. ASSUME NEW r \in Range(rows) PROVE r \in Range(m)
  <2>1. PICK j \in DOMAIN rows : r = rows[j]
    BY <1>13
  <2>2. CASE j \in new
    BY <1>11, <1>12, <2>1, <2>2
  <2>3. CASE j \notin new
    <3>1. PICK i \in DOMAIN base : base[i].id = rows[j].id
      BY <2>1, <2>3
    <3>2. j \in Restates(base[i].id)
      BY <2>1, <3>1
    <3>3. replaced[i] = r
      BY <1>2, <2>1, <3>1, <3>2
    <3> QED
      BY <1>11, <1>15, <3>1, <3>3
  <2> QED
    BY <2>2, <2>3
<1> HIDE DEF m
<1>19. mergeMatrix(base, rows) = m
  BY <1>1 DEF m
<1> QED
  BY <1>10, <1>16, <1>17, <1>18, <1>19
-----------------------------------------------------------------------------
(* What the file declares, as layers are added to it.                      *)

\* Identities in use, of the rows rather than of their positions.
LEMMA IdentifiedRows ==
  ASSUME NEW rules
  PROVE  Identified(rules) <=> \A r \in Range(rules) : \E k \in DOMAIN IDOrder : IDOrder[k] = r.id
BY DEF Identified, Range

\* A nonempty set of positions has a last one.
LEMMA LastPosition ==
  ASSUME NEW n \in Nat, NEW T \in SUBSET (1..n), T # {}
  PROVE  \E i \in T : \A j \in T : j <= i
<1> DEFINE M == {(n + 1) - i : i \in T}
<1>1. M \in SUBSET (1..n) /\ M # {}
  <2>1. \A i \in T : (n + 1) - i \in 1..n
    OBVIOUS
  <2>2. M # {}
    OBVIOUS
  <2> QED
    BY <2>1, <2>2
<1>2. \A i \in T : (n + 1) - i \in M /\ i \in Nat
  OBVIOUS
<1>3. \A m \in M : \E i \in T : m = (n + 1) - i
  OBVIOUS
<1> HIDE DEF M
<1>4. PICK m \in M : \A j \in M : m <= j
  BY <1>1, FirstPosition
<1>5. PICK i \in T : m = (n + 1) - i
  BY <1>3
<1>6. \A j \in T : j <= i
  BY <1>2, <1>4, <1>5
<1> QED
  BY <1>6

\* The layers of a list of blocks: the built-in rules, then the blocks.
Layer(bs, k) == IF k = 1 THEN DefaultRules ELSE buildRecoveryMatrix(bs[k - 1])

\* r is what the last of the layers to name its identity says of it.
LastStated(bs, r) ==
  \E k \in 1..(Len(bs) + 1) :
    /\ r \in Range(Layer(bs, k))
    /\ \A l \in (k + 1)..(Len(bs) + 1) : \A t \in Range(Layer(bs, l)) : t.id # r.id

\* DeclaredRows and DeclaredDefault of a given list of blocks.
RowsOf(bs) ==
  LET stated == <<DefaultRules>> \o [i \in DOMAIN bs |-> buildRecoveryMatrix(bs[i])]
      RowsIn(k) == {stated[k][j] : j \in DOMAIN stated[k]}
  IN  UNION {{r \in RowsIn(k) : \A l \in k + 1 .. Len(stated) :
                                  \A s \in RowsIn(l) : s.id # r.id} : k \in DOMAIN stated}

\* The default action the blocks declare: the last one stated, terminal if none.
DefaultOf(bs) ==
  LET statesDefault == {i \in DOMAIN bs : bs[i].default # {}}
  IN  IF statesDefault = {} THEN "terminal"
      ELSE Stated(bs[CHOOSE i \in statesDefault : \A j \in statesDefault : j <= i].default, Unset)

\* The declared rows are the last statement of each identity.
LEMMA DeclaredIsLastStated ==
  ASSUME NEW bs \in Seq(Blocks), NEW r
  PROVE  r \in RowsOf(bs) <=> LastStated(bs, r)
<1> DEFINE tail == [i \in DOMAIN bs |-> buildRecoveryMatrix(bs[i])]
           stated == <<DefaultRules>> \o tail
           n == Len(bs)
           RowsIn(k) == {stated[k][j] : j \in DOMAIN stated[k]}
<1>0. n \in Nat /\ DOMAIN bs = 1..n
  BY LenProperties
<1>1. tail \in Seq({buildRecoveryMatrix(b) : b \in Blocks}) /\ Len(tail) = n
      /\ \A i \in 1..n : tail[i] = buildRecoveryMatrix(bs[i])
  <2>1. \A i \in 1..n : bs[i] \in Blocks
    BY <1>0, ElementOfSeq
  <2> QED
    BY <1>0, <2>1
<1> HIDE DEF tail
<1>2. /\ Len(stated) = n + 1 /\ DOMAIN stated = 1..(n + 1)
      /\ \A k \in 1..(n + 1) : stated[k] = Layer(bs, k)
  BY <1>0, <1>1 DEF Layer
<1>3. RowsOf(bs) = UNION {{x \in RowsIn(k) : \A l \in k + 1 .. Len(stated) :
                                 \A s \in RowsIn(l) : s.id # x.id} : k \in DOMAIN stated}
  BY DEF RowsOf, tail
<1> HIDE DEF stated
<1>4. \A k \in 1..(n + 1) : RowsIn(k) = Range(Layer(bs, k))
  BY <1>2 DEF Range
<1> HIDE DEF RowsIn
<1>5. r \in RowsOf(bs) <=> \E k \in 1..(n + 1) : r \in RowsIn(k) /\ \A l \in k + 1 .. n + 1 : \A s \in RowsIn(l) : s.id # r.id
  BY <1>2, <1>3
<1>6. \A k \in 1..(n + 1) : \A l \in k + 1 .. n + 1 : l \in 1..(n + 1)
  BY <1>0
<1> QED
  BY <1>4, <1>5, <1>6 DEF LastStated

\* One more block replaces what it restates and adds the rest.
LEMMA DeclaredAppend ==
  ASSUME NEW bs \in Seq(Blocks), NEW b \in Blocks
  PROVE  RowsOf(Append(bs, b)) =
           {r \in RowsOf(bs) : \A t \in Range(buildRecoveryMatrix(b)) : t.id # r.id}
             \cup Range(buildRecoveryMatrix(b))
<1> DEFINE cs == Append(bs, b)
           n == Len(bs)
           new == Range(buildRecoveryMatrix(b))
<1>0. n \in Nat /\ cs \in Seq(Blocks) /\ Len(cs) = n + 1 /\ cs[n + 1] = b /\ \A i \in 1..n : cs[i] = bs[i]
  OBVIOUS
<1> HIDE DEF cs
<1>1. Layer(cs, n + 2) = buildRecoveryMatrix(b)
  BY <1>0 DEF Layer
<1>2. \A k \in 1..(n + 1) : Layer(cs, k) = Layer(bs, k)
  BY <1>0 DEF Layer
<1>3. ASSUME NEW r, LastStated(cs, r)
      PROVE  r \in new \/ (LastStated(bs, r) /\ \A t \in new : t.id # r.id)
  <2>1. PICK k \in 1..(n + 2) :
           /\ r \in Range(Layer(cs, k))
           /\ \A l \in (k + 1)..(n + 2) : \A t \in Range(Layer(cs, l)) : t.id # r.id
    <3>1. Len(cs) + 1 = n + 2
      BY <1>0
    <3> QED
      BY <1>3, <3>1 DEF LastStated
  <2>2. CASE k = n + 2
    BY <1>1, <2>1, <2>2
  <2>3. CASE k # n + 2
    <3>1. k \in 1..(n + 1) /\ n + 2 \in (k + 1)..(n + 2)
      BY <1>0, <2>3
    <3>2. \A t \in new : t.id # r.id
      BY <1>1, <2>1, <3>1
    <3>3. r \in Range(Layer(bs, k))
      BY <1>2, <2>1, <3>1
    <3>4. \A l \in (k + 1)..(n + 1) : l \in (k + 1)..(n + 2) /\ l \in 1..(n + 1)
      BY <1>0, <3>1
    <3>5. \A l \in (k + 1)..(n + 1) : \A t \in Range(Layer(bs, l)) : t.id # r.id
      BY <1>2, <2>1, <3>4
    <3> QED
      BY <3>1, <3>2, <3>3, <3>5 DEF LastStated
  <2> QED
    BY <2>2, <2>3
<1>4. ASSUME NEW r \in new PROVE LastStated(cs, r)
  <2>1. n + 2 \in 1..(Len(cs) + 1) /\ ((n + 2) + 1)..(Len(cs) + 1) = {}
    BY <1>0
  <2> QED
    BY <1>1, <2>1 DEF LastStated
<1>5. ASSUME NEW r, LastStated(bs, r), \A t \in new : t.id # r.id PROVE LastStated(cs, r)
  <2>1. PICK k \in 1..(n + 1) :
           /\ r \in Range(Layer(bs, k))
           /\ \A l \in (k + 1)..(n + 1) : \A t \in Range(Layer(bs, l)) : t.id # r.id
    BY <1>5 DEF LastStated
  <2>2. r \in Range(Layer(cs, k))
    BY <1>2, <2>1
  <2>3. ASSUME NEW l \in (k + 1)..(n + 2), NEW t \in Range(Layer(cs, l)) PROVE t.id # r.id
    <3>1. CASE l = n + 2
      BY <1>1, <1>5, <2>3, <3>1
    <3>2. CASE l # n + 2
      <4>1. l \in (k + 1)..(n + 1) /\ l \in 1..(n + 1)
        BY <1>0, <3>2
      <4> QED
        BY <1>2, <2>1, <2>3, <4>1
    <3> QED
      BY <3>1, <3>2
  <2>4. Len(cs) + 1 = n + 2 /\ k \in 1..(n + 2)
    BY <1>0
  <2> QED
    BY <2>2, <2>3, <2>4 DEF LastStated
<1>6. \A r : r \in RowsOf(cs) <=> LastStated(cs, r)
  BY <1>0, DeclaredIsLastStated
<1>7. \A r : r \in RowsOf(bs) <=> LastStated(bs, r)
  BY DeclaredIsLastStated
<1>8. \A r : r \in RowsOf(cs) <=> (r \in new \/ (r \in RowsOf(bs) /\ \A t \in new : t.id # r.id))
  BY <1>3, <1>4, <1>5, <1>6, <1>7
<1> HIDE DEF new
<1>9. RowsOf(cs) = {r \in RowsOf(bs) : \A t \in new : t.id # r.id} \cup new
  BY <1>8
<1> QED
  BY <1>9 DEF cs, new

\* Without blocks, the built-in rules are declared.
LEMMA DeclaredAtFirst == RowsOf(<<>>) = Range(DefaultRules) /\ DefaultOf(<<>>) = "terminal"
<1>0. <<>> \in Seq(Blocks) /\ Len(<<>>) = 0 /\ DOMAIN <<>> = {}
  OBVIOUS
<1>1. \A r : LastStated(<<>>, r) <=> r \in Range(DefaultRules)
  <2>1. 1..(Len(<<>>) + 1) = {1} /\ (1 + 1)..(Len(<<>>) + 1) = {}
    BY <1>0
  <2> QED
    BY <2>1 DEF LastStated, Layer
<1>2. \A r : r \in RowsOf(<<>>) <=> LastStated(<<>>, r)
  BY <1>0, DeclaredIsLastStated
<1>3. RowsOf(<<>>) = Range(DefaultRules)
  BY <1>1, <1>2
<1>4. DefaultOf(<<>>) = "terminal"
  BY <1>0 DEF DefaultOf
<1> QED
  BY <1>3, <1>4

\* The last block that states a default has the word.
LEMMA DefaultAppend ==
  ASSUME NEW bs \in Seq(Blocks), NEW b \in Blocks
  PROVE  DefaultOf(Append(bs, b)) = Stated(b.default, DefaultOf(bs))
<1> DEFINE cs == Append(bs, b)
           n == Len(bs)
           T == {i \in DOMAIN bs : bs[i].default # {}}
           U == {i \in DOMAIN cs : cs[i].default # {}}
           last(X) == CHOOSE i \in X : \A j \in X : j <= i
<1>0. /\ n \in Nat /\ DOMAIN bs = 1..n /\ DOMAIN cs = 1..(n + 1)
      /\ cs[n + 1] = b /\ \A i \in 1..n : cs[i] = bs[i]
  OBVIOUS
<1>1. DefaultOf(bs) = IF T = {} THEN "terminal" ELSE Stated(bs[last(T)].default, Unset)
  BY DEF DefaultOf
<1>2. DefaultOf(cs) = IF U = {} THEN "terminal" ELSE Stated(cs[last(U)].default, Unset)
  BY DEF DefaultOf
<1> HIDE DEF cs
<1>3. CASE b.default = {}
  <2>1. T \in SUBSET (1..n)
    BY <1>0
  <2>2. U = T
    BY <1>0, <1>3
  <2> HIDE DEF T, U
  <2>3. CASE T = {}
    BY <1>1, <1>2, <1>3, <2>2, <2>3 DEF Stated, cs
  <2>4. CASE T # {}
    <3>1. \E i \in T : \A j \in T : j <= i
      BY <1>0, <2>1, <2>4, LastPosition
    <3>2. last(T) \in 1..n
      BY <2>1, <3>1
    <3> HIDE DEF last
    <3>3. cs[last(T)] = bs[last(T)]
      BY <1>0, <3>2
    <3> QED
      BY <1>1, <1>2, <1>3, <2>2, <2>4, <3>3 DEF Stated, cs
  <2> QED
    BY <2>3, <2>4
<1>4. CASE b.default # {}
  <2>1. n + 1 \in U /\ \A j \in U : j \in Nat /\ j <= n + 1
    BY <1>0, <1>4
  <2> HIDE DEF U
  <2>2. \E i \in U : \A j \in U : j <= i
    BY <2>1
  <2>3. last(U) \in U /\ \A j \in U : j <= last(U)
    BY <2>2
  <2> HIDE DEF last
  <2>4. last(U) = n + 1
    BY <1>0, <2>1, <2>3
  <2> QED
    BY <1>0, <1>2, <1>4, <2>1, <2>4 DEF Stated, cs
<1> QED
  BY <1>3, <1>4

\* Merging nothing changes nothing.
LEMMA MergeNothing ==
  ASSUME NEW S, NEW base \in Seq(S)
  PROVE  mergeMatrix(base, <<>>) = base
<1> DEFINE rows == <<>>
           Restates(id) == {j \in DOMAIN rows : rows[j].id = id}
           replaced == [i \in DOMAIN base |->
                          IF Restates(base[i].id) = {} THEN base[i]
                          ELSE rows[CHOOSE j \in Restates(base[i].id) : TRUE]]
           new == {j \in DOMAIN rows : \A i \in DOMAIN base : base[i].id # rows[j].id}
           order == Ranked(new, {w \in new \X new : w[1] < w[2]})
           fresh == [k \in DOMAIN order |-> rows[order[k]]]
<1>1. mergeMatrix(base, rows) = replaced \o fresh
  BY DEF mergeMatrix
<1>2. DOMAIN rows = {}
  OBVIOUS
<1> HIDE DEF rows
<1>3. replaced = base
  <2>1. \A i \in DOMAIN base : Restates(base[i].id) = {}
    BY <1>2
  <2>2. replaced = [i \in DOMAIN base |-> base[i]]
    BY <2>1
  <2> QED
    BY <2>2
<1>4. fresh = <<>>
  <2>1. new = {}
    BY <1>2
  <2>2. Cardinality(new) = 0
    BY <2>1, FS_EmptySet
  <2> HIDE DEF new
  <2>3. DOMAIN order = 1..0
    BY <2>2 DEF Ranked
  <2> HIDE DEF order
  <2>4. fresh \in Seq({})
    BY <2>3
  <2> QED
    BY <2>3, <2>4
<1> HIDE DEF replaced, fresh
<1>5. replaced \o fresh = base
  BY <1>3, <1>4
<1> QED
  BY <1>1, <1>5 DEF rows

\* A merged list has the rows of both, and so their identities.
LEMMA MergeIdentified ==
  ASSUME NEW S, NEW base \in Seq(S), NEW rows \in Seq(S), DistinctIDs(rows),
         Identified(base), Identified(rows)
  PROVE  Identified(mergeMatrix(base, rows))
<1>1. \A r \in Range(mergeMatrix(base, rows)) : r \in Range(base) \cup Range(rows)
  BY MergeRows
<1> QED
  BY <1>1, IdentifiedRows

-----------------------------------------------------------------------------
(* The switches.                                                           *)

\* A switch and its reach as Validate wants them.
Reach(p) == ValidReach(p) /\ p.fallback.enabled \in BOOLEAN /\ p.stream.enabled \in BOOLEAN

\* The switches stay switches.
LEMMA MergeSwitches ==
  ASSUME NEW p, p.fallback.enabled \in BOOLEAN, p.stream.enabled \in BOOLEAN, NEW b \in Blocks
  PROVE  Merge(p, b).fallback.enabled \in BOOLEAN /\ Merge(p, b).stream.enabled \in BOOLEAN
<1>1. \A switch \in {b.fallback, b.legacy, b.stream} : switch.enabled \in {{}, {TRUE}, {FALSE}}
  BY MatrixAssumption
<1>2. ASSUME NEW option \in {{}, {TRUE}, {FALSE}}, NEW inherited \in BOOLEAN
      PROVE  Stated(option, inherited) \in BOOLEAN
  BY DEF Stated
<1>3. FallbackOf(b).enabled \in {{}, {TRUE}, {FALSE}}
  <2>1. Stated(b.legacy.enabled, TRUE) \in BOOLEAN
    BY <1>1, <1>2
  <2>2. buildLegacyFallback(b.legacy).enabled = {Stated(b.legacy.enabled, TRUE)}
    BY DEF buildLegacyFallback
  <2>3. CASE Silent(b.legacy)
    BY <1>1, <2>3 DEF FallbackOf
  <2>4. CASE ~Silent(b.legacy)
    BY <2>1, <2>2, <2>4 DEF FallbackOf
  <2> QED
    BY <2>3, <2>4
<1>4. /\ Merge(p, b).fallback.enabled = Stated(FallbackOf(b).enabled, p.fallback.enabled)
      /\ Merge(p, b).stream.enabled = Stated(b.stream.enabled, p.stream.enabled)
  BY DEF Merge, mergeFallback, mergeStream
<1> QED
  BY <1>1, <1>2, <1>3, <1>4

\* Whatever the layers above left, throwing a switch leaves a valid reach.
LEMMA SwitchKeepsReach ==
  ASSUME NEW p, Reach(p), NEW b \in Blocks,
         b.fallback.max = {}, b.stream.max = {}, Silent(b.legacy)
  PROVE  ValidReach(Merge(p, b))
<1>1. b.fallback.enabled \in {{}, {TRUE}, {FALSE}} /\ b.stream.enabled \in {{}, {TRUE}, {FALSE}}
  BY MatrixAssumption
<1>2. /\ Merge(p, b).fallback = mergeFallback(p.fallback, b.fallback)
      /\ Merge(p, b).stream = mergeStream(p.stream, b.stream)
  BY DEF Merge, FallbackOf
<1>3. (CHOOSE v \in {TRUE} : TRUE) = TRUE /\ (CHOOSE v \in {FALSE} : TRUE) = FALSE
  OBVIOUS
<1>4. LET f == mergeFallback(p.fallback, b.fallback)
      IN  IF f.enabled THEN f.max \in 1..8 ELSE f.max = 1
  <2>0. IF p.fallback.enabled THEN p.fallback.max \in 1..8 ELSE p.fallback.max = 1
    BY DEF Reach, ValidReach
  <2>1. CASE b.fallback.enabled = {}
    BY <2>0, <2>1 DEF mergeFallback, Stated
  <2>2. CASE b.fallback.enabled = {TRUE}
    <3>1. {TRUE} # {FALSE} /\ {TRUE} # {}
      OBVIOUS
    <3>2. p.fallback.max \in 1..8
      BY <2>0 DEF Reach
    <3>3. /\ mergeFallback(p.fallback, b.fallback).enabled = TRUE
          /\ mergeFallback(p.fallback, b.fallback).max = p.fallback.max
      BY <1>3, <2>2, <3>1 DEF mergeFallback, Stated
    <3> QED
      BY <3>2, <3>3
  <2>3. CASE b.fallback.enabled = {FALSE}
    BY <1>3, <2>3 DEF mergeFallback, Stated
  <2> QED
    BY <1>1, <2>1, <2>2, <2>3
<1>5. LET f == mergeStream(p.stream, b.stream)
      IN  IF f.enabled THEN f.max \in 1..2 ELSE f.max = 0
  <2>0. IF p.stream.enabled THEN p.stream.max \in 1..2 ELSE p.stream.max = 0
    BY DEF Reach, ValidReach
  <2>1. CASE b.stream.enabled = {}
    BY <2>0, <2>1 DEF mergeStream, Stated
  <2>2. CASE b.stream.enabled = {TRUE}
    <3>1. {TRUE} # {FALSE} /\ {TRUE} # {}
      OBVIOUS
    <3>2. mergeStream(p.stream, b.stream).enabled = TRUE
      BY <1>3, <2>2, <3>1 DEF mergeStream, Stated
    <3>3. p.stream.enabled => mergeStream(p.stream, b.stream).max = p.stream.max
      BY <2>2, <3>1 DEF mergeStream, Stated
    <3>4. ~p.stream.enabled => mergeStream(p.stream, b.stream).max = 1
      BY <2>2, <3>1 DEF mergeStream, Stated, DefaultMaxStreamRecoveries
    <3>5. mergeStream(p.stream, b.stream).max \in 1..2
      BY <2>0, <3>3, <3>4
    <3> QED
      BY <3>2, <3>5
  <2>3. CASE b.stream.enabled = {FALSE}
    BY <1>3, <2>3 DEF mergeStream, Stated
  <2> QED
    BY <1>1, <2>1, <2>2, <2>3
<1> QED
  BY <1>2, <1>4, <1>5 DEF ValidReach

-----------------------------------------------------------------------------
(* The inductive invariant.                                                *)

\* The policy is one NewMatrix and Validate accepted, its rules in order.
WellFormed(p) ==
  /\ p.rules \in Seq(AllRows) /\ Acceptable(p.rules) /\ Identified(p.rules)
  /\ \A k, l \in DOMAIN p.rules :
        k < l => Specificity(p.rules[k].match) >= Specificity(p.rules[l].match)
  /\ Reach(p)

\* The policy says what the blocks folded so far declare.
Declared(bs, p) == Range(p.rules) = RowsOf(bs) /\ p.default = DefaultOf(bs)

\* The policy under construction is well formed and says what its blocks declare.
MatrixInv ==
  /\ position \in Nat /\ blocks \in Seq(Blocks) /\ phase \in {"loading", "rejected", "live"}
  /\ WellFormed(policy)
  /\ phase # "rejected" => Declared(blocks, policy)
  /\ phase # "live" => decision.action = Unset
  /\ DecisionIsDeclared
  /\ SwitchNeverContradicts
\* The built-in policy.
LEMMA InitMatrixInv == Init => MatrixInv
<1> SUFFICES ASSUME Init PROVE MatrixInv
  OBVIOUS
<1>1. DefaultRules \in Seq(AllRows) /\ Acceptable(DefaultRules) /\ Identified(DefaultRules)
  <2>1. DefaultRules \in Seq(Rules) /\ Acceptable(DefaultRules) /\ Identified(DefaultRules)
    BY MatrixAssumption
  <2> QED
    BY <2>1, SeqMonotonic DEF AllRows
<1>2. policy.rules = sortRules(DefaultRules) /\ policy.default = "terminal" /\ Reach(policy)
  <2>1. /\ policy.rules = sortRules(DefaultRules) /\ policy.default = "terminal"
        /\ policy.fallback = [enabled |-> TRUE, max |-> 2]
        /\ policy.stream = [enabled |-> FALSE, max |-> 0]
    BY DEF Init, Default
  <2>2. ValidReach(policy)
    BY <2>1 DEF ValidReach
  <2>3. policy.fallback.enabled \in BOOLEAN /\ policy.stream.enabled \in BOOLEAN
    BY <2>1
  <2> QED
    BY <2>1, <2>2, <2>3 DEF Reach
<1>3. WellFormed(policy) /\ Range(policy.rules) = Range(DefaultRules)
  BY <1>1, <1>2, SortKeeps DEF WellFormed
<1>4. blocks = <<>> /\ Declared(<<>>, policy)
  BY <1>2, <1>3, DeclaredAtFirst DEF Declared, Init
<1>5. <<>> \in Seq(Blocks)
  OBVIOUS
<1>6. DecisionIsDeclared /\ decision.action = Unset
  BY DEF Init, DecisionIsDeclared
<1>7. SwitchNeverContradicts /\ position \in Nat /\ phase = "loading"
  BY DEF Init, SwitchNeverContradicts
<1> QED
  BY <1>3, <1>4, <1>5, <1>6, <1>7 DEF MatrixInv

\* An accepted layer leaves a policy that is acceptable, in order, and says
\* what the longer list of blocks declares.
LEMMA AcceptedFold ==
  ASSUME NEW b \in Blocks, NEW bs \in Seq(Blocks),
         WellFormed(policy), Declared(bs, policy),
         DistinctIDs(buildRecoveryMatrix(b)),
         Acceptable(Merge(policy, b).rules), ValidReach(Merge(policy, b)),
         NEW q, q = [Merge(policy, b) EXCEPT !.rules = sortRules(@)]
  PROVE  WellFormed(q) /\ Declared(Append(bs, b), q)
<1> DEFINE rows == buildRecoveryMatrix(b)
           merged == mergeMatrix(policy.rules, rows)
<1>1. rows \in Seq(AllRows) /\ Identified(rows)
  BY BuildType
<1>2. Merge(policy, b).rules = merged
  BY DEF Merge
<1>3. /\ q.rules = sortRules(merged) /\ q.default = Stated(b.default, policy.default)
      /\ q.fallback = Merge(policy, b).fallback /\ q.stream = Merge(policy, b).stream
  BY DEF Merge
<1> HIDE DEF rows
<1>4. /\ merged \in Seq(AllRows)
      /\ Range(merged) = {r \in Range(policy.rules) : \A t \in Range(rows) : t.id # r.id} \cup Range(rows)
  BY <1>1, MergeRows DEF WellFormed, rows
<1>5. Identified(merged)
  BY <1>1, MergeIdentified DEF WellFormed, rows
<1>6. Acceptable(merged)
  BY <1>2
<1> HIDE DEF merged
<1>7. /\ q.rules \in Seq(AllRows) /\ Acceptable(q.rules) /\ Identified(q.rules)
      /\ Range(q.rules) = Range(merged)
      /\ \A k, l \in DOMAIN q.rules :
            k < l => Specificity(q.rules[k].match) >= Specificity(q.rules[l].match)
  BY <1>3, <1>4, <1>5, <1>6, SortKeeps
<1>8. Reach(q)
  <2>1. Merge(policy, b).fallback.enabled \in BOOLEAN /\ Merge(policy, b).stream.enabled \in BOOLEAN
    BY MergeSwitches DEF WellFormed, Reach
  <2>2. ValidReach(q)
    BY <1>3 DEF ValidReach
  <2> QED
    BY <1>3, <2>1, <2>2 DEF Reach
<1>9. Range(q.rules) = RowsOf(Append(bs, b))
  BY <1>4, <1>7, DeclaredAppend DEF Declared, rows
<1>10. q.default = DefaultOf(Append(bs, b))
  BY <1>3, DefaultAppend DEF Declared
<1> QED
  BY <1>7, <1>8, <1>9, <1>10 DEF WellFormed, Declared

\* A block that only throws switches is accepted.
LEMMA SwitchAccepted ==
  ASSUME WellFormed(policy), NEW b \in Blocks, NEW where, SwitchOnly(b, where)
  PROVE  Accepted(b, where)
<1>1. buildRecoveryMatrix(b) = <<>>
  BY BuildNothing DEF SwitchOnly
<1>2. Merge(policy, b).rules = policy.rules
  BY <1>1, MergeNothing DEF Merge, WellFormed
<1>3. DistinctIDs(<<>>)
  BY DEF DistinctIDs
<1>4. ValidReach(Merge(policy, b))
  BY SwitchKeepsReach DEF SwitchOnly, WellFormed
<1> QED
  BY <1>1, <1>2, <1>3, <1>4 DEF Accepted, SwitchOnly, WellFormed

\* Folding a layer, accepted or rejected.
LEMMA FoldStep == MatrixInv /\ FoldLayer => MatrixInv'
<1> SUFFICES ASSUME MatrixInv, FoldLayer PROVE MatrixInv'
  OBVIOUS
<1>0. /\ position \in Nat /\ blocks \in Seq(Blocks) /\ phase = "loading" /\ WellFormed(policy)
      /\ Declared(blocks, policy) /\ decision.action = Unset
  BY DEF MatrixInv, FoldLayer
<1>1. PICK b \in Blocks :
        /\ blocks' = Append(blocks, b)
        /\ IF Accepted(b, Positions[position])
           THEN /\ policy' = [Merge(policy, b) EXCEPT !.rules = sortRules(@)]
                /\ phase' = "loading"
           ELSE phase' = "rejected" /\ UNCHANGED policy
  BY DEF FoldLayer
<1>2. position' = position + 1 /\ decision' = decision /\ observation' = observation
  BY DEF FoldLayer
<1>3. /\ blocks' \in Seq(Blocks) /\ Len(blocks') = Len(blocks) + 1 /\ Len(blocks) \in Nat
      /\ blocks'[Len(blocks')] = b /\ position' \in Nat /\ position' - 1 = position
  BY <1>0, <1>1, <1>2
<1>4. decision'.action = Unset /\ DecisionIsDeclared'
  BY <1>0, <1>2 DEF DecisionIsDeclared
<1>5. CASE Accepted(b, Positions[position])
  <2>1. policy' = [Merge(policy, b) EXCEPT !.rules = sortRules(@)] /\ phase' = "loading"
    BY <1>1, <1>5
  <2>2. /\ DistinctIDs(buildRecoveryMatrix(b))
        /\ Acceptable(Merge(policy, b).rules) /\ ValidReach(Merge(policy, b))
    BY <1>5 DEF Accepted
  <2>3. WellFormed(policy') /\ Declared(Append(blocks, b), policy')
    BY <1>0, <2>1, <2>2, AcceptedFold
  <2>4. SwitchNeverContradicts'
    BY <2>1 DEF SwitchNeverContradicts
  <2> QED
    BY <1>1, <1>3, <1>4, <2>1, <2>3, <2>4 DEF MatrixInv
<1>6. CASE ~Accepted(b, Positions[position])
  <2>1. phase' = "rejected" /\ policy' = policy
    BY <1>1, <1>6
  <2>2. ~SwitchOnly(b, Positions[position])
    BY <1>0, <1>6, SwitchAccepted
  <2>3. SwitchNeverContradicts'
    BY <1>3, <2>2 DEF SwitchNeverContradicts
  <2> QED
    BY <1>0, <1>3, <1>4, <2>1, <2>3 DEF MatrixInv
<1> QED
  BY <1>5, <1>6

\* Asking the frozen matrix.
LEMMA ConsultStep ==
  MatrixInv /\ (DialFailed \/ ErrorAnswered \/ AnswerUnusable \/ PoolCooling) => MatrixInv'
<1> SUFFICES ASSUME MatrixInv, DialFailed \/ ErrorAnswered \/ AnswerUnusable \/ PoolCooling
             PROVE  MatrixInv'
  OBVIOUS
<1>1. /\ Classified(observation') /\ decision' = Match(policy, observation')
      /\ phase = "live" /\ UNCHANGED <<position, blocks, policy, phase>>
  BY ConsultsClassified
<1>2. WellFormed(policy) /\ Declared(blocks, policy)
  BY <1>1 DEF MatrixInv
<1> DEFINE o == observation'
           hits == {r \in Range(policy.rules) : matches(r.match, o)}
           top == {r \in hits : \A t \in hits : Specificity(t.match) <= Specificity(r.match)}
<1>3. IF hits = {} THEN Match(policy, o) = [action |-> policy.default, id |-> Unset]
      ELSE \E r \in top : top = {r} /\ Match(policy, o) = [action |-> r.action, id |-> r.id]
  BY <1>1, <1>2, MatchIsMostSpecific DEF WellFormed
<1>4. DeclaredRows' = Range(policy.rules) /\ DeclaredDefault' = policy.default
  <2>1. DeclaredRows' = RowsOf(blocks') /\ DeclaredDefault' = DefaultOf(blocks')
    BY DEF DeclaredRows, DeclaredDefault, RowsOf, DefaultOf
  <2> QED
    BY <1>1, <1>2, <2>1 DEF Declared
<1>5. DecisionIsDeclared'
  BY <1>1, <1>3, <1>4 DEF DecisionIsDeclared
<1>6. SwitchNeverContradicts'
  BY <1>1 DEF SwitchNeverContradicts
<1> QED
  BY <1>1, <1>2, <1>5, <1>6 DEF MatrixInv

\* MatrixInv is inductive.
LEMMA NextMatrixInv == MatrixInv /\ [Next]_vars => MatrixInv'
<1> SUFFICES ASSUME MatrixInv, [Next]_vars PROVE MatrixInv'
  OBVIOUS
<1>1. CASE FoldLayer
  BY <1>1, FoldStep
<1>2. CASE DialFailed \/ ErrorAnswered \/ AnswerUnusable \/ PoolCooling
  BY <1>2, ConsultStep
<1>3. ASSUME UNCHANGED <<blocks, policy, observation, decision>>, position' \in Nat,
             phase' = phase \/ (phase' = "live" /\ phase = "loading"),
             phase = "rejected" => position' = position
      PROVE  MatrixInv'
  <2>1. DecisionIsDeclared'
    <3>1. DeclaredRows' = DeclaredRows /\ DeclaredDefault' = DeclaredDefault
      BY <1>3 DEF DeclaredRows, DeclaredDefault
    <3>2. DecisionIsDeclared
      BY DEF MatrixInv
    <3> QED
      BY <1>3, <3>1, <3>2 DEF DecisionIsDeclared
  <2>2. SwitchNeverContradicts'
    BY <1>3 DEF MatrixInv, SwitchNeverContradicts
  <2> QED
    BY <1>3, <2>1, <2>2 DEF MatrixInv
<1>4. CASE SkipLayer
  BY <1>3, <1>4 DEF SkipLayer, MatrixInv
<1>5. CASE Freeze
  BY <1>3, <1>5 DEF Freeze, MatrixInv
<1>6. CASE UNCHANGED vars
  BY <1>3, <1>6 DEF vars, MatrixInv
<1> QED
  BY <1>1, <1>2, <1>4, <1>5, <1>6 DEF Next

\* The policy in force is always one NewMatrix and Validate accept, in order,
\* and says what the file declares unless the file was rejected.
THEOREM MatrixInvariant == Spec => []MatrixInv
BY InitMatrixInv, NextMatrixInv, PTL DEF Spec

\* For every vocabulary of blocks, built-in rules, errors and answers: the
\* decision for a failure is the action of the one most specific row that the
\* file declares for it, or the declared default (NewMatrix, overlaps,
\* sortRules, mergeMatrix, Match).
THEOREM DecisionIsWhatFileDeclares == Spec => []DecisionIsDeclared
<1>1. MatrixInv => DecisionIsDeclared
  BY DEF MatrixInv
<1> QED
  BY <1>1, MatrixInvariant, PTL

\* For every such vocabulary: a block that only throws the switches of its
\* position is never what a file is rejected for (Merge, Validate).
THEOREM SwitchIsNeverRejected == Spec => []SwitchNeverContradicts
<1>1. MatrixInv => SwitchNeverContradicts
  BY DEF MatrixInv
<1> QED
  BY <1>1, MatrixInvariant, PTL
=============================================================================
