--------------------------- MODULE RecoveryMatrix ---------------------------
(***************************************************************************)
(* How a candidate's recovery policy is built from the file and consulted: *)
(* the blocks of internal/config/recovery.go are expanded into rules, each *)
(* layer (global, provider, model, candidate) is folded onto the policy    *)
(* and validated (internal/recovery/merge.go, resolve.go, matrix.go,       *)
(* rule.go), and every failure is matched against the frozen rule list.    *)
(*                                                                         *)
(* A match is a function from predicates to tokens, Unset where the rule   *)
(* says nothing; an observation has the same shape. Optional settings are  *)
(* sets with at most one element.                                          *)
(***************************************************************************)
EXTENDS TransportErrors, Naturals, Sequences, SequencesExt, FiniteSets

CONSTANTS
  Blocks,          \* the recovery blocks a file may state in one position
  DefaultRules,    \* the rows of the built-in matrix the model keeps
  Errors,          \* the error chains a dial may fail with
  Answers,         \* the error answers an upstream may give: status, type, code
  StatusClassOf,   \* the bucket of each status in use
  IDOrder,         \* the rule identities in use, in ascending order
  MaxBlocks        \* bound: how many of the four positions state a block

VARIABLES
  position,        \* the next layer to fold
  blocks,          \* the blocks folded so far, in order
  policy,          \* the effective policy after the last accepted layer
  phase,           \* "loading", "rejected" or "live"
  observation,     \* the last failure that reached the matrix
  decision         \* what the matrix said of it

vars == <<position, blocks, policy, phase, observation, decision>>

Actions == {"terminal", "retry", "fallback"}
Layers == {"http", "transport", "protocol", "caller", "credential"}

(* The predicates of a match, each with the one failure layer it belongs   *)
(* to; the class and the three request predicates belong to every layer.   *)
LayerOf ==
  [status |-> "http", statusClass |-> "http", errorType |-> "http", errorCode |-> "http",
   transportClass |-> "transport", transportCause |-> "transport",
   protocolCause |-> "protocol", callerCause |-> "caller", credentialCause |-> "credential"]

Predicates == DOMAIN LayerOf \cup {"class", "streaming", "candidateIndex", "retryIndex"}

(* What is stated of some predicates, nothing of the others. *)
Stating(facts) == [p \in Predicates |-> IF p \in DOMAIN facts THEN facts[p] ELSE Unset]

AnyMatch == [p \in Predicates |-> Unset]

Says(m, p) == m[p] # Unset

matches(m, o) == \A p \in Predicates : Says(m, p) => m[p] = o[p]

LayersNamed(m) == {LayerOf[p] : p \in {q \in DOMAIN LayerOf : Says(m, q)}}

(* A predicate set within one layer, and consistent about its status. *)
validate(m) ==
  /\ Cardinality(LayersNamed(m)) <= 1
  /\ Says(m, "class") => LayersNamed(m) \subseteq {m["class"]}
  /\ Says(m, "status") /\ Says(m, "statusClass") => StatusClassOf[m["status"]] = m["statusClass"]

(* A caller rule may describe the hard stop, never weaken it. *)
validateRuleAction(r) ==
  r.match["class"] = "caller" \/ Says(r.match, "callerCause") => r.action = "terminal"

Bit(b, weight) == IF b THEN weight ELSE 0

(* exact status > provider error > status class > cause > class *)
Specificity(m) ==
  Bit(Says(m, "status"), 16)
  + Bit(Says(m, "errorType") \/ Says(m, "errorCode"), 8)
  + Bit(Says(m, "statusClass"), 4)
  + Bit(\E p \in {"transportCause", "protocolCause", "callerCause", "credentialCause"} : Says(m, p), 2)
  + Bit(Says(m, "class") \/ Says(m, "transportClass"), 1)

(* The layers a match may apply to. The provider's error members do not    *)
(* narrow it: such a rule alone counts as applying everywhere.             *)
classSet(m) ==
  LET inferred == {LayerOf[p] : p \in {q \in DOMAIN LayerOf \ {"errorType", "errorCode"} : Says(m, q)}}
  IN  IF Says(m, "class") THEN {m["class"]}
      ELSE IF inferred = {} THEN Layers ELSE inferred

Compatible(m, n, p) == Says(m, p) /\ Says(n, p) => m[p] = n[p]

(* A status against a bucket, a transport cause against a class. *)
CrossCompatible(m, n) ==
  /\ Says(m, "status") /\ Says(n, "statusClass") => StatusClassOf[m["status"]] = n["statusClass"]
  /\ Says(m, "transportCause") /\ Says(n, "transportClass") =>
       TransportClassOfCause(m["transportCause"]) = n["transportClass"]

(* Two matches overlap unless they are provably disjoint. *)
overlaps(m, n) ==
  /\ classSet(m) \cap classSet(n) # {}
  /\ \A p \in Predicates \ {"class"} : Compatible(m, n, p)
  /\ CrossCompatible(m, n) /\ CrossCompatible(n, m)

Ambiguous(r, s) ==
  Specificity(r.match) = Specificity(s.match) /\ overlaps(r.match, s.match)

DistinctIDs(rules) == \A i, j \in DOMAIN rules : rules[i].id = rules[j].id => i = j

Acceptable(rules) ==
  /\ DistinctIDs(rules)
  /\ \A i \in DOMAIN rules : validate(rules[i].match) /\ validateRuleAction(rules[i])
  /\ \A i, j \in DOMAIN rules : i < j => ~Ambiguous(rules[i], rules[j])

IDBefore(a, b) == \E i, j \in DOMAIN IDOrder : i < j /\ IDOrder[i] = a /\ IDOrder[j] = b

Precedes(r, s) ==
  \/ Specificity(r.match) > Specificity(s.match)
  \/ Specificity(r.match) = Specificity(s.match) /\ IDBefore(r.id, s.id)

(* A finite set in the strict total order R on it, given as a set of pairs. *)
Ranked(S, R) ==
  [k \in 1..Cardinality(S) |-> CHOOSE x \in S : Cardinality({y \in S : <<y, x>> \in R}) = k - 1]

sortRules(rules) ==
  LET before == {w \in (DOMAIN rules) \X (DOMAIN rules) : Precedes(rules[w[1]], rules[w[2]])}
      order == Ranked(DOMAIN rules, before)
  IN  [k \in DOMAIN rules |-> rules[order[k]]]

(* The first rule that matches decides, else the default. *)
Match(p, o) ==
  LET hits == {i \in DOMAIN p.rules : matches(p.rules[i].match, o)}
  IN  IF hits = {} THEN [action |-> p.default, id |-> Unset]
      ELSE LET r == p.rules[CHOOSE i \in hits : \A j \in hits : i <= j]
           IN  [action |-> r.action, id |-> r.id]

---------------------------------------------------------------------------
(* One layer: from a block of the file to a partial policy. *)

Row(id, predicates, action) ==
  [id |-> id, match |-> Stating(predicates), action |-> action]

(* The row a shorthand key stands for. A token that names a transport      *)
(* class and a cause selects the class; the two spellings of a caller      *)
(* cause are one.                                                          *)
ShorthandRow(s) ==
  CASE s.form = "exact"   -> Row(<<"http", s.key>>, [status |-> s.key], s.action)
    [] s.form = "classes" -> Row(<<"http-class", s.key>>, [statusClass |-> s.key], s.action)
    [] s.form = "transport" /\ s.key \in TransportClasses ->
         Row(<<"transport-class", s.key>>, [class |-> "transport", transportClass |-> s.key], s.action)
    [] s.form = "transport" /\ s.key \notin TransportClasses ->
         Row(<<"transport-cause", s.key>>, [class |-> "transport", transportCause |-> s.key], s.action)
    [] s.form = "protocol" ->
         Row(<<"protocol", s.key>>, [class |-> "protocol", protocolCause |-> s.key], s.action)
    [] s.form = "caller" ->
         LET cause == IF s.key \in {"canceled", "caller_canceled"} THEN "caller_canceled"
                      ELSE "caller_deadline_exceeded"
         IN  Row(<<"caller", cause>>, [class |-> "caller", callerCause |-> cause], s.action)
    [] s.form = "credential" ->
         Row(<<"credential", s.key>>, [class |-> "credential", credentialCause |-> s.key], s.action)

(* Shorthand rows first, then the free rules as written. *)
buildRecoveryMatrix(b) ==
  LET keys == SetToSeq(b.shorthand)
  IN  [i \in DOMAIN keys |-> ShorthandRow(keys[i])] \o b.rules

Stated(option, inherited) == IF option = {} THEN inherited ELSE CHOOSE v \in option : TRUE

(* A legacy block states both members, and a disabled one states one       *)
(* candidate whatever count it carries.                                    *)
buildLegacyFallback(l) ==
  [enabled |-> {Stated(l.enabled, TRUE)},
   max |-> {IF Stated(l.enabled, TRUE) THEN Stated(l.max, 2) ELSE 1}]

Silent(switch) == switch.enabled = {} /\ switch.max = {}

(* The file has two spellings of the global reach and takes only one. *)
FallbackOf(b) == IF Silent(b.legacy) THEN b.fallback ELSE buildLegacyFallback(b.legacy)

Positions == <<"global", "provider", "model", "candidate">>

(* Reach and stream recovery belong to the global and the model position. *)
WellPlaced(b, where) ==
  /\ where # "global" => Silent(b.legacy)
  /\ Silent(b.legacy) \/ Silent(b.fallback)
  /\ where \in {"provider", "candidate"} => Silent(b.fallback) /\ Silent(b.stream)
---------------------------------------------------------------------------
(* Folding a layer onto the policy. *)

(* Restated identities replace in place, new ones are appended. *)
mergeMatrix(base, rows) ==
  LET Restates(id) == {j \in DOMAIN rows : rows[j].id = id}
      replaced == [i \in DOMAIN base |->
                     IF Restates(base[i].id) = {} THEN base[i]
                     ELSE rows[CHOOSE j \in Restates(base[i].id) : TRUE]]
      new == {j \in DOMAIN rows : \A i \in DOMAIN base : base[i].id # rows[j].id}
      order == Ranked(new, {w \in new \X new : w[1] < w[2]})
  IN  replaced \o [k \in DOMAIN order |-> rows[order[k]]]

(* Mutant: switching the walk off keeps the parent's reach. *)
mergeFallbackKeepsReach(base, f) ==
  [enabled |-> Stated(f.enabled, base.enabled), max |-> Stated(f.max, base.max)]

(* Switching the walk off is a one-candidate walk. *)
mergeFallback(base, f) ==
  [enabled |-> Stated(f.enabled, base.enabled),
   max |-> Stated(f.max, IF f.enabled = {FALSE} THEN 1 ELSE base.max)]

DefaultMaxStreamRecoveries == 1

(* Switching stream recovery off is zero recoveries; switching it on where *)
(* it was off is the default reach; where it was on, it keeps its reach.   *)
mergeStream(base, s) ==
  [enabled |-> Stated(s.enabled, base.enabled),
   max |-> Stated(s.max, CASE s.enabled = {FALSE} -> 0
                           [] s.enabled = {TRUE} /\ ~base.enabled -> DefaultMaxStreamRecoveries
                           [] OTHER -> base.max)]

(* The built-in list is one NewMatrix accepts; a block is as the decoder    *)
(* leaves it; IDOrder lists every identity in use once.                    *)
Rules == [id : STRING \X STRING, match : [Predicates -> STRING], action : Actions]

Identified(rules) == \A i \in DOMAIN rules : \E k \in DOMAIN IDOrder : IDOrder[k] = rules[i].id

ASSUME MatrixAssumption ==
  /\ DefaultRules \in Seq(Rules) /\ Acceptable(DefaultRules) /\ Identified(DefaultRules)
  /\ \A b \in Blocks :
       /\ IsFiniteSet(b.shorthand) /\ b.rules \in Seq(Rules) /\ Identified(buildRecoveryMatrix(b))
       /\ \A switch \in {b.fallback, b.legacy, b.stream} : switch.enabled \in {{}, {TRUE}, {FALSE}}
  /\ IDOrder \in Seq(STRING \X STRING)
  /\ \A k, l \in DOMAIN IDOrder : IDOrder[k] = IDOrder[l] => k = l

(* The switches' part of Policy.Validate. *)
ValidReach(p) ==
  /\ IF p.fallback.enabled THEN p.fallback.max \in 1..8 ELSE p.fallback.max = 1
  /\ IF p.stream.enabled THEN p.stream.max \in 1..2 ELSE p.stream.max = 0

(* The merged policy; its rules are sorted once they are accepted. *)
Merge(base, b) ==
  [rules |-> mergeMatrix(base.rules, buildRecoveryMatrix(b)),
   default |-> Stated(b.default, base.default),
   fallback |-> mergeFallback(base.fallback, FallbackOf(b)),
   stream |-> mergeStream(base.stream, b.stream)]

Accepted(b, where) ==
  /\ WellPlaced(b, where)
  /\ DistinctIDs(buildRecoveryMatrix(b))
  /\ Acceptable(Merge(policy, b).rules)
  /\ ValidReach(Merge(policy, b))

---------------------------------------------------------------------------
Default ==
  [rules |-> sortRules(DefaultRules), default |-> "terminal",
   fallback |-> [enabled |-> TRUE, max |-> 2], stream |-> [enabled |-> FALSE, max |-> 0]]

Init ==
  /\ position = 1
  /\ blocks = <<>>
  /\ policy = Default
  /\ phase = "loading"
  /\ observation = AnyMatch
  /\ decision = [action |-> Unset, id |-> Unset]

(* Resolve folds the next layer; a rejected one rejects the file. *)
FoldLayer ==
  /\ phase = "loading" /\ position \in DOMAIN Positions /\ Len(blocks) < MaxBlocks
  /\ \E b \in Blocks :
       /\ blocks' = Append(blocks, b)
       /\ IF Accepted(b, Positions[position])
          THEN /\ policy' = [Merge(policy, b) EXCEPT !.rules = sortRules(@)]
               /\ phase' = "loading"
          ELSE phase' = "rejected" /\ UNCHANGED policy
  /\ position' = position + 1
  /\ UNCHANGED <<observation, decision>>

(* A position that states nothing is skipped. *)
SkipLayer ==
  /\ phase = "loading" /\ position \in DOMAIN Positions
  /\ position' = position + 1
  /\ UNCHANGED <<blocks, policy, phase, observation, decision>>

Freeze ==
  /\ phase = "loading" /\ position \notin DOMAIN Positions
  /\ phase' = "live"
  /\ UNCHANGED <<position, blocks, policy, observation, decision>>

(* What the handler knows of the request when an attempt fails. *)
Requests ==
  {[streaming |-> s, candidateIndex |-> c, retryIndex |-> r] :
     s \in {"yes", "no"}, c \in {"1", "2"}, r \in {"0", "1"}}

(* The engine asks the frozen matrix about a failure. The policy never     *)
(* changes again, so the model follows each to one failure.                *)
Consult(facts) ==
  /\ phase = "live" /\ decision.action = Unset
  /\ \E q \in Requests :
       LET o == [p \in Predicates |-> IF p \in DOMAIN q THEN q[p] ELSE Stating(facts)[p]]
       IN  /\ observation' = o
           /\ decision' = Match(policy, o)
  /\ UNCHANGED <<position, blocks, policy, phase>>

(* A failed dial, on a direct egress or on a pool that may have dialed     *)
(* nothing. A failure the caller owns is not the matrix's to decide.       *)
DialFailed ==
  \E ctx \in Contexts, err \in Errors, exhausted \in BOOLEAN :
    LET f == ClassifyAttempt(ctx, err)
    IN  /\ ~f.callerTerminated
        /\ Consult(IF exhausted
                   THEN [class |-> "transport", transportCause |-> "no_eligible_endpoint",
                         transportClass |-> TransportClassOfCause("no_eligible_endpoint")]
                   ELSE [class |-> "transport", transportCause |-> f.cause,
                         transportClass |-> transportClassOf(f.class)])

ErrorAnswered ==
  \E a \in Answers :
    Consult([class |-> "http", status |-> a.status, statusClass |-> StatusClassOf[a.status],
             errorType |-> a.type, errorCode |-> a.code])

AnswerUnusable ==
  \E c \in {"invalid_response", "oversized_response", "body_read_failed", "body_timeout"} :
    Consult([class |-> "protocol", protocolCause |-> c])

PoolCooling == Consult([class |-> "credential", credentialCause |-> "cooldown"])

Next ==
  \/ FoldLayer \/ SkipLayer \/ Freeze
  \/ DialFailed \/ ErrorAnswered \/ AnswerUnusable \/ PoolCooling

Spec == Init /\ [][Next]_vars
---------------------------------------------------------------------------
(* Properties. *)

(* The rows a file declares: each identity as the last layer states it,    *)
(* from the built-in matrix on, whatever the order within a layer.         *)
DeclaredRows ==
  LET stated == <<DefaultRules>> \o [i \in DOMAIN blocks |-> buildRecoveryMatrix(blocks[i])]
      RowsIn(k) == {stated[k][j] : j \in DOMAIN stated[k]}
  IN  UNION {{r \in RowsIn(k) : \A l \in k + 1 .. Len(stated) :
                                  \A s \in RowsIn(l) : s.id # r.id} : k \in DOMAIN stated}

DeclaredDefault ==
  LET statesDefault == {i \in DOMAIN blocks : blocks[i].default # {}}
  IN  IF statesDefault = {} THEN "terminal"
      ELSE Stated(blocks[CHOOSE i \in statesDefault : \A j \in statesDefault : j <= i].default, Unset)

(* The decision for a failure is a function of what the file declares: one *)
(* row is the most specific of those that match, and it decides; neither   *)
(* rule names, nor their order, nor the layer a row came from has a say    *)
(* (NewMatrix, overlaps, sortRules, mergeMatrix and Match together). What  *)
(* overlaps may assume of a failure is what the classification of real     *)
(* errors gives.                                                           *)
DecisionIsDeclared ==
  decision.action # Unset =>
    LET hits == {r \in DeclaredRows : matches(r.match, observation)}
        top == {r \in hits : \A s \in hits : Specificity(s.match) <= Specificity(r.match)}
    IN  IF hits = {} THEN decision = [action |-> DeclaredDefault, id |-> Unset]
        ELSE \E r \in top : top = {r} /\ decision = [action |-> r.action, id |-> r.id]

(* A block that only throws the switches it may throw in its position: no  *)
(* bound, no rule.                                                         *)
SwitchOnly(b, where) ==
  /\ b.shorthand = {} /\ b.rules = <<>>
  /\ b.fallback.max = {} /\ b.stream.max = {} /\ Silent(b.legacy)
  /\ WellPlaced(b, where)

(* Throwing a switch is never rejected for a bound the operator did not    *)
(* write: whatever the layers above left, a block that only enables or     *)
(* disables the walk or stream recovery is accepted (Merge, Validate).     *)
SwitchNeverContradicts ==
  phase = "rejected" => ~SwitchOnly(blocks[Len(blocks)], Positions[position - 1])
=============================================================================
