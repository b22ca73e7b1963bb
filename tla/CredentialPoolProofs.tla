------------------------ MODULE CredentialPoolProofs ------------------------
(***************************************************************************)
(* The credential pool hands no key out early, rotates fairly and asks for *)
(* waits that are enough, for every number of requests, keys and           *)
(* publishes. The properties speak of steps and of history; RestInv,       *)
(* RotationInv and PromiseInv say what the pool's own state remembers of   *)
(* that history.                                                           *)
(***************************************************************************)
EXTENDS CredentialPool, TLAPS

(* The registry makes a new instance only after a publish dropped one. *)
RegistryInv == made <= publishes + (IF pools = NoInstance THEN 0 ELSE 1)

(* Readings lie in the past, a key rests as long as the strongest report   *)
(* asked for, and no longer than the ceiling.                              *)
RestInv ==
  /\ \A r \in Requests : now[r] <= clock
  /\ strongest = cooling
  /\ KeyComesBack

(* Until the first rate limit the round is exactly the keys before the     *)
(* cursor.                                                                 *)
RotationInv ==
  \A s \in Instances : Unmarked(s) => round[s] = {k \in Keys : k < cursor[s]}

(* A promise in force: some key is ready at the promised time, which the   *)
(* request reaches before it asks again.                                   *)
Kept(r) ==
  promised[r] =>
    /\ pc[r] \in {"wait", "attempt", "acquire"}
    /\ \E k \in Keys : cooling[inst[r]][k] <= ready[r]
    /\ pc[r] = "attempt" => clock >= ready[r]
    /\ pc[r] = "acquire" => now[r] >= ready[r]

PromiseInv == \A r \in Requests : Kept(r)

(* The initial state satisfies all of them. *)
LEMMA CredentialInit ==
  Init => TypeOK /\ RegistryInv /\ RestInv /\ RotationInv /\ PromiseInv
<1> SUFFICES ASSUME Init PROVE TypeOK /\ RegistryInv /\ RestInv /\ RotationInv /\ PromiseInv
  OBVIOUS
<1> USE CredentialAssumption DEF Init
<1>1. 0 \in Keys /\ NoKey \notin Keys
  BY DEF Keys, NoKey
<1>2. TypeOK
  BY <1>1 DEF TypeOK, PCs, Instances, NoInstance
<1>3. RegistryInv
  BY DEF RegistryInv, NoInstance
<1>4. RestInv
  BY DEF RestInv, KeyComesBack, Keys
<1>5. RotationInv
  BY DEF RotationInv, Keys
<1>6. PromiseInv
  BY DEF PromiseInv, Kept
<1> QED
  BY <1>2, <1>3, <1>4, <1>5, <1>6

(* A cooldown is positive and under the ceiling. *)
LEMMA CooldownFacts ==
  ASSUME NEW d \in Directives
  PROVE  CredentialCooldown(d) \in Nat \ {0} /\ CredentialCooldown(d) <= MaxCooldown
BY CredentialAssumption DEF CredentialCooldown

(* The cursor wraps. *)
LEMMA Wraps ==
  ASSUME NEW k \in Keys
  PROVE  (k + 1) % NKeys \in Keys
BY CredentialAssumption DEF Keys

(* Every step preserves the types and the registry's count. *)
LEMMA CredentialTypeStep ==
  TypeOK /\ RegistryInv /\ [Next]_vars => (TypeOK /\ RegistryInv)'
<1> SUFFICES ASSUME TypeOK, RegistryInv, [Next]_vars PROVE (TypeOK /\ RegistryInv)'
  OBVIOUS
<1> USE CredentialAssumption
    DEF TypeOK, RegistryInv, PCs, Instances, NoInstance, registry, rotation, marks, locals, Go,
        Used
<1>1. ASSUME NEW r \in Requests, Accept(r) PROVE (TypeOK /\ RegistryInv)'
  BY <1>1 DEF Accept
<1>2. ASSUME NEW r \in Requests, Pool(r) PROVE (TypeOK /\ RegistryInv)'
  <2>1. pools' \in Instances /\ made' \in Instances \cup {0} /\ RegistryInv'
    <3>1. CASE pools # NoInstance
      BY <1>2, <3>1 DEF Pool
    <3>2. CASE pools = NoInstance
      <4>1. made \in Nat /\ publishes \in Nat /\ made <= publishes /\ publishes <= MaxPublishes
        BY <3>2
      <4>2. made' = made + 1 /\ pools' = made + 1 /\ publishes' = publishes
        BY <1>2, <3>2 DEF Pool
      <4> QED
        BY <4>1, <4>2
    <3> QED
      BY <3>1, <3>2
  <2> QED
    BY <1>2, <2>1 DEF Pool
<1>3. ASSUME NEW r \in Requests, ReadClock(r) PROVE (TypeOK /\ RegistryInv)'
  BY <1>3 DEF ReadClock
<1>4. ASSUME NEW r \in Requests, AcquireSame(r) PROVE (TypeOK /\ RegistryInv)'
  BY <1>4 DEF AcquireSame
<1>5. ASSUME NEW r \in Requests, AcquireNext(r) PROVE (TypeOK /\ RegistryInv)'
  <2>1. PICK k \in Keys :
          /\ credKey' = [credKey EXCEPT ![r] = k]
          /\ cursor' = [cursor EXCEPT ![inst[r]] = (k + 1) % NKeys]
          /\ round' = [round EXCEPT ![inst[r]] = Rotated(inst[r], k)]
    BY <1>5 DEF AcquireNext
  <2>2. (k + 1) % NKeys \in Keys
    BY Wraps
  <2>3. Rotated(inst[r], k) \in SUBSET Keys
    BY <1>5 DEF AcquireNext, Rotated
  <2>4. cursor' \in [Instances -> Keys] /\ round' \in [Instances -> SUBSET Keys]
        /\ credKey' \in [Requests -> Keys \cup {NoKey}]
    BY <2>1, <2>2, <2>3
  <2> QED
    BY <1>5, <2>1, <2>4 DEF AcquireNext
<1>6. ASSUME NEW r \in Requests, AcquireRefused(r) PROVE (TypeOK /\ RegistryInv)'
  BY <1>6 DEF AcquireRefused
<1>7. ASSUME NEW r \in Requests, NextReady(r) PROVE (TypeOK /\ RegistryInv)'
  <2>0. inst[r] \in Instances
    BY <1>7 DEF NextReady
  <2>1. now[r] \in Nat /\ \A k \in Keys : cooling[inst[r]][k] \in Nat
    BY <2>0
  <2>2. PICK t \in Nat : ready' = [ready EXCEPT ![r] = t]
    BY <1>7, <2>1 DEF NextReady
  <2> QED
    BY <1>7, <2>2 DEF NextReady
<1>8. ASSUME NEW r \in Requests, WaitOver(r) PROVE (TypeOK /\ RegistryInv)'
  BY <1>8 DEF WaitOver
<1>9. ASSUME NEW r \in Requests, RateLimited(r) \/ AttemptFails(r)
      PROVE  (TypeOK /\ RegistryInv)'
  BY <1>9 DEF RateLimited, AttemptFails
<1>10. ASSUME NEW r \in Requests, MarkRateLimited(r) PROVE (TypeOK /\ RegistryInv)'
  <2>1. PICK d \in Directives :
          LET deadline == now[r] + CredentialCooldown(d)
          IN  /\ cooling' = Marked(inst[r], credKey[r], deadline)
              /\ strongest' = [strongest EXCEPT ![inst[r]][credKey[r]] = Later(@, deadline)]
    BY <1>10 DEF MarkRateLimited
  <2>2. now[r] + CredentialCooldown(d) \in Nat
    BY CooldownFacts
  <2>3. inst[r] \in Instances /\ credKey[r] \in Keys
    BY <1>10 DEF MarkRateLimited
  <2>4. ASSUME NEW f \in [Instances -> [Keys -> Nat]], NEW n \in Nat
        PROVE  [f EXCEPT ![inst[r]][credKey[r]] = Later(@, n)] \in [Instances -> [Keys -> Nat]]
    <3>1. Later(f[inst[r]][credKey[r]], n) \in Nat
      BY <2>3 DEF Later
    <3> QED
      BY <2>3, <3>1
  <2>6. cooling' \in [Instances -> [Keys -> Nat]] /\ strongest' \in [Instances -> [Keys -> Nat]]
    BY <2>1, <2>2, <2>4 DEF Marked
  <2>5. promised' \in [Requests -> BOOLEAN]
    BY <1>10, Zenon DEF MarkRateLimited
  <2> QED
    BY <1>10, <2>6, <2>5 DEF MarkRateLimited
<1>11. ASSUME NEW r \in Requests, Leave(r) PROVE (TypeOK /\ RegistryInv)'
  BY <1>11 DEF Leave
<1>12. CASE Publish
  <2>1. active' \in BOOLEAN
    BY <1>12, Zenon DEF Publish
  <2>2. publishes' \in 0..MaxPublishes /\ pools' \in Instances \cup {NoInstance}
        /\ RegistryInv'
    BY <1>12 DEF Publish
  <2> QED
    BY <1>12, <2>1, <2>2 DEF Publish
<1>13. CASE Tick
  BY <1>13 DEF Tick
<1>14. CASE UNCHANGED vars
  BY <1>14 DEF vars
<1> QED
  BY <1>1, <1>2, <1>3, <1>4, <1>5, <1>6, <1>7, <1>8, <1>9, <1>10, <1>11, <1>12, <1>13,
     <1>14
  DEF Next, RequestStep

(* The type invariant holds. *)
THEOREM CredentialTypeCorrect == Spec => []TypeOK
<1>1. Spec => [](TypeOK /\ RegistryInv)
  BY CredentialInit, CredentialTypeStep, PTL DEF Spec
<1> QED
  BY <1>1, PTL

-----------------------------------------------------------------------------
(* What a mark does: one deadline is raised in both records alike, to at   *)
(* most the ceiling from now, and the key is marked.                       *)
LEMMA MarkFacts ==
  ASSUME TypeOK, RestInv, NEW r \in Requests, MarkRateLimited(r)
  PROVE  /\ inst[r] \in Instances
         /\ ~Unmarked(inst[r])'
         /\ strongest' = cooling'
         /\ \A s \in Instances, k \in Keys : cooling'[s][k] <= clock + MaxCooldown
         /\ \A s \in Instances : s # inst[r] => cooling'[s] = cooling[s]
<1>1. PICK d \in Directives :
        LET deadline == now[r] + CredentialCooldown(d)
        IN  /\ cooling' = Marked(inst[r], credKey[r], deadline)
            /\ strongest' = [strongest EXCEPT ![inst[r]][credKey[r]] = Later(@, deadline)]
  BY DEF MarkRateLimited
<1> DEFINE deadline == now[r] + CredentialCooldown(d)
<1>2. inst[r] \in Instances /\ credKey[r] \in Keys
  BY DEF MarkRateLimited, TypeOK
<1>3. deadline \in Nat /\ deadline > 0 /\ deadline <= clock + MaxCooldown
  <2>1. now[r] \in Nat /\ clock \in Nat /\ now[r] <= clock
    BY DEF TypeOK, RestInv
  <2>2. CredentialCooldown(d) \in Nat \ {0} /\ CredentialCooldown(d) <= MaxCooldown
    BY CooldownFacts
  <2> QED
    BY <2>1, <2>2, CredentialAssumption
<1> HIDE DEF deadline
<1>4. cooling' = [cooling EXCEPT ![inst[r]][credKey[r]] = Later(@, deadline)]
  BY <1>1 DEF Marked, deadline
<1>5. strongest' = cooling'
  BY <1>1, <1>4 DEF RestInv, deadline
<1>6. cooling'[inst[r]][credKey[r]] = Later(cooling[inst[r]][credKey[r]], deadline)
  BY <1>2, <1>4 DEF TypeOK
<1>7. ~Unmarked(inst[r])'
  <2>1. cooling'[inst[r]][credKey[r]] # 0
    BY <1>2, <1>3, <1>6 DEF Later, TypeOK
  <2>2. inst' = inst
    BY DEF MarkRateLimited
  <2> QED
    BY <1>2, <1>5, <2>1, <2>2 DEF Unmarked
<1>8. ASSUME NEW s \in Instances, NEW k \in Keys
      PROVE  cooling'[s][k] <= clock + MaxCooldown
  <2>1. CASE s = inst[r] /\ k = credKey[r]
    BY <1>2, <1>3, <1>6, <2>1 DEF Later, RestInv, KeyComesBack, TypeOK
  <2>2. CASE ~(s = inst[r] /\ k = credKey[r])
    <3>1. cooling'[s][k] = cooling[s][k]
      BY <1>2, <1>4, <2>2 DEF TypeOK
    <3> QED
      BY <3>1 DEF RestInv, KeyComesBack
  <2> QED
    BY <2>1, <2>2
<1>9. ASSUME NEW s \in Instances, s # inst[r] PROVE cooling'[s] = cooling[s]
  BY <1>4, <1>9 DEF TypeOK
<1> QED
  BY <1>2, <1>5, <1>7, <1>8, <1>9

(* Only the two successful branches of Acquire hand a key out. *)
LEMMA HandedBy ==
  ASSUME TypeOK, [Next]_vars, NEW r \in Requests, Hands(r)
  PROVE  AcquireSame(r) \/ AcquireNext(r)
<1> USE DEF Hands, TypeOK
<1>1. ASSUME NEW q \in Requests, RequestStep(q) PROVE AcquireSame(r) \/ AcquireNext(r)
  <2>1. \E to : pc' = [pc EXCEPT ![q] = to]
    BY <1>1 DEF RequestStep, Accept, Pool, ReadClock, AcquireSame, AcquireNext,
         AcquireRefused, NextReady, WaitOver, RateLimited, AttemptFails, MarkRateLimited,
         Leave, Go
  <2>2. q = r
    BY <2>1
  <2> QED
    BY <1>1, <2>2 DEF RequestStep, Accept, Pool, ReadClock, AcquireRefused, NextReady,
       WaitOver, RateLimited, AttemptFails, MarkRateLimited, Leave, Go
<1>2. CASE Publish \/ Tick \/ UNCHANGED vars
  BY <1>2 DEF Publish, Tick, vars
<1> QED
  BY <1>1, <1>2 DEF Next

(* No other step touches a mark. *)
LEMMA OnlyMarks ==
  ASSUME [Next]_vars, \A r \in Requests : ~MarkRateLimited(r)
  PROVE  cooling' = cooling /\ strongest' = strongest
BY DEF Next, RequestStep, Accept, Pool, ReadClock, AcquireSame, AcquireNext, AcquireRefused,
       NextReady, WaitOver, RateLimited, AttemptFails, Leave, Publish, Tick, vars, marks

(* Clock readings stay in the past. *)
LEMMA ReadingsPast ==
  ASSUME TypeOK, \A r \in Requests : now[r] <= clock, [Next]_vars
  PROVE  clock <= clock' /\ clock' \in Nat /\ \A r \in Requests : now'[r] <= clock'
<1> USE DEF TypeOK
<1>1. ASSUME NEW r \in Requests, RequestStep(r)
      PROVE  clock' = clock /\ \A q \in Requests : now'[q] <= clock'
  <2>1. clock' = clock
    BY <1>1 DEF RequestStep, Accept, Pool, ReadClock, AcquireSame, AcquireNext,
         AcquireRefused, NextReady, WaitOver, RateLimited, AttemptFails, MarkRateLimited, Leave
  <2>2. \/ now' = now
        \/ now' = [now EXCEPT ![r] = clock]
        \/ now' = [now EXCEPT ![r] = 0]
    BY <1>1 DEF RequestStep, Accept, Pool, ReadClock, AcquireSame, AcquireNext,
         AcquireRefused, NextReady, WaitOver, RateLimited, AttemptFails, MarkRateLimited, Leave,
         Used, locals
  <2> QED
    BY <2>1, <2>2
<1>2. CASE Publish \/ Tick \/ UNCHANGED vars
  BY <1>2 DEF Publish, Tick, vars, locals
<1> QED
  BY <1>1, <1>2 DEF Next

(* Every step keeps the keys at rest. *)
LEMMA RestStep == TypeOK /\ RestInv /\ [Next]_vars => RestInv'
<1> SUFFICES ASSUME TypeOK, RestInv, [Next]_vars PROVE RestInv'
  OBVIOUS
<1>1. clock <= clock' /\ clock' \in Nat /\ \A r \in Requests : now'[r] <= clock'
  BY ReadingsPast DEF RestInv
<1>2. CASE \E r \in Requests : MarkRateLimited(r)
  <2>1. PICK r \in Requests : MarkRateLimited(r)
    BY <1>2
  <2>2. clock' = clock
    BY <2>1 DEF MarkRateLimited
  <2> QED
    BY <1>1, <2>1, <2>2, MarkFacts DEF RestInv, KeyComesBack
<1>3. CASE \A r \in Requests : ~MarkRateLimited(r)
  <2>1. ASSUME NEW s \in Instances, NEW k \in Keys
        PROVE  cooling[s][k] <= clock' + MaxCooldown
    BY <1>1, CredentialAssumption DEF RestInv, KeyComesBack, TypeOK
  <2> QED
    BY <1>1, <1>3, <2>1, OnlyMarks DEF RestInv, KeyComesBack
<1> QED
  BY <1>2, <1>3

(* The pool's state is at rest for ever. *)
LEMMA RestInvariant == Spec => [](TypeOK /\ RegistryInv /\ RestInv)
BY CredentialInit, CredentialTypeStep, RestStep, PTL DEF Spec

(* A key is at most the provider's max-cooldown away from being ready. *)
THEOREM CredentialKeyComesBack == Spec => []KeyComesBack
BY RestInvariant, PTL DEF RestInv

(* A key is handed out only past the latest deadline any request reported. *)
THEOREM CredentialNoEarlyReuse == Spec => NoEarlyReuse
<1>1. TypeOK /\ RestInv /\ [Next]_vars =>
        [\A r \in Requests :
           Hands(r) => now[r] >= strongest[inst[r]][credKey'[r]]]_vars
  <2> SUFFICES ASSUME TypeOK, RestInv, [Next]_vars, NEW r \in Requests, Hands(r)
               PROVE  now[r] >= strongest[inst[r]][credKey'[r]]
    OBVIOUS
  <2>1. AcquireSame(r) \/ AcquireNext(r)
    BY HandedBy
  <2>2. Ready(inst[r], credKey'[r], now[r])
    BY <2>1 DEF AcquireSame, AcquireNext, FirstReady, TypeOK
  <2> QED
    BY <2>2 DEF Ready, RestInv
<1> QED
  BY <1>1, RestInvariant, PTL DEF Spec, NoEarlyReuse

-----------------------------------------------------------------------------
(* Before the first mark every key is ready, and the rotation's next key   *)
(* is the one under the cursor.                                            *)
LEMMA UnmarkedNext ==
  ASSUME TypeOK, RestInv, NEW r \in Requests, inst[r] \in Instances, Unmarked(inst[r]),
         NEW k \in Keys, FirstReady(inst[r], k, now[r])
  PROVE  k = cursor[inst[r]]
<1> DEFINE c == cursor[inst[r]]
<1>1. c \in Keys
  BY DEF TypeOK
<1>2. Ready(inst[r], c, now[r])
  BY <1>1 DEF Ready, Unmarked, RestInv, TypeOK
<1>3. Offset(inst[r], c) = 0
  <2>1. c \in Int
    BY <1>1, CredentialAssumption DEF Keys
  <2>2. c - c + NKeys = NKeys
    BY <2>1, CredentialAssumption
  <2>3. NKeys % NKeys = 0
    BY CredentialAssumption
  <2> QED
    BY <2>2, <2>3 DEF Offset
<1>4. Offset(inst[r], k) <= 0
  BY <1>1, <1>2, <1>3 DEF FirstReady
<1> HIDE DEF c
<1>5. k \in 0..(NKeys - 1) /\ c \in 0..(NKeys - 1)
  BY <1>1 DEF Keys
<1>6. (k - c + NKeys) % NKeys <= 0
  BY <1>4 DEF Offset, c
<1> QED
  BY <1>5, <1>6, CredentialAssumption DEF c

(* Every step keeps the round in front of the cursor. *)
LEMMA RotationStep == TypeOK /\ RestInv /\ RotationInv /\ [Next]_vars => RotationInv'
<1> SUFFICES ASSUME TypeOK, RestInv, RotationInv, [Next]_vars PROVE RotationInv'
  OBVIOUS
<1>1. CASE \E r \in Requests : MarkRateLimited(r)
  <2>1. PICK r \in Requests : MarkRateLimited(r)
    BY <1>1
  <2>2. inst[r] \in Instances /\ ~Unmarked(inst[r])'
    BY <2>1, MarkFacts
  <2>3. inst' = inst /\ round' = round /\ cursor' = cursor
    BY <2>1 DEF MarkRateLimited, rotation
  <2>4. ASSUME NEW s \in Instances, s # inst[r] PROVE Unmarked(s)' => Unmarked(s)
    BY <2>1, <2>4, MarkFacts DEF Unmarked, RestInv
  <2> QED
    BY <2>2, <2>3, <2>4 DEF RotationInv
<1>2. CASE \E r \in Requests : AcquireNext(r)
  <2>1. PICK r \in Requests : AcquireNext(r)
    BY <1>2
  <2>2. PICK k \in Keys :
          /\ FirstReady(inst[r], k, now[r])
          /\ cursor' = [cursor EXCEPT ![inst[r]] = (k + 1) % NKeys]
          /\ round' = [round EXCEPT ![inst[r]] = Rotated(inst[r], k)]
    BY <2>1 DEF AcquireNext
  <2>3. inst[r] \in Instances /\ strongest' = strongest
    BY <2>1 DEF AcquireNext, TypeOK, marks
  <2>4. ASSUME Unmarked(inst[r])
        PROVE  Rotated(inst[r], k) = {j \in Keys : j < (k + 1) % NKeys}
    <3>1. k = cursor[inst[r]]
      BY <2>2, <2>3, <2>4, UnmarkedNext
    <3>2. round[inst[r]] = {j \in Keys : j < k}
      BY <2>3, <2>4, <3>1 DEF RotationInv
    <3>3. round[inst[r]] \cup {k} = {j \in Keys : j < k + 1}
      BY <3>2, CredentialAssumption DEF Keys
    <3>4. CASE k = NKeys - 1
      <4>1. round[inst[r]] \cup {k} = Keys
        BY <3>3, <3>4, CredentialAssumption DEF Keys
      <4>2. (k + 1) % NKeys = 0
        BY <3>4, CredentialAssumption
      <4>3. Rotated(inst[r], k) = {}
        BY <4>1 DEF Rotated
      <4> QED
        BY <4>2, <4>3 DEF Keys
    <3>5. CASE k # NKeys - 1
      <4>1. k + 1 \in Keys /\ (k + 1) % NKeys = k + 1
        BY <3>5, CredentialAssumption DEF Keys
      <4>2. round[inst[r]] \cup {k} # Keys
        BY <3>3, <4>1 DEF Keys
      <4>3. Rotated(inst[r], k) = round[inst[r]] \cup {k}
        BY <2>4, <4>2 DEF Rotated
      <4> QED
        BY <3>3, <4>1, <4>3
    <3> QED
      BY <3>4, <3>5
  <2>5. ASSUME NEW s \in Instances, Unmarked(s)'
        PROVE  round'[s] = {j \in Keys : j < cursor'[s]}
    <3>1. Unmarked(s)
      BY <2>3, <2>5 DEF Unmarked
    <3>2. CASE s = inst[r]
      <4>1. round'[s] = Rotated(inst[r], k) /\ cursor'[s] = (k + 1) % NKeys
        BY <2>2, <3>2 DEF TypeOK
      <4> QED
        BY <2>4, <3>1, <3>2, <4>1
    <3>3. CASE s # inst[r]
      <4>1. round'[s] = round[s] /\ cursor'[s] = cursor[s]
        BY <2>2, <3>3 DEF TypeOK
      <4> QED
        BY <3>1, <4>1 DEF RotationInv
    <3> QED
      BY <3>2, <3>3
  <2> QED
    BY <2>5 DEF RotationInv
<1>3. CASE \A r \in Requests : ~MarkRateLimited(r) /\ ~AcquireNext(r)
  <2>1. strongest' = strongest /\ round' = round /\ cursor' = cursor
    BY <1>3 DEF Next, RequestStep, Accept, Pool, ReadClock, AcquireSame, AcquireRefused,
         NextReady, WaitOver, RateLimited, AttemptFails, Leave, Publish, Tick, vars, marks,
         rotation
  <2> QED
    BY <2>1 DEF RotationInv, Unmarked
<1> QED
  BY <1>1, <1>2, <1>3

(* While nothing is rate limited, requests without a key go round all keys *)
(* before one is handed out again.                                         *)
THEOREM CredentialRotationFair == Spec => RotationFair
<1>1. TypeOK /\ RestInv /\ RotationInv /\ [Next]_vars =>
        [\A r \in Requests :
           Hands(r) /\ credKey[r] = NoKey /\ Unmarked(inst[r])
             => credKey'[r] \notin round[inst[r]]]_vars
  <2> SUFFICES ASSUME TypeOK, RestInv, RotationInv, [Next]_vars, NEW r \in Requests,
                      Hands(r), credKey[r] = NoKey, Unmarked(inst[r])
               PROVE  credKey'[r] \notin round[inst[r]]
    OBVIOUS
  <2>1. AcquireNext(r)
    BY HandedBy DEF AcquireSame
  <2>2. PICK k \in Keys : FirstReady(inst[r], k, now[r]) /\ credKey'[r] = k
    BY <2>1 DEF AcquireNext, TypeOK
  <2>3. inst[r] \in Instances
    BY DEF TypeOK, Hands
  <2>4. k = cursor[inst[r]]
    BY <2>2, <2>3, UnmarkedNext
  <2>5. ~(k < k)
    BY CredentialAssumption DEF Keys
  <2> QED
    BY <2>2, <2>3, <2>4, <2>5 DEF RotationInv
<1> QED
  BY <1>1, CredentialInit, CredentialTypeStep, RestStep, RotationStep, PTL
  DEF Spec, RotationFair

-----------------------------------------------------------------------------
(* Its own steps keep the promise to a request: NextReady gives one that   *)
(* some key can keep, and a request with a promise is never refused.       *)
LEMMA OwnStepKeeps ==
  ASSUME TypeOK, NEW r \in Requests, Kept(r), RequestStep(r), ~MarkRateLimited(r)
  PROVE  Kept(r)'
<1> USE DEF TypeOK, Kept, Go, Used, marks, locals
<1>1. CASE Accept(r) \/ Pool(r)
  BY <1>1 DEF Accept, Pool
<1>2. CASE ReadClock(r)
  BY <1>2 DEF ReadClock
<1>3. CASE AcquireSame(r) \/ AcquireNext(r) \/ Leave(r)
  <2>1. ~promised'[r]
    BY <1>3 DEF AcquireSame, AcquireNext, Leave
  <2> QED
    BY <2>1
<1>4. CASE AcquireRefused(r)
  <2>1. ~promised[r]
    <3> SUFFICES ASSUME promised[r] PROVE FALSE
      OBVIOUS
    <3>1. PICK k \in Keys : cooling[inst[r]][k] <= ready[r]
      OBVIOUS
    <3>2. now[r] >= ready[r] /\ ~(now[r] >= cooling[inst[r]][k])
      BY <1>4, <3>1 DEF AcquireRefused, Ready
    <3>3. inst[r] \in Instances
      BY <1>4 DEF AcquireRefused
    <3> QED
      BY <3>1, <3>2, <3>3
  <2> QED
    BY <1>4, <2>1 DEF AcquireRefused
<1>5. CASE NextReady(r)
  <2>1. inst[r] \in Instances /\ 0 \in Keys
    <3>1. inst[r] \in Instances
      BY <1>5 DEF NextReady
    <3>2. 0 \in Keys
      BY CredentialAssumption DEF Keys
    <3> QED
      BY <3>1, <3>2
  <2>2. \E k \in Keys : cooling[inst[r]][k] <= ready'[r]
    <3>1. CASE \E k \in Keys : ~Ready(inst[r], k, now[r]) /\ ready'[r] = cooling[inst[r]][k]
      BY <2>1, <3>1
    <3>2. CASE {k \in Keys : ~Ready(inst[r], k, now[r])} = {} /\ ready'[r] = now[r]
      <4>1. Ready(inst[r], 0, now[r])
        BY <2>1, <3>2
      <4> QED
        BY <2>1, <3>2, <4>1 DEF Ready
    <3> QED
      BY <1>5, <3>1, <3>2 DEF NextReady
  <2> QED
    BY <1>5, <2>2 DEF NextReady
<1>6. CASE WaitOver(r)
  BY <1>6 DEF WaitOver
<1>7. CASE RateLimited(r) \/ AttemptFails(r)
  BY <1>7 DEF RateLimited, AttemptFails
<1> QED
  BY <1>1, <1>2, <1>3, <1>4, <1>5, <1>6, <1>7 DEF RequestStep

(* A mark ends every promise made on the pool's instance, and no other.    *)
LEMMA MarkKeeps ==
  ASSUME TypeOK, RestInv, NEW q \in Requests, MarkRateLimited(q), NEW r \in Requests, Kept(r)
  PROVE  Kept(r)'
<1> SUFFICES ASSUME promised'[r] PROVE Kept(r)'
  BY DEF Kept
<1>1. promised[r] /\ inst[r] # inst[q]
  BY DEF MarkRateLimited
<1>2. r # q
  BY <1>1
<1>3. pc'[r] = pc[r] /\ now'[r] = now[r] /\ inst' = inst /\ ready' = ready /\ clock' = clock
  BY <1>2 DEF MarkRateLimited, Go, Used, TypeOK
<1>4. inst[r] \in Instances
  BY <1>1 DEF Kept, TypeOK
<1>5. cooling'[inst[r]] = cooling[inst[r]]
  BY <1>1, <1>4, MarkFacts
<1> QED
  BY <1>1, <1>3, <1>5 DEF Kept

(* Other requests, publishes and time keep it as well. *)
LEMMA OthersKeep ==
  ASSUME TypeOK, RestInv, [Next]_vars, \A q \in Requests : ~MarkRateLimited(q),
         NEW r \in Requests, Kept(r), ~RequestStep(r)
  PROVE  Kept(r)'
<1>1. cooling' = cooling
  BY OnlyMarks
<1>2. clock <= clock' /\ clock \in Nat /\ clock' \in Nat
  BY ReadingsPast DEF RestInv, TypeOK
<1>3. /\ pc'[r] = pc[r] /\ now'[r] = now[r] /\ inst'[r] = inst[r] /\ ready'[r] = ready[r]
      /\ promised'[r] = promised[r]
  <2>1. ASSUME NEW q \in Requests, RequestStep(q)
        PROVE  /\ pc'[r] = pc[r] /\ now'[r] = now[r] /\ inst'[r] = inst[r]
               /\ ready'[r] = ready[r] /\ promised'[r] = promised[r]
    <3>1. q # r
      BY <2>1
    <3> QED
      BY <2>1, <3>1 DEF RequestStep, Accept, Pool, ReadClock, AcquireSame, AcquireNext,
         AcquireRefused, NextReady, WaitOver, RateLimited, AttemptFails, Leave, Go, Used,
         locals, TypeOK
  <2>2. CASE Publish \/ Tick \/ UNCHANGED vars
    BY <2>2 DEF Publish, Tick, vars, locals
  <2> QED
    BY <2>1, <2>2 DEF Next
<1>4. ready[r] \in Nat
  BY DEF TypeOK
<1> QED
  BY <1>1, <1>2, <1>3, <1>4 DEF Kept

(* The wait the pool asks for is enough: after it, only a new rate limit   *)
(* refuses a request again.                                                *)
THEOREM CredentialWaitIsEnough == Spec => []WaitIsEnough
<1>1. TypeOK /\ RestInv /\ PromiseInv /\ [Next]_vars => PromiseInv'
  <2> SUFFICES ASSUME TypeOK, RestInv, PromiseInv, [Next]_vars, NEW r \in Requests
               PROVE  Kept(r)'
    BY DEF PromiseInv
  <2>1. Kept(r)
    BY DEF PromiseInv
  <2>2. CASE \E q \in Requests : MarkRateLimited(q)
    BY <2>1, <2>2, MarkKeeps
  <2>3. CASE \A q \in Requests : ~MarkRateLimited(q)
    BY <2>1, <2>3, OwnStepKeeps, OthersKeep
  <2> QED
    BY <2>2, <2>3
<1>2. PromiseInv => WaitIsEnough
  BY DEF PromiseInv, Kept, WaitIsEnough
<1> QED
  BY <1>1, <1>2, RestInvariant, CredentialInit, PTL DEF Spec
=============================================================================
