--------------------------- MODULE CredentialPool ---------------------------
(***************************************************************************)
(* One provider's credential pool and its registry entry                   *)
(* (internal/credential/state.go, registry.go; the seam in                 *)
(* internal/proxy/handler.go): concurrent requests rotate over the keys,   *)
(* cool a key down when an upstream answers 429, and ask when the first    *)
(* key is ready again; config publishes drop the pool and bring it back.   *)
(*                                                                         *)
(* Each operation reads the caller's clock BEFORE it takes the pool's      *)
(* mutex, so other requests act between the two.                           *)
(***************************************************************************)
EXTENDS Integers

CONSTANTS
  Requests,     \* slots: the requests that run at one time
  NKeys,        \* keys of the spec, in configuration order
  Cooldown,     \* rate-limit cooldown without a directive
  MaxCooldown,  \* ceiling of a directive's cooldown
  Directives,   \* Retry-After directives, 0 for none usable
  MaxClock,     \* bound on the clock
  MaxPublishes  \* bound on config publishes

Keys == 0..(NKeys - 1)
NoKey == -1

(* The loader rejects a policy that breaks these. *)
ASSUME CredentialAssumption ==
  /\ NKeys \in Nat \ {0}
  /\ Cooldown \in Nat \ {0} /\ MaxCooldown \in Nat /\ Cooldown <= MaxCooldown
  /\ Directives \subseteq Nat /\ MaxClock \in Nat /\ MaxPublishes \in Nat

(* Pool instances, numbered as the registry creates them. *)
Instances == 1..(MaxPublishes + 1)
NoInstance == 0

VARIABLES
  clock,
  active,     \* the published snapshot holds the provider
  publishes,  \* number of publishes so far
  pools,      \* the registry's instance under the provider's pool key
  made,       \* instances made
  cursor,     \* per instance
  cooling,    \* per instance and key: ready-at deadline, 0 if never marked
  pc, inst,   \* per request
  now,        \* the clock reading its next operation carries
  credKey,    \* the key its candidate's attempts go out with
  ready,      \* when its retry wait is over
  strongest,  \* history, per instance and key: the latest deadline reported
  round,      \* history, per instance: keys the rotation has handed out in this round
  promised    \* history: refused, has waited, and no key was marked since

vars == <<clock, active, publishes, pools, made, cursor, cooling, pc, inst, now, credKey,
          ready, strongest, round, promised>>

registry == <<active, publishes, pools, made>>
rotation == <<cursor, round>>
marks    == <<cooling, strongest>>
locals   == <<inst, now, credKey, ready, promised>>

PCs == {"idle", "accepted", "attempt", "acquire", "refused", "ask", "wait", "dial",
        "mark"}

Init ==
  /\ clock = 0 /\ active = TRUE /\ publishes = 0
  /\ pools = NoInstance /\ made = 0
  /\ cursor = [s \in Instances |-> 0]
  /\ cooling = [s \in Instances |-> [k \in Keys |-> 0]]
  /\ strongest = [s \in Instances |-> [k \in Keys |-> 0]]
  /\ round = [s \in Instances |-> {}]
  /\ pc = [r \in Requests |-> "idle"]
  /\ inst = [r \in Requests |-> NoInstance]
  /\ now = [r \in Requests |-> 0]
  /\ credKey = [r \in Requests |-> NoKey]
  /\ ready = [r \in Requests |-> 0]
  /\ promised = [r \in Requests |-> FALSE]

Go(r, to) == pc' = [pc EXCEPT ![r] = to]

(* A clock reading is an argument: gone when its operation returns. *)
Used(r) == now' = [now EXCEPT ![r] = 0]

-----------------------------------------------------------------------------
(* A request whose snapshot holds the provider. *)
Accept(r) ==
  /\ pc[r] = "idle"
  /\ active
  /\ Go(r, "accepted")
  /\ UNCHANGED <<clock, registry, rotation, marks, locals>>

(* Registry.Pool, once per candidate: get or create, whatever the current  *)
(* snapshot holds; the candidate starts without a key of its own.          *)
Pool(r) ==
  /\ pc[r] = "accepted"
  /\ Go(r, "attempt")
  /\ IF pools # NoInstance THEN UNCHANGED <<pools, made>>
     ELSE made' = made + 1 /\ pools' = made + 1
  /\ inst' = [inst EXCEPT ![r] = pools']
  /\ credKey' = [credKey EXCEPT ![r] = NoKey]
  /\ UNCHANGED <<clock, active, publishes, rotation, marks, now, ready, promised>>

(* The argument of the operation that follows, Acquire or NextReady. *)
ReadClock(r) ==
  /\ \/ pc[r] = "attempt" /\ Go(r, "acquire")
     \/ pc[r] = "refused" /\ Go(r, "ask")
  /\ now' = [now EXCEPT ![r] = clock]
  /\ UNCHANGED <<clock, registry, rotation, marks, inst, credKey, ready, promised>>

(* Mutant: a key is still cooling at its very deadline. *)
ReadyStrict(s, k, t) == t > cooling[s][k] \/ cooling[s][k] = 0

Ready(s, k, t) == t >= cooling[s][k]

Offset(s, k) == (k - cursor[s] + NKeys) % NKeys

(* The first ready key from the cursor on. *)
FirstReady(s, k, t) ==
  /\ Ready(s, k, t)
  /\ \A j \in Keys : Ready(s, j, t) => Offset(s, k) <= Offset(s, j)

(* No key of the pool has been rate limited yet. *)
Unmarked(s) == \A k \in Keys : strongest[s][k] = 0

(* The history of the rotation up to the first rate limit: a round is over *)
(* when every key has been in it.                                          *)
Rotated(s, k) ==
  IF ~Unmarked(s) \/ round[s] \cup {k} = Keys THEN {} ELSE round[s] \cup {k}

(* Mutant: handing a retry its own key back moves the rotation. *)
AcquireSameMovesCursor(r) ==
  /\ pc[r] = "acquire"
  /\ credKey[r] # NoKey /\ Ready(inst[r], credKey[r], now[r])
  /\ Go(r, "dial") /\ Used(r)
  /\ cursor' = [cursor EXCEPT ![inst[r]] = (credKey[r] + 1) % NKeys]
  /\ promised' = [promised EXCEPT ![r] = FALSE]
  /\ UNCHANGED <<clock, registry, round, marks, inst, credKey, ready>>

(* Acquire with a preferred key that is ready: it is kept, and the cursor  *)
(* stays.                                                                  *)
AcquireSame(r) ==
  /\ pc[r] = "acquire"
  /\ credKey[r] # NoKey /\ Ready(inst[r], credKey[r], now[r])
  /\ Go(r, "dial") /\ Used(r)
  /\ promised' = [promised EXCEPT ![r] = FALSE]
  /\ UNCHANGED <<clock, registry, rotation, marks, inst, credKey, ready>>

(* Acquire otherwise: the rotation hands out its next ready key. *)
AcquireNext(r) ==
  /\ pc[r] = "acquire"
  /\ ~(credKey[r] # NoKey /\ Ready(inst[r], credKey[r], now[r]))
  /\ \E k \in Keys :
       /\ FirstReady(inst[r], k, now[r])
       /\ credKey' = [credKey EXCEPT ![r] = k]
       /\ cursor' = [cursor EXCEPT ![inst[r]] = (k + 1) % NKeys]
       /\ round' = [round EXCEPT ![inst[r]] = Rotated(inst[r], k)]
  /\ Go(r, "dial") /\ Used(r)
  /\ promised' = [promised EXCEPT ![r] = FALSE]
  /\ UNCHANGED <<clock, registry, marks, inst, ready>>

(* Acquire with every key cooling. *)
AcquireRefused(r) ==
  /\ pc[r] = "acquire"
  /\ \A k \in Keys : ~Ready(inst[r], k, now[r])
  /\ Go(r, "refused") /\ Used(r)
  /\ UNCHANGED <<clock, registry, rotation, marks, inst, credKey, ready, promised>>

(* NextReady: the earliest deadline among the keys still cooling, or none. *)
(* It becomes the floor of the retry wait.                                 *)
NextReady(r) ==
  /\ pc[r] = "ask"
  /\ LET s == inst[r]
         Cooling == {k \in Keys : ~Ready(s, k, now[r])}
     IN  \/ /\ Cooling = {}
            /\ ready' = [ready EXCEPT ![r] = now[r]]
         \/ \E k \in Cooling :
              /\ \A j \in Cooling : cooling[s][k] <= cooling[s][j]
              /\ ready' = [ready EXCEPT ![r] = cooling[s][k]]
  /\ Go(r, "wait") /\ Used(r)
  /\ promised' = [promised EXCEPT ![r] = TRUE]
  /\ UNCHANGED <<clock, registry, rotation, marks, inst, credKey>>

(* The wait is over, or the retry window cut it; or the request has no     *)
(* retry left, or no caller (Leave).                                       *)
WaitOver(r) ==
  /\ pc[r] = "wait"
  /\ Go(r, "attempt")
  /\ promised' = [promised EXCEPT ![r] = @ /\ clock >= ready[r]]
  /\ UNCHANGED <<clock, registry, rotation, marks, inst, now, credKey, ready>>

-----------------------------------------------------------------------------
(* The upstream answers 429 and the handler reads its clock for the mark ... *)
RateLimited(r) ==
  /\ pc[r] = "dial"
  /\ Go(r, "mark")
  /\ now' = [now EXCEPT ![r] = clock]
  /\ UNCHANGED <<clock, registry, rotation, marks, inst, credKey, ready, promised>>

(* ... or the attempt fails otherwise; a retry will prefer the same key.   *)
AttemptFails(r) ==
  /\ pc[r] = "dial"
  /\ Go(r, "attempt")
  /\ UNCHANGED <<clock, registry, rotation, marks, locals>>

(* Mutant: an upstream's directive is taken as it is. *)
CredentialCooldownUncapped(directive) == IF directive = 0 THEN Cooldown ELSE directive

CredentialCooldown(directive) ==
  IF directive = 0 THEN Cooldown
  ELSE IF directive > MaxCooldown THEN MaxCooldown ELSE directive

Later(a, b) == IF a > b THEN a ELSE b

(* Mutant: the last answer wins. *)
MarkedLast(s, k, deadline) == [cooling EXCEPT ![s][k] = deadline]

(* A mark never shortens an existing deadline. *)
Marked(s, k, deadline) == [cooling EXCEPT ![s][k] = Later(@, deadline)]

MarkRateLimited(r) ==
  /\ pc[r] = "mark"
  /\ \E directive \in Directives :
       LET deadline == now[r] + CredentialCooldown(directive)
       IN  /\ cooling' = Marked(inst[r], credKey[r], deadline)
           /\ strongest' = [strongest EXCEPT ![inst[r]][credKey[r]] = Later(@, deadline)]
  /\ Go(r, "attempt") /\ Used(r)
  /\ promised' = [q \in Requests |-> promised[q] /\ inst[q] # inst[r]]
  /\ UNCHANGED <<clock, registry, rotation, inst, credKey, ready>>

(* The candidate has answered, or is left, spent or abandoned; a 429 is    *)
(* marked before any of that.                                              *)
Leave(r) ==
  /\ pc[r] \in {"dial", "attempt", "wait"}
  /\ Go(r, "idle")
  /\ inst' = [inst EXCEPT ![r] = NoInstance]
  /\ credKey' = [credKey EXCEPT ![r] = NoKey]
  /\ ready' = [ready EXCEPT ![r] = 0]
  /\ promised' = [promised EXCEPT ![r] = FALSE]
  /\ UNCHANGED <<clock, registry, rotation, marks, now>>

-----------------------------------------------------------------------------
(* A publish without the provider: Retain drops the entry. Requests that   *)
(* hold the pool keep it. A publish with it again changes nothing.         *)
Publish ==
  /\ publishes < MaxPublishes
  /\ publishes' = publishes + 1
  /\ active' = ~active
  /\ pools' = IF active THEN NoInstance ELSE pools
  /\ UNCHANGED <<clock, made, rotation, marks, pc, locals>>

Tick ==
  /\ clock < MaxClock
  /\ clock' = clock + 1
  /\ UNCHANGED <<registry, rotation, marks, pc, locals>>

RequestStep(r) ==
  \/ Accept(r) \/ Pool(r) \/ ReadClock(r)
  \/ AcquireSame(r) \/ AcquireNext(r) \/ AcquireRefused(r) \/ NextReady(r) \/ WaitOver(r)
  \/ RateLimited(r) \/ AttemptFails(r) \/ MarkRateLimited(r) \/ Leave(r)

Next == (\E r \in Requests : RequestStep(r)) \/ Publish \/ Tick

Spec == Init /\ [][Next]_vars
-----------------------------------------------------------------------------
(* The pool keeps its types: the cursor stays an index of the key list     *)
(* (state.go, Acquire), and a request past Acquire holds a key of its pool. *)
TypeOK ==
  /\ clock \in Nat /\ active \in BOOLEAN /\ publishes \in 0..MaxPublishes
  /\ pools \in Instances \cup {NoInstance} /\ made \in Instances \cup {0}
  /\ cursor \in [Instances -> Keys] /\ round \in [Instances -> SUBSET Keys]
  /\ cooling \in [Instances -> [Keys -> Nat]]
  /\ strongest \in [Instances -> [Keys -> Nat]]
  /\ pc \in [Requests -> PCs] /\ inst \in [Requests -> Instances \cup {NoInstance}]
  /\ now \in [Requests -> Nat] /\ ready \in [Requests -> Nat]
  /\ credKey \in [Requests -> Keys \cup {NoKey}] /\ promised \in [Requests -> BOOLEAN]
  /\ \A r \in Requests :
       /\ pc[r] \notin {"idle", "accepted"} => inst[r] \in Instances
       /\ pc[r] \in {"dial", "mark"} => credKey[r] \in Keys

(* A request is handed a key. *)
Hands(r) == pc[r] = "acquire" /\ pc'[r] = "dial"

(* No account is asked before it said it was ready (state.go,              *)
(* MarkRateLimited): whatever order concurrent requests report 429s in,    *)
(* and however old their clock readings are, a key is handed out only past *)
(* the latest deadline any of them reported.                               *)
NoEarlyReuse ==
  [][\A r \in Requests :
       Hands(r) => now[r] >= strongest[inst[r]][credKey'[r]]]_vars

(* Rotation is fair (state.go, Acquire): while nothing is rate limited,    *)
(* requests that come without a key go round all keys before one is handed *)
(* out again, whatever retries take in between.                            *)
RotationFair ==
  [][\A r \in Requests :
       Hands(r) /\ credKey[r] = NoKey /\ Unmarked(inst[r])
         => credKey'[r] \notin round[inst[r]]]_vars

(* No upstream keeps a key out of rotation (proxy/credential.go): a key is *)
(* at most the provider's max-cooldown away from being ready.              *)
KeyComesBack ==
  \A s \in Instances, k \in Keys : cooling[s][k] <= clock + MaxCooldown

(* The wait the pool asks for is enough (state.go, NextReady against       *)
(* Acquire): a request that was refused, has waited until the time it was  *)
(* told and is refused again, is refused because of a new rate limit.      *)
WaitIsEnough == \A r \in Requests : ~(pc[r] = "refused" /\ promised[r])
=============================================================================
