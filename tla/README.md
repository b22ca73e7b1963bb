# A TLA+ verification of openai-compatible-injector

The injector is a reverse proxy for OpenAI- and Anthropic-compatible APIs. A
client names a public model; the proxy rewrites the request and walks the
model's chain of provider candidates, with retries, credential rotation and
egress pools, under one budget, until it has one answer to relay. Around that
walk stand a hot-reloaded configuration, an authentication cache, a metering
pipeline and an ordered shutdown.

This directory holds TLA+ models of the parts whose correctness depends on
ordering, concurrency, budgets and failure, the TLC configurations that check
them on small instances, and TLAPS proofs for every value of the constants.
`PROJECT.json` is the index: components, runs, the source lines behind every
definition, the hazards and the theorems. Paths below are relative to `src/`.

## How to run it

    tlc -workers 2 -config RecoveryWalk.cfg MCRecoveryWalk
    tlapm RecoveryWalkProofs.tla

## Inventory

| Component | State it keeps | Operations | Shared with |
|---|---|---|---|
| exchange budget (`internal/recovery/budget.go`) | exchanges used and start time, of the request and of the candidate | NewBudget, BeginCandidate, AcquireExchange, Exhausted, RemainingElapsed | the walk, the egress pool and the dial window of one request, under a mutex |
| recovery engine (`internal/recovery/engine.go`, `backoff.go`) | candidates entered, the policy in scope, when its candidate was entered | EnterCandidate, Observe, CandidateSpent | one request |
| recovery matrix (`matrix.go`, `rule.go`, `merge.go`, `resolve.go`, `internal/config/recovery.go`) | immutable rules and switches, per candidate | Match, overlap check, merge of layers | config snapshot |
| provider walk (`internal/proxy/handler.go`, `serve`) | candidate, attempt and retry counters, retained and committed answer, completion record | the loop over candidates and attempts, the wait, the answer after the walk | one goroutine; client context, clock |
| egress pool (`internal/transport/pool.go`) | per member: permits, failures, cooldown; cursor or weighted credit; leases | Execute, selectInitial, release, begin/end | every request of every snapshot that holds the pool |
| transport registry (`internal/transport/registry.go`) | doers and pool states by identity | Doer, Retain, retirePool, finishRetire | requests and the config poller |
| dial window (`internal/transport/transport.go`) | one verdict of the dial's goroutine, its timer and the caller | DialWithin, HandoffStream, windowedBody | two goroutines and a timer per exchange |
| credential pool (`internal/credential`) | cursor, cooldown per key | Acquire, MarkRateLimited, NextReady, Retain | every request of the provider |
| stream recovery (`internal/proxy/streamrecovery.go`, `continuation.go`, `internal/inject/continuation.go`) | idle window (deadline, guard, latch), hops, partial text | armBody, progress, bind, promote, disarm, fire; the loop's gates; dialContinuation | relay goroutine, timer callbacks, the request's budget and credential pool |
| SSE relay and keep-alive (`internal/proxy/sse.go`, `sse_messages.go`, `keepalive.go`, `internal/inject/messages_stream.go`) | line and event under construction, open content block, heartbeat's boundary and last byte | CopySSE, CopyMessagesSSE, Frame, Finish, Write, maybePing, stopAndWait | relay goroutine and heartbeat, one client writer |
| usage pipeline (`internal/usage/pipeline.go`) | queue, batch, counters | Record, writeLoop, flush, Close | every handler, one writer, the shutdown |
| usage store (`internal/usage/repo.go`) | rows under a primary key | InsertEvents | PostgreSQL |
| buffer budget (`internal/memlimit`) | bytes in use | Reserve, Release | every buffering request |
| authentication (`internal/auth`) | decision cache with TTL, last-used set | Authenticate, flush | every request, the key CLI |
| config runtime, snapshot, poller (`internal/config`) | the published snapshot, hash baseline, failure state | load, poll, publish | every request (by an atomic pointer) |
| server lifecycle (`internal/server`, `cmd/.../main.go`) | readiness, drain, signal watcher, exit code | Run, markReady, beginDraining, propagation, signal watcher | signal handler, listener, poller |
| JSON transforms, capture (`internal/inject`, `internal/usage/capture.go`) | none across requests | rewriting of documents and frames | - |

How they interact. `serve` loads one snapshot, resolves a model to its chain,
opens the budget and the engine, and per candidate asks the credential pool for
a key and the transport registry for a doer. A dial (`DialWithin`, through the
pool's `Execute` if the candidate has one) claims an exchange from the budget,
which grants it a window. A failure becomes an observation; the engine decides
retry, fallback or terminal; the walk carries it out. A publish replaces the
snapshot and calls `Retain` on the registries, while requests of the old
snapshot still run. A completed request hands an event to the usage pipeline.
The shutdown drains the server, then closes the pipeline, then the store.

What is hard, and what makes each part correct:

* *Budget*: three loops multiply (retries, candidates, pool members). No path
  may start an exchange, or stay in one, outside either envelope.
* *Engine and walk*: gates in several places must agree on when to stop; the
  client can leave at any instruction; jitter, Retry-After and credential
  cooldowns shape one wait; an answer of a candidate left behind may have to be
  used later.
* *Egress pool and registry*: permits and leases must come back on every path,
  also through a body closed long after; a teardown may be carried out by a
  request of an older configuration, after the pool has come back.
* *Usage pipeline*: handlers, writer and shutdown race on one channel; the
  store may fail, stall, or commit without acknowledging.
* *Credential pool*: requests report rate limits on a shared key out of order and
  with stale clocks; refusal and readiness are two separate looks at the pool.
* *Stream recovery*: the idle window's timer callback may be runnable long
  before it gets the mutex, may be woken early, and may belong to an operation
  that is over; whose failure a cut read is depends on a flag set by another
  goroutine; the text a continuation asks from is put together over several
  streams with other identities.
* *SSE relay and keep-alive*: three line endings, split anywhere by the network;
  two goroutines write to one client; a translation with open blocks that an end
  or an error must close.
* *Recovery matrix*: rules from four layers and two spellings, of which exactly
  one may decide; the overlap check relies on how real errors classify.
* *Process lifecycle*: signals, readiness, the drain, the poller's cycle and the
  exit race; probes that are already on the wire see an older readiness.

## Modules

| Module | Models |
|---|---|
| `ExchangeBudget` | `recovery/budget.go` as operators on a budget record |
| `RecoveryEngine` | `recovery/engine.go`, `backoff.go`, `Policy.Validate`: the decisions as sets of possible results (jitter) |
| `RecoveryWalk` | the walk of one request, an action per step of `serve`; extends the two above |
| `RecoveryWalkProofs` | theorems about the walk |
| `EgressPool` | `transport/pool.go` and `registry.go`: concurrent requests, one pool identity, config publishes |
| `EgressPoolProofs` | theorems about the pool and the registry |
| `CredentialPool` | `credential/state.go` and `registry.go` with the handler's seam: concurrent requests, one pool key, config publishes |
| `CredentialPoolProofs` | theorems about the credential pool |
| `UsagePipeline` | `usage/pipeline.go` and the shutdown in `main.go` |
| `UsagePipelineProofs` | theorems about the pipeline |
| `MessagesStream` | `inject/messages_stream.go`: the translation of a Chat stream, as operators on its state |
| `SSERelay` | `proxy/sse.go`, `sse_messages.go`, `keepalive.go`: one relay pass, its heartbeat and a client that may leave; extends `MessagesStream` |
| `SSERelayProofs` | theorems about the relay |
| `PartialText` | `proxy/continuation.go` and `inject/continuation.go`: the accumulator and the builders, as operators |
| `LogicalStream` | abstract specification of one committed stream |
| `StreamRecovery` | `proxy/streamrecovery.go` and the continuation loop of `serve`; extends `PartialText`, implements `LogicalStream` |
| `StreamRecoveryProofs` | theorems about stream recovery, the refinement among them |
| `TransportErrors` | `transport/errors.go` and the handler's mapping of classes |
| `RecoveryMatrix` | `recovery/matrix.go`, `rule.go`, `merge.go`, `resolve.go` and the recovery blocks of `config/recovery.go`; extends `TransportErrors` |
| `RecoveryMatrixProofs` | theorems about the matrix and its loading |
| `ProcessLifecycle` | `server/server.go`, `lifecycle.go`, `config/poller.go` and `run` in `main.go` |
| `ProcessLifecycleProofs` | theorems about the process |
| `MC*` | constants for TLC |

### RecoveryWalk

`pc` is where `serve` stands: `enter` is the head of the candidate loop,
`attempt` the body of the attempt loop, `credential` the key acquisition,
`dial` the claim, `exchange` a dial or a body read in flight, `observe` the
call of `Observe`, `wait` the retry wait, `finalize` the code after the loop,
`relay` the writing of the answer. `attempt`, `retries` and `attempts` are the
handler's counters, `retained` and `answer` its `walkAnswer` slots. `heard` (the
candidates whose last attempt an upstream answered) and `lateClaims` are history
variables, read by properties only.

Concurrency is in `Tick` (time passes where the code blocks or is about to read
the clock), `CallerGoes` (the request context is cancelled between any two
steps) and in the outcomes left to the environment: what upstreams answer, what
other requests have done to the shared pools, when the body of a committed answer
ends. Data is reduced to what decisions depend on: a failure is its layer, attempt
number, Retry-After and readiness; a policy's matrix is, per failure layer, the set
of actions its rules give the causes of that layer, and the model takes any of them.

`lead` is the model's first candidate as written. An image request filters the
chain to its vision candidates (handler.go:820-843) but `NewEngine` is given
`m.Recovery`, the policy of the *written* first candidate, so the request
envelope and the fallback budget may belong to a candidate the request never
tries. The comment on `Model.Recovery` (`internal/config/snapshot.go`) that it
mirrors the chain's first candidate holds of the snapshot, not of that copy.
The properties hold in both cases.

### EgressPool

Each action is one critical section of one goroutine. A state instance
(`poolState`) has a number; the registry's `pools` and `doers` entries point at
one. `RetirePool` is the deferred half of a teardown, which runs outside the
pool's lock and re-checks under the registry's. The scan of `selectInitial` is
one step, though members' own mutexes are taken one by one in it: it holds
`schedMu` throughout, and a permit freed or a member struck during the scan
gives the result of a scan slightly earlier or later for that member; no property
depends on which.
A request slot starts another request when its last one is over.

### CredentialPool

Every operation of the pool takes its caller's clock reading as an argument, read
before the mutex is taken, so reading and operation are separate steps and marks
of other requests fall between them. A request goes round `attempt` (about to
ask for a key), `acquire`, then `dial` or `refused`; a refused one asks
`NextReady` and waits, for as long as it was told or less (the retry window may
cut the wait). `strongest`, `round` and `promised` are history.

### UsagePipeline

Events are counts. The writer's states are the points between which a handler,
the store or the shutdown can act. An insert may land and lose its
acknowledgement; a repeated insert of a landed batch violates the primary key
and fails. An insert that is under way when `main` closes the store survives
that; a closed store only refuses new ones. One tick is 5 seconds, which fits the
code's 10 s flush expiry, the drain window and the join grace.

### SSERelay and MessagesStream

A stream is a sequence of tokens: `CR`, `LF`, field names, values. `Fill` hands
the reader any number of them at a time, so a CRLF, a line and an event are split
everywhere they can be. `frame` is CopySSE's event name, event size and pending
CRLF, `acc` the line under construction, `frames` the translated frames still to
be written (one Write each), `obs` what the accumulator was shown, `stats` the
pass's statistics. `hb` is the heartbeat's writer (boundary, finished, pings);
every Write and every ping is one step, since both hold its mutex. A client that
is gone accepts any proper prefix of a write. `MessagesStream` keeps the
translation's state (`started`, open block, index, finish reason, ended) and its
frames by name and content block; a block's index is written in unary. The token
`:ping` stands for the heartbeat's comment; a comment of the upstream is another
token. `Parse` is the reference, the parser of an EventSource client.

### StreamRecovery and PartialText

`pc` is where the handler stands: `start` and `relay` are a pass, `gates` the
head of the continuation loop, `hop`, `claim`, `dial` and `answer` the parts of
`dialContinuation` and of the acceptance of its answer, `finish` the completion
record. The window's mutex makes each of its methods a step; a callback is two
(`Wake`, then `fire` with the mutex) and its trip function a third, because it
runs unlocked. A timer and its callback know their guard by its address, as in the
code, and an address is reused only when neither refers to it any more. The end
of a hop is one step with the end of its pass: the loop asks the latch after the
disarm, and without a guard nothing sets it. `left` is what remains of the
deadline; `quiet`, `shown` and `cause` are history. `PartialText` is the
accumulator: an event is its kind, its identities (item, output, part, choice),
its piece of text and the flags that make it unsafe; JSON decoding is left out,
missing members are not. An envelope may lapse, other requests may have cooled any
key. Once the loop is over, the texts are released and the window's clock stands
still: nothing reads them.

`shown` is the client's side, and it is not the accumulator's. `CopySSE` and
`CopyMessagesSSE` show the accumulator a data line as the upstream sent it, as soon
as the line is whole, and only then rewrite and write it. The client reads what a
`strip-fields` path has left (`strips`), and reads an event only at its blank
line (`Dispatch`). A pass may break off after any line, or in the middle of one:
`tail` is the line it ends with, observed and relayed like any other, whose event is
still open for the client (`held`). The first bytes of the next pass may be the
blank line that dispatches it, or may be joined to it (`StartPass`), and what was
joined the client cannot parse (`lost`). A line past its cap is dropped
(`"limit"`), and after a failed write (`"client"`) nothing is continued, so neither
leaves a tail. A refusal is text the client reads and the accumulator of a Chat
stream does not look at. Within a pass, a completed event is one data line and its blank
line; an upstream that sends two data lines in one event is not modelled.

`LogicalStream` says what all of it promises: data is accepted and continuations
are requested only while the window is open, a continuation never follows the
terminal marker, there are at most `MaxRecoveries` of them, a cut is final, and
the stream ends once, as completed only with its marker.

### RecoveryMatrix and TransportErrors

A behaviour loads one candidate's policy, layer by layer, and then meets one
failure. A match is a function from predicates to tokens, as is an observation.
The order of shorthand keys within a block is arbitrary, as a Go map's is until
it is sorted; identities are what orders rules. A failure is not invented: a
transport failure is `ClassifyAttempt` of an error chain under a context, so that
what `overlaps` assumes of causes and classes is checked against what the
classification produces.

### ProcessLifecycle

Four actors: `run`'s main path, the signal watcher, the server's `Run`, the
poller; around them the file, the clients and a load balancer that routes by the
last probe's answer. A probe reads the readiness when it starts and its answer
may be under way for `ProbeTimeout`. Time passes only when the server has nothing
due, so a tick is far longer than a step. The interval of the load balancer is
counted from probe start to probe start, as the derivation of
`readinessPropagation` does (2 s + 2 s < 5 s); one that counts from an answer needs
an interval and two timeouts in the head start.

## Runs

| Run | Shows | Size |
|---|---|---|
| `RecoveryWalk` | types, `EnvelopeHeld`, `AttemptsBounded`, `FallbackLands`, `CallerFinal`, `WaitInRetryWindow`, `LastAnswerWins`, `CommitmentFinal`, `Termination` | 1.30 million states |
| `RecoveryWalkWait` | a wait can outlast the request's envelope (finding) | counterexample |
| `EgressSchedule` | types, `PermitsConserved`, `SentAtMostOnce`, `CreditBounded` | 576 thousand states |
| `EgressLifecycle` | `LeasesConserved`, `RegistryOwnsLive`, `TeardownDeferred`, `RetiredGoes` | 67 thousand states |
| `CredentialPool` | `KeyComesBack`, `WaitIsEnough`, `NoEarlyReuse`, `RotationFair` | 5.0 million states |
| `UsagePipeline` | `Accounted`, `InsertedIsStored`, `DrainComplete`, `FlushSettles` | 98 thousand states |
| `UsageRemainder` | `Close` returns with events in neither count (finding) | counterexample |
| `SSERelay` | `FramingIsByteFunction`, `PingsInvisible`, `MessagesWellFormed` | 478 thousand states |
| `SSEPing` | a ping can go inside an event of a CRLF stream (finding) | counterexample |
| `StreamRecovery` | `NoUnguardedWait`, `CutsOnlySilence`, `PrefixHoldsWhatClientSaw`, `OwnCutNotBlamed`, `ImplementsLogicalStream`, `SilenceEnds` | 599 thousand states |
| `RecoveryMatrix` | `DecisionIsDeclared`, `SwitchNeverContradicts` | 391 thousand states |
| `ProcessLifecycle` | `NeverRoutedToClosed`, `GraceHeld`, `QuietExit`, `ReloadConverges` | 976 thousand states |

Every property has a mutant of the code it is about: a definition named `Mutant:`
in its comment, with which TLC finds the property violated.

Bounds and why they are enough:

* *Walk*. Chains of two out of four configurations, plus leads a vision filter
  removed: every order of a retrying, a mixed and a sole candidate, direct and
  pooled, with and without keys. Two candidates reach every gate (enter, last of
  chain, refused by the budget, retained answer then failure). The envelopes
  (3 or 4 exchanges, 3 ticks, smaller per candidate) are below what
  retries x candidates x members could use, so they bind. The clock's bound of 4
  lies beyond every envelope; the last wait starts within 3 ticks and is cut to
  its retry window.
* *Pool schedule*. Two requests and two members, one of them capped at one
  permit, unequal weights, both strategies, one failure to cool down and one
  tick to recover: saturation, undone weighted rounds, cooldown, recovery and
  fallback all happen.
* *Pool lifecycle*. Three publishes: drop, restore and drop again, so that an
  old instance's late teardown meets a newer one, and that one's own end. One
  member is enough, since leases do not see members. Publishes are bounded, so
  the model may stop where the program would wait for the next one.
* *Credentials*. Two requests, two keys and two ticks: both keys cooling, a
  refusal, its wait and a second refusal after another mark, and two marks of one
  key in either order. A directive of 3 exceeds the ceiling of 2. One publish
  leaves a request on the old instance while a late one creates a second. The
  requests are interchangeable, and no liveness is checked, so symmetry is sound.
  The bounded clock and publishes may leave every request idle with nothing to do.
* *Pipeline*. Queue and batch of two, five events: an overfull queue, a full
  batch, a partial batch and a remainder in the channel at Close. The process
  ends, so the model may stop.
* *Relay*. Passed-through streams are three lines in every mix of the three
  terminators plus a tail, a line and an event past their caps, cleanly ended or
  reset, read one or four tokens at a time, so that a CRLF is split and not
  split. Translated streams are three or four payload lines (text, calls, their
  fragments, a finish reason, usage, an error, an unreadable payload) read at
  once: their framing is a different, shorter path. One ping is enough to be in
  the wrong place.
* *Stream recovery*. An idle window of two ticks, so that a timer can be early, in
  time and late; two continuations, so that a seam lies between two hops as well;
  two exchanges left and one key, so that budget and credential can run out; two
  source reads in a stream, and after each pass a line it may break off; one
  callback in flight, woken early or in time, as often as the scheduler likes. The
  bodies are Chat with a prefill, Chat whose text is stripped, Responses, and
  Messages, for which no continuation is built; the events are text, text of
  another output, the full text, a refusal, a finish and the markers.
* *Matrix*. Two blocks in four positions are every pair of layers; rules of a
  layer come in pairs. The vocabulary holds two statuses, rules that overlap
  within a layer, across layers, through a cause and its class, and only in a
  request predicate. The model stops after one decision, as nothing changes after
  the policy is frozen.
* *Process*. Grace 6, head start 3, probes every tick with one tick to answer: the
  smallest instance in which the probes fit in the head start. Two edits make a
  file broken and restored or changed twice, three signals a first, a forcing and
  a late one. The process ends, so the model may stop.

Fairness. `RecoveryWalk`: the handler's own steps and the clock. Goroutines run,
and the window timer of an exchange fires; no fairness is asked of upstreams,
other requests or the client. In particular, the relay of a committed body is not
among the fair steps: a body outlives its exchange's window, the server has no
write timeout (`internal/server/server.go:65`), and with continuation off no timer
watches it. Only the relay to a client that is gone ends by itself, its context
being done. `Termination` therefore says that the walk ends, or rests in the relay of a body
for a client that stays. `EgressPool`: each request's goroutine; its dial
ends because an exchange window is finite, and its body is closed because the
handler defers the close. No fairness on publishes. `UsagePipeline`: the writer
(an insert has a context with a deadline) and the shutdown's goroutine (its
timers fire); none on handlers or on the signal that starts the shutdown.
`StreamRecovery`: the handler's own steps
that do not wait on the upstream, the clock, a due timer of the current guard and
the callbacks and trips it started; none on the upstream, the client or early
wake-ups. A relay pass writes as it reads, so `SilenceEnds` takes for granted that the
handler is not blocked in a Write to a client that has stopped reading, which the idle
window does not bound. `ProcessLifecycle`: the poller's ticker fires and its cycle ends; none on
editors, signals or clients. `CredentialPool`, `SSERelay` and `RecoveryMatrix` have
no liveness property and state no fairness.

## Findings

1. `internal/recovery/engine.go:34-36` says a decision's delay is already capped
   by the exchange envelopes. `retryDelay` never reads the budget, so a wait can
   end where no exchange is left to grant: the client waits for a refusal.
2. `internal/usage/pipeline.go:80-82` says `Close` never leaves a silent
   remainder. With one batch in flight and another queued against a slow store,
   window and grace run out before the second flush has settled.
3. `README.md:1968-1975` and `internal/proxy/keepalive.go:24-25` say a ping goes out
   at an event boundary and never splits an event. On a CRLF stream `CopySSE`
   writes a line ending in CR and the LF that completes it separately
   (sse.go:151-160), and the heartbeat takes the lone LF for a blank line
   (keepalive.go:165). A ping between two fields of one event follows;
   with data pending, the ping's blank line makes the client dispatch the event
   early. `PingsInvisible` holds for streams without CRLF.

Observations no run is made of: a request of an old snapshot that resolves its
doer after `Retain` recreates a registry entry no snapshot holds, until the next
publish (registry.go:129-132); a request that resolved its doer before a drop
and begins after it runs on a state already torn down, which closes idle
connections only; a key whose cooldown expires between a refused Acquire and
NextReady is not counted by NextReady, which then reports a later key's deadline,
so that one wait may be longer than needed (it is still cut to the retry window);
a pool dropped and restored by publishes forgets its cooldowns; an insert whose
acknowledgement is lost is counted as dropped though its rows are stored (`InsertedIsStored` allows it in that direction
only); with three or more members a weighted credit may exceed one round's
total, hence the bound of `CreditBounded`.

More of them, one per line:

* `README.md:1609-1610` reserves `502 upstream_unreachable` for walks in which no
  candidate produced an HTTP response; an answer that is *retried* is discarded,
  not retained, so a transport failure afterwards gives that 502.
* A first pass whose terminal marker was delivered and whose body is then cut by
  the idle window ends as `stream_truncated`/`upstream_read`, though
  `docs/design/stream-continuation.md:355-357` says the window must never be
  reported as such; `OwnCutNotBlamed` therefore speaks of passes without a marker.
* A rule on `transport-class: timeout` with `transport-cause: tls` passes
  validation and can never match, since the classification never pairs the two
  (`recovery/matrix.go:21`, `83-86`).
* The authentication cache starts a decision's lifetime when it is stored, not
  when the row was read, so a revocation may lag by `positiveTTL` plus the
  latency of one lookup (`auth/cache.go:9-13`, `README.md:2339-2342`).
* A stream whose lines end in a lone CR is never at a boundary for the heartbeat
  after its first line.
* `CopyMessagesSSE` keeps no CRLF state. Its output is framed by itself, but on a
  CRLF input each LF counts as a blank line, so the observer loses the event's
  name and the event's size starts anew with every line; a Chat stream names no
  event. `FramingIsByteFunction` compares payloads only there.
* A pass cut between a data line and its blank line and then continued splices
  the hop's first data line into the same event of the client, which cannot parse
  it; the accumulator has read both. `PrefixHoldsWhatClientSaw` is exact but for
  such joined events (`lost`).
* A `strip-fields` path into streamed text puts text in the continuation body
  that the client never saw, as `docs/design/stream-continuation.md:131-142` says;
  the property then asks only that what the client did see is there, in order.
* The grace of `internal/server/server.go:37-38` is counted from the signal to the
  exit; `GraceHeld` is about `Run`. The close of the metering pipeline and the
  other deferred work of `main` (`main.go:228-240`) come after it, within budgets of
  their own, so the process may outlive the grace.
* A second signal that the watcher judged just before the drain ended still
  forces exit code 1 while `main` is returning 0 (`main.go:295-301`); `QuietExit`
  allows exactly that.

## Proofs

All theorems hold for every value of the constants, under the named assumptions
only: the chain is not empty and its policies pass `Policy.Validate`
(`ChainAssumption`, `CandidatesAssumption`, `TicksAssumption`); the pipeline's
sizes and windows are positive (`PipelineAssumption`); a credential pool has a
key and its cooldown is positive and under the ceiling (`CredentialAssumption`,
which the loader enforces, `internal/config/auth.go`); a stream's idle window is
positive, it may continue at least once, and its bounds are natural numbers
(`RecoveryAssumption`).
The egress pool has members, an attempt and finitely many requests
(`PoolAssumption`); a probe's timeout is within its interval, and the file is valid at
boot (`LifecycleAssumption`). An upstream's events are those of its dialect and a
body's turns are texts (`DialectAssumption`); the built-in rules pass the load-time
check, the rows of a block have distinct identities, and identities are totally
ordered (`MatrixAssumption`); the relay's caps are positive, its reads are not
empty, the token that stands for the heartbeat's comment is its own, and an empty
payload is no JSON object (`RelayAssumption`, `ChunkAssumption`). `TypeOK` of the credential pool, the pipeline and
stream recovery is proved and not run; those of the walk and the egress pool are both.

*Walk* (`RecoveryWalkProofs`). No property is inductive alone. `TypeOK` goes
with `PlaceInv`: the candidates entered are a prefix of the chain, so the policy
in scope is that of `cand`, and the candidate's clock started in the past. On it
stand four invariants, each preserved action by action:

* `BudgetInv`: the budget's envelopes are those of the primary and of the
  candidate in scope, and a window granted ends inside both. From it
  `WalkEnvelopeHeld`; the lemma on `AcquireExchange` does the arithmetic.
* `AttemptInv`: before an attempt is counted and while one is waited for a retry
  is still owed, an observation carries the attempt it is about, and the two
  counters differ by the candidate entered and not yet asked. From it
  `WalkAttemptsBounded`; `Validate`'s rule on `maxCandidates` is needed here.
* `LateInv`: after a claim made for a caller already gone, the walk is in that
  exchange or past every decision. From it `WalkCallerFinal`.
* `AnswerInv` (with `FallbackLands`): `LastAnswerWins`, and the candidate in
  scope counts as unanswered from the start of an attempt to its observation, and
  as answered at the observation exactly when what is observed is a response; an
  answer exists only where the walk is ending.
  From it `WalkLastAnswerWins` and the action property `WalkCommitmentFinal`.

`WaitInRetryWindow` and `FallbackLands` are inductive on top of `TypeOK` and
`PlaceInv`, because of one lemma about the engine, `ObserveFacts`: whatever
`Observe` may decide, a retry is within the retry budget and its wait within the
window, and a fallback is one `CanEnter` allows.

*Credentials* (`CredentialPoolProofs`). The properties are about history, so the
invariants say what the pool's own state remembers of it: `RestInv` (deadlines
are the strongest ever reported, readings lie in the past, no deadline exceeds
the ceiling), `RotationInv` (up to the first mark the round is the keys before
the cursor) and `PromiseInv` (while no mark intervenes, some key is ready at the
promised time, which the request reaches before it asks again). `RegistryInv`
bounds the instances by the publishes.

*Pipeline* (`UsagePipelineProofs`). `PipelineInv` joins `TypeOK`, `Accounted`, the writer's
place and its batch (`WriterInv`), and the table against the counters
(`TableInv`); the queue depth is a natural number only because events are
accounted for.

*Stream recovery* (`StreamRecoveryProofs`). `TypeOK` is kept in two halves, the
handler's (`HandlerTypeOK`) and the window's (`WindowTypeOK`), because most
actions disturb one of them only. `WindowInv` is the argument about the idle
window: what is left of the deadline is what the silence has not used, a cut is
shut for good and its trips are of the current hop (`WindowCore`), the guard is
that of the operation the handler is in (`GuardBelongs`), and a wait is never
without one (`NoUnguardedWait`); without it a late callback could cut a stream
that has moved on. `CutsOnlySilence` follows. `BlameInv` carries
who broke a pass from the cut to the completion record (`CutNotBlamed`).
`HopContinuesWhatClientSaw` needs `PrefixInv`: as long as the accumulator is open,
the client was shown plain lines only, what it could read or still holds of an
open event is in order in the accumulator's text, and equal to it where nothing was
stripped or joined, and in this pass all of it belongs to the one output the
accumulator is bound to (`Tracks`). `LineTracks` shows this kept by every kind of
line, and that whatever breaks it closes the accumulator; `DispatchTracks`,
`TailTracks` and `PassTracks` do the same for a blank line, a broken end and the
seam between two passes. `InOrderConcat` is what puts the pieces of several passes
together.
`RecoveryRefines` proves `Spec => ImplementsLogicalStream`: `OpenInv` says that
the record stays open until the handler's last step, and each action of
`StreamRecovery` then maps to a step of `LogicalStream` or to a stutter.

*Egress pool* (`EgressPoolProofs`). `PoolInv` joins the types, split by owner,
with where a request may have a state and a member (`PlaceInv`), what it may have
sent (`SendInv`), the registry's count of instances and `RegistryOwnsLive`
(`RegistryInv`: a publish ends at most one instance, an instance not made yet is
fresh) and `LeasesConserved`, which the type of the lease count needs. The counts
are cardinalities of the sets of holders, so each action is shown to add one
request, to remove one, or to move none. `PermitsConserved` is inductive on top of
it. `CreditBounded` is far from inductive, since a bound on single members does not
survive a round. `Balanced` bounds the credit of every *set* of members at once,
from above and below, by a cap that grows by N - 1, N - 2, ... total weights with
the set's size. A set without the winner gains only when the winner had the most
credit in the round: then the set and the winner together, under the next cap,
leave room for the gain, or the set's own members still have little
(`RoundUnderCap`; `RoundAboveFloor` is the mirror image). The rounds undone for
saturated members restore their balances, so that one pick is one round among the
members that did not outrank the winner, after the others' balances were dropped (`ResetBalanced`). Sums are a recursive function over the members' numbers;
the inductions on it go by a minimal counterexample.
`TeardownDeferred` needs `TeardownInv`: while a request that took its lease in
time holds it, nobody is about to carry out the teardown, because the one who is
gave back the last lease.

*Process* (`ProcessLifecycleProofs`). `ClockInv`: what is left of the timer and
what has elapsed make up the head start, then the grace. `ProbeInv`: in the head
start, what the load balancer still believes is at least as old as the drain, so
that it cannot outlive an interval and a timeout. `JoinInv`: past the join the
poller is gone. The three together with the timers' types are inductive.

*Recovery matrix* (`RecoveryMatrixProofs`). `MatrixInv` ties the policy loaded so
far to the blocks folded so far: its rows are the ones last stated for each
identity, sorted, unambiguous and identified. Four facts about the operators
carry it. `SortKeeps`: ranking positions by precedence permutes the rows, because
precedence is a strict total order where identities differ. `MatchingRulesOverlap`:
two rules that match one observation overlap in the sense of the load-time check;
this needs `ClassAgreesWithCause`, that a classified failure never pairs a class
and a cause the check takes for disjoint. `MatchIsMostSpecific`: the first match
of a sorted, unambiguous matrix is the only most specific one.
`DeclaredAppend`: merging a layer is restating its rows. `DecisionIsWhatFileDeclares`
follows; `SwitchIsNeverRejected` needs only that what was inherited was valid.

*Relay* (`SSERelayProofs`). The reference is a parser that is a recursive
function of the bytes, the relay a machine that cuts lines out of a buffer, so
the proof is about lines. `ParseLine` says what the parser makes of one whole
line, by induction over its body; `LineReads` says that the relay's helpers read
the same in it. `FramingInv` then ties what the relay has kept (event name,
pending CR, event count, terminal flag, the observed payloads) to the parser's
state after the bytes dealt with, and adds that everything past them is one line
without a terminator: `NextLine` shows that a cut of the buffer ends that line and
no other, wherever the reads ended. `FramingFollowsBytes` holds at every moment, not
only at the end. `PingsAreInvisible` runs the same parser over the client's bytes.
`OutInv` says that while the client is there the heartbeat knows of every marker
that went out and that whole lines have been written wherever it sees a boundary;
it needs the type of everything the translator may owe (`FrameType`), since a
translated line could otherwise contain a comment or lack its end. `PassInv` says
that between lines the client's parser stands where the upstream's does, but for
rewriting (`Mirrors`), and that where the heartbeat sees a boundary nothing of an
event has been received (`Quiet`). `MirroredLine` moves both parsers by a line, and
uses that the LF of a CRLF never comes alone; `PingSilent` moves the client's by a
ping; `TornSilent` says that a line cut short by a client who left dispatches
nothing.
`MessagesAreWellFormed` follows one message from the translator to the client's
parser. `Speaks` relates the events told so far to the translator's state: each
fits those before it (`Fits`), as many blocks were opened as it has numbered, all
of them closed but the open one, which is the last; nothing ends the message
while the translator may go on; a stop was told only after a finish. Every
operation of the translator keeps it (`CloseTalks`, `OpenTalks`, `ContentTalks`,
`TerminateTalks`, `FrameSpeaks`), by an induction over the calls of a chunk.
`MessageInv` adds where the client is: its parser has dispatched the first k events
and holds the first ph lines of the next, and the lines still to be written are
exactly the others (`Covers`, `LineHeard`). That last part is what the property
needs and does not say: the property speaks only of the moment the copy returns.

*Only model-checked*: the liveness properties (`Termination`, `RetiredGoes`,
`FlushSettles`, `SilenceEnds`, `ReloadConverges`), which TLAPS does not reach.

## Not modelled

* Parsing and validation of the YAML configuration beyond its recovery blocks,
  the JSON transforms that rewrite one document, and the capture of token counts:
  sequential conversions without a state between steps.
* TLS, proxy and SOCKS5 handshakes, the SQL, migrations and the key CLI: I/O.
* Authentication: a decision before the walk, with a cache of bounded age; it
  shares no state with the modelled parts (its lag is noted above).
* The buffer budget: one counter behind a compare-and-swap loop; the walk has a
  refusal of it as a choice.
* The hand-over between goroutine, timer and caller inside `DialWithin` and
  `HandoffStream`, taken as one step of the walk with each of its outcomes; the
  send state of a failed exchange, a choice of the environment in `EgressPool`.
* Of the walk, what precedes it (method, authentication, body, model lookup) and
  the failure to build a request, which the load-time checks of endpoint and
  method make unreachable. The request context carries no deadline in this
  server, so the engine's cut of a wait to it never applies.
