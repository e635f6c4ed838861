# WormVerify in TLA+

A verification development for WormVerify: an on-chain program that verifies
guardian-signed messages (VAAs), and an off-chain relayer that observes
messages, collects guardian signatures and assembles VAAs. The modules here
model the program logic of both, TLC checks them on small instances, and TLAPS
proves the main safety properties for every instance. Paths below are relative
to the repository's root.

## 1. The system

| Component | Source | State | Operations | Modelled in |
|---|---|---|---|---|
| Aggregation engine | `crates/wormverify-core/src/engine.rs`, `domain.rs` | none of its own; locals of each handler | `observe_message`, `submit_signature`, `stats`, `get_vaa`, `list_pending` | `Aggregator` |
| Signature rules | `crates/wormverify-types/src/{vaa,guardian}.rs` | none | `quorum`, `Vaa::verify`, sorted insertion | `Vaa` |
| Message store, VAA store | `crates/wormverify-infra/src/memory.rs`, `postgres.rs` | `pending`, `vaas` | upsert, get, list, remove; save, get, count | `Stores` |
| Guardian registry | `memory.rs` | `sets`, `current` | `new`, `upgrade`, `current`, `get` | `Stores`, `Aggregator` |
| Event sink | `events.rs` | a broadcast channel | `publish`, `subscribe` | `Stores`, `Service` |
| Wire format | `crates/wormverify-types/src/vaa.rs`, `anchor/programs/wormverify-core/src/vaa.rs` | the parser's cursor | `Vaa::encode`, `Vaa::parse`, `ParsedVaa::parse` | `WireFormat` |
| On-chain program | `anchor/programs/wormverify-core/src` | config, guardian sets, consumed markers, emitter counters, messages | `initialize`, `post_message`, `verify_vaa`, `upgrade_guardian_set` | `BridgeCore` |
| Circuit breaker | `crates/wormverify-resilience/src/breaker.rs` | failures, state, time of opening | `acquire`, `record_success`, `record_failure` | `CircuitBreaker` |
| Retry, timeout | `retry.rs` | attempt count, timers | `retry`, `backoff_for`, `with_timeout` | `GuardedCalls` |
| GraphQL API | `crates/wormverify-api/src/schema.rs` | shared service state | `submit_observation`, `sign_as_guardian`, queries, event subscription | `Service` |
| Simulated guardians | `crates/wormverify-infra/src/signer.rs` | keys | `derive`, `guardian_set`, `sign` | `Service` |
| Node | `crates/wormverify-node/src` | wiring | `build_state`, routing, demo | `Service` (`build_state`) |
| Rate limiter | `rate_limit.rs` | a token bucket of the `governor` crate | `try_acquire` | not modelled |

How they interact. A GraphQL mutation runs as a task of a multi-threaded
runtime. It calls the engine, and the engine calls its ports one after the
other: stores, registry, event sink. Each port call is atomic (one operation of
a concurrent map, a lock or a channel); the engine holds no lock from one to
the next, so two handlers interleave between any two port calls. The on-chain
program knows nothing of the relayer; what links them is the VAA, whose
signatures both sides check by the same rules. In the repository no component
carries a VAA from the relayer to the chain or a guardian set from the chain to
the registry: `InMemoryGuardianRegistry::upgrade` is called by a test only. The
breaker, the retry helper and `with_timeout` are exported but not called by the
node, whatever the repository's README says of its resilience.

What is hard here:

- read-modify-write of an observation over several port calls, without a lock;
- a check (`vaas.get`, `get_pending`) that is stale when its result is used;
- a message that moves between two stores while others read both;
- a guardian set that is replaced while signatures under it are collected;
- a store that fails before or after its write;
- VAAs in flight over rotations and expirations of guardian sets, replays;
- counters and timestamps at the ends of their ranges;
- outcomes of overlapping calls that arrive at a breaker out of order, from
  callers that retry, back off and time out;
- a subscriber that falls behind a bounded channel and is not told so;
- two parsers of one byte format, which must accept the same bytes.

`PROJECT.json` lists each of them as a hazard, at the line where it bites, with
the properties that cover it or the reason why none does.

## 2. The modules

    Vaa <- Stores <- Aggregator <- AggregatorInv <- Overlap <- AttestationRefinement <- Service <- MCService
                                        ^                          ^    |                  ^
                                        |- MCAggregator            |  Attestation          |
                                        |                          |  (INSTANCE)           |
                     VaaProofs <- AggregatorProofs <-------- OverlapProofs <------- ServiceProofs
    Vaa <- BridgeCore <- MCBridgeCore          CircuitBreaker <- GuardedCalls
                ^- BridgeProofs                                       ^
    WireFormat <- MCWireFormat                    DataLemmas <- GuardedProofs
         ^- WireProofs -> DataLemmas

`A <- B` reads: B extends A.

**Vaa** holds the pure rules. A signature is a guardian index and the address
that recovery yields for the digest at hand; cryptography is abstracted to that
address, and a signature that cannot be recovered has signer `None`. `verify` is
`Vaa::verify` as a predicate: which of its errors comes first is not modelled.

**Stores** has one variable per store and one operator per port call. Data
that no decision reads is left out: the body (its digest, the message id, stands
for it), timestamps, and the counts carried by `SignatureCollected`. `published`
is the set of events handed to the sink. `VaaAdapter` chooses the VAA store:

- `memory`: `InMemoryVaaStore`, whose save replaces and never fails;
- `postgres`: `PgVaaStore` on the table of `migrations/0001_init.sql`. The
  statement says `ON CONFLICT (id)`, the table's only unique key is
  `(id, emitter_chain)`, and Postgres rejects such a statement: `CanSave` is
  false;
- `unreliable`: all that the `VaaStore` port allows an adapter. Any call may
  return an `EngineError`, a save also after it was carried out. No adapter of
  the repository is meant by it; a property that holds of it does not depend on
  the store's good will.

**Aggregator** models the handlers. `pc[t]` names the next port call of task
`t`, `frame[t]` holds its locals: arguments and the *copies* it has cloned out
of the stores. One action per port call, and everything the handler computes up
to the next one belongs to the same action: `LoadSet` is `guardians.get`, the
four checks and `insert_sorted` on the private copy; `AnnounceSignature` is
`events.publish` and the branch on `quorum_reached`. An early return sends the
task to `idle`. `StoreFails` and `SaveReplyLost` are the errors of an adapter
that can fail. A request cancelled by the 15 s timeout layer stops at an await
that yields, which only the Postgres adapter has; the effect on the stores is
that of a failed store call and is covered by these two. `list_pending` visits
entries one by one in any order, as the map's iterator locks one shard at a
time. Handlers take any index, message and signature of the instance, genuine
or not; through the GraphQL API only genuine ones can arrive (see Service),
through the engine's own interface any.

`accepted` is a history variable: what callers were told with `Collected`.

**AggregatorInv** is the inductive invariant of the proofs (section 5).

**Overlap** says what overlapping handlers can and cannot break. It adds one
history variable to Aggregator, `contended`: the messages for which two observe
or submit calls have ever been under way at once. A message outside it is
*uncontended*; its handlers run one after the other, but any number of handlers
may be at work on other messages between two of its steps. The promises that
overlapping calls break (the first three violation runs of section 3) are stated
of uncontended messages: the damage stays where the calls met.

**Attestation** is the abstract specification: a message is unknown, collecting
or complete; it gathers the signatures of distinct members of its set, forgets
none of them, is complete exactly from a quorum on, and is announced only then.
Two more actions say how much less is promised of a message that calls met over:
`Disturb` marks it, and `Interfere` then lets it lose what it gathered or start
anew, but it is still complete exactly at a quorum and never goes back from complete.
**AttestationRefinement** reads the stores as that state, and `contended` as the
messages disturbed.

**Service** composes the engine with what surrounds it in the node. Its initial
state is `build_state`: empty stores and a registry seeded with the set of the
simulated guardians. `submit_observation` and `sign_as_guardian` start calls of
the engine; `DirectCall` stands for callers of the engine and the registry that
are not mutations. Each announcing step of a handler also puts its event into
the channel. tokio's channel is one ring of the last `capacity` events with a
position per receiver; `unread[s]` is what of it receiver `s` has not read. When
a full ring takes another event the receiver's oldest unread one is gone. The
receiver then gets an error before its next event, and `events()` filters errors
out (schema.rs:294), so the client sees nothing; `missed` records it. `view` is
what a client makes of the events about the one message it follows, `late`
whether that message was already observed when it subscribed. The answers of
`submit_result` are operators: the service keeps none of them.

**WireFormat** has both implementations of the encoding. The off-chain parser
is a state machine with one action per read and a cursor; a read beyond the end
is the state "panicked". The on-chain parser computes every offset from the
header and is an operator. The widths (values of a byte, bytes of an index, a
signature and each field, the payload limit) are constants. An input is an
encoding, cut short, prolonged or with one byte changed. The hash is left out:
what matters is which bytes it is taken over, and these are compared.

**BridgeCore** models the program. An instruction either succeeds or leaves no
trace, and the runtime serialises instructions that share accounts, so each one
is one atomic action guarded by its account constraints and requirements: an
`init` account is a guard that the account is absent, a `seeds` constraint an
equation. Integer widths are constants: `MaxIndex`, `MaxSequence`, `MaxTime`
stand for the ends of u32, u64 and i64, where checked arithmetic fails the
instruction (release builds have overflow checks, `anchor/Cargo.toml`). The
cluster's clock starts at a positive time and never goes back. The history
`verified` is the sequence of `VaaVerified` events. Account space, rent, bumps
and chain id are left out, and so is `config.emitter_sequence`, which no
instruction reads.

**CircuitBreaker** models the breaker shared by callers. An instant is kept as
an age, counted up to `open_duration`. Callers are an assumption, as no crate
calls the breaker: they call `acquire`, and an admitted one reports an outcome
at any later time. `healthy` is the dependency; while it is down a call may
still succeed.

**GuardedCalls** gives these callers the other two helpers, in the composition
the repository's README names: `retry` runs an operation that asks the breaker,
then calls the dependency under `with_timeout`, and reports the outcome. Each
caller has its loop variable and one timer, for the call or for the backoff; a
timer may fire late but not early. `saturating_pow`, `saturating_mul` and `min`
of `backoff_for` are kept, and its cast `as u64` (retry.rs:42), which truncates;
both widths are constants. The product is taken in u128, where the milliseconds
of a `Duration` (less than 2^74) times a u32 cannot overflow.

**DataLemmas** has what the proofs need to know of sequences of bytes and of
recursive functions, independently of this code.

**MCAggregator**, **MCService**, **MCBridgeCore** and **MCWireFormat** give the
instances their key lists, signatures and VAAs. Operators introduced with
"A bug:" are the plausible mistakes against which the properties were tried; no
specification uses them.

## 3. The runs

Passing:

| Run | Instance | What it shows |
|---|---|---|
| `aggregator_race` | 2 handlers, 1 message, 4 guardians (quorum 3), all genuine signatures and a forged one | `PendingGenuine`, `PendingBelowQuorum`: stored observations are sound and never stuck. `CompleteAtQuorum`: a message is complete exactly when a supermajority of its set has signed what is stored of it. `AssemblyNeverRejected`: the "defensive final verification" never fires with fixed sets. `ObservedNeverLost`, `StatsNeverMissesAMessage`: a message is always in one store, and `stats()` sees it. `ReplacedVaaOverlaps`: when both handlers assemble the message and the second VAA replaces the first in `InMemoryVaaStore` (memory.rs:45), more than a third of the set has signed both |
| `aggregator_faults` | 2 handlers, 1 message, set 0 with two candidate lists, set 1, failing store | `StoredVaaVerified` although sets are replaced meanwhile; `AnnouncedVaaIsStored` although saves fail, or are carried out and reported as failed; `CurrentSetAvailable` |
| `aggregator_retry` | 2 handlers, 1 message, 3 guardians, all needed | the liveness properties `EventuallyAssembled`, `QuorumIsStored`, `StoredVaaIsAnnounced` |
| `service` | `Service`: 2 handlers, 2 messages, one set of 2 guardians, channel of 2 events, 1 subscriber | `ImplementsAttestation`; `UncontendedSignatureKept`, `UncontendedIsCleared`: the promises that overlapping calls break, kept for every message they did not meet over; `ReplyCountsTrue` in any overlap; `CaughtUpViewIsExact`: a client that has read everything and lost nothing knows status and signature count of its message; `SubscribersHear`: it hears of the VAA |
| `bridge` | 3 set indices, 4 time steps, time to live 0 or 2, 2 emitters with up to 2 messages each | replay protection, acceptance in time, consecutive and immutable sets, exact expiration, gap-free numbering |
| `breaker` | `GuardedCalls`: 2 callers, threshold 2, cooldown 2, 4 attempts, factor 4, u32 up to 4, u64 up to 7, timeout 1 | exact threshold, recovery; `GivesUpAfterLastAttempt`, `BackoffNeverShrinks` although the factor saturates and the product exceeds the u64 it is cast to, `RetryReturns` although the dependency may never answer |
| `wire` | bytes of 4 values, up to 4 signatures (one more than a byte counts), payloads up to 3 (limit 2), every cut and every changed byte | `ParsersAgree`; `ReencodesAsReceived`: the digest of the re-encoded body is that of the bytes received; `ReadBackAsSent`: an encoding is read back as the VAA it came from or refused; `ParserNeverPanics` |

Each violation run checks one sentence of the code's own documentation:

| Run | Sentence | What happens |
|---|---|---|
| `lost_signature` | engine.rs:18 "Signature accepted; quorum not yet reached." | from a message already observed, with no call but submissions: two load the same observation; the later store erases the earlier signature, though both callers were told `Collected` |
| `resurrected_observation` | engine.rs:126-127 "... and the pending observation is cleared" | a handler stores its copy after another one completed and cleared the message: it stays pending for ever |
| `observe_resets` | engine.rs:82-83 "the existing id is returned idempotently" | two observations of a new message; the later one empties the signature list |
| `postgres_save` | postgres.rs:3 "Completed VAAs are persisted ..." | no save ever succeeds on the migrated table, under every fairness assumption of `RetrySpec` |
| `breaker_trials` | breaker.rs:36 "A single trial call is permitted to probe recovery." | a half-open breaker lets every caller through |

In the first three the lost data is recoverable: `EventuallyAssembled` holds in
spite of them, as long as guardians go on resubmitting. `service` and the proofs
show the other side: none of them can happen to a message over which no two calls
meet. `postgres_save` would fail for any store that never saves; what it shows of
this one is that it is such a store.

Bounds. Two handlers are enough for every interleaving of a read-modify-write
with another one, and for a third to be represented by a second call of the
first, as handlers keep no state between calls. Four guardians make the quorum
(3) differ from both the majority and the whole set, so that two handlers can
assemble different VAAs; three and two make it the whole set. One message
suffices where no property relates two, as each message has its own entries;
`service` has two, so that two handlers can serve different messages, which is
what its properties are about, and as their events share the ring, which two
events fill, so that the subscriber loses events of either. Its constraint
`StillMeeting` follows a behaviour in which two calls met over a message only
until the first of them is done. What comes after has again two handlers, one
message that is exempt from the properties, and the other for which they were
checked before the meeting; that a contended message disturbs no other for ever
after is proved for the safety properties (section 5), while `SubscribersHear`,
which has no proof, is checked only this far.

In `bridge` three indices allow two rotations, so that a set can be superseded
and its successor too; each emitter can post two messages before its counter
overflows, so that numbers follow one another. The index, sequence and time
ranges end inside the instance, so that every overflow check is reached, and a
time to live of 0 makes a set expire at the instant of its rotation.
`Tick` ends at `MaxTime` and nothing obliges anybody to call, so `bridge` may
stop, and a parser stops when it has returned; the other runs check for deadlock.
In `wire` bytes of four values make a count wrap at four signatures as it wraps
at 256 in the code. In `breaker` the backoff factor saturates at the third
backoff, and its product with the first one exceeds the u64 of the instance,
so that a cast before the cap would wrap. The breaker's counters are bounded by
the code itself: `failures` by the threshold, ages by the cooldown.

Symmetry between tasks is used in `aggregator_race` and `aggregator_faults`
only, where no liveness is checked.

## 4. Fairness

`FairSpec` of Aggregator: weak fairness of each handler's steps. The runtime
polls every task that can make progress; no port call waits for another handler.
A handler whose store call can fail makes progress by failing. Clients are not
obliged to call.

`RetrySpec` adds what guardians do, an assumption about the environment that the
relayer cannot do without: as long as no VAA exists, each signature of the
instance is submitted again and again, in spite of other calls occupying the
handlers (strong fairness, as an idle handler comes and goes). Nothing is
assumed of the order in which signatures arrive, nor that nobody observes the
message again.

`ServiceSpec`: weak fairness of each handler's steps, as above, and of each
subscriber's reading; a client that stops reading is one that has left.

`FairSpec` of CircuitBreaker: time passes, admitted calls end, and callers whom
the breaker would admit keep calling. `ClosesAfterRecovery` supposes that the
dependency stays healthy from some time on. `GuardedFairSpec` replaces the
callers' part by what the runtime does: it polls every task that is ready and
fires every timer. A healthy dependency answers, one that is not may stay silent
for ever. The firing of a timeout is strongly fair, because the moments at which
it can be told from an answer come and go with the dependency's health, while
the timer itself stays due.

## 5. The proofs

`VaaProofs`, `AggregatorProofs`, `OverlapProofs`, `ServiceProofs`,
`BridgeProofs`, `GuardedProofs`, `DataLemmas` and `WireProofs` are checked by
TLAPS to the last leaf. They hold for every number of handlers, messages,
guardians, sets, subscribers, digests, emitters and callers, every capacity and
every width of the integers and fields. The assumptions are the named ones of
the modules (types of the inputs, the integers of a VAA fitting their widths,
`None` being no value) and the theorem library on sequences and finite sets. No
theorem supposes that handlers do not overlap. One that needs more than the named
assumptions says so in its statement or in the property: `FixedSets` (no guardian
set is replaced in place; in the node nothing calls `upgrade`), the in-memory VAA
store (the one the node uses), a multiplier other than 0, and a `max_backoff` of
at most 2^64 - 1 milliseconds.

*Signature rules.* `QuorumIsSupermajority`: the quorum is more than two thirds
and at most all of a non-empty set. `InsertSortedKeepsOrder`: inserting an
absent guardian at the binary search's position keeps the list strictly
ascending, keeps every entry and adds nothing else; that position exists by a
least-number argument. `VerifiedByQuorum`: what `verify` accepts names a quorum of distinct
guardians.

*Engine.* No single property of Aggregator is inductive, because what a handler
stores now it loaded several steps ago. `IInv` says what a handler's locals are
worth between any two port calls: its copy of an observation holds genuine
signatures in order, each made by a member under *some* list its set has had
(`Genuine`), counts the guardians right if sets are fixed (`Counted`), and has
or has not a quorum depending on where the handler is. A copy may be stale but
it is never wrong, so storing it preserves the invariant in whichever state the
stores are by then. From `IInv` follow `TypeOK`, `PendingGenuine`,
`PendingBelowQuorum`, `StoredVaaVerified`, `AssemblyNeverRejected`,
`AnnouncedVaaIsStored`, `CurrentSetAvailable`, `StatsNeverMissesAMessage`,
`ObservedNeverLost`, `CompleteAtQuorum` and `ReplacedVaaOverlaps`.
`AssemblyNeverRejected` is the one that needs the signature rules: a genuine,
ascending list with a quorum, counted for the list the handler holds, passes
`verify`. `StatsNeverMissesAMessage` rests on a message never going from the VAA
store back to nowhere, and on every observed entry being seen, completed or
still to be visited. `CompleteAtQuorum` turns lengths of lists into numbers of
guardians by `AscendingCardinality`: a list in strict order has one entry per
guardian. `ReplacedVaaOverlaps` is then a matter of counting: two subsets of more
than two thirds of a set each share more than a third of it.

*Overlapping handlers.* A copy may be stale because of what another handler did
to the same message, and of nothing else. `MeetingsKnown` says that calls at work
on one message at the same time have made it contended; so of an uncontended
message at most one call is under way, and `CallInv` can say that what that call
has read is still so: its copy is the store's entry, or that entry and the one
signature more, and storing it drops nothing. `MessageInv` adds that the message
is in both stores only while its observation is about to be removed, and that its
acknowledged signatures are kept. The inductive invariant `OverlapInv` claims
this of uncontended messages only. A step of a handler at work elsewhere leaves
the message, its call and so `MessageInv` alone (`ElsewhereKeeps`); a new call
either finds no other or makes the message contended (`NewCallKeeps`); the call's
own steps are what remains. From it follow `UncontendedSignatureKept` (for every
VAA store, failing ones included) and `UncontendedIsCleared` (for the in-memory
one; a save whose reply is lost leaves the observation behind).

*Refinement.* `OverlapKeepsPromises`: with fixed sets and the in-memory store
`OverlapSpec` implements `Attestation`, however many handlers overlap. Of an
uncontended message `StorePending` is `Observe`, and `StoreSignature` and
`SaveVaa` are `Sign`: by `CallInv` the copy names the guardians of the entry and
one more. Of a contended one the same three steps are `Interfere`, whose guard is
that a complete message stays so and whose status is the one its new signers
give it; this holds as `IInv` makes every copy genuine and counted. A call that
meets another is `Disturb`, `AnnounceVaa` is `Announce`, and the other steps
stutter.

*Node.* `ServiceImplementsEngine`: every step of Service is one of the overlapping
handlers or leaves their variables alone, so the theorems above hold of the node.
`ServiceTypeCorrect` bounds what a receiver holds by the capacity.
`RepliesAreTrue` needs that a VAA is assembled at its quorum *exactly*, in any
overlap: every copy held one signature less than the quorum at most when it was
read, because stored observations are below it (`CountsInv`). `ViewsAreExact`: the
inductive invariant cannot be about what a client knows now, but about what it
will know: as long as no calls met over its message, reading the events it has
left leads from its view to what the stores say of it (`ViewsInv`). The fold over
the unread events is not defined by recursion but has a witness, the sequence of
views on the way (`Ends`), which is extended at one end by `Send` and shortened at
the other by `NextEvent`. `Told` is the stores' side of it, less what the one call
at work on the message has stored and is still to announce, with the signature it
has announced and is still to store; `OverlapInv` provides that there is only one.
A receiver that lags leaves the invariant for good, as does one whose message
becomes contended; the events of other messages go through the same ring and
change no view.

*On-chain program.* `BridgeInv` adds one idea to the properties themselves:
nothing on record lies in the clock's future. A rotation sets an expiration of
at least the present time, and so not before any verification that the set has
already served (`VerifiedInItsTime`). `SupersededExpires` gives
`SetsNeverRewritten`: the set a rotation touches is the current one, whose
expiration is still open.

*Breaker.* While it is closed, its counter equals the number of failures since
the last success; while it is not, at least the threshold has been reported.
`GuardedImplementsBreaker` shows retrying callers to be callers of that breaker,
so that theorem carries over; `RetryGivesUpAtTheEnd` counts attempts at each stage
of the loop. `BackoffsGrow`: saturation keeps the factor growing, since
`saturating_pow(m, n + 1)` is the lesser of `saturating_pow(m, n) * m` and the
largest integer (`PowerRecursion`). It supposes a multiplier other than 0: with
0 the first factor is 0^0 = 1 and every later one 0, so that backoffs do shrink.
The property itself supposes that `max_backoff` fits the u64 of the cast; a longer
one is truncated, and backoffs near it would wrap.

*Wire format.* `WalkInv` says of the off-chain parser, at each of its reads, that
what it has read so far is what the on-chain parser computes from offsets, and
that none of that parser's checks has failed yet; the cursor is the offset
reached. `SameVaaOnBothSides` and `ParsesWithoutPanic` follow, the latter because
the one length check of the body covers every unchecked read after it.
`AcceptedBytesAreCanonical` and `EncodingsReadBack` rest on two facts without any
step in them: reading an encoding gives back its VAA (`ReadEncoding`), encoding
what was read gives back the bytes (`ReadingEncoded`). In the first a signature
count that wraps is the interesting case: then the bytes left after the counted
entries are more than a payload may be, which `WidthAssumption` states of the
real widths (256 * 66 > 1024). `ParsersAgreeOnEveryInput` is the same for every
byte string, not only for damaged encodings.

*Recursive data.* The library's induction theorems take an operator and cannot be
used. `DataLemmas` gets by with a first-order form: a set of naturals that holds
0 and is closed under successor holds every one (`UpTo`, from the well-founded
order), a recursion over a finite range has a solution
(`RecursionHasSolution`) and only one (`SolutionsAgree`). Recursive functions of
the model (`shifted`, `from_be_bytes`, `saturating_pow`) and `FlattenSeq` of the
community modules are then known through their equations.

Only model-checked are the liveness properties, for which TLAPS has no proof
rules here: `EventuallyAssembled`, `QuorumIsStored`, `StoredVaaIsAnnounced`,
`SubscribersHear`, `RetryReturns` and `ClosesAfterRecovery`. Every other property
of a passing run is a theorem.

## 6. Not modelled

- The rate limiter wraps one call of the `governor` crate and keeps no state of
  its own. A mutation it refuses ends before it has touched anything, so it is
  no step of Service. Its burst of N and its refill together let up to 2N - 1
  mutations through within one second, where `config.rs:48` speaks of a maximum
  per second.
- Relayer and chain are not composed: the repository has no component that
  carries a VAA to the chain or a set to the registry, and a model would invent
  one. What both sides share, the signature rules and the bytes, is in `Vaa` and
  `WireFormat`.
- `TimeoutLayer` (`startup.rs:55`) drops a handler after 15 seconds at an await.
  The in-memory adapters never suspend; with the Postgres adapter the handler
  ends where `StoreFails` and `SaveReplyLost` end it.
- The order of the events of one message when its calls overlap: a second handler
  may announce its VAA before the first announces its observation. Nothing in the
  repository promises an order, so the client's view is claimed of messages no
  two calls met over.
- Postgres partitions and `count`; queries, which read one store each (`stats`,
  which reads two, is in Aggregator); hexadecimal and serde conversions; HTTP
  routing, metrics, command line and the demo, which runs the engine once from
  end to end.
- Cryptographic recovery and hashing are abstracted to their results; account
  rent and space are the runtime's business.
- Guardian lists that repeat an address are accepted by the program and the
  registry alike; the properties count guardian indices, and that the addresses
  behind them differ is up to governance.

Worth proving next: that on chain no message is accepted under two sets unless
quorums of both signed it; that a replaced VAA and its replacement, under two
different sets, carry a quorum of each.
