# Apokryphos server: TLA+ models and proofs

Apokryphos is a self-hosted store of encrypted blocks. The server
(`server/src`, Rust, tokio and axum) authenticates requests with OIDC access
tokens bound to a key by DPoP proofs, and keeps fixed-size blocks as files.
This directory models its concurrent and fault-prone parts in TLA+, checks
them with TLC on small instances and proves the central results with TLAPS.
Source paths below are relative to `server/src`.

## 1. The system

| Part | State it keeps | Operations | What is hard |
| --- | --- | --- | --- |
| Replay store (`auth/replay.rs`) | `entries` (jti key to deadline) and `expiry_queue`, two mutexes | `try_insert`, `maintenance_tick`, `cleanup_task` | two critical sections each way; capacity; window against clock skew |
| Key refresh (`auth/jwks.rs`, `discovery.rs`, `context.rs`) | per audience: cached JWKS, discovery document, `last_on_demand_refresh`, `last_refresh_completed`, a `Notify` | `on_demand_refresh`, two scheduled tasks per audience, `install_refreshed_jwks` | compare-and-swap race, lost notifications, dropped futures, check-then-store across audiences, answers that overtake each other |
| Authentication (`auth/middleware.rs`, `token.rs`, `dpop.rs`, `failure.rs`, `subject.rs`) | the request on its way | guards, `validate_token`, `validate_proof`, uniform refusals | an await in the middle, order of checks, methods listed in one place and dispatched in another |
| Router and handlers (`routes/`), proxy trust (`proxy_trust/`) | none | method dispatch, 404 fallback, effective scheme and address | agreement with the guards |
| Block storage (`routes/api/blocks.rs`, `storage/`) | files under the block root | PUT, GET, DELETE; start-up probe | detached blocking threads, crashes, power failure, partial failure |
| Life of the process (`main.rs`, `app.rs`, `shutdown/`) | phase, shutdown watch, drain timer | bootstrap, serve, signal, drain | signals during start, drain timer racing the last request, storage calls that outlive the runtime's tasks |
| Configuration (`config/`) and start (`app.rs`, `auth/context.rs`) | environment and file, then `ServerConfig`; the key sets as they are built | `load`: collect, merge, validate; `init_contexts`; `parse_jwks` | many combinations of few settings, integer limits, documents that fail half way, providers that do not answer |
| CLI, logging | none | print | sequential |

How they interact: `run` loads the configuration, builds the two contexts, probes the storage, binds,
installs the signal handlers, spawns four refresh tasks and the cleanup task
and serves. A request passes proxy trust, then the guard of its route; the
guard reads its context's cached keys, may await `on_demand_refresh`, spends
the proof's jti in the replay store that both audiences share, and calls the
handler; the block handler calls the storage provider, whose file work runs
on blocking threads. A signal resolves the shutdown future, which flips the
watch that all background tasks follow and ends the accept loop.

`PROJECT.json` lists every component and the hazards, each with its line.

## 2. The modules

| Module | Models | Composes or refines |
| --- | --- | --- |
| `ReplayCache` | what the replay store promises: keys remembered until their deadline or a restart, insert atomic | abstract |
| `ReplayStore` | the replay store, `validate_proof` from step 5 on, the cleanup task, the clock | implements `ReplayCache` |
| `ReplayStoreProofs` | theorems about it | |
| `JwksRefresh` | on-demand and scheduled refresh of two contexts, the providers, disconnecting clients | |
| `JwksRefreshProofs` | theorems about it | |
| `Configuration` | `config::load` as a function of environment and file | operators only |
| `JwksDocument` | what `parse_jwks` makes of a key set, and what is read from it | operators only |
| `Startup` | `run` up to the key sets, then the scheduled fetches | runs `Configuration` and `JwksDocument` |
| `ConfigurationProofs`, `StartupProofs` | theorems about them | |
| `AtomicBlocks` | what a client of the block routes may rely on | abstract |
| `BlockStore` | handlers and `LocalFsProvider` step by step, crash and power loss | implements `AtomicBlocks` |
| `BlockStoreProofs` | theorems about it, the refinement among them | |
| `AuthPipeline` | a request from the proxy-trust layer to its handler's answer | uses the promises of the replay store and of the refresh as environment |
| `Lifecycle` | processes from start to end, with probe, signals, drain | |
| `AuthPipelineProofs`, `LifecycleProofs` | theorems about them | |
| `MC...` | the instances for TLC | |

### ReplayStore
`entries` and `queue` are the fields of `JtiReplayStore`; the binary heap is a
set of tokens, since only the deadline decides what is popped. A worker goes
`idle`, `fresh` (past step 5 of `validate_proof`), `dated` (deadline computed
from a second clock reading), `inserted` (entries lock released, token not yet
pushed). The cleaner goes `waiting`, `ticked`, `drained`, one state per lock it
does not hold. Wall clock and monotonic clock are one clock `now` in seconds.
`Stall` bounds how long a worker is held up inside `validate_proof`, `Lag` how
late a tick is; both are constants, so what depends on them is visible.
`Restart` ends the process at any point and starts another: the store is in
memory, so all of it is gone. `accepts` and `past` are history variables:
how often this process has accepted a proof, how many restarts there were and
when a proof of `Watched` was first accepted by any process. `Watched` keeps
the history out of runs that do not need it; it changes nothing else. Mutants are the definitions named
`Mut...`, here and in the other modules: plausible bugs, used to show that a
property can fail.

### JwksRefresh
One action for each access to shared state in `on_demand_refresh` and
`wait_for_completion`: load of the slot, compare-and-swap, fetch, check of the
other context, store, record, notify, and on the waiter's side check,
register, wait, re-check. A fetch is split into the provider's answer and its
arrival, so that answers can overtake each other. `ClientDisconnects` drops a
future at the points where it awaits. `Patience` is the time a task may spend
at a point: the HTTP timeout, the wait timeout, or `Stall`. Keys are atoms:
what `parse_jwks` keeps of a document is the set served. The slot that lets an
on-demand fetch start, and the completion it records, are both `now_secs` read
at entry, as in the code. Scheduled ticks may come at any time.

### Configuration, JwksDocument and Startup
A setting is a key of a table, with the value's cases that validation tells
apart: a number has its form (TOML integer, string, other value) and its
size, an address, issuer or root is one of a few kinds. A string that may
hold proxies is the sequence of its parts between commas, so that
`ProxyEntries` splits and trims the string form and leaves the entries of the
list form as they are, commas and spaces included. The widths of the
integers are constants. An error is what is wrong and where; `FirstError` is
the `?` of the code, so the order of the checks is kept. `load` is pure and
`LoadConfig` is one step.

A key of a document has its type and algorithm as separate fields, as in the
JSON, its id and its material; a thumbprint is type and material. `Indexed`
is one iteration of the loop of `parse_jwks`; `Reference` says what the
result should be without the loop, by the positions of a document's keys: the
last one with an id, the n-th one without. In `Startup` the loop takes one step per
key. Each context has a `job`, which goes `discovery`, `fetch`, `parse` in
`run`, and `fetch`, `parse`, `install`, `store` in a scheduled task; `dead`
is a task that panicked. Once the contexts agree the rest of `run` follows at
once: `Lifecycle` has it. On-demand refreshes, intervals and clocks are in
`JwksRefresh`. `source` and `raced` are history.

### BlockStore
A file is its payload, whether it is whole and whether it is on disk. `names`
is what paths resolve to now, `durable` what the directories hold on disk;
the code never syncs a directory, so `WriteBack` is the kernel's choice.
`run_put` is `CreateTemp`, `WriteAll`, `SyncAll`, `Persist`, each of which may
fail (`PutFails`). The drop of `NamedTempFile` then unlinks the temporary file
and may fail too, which leaves `Stuck`, a mark for any number of such files. A reader holds
the file it opened. `attached` tells whether the handler still lives; the
blocking thread does not notice. The refinement maps a call to its phase
before, at or after its effect and a torn file to a value that no abstract
block has.

### AuthPipeline
A request is a record of what the checks look at: route, method, whether the
peer is a trusted proxy and what it forwards, token and proof, each with its
claims. A signature is the key that made it. `HeaderFailure`, `ClaimFailure`
and `ProofFailure` list the checks in the order of the code; the category is
kept, the guard maps it to 401 or 503. The code decodes `cnf.jkt` after the
expiry test and the model with the other claims: both are 401. The deadline of
a jti may overflow (`DeadlineFits`), which is 401 as well; as in ReplayStore,
wall clock and monotonic clock are one. Between two steps the key sets, the replay store
and the clock may change; `ever` and `always` are history, the keys trusted at
some and at all times since the request arrived. Key sets may overlap here,
so that the audience check is seen to carry its weight.

### Lifecycle
Several processes share the port and the block root's probe file. Each goes
through the steps of `run`, any of which may fail; then `serving` (phase 1 of
`serve_with_shutdown`), `draining` (phase 2), `returned`, `dropping` (the
runtime waits for its blocking threads), `ended`. The coordinator's future
runs in axum's task, so `ResolveShutdown`, `StopAccepting` and `StartDrain`
are separate and interleave. `StopAccepting` drops the listener, so that the
next process may bind and serve while the old one drains. The drain timer is `off`, `armed`, `elapsed`.
`open` are live request futures, `blocking` storage calls on blocking threads.
The background tasks are not part of this module: they end with the watch or,
at the latest, with the runtime; the cleanup task's stop is in ReplayStore.

## 3. What the runs check

All passing runs finish in at most about two and a half minutes with two
workers.

**ReplaySafety** (2 workers, 2 audiences, 1 jti with two dates, capacity 1,
window 5, clock to 11, ticks up to 1 late, one restart, symmetric in workers).
The two dates are a window apart, so that a key is evicted and inserted again,
with ticks while both workers are on their way. `EveryEntryExpires`: every
entry has its token in the queue, or about to be pushed, or popped by the
cleaner. `EveryTokenIsCurrent`: no token belongs to an older entry than the
one stored, so no tick removes too early. `RejectionJustified`: a step that
answers Replayed concerns a jti accepted in the same audience.
`ImplementsCache`: keys are lost to their deadline or to a restart.
**ReplayLiveness** (1 key, window 6, clock to 12, one restart, an instant
range that overflows late in the run). `ReuseBounded`: a proof is never
accepted more than `Freshness + 2*Skew + Stall` after its first acceptance,
restarts or not; `AcceptedOnce`, of one process, with `Window > Freshness + 2*Skew + Stall`;
`EvictionIsTimely`, `ExpiredIsEvicted` (unless the task has been stopped) and
`EveryRequestAnswered`.
**ReplayDefaultWindow** is finding 1.

**JwksOnDemand** (2 requests, interval 2, fetch timeout 1, stall 1, clock from
2 to 5, one rotation: a flight of up to 4 outlasts its window, so two winners
do fly together and the completion time is set back). `OneClaimPerWindow`;
`FlightsApart`: refreshes of a context that are in flight together were
claimed an interval apart, and none flies for longer than `LongestFlight`
(`FetchTimeout + 3*Stall`, counted from the clock reading at entry);
`SetBackOnlyWhenOvertaken`: `last_refresh_completed` goes back only when a
later window overtook the refresh that is recorded, and by no more than the
longest flight; `LimitedRetryAfterCompletion`: a rate-limited caller is sent
to retry only after a refresh that began in or after its window has completed;
`EveryCallerAnswered`, also when the winner's client disconnects.
**JwksRotation** (both scheduled JWKS tasks, one discovery task, two provider
changes, no requests: each context has one fetch of its key set at a time, so
answers come late but do not overtake each other). `DisjointUnlessRaced`; `ContextsConverge`: the cache ends up with
the provider's keys unless the other context holds one of them. That proviso
is real: two providers that exchange keys block each other's installs.
**JwksOverlap** and **JwksLoser** are findings 2 and 3.

**Startup** (2,119 pairs of environment and file: an accepted configuration
with up to two related settings changed, tables that are there but empty, a
file that does not read, a variable that is not UTF-8; integers of 17 and 18
bits, which hold the defaults; 8 documents of up to 3 keys; 3 refreshes).
`PlacementIrrelevant`: load returns the same when all that the file decides is
moved to the environment, which pins precedence per key and the agreement of
the two spellings of every value; it returns the same error too, unless the
file's list of proxies cannot be joined to one string (`Joinable`).
`AcceptedConfigIsSound`: what the other modules assume of the configuration.
`CacheIsOfOneDocument`: a cached key set is `Reference` of one acceptable
document. `NoSharedKeys`: no key that `lookup_candidates` returns for one
audience is returned for the other, unless two installs overlapped.
`FetchesEnd`: with providers that never answer, the start ends all the same,
and so does every refresh.
**KeyPanic** is finding 4.

**BlockStore** (2 calls, 1 block, 2 payloads, 2 crashes). `NeverTorn`: no name
leads to a partial payload, after a power failure either;
`TempsAccountedFor`: a temporary file is that of a running put, of a crash or
of a failed unlink;
`ImplementsAtomicBlocks`: every call takes effect at one instant between
invocation and response; a put whose client left may take effect later, a
restart may drop it, and a power failure may return to an earlier value.

**AuthPipeline** (2 requests; one sends any of 24 requests, the other
competes for the same jti; capacity 1, one change of keys, clock to 5, where
the deadline of a jti overflows from 4 on and a good proof and token are
acceptable from 1 to 4). `OnlyEntitledAreServed` against a flat statement of
what a request must have; its converse `NoEntitledRefused`, which leaves out
the overflow; `JtiSpentByAdmission`; `PressureOnlyForNew`;
`UnservedIsNotFound`: 404, and no check of credentials on the way.

**Lifecycle** (2 processes, 3 starts, 1 request per process; one may serve
while the other drains).
`CompletedExactlyOnce`, `SignalsAreHandled`, `CleanMeansDrained`,
`ProbeAccountedFor`, and `SignalEndsServer` although no request need ever end.

### Bounds
Clocks stop at `MaxTime`, chosen beyond the last deadline that matters:
acceptance, eviction and a second attempt of the same proof (ReplayLiveness);
two entries of one key, the first of them evicted (ReplaySafety, whose clock
stops before the second is due to go); two windows of the rate limit and a
flight that spans both (JwksOnDemand). Two workers or requests are enough for every race of two
critical sections; a third adds only repetitions of the same pairs. Every
check of the configuration reads at most two settings, so pairs of related
settings reach each of its outcomes and the order of any two errors.
`CHECK_DEADLOCK FALSE` is used where the clock's bound, or the bound on
starts or refreshes, ends the run; BlockStore and AuthPipeline are checked for deadlock.

### Fairness
Weak fairness for each worker, task and process: tokio polls what is ready,
mutexes are held briefly and never across an await. The clock is fair. A
fetch resolves by its 30 s timeout (in `Startup`: `FetchFails` is fair, an
answer is not). Strong fairness for a scheduled fetch
being answered and arriving: the tasks try for ever, and a provider that
fails every single time refutes nothing about the server. Storage calls
return (Lifecycle). Not fair: clients, requests in flight, signals, failures,
crashes, key rotation.

## 4. Findings

1. *Replay window* (`config/validate.rs:95`, run ReplayDefaultWindow). A proof
   is acceptable for `freshness + 2*skew` seconds when its `iat` is ahead of
   the clock; the default and minimal window is `freshness + skew`, so it can
   be accepted again after its entry was evicted.
2. *Disjoint key sets* (`auth/context.rs:341`, JwksOverlap). Check and store
   of `install_refreshed_jwks` are not atomic across contexts.
3. *Losers of the first claim* (`auth/jwks.rs:346`, JwksLoser) retry before
   any refresh has completed.
4. *The unreachable arm* (`auth/jwks.rs:453`, KeyPanic). The filter looks at a
   key's `alg`, the arm at its `kty`: an octet key that says PS256 passes the
   first and panics in the second. At the start the process ends; later the
   context's scheduled task ends, silently.

Smaller disagreements, seen while modelling and not given a run:

* `auth/dpop.rs:233` says that on overflow the entry gets a deadline of now;
  the code refuses the proof.
* `auth/context.rs:107` calls `last_refresh_completed` non-decreasing, and so
  does `auth/jwks.rs:295`. A winner whose fetch outlasts the rate-limit window
  stores the time it started at after the next winner has stored a later one.
  The HTTP timeout (`app.rs:136`) and the default interval are both 30
  seconds, so the default configuration allows it. JwksOnDemand reaches such a
  step; `SetBackOnlyWhenOvertaken` says how far it can go.
* `shutdown/mod.rs:35` and `app.rs:209` say that no signal arriving after bind
  meets the default disposition. The listener is bound at `app.rs:198` and the
  handlers are installed at 212: in between a signal kills the process, as
  `Signal` does in the model at `install`. `SignalsAreHandled` speaks of
  announced processes, for which the code keeps the promise.
* One provider for both audiences passes validation, and a test
  (`tests/config_load.rs:111`) accepts it; `init_contexts` then refuses to
  start, since the key sets are the same.
* In `trusted_proxies`, the string form is split at commas and trimmed
  (`config/validate.rs:223`) and the entries of the list form are parsed as
  they are (235). `["10.0.0.0/8,192.168.0.0/16"]` in the file is an error and
  the same text in `APOK_TRUSTED_PROXIES` two networks; spaces around an entry
  are accepted in one form only; and a list of one empty string is an error
  where the empty string is the empty list. All three are refused in the list
  form, so an accepted file means the same in the environment;
  `PlacementIrrelevant` sets them apart for errors (`Joinable`).

## 5. What is proved

Every invariant, action property and refinement that a passing run checks is
also a theorem, for every value of the constants allowed by the named
assumptions. Each rests on an inductive invariant, which TLC checked on the
run's instance before it was proved.

Assumptions. `ReplayStore`: configuration and environment. `JwksRefresh`:
`RefreshAssumption` and `EpochAssumption`, that the on-demand interval is
shorter than the time since 1970, which validation does not enforce. `AuthPipeline`: `ArrivalAssumption`, the types of what a
request can carry (`exp`, `nbf` and `iat` are unsigned, a token with all its
claims has a subject). `Configuration` and `Startup`: the order of the integer
widths, the types of sources and documents, and that `None` is none of the
values it can stand beside (`NoneAssumption`, `OptionAssumption`; in Rust
`Option` sees to that). TLC evaluates all of them on every run. Two theorems
have a condition of their own, stated in the theorem: `WindowCoversLifetime`
and, for timely eviction, `WindowOutlastsStall`.

**Replay store.**

* `StoreConsistent`, `StoreTyped`, `TokensAreCurrent`,
  `EntriesAndQueueAgree` from `StoreInv` = types,
  `CleanerInv`, `EveryTokenIsCurrent`, `EveryEntryExpires`,
  `CapacityRespected`. The parts need each other: a tick that removes keys
  keeps `EveryEntryExpires` only because its tokens are current and no entry
  has two, and tokens are current only because a key cannot be inserted while
  an older token of it is anywhere.
* `ReplayProtection`: `WindowCoversLifetime => (Spec => []AcceptedOnce)`, by
  `ReplayInv`. `WorkerInv` ties a worker's proof to the clock it read;
  `RememberedWhileUsable` says that an accepted proof is either past its last
  use or stored beyond it. The inequality on the window is used exactly once,
  where an insert establishes `RememberedWhileUsable`.
* `ReuseIsBounded`, without any condition on the window: `FirstInv` says that
  a proof was first accepted at most the skew before its `iat`, which no
  restart changes, and `WorkerInv` bounds the last acceptance from above.
* `EvictionInTime`: `WindowOutlastsStall => (Spec => []EvictionIsTimely)`, by
  `TimelyInv`. A bound relative to the next tick alone is not inductive: a
  task that lags by more than a period finds its next tick already due. The
  invariant therefore ties the next tick to the clock, and each token to the
  tick that will pop it. The condition says that a worker pushes its token
  before it expires; with the defaults the window is 90 seconds.
* `NoFalseReplay`, an action property, by `StoredWasAccepted`: what is stored
  was accepted.
* `StoreImplementsCache`: steps on the queue and the worker's own steps
  stutter, `TryInsert` maps to `Insert`, `RemoveExpired` to `Expire`, which
  needs `CleanerInv` and `EveryTokenIsCurrent` for the deadlines.

**Key refresh.**

* `RefreshTyped`; `OneRefreshPerWindow` by `ClaimInv` (a task about to claim
  is at least an interval past the slot value it holds); `LimitedRetryIsReal`
  by `CompletionInv` (the recorded completion is that of a claim in
  `completed`); `KeySetsStayDisjoint` by `InstallInv` (a checked set stays
  disjoint from the other context's until one of two concurrent installs
  stores).
* `RefreshesFlyApart` and `CompletionSetBackIsBounded`, for every interval and
  timeout, by `FlightInv`: a refresh in flight began at a claim that is no
  later than the slot says, any two of a context at claims an interval apart,
  the recorded completion is an interval from every one that is still in
  flight, and the time of a flight is bounded from its entry, once before the
  claim, once by the fetch, once after. Nothing but time excludes a second
  winner: there is no lock.

**Block storage.**

* `StorageSound`, `BlocksTyped`, `BlocksNeverTorn`, `NoTempIsLeaked` from
  `StorageInv`. `NeverTorn` alone says nothing of a file that is not renamed
  yet; `SyncInv` adds that a file is whole when written and synced before it
  has a name, in the directory on disk too, which is what a power failure
  returns to; `CallInv` ties a call's place to its kind and to the file it
  holds.
* `BlocksAreAtomic`: the refinement of `AtomicBlocks`, one step per action.
  The rename is a put's effect, the unlink a delete's, the opening of the file
  a get's; temporary files, syncs and the handler's own steps stutter; a
  directory that reaches the disk and a power failure map to their
  counterparts because no named file is torn (`NeverTorn`).

**Authentication.**

* `PipelineSound`, `PipelineTyped`, `EntitlementIsRequired`, and the action
  properties `EntitledAreNotRefused`, `JtiIsSpentOnce`, `PressureIsLast`,
  `UnservedNeverAuthenticates`, from `PipelineInv`. `StagesInv` says what each
  stage has established, relative to the time the request arrived and the time
  now, since clock and keys move between two steps; `HistoryInv` that the keys
  trusted now lie between those trusted always and ever.

**Life of the process.**

* `LifecycleSound`, `LifecycleTyped`, `CompletedIsEmittedOnce`,
  `SignalsNeverKill`, `ProbesAreAccountedFor`, and the action property
  `CleanIsDrained`, from `LifecycleInv`. `PhaseInv` says what a process has
  installed, announced and holds at each place: that the events so far do not
  yet include a completion while it serves is what makes a second completion
  impossible.

**Start and configuration.**

* `KeysAreNotShared`, by `KeyInv`. `Covered` says that every key of `by_kid`
  and `keyless` is listed in `by_thumbprint`, for the cached sets and for the
  ones being built, so that a check by thumbprint covers what
  `lookup_candidates` returns; `BootInv` that both sets are there when they
  are compared; `ApartInv` that a checked set stays apart until it is stored.
* `CachedSetIsReference`, by `CacheInv`: a job has the reference key set of
  the keys it has seen, and the rest of the document before it (`ParsedUpTo`).
  The loop is thereby an induction over steps and not over data, and the
  content is in two lemmas: a key passed over leaves `ReferenceUpTo` as it is
  (`ReferenceSkips`), a kept one changes it as `Indexed` does
  (`ReferenceKeeps`), which comes down to positions in finite sets
  (`NextPosition`).
* `StartupTyped`, by `OrderInv` with the two above.
* `AcceptedIsSound`: a property of `load` alone. `NoFirstError`, by the least
  element of a set of naturals, turns the absence of an error into the success
  of each check; `MergedSource` keeps the types through merging; `AuthPassed`
  does the arithmetic.
* `PlacementDoesNotMatter`: `MergedGet` says what merging table by table makes
  of one setting, `AllInEnvTyped` the same when all is in the environment; the
  two differ at most in spelling (`Respells`). `NumberAgrees` and
  `ProxiesAgree` show that validation cannot tell the spellings apart,
  `AuthDefaults` that an empty `[auth]` is as good as none. A list of
  proxies that validation accepts can be joined (`AcceptedIsJoinable`). Checks behind a
  failed one may well differ (the sum of freshness and skew is formed from
  what the file says), so that errors agree only by `SameFirstError`: equal up
  to the first that fails.

Only model-checked: liveness, which is beyond the prover:
`EveryRequestAnswered`, `ExpiredIsEvicted`, `EveryCallerAnswered`,
`ContextsConverge`, `SignalEndsServer`, `FetchesEnd`. The findings are
counterexamples and have no theorem. The fairness of the `FairSpec`s is not
used by any proof: theorems are about `Spec`.

## 6. What is not modelled

The TOML and URL parsers (their verdicts are the kinds of values a setting
may have), the command line, logging and redaction,
response headers and bodies, constant-time comparison, cryptography and
encodings (their verdicts are inputs), file modes. The effective client
address is the leftmost `X-Forwarded-For` entry of a trusted peer and goes to
log events only, so that a property of it would restate one expression. In
`Startup` a panic during an on-demand refresh, which ends that request only,
is left out. The deployment files, the
conformance fixtures and the client placeholders hold no program.

## 7. Plan

Done, in this order because an error there is the hardest to see in a test:
replay store and its refinement, key refresh, block storage and its
refinement, authentication pipeline, life of the process; then restarts of
the replay store, configuration, start and key set documents.

Left to model: the background tasks in Lifecycle, so that a refresh in flight
meets the end of the runtime; AuthPipeline over the steps of `ReplayStore`
instead of its promise.

Left to prove: nothing that the runs check today but liveness. With a
composed model, that `AuthPipeline`'s replay store and key sets behave as the
detailed modules' do.
