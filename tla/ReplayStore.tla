----------------------------- MODULE ReplayStore -----------------------------
(***************************************************************************)
(* The DPoP replay store and the code that uses it: step 5 and step 7 of   *)
(* validate_proof (server/src/auth/dpop.rs) run by request workers,        *)
(* JtiReplayStore::try_insert and maintenance_tick, and the cleanup_task   *)
(* that drives the latter (server/src/auth/replay.rs).                     *)
(*                                                                         *)
(* The map of entries and the expiry queue have a lock each and no         *)
(* operation holds both, so every operation is two steps that other        *)
(* workers interleave with.  Every lock is held for one step only: the     *)
(* model makes each critical section one action and needs no lock          *)
(* variable.  Time is in whole seconds, the unit of every configured       *)
(* duration; SystemTime and Instant advance together.                      *)
(***************************************************************************)
EXTENDS Naturals, FiniteSets

CONSTANTS
    Workers,     \* requests that may be in validate_proof at the same time
    Audiences,   \* AudienceTag: vault and admin
    Jtis,        \* jti claims; SHA-256 is taken to be injective on them
    Iats,        \* iat claims a client may sign
    Never,       \* the proof has not been accepted yet
    NoProof,     \* no proof has been presented to the worker yet
    Freshness,   \* dpop_freshness_secs
    Skew,        \* clock_skew_secs
    Window,      \* jti_replay_window_secs
    MaxEntries,  \* max_replay_entries
    MaxInstant,  \* the largest Instant: checked_add fails beyond it
    Stall,       \* longest time a worker spends between reading the clock
                 \* for the freshness test and leaving try_insert
    Lag,         \* longest delay of the scheduler in running the cleanup
    MaxTime,     \* bound on the clock
    MaxBoots,    \* bound on restarts
    Watched      \* the proofs whose first acceptance the history keeps

(* What config::validate lets through (parse_auth): every duration is      *)
(* positive and the replay window covers freshness plus skew.              *)
ASSUME ConfigAssumption ==
    /\ Freshness \in Nat \ {0}
    /\ Skew \in Nat \ {0}
    /\ Window \in Nat
    /\ Window >= Freshness + Skew
    /\ MaxEntries \in Nat \ {0}

ASSUME EnvironmentAssumption ==
    /\ NoProof \notin [aud : Audiences, jti : Jtis, iat : Iats]
    /\ Iats \subseteq Nat
    /\ MaxInstant \in Nat
    /\ Stall \in Nat
    /\ Lag \in Nat
    /\ MaxTime \in Nat
    /\ MaxBoots \in Nat

VARIABLES
    entries,   \* JtiReplayStore::entries: key |-> deadline
    queue,     \* JtiReplayStore::expiry_queue: [key, deadline] records
    worker,    \* what each request worker is doing
    cleaner,   \* the cleanup task
    shutdown,  \* the shutdown watch
    now,       \* the clock
    accepts,   \* history: how often this process has accepted each proof
    past       \* history: restarts, and when a watched proof was accepted first

vars == <<entries, queue, worker, cleaner, shutdown, now, accepts, past>>

(* The claims of a DPoP proof the replay check looks at.  Its htu binds it *)
(* to the routes of one audience.                                          *)
Proof == [aud : Audiences, jti : Jtis, iat : Iats]

(* Mutant: the audience tag is dropped from the key.                       *)
MutKeyWithoutAudience(p) == p.jti

(* JtiKey::new                                                             *)
JtiKey(p) == <<p.aud, p.jti>>

Keys == Audiences \X Jtis

Token == [key : Keys, deadline : Nat]

Verdict == {"none", "ProofIatStale", "ProofReplayed", "MemoryPressure", "Ok"}

(* pc is where the worker stands in validate_proof: not in it, past the    *)
(* freshness test, past the computation of the deadline, past the insert.  *)
WorkerState ==
    [pc : {"idle", "fresh", "dated", "inserted"}, proof : Proof \cup {NoProof},
     at : Nat, deadline : Nat, verdict : Verdict]

CleanerState ==
    [pc : {"waiting", "ticked", "drained", "stopped"}, next : Nat, at : Nat,
     expired : SUBSET Token]

(* cleanup_task: (window_secs / 4).max(1)                                  *)
TickPeriod ==
    IF Window \div 4 >= 1 THEN Window \div 4 ELSE 1

Idle(verdict) ==
    [pc |-> "idle", proof |-> NoProof, at |-> 0, deadline |-> 0, verdict |-> verdict]

(* cleanup_task at its first tick().await, at time t.                      *)
NewCleaner(t) == [pc |-> "waiting", next |-> t + TickPeriod, at |-> 0, expired |-> {}]

Init ==
    /\ entries = [k \in {} |-> 0]
    /\ queue = {}
    /\ worker = [w \in Workers |-> Idle("none")]
    /\ cleaner = NewCleaner(0)
    /\ shutdown = FALSE
    /\ now = 0
    /\ accepts = [p \in Proof |-> 0]
    /\ past = [boots |-> 0, first |-> [p \in Proof |-> Never]]

StoreLen == Cardinality(DOMAIN entries)

-----------------------------------------------------------------------------
(* validate_proof, run by a worker.                                        *)

(* Mutant: the tolerance for the past applied to the future too.           *)
MutInWindowSymmetric(p) ==
    IF p.iat <= now THEN now - p.iat <= Freshness + Skew
                    ELSE p.iat - now <= Freshness + Skew

(* Step 5's in_window: the iat is at most freshness + skew old, or at most *)
(* skew in the future.                                                     *)
InWindow(p) ==
    IF p.iat <= now THEN now - p.iat <= Freshness + Skew
                    ELSE p.iat - now <= Skew

(* The worker returns from validate_proof with a verdict.                  *)
Return(w, verdict) ==
    worker' = [worker EXCEPT ![w] = Idle(verdict)]

(* Step 5: a proof is presented and its iat compared with the clock.       *)
CheckFreshness(w, p) ==
    /\ worker[w].pc = "idle"
    /\ worker' = [worker EXCEPT ![w] =
           IF InWindow(p)
           THEN [pc |-> "fresh", proof |-> p, at |-> now, deadline |-> 0,
                 verdict |-> "none"]
           ELSE Idle("ProofIatStale")]
    /\ UNCHANGED <<entries, queue, cleaner, shutdown, now, accepts, past>>

(* Mutant: Instant + Duration panics on overflow and the request is never  *)
(* answered.                                                               *)
MutComputeDeadlinePanics(w) ==
    /\ worker[w].pc = "fresh"
    /\ now + Window <= MaxInstant
    /\ worker' = [worker EXCEPT ![w].pc = "dated", ![w].deadline = now + Window]
    /\ UNCHANGED <<entries, queue, cleaner, shutdown, now, accepts, past>>

(* Step 7: the deadline of the entry, from a second reading of the clock;  *)
(* an overflow is answered ProofIatStale.                                  *)
ComputeDeadline(w) ==
    /\ worker[w].pc = "fresh"
    /\ \/ /\ now + Window <= MaxInstant
          /\ worker' = [worker EXCEPT ![w] =
                 [@ EXCEPT !.pc = "dated", !.deadline = now + Window]]
       \/ /\ now + Window > MaxInstant
          /\ Return(w, "ProofIatStale")
    /\ UNCHANGED <<entries, queue, cleaner, shutdown, now, accepts, past>>

Accepted(p) ==
    /\ accepts' = [accepts EXCEPT ![p] = @ + 1]
    /\ past' = IF p \in Watched /\ past.first[p] = Never
               THEN [past EXCEPT !.first = [@ EXCEPT ![p] = now]] ELSE past

(* Mutant: the insert itself, common to the mutated forms of TryInsert.    *)
MutStore(w) ==
    /\ entries' = [k \in DOMAIN entries \cup {JtiKey(worker[w].proof)} |->
           IF k = JtiKey(worker[w].proof) THEN worker[w].deadline ELSE entries[k]]
    /\ Accepted(worker[w].proof)
    /\ worker' = [worker EXCEPT ![w].pc = "inserted"]
    /\ UNCHANGED <<queue, cleaner, shutdown, now>>

(* Mutant: an entry past its deadline that the cleanup has not removed yet *)
(* counts as absent and is overwritten; its old token stays in the queue.  *)
MutTryInsertOverExpired(w) ==
    LET key == JtiKey(worker[w].proof)
        live == {k \in DOMAIN entries : entries[k] > now}
    IN  /\ worker[w].pc = "dated"
        /\ \/ /\ key \in live
              /\ Return(w, "ProofReplayed")
              /\ UNCHANGED <<entries, queue, cleaner, shutdown, now, accepts, past>>
           \/ key \notin live /\ Cardinality(live) < MaxEntries /\ MutStore(w)

(* try_insert, the critical section on the entries: replay first, memory   *)
(* pressure second, then the insert.                                       *)
TryInsert(w) ==
    LET p == worker[w].proof
        key == JtiKey(p)
    IN  /\ worker[w].pc = "dated"
        /\ \/ /\ key \in DOMAIN entries
              /\ Return(w, "ProofReplayed")
              /\ UNCHANGED <<entries, accepts, past>>
           \/ /\ key \notin DOMAIN entries
              /\ StoreLen >= MaxEntries
              /\ Return(w, "MemoryPressure")
              /\ UNCHANGED <<entries, accepts, past>>
           \/ /\ key \notin DOMAIN entries
              /\ StoreLen < MaxEntries
              /\ entries' = [k \in DOMAIN entries \cup {key} |->
                     IF k = key THEN worker[w].deadline ELSE entries[k]]
              /\ Accepted(p)
              /\ worker' = [worker EXCEPT ![w].pc = "inserted"]
        /\ UNCHANGED <<queue, cleaner, shutdown, now>>

(* Mutant: the token is not pushed.                                        *)
MutPushForgotten(w) ==
    /\ worker[w].pc = "inserted"
    /\ Return(w, "Ok")
    /\ UNCHANGED <<entries, queue, cleaner, shutdown, now, accepts, past>>

(* try_insert, the critical section on the expiry queue.                   *)
PushExpiry(w) ==
    /\ worker[w].pc = "inserted"
    /\ queue' = queue \cup {[key |-> JtiKey(worker[w].proof),
                             deadline |-> worker[w].deadline]}
    /\ Return(w, "Ok")
    /\ UNCHANGED <<entries, cleaner, shutdown, now, accepts, past>>

-----------------------------------------------------------------------------
(* cleanup_task and maintenance_tick.                                      *)

(* The interval fires and the tick's own reading of the clock is taken.    *)
(* A late tick does not move the next one (the default missed-tick         *)
(* behaviour catches up).                                                  *)
TickFires ==
    /\ cleaner.pc = "waiting"
    /\ now >= cleaner.next
    /\ cleaner' = [cleaner EXCEPT !.pc = "ticked", !.at = now,
                                  !.next = cleaner.next + TickPeriod]
    /\ UNCHANGED <<entries, queue, worker, shutdown, now, accepts, past>>

(* Mutant: the tick pops what will expire before the next tick as well.    *)
MutDrainAhead ==
    LET expired == {t \in queue : t.deadline <= cleaner.at + TickPeriod}
    IN  /\ cleaner.pc = "ticked"
        /\ queue' = queue \ expired
        /\ cleaner' = [cleaner EXCEPT !.expired = expired,
                          !.pc = IF expired = {} THEN "waiting" ELSE "drained"]
        /\ UNCHANGED <<entries, worker, shutdown, now, accepts, past>>

(* maintenance_tick on the queue: pop everything whose deadline is past.   *)
DrainQueue ==
    LET expired == {t \in queue : t.deadline <= cleaner.at}
    IN  /\ cleaner.pc = "ticked"
        /\ queue' = queue \ expired
        /\ cleaner' = [cleaner EXCEPT !.expired = expired,
                          !.pc = IF expired = {} THEN "waiting" ELSE "drained"]
        /\ UNCHANGED <<entries, worker, shutdown, now, accepts, past>>

(* Mutant: the popped keys are dropped without being removed from the      *)
(* entries.                                                                *)
MutRemoveNothing ==
    /\ cleaner.pc = "drained"
    /\ cleaner' = [cleaner EXCEPT !.pc = "waiting", !.expired = {}]
    /\ UNCHANGED <<entries, queue, worker, shutdown, now, accepts, past>>

(* maintenance_tick on the entries: remove what was popped.                *)
RemoveExpired ==
    /\ cleaner.pc = "drained"
    /\ entries' = [k \in DOMAIN entries \ {t.key : t \in cleaner.expired}
                      |-> entries[k]]
    /\ cleaner' = [cleaner EXCEPT !.pc = "waiting", !.expired = {}]
    /\ UNCHANGED <<queue, worker, shutdown, now, accepts, past>>

(* The task's select takes the shutdown arm.                               *)
StopCleaner ==
    /\ cleaner.pc = "waiting"
    /\ shutdown
    /\ cleaner' = [cleaner EXCEPT !.pc = "stopped"]
    /\ UNCHANGED <<entries, queue, worker, shutdown, now, accepts, past>>

-----------------------------------------------------------------------------
(* The environment.                                                        *)

(* SIGTERM or SIGINT flips the watch; requests in flight are still served. *)
Shutdown ==
    /\ ~shutdown
    /\ shutdown' = TRUE
    /\ UNCHANGED <<entries, queue, worker, cleaner, now, accepts, past>>

(* The process ends, by a crash or after a shutdown, and another starts:   *)
(* the store is in memory only, and its requests are gone.                 *)
Restart ==
    /\ past.boots < MaxBoots
    /\ past' = [past EXCEPT !.boots = @ + 1]
    /\ entries' = [k \in {} |-> 0]
    /\ queue' = {}
    /\ worker' = [w \in Workers |-> Idle("none")]
    /\ cleaner' = NewCleaner(now)
    /\ shutdown' = FALSE
    /\ accepts' = [p \in Proof |-> 0]
    /\ UNCHANGED now

(* A second passes, unless a worker or the cleanup task would be held up   *)
(* for longer than the scheduler holds anything up.                        *)
ClockTicks ==
    /\ now < MaxTime
    /\ \A w \in Workers : worker[w].pc # "idle" => now < worker[w].at + Stall
    /\ cleaner.pc = "waiting" => now < cleaner.next + Lag
    /\ cleaner.pc \in {"ticked", "drained"} => now < cleaner.at + Lag
    /\ now' = now + 1
    /\ UNCHANGED <<entries, queue, worker, cleaner, shutdown, accepts, past>>

WorkerStep(w) == ComputeDeadline(w) \/ TryInsert(w) \/ PushExpiry(w)

CleanerStep == TickFires \/ DrainQueue \/ RemoveExpired \/ StopCleaner

Next ==
    \/ \E w \in Workers, p \in Proof : CheckFreshness(w, p)
    \/ \E w \in Workers : WorkerStep(w)
    \/ CleanerStep
    \/ Shutdown
    \/ Restart
    \/ ClockTicks

(* validate_proof does not await after step 5 and takes uncontended-for-   *)
(* long locks only; the runtime polls the cleanup task; time goes on.      *)
Fairness ==
    /\ \A w \in Workers : WF_vars(WorkerStep(w))
    /\ WF_vars(CleanerStep)
    /\ WF_vars(ClockTicks)

Spec == Init /\ [][Next]_vars

FairSpec == Spec /\ Fairness

-----------------------------------------------------------------------------
(* Properties.                                                             *)

(* The type invariant: among others, a worker inside validate_proof has a  *)
(* proof in hand.                                                          *)
TypeOK ==
    /\ DOMAIN entries \subseteq Keys
    /\ entries \in [DOMAIN entries -> Nat]
    /\ IsFiniteSet(DOMAIN entries)
    /\ queue \subseteq Token
    /\ worker \in [Workers -> WorkerState]
    /\ \A w \in Workers : worker[w].pc # "idle" => worker[w].proof \in Proof
    /\ cleaner \in CleanerState
    /\ shutdown \in BOOLEAN
    /\ now \in Nat
    /\ accepts \in [Proof -> Nat]
    /\ past \in [boots : Nat, first : [Proof -> Nat \cup {Never}]]

(* The last second in which a request that presents p can insert its key.  *)
LastUse(p) == p.iat + Freshness + Skew + Stall

(* The retention that makes a proof unusable before it is forgotten.  The  *)
(* validator asks only for Window >= Freshness + Skew.                     *)
WindowCoversLifetime == Window > Freshness + 2 * Skew + Stall

(* The FR-021 guarantee: no proof is accepted by two requests of a         *)
(* process, whatever the interleaving of workers, cleanup and the clock.   *)
AcceptedOnce == \A p \in Proof : accepts[p] <= 1

(* The time a proof can be used for, from its first use on.                *)
Lifetime == Freshness + 2 * Skew + Stall

(* "Loss-on-restart shortens the effective replay window by at most one    *)
(* restart's worth of recent proofs" (replay.rs): whatever the window, and *)
(* however often the process is restarted, a proof is never accepted later *)
(* than Lifetime after it was accepted first.                              *)
ReuseBounded ==
    [][\A p \in Proof : accepts'[p] > accepts[p] /\ past.first[p] # Never =>
            now <= past.first[p] + Lifetime]_vars

(* A proof was accepted at most the skew before its iat.                   *)
FirstInv == \A p \in Proof : past.first[p] # Never => p.iat <= past.first[p] + Skew

(* The expiry token a worker still owes the queue.                         *)
OwedToken(w) == [key |-> JtiKey(worker[w].proof), deadline |-> worker[w].deadline]

Owes(w) == worker[w].pc = "inserted"

(* Between the two critical sections of try_insert and of maintenance_tick *)
(* the map and the queue disagree; still every entry has its expiry token  *)
(* in exactly one place (owed by the worker that inserted it, queued, or   *)
(* popped and not yet applied), so none is leaked for ever ...             *)
EveryEntryExpires ==
    \A k \in DOMAIN entries :
        \/ [key |-> k, deadline |-> entries[k]] \in queue \cup cleaner.expired
        \/ \E w \in Workers :
              Owes(w) /\ OwedToken(w) = [key |-> k, deadline |-> entries[k]]

(* ... and every token stands for the entry that is there now: a popped    *)
(* token, which removes by key alone, never removes a later entry.         *)
EveryTokenIsCurrent ==
    /\ \A t \in queue \cup cleaner.expired :
          t.key \in DOMAIN entries /\ entries[t.key] = t.deadline
    /\ \A w \in Workers : Owes(w) =>
          /\ JtiKey(worker[w].proof) \in DOMAIN entries
          /\ entries[JtiKey(worker[w].proof)] = worker[w].deadline
    /\ queue \cap cleaner.expired = {}
    /\ \A w \in Workers : Owes(w) =>
          /\ OwedToken(w) \notin queue \cup cleaner.expired
          /\ \A v \in Workers \ {w} : Owes(v) =>
                JtiKey(worker[v].proof) # JtiKey(worker[w].proof)

(* An honest first use is never called a replay: ProofReplayed is answered *)
(* only when a proof with the same jti was accepted for the same audience. *)
RejectionJustified ==
    [][\A w \in Workers :
          worker[w].pc # "idle" /\ worker'[w].verdict = "ProofReplayed" =>
              \E q \in Proof : /\ q.aud = worker[w].proof.aud
                               /\ q.jti = worker[w].proof.jti
                               /\ accepts[q] > 0]_vars

(* No eviction and no overshoot: the number of stored keys never passes    *)
(* max_replay_entries although workers insert concurrently.                *)
CapacityRespected == StoreLen <= MaxEntries

(* cleanup_task's "any expired entry is gone within window/4 seconds of    *)
(* its deadline", up to the delay of the scheduler in starting the tick    *)
(* and in running it.                                                      *)
EvictionIsTimely ==
    cleaner.pc # "stopped" =>
        \A k \in DOMAIN entries : now <= entries[k] + TickPeriod + 2 * Lag

(* The two-lock store implements the atomic one: a stored key is lost only *)
(* to its deadline or to a restart.                                        *)
Cache == INSTANCE ReplayCache WITH Capacity <- MaxEntries, boots <- past.boots

ImplementsCache == Cache!Spec

(* Every request that enters the replay check is answered, unless its      *)
(* process ends.                                                           *)
EveryRequestAnswered ==
    \A w \in Workers : worker[w].pc # "idle" ~> worker[w].pc = "idle"

(* An entry whose deadline has passed, with a tick still to come before    *)
(* the clock's bound, is removed unless the cleanup task has been shut     *)
(* down.                                                                   *)
ExpiredIsEvicted ==
    \A k \in Keys :
        k \in DOMAIN entries /\ entries[k] + TickPeriod <= MaxTime
            ~> k \notin DOMAIN entries \/ cleaner.pc = "stopped"

(* The facts that make AcceptedOnce inductive.  A worker past the          *)
(* freshness test holds a proof that was in its window when it read the    *)
(* clock, and was not held up for longer than Stall since.                 *)
WorkerInv ==
    \A w \in Workers : worker[w].pc # "idle" =>
        /\ worker[w].at <= now
        /\ now <= worker[w].at + Stall
        /\ worker[w].proof.iat <= worker[w].at + Skew
        /\ worker[w].at <= worker[w].proof.iat + Freshness + Skew
        /\ worker[w].pc \in {"dated", "inserted"} =>
              worker[w].at + Window <= worker[w].deadline

(* Everything the cleanup task has popped is past its deadline.            *)
CleanerInv ==
    /\ cleaner.at <= now
    /\ \A t \in cleaner.expired : t.deadline <= cleaner.at
    /\ cleaner.pc # "drained" => cleaner.expired = {}

(* The facts that make EvictionIsTimely inductive.  The next tick is never *)
(* more than a period away, also when the task lags by more than one; a    *)
(* token that a tick left in the queue, or that was pushed since, is due   *)
(* after that tick and is popped by the next one.                          *)
TimelyInv ==
    cleaner.pc # "stopped" =>
        /\ cleaner.next <= now + TickPeriod
        /\ cleaner.pc \in {"ticked", "drained"} =>
              now <= cleaner.at + Lag /\ cleaner.next <= cleaner.at + TickPeriod
        /\ \A t \in queue :
              /\ cleaner.pc = "waiting" => /\ cleaner.next <= t.deadline + TickPeriod
                                          /\ now <= t.deadline + TickPeriod + Lag
              /\ cleaner.pc = "ticked" => cleaner.at <= t.deadline + TickPeriod + Lag
              /\ cleaner.pc = "drained" => cleaner.at <= t.deadline
        /\ \A t \in cleaner.expired : cleaner.at <= t.deadline + TickPeriod + Lag

(* A request is not held up for as long as its proof is remembered: its    *)
(* token is in the queue before it expires.                                *)
WindowOutlastsStall == Stall <= Window

(* An accepted proof can no longer be used, or its key is stored and stays *)
(* stored for as long as it can be used.                                   *)
RememberedWhileUsable ==
    \A p \in Proof : accepts[p] > 0 =>
        \/ LastUse(p) < now
        \/ /\ JtiKey(p) \in DOMAIN entries
           /\ LastUse(p) < entries[JtiKey(p)]

(* Only accepted proofs put keys in the store.                             *)
StoredWasAccepted ==
    \A k \in DOMAIN entries : \E q \in Proof : JtiKey(q) = k /\ accepts[q] > 0

(* A worker inside validate_proof has no verdict yet.                      *)
NoVerdictYet == \A w \in Workers : worker[w].pc # "idle" => worker[w].verdict = "none"

StoreInv ==
    /\ TypeOK
    /\ CleanerInv
    /\ EveryTokenIsCurrent
    /\ EveryEntryExpires
    /\ CapacityRespected

ReplayInv == WorkerInv /\ RememberedWhileUsable /\ AcceptedOnce

=============================================================================
