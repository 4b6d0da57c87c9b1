-------------------------- MODULE ReplayStoreProofs --------------------------
(***************************************************************************)
(* Proofs about ReplayStore, for every set of workers and proofs, every    *)
(* configuration config::validate accepts and every bound.                 *)
(***************************************************************************)
EXTENDS ReplayStore, FiniteSetTheorems, TLAPS

(* The key of a proof is a key of the store.                               *)
LEMMA KeyType == \A p \in Proof : JtiKey(p) \in Keys
  BY DEF JtiKey, Keys, Proof

LEMMA PeriodType == TickPeriod \in Nat
  BY ConfigAssumption DEF TickPeriod

(* The cleanup task as it starts.                                          *)
LEMMA NewCleanerType ==
    ASSUME NEW t \in Nat
    PROVE  /\ NewCleaner(t) \in CleanerState
           /\ NewCleaner(t).at = 0 /\ NewCleaner(t).expired = {}
  BY PeriodType DEF NewCleaner, CleanerState

(* The state of a worker that has just returned.                           *)
LEMMA IdleType ==
    ASSUME NEW v \in Verdict
    PROVE  Idle(v) \in WorkerState /\ Idle(v).pc = "idle"
  BY DEF Idle, WorkerState

(* The store starts empty and consistent.                                  *)
LEMMA StoreInvInit == Init => StoreInv
  <1> SUFFICES ASSUME Init PROVE StoreInv
    OBVIOUS
  <1>1. DOMAIN entries = {}
    BY DEF Init
  <1>2. TypeOK
    <2>1. IsFiniteSet({}) /\ Cardinality({}) = 0
      BY FS_EmptySet
    <2>2. entries \in [DOMAIN entries -> Nat]
      BY <1>1 DEF Init
    <2>3. worker \in [Workers -> WorkerState]
      BY IdleType DEF Init, Verdict
    <2>4. \A w \in Workers : worker[w].pc = "idle"
      BY DEF Init, Idle
    <2>5. cleaner \in CleanerState
      BY NewCleanerType DEF Init
    <2>6. accepts \in [Proof -> Nat] /\ now \in Nat /\ queue = {} /\ shutdown \in BOOLEAN
      BY DEF Init
    <2>7. past \in [boots : Nat, first : [Proof -> Nat \cup {Never}]]
      BY DEF Init
    <2> QED
      BY <1>1, <2>1, <2>2, <2>3, <2>4, <2>5, <2>6, <2>7 DEF TypeOK
  <1>3. CleanerInv
    BY NewCleanerType DEF Init, CleanerInv
  <1>4. EveryTokenIsCurrent /\ EveryEntryExpires
    BY <1>1, NewCleanerType DEF Init, EveryTokenIsCurrent, EveryEntryExpires, Owes, Idle
  <1>5. CapacityRespected
    BY <1>1, FS_EmptySet, ConfigAssumption DEF CapacityRespected, StoreLen
  <1> QED
    BY <1>2, <1>3, <1>4, <1>5 DEF StoreInv

(* A worker step that leaves store and cleanup task alone and owes no      *)
(* token before or after keeps the store consistent.                       *)
LEMMA WorkerOnlyStep ==
    ASSUME StoreInv, NEW w \in Workers, NEW s \in WorkerState,
           worker' = [worker EXCEPT ![w] = s],
           worker[w].pc # "inserted", s.pc # "inserted",
           s.pc # "idle" => s.proof \in Proof,
           UNCHANGED <<entries, queue, cleaner, shutdown, now, accepts, past>>
    PROVE  StoreInv'
  <1>1. TypeOK'
    BY DEF StoreInv, TypeOK
  <1>2. CleanerInv' /\ CapacityRespected'
    BY DEF StoreInv, CleanerInv, CapacityRespected, StoreLen
  <1>3. \A v \in Workers : /\ Owes(v)' <=> Owes(v)
                           /\ Owes(v) => worker'[v] = worker[v]
    BY DEF StoreInv, TypeOK, Owes
  <1>4. EveryTokenIsCurrent'
    BY <1>3 DEF StoreInv, EveryTokenIsCurrent, OwedToken
  <1>5. EveryEntryExpires'
    BY <1>3 DEF StoreInv, EveryEntryExpires, OwedToken
  <1> QED
    BY <1>1, <1>2, <1>4, <1>5 DEF StoreInv

LEMMA CheckFreshnessStore ==
    ASSUME StoreInv, NEW w \in Workers, NEW p \in Proof, CheckFreshness(w, p)
    PROVE  StoreInv'
  <1> DEFINE s == IF InWindow(p)
                  THEN [pc |-> "fresh", proof |-> p, at |-> now, deadline |-> 0,
                        verdict |-> "none"]
                  ELSE Idle("ProofIatStale")
  <1>1. s \in WorkerState /\ s.pc # "inserted" /\ (s.pc # "idle" => s.proof \in Proof)
    BY IdleType DEF StoreInv, TypeOK, WorkerState, Verdict
  <1>2. worker' = [worker EXCEPT ![w] = s] /\ worker[w].pc # "inserted"
    BY DEF CheckFreshness
  <1> HIDE DEF s
  <1> QED
    BY <1>1, <1>2, WorkerOnlyStep DEF CheckFreshness

LEMMA ReturnStore ==
    ASSUME StoreInv, NEW w \in Workers, NEW v \in Verdict, Return(w, v),
           worker[w].pc # "inserted",
           UNCHANGED <<entries, queue, cleaner, shutdown, now, accepts, past>>
    PROVE  StoreInv'
  BY IdleType, WorkerOnlyStep DEF Return

LEMMA ComputeDeadlineStore ==
    ASSUME StoreInv, NEW w \in Workers, ComputeDeadline(w)
    PROVE  StoreInv'
  <1>1. CASE now + Window > MaxInstant
    BY <1>1, ReturnStore, ConfigAssumption, EnvironmentAssumption
    DEF ComputeDeadline, Verdict, StoreInv, TypeOK
  <1>2. CASE now + Window <= MaxInstant
    <2> DEFINE s == [worker[w] EXCEPT !.pc = "dated", !.deadline = now + Window]
    <2>1. worker' = [worker EXCEPT ![w] = s]
      <3>1. ~(now + Window > MaxInstant)
        BY <1>2, ConfigAssumption, EnvironmentAssumption DEF StoreInv, TypeOK
      <3> QED
        BY <3>1, Zenon DEF ComputeDeadline
    <2>2. s \in WorkerState /\ s.pc = "dated" /\ s.proof = worker[w].proof
      <3>1. worker[w] \in WorkerState /\ now + Window \in Nat
        BY ConfigAssumption DEF StoreInv, TypeOK
      <3> QED
        BY <3>1 DEF WorkerState
    <2>3. worker[w].pc = "fresh" /\ worker[w].proof \in Proof
      BY DEF ComputeDeadline, StoreInv, TypeOK
    <2> HIDE DEF s
    <2> QED
      BY <2>1, <2>2, <2>3, WorkerOnlyStep DEF ComputeDeadline
  <1> QED
    BY <1>1, <1>2, ConfigAssumption, EnvironmentAssumption DEF StoreInv, TypeOK

LEMMA TryInsertStore ==
    ASSUME StoreInv, NEW w \in Workers, TryInsert(w)
    PROVE  StoreInv'
  <1> DEFINE p == worker[w].proof
             key == JtiKey(p)
             d == worker[w].deadline
  <1>1. worker[w].pc = "dated" /\ p \in Proof /\ key \in Keys /\ d \in Nat
    BY KeyType DEF TryInsert, StoreInv, TypeOK, WorkerState
  <1>2. CASE Return(w, "ProofReplayed") /\ UNCHANGED <<entries, accepts, past>>
    BY <1>1, <1>2, ReturnStore DEF TryInsert, Verdict
  <1>3. CASE Return(w, "MemoryPressure") /\ UNCHANGED <<entries, accepts, past>>
    BY <1>1, <1>3, ReturnStore DEF TryInsert, Verdict
  <1>4. CASE /\ key \notin DOMAIN entries
             /\ StoreLen < MaxEntries
             /\ entries' = [k \in DOMAIN entries \cup {key} |->
                               IF k = key THEN d ELSE entries[k]]
             /\ Accepted(p)
             /\ worker' = [worker EXCEPT ![w].pc = "inserted"]
    <2> HIDE DEF key, d
    <2>1. UNCHANGED <<queue, cleaner, shutdown, now>>
      BY DEF TryInsert
    <2>2. DOMAIN entries' = DOMAIN entries \cup {key}
      BY <1>4
    <2>3. entries'[key] = d /\ \A k \in DOMAIN entries : entries'[k] = entries[k]
      BY <1>4
    <2>4. /\ worker'[w] = [worker[w] EXCEPT !.pc = "inserted"]
          /\ \A v \in Workers \ {w} : worker'[v] = worker[v]
      BY <1>4 DEF StoreInv, TypeOK
    <2>5. worker'[w].pc = "inserted" /\ worker'[w].proof = p /\ worker'[w].deadline = d
      BY <2>4 DEF StoreInv, TypeOK, WorkerState, d
    <2>6. IsFiniteSet(DOMAIN entries') /\ StoreLen' = StoreLen + 1
      BY <1>4, <2>2, FS_AddElement DEF StoreInv, TypeOK, StoreLen
    <2>7. TypeOK'
      <3>1. DOMAIN entries' \subseteq Keys /\ entries' \in [DOMAIN entries' -> Nat]
        BY <1>1, <1>4, <2>2 DEF StoreInv, TypeOK
      <3>2. worker' \in [Workers -> WorkerState]
        BY <1>4 DEF StoreInv, TypeOK, WorkerState
      <3>3. \A v \in Workers : worker'[v].pc # "idle" => worker'[v].proof \in Proof
        BY <1>1, <2>4, <2>5 DEF StoreInv, TypeOK
      <3>4. accepts' \in [Proof -> Nat]
        BY <1>1, <1>4 DEF StoreInv, TypeOK, Accepted
      <3>5. past' \in [boots : Nat, first : [Proof -> Nat \cup {Never}]]
        <4>1. past \in [boots : Nat, first : [Proof -> Nat \cup {Never}]] /\ now \in Nat
          BY DEF StoreInv, TypeOK
        <4>2. [past.first EXCEPT ![p] = now] \in [Proof -> Nat \cup {Never}]
          BY <4>1
        <4> HIDE DEF p
        <4> QED
          BY <1>4, <4>1, <4>2 DEF Accepted
      <3> QED
        BY <2>1, <2>6, <3>1, <3>2, <3>3, <3>4, <3>5 DEF StoreInv, TypeOK
    <2>8. CleanerInv'
      BY <2>1 DEF StoreInv, CleanerInv
    <2>9. CapacityRespected'
      <3>1. StoreLen \in Nat
        BY FS_CardinalityType DEF StoreLen, StoreInv, TypeOK
      <3> QED
        BY <1>4, <2>6, <3>1, ConfigAssumption DEF CapacityRespected
    <2>10. /\ Owes(w)' /\ OwedToken(w)' = [key |-> key, deadline |-> d]
           /\ \A v \in Workers \ {w} : /\ Owes(v)' <=> Owes(v)
                                       /\ OwedToken(v)' = OwedToken(v)
      BY <2>4, <2>5 DEF Owes, OwedToken, key
    <2>11. EveryEntryExpires'
      BY <2>1, <2>2, <2>3, <2>10, <1>1 DEF StoreInv, EveryEntryExpires, Owes
    <2>12. EveryTokenIsCurrent'
      <3>1. \A t \in queue \cup cleaner.expired : t.key # key
        BY <1>4 DEF StoreInv, EveryTokenIsCurrent
      <3>2. \A v \in Workers \ {w} : Owes(v) => JtiKey(worker[v].proof) # key
        BY <1>4 DEF StoreInv, EveryTokenIsCurrent
      <3>3. \A v \in Workers \ {w} : JtiKey(worker[v].proof)' = JtiKey(worker[v].proof)
        BY <2>4
      <3>4. JtiKey(worker[w].proof)' = key
        BY <2>5 DEF key
      <3>5. \A t \in queue \cup cleaner.expired :
              t.key \in DOMAIN entries' /\ entries'[t.key] = t.deadline
        BY <2>2, <2>3 DEF StoreInv, EveryTokenIsCurrent
      <3>6. \A v \in Workers : Owes(v)' =>
              /\ JtiKey(worker[v].proof)' \in DOMAIN entries'
              /\ entries'[JtiKey(worker[v].proof)'] = worker'[v].deadline
        <4>1. \A v \in Workers \ {w} : Owes(v) =>
                /\ JtiKey(worker[v].proof) \in DOMAIN entries
                /\ entries[JtiKey(worker[v].proof)] = worker[v].deadline
          BY DEF StoreInv, EveryTokenIsCurrent
        <4>2. \A v \in Workers \ {w} : Owes(v)' =>
                /\ JtiKey(worker[v].proof)' \in DOMAIN entries'
                /\ entries'[JtiKey(worker[v].proof)'] = worker'[v].deadline
          BY <2>2, <2>3, <2>4, <2>10, <3>3, <4>1
        <4> QED
          BY <2>2, <2>3, <2>5, <3>4, <4>2
      <3>7. \A v \in Workers : Owes(v)' => OwedToken(v)' \notin queue \cup cleaner.expired
        BY <2>10, <3>1 DEF StoreInv, EveryTokenIsCurrent
      <3>8. \A v, u \in Workers : v # u /\ Owes(v)' /\ Owes(u)' =>
              JtiKey(worker[v].proof)' # JtiKey(worker[u].proof)'
        BY <2>10, <3>2, <3>3, <3>4 DEF StoreInv, EveryTokenIsCurrent
      <3>9. queue \cap cleaner.expired = {}
        BY DEF StoreInv, EveryTokenIsCurrent
      <3> QED
        BY <2>1, <3>5, <3>6, <3>7, <3>8, <3>9 DEF EveryTokenIsCurrent
    <2> QED
      BY <2>7, <2>8, <2>9, <2>11, <2>12 DEF StoreInv
  <1> QED
    BY <1>2, <1>3, <1>4 DEF TryInsert

(* The token a worker owes moves into the queue.                           *)
LEMMA PushExpiryStore ==
    ASSUME StoreInv, NEW w \in Workers, PushExpiry(w)
    PROVE  StoreInv'
  <1>1. worker[w].pc = "inserted" /\ Owes(w) /\ worker[w].proof \in Proof
    BY DEF PushExpiry, Owes, StoreInv, TypeOK
  <1>2. queue' = queue \cup {OwedToken(w)} /\ UNCHANGED <<entries, cleaner, shutdown, now, accepts, past>>
    BY DEF PushExpiry, OwedToken
  <1>3. Idle("Ok") \in WorkerState /\ Idle("Ok").pc = "idle"
    BY IdleType DEF Verdict
  <1>4. /\ worker' \in [Workers -> WorkerState]
        /\ worker'[w].pc = "idle"
        /\ \A v \in Workers \ {w} : worker'[v] = worker[v]
    BY <1>3 DEF PushExpiry, Return, StoreInv, TypeOK
  <1>5. /\ ~Owes(w)'
        /\ \A v \in Workers \ {w} : /\ Owes(v)' <=> Owes(v)
                                    /\ OwedToken(v)' = OwedToken(v)
                                    /\ JtiKey(worker[v].proof)' = JtiKey(worker[v].proof)
    BY <1>4 DEF Owes, OwedToken
  <1>6. OwedToken(w) \in Token
    BY <1>1, KeyType DEF OwedToken, Token, StoreInv, TypeOK, WorkerState
  <1>7. TypeOK'
    BY <1>2, <1>4, <1>6 DEF StoreInv, TypeOK
  <1>8. CleanerInv' /\ CapacityRespected'
    BY <1>2 DEF StoreInv, CleanerInv, CapacityRespected, StoreLen
  <1>9. EveryEntryExpires'
    BY <1>2, <1>5 DEF StoreInv, EveryEntryExpires
  <1>10. EveryTokenIsCurrent'
    <2>1. /\ OwedToken(w).key \in DOMAIN entries
          /\ entries[OwedToken(w).key] = OwedToken(w).deadline
          /\ OwedToken(w) \notin queue \cup cleaner.expired
      BY <1>1 DEF StoreInv, EveryTokenIsCurrent, OwedToken
    <2>2. \A t \in queue' \cup cleaner'.expired :
            t.key \in DOMAIN entries' /\ entries'[t.key] = t.deadline
      BY <1>2, <2>1 DEF StoreInv, EveryTokenIsCurrent
    <2>3. \A v \in Workers : Owes(v)' =>
            /\ JtiKey(worker[v].proof)' \in DOMAIN entries'
            /\ entries'[JtiKey(worker[v].proof)'] = worker'[v].deadline
      BY <1>2, <1>4, <1>5 DEF StoreInv, EveryTokenIsCurrent
    <2>4. queue' \cap cleaner'.expired = {}
      BY <1>2, <2>1 DEF StoreInv, EveryTokenIsCurrent
    <2>5. \A v \in Workers \ {w} : Owes(v) => OwedToken(v) # OwedToken(w)
      BY <1>1 DEF StoreInv, EveryTokenIsCurrent, OwedToken
    <2>6. \A v \in Workers : Owes(v)' => OwedToken(v)' \notin queue' \cup cleaner'.expired
      BY <1>2, <1>5, <2>5 DEF StoreInv, EveryTokenIsCurrent
    <2>7. \A v, u \in Workers : v # u /\ Owes(v)' /\ Owes(u)' =>
            JtiKey(worker[v].proof)' # JtiKey(worker[u].proof)'
      BY <1>5 DEF StoreInv, EveryTokenIsCurrent
    <2> QED
      BY <2>2, <2>3, <2>4, <2>6, <2>7 DEF EveryTokenIsCurrent
  <1> QED
    BY <1>7, <1>8, <1>9, <1>10 DEF StoreInv

(* Steps that touch only the flag, the clock or the task's own phase.      *)
LEMMA IdleStepStore ==
    ASSUME StoreInv, TickFires \/ StopCleaner \/ Shutdown \/ ClockTicks
    PROVE  StoreInv'
  <1>1. UNCHANGED <<entries, queue, worker, accepts, past>> /\ cleaner'.expired = cleaner.expired
    BY DEF TickFires, StopCleaner, Shutdown, ClockTicks, StoreInv, TypeOK, CleanerState
  <1>2. /\ cleaner' \in CleanerState
        /\ now' \in Nat
        /\ shutdown' \in BOOLEAN
        /\ CleanerInv'
    <2>1. CASE TickFires
      <3>1. cleaner' \in CleanerState
        <4>1. cleaner \in CleanerState /\ now \in Nat
          BY DEF StoreInv, TypeOK
        <4>2. cleaner.next + TickPeriod \in Nat
          BY <4>1, PeriodType DEF CleanerState
        <4> QED
          BY <2>1, <4>1, <4>2 DEF TickFires, CleanerState
      <3>2. cleaner'.at = now /\ cleaner'.expired = {} /\ now' = now
        BY <2>1 DEF TickFires, StoreInv, TypeOK, CleanerState, CleanerInv
      <3>3. shutdown' \in BOOLEAN
        BY <2>1 DEF TickFires, StoreInv, TypeOK
      <3> QED
        BY <3>1, <3>2, <3>3 DEF StoreInv, TypeOK, CleanerInv
    <2>2. CASE StopCleaner
      <3>1. cleaner' \in CleanerState
        BY <2>2 DEF StopCleaner, StoreInv, TypeOK, CleanerState
      <3>2. cleaner'.at = cleaner.at /\ cleaner'.expired = {} /\ now' = now
        BY <2>2 DEF StopCleaner, StoreInv, TypeOK, CleanerState, CleanerInv
      <3>3. shutdown' \in BOOLEAN
        BY <2>2 DEF StopCleaner, StoreInv, TypeOK
      <3> QED
        BY <3>1, <3>2, <3>3 DEF StoreInv, TypeOK, CleanerInv
    <2>3. CASE Shutdown
      BY <2>3 DEF Shutdown, StoreInv, TypeOK, CleanerInv
    <2>4. CASE ClockTicks
      <3>1. cleaner' = cleaner /\ now' = now + 1 /\ shutdown' = shutdown
        BY <2>4 DEF ClockTicks
      <3>2. cleaner.at <= now'
        BY <3>1 DEF StoreInv, TypeOK, CleanerState, CleanerInv
      <3> QED
        BY <3>1, <3>2 DEF StoreInv, TypeOK, CleanerInv
    <2> QED
      BY <2>1, <2>2, <2>3, <2>4
  <1>3. TypeOK'
    BY <1>1, <1>2 DEF StoreInv, TypeOK
  <1>4. EveryTokenIsCurrent' /\ EveryEntryExpires' /\ CapacityRespected'
    BY <1>1 DEF StoreInv, EveryTokenIsCurrent, EveryEntryExpires, CapacityRespected,
                StoreLen, Owes, OwedToken
  <1> QED
    BY <1>2, <1>3, <1>4 DEF StoreInv

(* Popped tokens move from the queue to the task.                          *)
LEMMA DrainQueueStore ==
    ASSUME StoreInv, DrainQueue
    PROVE  StoreInv'
  <1> DEFINE E == {t \in queue : t.deadline <= cleaner.at}
  <1>1. /\ queue' = queue \ E
        /\ cleaner'.expired = E /\ cleaner'.at = cleaner.at
        /\ cleaner'.pc = IF E = {} THEN "waiting" ELSE "drained"
        /\ UNCHANGED <<entries, worker, shutdown, now, accepts, past>>
    BY DEF DrainQueue, StoreInv, TypeOK, CleanerState
  <1>2. cleaner.expired = {}
    BY DEF DrainQueue, StoreInv, CleanerInv
  <1>3. TypeOK'
    <2>1. cleaner' \in CleanerState
      BY DEF DrainQueue, StoreInv, TypeOK, CleanerState
    <2> QED
      BY <1>1, <2>1 DEF StoreInv, TypeOK
  <1>4. CleanerInv'
    BY <1>1 DEF StoreInv, CleanerInv
  <1>5. CapacityRespected'
    BY <1>1 DEF StoreInv, CapacityRespected, StoreLen
  <1>6. queue' \cup cleaner'.expired = queue \cup cleaner.expired
    BY <1>1, <1>2
  <1>7. EveryTokenIsCurrent' /\ EveryEntryExpires'
    BY <1>1, <1>6 DEF StoreInv, EveryTokenIsCurrent, EveryEntryExpires, Owes, OwedToken
  <1> QED
    BY <1>3, <1>4, <1>5, <1>7 DEF StoreInv

(* Entries and their popped tokens go together.                            *)
LEMMA RemoveExpiredStore ==
    ASSUME StoreInv, RemoveExpired
    PROVE  StoreInv'
  <1> DEFINE R == {t.key : t \in cleaner.expired}
  <1>1. /\ DOMAIN entries' = DOMAIN entries \ R
        /\ \A k \in DOMAIN entries \ R : entries'[k] = entries[k]
    BY DEF RemoveExpired
  <1>2. /\ cleaner'.expired = {} /\ cleaner'.at = cleaner.at
        /\ UNCHANGED <<queue, worker, shutdown, now, accepts, past>>
    BY DEF RemoveExpired, StoreInv, TypeOK, CleanerState
  <1>3. IsFiniteSet(DOMAIN entries') /\ StoreLen' <= StoreLen
    BY <1>1, FS_Subset DEF StoreInv, TypeOK, StoreLen
  <1>4. TypeOK'
    <2>1. cleaner' \in CleanerState
      BY DEF RemoveExpired, StoreInv, TypeOK, CleanerState
    <2>2. entries' \in [DOMAIN entries' -> Nat]
      BY DEF RemoveExpired, StoreInv, TypeOK
    <2> QED
      BY <1>1, <1>2, <1>3, <2>1, <2>2 DEF StoreInv, TypeOK
  <1>5. CleanerInv'
    BY <1>2 DEF StoreInv, CleanerInv
  <1>6. CapacityRespected'
    <2>1. StoreLen \in Nat /\ StoreLen' \in Nat
      BY <1>3, FS_CardinalityType DEF StoreLen, StoreInv, TypeOK
    <2> QED
      BY <1>3, <2>1, ConfigAssumption DEF StoreInv, CapacityRespected
  <1>7. \A t \in queue : t.key \notin R
    <2> SUFFICES ASSUME NEW t \in queue, NEW e \in cleaner.expired, t.key = e.key
                 PROVE  FALSE
      OBVIOUS
    <2>1. t.deadline = e.deadline
      BY DEF StoreInv, EveryTokenIsCurrent
    <2>2. t \in Token /\ e \in Token
      BY DEF StoreInv, TypeOK, CleanerState
    <2>3. t = e
      BY <2>1, <2>2 DEF Token
    <2> QED
      BY <2>3 DEF StoreInv, EveryTokenIsCurrent
  <1>8. \A w \in Workers : Owes(w) => JtiKey(worker[w].proof) \notin R
    <2> SUFFICES ASSUME NEW w \in Workers, Owes(w), NEW e \in cleaner.expired,
                        e.key = JtiKey(worker[w].proof)
                 PROVE  FALSE
      OBVIOUS
    <2>1. e.deadline = worker[w].deadline
      BY DEF StoreInv, EveryTokenIsCurrent
    <2>2. e \in Token
      BY DEF StoreInv, TypeOK, CleanerState
    <2>3. e = OwedToken(w)
      BY <2>1, <2>2 DEF Token, OwedToken
    <2> QED
      BY <2>3 DEF StoreInv, EveryTokenIsCurrent
  <1>9. EveryTokenIsCurrent'
    BY <1>1, <1>2, <1>7, <1>8 DEF StoreInv, EveryTokenIsCurrent, Owes, OwedToken
  <1>10. EveryEntryExpires'
    <2> SUFFICES ASSUME NEW k \in DOMAIN entries'
                 PROVE  \/ [key |-> k, deadline |-> entries'[k]] \in queue'
                        \/ \E w \in Workers : Owes(w)' /\
                              OwedToken(w)' = [key |-> k, deadline |-> entries'[k]]
      BY DEF EveryEntryExpires
    <2>1. k \in DOMAIN entries /\ k \notin R /\ entries'[k] = entries[k]
      BY <1>1
    <2>2. [key |-> k, deadline |-> entries[k]] \notin cleaner.expired
      BY <2>1
    <2> QED
      BY <1>2, <2>1, <2>2 DEF StoreInv, EveryEntryExpires, Owes, OwedToken
  <1> QED
    BY <1>4, <1>5, <1>6, <1>9, <1>10 DEF StoreInv

(* A new process starts with an empty store.                               *)
LEMMA RestartStore ==
    ASSUME StoreInv, Restart
    PROVE  StoreInv'
  <1>1. DOMAIN entries' = {} /\ queue' = {} /\ now' = now /\ now \in Nat
    BY DEF Restart, StoreInv, TypeOK
  <1>2. /\ worker' \in [Workers -> WorkerState]
        /\ \A w \in Workers : worker'[w].pc = "idle"
    BY IdleType DEF Restart, Verdict
  <1>3. cleaner' \in CleanerState /\ cleaner'.at = 0 /\ cleaner'.expired = {}
    BY <1>1, NewCleanerType DEF Restart
  <1>4. TypeOK'
    <2>1. IsFiniteSet(DOMAIN entries')
      BY <1>1, FS_EmptySet
    <2>2. entries' \in [DOMAIN entries' -> Nat]
      BY <1>1 DEF Restart
    <2>3. accepts' \in [Proof -> Nat] /\ shutdown' \in BOOLEAN
      BY DEF Restart
    <2>4. past' \in [boots : Nat, first : [Proof -> Nat \cup {Never}]]
      <3>1. /\ past \in [boots : Nat, first : [Proof -> Nat \cup {Never}]]
            /\ past' = [past EXCEPT !.boots = past.boots + 1]
        BY DEF Restart, StoreInv, TypeOK
      <3>2. past.boots + 1 \in Nat
        BY <3>1
      <3> QED
        BY <3>1, <3>2
    <2> QED
      BY <1>1, <1>2, <1>3, <2>1, <2>2, <2>3, <2>4 DEF TypeOK
  <1>5. CleanerInv'
    BY <1>1, <1>3 DEF CleanerInv
  <1>6. EveryTokenIsCurrent' /\ EveryEntryExpires'
    BY <1>1, <1>2, <1>3 DEF EveryTokenIsCurrent, EveryEntryExpires, Owes
  <1>7. CapacityRespected'
    BY <1>1, FS_EmptySet, ConfigAssumption DEF CapacityRespected, StoreLen
  <1> QED
    BY <1>4, <1>5, <1>6, <1>7 DEF StoreInv

(* Every step of the specification keeps the store consistent.             *)
LEMMA StoreInvStep == StoreInv /\ [Next]_vars => StoreInv'
  <1> SUFFICES ASSUME StoreInv, [Next]_vars PROVE StoreInv'
    OBVIOUS
  <1>1. CASE UNCHANGED vars
    BY <1>1 DEF vars, StoreInv, TypeOK, CleanerInv, EveryTokenIsCurrent,
                EveryEntryExpires, CapacityRespected, StoreLen, Owes, OwedToken
  <1>2. ASSUME NEW w \in Workers, NEW p \in Proof, CheckFreshness(w, p) PROVE StoreInv'
    BY <1>2, CheckFreshnessStore
  <1>3. ASSUME NEW w \in Workers, WorkerStep(w) PROVE StoreInv'
    BY <1>3, ComputeDeadlineStore, TryInsertStore, PushExpiryStore DEF WorkerStep
  <1>4. CASE CleanerStep \/ Shutdown \/ ClockTicks
    BY <1>4, IdleStepStore, DrainQueueStore, RemoveExpiredStore DEF CleanerStep
  <1>5. CASE Restart
    BY <1>5, RestartStore
  <1> QED
    BY <1>1, <1>2, <1>3, <1>4, <1>5 DEF Next

(* The map of entries and the expiry queue stay consistent across their    *)
(* separate locks, and the store within its capacity.                      *)
THEOREM StoreConsistent == Spec => []StoreInv
  BY StoreInvInit, StoreInvStep, PTL DEF Spec

(* The types, and with them that a worker in validate_proof has a proof in *)
(* hand, with any number of workers, audiences and jtis.                   *)
THEOREM StoreTyped == Spec => []TypeOK
<1>1. StoreInv => TypeOK
  BY DEF StoreInv
<1> QED
  BY <1>1, StoreConsistent, PTL

(* No token that maintenance_tick pops, or has popped, is that of an       *)
(* earlier entry of its key: removing by key removes what has expired.     *)
THEOREM TokensAreCurrent == Spec => []EveryTokenIsCurrent
<1>1. StoreInv => EveryTokenIsCurrent
  BY DEF StoreInv
<1> QED
  BY <1>1, StoreConsistent, PTL

(* In particular try_insert and maintenance_tick lose no entry between     *)
(* their two locks: each one will be evicted, by its own token, and there  *)
(* are never more of them than max_replay_entries.                         *)
THEOREM EntriesAndQueueAgree ==
    Spec => [](EveryEntryExpires /\ EveryTokenIsCurrent /\ CapacityRespected)
<1>1. StoreInv => EveryEntryExpires /\ EveryTokenIsCurrent /\ CapacityRespected
  BY DEF StoreInv
<1> QED
  BY <1>1, StoreConsistent, PTL

-----------------------------------------------------------------------------
(* At most one acceptance per proof.                                       *)

LEMMA ReplayInvInit == Init => ReplayInv
  BY DEF Init, Idle, ReplayInv, WorkerInv, RememberedWhileUsable, AcceptedOnce

(* The bounds on a worker's proof and clock readings are kept.             *)
LEMMA WorkerInvStep ==
    ASSUME StoreInv, WorkerInv, [Next]_vars
    PROVE  WorkerInv'
  <1> USE ConfigAssumption, EnvironmentAssumption
  <1>t. /\ worker \in [Workers -> WorkerState] /\ now \in Nat
        /\ \A w \in Workers : worker[w].pc # "idle" => worker[w].proof \in Proof
        /\ \A w \in Workers : worker[w].at \in Nat /\ worker[w].deadline \in Nat
    BY DEF StoreInv, TypeOK, WorkerState
  <1>1. CASE UNCHANGED vars
    BY <1>1 DEF vars, WorkerInv
  <1>2. ASSUME NEW w \in Workers, NEW p \in Proof, CheckFreshness(w, p) PROVE WorkerInv'
    <2>1. p.iat \in Nat
      BY DEF Proof
    <2>2. CASE InWindow(p)
      <3>1. /\ worker'[w].pc = "fresh" /\ worker'[w].proof = p /\ worker'[w].at = now
            /\ \A v \in Workers \ {w} : worker'[v] = worker[v]
            /\ now' = now
        BY <1>2, <2>2, <1>t DEF CheckFreshness
      <3>2. p.iat <= now + Skew /\ now <= p.iat + Freshness + Skew
        BY <2>1, <2>2, <1>t DEF InWindow
      <3> QED
        BY <3>1, <3>2, <1>t DEF WorkerInv
    <2>3. CASE ~InWindow(p)
      BY <1>2, <2>3, <1>t DEF CheckFreshness, WorkerInv, Idle
    <2> QED
      BY <2>2, <2>3
  <1>3. ASSUME NEW w \in Workers, WorkerStep(w) PROVE WorkerInv'
    <2>1. CASE ComputeDeadline(w)
      <3>1. /\ \A v \in Workers \ {w} : worker'[v] = worker[v]
            /\ now' = now
            /\ worker[w].pc = "fresh"
        BY <2>1, <1>t DEF ComputeDeadline, Return
      <3>2. CASE worker'[w].pc = "idle"
        BY <3>1, <3>2 DEF WorkerInv
      <3>3. CASE worker'[w].pc # "idle"
        <4>1. worker' = [worker EXCEPT
                ![w] = [@ EXCEPT !.pc = "dated", !.deadline = now + Window]]
          BY <2>1, <3>3, <1>t DEF ComputeDeadline, Return, Idle
        <4>2. /\ worker'[w].deadline = now + Window
              /\ worker'[w].at = worker[w].at /\ worker'[w].proof = worker[w].proof
          BY <4>1, <1>t DEF WorkerState
        <4>3. worker[w].at + Window <= now + Window
          BY <3>1, <1>t DEF WorkerInv
        <4> QED
          BY <3>1, <4>2, <4>3 DEF WorkerInv
      <3> QED
        BY <3>2, <3>3
    <2>2. CASE TryInsert(w)
      <3>1. /\ \A v \in Workers \ {w} : worker'[v] = worker[v]
            /\ now' = now
            /\ worker[w].pc = "dated"
        BY <2>2, <1>t DEF TryInsert, Return
      <3>2. \/ worker'[w].pc = "idle"
            \/ /\ worker'[w].pc = "inserted"
               /\ worker'[w].at = worker[w].at /\ worker'[w].proof = worker[w].proof
               /\ worker'[w].deadline = worker[w].deadline
        BY <2>2, <1>t DEF TryInsert, Return, Idle, WorkerState
      <3> QED
        BY <3>1, <3>2 DEF WorkerInv
    <2>3. CASE PushExpiry(w)
      BY <2>3, <1>t DEF PushExpiry, Return, Idle, WorkerInv
    <2> QED
      BY <1>3, <2>1, <2>2, <2>3 DEF WorkerStep
  <1>4. CASE CleanerStep \/ Shutdown
    BY <1>4 DEF CleanerStep, TickFires, DrainQueue, RemoveExpired, StopCleaner, Shutdown,
                WorkerInv
  <1>5. CASE ClockTicks
    <2>1. worker' = worker /\ now' = now + 1
      BY <1>5 DEF ClockTicks
    <2>2. \A w \in Workers : worker[w].pc # "idle" => now < worker[w].at + Stall
      BY <1>5 DEF ClockTicks
    <2>3. \A w \in Workers : worker[w].pc # "idle" =>
            worker[w].at <= now + 1 /\ now + 1 <= worker[w].at + Stall
      BY <2>2, <1>t DEF WorkerInv
    <2> QED
      BY <2>1, <2>3 DEF WorkerInv
  <1>6. CASE Restart
    BY <1>6 DEF Restart, Idle, WorkerInv
  <1> QED
    BY <1>1, <1>2, <1>3, <1>4, <1>5, <1>6 DEF Next

(* With a window that outlasts the proof, an accepted proof stays known.   *)
LEMMA RememberedStep ==
    ASSUME WindowCoversLifetime, StoreInv, ReplayInv, [Next]_vars
    PROVE  RememberedWhileUsable' /\ AcceptedOnce'
  <1> USE ConfigAssumption, EnvironmentAssumption
  <1>t. /\ now \in Nat /\ accepts \in [Proof -> Nat]
        /\ \A k \in DOMAIN entries : entries[k] \in Nat
        /\ \A p \in Proof : p.iat \in Nat /\ LastUse(p) \in Nat
    BY DEF StoreInv, TypeOK, Proof, LastUse
  <1>i. RememberedWhileUsable /\ AcceptedOnce /\ WorkerInv
    BY DEF ReplayInv
  <1>1. CASE UNCHANGED <<entries, accepts, now>>
    BY <1>1, <1>i DEF RememberedWhileUsable, AcceptedOnce
  <1>2. ASSUME NEW w \in Workers, TryInsert(w), accepts' # accepts
        PROVE  RememberedWhileUsable' /\ AcceptedOnce'
    <2> DEFINE p == worker[w].proof
    <2>1. /\ worker[w].pc = "dated" /\ p \in Proof
          /\ JtiKey(p) \notin DOMAIN entries
          /\ DOMAIN entries' = DOMAIN entries \cup {JtiKey(p)}
          /\ entries'[JtiKey(p)] = worker[w].deadline
          /\ \A k \in DOMAIN entries : entries'[k] = entries[k]
          /\ accepts' = [accepts EXCEPT ![p] = @ + 1]
          /\ now' = now
      BY <1>2 DEF TryInsert, Accepted, StoreInv, TypeOK
    <2>2. worker[w].at \in Nat /\ worker[w].deadline \in Nat
      BY DEF StoreInv, TypeOK, WorkerState
    <2>3. now <= LastUse(p)
      BY <1>i, <1>t, <2>1, <2>2 DEF WorkerInv, LastUse
    <2>4. LastUse(p) < worker[w].deadline
      BY <1>i, <1>t, <2>1, <2>2 DEF WorkerInv, LastUse, WindowCoversLifetime
    <2>5. accepts[p] = 0
      BY <1>i, <1>t, <2>1, <2>3 DEF RememberedWhileUsable
    <2>6. AcceptedOnce'
      BY <1>i, <1>t, <2>1, <2>5 DEF AcceptedOnce
    <2>7. RememberedWhileUsable'
      BY <1>i, <1>t, <2>1, <2>4 DEF RememberedWhileUsable, LastUse
    <2> QED
      BY <2>6, <2>7
  <1>3. CASE RemoveExpired
    <2>1. /\ DOMAIN entries' = DOMAIN entries \ {t.key : t \in cleaner.expired}
          /\ \A k \in DOMAIN entries' : entries'[k] = entries[k]
          /\ now' = now /\ accepts' = accepts
      BY <1>3 DEF RemoveExpired
    <2>2. \A t \in cleaner.expired : t.key \in DOMAIN entries /\ entries[t.key] <= now
      BY <1>t DEF StoreInv, EveryTokenIsCurrent, CleanerInv, TypeOK, CleanerState, Token
    <2>3. \A k \in DOMAIN entries \ DOMAIN entries' : entries[k] <= now
      BY <2>1, <2>2
    <2> QED
      BY <1>i, <1>t, <2>1, <2>3 DEF RememberedWhileUsable, AcceptedOnce, LastUse
  <1>4. CASE ClockTicks
    BY <1>4, <1>i, <1>t DEF ClockTicks, RememberedWhileUsable, AcceptedOnce, LastUse
  <1>5. ASSUME NEW w \in Workers, NEW p \in Proof, CheckFreshness(w, p)
        PROVE  UNCHANGED <<entries, accepts, now>>
    BY <1>5 DEF CheckFreshness
  <1>6. ASSUME NEW w \in Workers, WorkerStep(w)
        PROVE  \/ UNCHANGED <<entries, accepts, now>>
               \/ TryInsert(w) /\ accepts' # accepts
    <2>1. CASE ComputeDeadline(w) \/ PushExpiry(w)
      BY <2>1 DEF ComputeDeadline, PushExpiry
    <2>2. CASE TryInsert(w) /\ accepts' = accepts
      <3>1. worker[w].proof \in Proof
        BY <2>2 DEF TryInsert, StoreInv, TypeOK
      <3>2. accepts' # [accepts EXCEPT ![worker[w].proof] = @ + 1]
        BY <2>2, <3>1, <1>t
      <3> QED
        BY <2>2, <3>2 DEF TryInsert, Accepted
    <2> QED
      BY <1>6, <2>1, <2>2 DEF WorkerStep
  <1>7. CASE CleanerStep \/ Shutdown
    BY <1>1, <1>3, <1>7 DEF CleanerStep, TickFires, DrainQueue, StopCleaner, Shutdown
  <1>8. CASE Restart
    BY <1>8 DEF Restart, RememberedWhileUsable, AcceptedOnce
  <1> QED
    BY <1>1, <1>2, <1>4, <1>5, <1>6, <1>7, <1>8 DEF Next, vars

(* FR-021 holds for every interleaving when the configured window exceeds  *)
(* freshness plus twice the skew plus the longest stall of a request.      *)
THEOREM ReplayProtection == WindowCoversLifetime => (Spec => []AcceptedOnce)
  <1> SUFFICES ASSUME WindowCoversLifetime PROVE Spec => []AcceptedOnce
    OBVIOUS
  <1>1. StoreInv /\ ReplayInv /\ [Next]_vars => ReplayInv'
    BY WorkerInvStep, RememberedStep DEF ReplayInv
  <1>2. ReplayInv => AcceptedOnce
    BY DEF ReplayInv
  <1> QED
    BY <1>1, <1>2, ReplayInvInit, StoreConsistent, PTL DEF Spec

-----------------------------------------------------------------------------
(* Eviction in time.                                                       *)

(* A token that is pushed is not due yet.                                  *)
LEMMA PushedInTime ==
    ASSUME WindowOutlastsStall, StoreInv, WorkerInv, NEW w \in Workers, Owes(w)
    PROVE  now <= OwedToken(w).deadline
  <1>1. worker[w].at \in Nat /\ worker[w].deadline \in Nat /\ now \in Nat
    BY DEF StoreInv, TypeOK, WorkerState
  <1>2. now <= worker[w].at + Stall /\ worker[w].at + Window <= worker[w].deadline
    BY DEF WorkerInv, Owes
  <1> QED
    BY <1>1, <1>2, ConfigAssumption, EnvironmentAssumption DEF WindowOutlastsStall, OwedToken

LEMMA TimelyStep ==
    ASSUME WindowOutlastsStall, StoreInv, WorkerInv, TimelyInv, [Next]_vars
    PROVE  TimelyInv'
  <1> USE ConfigAssumption, EnvironmentAssumption, PeriodType
  <1> DEFINE P == TickPeriod
  <1>t. /\ now \in Nat /\ cleaner \in CleanerState
        /\ cleaner.next \in Nat /\ cleaner.at \in Nat /\ cleaner.at <= now
        /\ \A t \in queue \cup cleaner.expired : t.deadline \in Nat
        /\ cleaner.pc # "drained" => cleaner.expired = {}
    BY DEF StoreInv, TypeOK, CleanerInv, CleanerState, Token
  <1>1. CASE UNCHANGED <<queue, cleaner, now>>
    BY <1>1 DEF TimelyInv
  <1>2. ASSUME NEW w \in Workers, PushExpiry(w) PROVE TimelyInv'
    <2>1. /\ queue' = queue \cup {OwedToken(w)} /\ Owes(w)
          /\ UNCHANGED <<cleaner, now>>
      BY <1>2 DEF PushExpiry, OwedToken, Owes
    <2>2. now <= OwedToken(w).deadline /\ OwedToken(w).deadline \in Nat
      BY <2>1, PushedInTime DEF OwedToken, StoreInv, TypeOK, WorkerState
    <2> HIDE DEF P
    <2> QED
      BY <1>t, <2>1, <2>2 DEF TimelyInv
  <1>3. CASE TickFires
    <2>1. /\ cleaner.pc = "waiting" /\ cleaner.next <= now
          /\ cleaner'.pc = "ticked" /\ cleaner'.at = now
          /\ cleaner'.next = cleaner.next + P /\ cleaner'.expired = {}
          /\ UNCHANGED <<queue, now>>
      BY <1>3, <1>t DEF TickFires, CleanerState
    <2> QED
      BY <1>t, <2>1 DEF TimelyInv
  <1>4. CASE DrainQueue
    <2> DEFINE E == {t \in queue : t.deadline <= cleaner.at}
    <2>1. /\ queue' = queue \ E
          /\ cleaner'.expired = E /\ cleaner'.at = cleaner.at /\ cleaner'.next = cleaner.next
          /\ cleaner'.pc = IF E = {} THEN "waiting" ELSE "drained"
          /\ cleaner.pc = "ticked" /\ now' = now
      BY <1>4, <1>t DEF DrainQueue, CleanerState
    <2>2. \A t \in queue' : cleaner.at <= t.deadline /\ t \in queue
      BY <1>t, <2>1
    <2>3. \A t \in cleaner'.expired : t \in queue
      BY <2>1
    <2>4. now <= cleaner.at + Lag /\ cleaner.next <= cleaner.at + P
          /\ \A t \in queue : cleaner.at <= t.deadline + P + Lag
          /\ cleaner.next <= now + P
      BY <2>1 DEF TimelyInv
    <2>5. \A t \in queue' : cleaner.next <= t.deadline + P /\ now <= t.deadline + P + Lag
      BY <1>t, <2>2, <2>4
    <2> HIDE DEF E
    <2> QED
      BY <2>1, <2>2, <2>3, <2>4, <2>5 DEF TimelyInv
  <1>5. CASE RemoveExpired
    <2>1. /\ cleaner.pc = "drained" /\ cleaner'.pc = "waiting" /\ cleaner'.expired = {}
          /\ cleaner'.at = cleaner.at /\ cleaner'.next = cleaner.next
          /\ UNCHANGED <<queue, now>>
      BY <1>5, <1>t DEF RemoveExpired, CleanerState
    <2>2. \A t \in queue : cleaner.next <= t.deadline + P /\ now <= t.deadline + P + Lag
      BY <1>t, <2>1 DEF TimelyInv
    <2> QED
      BY <2>1, <2>2 DEF TimelyInv
  <1>6. CASE StopCleaner
    BY <1>6, <1>t DEF StopCleaner, CleanerState, TimelyInv
  <1>7. CASE ClockTicks
    <2>1. /\ now' = now + 1 /\ UNCHANGED <<queue, cleaner>>
          /\ cleaner.pc = "waiting" => now < cleaner.next + Lag
          /\ cleaner.pc \in {"ticked", "drained"} => now < cleaner.at + Lag
      BY <1>7 DEF ClockTicks
    <2>2. cleaner.pc = "waiting" => \A t \in queue : now + 1 <= t.deadline + P + Lag
      BY <1>t, <2>1 DEF TimelyInv
    <2>3. cleaner.pc \in {"ticked", "drained"} => now + 1 <= cleaner.at + Lag
      BY <1>t, <2>1
    <2>4. cleaner.pc # "stopped" => cleaner.next <= now + 1 + P
      BY <1>t DEF TimelyInv
    <2> QED
      BY <2>1, <2>2, <2>3, <2>4 DEF TimelyInv
  <1>8. CASE Restart
    <2>1. /\ queue' = {} /\ cleaner'.expired = {} /\ cleaner'.pc = "waiting"
          /\ cleaner'.next = now + P /\ now' = now
      BY <1>8 DEF Restart, NewCleaner
    <2> QED
      BY <1>t, <2>1 DEF TimelyInv
  <1>9. ASSUME NEW w \in Workers, NEW p \in Proof,
               CheckFreshness(w, p) \/ ComputeDeadline(w) \/ TryInsert(w)
        PROVE  UNCHANGED <<queue, cleaner, now>>
    BY <1>9 DEF CheckFreshness, ComputeDeadline, TryInsert
  <1>10. ASSUME NEW w \in Workers, ComputeDeadline(w) \/ TryInsert(w)
         PROVE  UNCHANGED <<queue, cleaner, now>>
    BY <1>10 DEF ComputeDeadline, TryInsert
  <1>11. CASE Shutdown \/ UNCHANGED vars
    BY <1>1, <1>11 DEF Shutdown, vars
  <1> QED
    BY <1>1, <1>2, <1>3, <1>4, <1>5, <1>6, <1>7, <1>8, <1>9, <1>10, <1>11
       DEF Next, WorkerStep, CleanerStep

LEMMA TimelyIsTimely ==
    ASSUME WindowOutlastsStall, StoreInv, WorkerInv, TimelyInv PROVE EvictionIsTimely
  <1> USE ConfigAssumption, EnvironmentAssumption, PeriodType
  <1> SUFFICES ASSUME cleaner.pc # "stopped", NEW k \in DOMAIN entries
               PROVE  now <= entries[k] + TickPeriod + 2 * Lag
    BY DEF EvictionIsTimely
  <1> DEFINE t == [key |-> k, deadline |-> entries[k]]
  <1>t. /\ now \in Nat /\ cleaner.next \in Nat /\ cleaner.at \in Nat /\ entries[k] \in Nat
        /\ cleaner.pc \in {"waiting", "ticked", "drained"}
        /\ cleaner.pc # "drained" => cleaner.expired = {}
    BY DEF StoreInv, TypeOK, CleanerInv, CleanerState
  <1>1. CASE t \in queue
    BY <1>1, <1>t DEF TimelyInv
  <1>2. CASE t \in cleaner.expired
    BY <1>2, <1>t DEF TimelyInv
  <1>3. ASSUME NEW w \in Workers, Owes(w), OwedToken(w) = t PROVE now <= entries[k]
    BY <1>3, PushedInTime
  <1> QED
    BY <1>1, <1>2, <1>3, <1>t DEF StoreInv, EveryEntryExpires

(* An expired entry is gone a quarter of the window after its deadline, up *)
(* to the delays of the scheduler, whatever workers and cleanup interleave *)
(* and also when ticks fall behind, as long as no request takes longer     *)
(* than the window to push its token.                                      *)
THEOREM EvictionInTime == WindowOutlastsStall => (Spec => []EvictionIsTimely)
  <1> SUFFICES ASSUME WindowOutlastsStall PROVE Spec => []EvictionIsTimely
    OBVIOUS
  <1>1. Init => WorkerInv
    BY ReplayInvInit DEF ReplayInv
  <1>2. Init => TimelyInv
    BY PeriodType DEF Init, NewCleaner, TimelyInv
  <1>3. StoreInv /\ WorkerInv /\ TimelyInv /\ [Next]_vars => (WorkerInv /\ TimelyInv)'
    BY WorkerInvStep, TimelyStep
  <1>4. StoreInv /\ WorkerInv /\ TimelyInv => EvictionIsTimely
    BY TimelyIsTimely
  <1> QED
    BY <1>1, <1>2, <1>3, <1>4, StoreConsistent, PTL DEF Spec

-----------------------------------------------------------------------------
(* A restart forgets the store, and still a proof has one lifetime.        *)

LEMMA FirstInvStep ==
    ASSUME StoreInv, WorkerInv, FirstInv, [Next]_vars
    PROVE  FirstInv'
  <1> USE ConfigAssumption, EnvironmentAssumption
  <1>1. CASE past'.first = past.first
    BY <1>1 DEF FirstInv
  <1>2. ASSUME NEW w \in Workers, TryInsert(w) PROVE FirstInv'
    <2> DEFINE p == worker[w].proof
    <2>1. CASE UNCHANGED past
      BY <1>1, <2>1
    <2>2. CASE /\ Accepted(p) /\ past' # past
      <3>1. /\ p \in Proof /\ p.iat \in Nat /\ worker[w].at \in Nat /\ now \in Nat
            /\ worker[w].pc # "idle"
        BY <1>2 DEF TryInsert, StoreInv, TypeOK, WorkerState, Proof
      <3>2. p.iat <= now + Skew
        BY <3>1 DEF WorkerInv
      <3>3. past' = [past EXCEPT !.first = [@ EXCEPT ![p] = now]]
        BY <2>2 DEF Accepted
      <3>4. past \in [boots : Nat, first : [Proof -> Nat \cup {Never}]]
        BY DEF StoreInv, TypeOK
      <3>5. past'.first = [past.first EXCEPT ![p] = now]
        BY <3>3, <3>4
      <3> QED
        BY <3>1, <3>2, <3>4, <3>5 DEF FirstInv
    <2> QED
      BY <1>2, <2>1, <2>2 DEF TryInsert
  <1>3. CASE Restart
    BY <1>1, <1>3 DEF Restart, StoreInv, TypeOK
  <1> QED
    BY <1>1, <1>2, <1>3 DEF Next, vars, CheckFreshness, WorkerStep, ComputeDeadline, PushExpiry,
       CleanerStep, TickFires, DrainQueue, RemoveExpired, StopCleaner, Shutdown, ClockTicks

(* The step that accepts a proof is in the lifetime that began with its    *)
(* first acceptance.                                                       *)
LEMMA ReuseStep ==
    ASSUME StoreInv, WorkerInv, FirstInv, Next,
           NEW p \in Proof, accepts'[p] > accepts[p], past.first[p] # Never
    PROVE  now <= past.first[p] + Lifetime
  <1> USE ConfigAssumption, EnvironmentAssumption
  <1>1. accepts \in [Proof -> Nat] /\ past.first[p] \in Nat /\ p.iat \in Nat /\ now \in Nat
    BY DEF StoreInv, TypeOK, Proof
  <1>2. PICK w \in Workers : TryInsert(w)
    <2>1. accepts' # accepts
      BY <1>1
    <2>2. ~Restart
      BY <1>1 DEF Restart
    <2> QED
      BY <2>1, <2>2 DEF Next, CheckFreshness, WorkerStep, ComputeDeadline, PushExpiry,
         CleanerStep, TickFires, DrainQueue, RemoveExpired, StopCleaner, Shutdown, ClockTicks
  <1>3. worker[w].proof = p
    <2>1. accepts' = [accepts EXCEPT ![worker[w].proof] = @ + 1]
      BY <1>1, <1>2 DEF TryInsert, Accepted
    <2> QED
      BY <1>1, <2>1
  <1>4. worker[w].at \in Nat /\ worker[w].pc # "idle"
    BY <1>2 DEF TryInsert, StoreInv, TypeOK, WorkerState
  <1> QED
    BY <1>1, <1>3, <1>4 DEF WorkerInv, FirstInv, Lifetime

(* Whatever the window and however often the process is restarted, a proof *)
(* is accepted again only within freshness plus twice the skew plus the    *)
(* stall of a request after it was accepted first.                         *)
THEOREM ReuseIsBounded == Spec => ReuseBounded
  <1>1. Init => WorkerInv /\ FirstInv
    BY DEF Init, Idle, WorkerInv, FirstInv
  <1>2. StoreInv /\ WorkerInv /\ FirstInv /\ [Next]_vars => (WorkerInv /\ FirstInv)'
    BY WorkerInvStep, FirstInvStep
  <1>3. StoreInv /\ WorkerInv /\ FirstInv /\ [Next]_vars =>
          [\A p \in Proof : accepts'[p] > accepts[p] /\ past.first[p] # Never =>
              now <= past.first[p] + Lifetime]_vars
    BY ReuseStep
  <1> QED
    BY <1>1, <1>2, <1>3, StoreConsistent, PTL DEF Spec, ReuseBounded

-----------------------------------------------------------------------------
(* No false alarm.                                                         *)

LEMMA NoVerdictYetStep ==
    ASSUME TypeOK, NoVerdictYet, [Next]_vars
    PROVE  NoVerdictYet'
  <1>t. worker \in [Workers -> WorkerState]
    BY DEF TypeOK
  <1>1. ASSUME NEW w \in Workers, NEW p \in Proof, CheckFreshness(w, p) PROVE NoVerdictYet'
    BY <1>1, <1>t DEF CheckFreshness, Idle, NoVerdictYet
  <1>2. ASSUME NEW w \in Workers, NEW v \in Verdict, Return(w, v) PROVE NoVerdictYet'
    BY <1>2, <1>t DEF Return, Idle, NoVerdictYet
  <1>3. ASSUME NEW w \in Workers, WorkerStep(w) PROVE NoVerdictYet'
    <2>1. CASE \E v \in Verdict : Return(w, v)
      BY <1>2, <2>1
    <2>2. CASE /\ \A v \in Workers \ {w} : worker'[v] = worker[v]
               /\ worker[w].pc # "idle" /\ worker'[w].verdict = worker[w].verdict
      BY <1>t, <2>2 DEF NoVerdictYet
    <2>3. CASE ComputeDeadline(w)
      BY <1>t, <2>1, <2>2, <2>3 DEF ComputeDeadline, Verdict, WorkerState
    <2>4. CASE TryInsert(w)
      BY <1>t, <2>1, <2>2, <2>4 DEF TryInsert, Verdict, WorkerState
    <2>5. CASE PushExpiry(w)
      BY <2>1, <2>5 DEF PushExpiry, Verdict
    <2> QED
      BY <1>3, <2>3, <2>4, <2>5 DEF WorkerStep
  <1>4. CASE worker' = worker
    BY <1>4 DEF NoVerdictYet
  <1>5. CASE Restart
    BY <1>5 DEF Restart, Idle, NoVerdictYet
  <1> QED
    BY <1>1, <1>3, <1>4, <1>5
    DEF Next, vars, CleanerStep, TickFires, DrainQueue, RemoveExpired, StopCleaner,
        Shutdown, ClockTicks

LEMMA StoredWasAcceptedStep ==
    ASSUME TypeOK, StoredWasAccepted, [Next]_vars
    PROVE  StoredWasAccepted'
  <1>t. /\ worker \in [Workers -> WorkerState] /\ accepts \in [Proof -> Nat]
        /\ \A w \in Workers : worker[w].pc # "idle" => worker[w].proof \in Proof
    BY DEF TypeOK
  <1>1. CASE accepts' = accepts /\ DOMAIN entries' \subseteq DOMAIN entries
    BY <1>1 DEF StoredWasAccepted
  <1>2. ASSUME NEW w \in Workers, TryInsert(w) PROVE StoredWasAccepted'
    <2> DEFINE p == worker[w].proof
    <2>1. p \in Proof
      BY <1>2, <1>t DEF TryInsert
    <2>2. CASE UNCHANGED <<entries, accepts, past>>
      BY <1>1, <2>2
    <2>3. CASE /\ DOMAIN entries' = DOMAIN entries \cup {JtiKey(p)}
               /\ accepts' = [accepts EXCEPT ![p] = @ + 1]
      <3>1. accepts'[p] > 0 /\ \A q \in Proof : accepts[q] > 0 => accepts'[q] > 0
        BY <1>t, <2>1, <2>3
      <3> QED
        BY <2>1, <2>3, <3>1 DEF StoredWasAccepted
    <2> QED
      BY <1>2, <2>2, <2>3 DEF TryInsert, Accepted
  <1>3. CASE Restart
    BY <1>3 DEF Restart, StoredWasAccepted
  <1> QED
    BY <1>1, <1>2, <1>3
    DEF Next, vars, WorkerStep, CheckFreshness, ComputeDeadline, PushExpiry, CleanerStep,
        TickFires, DrainQueue, RemoveExpired, StopCleaner, Shutdown, ClockTicks

(* Only the replay test of try_insert answers ProofReplayed.               *)
LEMMA RejectionStep ==
    ASSUME TypeOK, NoVerdictYet, StoredWasAccepted, [Next]_vars,
           NEW w \in Workers, worker[w].pc # "idle", worker'[w].verdict = "ProofReplayed"
    PROVE  \E q \in Proof : /\ q.aud = worker[w].proof.aud
                            /\ q.jti = worker[w].proof.jti
                            /\ accepts[q] > 0
  <1>t. worker \in [Workers -> WorkerState] /\ worker[w].verdict = "none"
    BY DEF TypeOK, NoVerdictYet
  <1>1. CASE TryInsert(w) /\ JtiKey(worker[w].proof) \in DOMAIN entries
    BY <1>1 DEF StoredWasAccepted, JtiKey
  <1>2. ASSUME NEW v \in Verdict \ {"ProofReplayed"}, Return(w, v) PROVE FALSE
    BY <1>2, <1>t DEF Return, Idle
  <1>3. CASE worker'[w].verdict = worker[w].verdict
    BY <1>t, <1>3
  <1>4. CASE \E v \in Workers \ {w} : WorkerStep(v)
    BY <1>t, <1>3, <1>4 DEF WorkerStep, ComputeDeadline, TryInsert, PushExpiry, Return
  <1>5. CASE WorkerStep(w)
    <2>1. CASE ComputeDeadline(w)
      BY <1>t, <1>2, <1>3, <2>1 DEF ComputeDeadline, Verdict, WorkerState
    <2>2. CASE TryInsert(w)
      BY <1>t, <1>1, <1>2, <1>3, <2>2 DEF TryInsert, Verdict, WorkerState
    <2>3. CASE PushExpiry(w)
      BY <1>2, <2>3 DEF PushExpiry, Verdict
    <2> QED
      BY <1>5, <2>1, <2>2, <2>3 DEF WorkerStep
  <1>6. ASSUME NEW v \in Workers, NEW p \in Proof, CheckFreshness(v, p) PROVE FALSE
    BY <1>6, <1>t DEF CheckFreshness
  <1>7. CASE Restart
    BY <1>7 DEF Restart, Idle
  <1>8. CASE worker' = worker
    BY <1>3, <1>8
  <1> QED
    BY <1>4, <1>5, <1>6, <1>7, <1>8
    DEF Next, vars, CleanerStep, TickFires, DrainQueue, RemoveExpired, StopCleaner,
        Shutdown, ClockTicks

(* A first use is never answered ProofReplayed.                            *)
THEOREM NoFalseReplay == Spec => RejectionJustified
  <1>1. Init => NoVerdictYet /\ StoredWasAccepted
    BY DEF Init, Idle, NoVerdictYet, StoredWasAccepted
  <1>2. TypeOK /\ NoVerdictYet /\ StoredWasAccepted /\ [Next]_vars =>
            (NoVerdictYet /\ StoredWasAccepted)'
    BY NoVerdictYetStep, StoredWasAcceptedStep
  <1>3. TypeOK /\ NoVerdictYet /\ StoredWasAccepted /\ [Next]_vars =>
          [\A w \in Workers :
              worker[w].pc # "idle" /\ worker'[w].verdict = "ProofReplayed" =>
                  \E q \in Proof : /\ q.aud = worker[w].proof.aud
                                   /\ q.jti = worker[w].proof.jti
                                   /\ accepts[q] > 0]_vars
    BY RejectionStep
  <1>4. StoreInv => TypeOK
    BY DEF StoreInv
  <1> QED
    BY <1>1, <1>2, <1>3, <1>4, StoreConsistent, PTL DEF Spec, RejectionJustified

-----------------------------------------------------------------------------
(* The two-lock store implements the atomic store: the insert takes effect *)
(* in the critical section on the entries, the eviction when the popped    *)
(* keys are removed, and every other step is a stutter or a clock tick.    *)
LEMMA CacheStep == StoreInv /\ [Next]_vars => [Cache!Next]_<<entries, now, past.boots>>
  <1> SUFFICES ASSUME StoreInv, [Next]_vars, ~UNCHANGED <<entries, now, past.boots>>
               PROVE  Cache!Next
    BY DEF vars
  <1>p. past \in [boots : Nat, first : [Proof -> Nat \cup {Never}]]
    BY DEF StoreInv, TypeOK
  <1>1. ASSUME NEW w \in Workers, TryInsert(w) PROVE Cache!Next
    <2>0. past'.boots = past.boots
      BY <1>1, <1>p DEF TryInsert, Accepted
    <2> DEFINE key == JtiKey(worker[w].proof)
    <2>1. key \in Keys /\ worker[w].deadline \in Nat
      BY <1>1, KeyType DEF TryInsert, StoreInv, TypeOK, WorkerState
    <2>2. /\ key \notin DOMAIN entries
          /\ Cardinality(DOMAIN entries) < MaxEntries
          /\ entries' = [k \in DOMAIN entries \cup {key} |->
                            IF k = key THEN worker[w].deadline ELSE entries[k]]
          /\ now' = now
      BY <1>1, <2>0 DEF TryInsert, StoreLen
    <2> HIDE DEF key
    <2>3. /\ entries' \in [DOMAIN entries \cup {key} -> Nat]
          /\ \A j \in DOMAIN entries : entries'[j] = entries[j]
      BY <2>1, <2>2 DEF StoreInv, TypeOK
    <2>4. Cache!Cardinality(DOMAIN entries) = Cardinality(DOMAIN entries)
      BY Zenon DEF Cache!Cardinality, Cardinality
    <2>5. Cache!Insert(key)
      BY <2>0, <2>1, <2>2, <2>3, <2>4 DEF Cache!Insert
    <2> QED
      BY <2>1, <2>5 DEF Cache!Next
  <1>2. CASE RemoveExpired
    <2> DEFINE K == {t.key : t \in cleaner.expired}
    <2>1. \A t \in cleaner.expired : t.key \in DOMAIN entries /\ entries[t.key] <= now
      <3>1. \A t \in cleaner.expired : /\ t.deadline \in Nat /\ t.deadline <= cleaner.at
                                       /\ t.key \in DOMAIN entries
                                       /\ entries[t.key] = t.deadline
        BY DEF StoreInv, EveryTokenIsCurrent, CleanerInv, TypeOK, CleanerState, Token
      <3>2. cleaner.at \in Nat /\ now \in Nat /\ cleaner.at <= now
        BY DEF StoreInv, CleanerInv, TypeOK, CleanerState
      <3> QED
        BY <3>1, <3>2
    <2>2. Cache!Expire(K)
      BY <1>2, <2>1 DEF RemoveExpired, Cache!Expire
    <2>3. K \in SUBSET DOMAIN entries
      BY <2>1
    <2> HIDE DEF K
    <2> QED
      BY <2>2, <2>3 DEF Cache!Next
  <1>3. CASE ClockTicks
    BY <1>3 DEF ClockTicks, Cache!Next, Cache!Advance
  <1>4. CASE Restart
    BY <1>4, <1>p DEF Restart, Cache!Next, Cache!Restart
  <1> QED
    BY <1>1, <1>2, <1>3, <1>4 DEF Next, vars, CheckFreshness, WorkerStep, ComputeDeadline,
       PushExpiry, CleanerStep, TickFires, DrainQueue, StopCleaner, Shutdown

(* Refinement: ReplayStore implements ReplayCache.                         *)
THEOREM StoreImplementsCache == Spec => ImplementsCache
  <1>1. Init => Cache!Init
    BY DEF Init, Cache!Init
  <1> QED
    BY <1>1, CacheStep, StoreConsistent, PTL DEF Spec, ImplementsCache, Cache!Spec, Cache!vars

=============================================================================
