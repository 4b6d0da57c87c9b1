-------------------------- MODULE AuthPipelineProofs --------------------------
(***************************************************************************)
(* Proofs about AuthPipeline, for any set of requests, whatever their      *)
(* clients send, however the key sets change and whatever the clock shows. *)
(***************************************************************************)
EXTENDS AuthPipeline, FiniteSetTheorems, TLAPS

(* The checks.  FirstFailure is "none" exactly when every check passes.    *)
LEMMA LeastOfFew ==
    ASSUME NEW S \in SUBSET (1..9), S # {}
    PROVE  \E i \in S : \A j \in S : i <= j
  <1>1. CASE 1 \in S
    BY <1>1
  <1>2. CASE 1 \notin S /\ 2 \in S
    BY <1>2
  <1>3. CASE 1 \notin S /\ 2 \notin S /\ 3 \in S
    BY <1>3
  <1>4. CASE 1 \notin S /\ 2 \notin S /\ 3 \notin S
    <2>1. PICK m \in S : TRUE
      OBVIOUS
    <2>2. \A i \in S : i \in 4..9
      BY <1>4
    <2> QED
      BY <2>1, <2>2
  <1> QED
    BY <1>1, <1>2, <1>3, <1>4

LEMMA FirstFailureNone ==
    ASSUME NEW n \in 1..9, NEW checks, DOMAIN checks = 1..n,
           \A i \in 1..n : checks[i].failure # "none"
    PROVE  FirstFailure(checks) = "none" <=> \A i \in 1..n : checks[i].ok
  <1> DEFINE bad == {i \in 1..n : ~checks[i].ok}
             least == CHOOSE i \in bad : \A j \in bad : i <= j
  <1>1. CASE bad = {}
    BY <1>1 DEF FirstFailure
  <1>2. CASE bad # {}
    <2>1. \E i \in bad : \A j \in bad : i <= j
      BY <1>2, LeastOfFew
    <2>2. least \in bad
      BY <2>1
    <2>3. FirstFailure(checks) = checks[least].failure
      BY <1>2 DEF FirstFailure
    <2> QED
      BY <2>2, <2>3
  <1> QED
    BY <1>1, <1>2

LEMMA HeaderChecks ==
    ASSUME NEW r \in Requests, NEW a \in Arrivals[r]
    PROVE  HeaderFailure(a) = "none" <=> HeadersGood(a)
  <1>1. CASE a.token = Nothing
    BY <1>1 DEF HeaderFailure, HeadersGood
  <1>2. CASE a.token # Nothing
    <2> DEFINE checks == <<Check(a.proof # Nothing, "MissingProof"),
                           Check(a.host, "ProofHtuMismatch"),
                           Check(a.token.alg, "InvalidAlg")>>
    <2>1. /\ DOMAIN checks = 1..3 /\ \A i \in 1..3 : checks[i].failure # "none"
          /\ checks[1].ok = (a.proof # Nothing) /\ checks[2].ok = a.host
          /\ checks[3].ok = a.token.alg
      BY DEF Check
    <2>2. HeaderFailure(a) = FirstFailure(checks)
      BY <1>2 DEF HeaderFailure
    <2> HIDE DEF checks
    <2>3. FirstFailure(checks) = "none" <=> \A i \in 1..3 : checks[i].ok
      BY <2>1, FirstFailureNone
    <2>4. (\A i \in 1..3 : checks[i].ok) <=> checks[1].ok /\ checks[2].ok /\ checks[3].ok
      OBVIOUS
    <2> QED
      BY <1>2, <2>1, <2>2, <2>3, <2>4, ArrivalAssumption DEF HeadersGood, IsToken
  <1> QED
    BY <1>1, <1>2

LEMMA ClaimChecks ==
    ASSUME NEW r \in Requests, NEW a \in Arrivals[r], a.token # Nothing, now \in Nat
    PROVE  ClaimFailure(a.token, CtxOf(a.route)) = "none" <=> ClaimsGood(a, now, now)
  <1> DEFINE t == a.token
             c == CtxOf(a.route)
             checks == <<Check(t.whole, "TokenMissingClaim"),
                         Check(t.iss = c, "TokenIssuerMismatch"),
                         Check(t.aud = c, "TokenAudienceMismatch"),
                         Check(t.exp + Skew > now, "TokenExpired"),
                         Check(t.nbf <= now + Skew, "TokenNotYetValid")>>
  <1>1. /\ DOMAIN checks = 1..5 /\ \A i \in 1..5 : checks[i].failure # "none"
        /\ checks[1].ok = t.whole /\ checks[2].ok = (t.iss = c) /\ checks[3].ok = (t.aud = c)
        /\ checks[4].ok = (t.exp + Skew > now) /\ checks[5].ok = (t.nbf <= now + Skew)
    BY DEF Check
  <1>2. ClaimFailure(t, c) = FirstFailure(checks)
    BY DEF ClaimFailure
  <1> HIDE DEF checks
  <1>3. FirstFailure(checks) = "none" <=> \A i \in 1..5 : checks[i].ok
    BY <1>1, FirstFailureNone
  <1>4. (\A i \in 1..5 : checks[i].ok) <=>
           checks[1].ok /\ checks[2].ok /\ checks[3].ok /\ checks[4].ok /\ checks[5].ok
    OBVIOUS
  <1> QED
    BY <1>1, <1>2, <1>3, <1>4 DEF ClaimsGood

(* The window of dpop_freshness_secs, widened by the skew on both sides.   *)
LEMMA WindowBounds ==
    ASSUME NEW iat \in Nat, now \in Nat
    PROVE  InWindow(iat) <=> iat + Freshness + Skew >= now /\ iat <= now + Skew
  BY PipelineAssumption DEF InWindow

LEMMA SchemeIs ==
    ASSUME NEW a
    PROVE  EffectiveScheme(a) =
              IF a.peer = "trusted" /\ a.proto = "https" THEN "https" ELSE "http"
  BY DEF EffectiveScheme

LEMMA ProofChecks ==
    ASSUME NEW r \in Requests, NEW a \in Arrivals[r], a.proof # Nothing, now \in Nat
    PROVE  ProofFailure(a) = "none" <=> ProofGood(a, now, now) /\ DeadlineFits
  <1> DEFINE p == a.proof
             checks == <<Check(p.alg, "InvalidAlg"),
                         Check(p.sound, "ProofSignatureInvalid"),
                         Check(p.htm = a.method, "ProofHtmMismatch"),
                         Check(/\ p.htu = a.route
                               /\ p.scheme = EffectiveScheme(a), "ProofHtuMismatch"),
                         Check(InWindow(p.iat), "ProofIatStale"),
                         Check(p.key = a.token.jkt, "ProofJktMismatch"),
                         Check(p.ath = a.token, "ProofAthMismatch"),
                         Check(p.jti # Nothing, "ProofMissingClaim"),
                         Check(DeadlineFits, "ProofIatStale")>>
  <1>1. /\ DOMAIN checks = 1..9 /\ \A i \in 1..9 : checks[i].failure # "none"
        /\ checks[1].ok = p.alg /\ checks[2].ok = p.sound /\ checks[3].ok = (p.htm = a.method)
        /\ checks[4].ok = (p.htu = a.route /\ p.scheme = EffectiveScheme(a))
        /\ checks[5].ok <=> InWindow(p.iat)
        /\ checks[6].ok = (p.key = a.token.jkt)
        /\ checks[7].ok = (p.ath = a.token) /\ checks[8].ok = (p.jti # Nothing)
        /\ checks[9].ok <=> DeadlineFits
    <2>1. DOMAIN checks = 1..9
      OBVIOUS
    <2>2. \A i \in 1..9 : checks[i].failure # "none"
      BY DEF Check
    <2>3. checks[1].ok = p.alg /\ checks[2].ok = p.sound /\ checks[3].ok = (p.htm = a.method)
      BY DEF Check
    <2>4. checks[4].ok = (p.htu = a.route /\ p.scheme = EffectiveScheme(a))
      BY DEF Check
    <2>5. checks[5].ok <=> InWindow(p.iat)
      BY DEF Check
    <2>6. /\ checks[6].ok = (p.key = a.token.jkt)
          /\ checks[7].ok = (p.ath = a.token) /\ checks[8].ok = (p.jti # Nothing)
      BY DEF Check
    <2>7. checks[9].ok <=> DeadlineFits
      BY DEF Check
    <2> QED
      BY <2>1, <2>2, <2>3, <2>4, <2>5, <2>6, <2>7
  <1>2. ProofFailure(a) = FirstFailure(checks)
    BY DEF ProofFailure
  <1> HIDE DEF checks
  <1>3. FirstFailure(checks) = "none" <=> \A i \in 1..9 : checks[i].ok
    BY <1>1, FirstFailureNone
  <1>4. (\A i \in 1..9 : checks[i].ok) <=>
           /\ checks[1].ok /\ checks[2].ok /\ checks[3].ok /\ checks[4].ok
           /\ checks[5].ok /\ checks[6].ok /\ checks[7].ok /\ checks[8].ok /\ checks[9].ok
    OBVIOUS
  <1>5. InWindow(p.iat) <=> p.iat + Freshness + Skew >= now /\ p.iat <= now + Skew
    BY WindowBounds, ArrivalAssumption DEF IsProof
  <1> QED
    BY <1>1, <1>2, <1>3, <1>4, <1>5, SchemeIs DEF ProofGood

-----------------------------------------------------------------------------
(* PipelineInv, taken apart by request: q may be the state of request r    *)
(* while the contexts trust the keys ks and the clock shows t.             *)
SoundRequest(r, q, ks, t) ==
    LET a == q.arrival
        Past(steps) == q.pc \in steps \/ (q.pc = "handler" /\ Guarded(a))
    IN  /\ q \in RequestState
        /\ q.pc # "idle" => /\ a \in Arrivals[r]
                            /\ q.since <= t
                            /\ q.always \subseteq ks[CtxOf(a.route)]
                            /\ ks[CtxOf(a.route)] \subseteq q.ever
        /\ q.pc = "handler" /\ Guarded(a) => q.subject # Nothing
        /\ Past({"verify", "refresh", "reverify", "claims", "proof", "insert"}) =>
              HeadersGood(a) /\ a.method \in AuthMethods(a.route)
        /\ Past({"claims", "proof", "insert"}) => a.token.key \in q.ever
        /\ Past({"proof", "insert"}) => ClaimsGood(a, q.since, t)
        /\ Past({"insert"}) => ProofGood(a, q.since, t)
        /\ q.pc \in {"refresh", "reverify"} => a.token.key \notin q.always

SharedInv ==
    /\ jwks \in [Contexts -> (SUBSET Keys) \ {{}}]
    /\ rotations \in 0..MaxRotations
    /\ IsFiniteSet(seen) /\ Cardinality(seen) <= Capacity
    /\ now \in 0..MaxTime

LEMMA PipelineParts ==
    PipelineInv <=> /\ SharedInv /\ req \in [Requests -> RequestState]
                    /\ \A r \in Requests : SoundRequest(r, req[r], jwks, now)
  BY DEF PipelineInv, TypeOK, HistoryInv, StagesInv, Reached, SoundRequest, SharedInv

(* The same in the next state.                                             *)
LEMMA PipelinePartsNext ==
    ASSUME SharedInv', req' \in [Requests -> RequestState],
           \A r \in Requests : SoundRequest(r, req'[r], jwks', now')
    PROVE  PipelineInv'
  BY DEF PipelineInv, TypeOK, HistoryInv, StagesInv, Reached, SoundRequest, SharedInv

LEMMA IdleIsSound ==
    ASSUME NEW r, NEW ks, NEW t,
           NEW answer \in {"none", "200", "204", "400", "401", "404", "503"}
    PROVE  SoundRequest(r, Idle(answer), ks, t)
  BY PipelineAssumption DEF SoundRequest, RequestState, Idle

(* A step of one request that leaves it sound.                             *)
LEMMA RequestStep ==
    ASSUME PipelineInv, NEW r \in Requests, NEW s, Set(r, s),
           SoundRequest(r, s, jwks, now), UNCHANGED <<jwks, rotations, now>>,
           IsFiniteSet(seen') /\ Cardinality(seen') <= Capacity
    PROVE  PipelineInv'
  <1>1. /\ SharedInv /\ req \in [Requests -> RequestState]
        /\ \A q \in Requests : SoundRequest(q, req[q], jwks, now)
    BY PipelineParts
  <1>2. s \in RequestState
    BY DEF SoundRequest
  <1>3. /\ req' \in [Requests -> RequestState] /\ req'[r] = s
        /\ \A q \in Requests \ {r} : req'[q] = req[q]
    BY <1>1, <1>2 DEF Set
  <1>4. SharedInv'
    BY <1>1 DEF SharedInv
  <1>5. \A q \in Requests : SoundRequest(q, req'[q], jwks', now')
    BY <1>1, <1>3
  <1> QED
    BY <1>3, <1>4, <1>5, PipelinePartsNext

(* The routes that serve a method are those that authenticate it, but for  *)
(* the health check.                                                       *)
LEMMA GuardedIsAuthenticated ==
    ASSUME NEW a
    PROVE  /\ Guarded(a) => a.method \in AuthMethods(a.route)
           /\ a.method \in AuthMethods(a.route) => a.method \in ServedMethods(a.route)
  BY DEF Guarded, ServedMethods, AuthMethods, DefaultMethods

LEMMA CtxIsContext == \A route : CtxOf(route) \in Contexts
  BY DEF CtxOf, Contexts

LEMMA RefusalIsSound ==
    ASSUME NEW r, NEW ks, NEW t, NEW failure
    PROVE  SoundRequest(r, Refusal(failure), ks, t)
  BY IdleIsSound DEF Refusal

(* What was good in a span of time is good in a wider one.                 *)
LEMMA ClaimsWiden ==
    ASSUME NEW r \in Requests, NEW a \in Arrivals[r], a.token # Nothing,
           NEW e0 \in Nat, NEW l0 \in Nat, NEW e1 \in Nat, NEW l1 \in Nat,
           e1 <= e0, l0 <= l1, ClaimsGood(a, e0, l0)
    PROVE  ClaimsGood(a, e1, l1)
  BY PipelineAssumption, ArrivalAssumption DEF ClaimsGood, IsToken

LEMMA ProofWiden ==
    ASSUME NEW r \in Requests, NEW a \in Arrivals[r], a.proof # Nothing,
           NEW e0 \in Nat, NEW l0 \in Nat, NEW e1 \in Nat, NEW l1 \in Nat,
           e1 <= e0, l0 <= l1, ProofGood(a, e0, l0)
    PROVE  ProofGood(a, e1, l1)
  BY PipelineAssumption, ArrivalAssumption DEF ProofGood, IsProof

LEMMA SharedTypes ==
    ASSUME PipelineInv
    PROVE  /\ now \in Nat /\ IsFiniteSet(seen) /\ Cardinality(seen) <= Capacity
           /\ \A r \in Requests : /\ req[r] \in RequestState
                                  /\ req[r].since \in Nat
                                  /\ SoundRequest(r, req[r], jwks, now)
  <1>1. SharedInv /\ \A r \in Requests : SoundRequest(r, req[r], jwks, now)
    BY PipelineParts
  <1>2. \A r \in Requests : req[r] \in RequestState
    BY <1>1 DEF SoundRequest
  <1> QED
    BY <1>1, <1>2, PipelineAssumption DEF SharedInv, RequestState

(* A request that goes on or is refused.                                   *)
LEMMA UnlessStep ==
    ASSUME PipelineInv, NEW r \in Requests, NEW failure, NEW pc, Unless(r, failure, pc),
           UNCHANGED <<jwks, rotations, seen, now>>,
           failure = "none" => SoundRequest(r, [req[r] EXCEPT !.pc = pc], jwks, now)
    PROVE  PipelineInv'
  <1>1. IsFiniteSet(seen') /\ Cardinality(seen') <= Capacity
    BY SharedTypes
  <1>2. CASE failure = "none"
    <2>1. Set(r, [req[r] EXCEPT !.pc = pc])
      BY <1>2 DEF Unless, Goto
    <2> QED
      BY <1>1, <1>2, <2>1, RequestStep
  <1>3. CASE failure # "none"
    <2>1. Set(r, Refusal(failure))
      BY <1>3 DEF Unless
    <2> QED
      BY <1>1, <2>1, RefusalIsSound, RequestStep
  <1> QED
    BY <1>2, <1>3

-----------------------------------------------------------------------------
LEMMA ArriveStep ==
    ASSUME PipelineInv, NEW r \in Requests, NEW a \in Arrivals[r], Arrive(r, a)
    PROVE  PipelineInv'
  <1> DEFINE ks == jwks[CtxOf(a.route)]
             s == [pc |-> "guard", arrival |-> a, subject |-> Nothing, since |-> now,
                   ever |-> ks, always |-> ks, answer |-> "none"]
  <1>1. SharedInv /\ ks \in SUBSET Keys
    BY PipelineParts, CtxIsContext DEF SharedInv
  <1>2. a \in Arrival
    BY DEF Arrival
  <1>3. SoundRequest(r, s, jwks, now)
    BY <1>1, <1>2 DEF SoundRequest, RequestState, SharedInv
  <1> QED
    BY <1>3, RequestStep, SharedTypes DEF Arrive

LEMMA GuardStep ==
    ASSUME PipelineInv, NEW r \in Requests, Guard(r)
    PROVE  PipelineInv'
  <1> DEFINE a == req[r].arrival
  <1>1. /\ req[r] \in RequestState /\ SoundRequest(r, req[r], jwks, now)
        /\ req[r].pc = "guard" /\ a \in Arrivals[r]
    BY SharedTypes DEF Guard, SoundRequest
  <1>2. CASE a.method \notin AuthMethods(a.route) /\ Goto(r, "handler")
    <2>1. ~Guarded(a)
      BY <1>2, GuardedIsAuthenticated
    <2>2. SoundRequest(r, [req[r] EXCEPT !.pc = "handler"], jwks, now)
      BY <1>1, <2>1 DEF SoundRequest, RequestState
    <2> QED
      BY <1>2, <2>2, RequestStep, SharedTypes DEF Guard, Goto
  <1>3. CASE a.method \in AuthMethods(a.route) /\ Unless(r, HeaderFailure(a), "verify")
    <2>1. ASSUME HeaderFailure(a) = "none"
          PROVE  SoundRequest(r, [req[r] EXCEPT !.pc = "verify"], jwks, now)
      <3>1. HeadersGood(a)
        BY <1>1, <2>1, HeaderChecks
      <3> QED
        BY <1>1, <1>3, <3>1 DEF SoundRequest, RequestState
    <2> QED
      BY <1>3, <2>1, UnlessStep DEF Guard
  <1> QED
    BY <1>2, <1>3 DEF Guard

(* The first attempt, the refresh and the single retry.                    *)
LEMMA VerifyStep ==
    ASSUME PipelineInv, NEW r \in Requests,
           Verify(r) \/ Reverify(r) \/ \E mayRetry \in BOOLEAN : RefreshReturns(r, mayRetry)
    PROVE  PipelineInv'
  <1>c. req[r] \in RequestState /\ SoundRequest(r, req[r], jwks, now)
    BY SharedTypes
  <1>1. CASE Verify(r)
    <2> DEFINE pc == IF Trusted(r) THEN "claims" ELSE "refresh"
    <2>1. SoundRequest(r, [req[r] EXCEPT !.pc = pc], jwks, now)
      <3>1. CASE Trusted(r)
        BY <1>1, <1>c, <3>1 DEF Verify, Trusted, SoundRequest, RequestState
      <3>2. CASE ~Trusted(r)
        BY <1>1, <1>c, <3>2 DEF Verify, Trusted, SoundRequest, RequestState
      <3> QED
        BY <3>1, <3>2
    <2> QED
      BY <1>1, <2>1, RequestStep, SharedTypes DEF Verify, Goto
  <1>2. ASSUME NEW mayRetry \in BOOLEAN, RefreshReturns(r, mayRetry) PROVE PipelineInv'
    <2>1. SoundRequest(r, [req[r] EXCEPT !.pc = "reverify"], jwks, now)
      BY <1>2, <1>c DEF RefreshReturns, SoundRequest, RequestState
    <2> QED
      BY <1>2, <2>1, UnlessStep DEF RefreshReturns
  <1>3. CASE Reverify(r)
    <2>1. ASSUME Trusted(r) PROVE SoundRequest(r, [req[r] EXCEPT !.pc = "claims"], jwks, now)
      BY <1>3, <1>c, <2>1 DEF Reverify, Trusted, SoundRequest, RequestState
    <2> QED
      BY <1>3, <2>1, UnlessStep DEF Reverify
  <1> QED
    BY <1>1, <1>2, <1>3

(* The checks of the claims and of the proof.                              *)
LEMMA CheckStep ==
    ASSUME PipelineInv, NEW r \in Requests, CheckClaims(r) \/ CheckProof(r)
    PROVE  PipelineInv'
  <1> DEFINE a == req[r].arrival
  <1>c. /\ req[r] \in RequestState /\ SoundRequest(r, req[r], jwks, now)
        /\ now \in Nat /\ req[r].since \in Nat
    BY SharedTypes
  <1>p. /\ req[r].pc \in {"claims", "proof"} /\ a \in Arrivals[r] /\ req[r].since <= now
        /\ a.token # Nothing /\ a.proof # Nothing
    BY <1>c DEF CheckClaims, CheckProof, SoundRequest, HeadersGood
  <1>1. CASE CheckClaims(r)
    <2>1. ASSUME ClaimFailure(a.token, CtxOf(a.route)) = "none"
          PROVE  SoundRequest(r, [req[r] EXCEPT !.pc = "proof"], jwks, now)
      <3>1. ClaimsGood(a, now, now)
        BY <1>c, <1>p, <2>1, ClaimChecks
      <3>2. ClaimsGood(a, req[r].since, now)
        BY <1>c, <1>p, <3>1, ClaimsWiden
      <3> QED
        BY <1>1, <1>c, <3>2 DEF CheckClaims, SoundRequest, RequestState
    <2> QED
      BY <1>1, <2>1, UnlessStep DEF CheckClaims
  <1>2. CASE CheckProof(r)
    <2>1. ASSUME ProofFailure(a) = "none"
          PROVE  SoundRequest(r, [req[r] EXCEPT !.pc = "insert"], jwks, now)
      <3>1. ProofGood(a, now, now)
        BY <1>c, <1>p, <2>1, ProofChecks
      <3>2. ProofGood(a, req[r].since, now)
        BY <1>c, <1>p, <3>1, ProofWiden
      <3> QED
        BY <1>2, <1>c, <3>2 DEF CheckProof, SoundRequest, RequestState
    <2> QED
      BY <1>2, <2>1, UnlessStep DEF CheckProof
  <1> QED
    BY <1>1, <1>2

(* The insertion of the jti: the store stays within its capacity, and the  *)
(* handler is given a subject.                                             *)
LEMMA TryInsertStep ==
    ASSUME PipelineInv, NEW r \in Requests, TryInsert(r)
    PROVE  PipelineInv'
  <1> DEFINE a == req[r].arrival
             key == JtiKey(a)
  <1>c. /\ req[r] \in RequestState /\ SoundRequest(r, req[r], jwks, now)
        /\ req[r].pc = "insert" /\ UNCHANGED <<jwks, rotations, now>>
    BY SharedTypes DEF TryInsert
  <1>f. IsFiniteSet(seen) /\ Cardinality(seen) \in Nat /\ Cardinality(seen) <= Capacity
    BY SharedTypes, FS_CardinalityType
  <1>1. CASE seen' = seen /\ (Set(r, Refusal("ProofReplayed")) \/ Set(r, Refusal("MemoryPressure")))
    BY <1>1, <1>c, <1>f, RefusalIsSound, RequestStep
  <1>2. CASE /\ key \notin seen /\ Cardinality(seen) < Capacity
             /\ Set(r, Admitted(r)) /\ seen' = seen \cup {key}
    <2>1. IsFiniteSet(seen') /\ Cardinality(seen') <= Capacity
      <3>1. IsFiniteSet(seen') /\ Cardinality(seen') = Cardinality(seen) + 1
        BY <1>2, <1>f, FS_AddElement
      <3>2. Capacity \in Nat
        BY PipelineAssumption
      <3> QED
        BY <1>2, <1>f, <3>1, <3>2
    <2>2. a \in Arrivals[r] /\ a \in Arrival /\ a.token # Nothing /\ a.token.whole
      BY <1>c DEF SoundRequest, HeadersGood, ClaimsGood, Arrival
    <2>3. a.token.sub # Nothing
      BY <2>2, ArrivalAssumption DEF IsToken
    <2>4. SoundRequest(r, Admitted(r), jwks, now)
      BY <1>c, <2>2, <2>3 DEF SoundRequest, RequestState, Admitted
    <2> QED
      BY <1>2, <1>c, <2>1, <2>4, RequestStep
  <1> QED
    BY <1>1, <1>2 DEF TryInsert

LEMMA EndStep ==
    ASSUME PipelineInv, NEW r \in Requests, Respond(r) \/ ClientDisconnects(r)
    PROVE  PipelineInv'
  <1>1. PICK answer \in {"none", "200", "204", "400", "401", "404", "503"} : Set(r, Idle(answer))
    BY DEF Respond, ClientDisconnects, HandlerAnswers, HealthAnswers, WhoamiAnswers,
       BlockAnswers
  <1>2. UNCHANGED <<jwks, rotations, seen, now>>
    BY DEF Respond, ClientDisconnects
  <1> QED
    BY <1>1, <1>2, IdleIsSound, RequestStep, SharedTypes

LEMMA KeysChangeStep ==
    ASSUME PipelineInv, NEW c \in Contexts, NEW ks \in (SUBSET Keys) \ {{}}, KeysChange(c, ks)
    PROVE  PipelineInv'
  <1>1. SharedInv /\ req \in [Requests -> RequestState]
    BY PipelineParts
  <1>2. SharedInv'
    <2>1. jwks' \in [Contexts -> (SUBSET Keys) \ {{}}]
      BY <1>1 DEF KeysChange, SharedInv
    <2>2. rotations' \in 0..MaxRotations
      <3>1. /\ rotations \in 0..MaxRotations /\ rotations < MaxRotations
            /\ rotations' = rotations + 1
        BY <1>1 DEF KeysChange, SharedInv
      <3> QED
        BY <3>1, PipelineAssumption
    <2> QED
      BY <1>1, <2>1, <2>2 DEF KeysChange, SharedInv
  <1>3. /\ jwks'[c] = ks /\ \A d \in Contexts \ {c} : jwks'[d] = jwks[d]
        /\ now' = now
    BY <1>1 DEF KeysChange, SharedInv
  <1>4. ASSUME NEW r \in Requests PROVE SoundRequest(r, req'[r], jwks', now')
    <2>1. req[r] \in RequestState /\ SoundRequest(r, req[r], jwks, now)
      BY SharedTypes
    <2>2. CASE req[r].pc = "idle"
      <3>1. req'[r] = req[r]
        BY <2>2 DEF KeysChange
      <3> QED
        BY <2>1, <2>2, <3>1 DEF SoundRequest
    <2>3. CASE req[r].pc # "idle" /\ CtxOf(req[r].arrival.route) # c
      <3>1. req'[r] = req[r] /\ jwks'[CtxOf(req[r].arrival.route)] = jwks[CtxOf(req[r].arrival.route)]
        BY <1>3, <2>3, CtxIsContext DEF KeysChange
      <3> QED
        BY <1>3, <2>1, <3>1 DEF SoundRequest
    <2>4. CASE req[r].pc # "idle" /\ CtxOf(req[r].arrival.route) = c
      <3> DEFINE q == [req[r] EXCEPT !.ever = @ \cup ks, !.always = @ \cap ks]
      <3>1. req'[r] = q
        BY <2>4 DEF KeysChange
      <3>2. /\ q \in RequestState /\ q.pc = req[r].pc /\ q.arrival = req[r].arrival
            /\ q.subject = req[r].subject /\ q.since = req[r].since
            /\ q.ever = req[r].ever \cup ks /\ q.always = req[r].always \cap ks
        BY <2>1 DEF RequestState
      <3> HIDE DEF q
      <3> QED
        BY <1>3, <2>1, <2>4, <3>1, <3>2 DEF SoundRequest
    <2> QED
      BY <2>2, <2>3, <2>4
  <1>5. req' \in [Requests -> RequestState]
    BY <1>4 DEF KeysChange, SoundRequest
  <1> QED
    BY <1>2, <1>4, <1>5, PipelinePartsNext

LEMMA ExpireStep ==
    ASSUME PipelineInv, NEW key \in seen, Expire(key)
    PROVE  PipelineInv'
  <1>1. IsFiniteSet(seen') /\ Cardinality(seen') <= Capacity
    <2>1. IsFiniteSet(seen) /\ Cardinality(seen) <= Capacity
      BY SharedTypes
    <2>2. IsFiniteSet(seen') /\ Cardinality(seen') = Cardinality(seen) - 1
      BY <2>1, FS_RemoveElement DEF Expire
    <2> QED
      BY <2>1, <2>2, FS_CardinalityType, PipelineAssumption
  <1>2. UNCHANGED <<jwks, rotations, req, now>>
    BY DEF Expire
  <1> QED
    BY <1>1, <1>2 DEF PipelineInv, TypeOK, HistoryInv, StagesInv, Reached

LEMMA ClockStep ==
    ASSUME PipelineInv, ClockTicks
    PROVE  PipelineInv'
  <1>1. SharedInv /\ req \in [Requests -> RequestState]
    BY PipelineParts
  <1>2. SharedInv' /\ UNCHANGED <<jwks, req>>
    BY <1>1, PipelineAssumption DEF ClockTicks, SharedInv
  <1>3. now \in Nat /\ now' = now + 1
    BY SharedTypes DEF ClockTicks
  <1>4. ASSUME NEW r \in Requests PROVE SoundRequest(r, req[r], jwks, now')
    <2> DEFINE a == req[r].arrival
    <2>1. SoundRequest(r, req[r], jwks, now) /\ req[r].since \in Nat
      BY SharedTypes
    <2>2. ASSUME req[r].pc # "idle", a.token # Nothing, ClaimsGood(a, req[r].since, now)
          PROVE  ClaimsGood(a, req[r].since, now')
      BY <1>3, <2>1, <2>2, ClaimsWiden DEF SoundRequest
    <2>3. ASSUME req[r].pc # "idle", a.proof # Nothing, ProofGood(a, req[r].since, now)
          PROVE  ProofGood(a, req[r].since, now')
      BY <1>3, <2>1, <2>3, ProofWiden DEF SoundRequest
    <2> QED
      BY <1>3, <2>1, <2>2, <2>3 DEF SoundRequest, HeadersGood
  <1> QED
    BY <1>1, <1>2, <1>4, PipelinePartsNext

LEMMA PipelineInit == Init => PipelineInv
  <1> SUFFICES ASSUME Init PROVE PipelineInv
    OBVIOUS
  <1>1. SharedInv
    BY FS_EmptySet, PipelineAssumption DEF Init, SharedInv
  <1>2. \A r \in Requests : req[r] = Idle("none")
    BY DEF Init
  <1>3. \A r \in Requests : SoundRequest(r, req[r], jwks, now)
    BY <1>2, IdleIsSound
  <1>4. req \in [Requests -> RequestState]
    BY <1>3 DEF Init, SoundRequest
  <1> QED
    BY <1>1, <1>3, <1>4, PipelineParts

(* The inductive invariant of the pipeline.                                *)
THEOREM PipelineSound == Spec => []PipelineInv
  <1>1. PipelineInv /\ UNCHANGED vars => PipelineInv'
    BY DEF PipelineInv, TypeOK, HistoryInv, StagesInv, Reached, vars
  <1>2. PipelineInv /\ [Next]_vars => PipelineInv'
    BY <1>1, ArriveStep, GuardStep, VerifyStep, CheckStep, TryInsertStep, EndStep,
       KeysChangeStep, ExpireStep, ClockStep DEF Next, Step
  <1> QED
    BY <1>2, PipelineInit, PTL DEF Spec

(* The replay store stays within max_replay_entries, and a guarded handler *)
(* always finds a subject.                                                 *)
THEOREM PipelineTyped == Spec => []TypeOK
  <1>1. PipelineInv => TypeOK
    BY DEF PipelineInv
  <1> QED
    BY <1>1, PipelineSound, PTL

(* Whatever clients send, and however keys and clock move, the handlers    *)
(* that read or change data are reached only by requests that are entitled *)
(* to it.                                                                  *)
THEOREM EntitlementIsRequired == Spec => []OnlyEntitledAreServed
  <1>1. PipelineInv => OnlyEntitledAreServed
    BY DEF PipelineInv, StagesInv, Reached, OnlyEntitledAreServed, Entitled
  <1> QED
    BY <1>1, PipelineSound, PTL

-----------------------------------------------------------------------------
(* The steps of one request leave the others alone.                        *)
LEMMA OthersStay ==
    ASSUME PipelineInv, NEW r \in Requests, NEW s, Set(r, s)
    PROVE  /\ req'[r] = s
           /\ \A q \in Requests \ {r} : req'[q] = req[q]
  BY PipelineParts DEF Set

(* Who is answered took a step, and which one: the guard or a check        *)
(* refused, or the handler answered.                                       *)
LEMMA WhoIsAnswered ==
    ASSUME PipelineInv, Next, NEW r \in Requests, NEW answer, answer # "none",
           Answers(r, answer)
    PROVE  \/ Guard(r) \/ Reverify(r) \/ CheckClaims(r) \/ CheckProof(r)
           \/ TryInsert(r) \/ Respond(r)
           \/ \E mayRetry \in BOOLEAN : RefreshReturns(r, mayRetry)
  <1>a. /\ req[r].pc # "idle" /\ req'[r] # req[r]
        /\ req'[r].pc = "idle" /\ req'[r].answer = answer
    BY DEF Answers
  <1>t. req \in [Requests -> RequestState]
    BY PipelineParts
  <1>1. ASSUME NEW q \in Requests, NEW s, Set(q, s) PROVE q = r
    BY <1>1, <1>a, OthersStay
  <1>2. ASSUME NEW q \in Requests, NEW b \in Arrivals[q], Arrive(q, b) PROVE FALSE
    BY <1>1, <1>2, <1>a DEF Arrive
  <1>3. ASSUME NEW q \in Requests, ClientDisconnects(q) PROVE FALSE
    <2>1. q = r /\ Set(r, Idle("none"))
      BY <1>1, <1>3 DEF ClientDisconnects
    <2> QED
      BY <1>a, <2>1, OthersStay DEF Idle
  <1>4. ASSUME NEW q \in Requests, Verify(q) PROVE FALSE
    <2>1. q = r /\ Set(r, [req[r] EXCEPT !.pc = IF Trusted(r) THEN "claims" ELSE "refresh"])
      BY <1>1, <1>4 DEF Verify, Goto
    <2>2. req'[r].pc \in {"claims", "refresh"}
      BY <1>t, <2>1, OthersStay DEF RequestState
    <2> QED
      BY <1>a, <2>2
  <1>5. ASSUME NEW c \in Contexts, NEW ks \in (SUBSET Keys) \ {{}}, KeysChange(c, ks) PROVE FALSE
    BY <1>5, <1>a, <1>t DEF KeysChange, RequestState
  <1>6. ~ClockTicks /\ ~\E key \in seen : Expire(key)
    BY <1>a DEF ClockTicks, Expire
  <1>7. PICK q \in Requests : Step(q)
    BY <1>2, <1>3, <1>5, <1>6 DEF Next
  <1>8. q = r
    <2>1. \E s : Set(q, s)
      BY <1>7 DEF Step, Guard, Verify, Reverify, CheckClaims, CheckProof, TryInsert, Respond,
         RefreshReturns, Unless, Goto
    <2> QED
      BY <1>1, <2>1
  <1> QED
    BY <1>4, <1>7, <1>8 DEF Step

LEMMA AdmittedIsServed ==
    ASSUME NEW r \in Requests, req[r] \in RequestState
    PROVE  Admitted(r).pc = "handler"
  <1>1. "pc" \in DOMAIN req[r]
    BY DEF RequestState
  <1> QED
    BY <1>1 DEF Admitted

LEMMA UnlessRefuses ==
    ASSUME PipelineInv, NEW r \in Requests, NEW failure, NEW pc, Unless(r, failure, pc),
           pc # "idle", req'[r].pc = "idle"
    PROVE  failure # "none"
  <1> SUFFICES ASSUME failure = "none" PROVE FALSE
    OBVIOUS
  <1>1. Set(r, [req[r] EXCEPT !.pc = pc]) /\ req[r] \in RequestState
    BY SharedTypes DEF Unless, Goto
  <1> QED
    BY <1>1, OthersStay DEF RequestState

(* A request that is entitled passes every check, so that only a replay or *)
(* a window too long for a deadline can refuse it.                         *)
LEMMA RefusalStep ==
    ASSUME PipelineInv, Next, NEW r \in Requests, Answers(r, "401"),
           Entitled(r, req[r].always, now, req[r].since)
    PROVE  JtiKey(req[r].arrival) \in seen \/ ~DeadlineFits
  <1> DEFINE a == req[r].arrival
  <1>s. /\ req[r] \in RequestState /\ SoundRequest(r, req[r], jwks, now)
        /\ now \in Nat /\ req[r].since \in Nat
    BY SharedTypes
  <1>a. /\ req[r].pc # "idle" /\ req'[r].pc = "idle" /\ req'[r].answer = "401"
        /\ a \in Arrivals[r] /\ req[r].since <= now
    BY <1>s DEF Answers, SoundRequest
  <1>e. /\ HeadersGood(a) /\ a.token # Nothing /\ a.proof # Nothing
        /\ a.token.key \in req[r].always
        /\ ClaimsGood(a, now, now) /\ ProofGood(a, now, now)
    BY <1>s, <1>a, ClaimsWiden, ProofWiden DEF Entitled, HeadersGood
  <1>1. CASE Guard(r)
    <2>1. ~Goto(r, "handler")
      BY <1>s, <1>a, OthersStay DEF Goto, RequestState
    <2>2. Unless(r, HeaderFailure(a), "verify")
      BY <1>1, <2>1 DEF Guard
    <2>3. HeaderFailure(a) # "none"
      BY <1>a, <2>2, UnlessRefuses
    <2> QED
      BY <1>a, <1>e, <2>3, HeaderChecks
  <1>2. CASE Reverify(r) \/ \E mayRetry \in BOOLEAN : RefreshReturns(r, mayRetry)
    BY <1>2, <1>s, <1>e DEF Reverify, RefreshReturns, SoundRequest
  <1>3. CASE CheckClaims(r)
    <2>1. ClaimFailure(a.token, CtxOf(a.route)) # "none"
      BY <1>3, <1>a, UnlessRefuses DEF CheckClaims
    <2> QED
      BY <1>s, <1>a, <1>e, <2>1, ClaimChecks
  <1>4. CASE CheckProof(r)
    <2>1. ProofFailure(a) # "none"
      BY <1>4, <1>a, UnlessRefuses DEF CheckProof
    <2> QED
      BY <1>s, <1>a, <1>e, <2>1, ProofChecks
  <1>5. CASE TryInsert(r)
    <2>1. ~Set(r, Refusal("MemoryPressure"))
      BY <1>a, OthersStay DEF Refusal, Idle
    <2>2. ~Set(r, Admitted(r))
      BY <1>s, <1>a, OthersStay, AdmittedIsServed
    <2> QED
      BY <1>5, <2>1, <2>2 DEF TryInsert
  <1>6. CASE Respond(r)
    <2>1. "401" \in HandlerAnswers(a.route, a.method, req[r].subject)
      BY <1>6, <1>a, OthersStay DEF Respond, Idle
    <2>2. Guarded(a) /\ req[r].subject = Nothing
      BY <2>1 DEF HandlerAnswers, HealthAnswers, WhoamiAnswers, BlockAnswers,
         Guarded, ServedMethods
    <2> QED
      BY <1>6, <1>s, <2>2 DEF Respond, SoundRequest
  <1> QED
    BY <1>1, <1>2, <1>3, <1>4, <1>5, <1>6, WhoIsAnswered

(* No false refusal: keys that rotate in mid-request, the refresh and the  *)
(* clock never turn away a request that was entitled all along, as long as *)
(* the configured window leaves room for a deadline.                       *)
THEOREM EntitledAreNotRefused == Spec => NoEntitledRefused
  <1>1. PipelineInv /\ [Next]_vars =>
          [\A r \in Requests :
              Answers(r, "401") /\ Entitled(r, req[r].always, now, req[r].since)
                  => JtiKey(req[r].arrival) \in seen \/ ~DeadlineFits]_vars
    BY RefusalStep
  <1> QED
    BY <1>1, PipelineSound, PTL DEF Spec, NoEntitledRefused

(* Only the step that admits a request adds its jti to the replay store.   *)
THEOREM JtiIsSpentOnce == Spec => JtiSpentByAdmission
  <1>1. ASSUME PipelineInv, Next, NEW key \in seen' \ seen
        PROVE  \E r \in Requests : /\ req[r].pc = "insert" /\ req'[r].pc = "handler"
                                   /\ JtiKey(req[r].arrival) = key
    <2>1. PICK r \in Requests : TryInsert(r)
      BY <1>1 DEF Next, Step, Arrive, Guard, Verify, Reverify, CheckClaims, CheckProof, Respond,
         RefreshReturns, ClientDisconnects, KeysChange, Expire, ClockTicks
    <2>2. /\ req[r].pc = "insert" /\ Set(r, Admitted(r))
          /\ seen' = seen \cup {JtiKey(req[r].arrival)}
      BY <1>1, <2>1 DEF TryInsert
    <2>3. req'[r].pc = "handler"
      BY <1>1, <2>2, OthersStay, SharedTypes, AdmittedIsServed
    <2> QED
      BY <1>1, <2>2, <2>3
  <1>2. PipelineInv /\ [Next]_vars =>
          [\A key \in seen' \ seen : \E r \in Requests :
              /\ req[r].pc = "insert" /\ req'[r].pc = "handler"
              /\ JtiKey(req[r].arrival) = key]_vars
    BY <1>1
  <1> QED
    BY <1>2, PipelineSound, PTL DEF Spec, JtiSpentByAdmission

(* Memory pressure is told only to requests that would be admitted.        *)
THEOREM PressureIsLast == Spec => PressureOnlyForNew
  <1>1. ASSUME PipelineInv, Next, NEW r \in Requests, req[r].pc = "insert", Answers(r, "503")
        PROVE  /\ JtiKey(req[r].arrival) \notin seen
               /\ Entitled(r, req[r].ever, req[r].since, now)
    <2>1. TryInsert(r)
      <3>1. \/ Guard(r) \/ Reverify(r) \/ CheckClaims(r) \/ CheckProof(r)
            \/ TryInsert(r) \/ Respond(r)
            \/ \E mayRetry \in BOOLEAN : RefreshReturns(r, mayRetry)
        BY <1>1, WhoIsAnswered
      <3> QED
        BY <1>1, <3>1 DEF Guard, Reverify, CheckClaims, CheckProof, Respond, RefreshReturns
    <2>2. ~Set(r, Refusal("ProofReplayed"))
      BY <1>1, OthersStay DEF Refusal, Idle, Answers
    <2>3. JtiKey(req[r].arrival) \notin seen
      BY <2>1, <2>2 DEF TryInsert
    <2>4. Entitled(r, req[r].ever, req[r].since, now)
      BY <1>1, SharedTypes DEF SoundRequest, Entitled
    <2> QED
      BY <2>3, <2>4
  <1>2. PipelineInv /\ [Next]_vars =>
          [\A r \in Requests : req[r].pc = "insert" /\ Answers(r, "503")
              => /\ JtiKey(req[r].arrival) \notin seen
                 /\ Entitled(r, req[r].ever, req[r].since, now)]_vars
    BY <1>1
  <1> QED
    BY <1>2, PipelineSound, PTL DEF Spec, PressureOnlyForNew

(* A method that a route does not serve never meets the pipeline, and is   *)
(* answered 404.                                                           *)
THEOREM UnservedNeverAuthenticates == Spec => UnservedIsNotFound
  <1>1. ASSUME PipelineInv, Next, NEW r \in Requests, req[r].pc # "idle",
               req[r].arrival.method \notin ServedMethods(req[r].arrival.route)
        PROVE  /\ req[r].pc \in {"guard", "handler"}
               /\ req'[r].pc = "idle" => req'[r].answer \in {"404", "none"}
    <2> DEFINE a == req[r].arrival
    <2>1. /\ req[r] \in RequestState /\ SoundRequest(r, req[r], jwks, now)
          /\ a.method \notin AuthMethods(a.route)
      BY <1>1, SharedTypes, GuardedIsAuthenticated
    <2>2. req[r].pc \in {"guard", "handler"}
      BY <1>1, <2>1 DEF SoundRequest, RequestState
    <2>3. ASSUME NEW answer, answer # "none", Answers(r, answer) PROVE answer = "404"
      <3>1. Guard(r) \/ Respond(r)
        <4>1. \/ Guard(r) \/ Reverify(r) \/ CheckClaims(r) \/ CheckProof(r)
              \/ TryInsert(r) \/ Respond(r)
              \/ \E mayRetry \in BOOLEAN : RefreshReturns(r, mayRetry)
          BY <1>1, <2>3, WhoIsAnswered
        <4> QED
          BY <2>2, <4>1 DEF Reverify, CheckClaims, CheckProof, TryInsert, RefreshReturns
      <3>2. CASE Guard(r)
        BY <1>1, <2>1, <2>3, <3>2, OthersStay DEF Guard, Goto, Answers, RequestState
      <3>3. CASE Respond(r)
        <4>1. Set(r, Idle("404"))
          BY <1>1, <3>3 DEF Respond, HandlerAnswers, HealthAnswers, WhoamiAnswers, BlockAnswers,
             ServedMethods
        <4> QED
          BY <1>1, <2>3, <4>1, OthersStay DEF Idle, Answers
      <3> QED
        BY <3>1, <3>2, <3>3
    <2> QED
      BY <1>1, <2>2, <2>3 DEF Answers
  <1>2. PipelineInv /\ [Next]_vars =>
          [\A r \in Requests :
              req[r].pc # "idle" /\ req[r].arrival.method \notin ServedMethods(req[r].arrival.route)
                  => /\ req[r].pc \in {"guard", "handler"}
                     /\ req'[r].pc = "idle" => req'[r].answer \in {"404", "none"}]_vars
    BY <1>1
  <1> QED
    BY <1>2, PipelineSound, PTL DEF Spec, UnservedIsNotFound

=============================================================================
