----------------------------- MODULE AuthPipeline -----------------------------
(***************************************************************************)
(* A request on its way from the router to its handler: the proxy-trust    *)
(* middleware (server/src/proxy_trust), the vault and admin guards with    *)
(* authenticate_common (server/src/auth/middleware.rs), validate_token and *)
(* validate_proof (token.rs, dpop.rs), the uniform refusals (failure.rs)   *)
(* and the method dispatch of the handlers (server/src/routes).            *)
(*                                                                         *)
(* Requests share the cached key sets, the replay store and the clock.     *)
(* The key sets may change at any time and may even overlap; how they are  *)
(* refreshed is JwksRefresh's matter, how long the replay store remembers  *)
(* is ReplayStore's.                                                       *)
(***************************************************************************)
EXTENDS Integers, FiniteSets

CONSTANTS
    Requests,    \* requests that may be in progress at the same time
    Arrivals,    \* what the client of each request may send
    Keys,        \* the providers' signing keys
    Capacity,    \* max_replay_entries
    Freshness,   \* dpop_freshness_secs
    Skew,        \* clock_skew_secs
    Window,      \* jti_replay_window_secs
    MaxInstant,  \* the last instant the monotonic clock can represent
    Nothing,     \* a header that is absent, malformed or empty
    MaxTime,     \* bound on the clock
    MaxRotations \* bound on changes of the key sets

ASSUME PipelineAssumption ==
    /\ Capacity \in Nat \ {0}
    /\ Freshness \in Nat \ {0}
    /\ Skew \in Nat \ {0}
    /\ Window \in Nat
    /\ MaxInstant \in Nat
    /\ MaxTime \in Nat
    /\ MaxRotations \in Nat

Contexts == {"vault", "admin"}

(* An arrival is [route, method, host, peer, proto, token, proof]: whether *)
(* an authority is given, whether the peer is in trusted_proxies, its      *)
(* X-Forwarded-Proto, and the two headers.  A token is [sub, alg, key,     *)
(* whole, iss, aud, exp, nbf, jkt]; whole: every required claim is there,  *)
(* the audience is one string and cnf.jkt decodes to 32 bytes.  A proof is *)
(* [alg, sound, htm, scheme, htu, iat, key, ath, jti]; sound: its typ is   *)
(* dpop+jwt and it verifies with the key it carries.                       *)

IsToken(t) ==
    /\ t.alg \in BOOLEAN /\ t.whole \in BOOLEAN
    /\ t.exp \in Nat /\ t.nbf \in Nat
    /\ t.whole => t.sub # Nothing

IsProof(p) == p.alg \in BOOLEAN /\ p.sound \in BOOLEAN /\ p.iat \in Nat

ASSUME ArrivalAssumption ==
    \A r \in Requests : \A a \in Arrivals[r] :
        /\ a.host \in BOOLEAN
        /\ a.token # Nothing => IsToken(a.token)
        /\ a.proof # Nothing => IsProof(a.proof)

Arrival == UNION {Arrivals[r] : r \in Requests}

VARIABLES
    jwks,       \* OidcContext::jwks of both contexts
    rotations,  \* changes of the key sets so far
    seen,       \* the keys in the replay store
    req,        \* the requests in progress
    now

vars == <<jwks, rotations, seen, req, now>>

(* ever, always: history, the keys that the request's context trusted at   *)
(* some time, and all the time, since it arrived.                          *)
Idle(answer) ==
    [pc |-> "idle", arrival |-> Nothing, subject |-> Nothing, since |-> 0,
     ever |-> {}, always |-> {}, answer |-> answer]

Init ==
    /\ jwks \in [Contexts -> (SUBSET Keys) \ {{}}]
    /\ jwks["vault"] \cap jwks["admin"] = {}
    /\ rotations = 0
    /\ seen = {}
    /\ req = [r \in Requests |-> Idle("none")]
    /\ now = 0

-----------------------------------------------------------------------------
(* The router.                                                             *)

CtxOf(route) == IF route = "admin_whoami" THEN "admin" ELSE "vault"

(* Mutant: the block routes keep the guard's default methods.              *)
MutAuthMethodsDefault(route) ==
    IF route \in {"block", "api_whoami", "admin_whoami"} THEN {"GET"} ELSE {}

(* Mutant: the guards authenticate every method.                           *)
MutAuthMethodsAll(route) ==
    IF route \in {"block", "api_whoami", "admin_whoami"}
    THEN {"GET", "PUT", "DELETE", "POST"} ELSE {}

(* The methods a guard authenticates unless told otherwise.                *)
DefaultMethods == {"GET"}

(* The methods for which the route's guard runs the pipeline.              *)
AuthMethods(route) ==
    CASE route = "block" -> {"GET", "PUT", "DELETE"}
      [] route \in {"api_whoami", "admin_whoami"} -> DefaultMethods
      [] OTHER -> {}

(* The methods that the route's handler does not answer with 404.          *)
ServedMethods(route) ==
    CASE route = "block" -> {"GET", "PUT", "DELETE"}
      [] route \in {"api_whoami", "admin_whoami", "health"} -> {"GET"}
      [] OTHER -> {}

HealthAnswers(method) == {IF method = "GET" THEN "200" ELSE "404"}

WhoamiAnswers(method, subject) ==
    {IF method # "GET" THEN "404" ELSE IF subject = Nothing THEN "401" ELSE "200"}

(* The id may be malformed (404), the body of the wrong size (400) and the *)
(* storage may fail (503).                                                 *)
BlockAnswers(method) ==
    CASE method = "GET" -> {"200", "404", "503"}
      [] method = "PUT" -> {"204", "400", "404", "503"}
      [] method = "DELETE" -> {"204", "404", "503"}
      [] OTHER -> {"404"}

(* What may be answered once the guard has passed the request on; no route *)
(* is the fallback's.                                                      *)
HandlerAnswers(route, method, subject) ==
    CASE route = "health" -> HealthAnswers(method)
      [] route \in {"api_whoami", "admin_whoami"} -> WhoamiAnswers(method, subject)
      [] route = "block" -> BlockAnswers(method)
      [] OTHER -> {"404"}

(* resolve_effective_address: only a trusted peer's X-Forwarded-Proto      *)
(* counts, and only when it names a scheme; the direct peer speaks HTTP.   *)
EffectiveScheme(a) ==
    IF a.peer = "trusted" /\ a.proto \in {"http", "https"} THEN a.proto ELSE "http"

-----------------------------------------------------------------------------
(* The checks, in the order of the code.                                   *)

Check(ok, failure) == [ok |-> ok, failure |-> failure]

FirstFailure(checks) ==
    LET bad == {i \in DOMAIN checks : ~checks[i].ok}
    IN  IF bad = {} THEN "none"
        ELSE checks[CHOOSE i \in bad : \A j \in bad : i <= j].failure

(* authenticate_common up to step 1 of validate_token.                     *)
HeaderFailure(a) ==
    IF a.token = Nothing THEN "MissingToken"
    ELSE FirstFailure(<<Check(a.proof # Nothing, "MissingProof"),
                        Check(a.host, "ProofHtuMismatch"),
                        Check(a.token.alg, "InvalidAlg")>>)

(* validate_token, steps 3 to 5a.                                          *)
ClaimFailure(t, c) ==
    FirstFailure(<<Check(t.whole, "TokenMissingClaim"),
                   Check(t.iss = c, "TokenIssuerMismatch"),
                   Check(t.aud = c, "TokenAudienceMismatch"),
                   Check(t.exp + Skew > now, "TokenExpired"),
                   Check(t.nbf <= now + Skew, "TokenNotYetValid")>>)

(* Mutant: the tolerance for clock skew is forgotten.                      *)
MutInWindowNoSkew(iat) == iat <= now /\ now - iat <= Freshness

(* Step 5 of validate_proof.                                               *)
InWindow(iat) ==
    \/ iat <= now /\ now - iat <= Freshness + Skew
    \/ iat > now /\ iat - now <= Skew

(* A deadline for the jti can be computed; validation does not bound the   *)
(* window from above.                                                      *)
DeadlineFits == now + Window <= MaxInstant

(* validate_proof, steps 1 to 6b, the presence of the jti, its deadline.    *)
ProofFailure(a) ==
    FirstFailure(<<Check(a.proof.alg, "InvalidAlg"),
                   Check(a.proof.sound, "ProofSignatureInvalid"),
                   Check(a.proof.htm = a.method, "ProofHtmMismatch"),
                   Check(/\ a.proof.htu = a.route
                         /\ a.proof.scheme = EffectiveScheme(a), "ProofHtuMismatch"),
                   Check(InWindow(a.proof.iat), "ProofIatStale"),
                   Check(a.proof.key = a.token.jkt, "ProofJktMismatch"),
                   Check(a.proof.ath = a.token, "ProofAthMismatch"),
                   Check(a.proof.jti # Nothing, "ProofMissingClaim"),
                   Check(DeadlineFits, "ProofIatStale")>>)

JtiKey(a) == <<CtxOf(a.route), a.proof.jti>>

-----------------------------------------------------------------------------
(* The steps of a request.                                                 *)

Set(r, s) == req' = [req EXCEPT ![r] = s]

Goto(r, pc) == Set(r, [req[r] EXCEPT !.pc = pc])

(* The guard's translation of an AuthFailure.                              *)
Refusal(failure) == Idle(IF failure = "MemoryPressure" THEN "503" ELSE "401")

(* The request goes on to pc unless a check failed.                        *)
Unless(r, failure, pc) ==
    IF failure = "none" THEN Goto(r, pc) ELSE Set(r, Refusal(failure))

(* A client sends a request.                                               *)
Arrive(r, a) ==
    /\ req[r].pc = "idle"
    /\ Set(r, [pc |-> "guard", arrival |-> a, subject |-> Nothing, since |-> now,
               ever |-> jwks[CtxOf(a.route)], always |-> jwks[CtxOf(a.route)],
               answer |-> "none"])
    /\ UNCHANGED <<jwks, rotations, seen, now>>

(* The guard of the route looks at the method: the request is passed on as *)
(* it is, or authenticate_common looks at its headers.                     *)
Guard(r) ==
    LET a == req[r].arrival
    IN  /\ req[r].pc = "guard"
        /\ \/ /\ a.method \notin AuthMethods(a.route)
              /\ Goto(r, "handler")
           \/ /\ a.method \in AuthMethods(a.route)
              /\ Unless(r, HeaderFailure(a), "verify")
        /\ UNCHANGED <<jwks, rotations, seen, now>>

Trusted(r) == req[r].arrival.token.key \in jwks[CtxOf(req[r].arrival.route)]

(* validate_token, step 2: the first attempt.                              *)
Verify(r) ==
    /\ req[r].pc = "verify"
    /\ Goto(r, IF Trusted(r) THEN "claims" ELSE "refresh")
    /\ UNCHANGED <<jwks, rotations, seen, now>>

(* on_demand_refresh returns.                                              *)
RefreshReturns(r, mayRetry) ==
    /\ req[r].pc = "refresh"
    /\ Unless(r, IF mayRetry THEN "none" ELSE "TokenSignatureInvalid", "reverify")
    /\ UNCHANGED <<jwks, rotations, seen, now>>

(* The single retry.                                                       *)
Reverify(r) ==
    /\ req[r].pc = "reverify"
    /\ Unless(r, IF Trusted(r) THEN "none" ELSE "TokenSignatureInvalid", "claims")
    /\ UNCHANGED <<jwks, rotations, seen, now>>

CheckClaims(r) ==
    LET a == req[r].arrival
    IN  /\ req[r].pc = "claims"
        /\ Unless(r, ClaimFailure(a.token, CtxOf(a.route)), "proof")
        /\ UNCHANGED <<jwks, rotations, seen, now>>

(* Mutant: the jti is spent before the other checks of the proof.          *)
MutCheckProofSpends(r) ==
    /\ req[r].pc = "proof"
    /\ seen' = seen \cup {JtiKey(req[r].arrival)}
    /\ Unless(r, ProofFailure(req[r].arrival), "insert")
    /\ UNCHANGED <<jwks, rotations, now>>

(* validate_proof up to step 7.                                            *)
CheckProof(r) ==
    /\ req[r].pc = "proof"
    /\ Unless(r, ProofFailure(req[r].arrival), "insert")
    /\ UNCHANGED <<jwks, rotations, seen, now>>

Admitted(r) == [req[r] EXCEPT !.pc = "handler", !.subject = req[r].arrival.token.sub]

(* Mutant: memory pressure is tested before the replay.                    *)
MutTryInsertPressureFirst(r) ==
    LET key == JtiKey(req[r].arrival)
    IN  /\ req[r].pc = "insert"
        /\ \/ Cardinality(seen) >= Capacity /\ Set(r, Refusal("MemoryPressure"))
              /\ UNCHANGED seen
           \/ Cardinality(seen) < Capacity /\ key \in seen /\ Set(r, Refusal("ProofReplayed"))
              /\ UNCHANGED seen
           \/ Cardinality(seen) < Capacity /\ key \notin seen /\ Set(r, Admitted(r))
              /\ seen' = seen \cup {key}
        /\ UNCHANGED <<jwks, rotations, now>>

(* Mutant: the guard calls the handler without inserting the subject.      *)
MutTryInsertNoSubject(r) ==
    /\ req[r].pc = "insert"
    /\ JtiKey(req[r].arrival) \notin seen
    /\ Cardinality(seen) < Capacity
    /\ Goto(r, "handler")
    /\ seen' = seen \cup {JtiKey(req[r].arrival)}
    /\ UNCHANGED <<jwks, rotations, now>>

(* Step 7 of validate_proof; on success the guard inserts the subject and  *)
(* calls the handler.                                                      *)
TryInsert(r) ==
    LET key == JtiKey(req[r].arrival)
    IN  /\ req[r].pc = "insert"
        /\ \/ /\ key \in seen
              /\ Set(r, Refusal("ProofReplayed"))
              /\ UNCHANGED seen
           \/ /\ key \notin seen
              /\ Cardinality(seen) >= Capacity
              /\ Set(r, Refusal("MemoryPressure"))
              /\ UNCHANGED seen
           \/ /\ key \notin seen
              /\ Cardinality(seen) < Capacity
              /\ Set(r, Admitted(r))
              /\ seen' = seen \cup {key}
        /\ UNCHANGED <<jwks, rotations, now>>

Respond(r) ==
    LET a == req[r].arrival
    IN  /\ req[r].pc = "handler"
        /\ \E answer \in HandlerAnswers(a.route, a.method, req[r].subject) :
              Set(r, Idle(answer))
        /\ UNCHANGED <<jwks, rotations, seen, now>>

(* The client goes away while the handler's future awaits.                 *)
ClientDisconnects(r) ==
    /\ req[r].pc \in {"refresh", "handler"}
    /\ Set(r, Idle("none"))
    /\ UNCHANGED <<jwks, rotations, seen, now>>

-----------------------------------------------------------------------------
(* The environment.                                                        *)

KeysChange(c, ks) ==
    /\ rotations < MaxRotations
    /\ rotations' = rotations + 1
    /\ jwks' = [jwks EXCEPT ![c] = ks]
    /\ req' = [r \in Requests |->
           IF req[r].pc # "idle" /\ CtxOf(req[r].arrival.route) = c
           THEN [req[r] EXCEPT !.ever = @ \cup ks, !.always = @ \cap ks]
           ELSE req[r]]
    /\ UNCHANGED <<seen, now>>

(* The replay store drops a key.                                           *)
Expire(key) ==
    /\ key \in seen
    /\ seen' = seen \ {key}
    /\ UNCHANGED <<jwks, rotations, req, now>>

ClockTicks ==
    /\ now < MaxTime
    /\ now' = now + 1
    /\ UNCHANGED <<jwks, rotations, seen, req>>

Step(r) ==
    \/ Guard(r) \/ Verify(r) \/ Reverify(r) \/ CheckClaims(r) \/ CheckProof(r)
    \/ TryInsert(r) \/ Respond(r)
    \/ \E mayRetry \in BOOLEAN : RefreshReturns(r, mayRetry)

Next ==
    \/ \E r \in Requests :
          \/ \E a \in Arrivals[r] : Arrive(r, a)
          \/ Step(r)
          \/ ClientDisconnects(r)
    \/ \E c \in Contexts, ks \in (SUBSET Keys) \ {{}} : KeysChange(c, ks)
    \/ \E key \in seen : Expire(key)
    \/ ClockTicks

Spec == Init /\ [][Next]_vars

-----------------------------------------------------------------------------
(* Properties.                                                             *)

Guarded(a) == a.route # "health" /\ a.method \in ServedMethods(a.route)

RequestState ==
    [pc : {"idle", "guard", "verify", "refresh", "reverify", "claims", "proof", "insert",
           "handler"},
     arrival : Arrival \cup {Nothing},
     subject : {a.token.sub : a \in {a \in Arrival : a.token # Nothing}} \cup {Nothing},
     since : 0..MaxTime,
     ever : SUBSET Keys,
     always : SUBSET Keys,
     answer : {"none", "200", "204", "400", "401", "404", "503"}]

(* The state is well formed, and a guarded handler always finds a subject  *)
(* in the request's extensions.                                            *)
TypeOK ==
    /\ jwks \in [Contexts -> (SUBSET Keys) \ {{}}]
    /\ rotations \in 0..MaxRotations
    /\ IsFiniteSet(seen) /\ Cardinality(seen) <= Capacity
    /\ req \in [Requests -> RequestState]
    /\ now \in 0..MaxTime
    /\ \A r \in Requests :
          /\ req[r].pc # "idle" => req[r].arrival \in Arrivals[r]
          /\ req[r].pc = "handler" /\ Guarded(req[r].arrival) => req[r].subject # Nothing

(* What makes a request good, in the order in which it is looked at: both  *)
(* headers and an authority, with an algorithm that is allowed; ...        *)
HeadersGood(a) == a.token # Nothing /\ a.proof # Nothing /\ a.host /\ a.token.alg

(* ... a token issued for the audience of the route, valid from late to    *)
(* early; ...                                                              *)
ClaimsGood(a, early, late) ==
    /\ a.token.whole /\ a.token.iss = CtxOf(a.route) /\ a.token.aud = CtxOf(a.route)
    /\ a.token.exp + Skew > early /\ a.token.nbf <= late + Skew

(* ... a proof by the token's holder for this token, method and URI, fresh *)
(* from late to early.                                                     *)
ProofGood(a, early, late) ==
    /\ a.proof.alg /\ a.proof.sound /\ a.proof.jti # Nothing
    /\ a.proof.htm = a.method /\ a.proof.htu = a.route
    /\ a.proof.scheme = IF a.peer = "trusted" /\ a.proto = "https" THEN "https" ELSE "http"
    /\ a.proof.key = a.token.jkt /\ a.proof.ath = a.token
    /\ a.proof.iat + Freshness + Skew >= early /\ a.proof.iat <= late + Skew

(* The request is good, and one of the keys signed its token.              *)
Entitled(r, keys, early, late) ==
    LET a == req[r].arrival
    IN  /\ HeadersGood(a) /\ a.token.key \in keys
        /\ ClaimsGood(a, early, late) /\ ProofGood(a, early, late)

(* Whatever the guards let through to code that reads or changes data is   *)
(* entitled to it: no method is served that the guard of its route does    *)
(* not authenticate, keys that both contexts trust do not carry a token    *)
(* over to the other audience, and a refresh in mid-request does not       *)
(* replace a check.                                                        *)
OnlyEntitledAreServed ==
    \A r \in Requests :
        req[r].pc = "handler" /\ Guarded(req[r].arrival)
            => Entitled(r, req[r].ever, req[r].since, now)

(* A request ends with this answer.                                        *)
Answers(r, answer) ==
    req[r].pc # "idle" /\ req'[r].pc = "idle" /\ req'[r].answer = answer

(* The converse: a request that was entitled all the time it was looked at *)
(* is never refused with 401 unless its jti was spent or the configured    *)
(* window is too long for a deadline.                                      *)
NoEntitledRefused ==
    [][\A r \in Requests :
          Answers(r, "401") /\ Entitled(r, req[r].always, now, req[r].since)
              => JtiKey(req[r].arrival) \in seen \/ ~DeadlineFits]_vars

(* A jti is spent by the very step that admits its request, so a request   *)
(* that is refused, or whose client leaves during the refresh, can be sent *)
(* again as it is, and a proof sent along with the wrong token or to the   *)
(* wrong route does not use up the right request's jti.                    *)
JtiSpentByAdmission ==
    [][\A key \in seen' \ seen : \E r \in Requests :
          /\ req[r].pc = "insert" /\ req'[r].pc = "handler"
          /\ JtiKey(req[r].arrival) = key]_vars

(* Only a request that would otherwise be admitted, with a new jti, learns *)
(* that the replay store is full.                                          *)
PressureOnlyForNew ==
    [][\A r \in Requests : req[r].pc = "insert" /\ Answers(r, "503")
          => /\ JtiKey(req[r].arrival) \notin seen
             /\ Entitled(r, req[r].ever, req[r].since, now)]_vars

(* A method that a route does not serve is answered 404 whatever the       *)
(* credentials, as on a path that does not exist, unless its client leaves *)
(* first, and spends no jti and no refresh on the way.                     *)
UnservedIsNotFound ==
    [][\A r \in Requests :
          req[r].pc # "idle" /\ req[r].arrival.method \notin ServedMethods(req[r].arrival.route)
              => /\ req[r].pc \in {"guard", "handler"}
                 /\ req'[r].pc = "idle" => req'[r].answer \in {"404", "none"}]_vars

-----------------------------------------------------------------------------
(* What the properties rest on.                                            *)

(* ever and always enclose what the context trusts now.                    *)
HistoryInv ==
    \A r \in Requests : req[r].pc # "idle" =>
        /\ req[r].since <= now
        /\ req[r].always \subseteq jwks[CtxOf(req[r].arrival.route)]
        /\ jwks[CtxOf(req[r].arrival.route)] \subseteq req[r].ever

(* The request has come as far as one of these steps, or was let through   *)
(* to a guarded handler.                                                   *)
Reached(r, steps) ==
    \/ req[r].pc \in steps
    \/ req[r].pc = "handler" /\ Guarded(req[r].arrival)

(* A request has what the steps behind it looked for, however the clock    *)
(* and the keys moved since; one that needs a refresh was not trusted all  *)
(* the time.                                                               *)
StagesInv ==
    \A r \in Requests :
        LET a == req[r].arrival
        IN  /\ Reached(r, {"verify", "refresh", "reverify", "claims", "proof", "insert"}) =>
                  HeadersGood(a) /\ a.method \in AuthMethods(a.route)
            /\ Reached(r, {"claims", "proof", "insert"}) => a.token.key \in req[r].ever
            /\ Reached(r, {"proof", "insert"}) => ClaimsGood(a, req[r].since, now)
            /\ Reached(r, {"insert"}) => ProofGood(a, req[r].since, now)
            /\ req[r].pc \in {"refresh", "reverify"} => a.token.key \notin req[r].always

(* The inductive invariant.                                                *)
PipelineInv == TypeOK /\ HistoryInv /\ StagesInv

=============================================================================
