----------------------------- MODULE JwksRefresh -----------------------------
(***************************************************************************)
(* The OIDC contexts and everything that refreshes them: the signature     *)
(* step of validate_token (server/src/auth/token.rs), the single-flight    *)
(* on_demand_refresh it calls, the scheduled JWKS and discovery refresh    *)
(* tasks (server/src/auth/jwks.rs, discovery.rs) and the installation of   *)
(* a fetched key set with its disjointness check (context.rs).             *)
(*                                                                         *)
(* Nothing here holds a lock: contexts are atomics and ArcSwaps, and every *)
(* load, compare_exchange and store is an action of its own.  A key is its *)
(* RFC 7638 thumbprint; a key set is the set of its thumbprints.           *)
(***************************************************************************)
EXTENDS Naturals, FiniteSets

CONSTANTS
    Contexts,       \* vault and admin
    Requests,       \* request handlers that may run at the same time
    JwksTasks,      \* scheduled JWKS refresh tasks
    DiscoveryTasks, \* scheduled discovery refresh tasks
    CtxOf,          \* the context each of them works on
    Keys,           \* key thumbprints
    KeyChoices,     \* for each context the key sets its provider may publish
    Uris,           \* for each context the jwks_uri values of its provider
    Interval,       \* on_demand_refresh_min_interval_secs
    FetchTimeout,   \* total request timeout of the HTTP client
    Stall,          \* longest time code between two awaits takes
    StartTime,      \* the clock at start; the Unix epoch is long ago
    MaxTime,        \* bound on the clock
    MaxRotations    \* bound on changes at the providers

Tasks == Requests \cup JwksTasks \cup DiscoveryTasks

AllUris == UNION {Uris[c] : c \in Contexts}

ASSUME RefreshAssumption ==
    /\ CtxOf \in [Tasks -> Contexts]
    /\ KeyChoices \in [Contexts -> SUBSET ((SUBSET Keys) \ {{}})]
    /\ Interval \in Nat \ {0}
    /\ FetchTimeout \in Nat
    /\ Stall \in Nat
    /\ StartTime \in Nat
    /\ MaxTime \in Nat
    /\ MaxRotations \in Nat
    /\ Requests \cap JwksTasks = {}
    /\ (Requests \cup JwksTasks) \cap DiscoveryTasks = {}

(* The epoch is further back than an interval, so that the zero the slot   *)
(* starts with limits nobody.  config::validate does not bound the         *)
(* interval from above; only one of some fifty years breaks this.          *)
ASSUME EpochAssumption == StartTime >= Interval

VARIABLES
    jwks,        \* OidcContext::jwks
    discovery,   \* OidcContext::discovery, its jwks_uri
    lastClaim,   \* OidcContext::last_on_demand_refresh
    lastDone,    \* OidcContext::last_refresh_completed
    task,        \* what each handler and background task is doing
    idp,         \* the providers: document, served key sets, changes so far
    now,         \* seconds since the Unix epoch
    completed,   \* history: claims whose refresh has been recorded as done
    raced        \* history: two contexts were between check and store at once

ctxVars == <<jwks, discovery, lastClaim, lastDone>>

vars == <<jwks, discovery, lastClaim, lastDone, task, idp, now, completed, raced>>

NoKey == "nokey"
NoUri == "nouri"

(* pc is the point in the code: of validate_token and on_demand_refresh    *)
(* ("slot", "claim", then the loser's "check", "register", "wait",         *)
(* "recheck" or the winner's "fetch" ... "notify", then "retry"), of       *)
(* do_scheduled_refresh ("fetch", "response", "store") and of the          *)
(* discovery task ("fetch", "response").  At "fetch" the request is on its *)
(* way to the provider, at "response" the answer is on its way back.       *)
TaskState ==
    [pc : {"idle", "slot", "claim", "check", "register", "wait", "recheck",
           "fetch", "response", "store", "record", "notify", "retry"},
     role : {"none", "limited", "lost", "winner"},
     at : Nat,         \* now_secs
     since : Nat,      \* when it last began to run, or to wait
     prev : Nat,       \* prev
     key : Keys \cup {NoKey},      \* the key that signed the token
     uri : AllUris \cup {NoUri},
     body : SUBSET Keys,           \* the fetched key set
     installed : BOOLEAN,          \* install_result
     verdict : {"none", "Ok", "SignatureInvalid", "Dropped"}]

Idle(verdict) ==
    [pc |-> "idle", role |-> "none", at |-> 0, since |-> 0, prev |-> 0,
     key |-> NoKey, uri |-> NoUri, body |-> {}, installed |-> FALSE,
     verdict |-> verdict]

(* init_contexts: both providers answered and their key sets are disjoint. *)
Init ==
    /\ idp \in [doc : {d \in [Contexts -> AllUris] :
                         \A c \in Contexts : d[c] \in Uris[c]},
                served : {s \in [Contexts -> SUBSET Keys] :
                            \A c \in Contexts : s[c] \in KeyChoices[c]},
                changes : {0}]
    /\ jwks = idp.served
    /\ discovery = idp.doc
    /\ \A c, d \in Contexts : c # d => jwks[c] \cap jwks[d] = {}
    /\ lastClaim = [c \in Contexts |-> 0]
    /\ lastDone = [c \in Contexts |-> 0]
    /\ task = [t \in Tasks |-> Idle("none")]
    /\ now = StartTime
    /\ completed = [c \in Contexts |-> {}]
    /\ raced = FALSE

(* wait_timeout: (interval / 2).max(1)                                     *)
WaitTimeout == IF Interval \div 2 >= 1 THEN Interval \div 2 ELSE 1

Set(t, s) == task' = [task EXCEPT ![t] = s]

Goto(t, pc) == Set(t, [task[t] EXCEPT !.pc = pc])

-----------------------------------------------------------------------------
(* validate_token, step 2.                                                 *)

(* try_decode_with_current_jwks on a token signed with key k; on failure   *)
(* on_demand_refresh starts by reading the clock.                          *)
StartRequest(t, k) ==
    /\ t \in Requests
    /\ task[t].pc = "idle"
    /\ Set(t, IF k \in jwks[CtxOf[t]]
              THEN Idle("Ok")
              ELSE [Idle("none") EXCEPT !.pc = "slot", !.key = k,
                                        !.at = now, !.since = now])
    /\ UNCHANGED <<ctxVars, idp, now, completed, raced>>

(* The single retry after on_demand_refresh returned true.                 *)
Retry(t) ==
    /\ task[t].pc = "retry"
    /\ Set(t, Idle(IF task[t].key \in jwks[CtxOf[t]] THEN "Ok" ELSE "SignatureInvalid"))
    /\ UNCHANGED <<ctxVars, idp, now, completed, raced>>

(* on_demand_refresh returns: true leads to the retry, false leaves the    *)
(* first error as the answer.                                              *)
Returned(t, mayRetry) ==
    IF mayRetry THEN [task[t] EXCEPT !.pc = "retry", !.since = now]
                ELSE Idle("SignatureInvalid")

-----------------------------------------------------------------------------
(* on_demand_refresh.                                                      *)

(* Mutant: the window is counted from the last completion, not the claim.  *)
MutLoadSlotFromCompletion(t) ==
    LET prev == lastClaim[CtxOf[t]]
    IN  /\ task[t].pc = "slot"
        /\ Set(t, IF task[t].at < lastDone[CtxOf[t]] + Interval
                  THEN [task[t] EXCEPT !.prev = prev, !.pc = "check", !.role = "limited"]
                  ELSE [task[t] EXCEPT !.prev = prev, !.pc = "claim"])
        /\ UNCHANGED <<ctxVars, idp, now, completed, raced>>

(* Load of last_on_demand_refresh and the rate limit.                      *)
LoadSlot(t) ==
    LET prev == lastClaim[CtxOf[t]]
    IN  /\ task[t].pc = "slot"
        /\ Set(t, IF task[t].at < prev + Interval
                  THEN [task[t] EXCEPT !.prev = prev, !.pc = "check", !.role = "limited"]
                  ELSE [task[t] EXCEPT !.prev = prev, !.pc = "claim"])
        /\ UNCHANGED <<ctxVars, idp, now, completed, raced>>

(* Mutant: a plain store claims the slot.                                  *)
MutClaimStores(t) ==
    LET c == CtxOf[t]
    IN  /\ task[t].pc = "claim"
        /\ lastClaim' = [lastClaim EXCEPT ![c] = task[t].at]
        /\ Set(t, [task[t] EXCEPT !.pc = "fetch", !.role = "winner",
                                  !.uri = discovery[c], !.since = now])
        /\ UNCHANGED <<jwks, discovery, lastDone, idp, now, completed, raced>>

(* The compare_exchange; the winner goes on to send its fetch to the       *)
(* jwks_uri of the cached discovery document.                              *)
Claim(t) ==
    LET c == CtxOf[t]
    IN  /\ task[t].pc = "claim"
        /\ \/ /\ lastClaim[c] = task[t].prev
              /\ lastClaim' = [lastClaim EXCEPT ![c] = task[t].at]
              /\ Set(t, [task[t] EXCEPT !.pc = "fetch", !.role = "winner",
                                        !.uri = discovery[c], !.since = now])
           \/ /\ lastClaim[c] # task[t].prev
              /\ Set(t, [task[t] EXCEPT !.pc = "check", !.role = "lost"])
              /\ UNCHANGED lastClaim
        /\ UNCHANGED <<jwks, discovery, lastDone, idp, now, completed, raced>>

(* The winner's store to last_refresh_completed ...                        *)
RecordCompletion(t) ==
    LET c == CtxOf[t]
    IN  /\ task[t].pc = "record"
        /\ lastDone' = [lastDone EXCEPT ![c] = task[t].at]
        /\ completed' = [completed EXCEPT ![c] = @ \cup {task[t].at}]
        /\ Goto(t, "notify")
        /\ UNCHANGED <<jwks, discovery, lastClaim, idp, now, raced>>

(* ... and notify_waiters, which wakes the futures registered by now.      *)
NotifyWaiters(t) ==
    /\ task[t].pc = "notify"
    /\ task' = [u \in Tasks |->
           IF u = t THEN Returned(t, task[t].installed)
           ELSE IF CtxOf[u] = CtxOf[t] /\ task[u].pc = "wait"
                THEN [task[u] EXCEPT !.pc = "recheck", !.since = now]
                ELSE task[u]]
    /\ UNCHANGED <<ctxVars, idp, now, completed, raced>>

(* wait_for_completion, the fast path.                                     *)
CheckCompletion(t) ==
    /\ task[t].pc = "check"
    /\ Set(t, IF lastDone[CtxOf[t]] >= task[t].prev
              THEN Returned(t, TRUE)
              ELSE [task[t] EXCEPT !.pc = "register"])
    /\ UNCHANGED <<ctxVars, idp, now, completed, raced>>

(* The notified() future and its timer are created.                        *)
RegisterWaiter(t) ==
    /\ task[t].pc = "register"
    /\ Set(t, [task[t] EXCEPT !.pc = "wait", !.since = now])
    /\ UNCHANGED <<ctxVars, idp, now, completed, raced>>

(* Mutant: the wait has no timeout.                                        *)
MutWaitForever(t) ==
    /\ task[t].pc = "wait"
    /\ FALSE
    /\ UNCHANGED vars

(* The timer of tokio::time::timeout fires.                                *)
WaitTimesOut(t) ==
    /\ task[t].pc = "wait"
    /\ now >= task[t].since + WaitTimeout
    /\ Set(t, [task[t] EXCEPT !.pc = "recheck", !.since = now])
    /\ UNCHANGED <<ctxVars, idp, now, completed, raced>>

(* Mutant: the end of the wait is taken for a completion.                  *)
MutRecheckTrusts(t) ==
    /\ task[t].pc = "recheck"
    /\ Set(t, Returned(t, TRUE))
    /\ UNCHANGED <<ctxVars, idp, now, completed, raced>>

(* The re-check after the wait is authoritative.                           *)
Recheck(t) ==
    /\ task[t].pc = "recheck"
    /\ Set(t, Returned(t, lastDone[CtxOf[t]] >= task[t].prev))
    /\ UNCHANGED <<ctxVars, idp, now, completed, raced>>

-----------------------------------------------------------------------------
(* Scheduled refresh, fetching and installing.                             *)

(* An interval fires: do_scheduled_refresh, or the body of the discovery   *)
(* task, sends its request.  When it does so is left open.                 *)
ScheduledTick(t) ==
    /\ t \in JwksTasks \cup DiscoveryTasks
    /\ task[t].pc = "idle"
    /\ Set(t, [Idle("none") EXCEPT !.pc = "fetch", !.since = now,
                  !.uri = IF t \in JwksTasks THEN discovery[CtxOf[t]] ELSE NoUri])
    /\ UNCHANGED <<ctxVars, idp, now, completed, raced>>

(* Mutant: a scheduled refresh goes on as an on-demand one.                *)
MutAfterRefreshRecords(t, ok) ==
    [task[t] EXCEPT !.pc = "record", !.installed = ok, !.uri = NoUri, !.body = {}]

(* After a fetch or an install an on-demand winner records the completion, *)
(* a background task goes back to its interval.                            *)
AfterRefresh(t, ok) ==
    IF t \in Requests
    THEN [task[t] EXCEPT !.pc = "record", !.installed = ok, !.uri = NoUri, !.body = {},
                         !.since = IF task[t].pc = "store" THEN @ ELSE now]
    ELSE Idle("none")

(* The provider answers: a key set, if it still serves one at that URI, or *)
(* its discovery document.  The answer may be overtaken on its way back.   *)
ProviderAnswers(t) ==
    LET c == CtxOf[t]
    IN  /\ task[t].pc = "fetch"
        /\ \/ /\ t \notin DiscoveryTasks
              /\ task[t].uri = idp.doc[c]
              /\ Set(t, [task[t] EXCEPT !.pc = "response", !.body = idp.served[c]])
           \/ /\ t \in DiscoveryTasks
              /\ Set(t, [task[t] EXCEPT !.pc = "response", !.uri = idp.doc[c]])
        /\ UNCHANGED <<ctxVars, idp, now, completed, raced>>

(* fetch_jwks or fetch_discovery returns an error (an error status, a      *)
(* timeout, a body that does not parse): nothing cached is evicted.        *)
FetchFails(t) ==
    /\ task[t].pc \in {"fetch", "response"}
    /\ Set(t, AfterRefresh(t, FALSE))
    /\ UNCHANGED <<ctxVars, idp, now, completed, raced>>

(* check_disjoint_jwks                                                     *)
Disjoint(a, b) == a \cap b = {}

(* Mutant: the new set is compared with the one it replaces.               *)
MutOwnKeys(c) == jwks[c]

(* The key set of the context that c must stay disjoint from.              *)
OtherKeys(c) == UNION {jwks[d] : d \in Contexts \ {c}}

(* fetch_jwks returns a key set and install_refreshed_jwks begins: load    *)
(* the other context's set and compare ...                                 *)
CheckDisjoint(t) ==
    LET c == CtxOf[t]
        ok == Disjoint(OtherKeys(c), task[t].body)
    IN  /\ task[t].pc = "response"
        /\ t \notin DiscoveryTasks
        /\ Set(t, IF ok THEN [task[t] EXCEPT !.pc = "store", !.since = now]
                        ELSE AfterRefresh(t, FALSE))
        /\ raced' = (raced \/ (ok /\ \E u \in Tasks :
                                        CtxOf[u] # c /\ task[u].pc = "store"))
        /\ UNCHANGED <<ctxVars, idp, now, completed>>

(* ... and store the new one.                                              *)
StoreJwks(t) ==
    /\ task[t].pc = "store"
    /\ jwks' = [jwks EXCEPT ![CtxOf[t]] = task[t].body]
    /\ Set(t, AfterRefresh(t, TRUE))
    /\ UNCHANGED <<discovery, lastClaim, lastDone, idp, now, completed, raced>>

(* Mutant: the fetched document is not swapped in.                         *)
MutStoreDiscoveryForgets(t) ==
    /\ t \in DiscoveryTasks
    /\ task[t].pc = "response"
    /\ Set(t, Idle("none"))
    /\ UNCHANGED <<ctxVars, idp, now, completed, raced>>

(* fetch_discovery returns a document, which is swapped in.                *)
StoreDiscovery(t) ==
    /\ t \in DiscoveryTasks
    /\ task[t].pc = "response"
    /\ discovery' = [discovery EXCEPT ![CtxOf[t]] = task[t].uri]
    /\ Set(t, Idle("none"))
    /\ UNCHANGED <<jwks, lastClaim, lastDone, idp, now, completed, raced>>

-----------------------------------------------------------------------------
(* The environment.                                                        *)

(* The client goes away: the handler's future is dropped where it awaits.  *)
ClientDisconnects(t) ==
    /\ t \in Requests
    /\ task[t].pc \in {"fetch", "response", "wait"}
    /\ Set(t, Idle("Dropped"))
    /\ UNCHANGED <<ctxVars, idp, now, completed, raced>>

(* A provider publishes another key set, or moves its key set to another   *)
(* URI and says so in its discovery document.                              *)
ProviderChanges(c) ==
    /\ idp.changes < MaxRotations
    /\ \/ \E ks \in KeyChoices[c] \ {idp.served[c]} :
             idp' = [idp EXCEPT !.served[c] = ks, !.changes = @ + 1]
       \/ \E u \in Uris[c] \ {idp.doc[c]} :
             idp' = [idp EXCEPT !.doc[c] = u, !.changes = @ + 1]
    /\ UNCHANGED <<ctxVars, task, now, completed, raced>>

(* How long the task may stay at its point of the code.                    *)
Patience(t) ==
    CASE task[t].pc \in {"fetch", "response"} -> FetchTimeout + Stall
      [] task[t].pc = "wait" -> WaitTimeout + Stall
      [] OTHER -> Stall

ClockTicks ==
    /\ now < MaxTime
    /\ \A t \in Tasks : task[t].pc # "idle" => now < task[t].since + Patience(t)
    /\ now' = now + 1
    /\ UNCHANGED <<ctxVars, task, idp, completed, raced>>

OnDemandStep(t) ==
    \/ Retry(t) \/ LoadSlot(t) \/ Claim(t) \/ RecordCompletion(t) \/ NotifyWaiters(t)
    \/ CheckCompletion(t) \/ RegisterWaiter(t) \/ WaitTimesOut(t) \/ Recheck(t)

RefreshStep(t) ==
    \/ ScheduledTick(t) \/ ProviderAnswers(t) \/ FetchFails(t)
    \/ CheckDisjoint(t) \/ StoreJwks(t) \/ StoreDiscovery(t)

Next ==
    \/ \E t \in Tasks :
          \/ \E k \in Keys : StartRequest(t, k)
          \/ OnDemandStep(t)
          \/ RefreshStep(t)
          \/ ClientDisconnects(t)
    \/ \E c \in Contexts : ProviderChanges(c)
    \/ ClockTicks

(* The runtime keeps polling whoever can run, intervals keep firing and    *)
(* every fetch resolves, by its timeout at the latest.  A scheduled fetch, *)
(* tried for ever, is answered, and its answer arrives, again and again.   *)
Fairness ==
    /\ \A t \in Tasks : WF_vars(OnDemandStep(t)) /\ WF_vars(RefreshStep(t))
    /\ \A t \in JwksTasks \cup DiscoveryTasks :
          /\ SF_vars(ProviderAnswers(t))
          /\ SF_vars(CheckDisjoint(t) \/ StoreDiscovery(t))
    /\ WF_vars(ClockTicks)

Spec == Init /\ [][Next]_vars

FairSpec == Spec /\ Fairness

-----------------------------------------------------------------------------
(* Properties.                                                             *)

(* The points of the code that a task of t's kind runs; a discovery task   *)
(* that was answered has a URI in hand.                                    *)
Home(t, s) ==
    /\ t \in JwksTasks => s.pc \in {"idle", "fetch", "response", "store"}
    /\ t \in DiscoveryTasks => s.pc \in {"idle", "fetch", "response"}
    /\ t \in DiscoveryTasks /\ s.pc = "response" => s.uri \in AllUris

(* Every variable has the type its Rust counterpart has, and no task is at *)
(* a point of code it does not run: a background task never claims the     *)
(* on-demand slot or waits, a discovery task never installs keys.          *)
TypeOK ==
    /\ jwks \in [Contexts -> SUBSET Keys]
    /\ discovery \in [Contexts -> AllUris]
    /\ idp \in [doc : [Contexts -> AllUris], served : [Contexts -> SUBSET Keys],
                changes : Nat]
    /\ lastClaim \in [Contexts -> Nat]
    /\ lastDone \in [Contexts -> Nat]
    /\ task \in [Tasks -> TaskState]
    /\ now \in Nat
    /\ completed \in [Contexts -> SUBSET Nat]
    /\ raced \in BOOLEAN
    /\ \A t \in Tasks : Home(t, task[t])

(* However requests interleave between the load of the slot and the        *)
(* compare_exchange, two successive claims of a context's on-demand slot   *)
(* are at least the minimum interval apart: a storm of bad tokens          *)
(* collapses to one fetch per window (on_demand_refresh).                  *)
OneClaimPerWindow ==
    [][\A c \in Contexts : lastClaim'[c] # lastClaim[c]
                              => lastClaim'[c] >= lastClaim[c] + Interval]_vars

InFlight == {"fetch", "response", "store", "record"}

Winners(c) == {t \in Requests : CtxOf[t] = c /\ task[t].role = "winner"
                                 /\ task[t].pc \in InFlight}

(* The longest a refresh is in flight, counted from the time its request   *)
(* read the clock: the request is held up at most once before its claim,   *)
(* once by the fetch and once after it.                                    *)
LongestFlight == FetchTimeout + 3 * Stall

(* on_demand_refresh is single-flight per window, and only per window: a   *)
(* fetch may outlast the window its winner claimed (it does with the       *)
(* shipped 30 s timeout and 30 s interval) and the next winner flies       *)
(* beside it.  Still any two in flight for one context claimed an interval *)
(* apart and none flies for longer than LongestFlight, so there are never  *)
(* more than 1 + LongestFlight / Interval of them.                         *)
FlightsApart ==
    \A c \in Contexts : \A t \in Winners(c) :
        /\ now <= task[t].at + LongestFlight
        /\ \A u \in Winners(c) \ {t} : \/ task[t].at + Interval <= task[u].at
                                      \/ task[u].at + Interval <= task[t].at

(* Every winner stores the time it started at into last_refresh_completed, *)
(* not the time it finished, so a winner that finishes after a later one   *)
(* sets it back.  Only such a winner does, one that the next window        *)
(* overtook, and only by whole windows, to a time at most LongestFlight    *)
(* ago.                                                                    *)
SetBackOnlyWhenOvertaken ==
    [][\A c \in Contexts : lastDone'[c] < lastDone[c] =>
            /\ lastDone'[c] + Interval <= lastDone[c]
            /\ lastDone[c] <= now
            /\ now <= lastDone'[c] + LongestFlight]_vars

(* A caller that the rate limit turned away and that is told to retry has  *)
(* seen a refresh complete that began no earlier than the claim it read,   *)
(* and that refresh's key set is in place or was refused.                  *)
LimitedRetryAfterCompletion ==
    \A t \in Requests :
        task[t].pc = "retry" /\ task[t].role = "limited"
            => \E s \in completed[CtxOf[t]] : s >= task[t].prev

(* The promise of wait_for_completion for every caller it sends to retry,  *)
(* the ones that lost the compare_exchange included.                       *)
RetryMeansCompletion ==
    \A t \in Requests :
        task[t].pc = "retry" /\ task[t].role \in {"limited", "lost"}
            => \E s \in completed[CtxOf[t]] : s >= task[t].prev

KeysDisjoint ==
    \A c, d \in Contexts : c # d => Disjoint(jwks[c], jwks[d])

(* No key is ever trusted by both contexts, as long as no two installs     *)
(* overlap in time (install_refreshed_jwks).                               *)
DisjointUnlessRaced == raced \/ KeysDisjoint

(* The same without the proviso.                                           *)
AlwaysDisjoint == KeysDisjoint

(* Every request that is sent into on_demand_refresh comes out again with  *)
(* an answer (or its client leaves), whoever wins, fails, disconnects in   *)
(* mid-fetch or sleeps through the notification.                           *)
EveryCallerAnswered ==
    \A t \in Requests : task[t].pc # "idle" ~> (task[t].pc = "idle" \/ now = MaxTime)

(* Once the providers settle, every context ends up with the key set its   *)
(* provider serves, however many refreshes failed and whichever URI the    *)
(* cached document still names; what may keep it from that is only the     *)
(* other context holding one of the new keys.                              *)
ContextsConverge ==
    <>[](\A c \in Contexts : \/ jwks[c] = idp.served[c]
                             \/ ~Disjoint(idp.served[c], OtherKeys(c)))

-----------------------------------------------------------------------------
(* The facts that make the safety properties inductive.                    *)

(* Whoever is about to claim the slot read the clock at least an interval  *)
(* after the claim it saw.                                                 *)
ClaimInv ==
    \A t \in Tasks : task[t].pc = "claim" => task[t].at >= task[t].prev + Interval

(* A completion that is visible was recorded, and a caller turned away by  *)
(* the rate limit saw a real claim and not the initial zero.               *)
CompletionInv ==
    /\ now >= StartTime
    /\ \A c \in Contexts : lastDone[c] \in completed[c] \cup {0}
    /\ \A t \in Tasks :
          /\ task[t].pc \in {"slot", "claim"} => task[t].at >= StartTime
          /\ task[t].role = "limited" => task[t].prev > 0
          /\ task[t].pc \in {"slot", "claim", "fetch", "response", "store", "record", "notify"}
                => task[t].role # "limited"
    /\ LimitedRetryAfterCompletion

(* Until two installs race, at most one context is between check and store *)
(* and what it is about to store is disjoint from the other's key set.     *)
InstallInv ==
    raced \/ /\ KeysDisjoint
             /\ \A t \in Tasks : task[t].pc = "store" =>
                   /\ \A d \in Contexts : d # CtxOf[t] => Disjoint(jwks[d], task[t].body)
                   /\ \A u \in Tasks : task[u].pc = "store" => CtxOf[u] = CtxOf[t]

(* What a request in on_demand_refresh has to do with the clock, and with  *)
(* the claim and the completion of its context.                            *)
Flight(s, time, claim, done) ==
    /\ s.pc \in {"slot", "claim"} => s.since = s.at /\ s.at <= time /\ time <= s.at + Stall
    /\ s.pc \in {"fetch", "response"} =>
          s.since <= s.at + Stall /\ time <= s.since + FetchTimeout + Stall
    /\ s.pc \in {"store", "record"} =>
          s.since <= s.at + FetchTimeout + 2 * Stall /\ time <= s.since + Stall
    /\ s.pc \in InFlight =>
          /\ s.role = "winner" /\ s.at <= claim
          /\ s.at + Interval <= done \/ done + Interval <= s.at

FlightInv ==
    /\ \A t \in Requests : Flight(task[t], now, lastClaim[CtxOf[t]], lastDone[CtxOf[t]])
    /\ \A c \in Contexts : lastDone[c] <= lastClaim[c] /\ lastClaim[c] <= now
    /\ \A t, u \in Requests :
          /\ task[t].pc \in InFlight /\ task[u].pc \in InFlight
          /\ CtxOf[t] = CtxOf[u] /\ t # u
          => task[t].at + Interval <= task[u].at \/ task[u].at + Interval <= task[t].at

=============================================================================
