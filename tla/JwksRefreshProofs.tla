-------------------------- MODULE JwksRefreshProofs --------------------------
(* Theorems about the JWKS refresh, for every number of requests, contexts *)
(* and keys and for every interval and timeout.                            *)
EXTENDS JwksRefresh, FiniteSetTheorems, TLAPS

(* What an action that moves one task has to establish for the types.      *)
LEMMA SetTyped ==
  ASSUME task \in [Tasks -> TaskState], \A u \in Tasks : Home(u, task[u]),
         NEW t \in Tasks, NEW s \in TaskState, Home(t, s), Set(t, s)
  PROVE  task' \in [Tasks -> TaskState] /\ \A u \in Tasks : Home(u, task'[u])
  BY DEF Set

LEMMA IdleTyped ==
  ASSUME NEW t \in Tasks,
         NEW v \in {"none", "Ok", "SignatureInvalid", "Dropped"}
  PROVE  Idle(v) \in TaskState /\ Home(t, Idle(v))
  BY DEF Idle, TaskState, Home

(* TypeOK holds in every reachable state: in particular no background task *)
(* ever runs the on-demand protocol (server/src/auth/jwks.rs).             *)
LEMMA TypeInit == Init => TypeOK
<1> SUFFICES ASSUME Init PROVE TypeOK
  OBVIOUS
<1>1. task \in [Tasks -> TaskState] /\ \A u \in Tasks : Home(u, task[u])
  BY IdleTyped DEF Init
<1>2. /\ idp \in [doc : [Contexts -> AllUris], served : [Contexts -> SUBSET Keys],
                   changes : Nat]
      /\ idp.doc \in [Contexts -> AllUris]
      /\ idp.served \in [Contexts -> SUBSET Keys]
  BY DEF Init
<1>3. /\ jwks \in [Contexts -> SUBSET Keys]
      /\ discovery \in [Contexts -> AllUris]
  BY <1>2 DEF Init
<1>4. /\ lastClaim \in [Contexts -> Nat]
      /\ lastDone \in [Contexts -> Nat]
      /\ completed \in [Contexts -> SUBSET Nat]
      /\ now \in Nat
      /\ raced \in BOOLEAN
  BY RefreshAssumption DEF Init
<1> QED
  BY <1>1, <1>2, <1>3, <1>4 DEF TypeOK

LEMMA TypeNext == TypeOK /\ [Next]_vars => TypeOK'
<1> SUFFICES ASSUME TypeOK, [Next]_vars PROVE TypeOK'
  OBVIOUS
<1>0. /\ task \in [Tasks -> TaskState]
      /\ \A u \in Tasks : Home(u, task[u])
      /\ now \in Nat
      /\ CtxOf \in [Tasks -> Contexts]
  BY RefreshAssumption DEF TypeOK
<1>1. ASSUME NEW t \in Tasks, NEW k \in Keys, StartRequest(t, k) PROVE TypeOK'
  <2> DEFINE s == [Idle("none") EXCEPT !.pc = "slot", !.key = k, !.at = now, !.since = now]
  <2>1. s \in TaskState /\ Home(t, s)
    BY <1>0, <1>1, RefreshAssumption DEF StartRequest, Idle, TaskState, Home
  <2>2. task' \in [Tasks -> TaskState] /\ \A u \in Tasks : Home(u, task'[u])
    BY <1>0, <1>1, <2>1, SetTyped, IdleTyped DEF StartRequest
  <2> QED
    BY <1>1, <2>2 DEF StartRequest, TypeOK, ctxVars
<1>2. ASSUME NEW t \in Tasks, Retry(t) PROVE TypeOK'
  <2>2. task' \in [Tasks -> TaskState] /\ \A u \in Tasks : Home(u, task'[u])
    BY <1>0, <1>2, SetTyped, IdleTyped DEF Retry
  <2> QED
    BY <1>2, <2>2 DEF Retry, TypeOK, ctxVars
<1>3. ASSUME NEW t \in Tasks, LoadSlot(t) PROVE TypeOK'
  <2>0. lastClaim[CtxOf[t]] \in Nat
    BY <1>0 DEF TypeOK
  <2> DEFINE a == [task[t] EXCEPT !.prev = lastClaim[CtxOf[t]], !.pc = "check", !.role = "limited"]
             b == [task[t] EXCEPT !.prev = lastClaim[CtxOf[t]], !.pc = "claim"]
  <2>1. a \in TaskState /\ Home(t, a) /\ b \in TaskState /\ Home(t, b)
    <3>1. task[t] \in TaskState /\ Home(t, task[t]) /\ task[t].pc = "slot"
      BY <1>0, <1>3 DEF LoadSlot
    <3>2. a \in TaskState /\ a.pc = "check" /\ a.role = "limited"
      BY <2>0, <3>1 DEF TaskState
    <3>3. b \in TaskState /\ b.pc = "claim" /\ b.role = task[t].role
      BY <2>0, <3>1 DEF TaskState
    <3>4. Home(t, a)
      BY <3>1, <3>2 DEF Home
    <3>5. Home(t, b)
      BY <3>1, <3>3 DEF Home
    <3> QED
      BY <3>2, <3>3, <3>4, <3>5
  <2>2. task' \in [Tasks -> TaskState] /\ \A u \in Tasks : Home(u, task'[u])
    <3>1. Set(t, a) \/ Set(t, b)
      BY <1>3 DEF LoadSlot
    <3> QED
      BY <1>0, <2>1, <3>1, SetTyped
  <2> QED
    BY <1>3, <2>2 DEF LoadSlot, TypeOK, ctxVars
<1>4. ASSUME NEW t \in Tasks, Claim(t) PROVE TypeOK'
  <2>0. discovery[CtxOf[t]] \in AllUris /\ task[t].at \in Nat
    BY <1>0 DEF TypeOK, TaskState
  <2> DEFINE a == [task[t] EXCEPT !.pc = "fetch", !.role = "winner",
                               !.uri = discovery[CtxOf[t]], !.since = now]
             b == [task[t] EXCEPT !.pc = "check", !.role = "lost"]
  <2>1. task[t] \in TaskState /\ now \in Nat
    BY <1>0
  <2>2. a \in TaskState /\ b \in TaskState
    BY <2>1, <2>0 DEF TaskState
  <2>3. Home(t, a) /\ Home(t, b)
    BY <1>0, <1>4, <2>0, RefreshAssumption DEF Claim, TaskState, Home
  <2>4. Set(t, a) \/ Set(t, b)
    BY <1>0, <1>4, <2>0 DEF Claim, TaskState, Home
  <2>5. task' \in [Tasks -> TaskState] /\ \A u \in Tasks : Home(u, task'[u])
    BY <1>0, <2>2, <2>3, <2>4, SetTyped, IdleTyped
  <2> QED
    BY <1>4, <2>5, <2>0, RefreshAssumption DEF Claim, TypeOK
<1>5. ASSUME NEW t \in Tasks, RecordCompletion(t) PROVE TypeOK'
  <2>0. task[t].at \in Nat
    BY <1>0 DEF TaskState
  <2> DEFINE a == [task[t] EXCEPT !.pc = "notify"]
  <2>1. task[t] \in TaskState /\ now \in Nat
    BY <1>0
  <2>2. a \in TaskState
    BY <2>1, <2>0 DEF TaskState
  <2>3. Home(t, a)
    BY <1>0, <1>5, <2>0, RefreshAssumption DEF RecordCompletion, Goto, TaskState, Home
  <2>4. Set(t, a)
    BY <1>0, <1>5, <2>0 DEF RecordCompletion, Goto, TaskState, Home
  <2>5. task' \in [Tasks -> TaskState] /\ \A u \in Tasks : Home(u, task'[u])
    BY <1>0, <2>2, <2>3, <2>4, SetTyped, IdleTyped
  <2> QED
    BY <1>5, <2>5, <2>0, RefreshAssumption DEF RecordCompletion, TypeOK
<1>6. ASSUME NEW t \in Tasks, CheckCompletion(t) PROVE TypeOK'
  <2> DEFINE a == [task[t] EXCEPT !.pc = "retry", !.since = now]
             b == [task[t] EXCEPT !.pc = "register"]
  <2>1. task[t] \in TaskState /\ now \in Nat
    BY <1>0
  <2>2. a \in TaskState /\ b \in TaskState
    BY <2>1 DEF TaskState
  <2>3. Home(t, a) /\ Home(t, b)
    BY <1>0, <1>6, RefreshAssumption DEF CheckCompletion, Returned, TaskState, Home
  <2>4. Set(t, a) \/ Set(t, b)
    BY <1>0, <1>6 DEF CheckCompletion, Returned, TaskState, Home
  <2>5. task' \in [Tasks -> TaskState] /\ \A u \in Tasks : Home(u, task'[u])
    BY <1>0, <2>2, <2>3, <2>4, SetTyped, IdleTyped
  <2> QED
    BY <1>6, <2>5, RefreshAssumption DEF CheckCompletion, TypeOK, ctxVars
<1>7. ASSUME NEW t \in Tasks, RegisterWaiter(t) PROVE TypeOK'
  <2> DEFINE a == [task[t] EXCEPT !.pc = "wait", !.since = now]
  <2>1. task[t] \in TaskState /\ now \in Nat
    BY <1>0
  <2>2. a \in TaskState
    BY <2>1 DEF TaskState
  <2>3. Home(t, a)
    BY <1>0, <1>7, RefreshAssumption DEF RegisterWaiter, TaskState, Home
  <2>4. Set(t, a)
    BY <1>0, <1>7 DEF RegisterWaiter, TaskState, Home
  <2>5. task' \in [Tasks -> TaskState] /\ \A u \in Tasks : Home(u, task'[u])
    BY <1>0, <2>2, <2>3, <2>4, SetTyped, IdleTyped
  <2> QED
    BY <1>7, <2>5, RefreshAssumption DEF RegisterWaiter, TypeOK, ctxVars
<1>8. ASSUME NEW t \in Tasks, WaitTimesOut(t) PROVE TypeOK'
  <2> DEFINE a == [task[t] EXCEPT !.pc = "recheck", !.since = now]
  <2>1. task[t] \in TaskState /\ now \in Nat
    BY <1>0
  <2>2. a \in TaskState
    BY <2>1 DEF TaskState
  <2>3. Home(t, a)
    BY <1>0, <1>8, RefreshAssumption DEF WaitTimesOut, TaskState, Home
  <2>4. Set(t, a)
    BY <1>0, <1>8 DEF WaitTimesOut, TaskState, Home
  <2>5. task' \in [Tasks -> TaskState] /\ \A u \in Tasks : Home(u, task'[u])
    BY <1>0, <2>2, <2>3, <2>4, SetTyped, IdleTyped
  <2> QED
    BY <1>8, <2>5, RefreshAssumption DEF WaitTimesOut, TypeOK, ctxVars
<1>9. ASSUME NEW t \in Tasks, Recheck(t) PROVE TypeOK'
  <2> DEFINE a == [task[t] EXCEPT !.pc = "retry", !.since = now]
  <2>1. task[t] \in TaskState /\ now \in Nat
    BY <1>0
  <2>2. a \in TaskState
    BY <2>1 DEF TaskState
  <2>3. Home(t, a)
    BY <1>0, <1>9, RefreshAssumption DEF Recheck, Returned, TaskState, Home
  <2>4. Set(t, a) \/ Set(t, Idle("SignatureInvalid"))
    BY <1>0, <1>9 DEF Recheck, Returned, TaskState, Home
  <2>5. task' \in [Tasks -> TaskState] /\ \A u \in Tasks : Home(u, task'[u])
    BY <1>0, <2>2, <2>3, <2>4, SetTyped, IdleTyped
  <2> QED
    BY <1>9, <2>5, RefreshAssumption DEF Recheck, TypeOK, ctxVars
<1>10. ASSUME NEW t \in Tasks, NotifyWaiters(t) PROVE TypeOK'
  <2>1. ASSUME NEW u \in Tasks PROVE task'[u] \in TaskState /\ Home(u, task'[u])
    <3>1. CASE u = t
      <4>1. task'[t] \in {Idle("SignatureInvalid"), [task[t] EXCEPT !.pc = "retry", !.since = now]}
        BY <1>10 DEF NotifyWaiters, Returned
      <4>0. task[t] \in TaskState /\ now \in Nat
        BY <1>0
      <4>2. [task[t] EXCEPT !.pc = "retry", !.since = now] \in TaskState
        BY <4>0 DEF TaskState
      <4>3. Home(t, [task[t] EXCEPT !.pc = "retry", !.since = now])
        BY <1>0, <1>10 DEF NotifyWaiters, TaskState, Home
      <4> QED
        BY <3>1, <4>1, <4>2, <4>3, IdleTyped
    <3>2. CASE u # t /\ CtxOf[u] = CtxOf[t] /\ task[u].pc = "wait"
      <4>1. task'[u] = [task[u] EXCEPT !.pc = "recheck", !.since = now]
        BY <1>10, <3>2 DEF NotifyWaiters
      <4>2. task[u] \in TaskState /\ now \in Nat
        BY <1>0
      <4>3. task'[u] \in TaskState
        BY <4>1, <4>2 DEF TaskState
      <4>4. task'[u].pc = "recheck"
        BY <4>1, <4>2 DEF TaskState
      <4> QED
        BY <1>0, <3>2, <4>3, <4>4 DEF Home
    <3>3. CASE u # t /\ ~(CtxOf[u] = CtxOf[t] /\ task[u].pc = "wait")
      BY <1>0, <1>10, <3>3 DEF NotifyWaiters
    <3> QED
      BY <3>1, <3>2, <3>3
  <2>2. task' \in [Tasks -> TaskState]
    BY <1>10, <2>1 DEF NotifyWaiters
  <2> QED
    BY <1>10, <2>1, <2>2 DEF NotifyWaiters, TypeOK, ctxVars
<1>11. ASSUME NEW t \in Tasks, ScheduledTick(t) PROVE TypeOK'
  <2>0. discovery[CtxOf[t]] \in AllUris /\ idp.doc[CtxOf[t]] \in AllUris
        /\ idp.served[CtxOf[t]] \in SUBSET Keys
    BY <1>0 DEF TypeOK
  <2> DEFINE a == [Idle("none") EXCEPT !.pc = "fetch", !.since = now,
                  !.uri = IF t \in JwksTasks THEN discovery[CtxOf[t]] ELSE NoUri]
  <2>1. task[t] \in TaskState /\ now \in Nat
    BY <1>0
  <2>2. a \in TaskState
    BY <2>1, <2>0 DEF TaskState, Idle
  <2>3. Home(t, a)
    BY <1>0, <1>11, <2>0, RefreshAssumption DEF ScheduledTick, Idle, TaskState, Home
  <2>4. Set(t, a)
    BY <1>0, <1>11, <2>0 DEF ScheduledTick, Idle, TaskState, Home
  <2>5. task' \in [Tasks -> TaskState] /\ \A u \in Tasks : Home(u, task'[u])
    BY <1>0, <2>2, <2>3, <2>4, SetTyped, IdleTyped
  <2> QED
    BY <1>11, <2>5, <2>0, RefreshAssumption DEF ScheduledTick, TypeOK, ctxVars
<1>12. ASSUME NEW t \in Tasks, ProviderAnswers(t) PROVE TypeOK'
  <2>0. discovery[CtxOf[t]] \in AllUris /\ idp.doc[CtxOf[t]] \in AllUris
        /\ idp.served[CtxOf[t]] \in SUBSET Keys
    BY <1>0 DEF TypeOK
  <2> DEFINE a == [task[t] EXCEPT !.pc = "response", !.body = idp.served[CtxOf[t]]]
             b == [task[t] EXCEPT !.pc = "response", !.uri = idp.doc[CtxOf[t]]]
  <2>1. task[t] \in TaskState /\ now \in Nat
    BY <1>0
  <2>2. a \in TaskState /\ b \in TaskState
    BY <2>1, <2>0 DEF TaskState
  <2>3. (t \notin DiscoveryTasks => Home(t, a)) /\ Home(t, b)
    BY <1>0, <1>12, <2>0, RefreshAssumption DEF ProviderAnswers, TaskState, Home
  <2>4. (t \notin DiscoveryTasks /\ Set(t, a)) \/ Set(t, b)
    BY <1>0, <1>12, <2>0 DEF ProviderAnswers, TaskState, Home
  <2>5. task' \in [Tasks -> TaskState] /\ \A u \in Tasks : Home(u, task'[u])
    BY <1>0, <2>2, <2>3, <2>4, SetTyped, IdleTyped
  <2> QED
    BY <1>12, <2>5, <2>0, RefreshAssumption DEF ProviderAnswers, TypeOK, ctxVars
<1> DEFINE Done(t, ok) ==
      [task[t] EXCEPT !.pc = "record", !.installed = ok, !.uri = NoUri, !.body = {},
                      !.since = IF task[t].pc = "store" THEN @ ELSE now]
<1>13. ASSUME NEW t \in Tasks, NEW ok \in BOOLEAN
       PROVE  AfterRefresh(t, ok) \in TaskState /\ Home(t, AfterRefresh(t, ok))
  <2>1. CASE t \in Requests
    <3>0. task[t] \in TaskState /\ now \in Nat
      BY <1>0
    <3>1. Done(t, ok) \in TaskState
      BY <3>0 DEF TaskState
    <3>2. Home(t, Done(t, ok))
      BY <1>0, <2>1, RefreshAssumption DEF TaskState, Home
    <3> QED
      BY <2>1, <3>1, <3>2 DEF AfterRefresh
  <2> QED
    BY <2>1, IdleTyped DEF AfterRefresh
<1>14. ASSUME NEW t \in Tasks, FetchFails(t) PROVE TypeOK'
  <2>1. task' \in [Tasks -> TaskState] /\ \A u \in Tasks : Home(u, task'[u])
    BY <1>0, <1>13, <1>14, SetTyped DEF FetchFails
  <2> QED
    BY <1>14, <2>1 DEF FetchFails, TypeOK, ctxVars
<1>15. ASSUME NEW t \in Tasks, CheckDisjoint(t) PROVE TypeOK'
  <2> DEFINE a == [task[t] EXCEPT !.pc = "store", !.since = now]
  <2>1. a \in TaskState /\ Home(t, a)
    <3>1. task[t] \in TaskState /\ now \in Nat /\ t \notin DiscoveryTasks
      BY <1>0, <1>15 DEF CheckDisjoint, TypeOK
    <3>2. a \in TaskState /\ a.pc = "store"
      BY <3>1 DEF TaskState
    <3> QED
      BY <3>1, <3>2 DEF Home
  <2>2. Set(t, a) \/ Set(t, AfterRefresh(t, FALSE))
    BY <1>15 DEF CheckDisjoint
  <2>3. task' \in [Tasks -> TaskState] /\ \A u \in Tasks : Home(u, task'[u])
    BY <1>0, <1>13, <2>1, <2>2, SetTyped
  <2>4. raced' \in BOOLEAN
    BY <1>15 DEF CheckDisjoint, TypeOK
  <2> QED
    BY <1>15, <2>3, <2>4 DEF CheckDisjoint, TypeOK, ctxVars
<1>16. ASSUME NEW t \in Tasks, StoreJwks(t) PROVE TypeOK'
  <2>1. task' \in [Tasks -> TaskState] /\ \A u \in Tasks : Home(u, task'[u])
    BY <1>0, <1>13, <1>16, SetTyped DEF StoreJwks
  <2>2. task[t].body \in SUBSET Keys
    BY <1>0 DEF TaskState
  <2> QED
    BY <1>16, <2>1, <2>2 DEF StoreJwks, TypeOK
<1>17. ASSUME NEW t \in Tasks, StoreDiscovery(t) PROVE TypeOK'
  <2>1. task' \in [Tasks -> TaskState] /\ \A u \in Tasks : Home(u, task'[u])
    BY <1>0, <1>17, SetTyped, IdleTyped DEF StoreDiscovery
  <2>2. task[t].uri \in AllUris
    BY <1>0, <1>17 DEF StoreDiscovery, Home
  <2> QED
    BY <1>17, <2>1, <2>2 DEF StoreDiscovery, TypeOK
<1>18. ASSUME NEW t \in Tasks, ClientDisconnects(t) PROVE TypeOK'
  <2>1. task' \in [Tasks -> TaskState] /\ \A u \in Tasks : Home(u, task'[u])
    BY <1>0, <1>18, SetTyped, IdleTyped DEF ClientDisconnects
  <2> QED
    BY <1>18, <2>1 DEF ClientDisconnects, TypeOK, ctxVars
<1>19. ASSUME NEW c \in Contexts, ProviderChanges(c) PROVE TypeOK'
  <2>1. idp' \in [doc : [Contexts -> AllUris], served : [Contexts -> SUBSET Keys],
                   changes : Nat]
    <3> DEFINE I == [doc : [Contexts -> AllUris], served : [Contexts -> SUBSET Keys],
                     changes : Nat]
    <3>1. /\ idp \in I
          /\ idp.doc \in [Contexts -> AllUris]
          /\ idp.served \in [Contexts -> SUBSET Keys]
          /\ idp.changes + 1 \in Nat
      BY DEF TypeOK
    <3>2. ASSUME NEW ks \in KeyChoices[c]
          PROVE  [idp EXCEPT !.served[c] = ks, !.changes = @ + 1] \in I
      <4>1. ks \in SUBSET Keys
        BY RefreshAssumption
      <4>2. [idp.served EXCEPT ![c] = ks] \in [Contexts -> SUBSET Keys]
        BY <3>1, <4>1
      <4>3. ASSUME NEW f \in [Contexts -> SUBSET Keys], NEW n \in Nat
            PROVE  [idp EXCEPT !.served = f, !.changes = n] \in I
        BY <3>1
      <4> QED
        BY <3>1, <4>2, <4>3
    <3>3. ASSUME NEW u \in Uris[c]
          PROVE  [idp EXCEPT !.doc[c] = u, !.changes = @ + 1] \in I
      <4>1. u \in AllUris
        BY DEF AllUris
      <4>2. [idp.doc EXCEPT ![c] = u] \in [Contexts -> AllUris]
        BY <3>1, <4>1
      <4>3. ASSUME NEW f \in [Contexts -> AllUris], NEW n \in Nat
            PROVE  [idp EXCEPT !.doc = f, !.changes = n] \in I
        BY <3>1
      <4> QED
        BY <3>1, <4>2, <4>3
    <3> QED
      BY <1>19, <3>2, <3>3 DEF ProviderChanges
  <2> QED
    BY <1>19, <2>1 DEF ProviderChanges, TypeOK, ctxVars
<1>20. CASE ClockTicks
  BY <1>20 DEF ClockTicks, TypeOK, ctxVars
<1>21. CASE UNCHANGED vars
  BY <1>21 DEF vars, TypeOK
<1> QED
  BY <1>1, <1>2, <1>3, <1>4, <1>5, <1>6, <1>7, <1>8, <1>9, <1>10, <1>11, <1>12, <1>14,
     <1>15, <1>16, <1>17, <1>18, <1>19, <1>20, <1>21 DEF Next, OnDemandStep, RefreshStep

(* The types of the contexts and of every task, and the code each task     *)
(* runs, are kept: no background task enters the on-demand protocol and no *)
(* discovery task installs keys (the tasks of jwks.rs and discovery.rs).   *)
THEOREM RefreshTyped == Spec => []TypeOK
  BY TypeInit, TypeNext, PTL DEF Spec

-----------------------------------------------------------------------------
(* One claim per window.                                                   *)

LEMMA ClaimNext == TypeOK /\ ClaimInv /\ [Next]_vars => ClaimInv'
<1> SUFFICES ASSUME TypeOK, ClaimInv, [Next]_vars PROVE ClaimInv'
  OBVIOUS
<1>0. task \in [Tasks -> TaskState] /\ now \in Nat
  BY DEF TypeOK
<1>a. ASSUME \A u \in Tasks : task'[u].pc # "claim" \/ task'[u] = task[u]
      PROVE  ClaimInv'
  BY <1>a DEF ClaimInv
<1>1. ASSUME NEW t \in Tasks, NEW k \in Keys, StartRequest(t, k) PROVE ClaimInv'
  BY <1>0, <1>1, RefreshAssumption
     DEF StartRequest, Set, Idle, TaskState, ClaimInv, ctxVars
<1>2. ASSUME NEW t \in Tasks, Retry(t) PROVE ClaimInv'
  BY <1>0, <1>2, RefreshAssumption DEF Retry, Idle, Set, TaskState, ClaimInv, ctxVars
<1>3. ASSUME NEW t \in Tasks, LoadSlot(t) PROVE ClaimInv'
  <2>1. lastClaim[CtxOf[t]] \in Nat /\ task[t] \in TaskState /\ Interval \in Nat
    BY <1>0, RefreshAssumption DEF TypeOK
  <2>2. \/ task'[t].pc = "check"
        \/ task'[t].at = task[t].at /\ task'[t].prev = lastClaim[CtxOf[t]]
           /\ ~(task[t].at < lastClaim[CtxOf[t]] + Interval)
    BY <1>0, <1>3 DEF LoadSlot, Set, TaskState
  <2>3. task[t].at \in Nat
    BY <2>1 DEF TaskState
  <2>4. \A u \in Tasks : u # t => task'[u] = task[u]
    BY <1>0, <1>3 DEF LoadSlot, Set
  <2> QED
    BY <2>1, <2>2, <2>3, <2>4 DEF ClaimInv
<1>4. ASSUME NEW t \in Tasks, Claim(t) PROVE ClaimInv'
  <2>1. \/ task' = [task EXCEPT ![t] = [task[t] EXCEPT !.pc = "fetch", !.role = "winner",
                                !.uri = discovery[CtxOf[t]], !.since = now]]
        \/ task' = [task EXCEPT ![t] = [task[t] EXCEPT !.pc = "check", !.role = "lost"]]
    BY <1>4 DEF Claim, Set
  <2>2. task[t] \in TaskState
    BY <1>0
  <2>3. task'[t].pc # "claim"
    BY <1>0, <2>1, <2>2 DEF TaskState
  <2>4. \A u \in Tasks : u # t => task'[u] = task[u]
    BY <1>0, <2>1
  <2> QED
    BY <1>a, <2>3, <2>4
<1>5. ASSUME NEW t \in Tasks, RecordCompletion(t) PROVE ClaimInv'
  BY <1>0, <1>5, RefreshAssumption
     DEF RecordCompletion, Goto, Set, TaskState, ClaimInv, ctxVars
<1>6. ASSUME NEW t \in Tasks, NotifyWaiters(t) PROVE ClaimInv'
  <2>1. ASSUME NEW u \in Tasks PROVE task'[u].pc # "claim" \/ task'[u] = task[u]
    BY <1>0, <1>6 DEF NotifyWaiters, Returned, Idle, TaskState
  <2> QED
    BY <2>1 DEF ClaimInv
<1>7. ASSUME NEW t \in Tasks, CheckCompletion(t) PROVE ClaimInv'
  BY <1>0, <1>7, RefreshAssumption
     DEF CheckCompletion, Returned, Idle, Set, TaskState, ClaimInv, ctxVars
<1>8. ASSUME NEW t \in Tasks, RegisterWaiter(t) PROVE ClaimInv'
  BY <1>0, <1>8, RefreshAssumption DEF RegisterWaiter, Set, TaskState, ClaimInv, ctxVars
<1>9. ASSUME NEW t \in Tasks, WaitTimesOut(t) PROVE ClaimInv'
  BY <1>0, <1>9, RefreshAssumption DEF WaitTimesOut, Set, TaskState, ClaimInv, ctxVars
<1>10. ASSUME NEW t \in Tasks, Recheck(t) PROVE ClaimInv'
  BY <1>0, <1>10, RefreshAssumption
     DEF Recheck, Returned, Idle, Set, TaskState, ClaimInv, ctxVars
<1>11. ASSUME NEW t \in Tasks, ScheduledTick(t) PROVE ClaimInv'
  BY <1>0, <1>11, RefreshAssumption
     DEF ScheduledTick, Idle, Set, TaskState, ClaimInv, ctxVars
<1>12. ASSUME NEW t \in Tasks, ProviderAnswers(t) PROVE ClaimInv'
  <2>1. \/ task' = [task EXCEPT ![t] = [task[t] EXCEPT !.pc = "response",
                                                     !.body = idp.served[CtxOf[t]]]]
        \/ task' = [task EXCEPT ![t] = [task[t] EXCEPT !.pc = "response",
                                                     !.uri = idp.doc[CtxOf[t]]]]
    BY <1>12 DEF ProviderAnswers, Set
  <2>2. task[t] \in TaskState
    BY <1>0
  <2>3. task'[t].pc # "claim"
    BY <1>0, <2>1, <2>2 DEF TaskState
  <2>4. \A u \in Tasks : u # t => task'[u] = task[u]
    BY <1>0, <2>1
  <2> QED
    BY <1>a, <2>3, <2>4
<1>13. ASSUME NEW t \in Tasks, FetchFails(t) PROVE ClaimInv'
  BY <1>0, <1>13, RefreshAssumption
     DEF FetchFails, AfterRefresh, Idle, Set, TaskState, ClaimInv, ctxVars
<1>14. ASSUME NEW t \in Tasks, CheckDisjoint(t) PROVE ClaimInv'
  BY <1>0, <1>14, RefreshAssumption
     DEF CheckDisjoint, AfterRefresh, Idle, Set, TaskState, ClaimInv, ctxVars
<1>15. ASSUME NEW t \in Tasks, StoreJwks(t) PROVE ClaimInv'
  BY <1>0, <1>15, RefreshAssumption
     DEF StoreJwks, AfterRefresh, Idle, Set, TaskState, ClaimInv, ctxVars
<1>16. ASSUME NEW t \in Tasks, StoreDiscovery(t) PROVE ClaimInv'
  BY <1>0, <1>16, RefreshAssumption
     DEF StoreDiscovery, Idle, Set, TaskState, ClaimInv, ctxVars
<1>17. ASSUME NEW t \in Tasks, ClientDisconnects(t) PROVE ClaimInv'
  BY <1>0, <1>17, RefreshAssumption
     DEF ClientDisconnects, Idle, Set, TaskState, ClaimInv, ctxVars
<1>18. ASSUME NEW c \in Contexts, ProviderChanges(c) PROVE ClaimInv'
  BY <1>18 DEF ProviderChanges, ClaimInv, ctxVars
<1>19. CASE ClockTicks
  BY <1>0, <1>19, RefreshAssumption DEF ClockTicks, ClaimInv, ctxVars
<1>20. CASE UNCHANGED vars
  BY <1>20 DEF vars, ClaimInv, ctxVars
<1> QED
  BY <1>1, <1>2, <1>3, <1>4, <1>5, <1>6, <1>7, <1>8, <1>9,
     <1>10, <1>11, <1>12, <1>13, <1>14, <1>15, <1>16, <1>17, <1>18, <1>19, <1>20
     DEF Next, OnDemandStep, RefreshStep

(* However many requests race for it, two successive claims of a context's *)
(* on-demand refresh slot are at least the minimum interval apart          *)
(* (on_demand_refresh's load and compare_exchange).                        *)
THEOREM OneRefreshPerWindow == Spec => OneClaimPerWindow
<1>1. Init => ClaimInv
  BY DEF Init, Idle, ClaimInv
<1>2. TypeOK /\ ClaimInv /\ [Next]_vars
        => [\A c \in Contexts : lastClaim'[c] # lastClaim[c]
                                  => lastClaim'[c] >= lastClaim[c] + Interval]_vars
  <2> SUFFICES ASSUME TypeOK, ClaimInv, [Next]_vars, NEW c \in Contexts,
                      lastClaim'[c] # lastClaim[c]
               PROVE  lastClaim'[c] >= lastClaim[c] + Interval
    OBVIOUS
  <2>1. PICK t \in Tasks : Claim(t)
    BY
       DEF Next, OnDemandStep, RefreshStep, vars, ctxVars, StartRequest, Retry, LoadSlot,
           RecordCompletion, NotifyWaiters, CheckCompletion, RegisterWaiter, WaitTimesOut,
           Recheck, ScheduledTick, ProviderAnswers, FetchFails, CheckDisjoint, StoreJwks,
           StoreDiscovery, ClientDisconnects, ProviderChanges, ClockTicks
  <2> QED
    BY <2>1 DEF Claim, ClaimInv, TypeOK
<1> QED
  BY <1>1, <1>2, TypeInit, TypeNext, ClaimNext, PTL DEF Spec, OneClaimPerWindow
-----------------------------------------------------------------------------
(* A rate-limited retry follows a completion.                              *)

LEMMA CompletionNext == TypeOK /\ CompletionInv /\ [Next]_vars => CompletionInv'
<1> SUFFICES ASSUME TypeOK, CompletionInv, [Next]_vars PROVE CompletionInv'
  OBVIOUS
<1>0. task \in [Tasks -> TaskState] /\ now \in Nat
  BY DEF TypeOK
<1>00. /\ Requests \subseteq Tasks
       /\ lastClaim \in [Contexts -> Nat] /\ lastDone \in [Contexts -> Nat]
       /\ completed \in [Contexts -> SUBSET Nat]
  BY DEF TypeOK, Tasks
<1>1. ASSUME NEW t \in Tasks, NEW k \in Keys, StartRequest(t, k) PROVE CompletionInv'
  BY <1>0, <1>1, RefreshAssumption, <1>00
     DEF StartRequest, Set, Idle, TaskState, CompletionInv, LimitedRetryAfterCompletion, ctxVars
<1>2. ASSUME NEW t \in Tasks, Retry(t) PROVE CompletionInv'
  BY <1>0, <1>2, RefreshAssumption, <1>00
     DEF Retry, Idle, Set, TaskState, CompletionInv, LimitedRetryAfterCompletion, ctxVars
<1>3. ASSUME NEW t \in Tasks, LoadSlot(t) PROVE CompletionInv'
  <2>0. /\ task[t].at \in Nat /\ lastClaim[CtxOf[t]] \in Nat
        /\ Interval \in Nat /\ StartTime \in Nat /\ StartTime >= Interval
    BY <1>0, <1>00, RefreshAssumption, EpochAssumption DEF TaskState
  <2>1. \/ /\ task'[t].pc = "check" /\ task'[t].prev = lastClaim[CtxOf[t]]
           /\ task[t].at < lastClaim[CtxOf[t]] + Interval
        \/ /\ task'[t].pc = "claim" /\ task'[t].role = task[t].role
           /\ task'[t].at = task[t].at
    BY <1>0, <1>3 DEF LoadSlot, Set, TaskState
  <2>2. \A u \in Tasks : u # t => task'[u] = task[u]
    BY <1>0, <1>3 DEF LoadSlot, Set
  <2>3. UNCHANGED <<lastDone, completed, now>>
    BY <1>3 DEF LoadSlot, ctxVars
  <2>4. task[t].at >= StartTime /\ task[t].role # "limited"
    BY <1>3 DEF LoadSlot, CompletionInv
  <2> QED
    BY <1>0, <1>00, <2>1, <2>2, <2>3, <2>0, <2>4
       DEF CompletionInv, LimitedRetryAfterCompletion
<1>4. ASSUME NEW t \in Tasks, Claim(t) PROVE CompletionInv'
  <2>1. task'[t].pc \in {"fetch", "check"} /\ task'[t].role \in {"winner", "lost"}
    <3>0. task[t] \in TaskState
      BY <1>0
    <3>1. \/ task'[t] = [task[t] EXCEPT !.pc = "fetch", !.role = "winner",
                                        !.uri = discovery[CtxOf[t]], !.since = now]
          \/ task'[t] = [task[t] EXCEPT !.pc = "check", !.role = "lost"]
      BY <1>0, <1>4 DEF Claim, Set
    <3> QED
      BY <3>0, <3>1 DEF TaskState
  <2>2. \A u \in Tasks : u # t => task'[u] = task[u]
    BY <1>0, <1>4 DEF Claim, Set
  <2>3. UNCHANGED <<lastDone, completed, now>>
    BY <1>4 DEF Claim, ctxVars
  <2> QED
    BY <1>0, <1>00, <2>1, <2>2, <2>3 DEF CompletionInv, LimitedRetryAfterCompletion
<1>5. ASSUME NEW t \in Tasks, RecordCompletion(t) PROVE CompletionInv'
  BY <1>0, <1>5, RefreshAssumption, <1>00
     DEF RecordCompletion, Goto, Set, TaskState, CompletionInv, LimitedRetryAfterCompletion, ctxVars
<1>6. ASSUME NEW t \in Tasks, NotifyWaiters(t) PROVE CompletionInv'
  <2>1. ASSUME NEW u \in Tasks
        PROVE  \/ task'[u] = task[u]
               \/ task'[u].pc = "idle" /\ task'[u].role = "none"
               \/ /\ u = t /\ task'[u].pc = "retry" /\ task'[u].role = task[u].role
               \/ /\ task'[u].pc = "recheck" /\ task'[u].role = task[u].role
                  /\ task'[u].prev = task[u].prev
    BY <1>0, <1>6 DEF NotifyWaiters, Returned, Idle, TaskState
  <2>2. task[t].role # "limited"
    BY <1>6 DEF NotifyWaiters, CompletionInv
  <2>3. UNCHANGED <<lastDone, completed, now>>
    BY <1>6 DEF NotifyWaiters, ctxVars
  <2> QED
    BY <1>0, <1>00, <2>1, <2>2, <2>3 DEF CompletionInv, LimitedRetryAfterCompletion
<1>7. ASSUME NEW t \in Tasks, CheckCompletion(t) PROVE CompletionInv'
  <2>0. CtxOf[t] \in Contexts /\ task[t].prev \in Nat
    BY <1>0, RefreshAssumption DEF TaskState
  <2>1. \/ task'[t].pc = "register" /\ task'[t].role = task[t].role /\ task'[t].prev = task[t].prev
        \/ /\ task'[t].pc = "retry" /\ task'[t].role = task[t].role
           /\ task'[t].prev = task[t].prev /\ lastDone[CtxOf[t]] >= task[t].prev
    BY <1>0, <1>7 DEF CheckCompletion, Returned, Idle, Set, TaskState
  <2>2. \A u \in Tasks : u # t => task'[u] = task[u]
    BY <1>0, <1>7 DEF CheckCompletion, Set
  <2>3. UNCHANGED <<lastDone, completed, now>>
    BY <1>7 DEF CheckCompletion, ctxVars
  <2>4. task[t].role = "limited" /\ lastDone[CtxOf[t]] >= task[t].prev
          => \E s \in completed[CtxOf[t]] : s >= task[t].prev
    BY <1>00, <2>0 DEF CompletionInv
  <2> QED
    BY <1>0, <1>00, <2>1, <2>2, <2>3, <2>0, <2>4
       DEF CompletionInv, LimitedRetryAfterCompletion
<1>8. ASSUME NEW t \in Tasks, RegisterWaiter(t) PROVE CompletionInv'
  BY <1>0, <1>8, RefreshAssumption, <1>00
     DEF RegisterWaiter, Set, TaskState, CompletionInv, LimitedRetryAfterCompletion, ctxVars
<1>9. ASSUME NEW t \in Tasks, WaitTimesOut(t) PROVE CompletionInv'
  BY <1>0, <1>9, RefreshAssumption, <1>00
     DEF WaitTimesOut, Set, TaskState, CompletionInv, LimitedRetryAfterCompletion, ctxVars
<1>10. ASSUME NEW t \in Tasks, Recheck(t) PROVE CompletionInv'
  <2>0. CtxOf[t] \in Contexts /\ task[t].prev \in Nat
    BY <1>0, RefreshAssumption DEF TaskState
  <2>1. \/ task'[t].pc = "idle" /\ task'[t].role = "none"
        \/ /\ task'[t].pc = "retry" /\ task'[t].role = task[t].role
           /\ task'[t].prev = task[t].prev /\ lastDone[CtxOf[t]] >= task[t].prev
    BY <1>0, <1>10 DEF Recheck, Returned, Idle, Set, TaskState
  <2>2. \A u \in Tasks : u # t => task'[u] = task[u]
    BY <1>0, <1>10 DEF Recheck, Set
  <2>3. UNCHANGED <<lastDone, completed, now>>
    BY <1>10 DEF Recheck, ctxVars
  <2>4. task[t].role = "limited" /\ lastDone[CtxOf[t]] >= task[t].prev
          => \E s \in completed[CtxOf[t]] : s >= task[t].prev
    BY <1>00, <2>0 DEF CompletionInv
  <2> QED
    BY <1>0, <1>00, <2>1, <2>2, <2>3, <2>0, <2>4
       DEF CompletionInv, LimitedRetryAfterCompletion
<1>11. ASSUME NEW t \in Tasks, ScheduledTick(t) PROVE CompletionInv'
  BY <1>0, <1>11, RefreshAssumption, <1>00
     DEF ScheduledTick, Idle, Set, TaskState, CompletionInv, LimitedRetryAfterCompletion, ctxVars
<1>12. ASSUME NEW t \in Tasks, ProviderAnswers(t) PROVE CompletionInv'
  <2>1. /\ task'[t].pc = "response" /\ task'[t].role = task[t].role
        /\ task[t].pc = "fetch"
    <3>0. task[t] \in TaskState
      BY <1>0
    <3>1. \/ task'[t] = [task[t] EXCEPT !.pc = "response", !.body = idp.served[CtxOf[t]]]
          \/ task'[t] = [task[t] EXCEPT !.pc = "response", !.uri = idp.doc[CtxOf[t]]]
      BY <1>0, <1>12 DEF ProviderAnswers, Set
    <3> QED
      BY <3>0, <3>1, <1>12 DEF ProviderAnswers, TaskState
  <2>2. \A u \in Tasks : u # t => task'[u] = task[u]
    BY <1>0, <1>12 DEF ProviderAnswers, Set
  <2>3. UNCHANGED <<lastDone, completed, now>>
    BY <1>12 DEF ProviderAnswers, ctxVars
  <2> QED
    BY <1>0, <1>00, <2>1, <2>2, <2>3 DEF CompletionInv, LimitedRetryAfterCompletion
<1>13. ASSUME NEW t \in Tasks, FetchFails(t) PROVE CompletionInv'
  BY <1>0, <1>13, RefreshAssumption, <1>00
     DEF FetchFails, AfterRefresh, Idle, Set, TaskState, CompletionInv, LimitedRetryAfterCompletion, ctxVars
<1>14. ASSUME NEW t \in Tasks, CheckDisjoint(t) PROVE CompletionInv'
  BY <1>0, <1>14, RefreshAssumption, <1>00
     DEF CheckDisjoint, AfterRefresh, Idle, Set, TaskState, CompletionInv, LimitedRetryAfterCompletion, ctxVars
<1>15. ASSUME NEW t \in Tasks, StoreJwks(t) PROVE CompletionInv'
  BY <1>0, <1>15, RefreshAssumption, <1>00
     DEF StoreJwks, AfterRefresh, Idle, Set, TaskState, CompletionInv, LimitedRetryAfterCompletion, ctxVars
<1>16. ASSUME NEW t \in Tasks, StoreDiscovery(t) PROVE CompletionInv'
  BY <1>0, <1>16, RefreshAssumption, <1>00
     DEF StoreDiscovery, Idle, Set, TaskState, CompletionInv, LimitedRetryAfterCompletion, ctxVars
<1>17. ASSUME NEW t \in Tasks, ClientDisconnects(t) PROVE CompletionInv'
  BY <1>0, <1>17, RefreshAssumption, <1>00
     DEF ClientDisconnects, Idle, Set, TaskState, CompletionInv, LimitedRetryAfterCompletion, ctxVars
<1>18. ASSUME NEW c \in Contexts, ProviderChanges(c) PROVE CompletionInv'
  BY <1>18 DEF ProviderChanges, CompletionInv, LimitedRetryAfterCompletion, ctxVars
<1>19. CASE ClockTicks
  BY <1>0, <1>19, RefreshAssumption, <1>00
     DEF ClockTicks, CompletionInv, LimitedRetryAfterCompletion, ctxVars
<1>20. CASE UNCHANGED vars
  BY <1>20 DEF vars, CompletionInv, LimitedRetryAfterCompletion, ctxVars
<1> QED
  BY <1>1, <1>2, <1>3, <1>4, <1>5, <1>6, <1>7, <1>8, <1>9,
     <1>10, <1>11, <1>12, <1>13, <1>14, <1>15, <1>16, <1>17, <1>18, <1>19, <1>20
     DEF Next, OnDemandStep, RefreshStep

(* Whoever the rate limit turned away and is told to retry has seen a      *)
(* refresh complete that began at or after the claim it read               *)
(* (wait_for_completion's check and re-check).                             *)
THEOREM LimitedRetryIsReal == Spec => []LimitedRetryAfterCompletion
<1>1. Init => CompletionInv
  BY RefreshAssumption DEF Init, Idle, CompletionInv, LimitedRetryAfterCompletion, Tasks
<1>2. CompletionInv => LimitedRetryAfterCompletion
  BY DEF CompletionInv
<1> QED
  BY <1>1, <1>2, TypeInit, TypeNext, CompletionNext, PTL DEF Spec

-----------------------------------------------------------------------------
(* Disjoint key sets.                                                      *)

LEMMA InstallNext == TypeOK /\ InstallInv /\ [Next]_vars => InstallInv'
<1> SUFFICES ASSUME TypeOK, InstallInv, [Next]_vars PROVE InstallInv'
  OBVIOUS
<1>0. task \in [Tasks -> TaskState] /\ now \in Nat
  BY DEF TypeOK
<1>1. ASSUME NEW t \in Tasks, NEW k \in Keys, StartRequest(t, k) PROVE InstallInv'
  BY <1>0, <1>1, RefreshAssumption
     DEF StartRequest, Set, Idle, TaskState, InstallInv, KeysDisjoint, ctxVars
<1>2. ASSUME NEW t \in Tasks, Retry(t) PROVE InstallInv'
  BY <1>0, <1>2, RefreshAssumption
     DEF Retry, Idle, Set, TaskState, InstallInv, KeysDisjoint, ctxVars
<1>3. ASSUME NEW t \in Tasks, LoadSlot(t) PROVE InstallInv'
  BY <1>0, <1>3, RefreshAssumption
     DEF LoadSlot, Set, TaskState, InstallInv, KeysDisjoint, ctxVars
<1>4. ASSUME NEW t \in Tasks, Claim(t) PROVE InstallInv'
  <2>1. \A u \in Tasks : task'[u].pc = "store"
          => task[u].pc = "store" /\ task'[u].body = task[u].body
    BY <1>0, <1>4 DEF Claim, Set, TaskState
  <2>2. UNCHANGED <<jwks, raced>>
    BY <1>4 DEF Claim, ctxVars
  <2> QED
    BY <2>1, <2>2 DEF InstallInv, KeysDisjoint
<1>5. ASSUME NEW t \in Tasks, RecordCompletion(t) PROVE InstallInv'
  BY <1>0, <1>5, RefreshAssumption
     DEF RecordCompletion, Goto, Set, TaskState, InstallInv, KeysDisjoint, ctxVars
<1>6. ASSUME NEW t \in Tasks, NotifyWaiters(t) PROVE InstallInv'
  <2>1. \A u \in Tasks : task'[u].pc = "store"
          => task[u].pc = "store" /\ task'[u].body = task[u].body
    BY <1>0, <1>6 DEF NotifyWaiters, Returned, Idle, TaskState
  <2>2. UNCHANGED <<jwks, raced>>
    BY <1>6 DEF NotifyWaiters, ctxVars
  <2> QED
    BY <2>1, <2>2 DEF InstallInv, KeysDisjoint
<1>7. ASSUME NEW t \in Tasks, CheckCompletion(t) PROVE InstallInv'
  BY <1>0, <1>7, RefreshAssumption
     DEF CheckCompletion, Returned, Idle, Set, TaskState, InstallInv, KeysDisjoint, ctxVars
<1>8. ASSUME NEW t \in Tasks, RegisterWaiter(t) PROVE InstallInv'
  BY <1>0, <1>8, RefreshAssumption
     DEF RegisterWaiter, Set, TaskState, InstallInv, KeysDisjoint, ctxVars
<1>9. ASSUME NEW t \in Tasks, WaitTimesOut(t) PROVE InstallInv'
  BY <1>0, <1>9, RefreshAssumption
     DEF WaitTimesOut, Set, TaskState, InstallInv, KeysDisjoint, ctxVars
<1>10. ASSUME NEW t \in Tasks, Recheck(t) PROVE InstallInv'
  BY <1>0, <1>10, RefreshAssumption
     DEF Recheck, Returned, Idle, Set, TaskState, InstallInv, KeysDisjoint, ctxVars
<1>11. ASSUME NEW t \in Tasks, ScheduledTick(t) PROVE InstallInv'
  BY <1>0, <1>11, RefreshAssumption
     DEF ScheduledTick, Idle, Set, TaskState, InstallInv, KeysDisjoint, ctxVars
<1>12. ASSUME NEW t \in Tasks, ProviderAnswers(t) PROVE InstallInv'
  <2>1. \A u \in Tasks : task'[u].pc = "store"
          => task[u].pc = "store" /\ task'[u].body = task[u].body
    BY <1>0, <1>12 DEF ProviderAnswers, Set, TaskState
  <2>2. UNCHANGED <<jwks, raced>>
    BY <1>12 DEF ProviderAnswers, ctxVars
  <2> QED
    BY <2>1, <2>2 DEF InstallInv, KeysDisjoint
<1>13. ASSUME NEW t \in Tasks, FetchFails(t) PROVE InstallInv'
  BY <1>0, <1>13, RefreshAssumption
     DEF FetchFails, AfterRefresh, Idle, Set, TaskState, InstallInv, KeysDisjoint, ctxVars
<1>14. ASSUME NEW t \in Tasks, CheckDisjoint(t) PROVE InstallInv'
  <2>0. jwks' = jwks /\ CtxOf \in [Tasks -> Contexts]
    BY <1>14, RefreshAssumption DEF CheckDisjoint, ctxVars
  <2>1. \A u \in Tasks : u # t => task'[u] = task[u]
    BY <1>0, <1>14 DEF CheckDisjoint, Set
  <2>2. CASE Disjoint(OtherKeys(CtxOf[t]), task[t].body)
    <3>1. task'[t].body = task[t].body
      BY <1>0, <1>14, <2>2 DEF CheckDisjoint, Set, TaskState
    <3>2. \A d \in Contexts : d # CtxOf[t] => Disjoint(jwks[d], task[t].body)
      BY <2>2 DEF OtherKeys, Disjoint
    <3>3. \/ raced'
          \/ /\ ~raced
             /\ \A u \in Tasks : task[u].pc = "store" => CtxOf[u] = CtxOf[t]
      BY <1>14, <2>2, Zenon DEF CheckDisjoint
    <3> QED
      BY <2>0, <2>1, <3>1, <3>2, <3>3 DEF InstallInv, KeysDisjoint
  <2>3. CASE ~Disjoint(OtherKeys(CtxOf[t]), task[t].body)
    <3>1. task'[t].pc # "store"
      BY <1>0, <1>14, <2>3 DEF CheckDisjoint, Set, AfterRefresh, Idle, TaskState
    <3>2. raced' = raced
      BY <1>14, <2>3 DEF CheckDisjoint, TypeOK
    <3> QED
      BY <2>0, <2>1, <3>1, <3>2 DEF InstallInv, KeysDisjoint
  <2> QED
    BY <2>2, <2>3
<1>15. ASSUME NEW t \in Tasks, StoreJwks(t) PROVE InstallInv'
  <2>0. /\ CtxOf \in [Tasks -> Contexts] /\ jwks \in [Contexts -> SUBSET Keys]
        /\ raced' = raced
    BY <1>15, RefreshAssumption DEF StoreJwks, TypeOK
  <2>1. /\ \A u \in Tasks : u # t => task'[u] = task[u]
        /\ task'[t].pc # "store"
    BY <1>0, <1>15 DEF StoreJwks, Set, AfterRefresh, Idle, TaskState
  <2>2. jwks' = [jwks EXCEPT ![CtxOf[t]] = task[t].body] /\ task[t].pc = "store"
    BY <1>15 DEF StoreJwks
  <2>3. CASE raced
    BY <2>0, <2>3 DEF InstallInv
  <2>4. CASE ~raced
    <3>1. \A d \in Contexts : d # CtxOf[t] => Disjoint(jwks[d], task[t].body)
      BY <2>2, <2>4 DEF InstallInv
    <3>2. \A c, d \in Contexts : c # d => Disjoint(jwks'[c], jwks'[d])
      BY <2>0, <2>2, <2>4, <3>1 DEF InstallInv, KeysDisjoint, Disjoint
    <3>3. ASSUME NEW u \in Tasks, task'[u].pc = "store"
          PROVE  /\ \A d \in Contexts : d # CtxOf[u] => Disjoint(jwks'[d], task'[u].body)
                 /\ \A v \in Tasks : task'[v].pc = "store" => CtxOf[v] = CtxOf[u]
      <4>1. u # t /\ task[u].pc = "store" /\ task'[u] = task[u] /\ CtxOf[u] = CtxOf[t]
        BY <2>1, <2>2, <2>4, <3>3 DEF InstallInv
      <4>2. \A d \in Contexts : d # CtxOf[u] => jwks'[d] = jwks[d]
        BY <2>0, <2>2, <4>1
      <4> QED
        BY <2>1, <2>4, <4>1, <4>2 DEF InstallInv
    <3> QED
      BY <3>2, <3>3 DEF InstallInv, KeysDisjoint
  <2> QED
    BY <2>3, <2>4
<1>16. ASSUME NEW t \in Tasks, StoreDiscovery(t) PROVE InstallInv'
  BY <1>0, <1>16, RefreshAssumption
     DEF StoreDiscovery, Idle, Set, TaskState, InstallInv, KeysDisjoint, ctxVars
<1>17. ASSUME NEW t \in Tasks, ClientDisconnects(t) PROVE InstallInv'
  BY <1>0, <1>17, RefreshAssumption
     DEF ClientDisconnects, Idle, Set, TaskState, InstallInv, KeysDisjoint, ctxVars
<1>18. ASSUME NEW c \in Contexts, ProviderChanges(c) PROVE InstallInv'
  BY <1>18 DEF ProviderChanges, InstallInv, KeysDisjoint, ctxVars
<1>19. CASE ClockTicks
  BY <1>0, <1>19, RefreshAssumption DEF ClockTicks, InstallInv, KeysDisjoint, ctxVars
<1>20. CASE UNCHANGED vars
  BY <1>20 DEF vars, InstallInv, KeysDisjoint, ctxVars
<1> QED
  BY <1>1, <1>2, <1>3, <1>4, <1>5, <1>6, <1>7, <1>8, <1>9,
     <1>10, <1>11, <1>12, <1>13, <1>14, <1>15, <1>16, <1>17, <1>18, <1>19, <1>20
     DEF Next, OnDemandStep, RefreshStep

(* No key is trusted by both contexts unless two installs overlapped in    *)
(* time (install_refreshed_jwks's check and store).                        *)
THEOREM KeySetsStayDisjoint == Spec => []DisjointUnlessRaced
<1>1. Init => InstallInv
  BY DEF Init, Idle, InstallInv, KeysDisjoint, Disjoint
<1>2. InstallInv => DisjointUnlessRaced
  BY DEF InstallInv, DisjointUnlessRaced
<1> QED
  BY <1>1, <1>2, TypeInit, TypeNext, InstallNext, PTL DEF Spec

-----------------------------------------------------------------------------
(* Refreshes in flight.                                                    *)

Timed == {"slot", "claim"} \cup InFlight

(* A step after which the requests that move are outside the refresh.      *)
LEMMA QuietFlight ==
  ASSUME FlightInv, UNCHANGED <<now, lastClaim, lastDone>>,
         \A u \in Requests : task'[u] = task[u] \/ task'[u].pc \notin Timed
  PROVE  FlightInv'
<1>1. \A u \in Requests : Flight(task'[u], now', lastClaim'[CtxOf[u]], lastDone'[CtxOf[u]])
  BY DEF FlightInv, Flight, Timed, InFlight
<1>2. \A u \in Requests : task'[u].pc \in InFlight => task'[u] = task[u]
  BY DEF Timed
<1> QED
  BY <1>1, <1>2 DEF FlightInv

(* A step of one request within the refresh.                               *)
LEMMA FlyingStep ==
  ASSUME FlightInv, UNCHANGED <<now, lastClaim, lastDone>>, NEW t \in Tasks,
         \A u \in Tasks \ {t} : task'[u] = task[u],
         t \in Requests => Flight(task'[t], now, lastClaim[CtxOf[t]], lastDone[CtxOf[t]]),
         t \in Requests /\ task'[t].pc \in InFlight =>
            task[t].pc \in InFlight /\ task'[t].at = task[t].at
  PROVE  FlightInv'
<1>0. Requests \subseteq Tasks
  BY DEF Tasks
<1>1. \A u \in Requests : Flight(task'[u], now', lastClaim'[CtxOf[u]], lastDone'[CtxOf[u]])
  BY <1>0 DEF FlightInv
<1>2. \A u \in Requests : task'[u].pc \in InFlight =>
                             task[u].pc \in InFlight /\ task'[u].at = task[u].at
  BY <1>0
<1>3. \A c \in Contexts : lastDone'[c] <= lastClaim'[c] /\ lastClaim'[c] <= now'
  BY DEF FlightInv
<1> QED
  BY <1>1, <1>2, <1>3 DEF FlightInv

(* The claim: whoever wins the compare_exchange started an interval after  *)
(* the last claim, so an interval after every refresh that is in flight or *)
(* recorded.                                                               *)
LEMMA ClaimFlight ==
  ASSUME TypeOK, ClaimInv, FlightInv, NEW t \in Tasks, Claim(t)
  PROVE  FlightInv'
<1> DEFINE c == CtxOf[t]
           w == [task[t] EXCEPT !.pc = "fetch", !.role = "winner",
                                !.uri = discovery[c], !.since = now]
           l == [task[t] EXCEPT !.pc = "check", !.role = "lost"]
<1>0. /\ task \in [Tasks -> TaskState] /\ now \in Nat /\ c \in Contexts
      /\ lastClaim \in [Contexts -> Nat] /\ lastDone \in [Contexts -> Nat]
      /\ Requests \subseteq Tasks /\ task[t] \in TaskState
      /\ task[t].at \in Nat /\ task[t].prev \in Nat
      /\ Interval \in Nat /\ FetchTimeout \in Nat /\ Stall \in Nat
  BY RefreshAssumption DEF TypeOK, TaskState, Tasks
<1>1. t \in Requests
  BY DEF TypeOK, Home, Claim, Tasks
<1>2. \A u \in Tasks \ {t} : task'[u] = task[u]
  BY <1>0 DEF Claim, Set
<1>3. CASE lastClaim[c] # task[t].prev
  <2>1. task'[t] = l /\ UNCHANGED <<now, lastClaim, lastDone>>
    BY <1>0, <1>3 DEF Claim, Set
  <2>2. l.pc = "check"
    BY <1>0 DEF TaskState
  <2>3. \A u \in Requests : task'[u] = task[u] \/ task'[u].pc \notin Timed
    BY <1>0, <1>2, <2>1, <2>2 DEF Timed, InFlight
  <2> QED
    BY <2>1, <2>3, QuietFlight
<1>4. CASE lastClaim[c] = task[t].prev
  <2>1. /\ task'[t] = w /\ UNCHANGED <<now, lastDone>>
        /\ lastClaim' = [lastClaim EXCEPT ![c] = task[t].at]
    BY <1>0, <1>4 DEF Claim, Set
  <2>2. w.pc = "fetch" /\ w.role = "winner" /\ w.since = now /\ w.at = task[t].at
    BY <1>0 DEF TaskState
  <2>3. task[t].at >= lastClaim[c] + Interval
    BY <1>4 DEF ClaimInv, Claim
  <2>4. task[t].at <= now /\ now <= task[t].at + Stall
    BY <1>1 DEF FlightInv, Flight, Claim
  <2>5. ASSUME NEW u \in Requests, CtxOf[u] = c, task[u].pc \in InFlight
        PROVE  task[u].at \in Nat /\ task[u].at + Interval <= task[t].at
    <3>1. task[u].at \in Nat
      BY <1>0 DEF TaskState
    <3>2. Flight(task[u], now, lastClaim[c], lastDone[c])
      BY <2>5 DEF FlightInv
    <3>3. task[u].at <= lastClaim[c]
      BY <2>5, <3>2 DEF Flight
    <3> QED
      BY <1>0, <2>3, <3>1, <3>3
  <2>d. lastDone[c] + Interval <= task[t].at
    BY <1>0, <2>3 DEF FlightInv
  <2>6. Flight(w, now, task[t].at, lastDone[c])
    BY <1>0, <2>2, <2>4, <2>d DEF Flight, InFlight
  <2>7. ASSUME NEW u \in Requests
        PROVE  Flight(task'[u], now', lastClaim'[CtxOf[u]], lastDone'[CtxOf[u]])
    <3>1. CASE u = t
      BY <1>0, <2>1, <2>6, <3>1
    <3>2. CASE u # t /\ CtxOf[u] # c
      <4>1. CtxOf[u] \in Contexts
        BY <1>0, RefreshAssumption
      <4> QED
        BY <1>0, <1>2, <2>1, <3>2, <4>1 DEF FlightInv
    <3>3. CASE u # t /\ CtxOf[u] = c
      <4>1. task'[u] = task[u] /\ lastClaim'[c] = task[t].at
        BY <1>0, <1>2, <2>1, <3>3
      <4>2. task[u].pc \in InFlight => task[u].at <= task[t].at
        BY <1>0, <2>5, <3>3
      <4> QED
        BY <2>1, <3>3, <4>1, <4>2 DEF FlightInv, Flight
    <3> QED
      BY <3>1, <3>2, <3>3
  <2>8. \A d \in Contexts : lastDone'[d] <= lastClaim'[d] /\ lastClaim'[d] <= now'
    BY <1>0, <2>1, <2>3, <2>4 DEF FlightInv
  <2>9. ASSUME NEW u \in Requests, NEW v \in Requests, task'[u].pc \in InFlight,
               task'[v].pc \in InFlight, CtxOf[u] = CtxOf[v], u # v
        PROVE  \/ task'[u].at + Interval <= task'[v].at
               \/ task'[v].at + Interval <= task'[u].at
    <3>1. CASE u = t
      BY <1>0, <1>2, <2>1, <2>2, <2>5, <2>9, <3>1
    <3>2. CASE v = t
      BY <1>0, <1>2, <2>1, <2>2, <2>5, <2>9, <3>2
    <3>3. CASE u # t /\ v # t
      BY <1>0, <1>2, <2>9, <3>3 DEF FlightInv
    <3> QED
      BY <3>1, <3>2, <3>3
  <2> QED
    BY <2>7, <2>8, <2>9 DEF FlightInv
<1> QED
  BY <1>3, <1>4

(* The fetch and the installation.                                         *)
LEMMA RefreshFlight ==
  ASSUME TypeOK, FlightInv, NEW t \in Tasks,
         ProviderAnswers(t) \/ FetchFails(t) \/ CheckDisjoint(t) \/ StoreJwks(t)
  PROVE  FlightInv'
<1> DEFINE q == task[t]
           n == task'[t]
<1>0. /\ task \in [Tasks -> TaskState] /\ now \in Nat
      /\ q \in TaskState /\ q.at \in Nat /\ q.since \in Nat
      /\ FetchTimeout \in Nat /\ Stall \in Nat
  BY RefreshAssumption DEF TypeOK, TaskState
<1>1. /\ \A u \in Tasks \ {t} : task'[u] = task[u]
      /\ UNCHANGED <<now, lastClaim, lastDone>>
  BY <1>0 DEF ProviderAnswers, FetchFails, CheckDisjoint, StoreJwks, Set, ctxVars
<1>2. t \in Requests => Flight(q, now, lastClaim[CtxOf[t]], lastDone[CtxOf[t]])
  BY DEF FlightInv
<1>3. CASE ProviderAnswers(t)
  <2>1. \/ n = [q EXCEPT !.pc = "response", !.body = idp.served[CtxOf[t]]]
        \/ n = [q EXCEPT !.pc = "response", !.uri = idp.doc[CtxOf[t]]]
    BY <1>0, <1>3 DEF ProviderAnswers, Set
  <2>2. /\ n.pc = "response" /\ n.role = q.role /\ n.at = q.at /\ n.since = q.since
        /\ q.pc = "fetch"
    BY <1>0, <1>3, <2>1 DEF TaskState, ProviderAnswers
  <2> QED
    BY <1>0, <1>1, <1>2, <2>2, FlyingStep DEF Flight, InFlight
<1>4. ASSUME t \in Requests, NEW ok \in BOOLEAN, n = AfterRefresh(t, ok), q.pc \in InFlight
      PROVE  FlightInv'
  <2>1. /\ n.pc = "record" /\ n.role = q.role /\ n.at = q.at
        /\ n.since = IF q.pc = "store" THEN q.since ELSE now
    <3> DEFINE e == [q EXCEPT !.pc = "record", !.installed = ok, !.uri = NoUri, !.body = {},
                              !.since = IF q.pc = "store" THEN @ ELSE now]
    <3>1. n = e
      BY <1>4 DEF AfterRefresh
    <3>2. e.pc = "record" /\ e.role = q.role /\ e.at = q.at
          /\ e.since = IF q.pc = "store" THEN q.since ELSE now
      BY <1>0 DEF TaskState
    <3> QED
      BY <3>1, <3>2
  <2>2. q.pc # "record" => Flight(n, now, lastClaim[CtxOf[t]], lastDone[CtxOf[t]])
    BY <1>0, <1>2, <1>4, <2>1 DEF Flight, InFlight
  <2>3. q.pc # "record"
    BY DEF ProviderAnswers, FetchFails, CheckDisjoint, StoreJwks
  <2> QED
    BY <1>1, <1>4, <2>1, <2>2, <2>3, FlyingStep
<1>5. CASE FetchFails(t)
  <2>1. n = AfterRefresh(t, FALSE) /\ q.pc \in InFlight
    BY <1>0, <1>5 DEF FetchFails, Set, InFlight
  <2> QED
    BY <1>1, <1>4, <2>1, FlyingStep
<1>6. CASE CheckDisjoint(t)
  <2>1. /\ n = [q EXCEPT !.pc = "store", !.since = now] \/ n = AfterRefresh(t, FALSE)
        /\ q.pc = "response"
    BY <1>0, <1>6 DEF CheckDisjoint, Set
  <2>2. CASE n = AfterRefresh(t, FALSE)
    BY <1>1, <1>4, <2>1, <2>2, FlyingStep DEF InFlight
  <2>3. CASE n = [q EXCEPT !.pc = "store", !.since = now]
    <3>1. n.pc = "store" /\ n.since = now /\ n.at = q.at /\ n.role = q.role
      BY <1>0, <2>3 DEF TaskState
    <3> QED
      BY <1>0, <1>1, <1>2, <2>1, <3>1, FlyingStep DEF Flight, InFlight
  <2> QED
    BY <2>1, <2>2, <2>3
<1>7. CASE StoreJwks(t)
  <2>1. n = AfterRefresh(t, TRUE) /\ q.pc \in InFlight
    BY <1>0, <1>7 DEF StoreJwks, Set, InFlight
  <2> QED
    BY <1>1, <1>4, <2>1, FlyingStep
<1> QED
  BY <1>3, <1>5, <1>6, <1>7

LEMMA ClockFlight ==
  ASSUME TypeOK, FlightInv, ClockTicks PROVE FlightInv'
<1>0. /\ task \in [Tasks -> TaskState] /\ now \in Nat /\ Requests \subseteq Tasks
      /\ FetchTimeout \in Nat /\ Stall \in Nat
      /\ UNCHANGED <<task, lastClaim, lastDone>> /\ now' = now + 1
  BY RefreshAssumption DEF TypeOK, ClockTicks, ctxVars, Tasks
<1>1. ASSUME NEW u \in Requests PROVE Flight(task[u], now + 1, lastClaim[CtxOf[u]], lastDone[CtxOf[u]])
  <2>1. task[u].since \in Nat /\ task[u].at \in Nat
    BY <1>0 DEF TaskState
  <2>2. task[u].pc # "idle" => now < task[u].since + Patience(u)
    BY <1>0 DEF ClockTicks
  <2>3. /\ task[u].pc \in {"fetch", "response"} => Patience(u) = FetchTimeout + Stall
        /\ task[u].pc \in {"slot", "claim", "store", "record"} => Patience(u) = Stall
    BY DEF Patience
  <2>4. Flight(task[u], now, lastClaim[CtxOf[u]], lastDone[CtxOf[u]])
    BY DEF FlightInv
  <2> QED
    BY <1>0, <2>1, <2>2, <2>3, <2>4 DEF Flight
<1>2. \A c \in Contexts : lastClaim[c] <= now + 1
  BY <1>0 DEF FlightInv, TypeOK
<1> QED
  BY <1>0, <1>1, <1>2 DEF FlightInv

LEMMA FlightNext ==
  ASSUME TypeOK, ClaimInv, FlightInv, [Next]_vars PROVE FlightInv'
<1>0. /\ task \in [Tasks -> TaskState] /\ now \in Nat /\ Requests \subseteq Tasks
      /\ lastClaim \in [Contexts -> Nat] /\ lastDone \in [Contexts -> Nat]
      /\ FetchTimeout \in Nat /\ Stall \in Nat
  BY RefreshAssumption DEF TypeOK, Tasks
<1>q. ASSUME NEW t \in Tasks, \A u \in Tasks \ {t} : task'[u] = task[u],
             UNCHANGED <<now, lastClaim, lastDone>>, t \in Requests => task'[t].pc \notin Timed
      PROVE  FlightInv'
  BY <1>0, <1>q, QuietFlight
<1>1. ASSUME NEW t \in Tasks, NEW k \in Keys, StartRequest(t, k) PROVE FlightInv'
  <2> DEFINE s == [Idle("none") EXCEPT !.pc = "slot", !.key = k, !.at = now, !.since = now]
  <2>1. /\ task'[t] = Idle("Ok") \/ task'[t] = s
        /\ \A u \in Tasks \ {t} : task'[u] = task[u]
        /\ UNCHANGED <<now, lastClaim, lastDone>>
    BY <1>0, <1>1 DEF StartRequest, Set, ctxVars
  <2>2. Idle("Ok").pc = "idle" /\ s.pc = "slot" /\ s.at = now /\ s.since = now
    BY DEF Idle
  <2> HIDE DEF s
  <2>3. CASE task'[t] = s
    BY <1>0, <2>1, <2>2, <2>3, FlyingStep DEF Flight, InFlight
  <2> QED
    BY <1>q, <2>1, <2>2, <2>3 DEF Timed, InFlight
<1>2. ASSUME NEW t \in Tasks, LoadSlot(t) PROVE FlightInv'
  <2> DEFINE p == lastClaim[CtxOf[t]]
             a == [task[t] EXCEPT !.prev = p, !.pc = "check", !.role = "limited"]
             b == [task[t] EXCEPT !.prev = p, !.pc = "claim"]
  <2>1. /\ task'[t] = a \/ task'[t] = b
        /\ \A u \in Tasks \ {t} : task'[u] = task[u]
        /\ UNCHANGED <<now, lastClaim, lastDone>> /\ task[t].pc = "slot"
    BY <1>0, <1>2 DEF LoadSlot, Set, ctxVars
  <2>2. /\ a.pc = "check"
        /\ b.pc = "claim" /\ b.at = task[t].at /\ b.since = task[t].since
    BY <1>0 DEF TaskState
  <2> HIDE DEF a, b
  <2>3. CASE task'[t] = b
    BY <2>1, <2>2, <2>3, FlyingStep DEF Flight, InFlight, FlightInv
  <2> QED
    BY <1>q, <2>1, <2>2, <2>3 DEF Timed, InFlight
<1>3. ASSUME NEW t \in Tasks, Retry(t) \/ CheckCompletion(t) \/ RegisterWaiter(t)
                 \/ WaitTimesOut(t) \/ Recheck(t) \/ ScheduledTick(t) \/ StoreDiscovery(t)
                 \/ ClientDisconnects(t)
      PROVE  FlightInv'
  <2>1. /\ \A u \in Tasks \ {t} : task'[u] = task[u]
        /\ UNCHANGED <<now, lastClaim, lastDone>>
    BY <1>0, <1>3 DEF Retry, CheckCompletion, RegisterWaiter, WaitTimesOut, Recheck,
       ScheduledTick, StoreDiscovery, ClientDisconnects, Set, ctxVars
  <2>2. \A v : Idle(v).pc = "idle"
    BY DEF Idle
  <2>3. [task[t] EXCEPT !.pc = "retry", !.since = now].pc = "retry"
        /\ [task[t] EXCEPT !.pc = "wait", !.since = now].pc = "wait"
        /\ [task[t] EXCEPT !.pc = "recheck", !.since = now].pc = "recheck"
        /\ [task[t] EXCEPT !.pc = "register"].pc = "register"
    BY <1>0 DEF TaskState
  <2>4. t \in Requests => task'[t].pc \in {"idle", "retry", "wait", "recheck", "register"}
    <3> SUFFICES ASSUME t \in Requests
                 PROVE  task'[t].pc \in {"idle", "retry", "wait", "recheck", "register"}
      OBVIOUS
    <3>1. CASE Retry(t)
      BY <1>0, <2>2, <3>1 DEF Retry, Set
    <3>2. CASE CheckCompletion(t)
      BY <1>0, <2>2, <2>3, <3>2 DEF CheckCompletion, Returned, Set
    <3>3. CASE RegisterWaiter(t)
      BY <1>0, <2>3, <3>3 DEF RegisterWaiter, Set
    <3>4. CASE WaitTimesOut(t)
      BY <1>0, <2>3, <3>4 DEF WaitTimesOut, Set
    <3>5. CASE Recheck(t)
      BY <1>0, <2>2, <2>3, <3>5 DEF Recheck, Returned, Set
    <3>6. CASE StoreDiscovery(t) \/ ClientDisconnects(t)
      BY <1>0, <2>2, <3>6 DEF StoreDiscovery, ClientDisconnects, Set
    <3>7. ~ScheduledTick(t)
      BY RefreshAssumption DEF ScheduledTick
    <3> QED
      BY <1>3, <3>1, <3>2, <3>3, <3>4, <3>5, <3>6, <3>7
  <2> QED
    BY <1>q, <2>1, <2>4 DEF Timed, InFlight
<1>4. ASSUME NEW t \in Tasks, RecordCompletion(t) PROVE FlightInv'
  <2>1. /\ \A u \in Tasks \ {t} : task'[u] = task[u]
        /\ task'[t] = [task[t] EXCEPT !.pc = "notify"] /\ task[t].pc = "record"
        /\ UNCHANGED <<now, lastClaim>>
        /\ lastDone' = [lastDone EXCEPT ![CtxOf[t]] = task[t].at]
    BY <1>0, <1>4 DEF RecordCompletion, Goto, Set
  <2>2. task'[t].pc = "notify"
    BY <1>0, <2>1 DEF TaskState
  <2>3. t \in Requests /\ task[t].at \in Nat
    BY <1>0, <2>1 DEF TypeOK, Home, Tasks, TaskState
  <2> DEFINE c == CtxOf[t]
  <2>4. task[t].at <= lastClaim[c] /\ c \in Contexts /\ task[t].pc \in InFlight
    BY <2>1, <2>3, <1>0, RefreshAssumption DEF FlightInv, Flight, InFlight
  <2>5. \A d \in Contexts : lastDone'[d] <= lastClaim'[d] /\ lastClaim'[d] <= now'
    BY <1>0, <2>1, <2>3, <2>4 DEF FlightInv
  <2>6. ASSUME NEW u \in Requests
        PROVE  Flight(task'[u], now', lastClaim'[CtxOf[u]], lastDone'[CtxOf[u]])
    <3>1. CASE u = t
      BY <1>0, <2>1, <2>2, <3>1 DEF Flight, InFlight
    <3>2. CASE u # t /\ CtxOf[u] # c
      <4>1. CtxOf[u] \in Contexts
        BY <1>0, RefreshAssumption
      <4> QED
        BY <1>0, <2>1, <3>2, <4>1 DEF FlightInv
    <3>3. CASE u # t /\ CtxOf[u] = c
      <4>1. task'[u] = task[u] /\ lastDone'[c] = task[t].at
        BY <1>0, <2>1, <2>4, <3>3
      <4>2. task[u].pc \in InFlight => \/ task[u].at + Interval <= task[t].at
                                        \/ task[t].at + Interval <= task[u].at
        BY <2>3, <2>4, <3>3 DEF FlightInv
      <4> QED
        BY <2>1, <3>3, <4>1, <4>2 DEF FlightInv, Flight
    <3> QED
      BY <3>1, <3>2, <3>3
  <2>7. \A u \in Requests : task'[u].pc \in InFlight => task'[u] = task[u]
    BY <1>0, <2>1, <2>2 DEF InFlight
  <2> QED
    BY <2>5, <2>6, <2>7 DEF FlightInv
<1>5. ASSUME NEW t \in Tasks, NotifyWaiters(t) PROVE FlightInv'
  <2>1. ASSUME NEW u \in Tasks
        PROVE  task'[u] = task[u] \/ task'[u].pc \in {"idle", "retry", "recheck"}
    BY <1>0, <1>5 DEF NotifyWaiters, Returned, Idle, TaskState
  <2>2. \A u \in Requests : task'[u] = task[u] \/ task'[u].pc \notin Timed
    BY <1>0, <2>1 DEF Timed, InFlight
  <2> QED
    BY <1>5, <2>2, QuietFlight DEF NotifyWaiters, ctxVars
<1>6. ASSUME NEW c \in Contexts, ProviderChanges(c) PROVE FlightInv'
  BY <1>6 DEF ProviderChanges, FlightInv, ctxVars
<1>7. CASE UNCHANGED vars
  BY <1>7 DEF vars, FlightInv
<1> QED
  BY <1>1, <1>2, <1>3, <1>4, <1>5, <1>6, <1>7, ClaimFlight, RefreshFlight, ClockFlight
     DEF Next, OnDemandStep, RefreshStep

LEMMA FlightHolds == Spec => [](TypeOK /\ ClaimInv /\ FlightInv)
<1>1. Init => ClaimInv
  BY DEF Init, Idle, ClaimInv
<1>2. Init => FlightInv
  BY RefreshAssumption DEF Init, Idle, FlightInv, Flight, InFlight, Tasks
<1>3. TypeOK /\ ClaimInv /\ FlightInv /\ [Next]_vars => FlightInv'
  BY FlightNext
<1> QED
  BY <1>1, <1>2, <1>3, TypeInit, TypeNext, ClaimNext, PTL DEF Spec

(* Whatever the interval and the timeout, two on-demand refreshes of one   *)
(* context that are in flight together were claimed an interval apart, and *)
(* none is in flight for longer than the timeout of its fetch and the time *)
(* the code around it takes (on_demand_refresh).                           *)
THEOREM RefreshesFlyApart == Spec => []FlightsApart
<1>1. TypeOK /\ FlightInv => FlightsApart
  <2> SUFFICES ASSUME TypeOK, FlightInv, NEW c \in Contexts, NEW t \in Winners(c)
               PROVE  /\ now <= task[t].at + LongestFlight
                      /\ \A u \in Winners(c) \ {t} :
                            \/ task[t].at + Interval <= task[u].at
                            \/ task[u].at + Interval <= task[t].at
    BY DEF FlightsApart
  <2>1. t \in Requests /\ task[t].pc \in InFlight
    BY DEF Winners
  <2>2. /\ task[t].at \in Nat /\ task[t].since \in Nat /\ now \in Nat
        /\ FetchTimeout \in Nat /\ Stall \in Nat
    BY <2>1, RefreshAssumption DEF TypeOK, TaskState, Tasks
  <2>3. Flight(task[t], now, lastClaim[CtxOf[t]], lastDone[CtxOf[t]])
    BY <2>1 DEF FlightInv
  <2>4. now <= task[t].at + LongestFlight
    BY <2>1, <2>2, <2>3 DEF Flight, InFlight, LongestFlight
  <2> QED
    BY <2>1, <2>4 DEF FlightInv, Winners
<1> QED
  BY <1>1, FlightHolds, PTL

(* last_refresh_completed goes back only when a refresh is recorded that   *)
(* the next window has overtaken.                                          *)
THEOREM CompletionSetBackIsBounded == Spec => SetBackOnlyWhenOvertaken
<1>1. TypeOK /\ ClaimInv /\ FlightInv /\ [Next]_vars
        => [\A c \in Contexts : lastDone'[c] < lastDone[c] =>
              /\ lastDone'[c] + Interval <= lastDone[c]
              /\ lastDone[c] <= now
              /\ now <= lastDone'[c] + LongestFlight]_vars
  <2> SUFFICES ASSUME TypeOK, FlightInv, [Next]_vars, NEW c \in Contexts,
                      lastDone'[c] < lastDone[c]
               PROVE  /\ lastDone'[c] + Interval <= lastDone[c]
                      /\ lastDone[c] <= now
                      /\ now <= lastDone'[c] + LongestFlight
    OBVIOUS
  <2>0. /\ lastDone \in [Contexts -> Nat] /\ lastClaim \in [Contexts -> Nat] /\ now \in Nat
        /\ FetchTimeout \in Nat /\ Stall \in Nat /\ Interval \in Nat \ {0}
    BY RefreshAssumption DEF TypeOK
  <2>1. lastDone' = lastDone \/ \E t \in Tasks : RecordCompletion(t)
    BY DEF Next, OnDemandStep, RefreshStep, vars, ctxVars, StartRequest, Retry, LoadSlot,
           Claim, NotifyWaiters, CheckCompletion, RegisterWaiter, WaitTimesOut,
           Recheck, ScheduledTick, ProviderAnswers, FetchFails, CheckDisjoint, StoreJwks,
           StoreDiscovery, ClientDisconnects, ProviderChanges, ClockTicks
  <2>2. PICK t \in Tasks : RecordCompletion(t)
    BY <2>0, <2>1
  <2>3. t \in Requests /\ task[t].pc = "record"
    BY <2>2 DEF RecordCompletion, TypeOK, Home, Tasks
  <2>4. CtxOf[t] = c /\ lastDone'[c] = task[t].at
    BY <2>0, <2>2 DEF RecordCompletion
  <2>5. task[t].at \in Nat /\ task[t].since \in Nat
    BY DEF TypeOK, TaskState
  <2>6. Flight(task[t], now, lastClaim[c], lastDone[c])
    BY <2>3, <2>4 DEF FlightInv
  <2>7. now <= task[t].at + LongestFlight
    BY <2>0, <2>3, <2>5, <2>6 DEF Flight, InFlight, LongestFlight
  <2>8. task[t].at + Interval <= lastDone[c] \/ lastDone[c] + Interval <= task[t].at
    BY <2>3, <2>6 DEF Flight, InFlight
  <2>9. lastDone[c] <= now
    BY <2>0 DEF FlightInv
  <2> QED
    BY <2>0, <2>4, <2>5, <2>7, <2>8, <2>9
<1> QED
  BY <1>1, FlightHolds, PTL DEF Spec, SetBackOnlyWhenOvertaken

=============================================================================
