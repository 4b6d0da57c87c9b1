----------------------------- MODULE AtomicBlocks -----------------------------
(***************************************************************************)
(* What the StorageProvider trait promises its callers                     *)
(* (server/src/storage/provider.rs): every call takes effect at one        *)
(* instant between its start and its answer, or not at all; a get sees     *)
(* whole payloads only; a call answered with an error had no effect.  A    *)
(* block may fall back to an earlier whole value when power fails.         *)
(***************************************************************************)
EXTENDS Naturals

CONSTANTS Calls, Ids, Payloads, NoBlock

VARIABLES
    blocks,  \* the value of every block
    stable,  \* what a power failure would leave
    call     \* the calls in progress

vars == <<blocks, stable, call>>

Idle(answer) ==
    [pc |-> "idle", kind |-> "none", id |-> "none", val |-> NoBlock, answer |-> answer]

Init ==
    /\ blocks = [i \in Ids |-> NoBlock]
    /\ stable = blocks
    /\ call = [o \in Calls |-> Idle("none")]

Invoke(o, kind, i, v) ==
    /\ call[o].pc = "idle"
    /\ call' = [call EXCEPT ![o] = [pc |-> "pending", kind |-> kind, id |-> i,
                                    val |-> v, answer |-> "none"]]
    /\ UNCHANGED <<blocks, stable>>

TakeEffect(o) ==
    LET i == call[o].id
    IN  /\ call[o].pc = "pending"
        /\ \/ /\ call[o].kind = "put"
              /\ blocks' = [blocks EXCEPT ![i] = call[o].val]
              /\ call' = [call EXCEPT ![o].pc = "done"]
           \/ /\ call[o].kind = "delete"
              /\ blocks' = [blocks EXCEPT ![i] = NoBlock]
              /\ call' = [call EXCEPT ![o].pc = "done"]
           \/ /\ call[o].kind = "get"
              /\ call' = [call EXCEPT ![o] = [pc |-> "done", kind |-> "get", id |-> i,
                                              val |-> blocks[i], answer |-> "none"]]
              /\ UNCHANGED blocks
        /\ UNCHANGED stable

(* The answer to a call that took effect; nobody need be there to hear it. *)
(* Only a get, which changes nothing, may still fail after it looked.      *)
Success(o) ==
    IF call[o].kind = "get" THEN IF call[o].val = NoBlock THEN "404" ELSE "200" ELSE "204"

Return(o) ==
    /\ call[o].pc = "done"
    /\ \E a \in {Success(o), "none"} \cup (IF call[o].kind = "get" THEN {"503"} ELSE {}) :
          call' = [call EXCEPT ![o] = Idle(a)]
    /\ UNCHANGED <<blocks, stable>>

(* A call fails, or is dropped, before it took effect.                     *)
Abandon(o) ==
    /\ call[o].pc = "pending"
    /\ \E a \in {"503", "none"} : call' = [call EXCEPT ![o] = Idle(a)]
    /\ UNCHANGED <<blocks, stable>>

(* The caller has had its answer and turns to something else.              *)
Forget(o) ==
    /\ call[o].pc = "idle"
    /\ call' = [call EXCEPT ![o] = Idle("none")]
    /\ UNCHANGED <<blocks, stable>>

Settle(i) ==
    /\ stable' = [stable EXCEPT ![i] = blocks[i]]
    /\ UNCHANGED <<blocks, call>>

Crash ==
    /\ call' = [o \in Calls |-> Idle("none")]
    /\ UNCHANGED <<blocks, stable>>

PowerLoss ==
    /\ call' = [o \in Calls |-> Idle("none")]
    /\ blocks' = stable
    /\ UNCHANGED stable

Next ==
    \/ \E o \in Calls :
          \/ \E kind \in {"get", "put", "delete"}, i \in Ids, v \in Payloads \cup {NoBlock} :
                Invoke(o, kind, i, v)
          \/ TakeEffect(o)
          \/ Return(o)
          \/ Abandon(o)
          \/ Forget(o)
    \/ \E i \in Ids : Settle(i)
    \/ Crash
    \/ PowerLoss

Spec == Init /\ [][Next]_vars
=============================================================================
