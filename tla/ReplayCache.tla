----------------------------- MODULE ReplayCache -----------------------------
(***************************************************************************)
(* What the replay store promises (server/src/auth/replay.rs): one atomic  *)
(* bounded map from keys to deadlines.  A key is inserted only when it is  *)
(* absent and there is room, and it leaves only once its deadline has      *)
(* passed or when the process ends.  ReplayStore, with its two locks and   *)
(* its background task, is shown to implement this.                        *)
(***************************************************************************)
EXTENDS Naturals, FiniteSets

CONSTANTS Keys, Capacity

VARIABLES entries, now, boots

vars == <<entries, now, boots>>

Init ==
    /\ entries = [k \in {} |-> 0]
    /\ now = 0
    /\ boots = 0

(* A new key is stored, with some deadline.                                *)
Insert(k) ==
    /\ k \notin DOMAIN entries
    /\ Cardinality(DOMAIN entries) < Capacity
    /\ entries' \in [DOMAIN entries \cup {k} -> Nat]
    /\ \A j \in DOMAIN entries : entries'[j] = entries[j]
    /\ UNCHANGED <<now, boots>>

(* Some keys whose deadlines have passed are dropped.                      *)
Expire(K) ==
    /\ \A k \in K : entries[k] <= now
    /\ entries' = [k \in DOMAIN entries \ K |-> entries[k]]
    /\ UNCHANGED <<now, boots>>

(* The process is restarted; the store is not persisted.                   *)
Restart ==
    /\ boots' = boots + 1
    /\ entries' = [k \in {} |-> 0]
    /\ UNCHANGED now

Advance ==
    /\ now' = now + 1
    /\ UNCHANGED <<entries, boots>>

Next ==
    \/ \E k \in Keys : Insert(k)
    \/ \E K \in SUBSET DOMAIN entries : Expire(K)
    \/ Restart
    \/ Advance

Spec == Init /\ [][Next]_vars
=============================================================================
