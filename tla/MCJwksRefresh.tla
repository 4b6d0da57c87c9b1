---------------------------- MODULE MCJwksRefresh ----------------------------
(* Small instances of JwksRefresh: the two contexts, a few requests and    *)
(* background tasks, and providers that may publish overlapping key sets.  *)
EXTENDS JwksRefresh, TLC

CONSTANTS vault, admin, r1, r2, r3, jv, ja, dv, k1, k2, k3

(* Requests go to the vault; jv and ja refresh vault and admin keys.       *)
MCCtxOf == [t \in Tasks |-> IF t = ja THEN admin ELSE vault]

(* k2 may turn up in both providers' key sets.                             *)
MCKeyChoices == (vault :> {{k1}, {k2}}) @@ (admin :> {{k3}, {k2}})

(* Only the vault's provider rotates its key.                              *)
VaultRotates == (vault :> {{k1}, {k2}}) @@ (admin :> {{k3}})

(* The vault's provider may move its key set, the admin's does not.        *)
MCUris == (vault :> {"u1", "u2"}) @@ (admin :> {"u3"})
OneUri == (vault :> {"u1"}) @@ (admin :> {"u3"})
=============================================================================
