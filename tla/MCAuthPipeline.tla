---------------------------- MODULE MCAuthPipeline ----------------------------
EXTENDS AuthPipeline, TLC

CONSTANTS k1, k2, holder, thief, r1, r2

(* Tokens: good ones, one per audience, and vault tokens with one flaw     *)
(* each.  The one for the wrong audience comes from the right issuer.      *)
VaultToken ==
    [sub |-> "alice", alg |-> TRUE, key |-> k1, whole |-> TRUE, iss |-> "vault",
     aud |-> "vault", exp |-> 4, nbf |-> 2, jkt |-> holder]

AdminToken == [VaultToken EXCEPT !.key = k2, !.iss = "admin", !.aud = "admin"]

CrossToken == [AdminToken EXCEPT !.aud = "vault"]

(* A proof for a GET of the block route, minted at second 2.               *)
Proof(t) ==
    [alg |-> TRUE, sound |-> TRUE, htm |-> "GET", scheme |-> "https", htu |-> "block",
     iat |-> 2, key |-> holder, ath |-> t, jti |-> "j1"]

Get(t) ==
    [route |-> "block", method |-> "GET", host |-> TRUE, peer |-> "trusted",
     proto |-> "https", token |-> t, proof |-> Proof(t)]

Good == Get(VaultToken)

AdminGood ==
    [Get(AdminToken) EXCEPT !.route = "admin_whoami", !.proof.htu = "admin_whoami"]

(* Good requests, and requests with something wrong with them.             *)
AllArrivals ==
    {Good, AdminGood, [Good EXCEPT !.proof.jti = "j2"],
     [Good EXCEPT !.method = "PUT", !.proof.htm = "PUT", !.proof.jti = "j2"],
     \* another method, another route, no credentials
     [Good EXCEPT !.method = "PUT", !.token = Nothing],
     [Good EXCEPT !.method = "POST", !.token = Nothing],
     [Good EXCEPT !.method = "POST", !.proof = Nothing],
     [Good EXCEPT !.route = "health"], [Good EXCEPT !.proof = Nothing],
     [Good EXCEPT !.route = "unknown"], [Good EXCEPT !.host = FALSE],
     [Good EXCEPT !.route = "api_whoami"],
     \* flawed tokens
     [AdminGood EXCEPT !.token = CrossToken, !.proof.ath = CrossToken],
     [AdminGood EXCEPT !.token = VaultToken, !.proof.ath = VaultToken],
     Get([VaultToken EXCEPT !.alg = FALSE]), Get([VaultToken EXCEPT !.whole = FALSE]),
     \* flawed proofs
     [Good EXCEPT !.method = "DELETE"], [Good EXCEPT !.proof.sound = FALSE],
     [Good EXCEPT !.proof.alg = FALSE], [Good EXCEPT !.proof.ath = AdminToken],
     [Good EXCEPT !.proof.key = thief], [Good EXCEPT !.proof.jti = Nothing],
     [Good EXCEPT !.peer = "direct"], [Good EXCEPT !.proof.iat = 5]}

(* One client sends anything, the other what competes for a jti with it.   *)
MCArrivals == (r1 :> AllArrivals) @@ (r2 :> {Good})
===============================================================================
