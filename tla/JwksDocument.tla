---------------------------- MODULE JwksDocument ----------------------------
(***************************************************************************)
(* What parse_jwks (server/src/auth/jwks.rs) makes of a JSON Web Key Set,  *)
(* and what the signature check and the overlap check read from the result.*)
(*                                                                         *)
(* A key of a document is [kty, alg, sound, kid, key]: its type ("RSA",    *)
(* "EC", or "oct" for both octet types), its algorithm ("PS256", "ES256",  *)
(* or "other" for another one or none), whether its parameters decode and, *)
(* for an EC key, have curve P-256 and coordinates of 32 bytes, its id, if *)
(* any, and its key material.  Type and algorithm are two fields of the    *)
(* document, and nothing ties one to the other.                            *)
(***************************************************************************)
EXTENDS Naturals, Sequences, FiniteSets

CONSTANTS
    Kids,     \* key ids
    NoKid,    \* a key without an id
    Material  \* key material

ASSUME KidAssumption == NoKid \notin Kids

RawKeys ==
    [kty: {"RSA", "EC", "oct"}, alg: {"PS256", "ES256", "other"}, sound: BOOLEAN,
     kid: Kids \cup {NoKid}, key: Material]

(* jwk_thumbprint: the hash of the canonical form, which has the type and  *)
(* the parameters, and neither id nor algorithm.                           *)
Thumbprint(r) == <<r.kty, r.key>>

Thumbprints == {"RSA", "EC"} \X Material

(* Jwk.                                                                    *)
Entry(r) == [alg |-> r.alg, thumbprint |-> Thumbprint(r)]

Entries == [alg: {"PS256", "ES256"}, thumbprint: Thumbprints]

(* Jwks::empty.                                                            *)
EmptyJwks == [by_kid |-> [k \in {} |-> k], by_thumbprint |-> {}, keyless |-> <<>>]

(* Jwks; by_thumbprint is only read for its keys.                          *)
JwksTyped(j) ==
    /\ DOMAIN j = {"by_kid", "by_thumbprint", "keyless"}
    /\ DOMAIN j.by_kid \subseteq Kids
    /\ j.by_kid \in [DOMAIN j.by_kid -> Entries]
    /\ j.by_thumbprint \subseteq Thumbprints
    /\ j.keyless \in Seq(Entries)

IsEmpty(j) == DOMAIN j.by_kid = {} /\ j.keyless = <<>>

-----------------------------------------------------------------------------
(* An iteration of parse_jwks.                                             *)

(* JwsAlg::from_jwt_key_alg.                                               *)
Allowed(r) == r.alg \in {"PS256", "ES256"}

(* compute_thumbprint panics on a key of the octet types, and fails on one *)
(* it cannot decode, with the whole document.                              *)
Panics(r) == Allowed(r) /\ r.kty = "oct"
Fails(r) == Allowed(r) /\ r.kty # "oct" /\ ~r.sound

WithKid(by_kid, kid, entry) ==
    [k \in DOMAIN by_kid \cup {kid} |-> IF k = kid THEN entry ELSE by_kid[k]]

(* Mutant: the first key with an id keeps it.                              *)
MutIndexedFirst(j, r) ==
    [by_kid |-> IF r.kid = NoKid \/ r.kid \in DOMAIN j.by_kid THEN j.by_kid
                ELSE WithKid(j.by_kid, r.kid, Entry(r)),
     by_thumbprint |-> j.by_thumbprint \cup {Thumbprint(r)},
     keyless |-> IF r.kid = NoKid THEN Append(j.keyless, Entry(r)) ELSE j.keyless]

(* Mutant: a key without an id is not listed by its thumbprint.            *)
MutIndexedByKid(j, r) ==
    [by_kid |-> IF r.kid = NoKid THEN j.by_kid ELSE WithKid(j.by_kid, r.kid, Entry(r)),
     by_thumbprint |-> IF r.kid = NoKid THEN j.by_thumbprint
                       ELSE j.by_thumbprint \cup {Thumbprint(r)},
     keyless |-> IF r.kid = NoKid THEN Append(j.keyless, Entry(r)) ELSE j.keyless]

(* The set j with the key r.                                               *)
Indexed(j, r) ==
    [by_kid |-> IF r.kid = NoKid THEN j.by_kid ELSE WithKid(j.by_kid, r.kid, Entry(r)),
     by_thumbprint |-> j.by_thumbprint \cup {Thumbprint(r)},
     keyless |-> IF r.kid = NoKid THEN Append(j.keyless, Entry(r)) ELSE j.keyless]

-----------------------------------------------------------------------------
(* Reading a Jwks.                                                         *)

lookup_candidates(j, kid) == IF kid \in DOMAIN j.by_kid THEN <<j.by_kid[kid]>> ELSE j.keyless

(* The keys that verify some token: what lookup_candidates returns for     *)
(* some header.                                                            *)
Usable(j) ==
    UNION {LET found == lookup_candidates(j, kid)
           IN  {found[i].thumbprint : i \in DOMAIN found} : kid \in Kids \cup {NoKid}}

(* check_disjoint_jwks.                                                    *)
Overlap(a, b) == a.by_thumbprint \cap b.by_thumbprint # {}

-----------------------------------------------------------------------------
(* What the key set of a document should be, said without the loop: a      *)
(* document is acceptable if every key with an allowed algorithm is sound; *)
(* of the keys with an id the last one counts, those without are kept in   *)
(* order.                                                                  *)

Acceptable(doc) ==
    /\ \A i \in DOMAIN doc : ~Panics(doc[i]) /\ ~Fails(doc[i])
    /\ \E i \in DOMAIN doc : Allowed(doc[i])

(* The positions of a document whose keys are kept, with and without id.   *)
Kept(doc, n) == {i \in 1..n : Allowed(doc[i])}
WithId(doc, n, kid) == {i \in Kept(doc, n) : doc[i].kid = kid}

LastOf(positions) == CHOOSE i \in positions : \A j \in positions : j <= i

Before(positions, i) == {j \in positions : j <= i}

Nth(positions, m) == CHOOSE i \in {k \in positions : Cardinality(Before(positions, k)) = m} : TRUE

Ids(doc, n) == {doc[i].kid : i \in Kept(doc, n)} \ {NoKid}
LastWithId(doc, n, kid) == Entry(doc[LastOf(WithId(doc, n, kid))])
NthWithout(doc, n, m) == Entry(doc[Nth(WithId(doc, n, NoKid), m)])

(* The key set of the first n keys, and of all of them.                    *)
ReferenceUpTo(doc, n) ==
    [by_kid |-> [kid \in Ids(doc, n) |-> LastWithId(doc, n, kid)],
     by_thumbprint |-> {Thumbprint(doc[i]) : i \in Kept(doc, n)},
     keyless |-> [m \in 1..Cardinality(WithId(doc, n, NoKid)) |-> NthWithout(doc, n, m)]]

Reference(doc) == ReferenceUpTo(doc, Len(doc))

=============================================================================
