---------------------------- MODULE StartupProofs ----------------------------
(* Theorems about the key sets of a running server, for every set of key   *)
(* ids, keys, documents and every number of refreshes.                     *)
EXTENDS Startup, FiniteSetTheorems, TLAPS

(* lookup_candidates returns only keys that iter_thumbprints lists.        *)
LEMMA UsableIsListed ==
  ASSUME NEW j, Covered(j)
  PROVE  Usable(j) \subseteq j.by_thumbprint
<1> SUFFICES ASSUME NEW kid \in Kids \cup {NoKid},
                    NEW i \in DOMAIN lookup_candidates(j, kid)
             PROVE  lookup_candidates(j, kid)[i].thumbprint \in j.by_thumbprint
  BY DEF Usable
<1>1. CASE kid \in DOMAIN j.by_kid
  <2>1. lookup_candidates(j, kid) = <<j.by_kid[kid]>>
    BY <1>1 DEF lookup_candidates
  <2>2. i = 1
    BY <2>1
  <2> QED
    BY <1>1, <2>1, <2>2 DEF Covered
<1>2. CASE kid \notin DOMAIN j.by_kid
  BY <1>2 DEF lookup_candidates, Covered
<1> QED
  BY <1>1, <1>2

LEMMA EmptyIsWhole == Whole(EmptyJwks)
  BY DEF Whole, Covered, JwksTyped, EmptyJwks

(* An iteration of parse_jwks keeps the indexes together.                  *)
LEMMA IndexedIsWhole ==
  ASSUME NEW j, Whole(j), NEW r \in RawKeys, Allowed(r), ~Panics(r)
  PROVE  Whole(Indexed(j, r))
<1> DEFINE n == Indexed(j, r)
<1>1. Entry(r) \in Entries /\ Entry(r).thumbprint = Thumbprint(r) /\ Thumbprint(r) \in Thumbprints
  BY DEF RawKeys, Allowed, Panics, Entry, Entries, Thumbprint, Thumbprints
<1>2. n.by_thumbprint = j.by_thumbprint \cup {Thumbprint(r)}
  BY DEF Indexed
<1>3. /\ DOMAIN n.by_kid \subseteq Kids
      /\ n.by_kid \in [DOMAIN n.by_kid -> Entries]
      /\ \A k \in DOMAIN n.by_kid : n.by_kid[k].thumbprint \in n.by_thumbprint
  <2>1. CASE r.kid = NoKid
    BY <1>2, <2>1 DEF Indexed, Whole, Covered, JwksTyped
  <2>2. CASE r.kid # NoKid
    <3>1. n.by_kid = WithKid(j.by_kid, r.kid, Entry(r)) /\ r.kid \in Kids
      BY <2>2 DEF Indexed, RawKeys
    <3> QED
      BY <1>1, <1>2, <3>1 DEF WithKid, Whole, Covered, JwksTyped
  <2> QED
    BY <2>1, <2>2
<1>4. /\ n.keyless \in Seq(Entries)
      /\ \A i \in DOMAIN n.keyless : n.keyless[i].thumbprint \in n.by_thumbprint
  <2>1. CASE r.kid # NoKid
    BY <1>2, <2>1 DEF Indexed, Whole, Covered, JwksTyped
  <2>2. CASE r.kid = NoKid
    <3>1. n.keyless = Append(j.keyless, Entry(r)) /\ j.keyless \in Seq(Entries)
      BY <2>2 DEF Indexed, Whole, JwksTyped
    <3> QED
      BY <1>1, <1>2, <3>1 DEF Whole, Covered
  <2> QED
    BY <2>1, <2>2
<1>5. DOMAIN n = {"by_kid", "by_thumbprint", "keyless"} /\ n.by_thumbprint \subseteq Thumbprints
  BY <1>1, <1>2 DEF Indexed, Whole, JwksTyped
<1> QED
  BY <1>3, <1>4, <1>5 DEF Whole, Covered, JwksTyped

-----------------------------------------------------------------------------
(* Jobs.                                                                   *)

JobOK(j) == JobTyped(j) /\ Covered(j.acc)

LEMMA AtOK ==
  ASSUME NEW pc \in {"idle", "discovery", "fetch"}
  PROVE  /\ JobOK(At(pc)) /\ At(pc).pc = pc
         /\ JobOK(Idle) /\ Idle.pc = "idle"
  BY EmptyIsWhole DEF JobOK, JobTyped, At, Idle, Whole

LEMMA BecomeOK ==
  ASSUME JobsInv, NEW c \in Contexts, NEW j, JobOK(j), Become(c, j)
  PROVE  JobsInv' /\ job'[c] = j /\ \A d \in Contexts \ {c} : job'[d] = job[d]
<1>1. /\ DOMAIN job' = Contexts /\ job'[c] = j
      /\ \A d \in Contexts \ {c} : job'[d] = job[d]
  BY DEF JobsInv, Become
<1>2. \A d \in Contexts : JobTyped(job'[d]) /\ Covered(job'[d].acc)
  BY <1>1 DEF JobsInv, JobOK
<1> QED
  BY <1>1, <1>2 DEF JobsInv

LEMMA KeyInvInit == Init => KeyInv
  BY AtOK DEF Init, KeyInv, JobsInv, BootInv, ApartInv, JobOK, Contexts

(* What is left of KeyInv if no key set changes and no job comes to        *)
(* install or store.                                                       *)
LEMMA QuietStep ==
  ASSUME KeyInv, Running, JobsInv', UNCHANGED <<jwks, raced>>,
         \/ UNCHANGED phase
         \/ phase' = "exited" /\ phase # "serving",
         NEW c \in Contexts,
         \A d \in Contexts \ {c} : job'[d] = job[d],
         job'[c].pc \notin {"install", "store"},
         phase = "init" /\ c = "admin" => job["admin"].pc # "idle"
  PROVE  KeyInv'
<1>1. BootInv'
  BY DEF KeyInv, BootInv, Contexts, Running
<1>2. ApartInv'
  BY DEF KeyInv, ApartInv, Contexts, Other, Overlap
<1> QED
  BY <1>1, <1>2 DEF KeyInv

LEMMA GiveUpStep ==
  ASSUME KeyInv, NEW c \in Contexts, NEW why, Running, GiveUp(c, why),
         job[c].pc # "idle", UNCHANGED <<jwks, raced>>
  PROVE  KeyInv'
<1>1. JobsInv' /\ job'[c] = Idle /\ \A d \in Contexts \ {c} : job'[d] = job[d]
  BY AtOK, BecomeOK DEF GiveUp, KeyInv
<1> QED
  BY <1>1, AtOK, QuietStep DEF GiveUp, Running

(* The steps of a fetch, up to the end of parse_jwks.                      *)
LEMMA FetchStep ==
  ASSUME KeyInv, NEW c \in Contexts,
         Fetch(c) \/ Tick(c) \/ ParseNext(c) \/ ParseEmpty(c)
  PROVE  KeyInv'
<1>0. JobOK(job[c]) /\ JobsInv
  BY DEF KeyInv, JobsInv, JobOK
<1>1. CASE FetchDiscovery(c) \/ Tick(c)
  <2>1. JobsInv' /\ job'[c] = At("fetch") /\ \A d \in Contexts \ {c} : job'[d] = job[d]
    BY <1>0, <1>1, AtOK, BecomeOK DEF FetchDiscovery, Tick
  <2> QED
    BY <1>1, <2>1, AtOK, QuietStep DEF FetchDiscovery, Tick, Running, cacheVars
<1>2. CASE FetchJwks(c)
  <2>1. PICK doc \in Documents :
           Become(c, [pc |-> "parse", doc |-> doc, left |-> doc, acc |-> EmptyJwks])
    BY <1>2 DEF FetchJwks
  <2> DEFINE j == [pc |-> "parse", doc |-> doc, left |-> doc, acc |-> EmptyJwks]
  <2>2. JobOK(j) /\ j.pc = "parse"
    BY StartupAssumption, EmptyIsWhole DEF JobOK, JobTyped, Whole
  <2>3. JobsInv' /\ job'[c] = j /\ \A d \in Contexts \ {c} : job'[d] = job[d]
    BY <1>0, <2>1, <2>2, BecomeOK
  <2> HIDE DEF j
  <2> QED
    BY <1>2, <2>2, <2>3, QuietStep DEF FetchJwks, cacheVars
<1>3. CASE FetchFails(c)
  BY <1>3, GiveUpStep DEF FetchFails, cacheVars
<1>4. CASE ParseNext(c)
  <2> DEFINE r == Head(job[c].left)
  <2>1. r \in RawKeys /\ Tail(job[c].left) \in Seq(RawKeys)
    BY <1>0, <1>4 DEF JobOK, JobTyped, ParseNext
  <2>2. CASE ~Allowed(r)
    <3> DEFINE j == [job[c] EXCEPT !.left = Tail(@)]
    <3>1. JobOK(j) /\ j.pc = "parse"
      BY <1>0, <1>4, <2>1 DEF JobOK, JobTyped, ParseNext
    <3>2. Become(c, j) /\ UNCHANGED <<phase, exit>>
      BY <1>4, <2>2 DEF ParseNext, ParseKey, Panics, Fails
    <3> HIDE DEF j
    <3>3. JobsInv' /\ job'[c] = j /\ \A d \in Contexts \ {c} : job'[d] = job[d]
      BY <1>0, <3>1, <3>2, BecomeOK
    <3> QED
      BY <1>4, <3>1, <3>2, <3>3, QuietStep DEF ParseNext, cacheVars
  <2>3. CASE Panics(r)
    <3>1. Panic(c) /\ Allowed(r)
      BY <1>4, <2>3 DEF ParseNext, ParseKey, Panics, Fails
    <3>2. JobOK(At("dead")) /\ At("dead").pc = "dead"
      BY EmptyIsWhole DEF JobOK, JobTyped, At, Idle, Whole
    <3>3. PICK j \in {Idle, At("dead")} : Become(c, j)
      BY <3>1 DEF Panic
    <3>4. JobOK(j) /\ j.pc \notin {"install", "store"}
      BY <3>2, <3>3, AtOK
    <3>5. JobsInv' /\ job'[c] = j /\ \A d \in Contexts \ {c} : job'[d] = job[d]
      BY <1>0, <3>3, <3>4, BecomeOK
    <3>6. \/ UNCHANGED phase
          \/ phase' = "exited" /\ phase # "serving"
      BY <3>1 DEF Panic
    <3> QED
      BY <1>4, <3>4, <3>5, <3>6, QuietStep DEF ParseNext, cacheVars
  <2>4. CASE Allowed(r) /\ ~Panics(r) /\ Fails(r)
    <3>1. GiveUp(c, "JwksFetch")
      BY <1>4, <2>4 DEF ParseNext, ParseKey
    <3> QED
      BY <1>4, <3>1, GiveUpStep DEF ParseNext, cacheVars
  <2>5. CASE Allowed(r) /\ ~Panics(r) /\ ~Fails(r)
    <3> DEFINE j == [job[c] EXCEPT !.left = Tail(@), !.acc = Indexed(job[c].acc, r)]
    <3>1. Whole(Indexed(job[c].acc, r))
      BY <1>0, <2>1, <2>5, IndexedIsWhole DEF JobOK, JobTyped, Whole
    <3>2. JobOK(j) /\ j.pc = "parse"
      BY <1>0, <1>4, <2>1, <3>1 DEF JobOK, JobTyped, ParseNext, Whole
    <3>3. Become(c, j) /\ UNCHANGED <<phase, exit>>
      BY <1>4, <2>5 DEF ParseNext, ParseKey
    <3> HIDE DEF j
    <3>4. JobsInv' /\ job'[c] = j /\ \A d \in Contexts \ {c} : job'[d] = job[d]
      BY <1>0, <3>2, <3>3, BecomeOK
    <3> QED
      BY <1>4, <3>2, <3>3, <3>4, QuietStep DEF ParseNext, cacheVars
  <2> QED
    BY <2>2, <2>3, <2>4, <2>5
<1>5. CASE ParseEmpty(c)
  BY <1>5, GiveUpStep DEF ParseEmpty, cacheVars
<1> QED
  BY <1>1, <1>2, <1>3, <1>4, <1>5 DEF Fetch

(* The end of parse_jwks: in run the context has its keys, and the next    *)
(* thing follows; in a task the install.                                   *)
LEMMA ParseDoneStep ==
  ASSUME KeyInv, NEW c \in Contexts, ParseDone(c)
  PROVE  KeyInv'
<1>0. JobOK(job[c]) /\ JobsInv /\ Whole(job[c].acc) /\ DOMAIN jwks = Contexts
  BY DEF KeyInv, JobsInv, BootInv, JobOK, JobTyped, Whole
<1>1. CASE phase = "init"
  <2>1. /\ DOMAIN jwks' = Contexts /\ jwks'[c] = job[c].acc
        /\ \A d \in Contexts \ {c} : jwks'[d] = jwks[d]
    BY <1>0, <1>1 DEF ParseDone, Install
  <2>2. CASE c = "vault"
    <3>1. /\ job' = [job EXCEPT !["vault"] = Idle, !["admin"] = At("discovery")]
          /\ phase' = "init"
      BY <1>1, <2>2 DEF ParseDone
    <3>2. DOMAIN job' = Contexts /\ \A d \in Contexts : JobOK(job'[d]) /\ job'[d].pc \in {"idle", "discovery"}
      BY <1>0, <3>1, AtOK DEF JobsInv, Contexts
    <3> QED
      BY <1>0, <2>1, <2>2, <3>1, <3>2 DEF KeyInv, JobsInv, BootInv, ApartInv, JobOK
  <2>3. CASE c = "admin"
    <3>1. Become(c, Idle) /\ phase' = "compare" /\ Whole(jwks["vault"])
      BY <1>1, <2>3 DEF ParseDone, KeyInv, BootInv
    <3>2. JobsInv' /\ job'[c] = Idle /\ \A d \in Contexts \ {c} : job'[d] = job[d]
      BY <1>0, <3>1, AtOK, BecomeOK
    <3>3. BootInv'
      BY <1>0, <1>1, <2>1, <2>3, <3>1, <3>2, AtOK DEF KeyInv, BootInv, Contexts
    <3> QED
      BY <3>1, <3>2, <3>3 DEF KeyInv, ApartInv
  <2> QED
    BY <2>2, <2>3 DEF Contexts
<1>2. CASE phase = "serving"
  <2> DEFINE j == [job[c] EXCEPT !.pc = "install"]
  <2>1. JobOK(j) /\ j.pc = "install"
    BY <1>0 DEF JobOK, JobTyped
  <2>2. Become(c, j) /\ UNCHANGED <<phase, jwks, raced>>
    BY <1>2 DEF ParseDone, cacheVars
  <2> HIDE DEF j
  <2>3. JobsInv' /\ job'[c] = j /\ \A d \in Contexts \ {c} : job'[d] = job[d]
    BY <1>0, <2>1, <2>2, BecomeOK
  <2> QED
    BY <1>2, <2>1, <2>2, <2>3 DEF KeyInv, BootInv, ApartInv, Contexts, Other
<1> QED
  BY <1>1, <1>2 DEF ParseDone

(* install_refreshed_jwks: the comparison ...                              *)
LEMMA CheckDisjointStep ==
  ASSUME KeyInv, NEW c \in Contexts, CheckDisjoint(c)
  PROVE  KeyInv'
<1>0. JobOK(job[c]) /\ JobsInv
  BY DEF KeyInv, JobsInv, JobOK
<1>1. CASE Overlap(jwks[Other(c)], job[c].acc)
  <2>1. JobsInv' /\ job'[c] = Idle /\ \A d \in Contexts \ {c} : job'[d] = job[d]
    BY <1>0, <1>1, AtOK, BecomeOK DEF CheckDisjoint
  <2> QED
    BY <1>1, <2>1, AtOK, QuietStep DEF CheckDisjoint, Running, cacheVars
<1>2. CASE ~Overlap(jwks[Other(c)], job[c].acc)
  <2> DEFINE j == [job[c] EXCEPT !.pc = "store"]
  <2>1. JobOK(j) /\ j.pc = "store" /\ j.acc = job[c].acc
    BY <1>0 DEF JobOK, JobTyped
  <2>2. Become(c, j) /\ UNCHANGED <<phase, jwks>>
        /\ raced' = (raced \/ job[Other(c)].pc = "store") /\ phase = "serving"
    BY <1>2 DEF CheckDisjoint, cacheVars
  <2> HIDE DEF j
  <2>3. JobsInv' /\ job'[c] = j /\ \A d \in Contexts \ {c} : job'[d] = job[d]
    BY <1>0, <2>1, <2>2, BecomeOK
  <2>4. BootInv'
    BY <2>2 DEF KeyInv, BootInv
  <2>5. ApartInv'
    BY <1>2, <2>1, <2>2, <2>3 DEF KeyInv, ApartInv, Contexts, Other
  <2> QED
    BY <2>3, <2>4, <2>5 DEF KeyInv
<1> QED
  BY <1>1, <1>2

(* ... and the store.                                                      *)
LEMMA StoreJwksStep ==
  ASSUME KeyInv, NEW c \in Contexts, StoreJwks(c)
  PROVE  KeyInv'
<1>0. JobOK(job[c]) /\ JobsInv /\ Whole(job[c].acc) /\ DOMAIN jwks = Contexts
  BY DEF KeyInv, JobsInv, BootInv, JobOK, JobTyped, Whole
<1>1. JobsInv' /\ job'[c] = Idle /\ \A d \in Contexts \ {c} : job'[d] = job[d]
  BY <1>0, AtOK, BecomeOK DEF StoreJwks
<1>2. /\ DOMAIN jwks' = Contexts /\ jwks'[c] = job[c].acc
      /\ \A d \in Contexts \ {c} : jwks'[d] = jwks[d]
      /\ UNCHANGED <<phase, raced>> /\ phase = "serving" /\ job[c].pc = "store"
  BY <1>0 DEF StoreJwks, Install
<1>3. BootInv'
  BY <1>0, <1>2 DEF KeyInv, BootInv
<1>4. ApartInv'
  <2> SUFFICES ASSUME ~raced
               PROVE  /\ ~Overlap(jwks'["vault"], jwks'["admin"])
                      /\ \A d \in Contexts : job'[d].pc # "store"
    BY <1>2 DEF ApartInv
  <2>1. ~Overlap(jwks[Other(c)], job[c].acc) /\ job[Other(c)].pc # "store"
    BY <1>2 DEF KeyInv, ApartInv
  <2>2. ~Overlap(jwks'["vault"], jwks'["admin"])
    BY <1>2, <2>1 DEF Contexts, Other, Overlap
  <2>3. \A d \in Contexts : job'[d].pc # "store"
    BY <1>1, <2>1, AtOK DEF Contexts, Other
  <2> QED
    BY <2>2, <2>3
<1> QED
  BY <1>1, <1>3, <1>4 DEF KeyInv

LEMMA KeyInvStep == KeyInv /\ [Next]_vars => KeyInv'
<1> SUFFICES ASSUME KeyInv, [Next]_vars PROVE KeyInv'
  OBVIOUS
<1>1. CASE LoadConfig \/ ClientFails \/ UNCHANGED vars
  <2>1. UNCHANGED <<job, jwks, raced>>
        /\ (UNCHANGED phase \/ (phase = "load" /\ phase' = "client") \/ phase' = "exited")
        /\ (phase = "serving" => phase' = "serving")
    BY <1>1 DEF LoadConfig, ClientFails, vars, cacheVars
  <2> QED
    BY <2>1 DEF KeyInv, JobsInv, BootInv, ApartInv
<1>2. CASE BuildClient
  <2>1. /\ job' = [job EXCEPT !["vault"] = At("discovery")] /\ phase' = "init"
        /\ UNCHANGED jwks
    BY <1>2 DEF BuildClient, cacheVars
  <2>2. Become("vault", At("discovery")) /\ "vault" \in Contexts
    BY <2>1 DEF Become, Contexts
  <2>3. /\ JobsInv' /\ job'["vault"].pc = "discovery"
        /\ \A d \in Contexts \ {"vault"} : job'[d] = job[d]
    BY <2>2, AtOK, BecomeOK DEF KeyInv
  <2> QED
    BY <1>2, <2>1, <2>3 DEF BuildClient, KeyInv, BootInv, ApartInv, Contexts
<1>3. CASE CompareContexts
  <2>1. UNCHANGED <<job, jwks, raced>>
    BY <1>3 DEF CompareContexts, cacheVars
  <2> QED
    BY <1>3, <2>1 DEF CompareContexts, KeyInv, JobsInv, BootInv, ApartInv
<1>4. ASSUME NEW c \in Contexts, Local(c) \/ Fetch(c) \/ Tick(c) PROVE KeyInv'
  BY <1>4, FetchStep, ParseDoneStep, CheckDisjointStep, StoreJwksStep DEF Local
<1> QED
  BY <1>1, <1>2, <1>3, <1>4 DEF Next, Boot

(* No key ever verifies tokens of both audiences while the server runs,    *)
(* whatever the providers send, unless two installs overlapped: that       *)
(* check_disjoint_jwks compares thumbprints and not what lookup_candidates *)
(* returns loses nothing.                                                  *)
THEOREM KeysAreNotShared == Spec => []NoSharedKeys
<1>1. KeyInv => NoSharedKeys
  <2> SUFFICES ASSUME KeyInv, phase = "serving", ~raced
               PROVE  Usable(jwks["vault"]) \cap Usable(jwks["admin"]) = {}
    BY DEF NoSharedKeys
  <2>1. \A c \in Contexts : Covered(jwks[c])
    BY DEF KeyInv, BootInv, Whole
  <2>2. \A c \in Contexts : Usable(jwks[c]) \subseteq jwks[c].by_thumbprint
    BY <2>1, UsableIsListed
  <2>3. ~Overlap(jwks["vault"], jwks["admin"])
    BY DEF KeyInv, ApartInv
  <2> QED
    BY <2>2, <2>3 DEF Overlap, Contexts
<1> QED
  BY <1>1, KeyInvInit, KeyInvStep, PTL DEF Spec

-----------------------------------------------------------------------------
(* parse_jwks computes the reference.                                      *)

LEMMA KeptIsFinite ==
  ASSUME NEW doc, NEW n \in Nat, NEW kid
  PROVE  /\ Kept(doc, n) \subseteq 1..n /\ WithId(doc, n, kid) \subseteq 1..n
         /\ IsFiniteSet(WithId(doc, n, kid))
<1>1. Kept(doc, n) \subseteq 1..n /\ WithId(doc, n, kid) \subseteq 1..n
  BY DEF Kept, WithId
<1>2. IsFiniteSet(1..n)
  BY FS_Interval
<1> QED
  BY <1>1, <1>2, FS_Subset

(* A position after all the others comes last, and moves none of them.     *)
LEMMA NextPosition ==
  ASSUME NEW n \in Nat, NEW A \in SUBSET (1..n)
  PROVE  /\ LastOf(A \cup {n + 1}) = n + 1
         /\ Cardinality(A) \in Nat /\ Cardinality(A \cup {n + 1}) = Cardinality(A) + 1
         /\ Nth(A \cup {n + 1}, Cardinality(A) + 1) = n + 1
         /\ \A m \in 1..Cardinality(A) : Nth(A \cup {n + 1}, m) = Nth(A, m)
<1> DEFINE B == A \cup {n + 1}
<1>1. IsFiniteSet(A) /\ n + 1 \notin A /\ A \subseteq Int
  <2>1. IsFiniteSet(1..n)
    BY FS_Interval
  <2>2. IsFiniteSet(A)
    BY <2>1, FS_Subset
  <2>3. n + 1 \notin A /\ A \subseteq Int
    OBVIOUS
  <2> QED
    BY <2>2, <2>3
<1>2. Cardinality(A) \in Nat /\ Cardinality(B) = Cardinality(A) + 1
  BY <1>1, FS_CardinalityType, FS_AddElement
<1>3. LastOf(B) = n + 1
  <2>1. \A i \in B : (\A j \in B : j <= i) <=> i = n + 1
    OBVIOUS
  <2> QED
    BY <2>1 DEF LastOf
<1>4. Before(B, n + 1) = B
  <2>1. \A i \in B : i <= n + 1
    OBVIOUS
  <2> QED
    BY <2>1 DEF Before
<1>5. \A i \in A : Before(B, i) = Before(A, i)
  BY DEF Before
<1>6. \A i \in A : Cardinality(Before(A, i)) \in Nat /\ Cardinality(Before(A, i)) <= Cardinality(A)
  <2> SUFFICES ASSUME NEW i \in A
               PROVE  Cardinality(Before(A, i)) \in Nat /\ Cardinality(Before(A, i)) <= Cardinality(A)
    OBVIOUS
  <2>1. Before(A, i) \subseteq A
    BY DEF Before
  <2> QED
    BY <1>1, <2>1, FS_Subset, FS_CardinalityType
<1> DEFINE Ranked(S, m) == {k \in S : Cardinality(Before(S, k)) = m}
<1>7. Ranked(B, Cardinality(A) + 1) = {n + 1}
  <2>1. Cardinality(Before(B, n + 1)) = Cardinality(A) + 1
    BY <1>2, <1>4
  <2>2. \A i \in A : Cardinality(Before(B, i)) # Cardinality(A) + 1
    BY <1>2, <1>5, <1>6
  <2> QED
    BY <2>1, <2>2
<1>8. ASSUME NEW m \in 1..Cardinality(A) PROVE Ranked(B, m) = Ranked(A, m)
  <2> DEFINE size == Cardinality(A)
  <2>0. Cardinality(Before(B, n + 1)) = size + 1 /\ size \in Nat /\ m \in 1..size
    BY <1>2, <1>4
  <2> HIDE DEF size
  <2>1. Cardinality(Before(B, n + 1)) # m
    BY <2>0
  <2> QED
    BY <1>5, <2>1
<1>9. \A S, m : Nth(S, m) = CHOOSE i \in Ranked(S, m) : TRUE
  BY DEF Nth
<1> HIDE DEF Ranked
<1>10. Nth(B, Cardinality(A) + 1) = n + 1
  BY <1>7, <1>9
<1>11. ASSUME NEW m \in 1..Cardinality(A) PROVE Nth(B, m) = Nth(A, m)
  BY <1>8, <1>9, <1>11
<1> QED
  BY <1>2, <1>3, <1>10, <1>11

(* A step of the loop: a key that is passed over ...                       *)
LEMMA ReferenceSkips ==
  ASSUME NEW doc \in Seq(RawKeys), NEW n \in Nat, n + 1 \in 1..Len(doc), ~Allowed(doc[n + 1])
  PROVE  ReferenceUpTo(doc, n + 1) = ReferenceUpTo(doc, n)
<1>1. Kept(doc, n + 1) = Kept(doc, n)
  <2>1. \A i : i \in 1..(n + 1) <=> i \in 1..n \/ i = n + 1
    OBVIOUS
  <2> QED
    BY <2>1 DEF Kept
<1>2. \A kid : WithId(doc, n + 1, kid) = WithId(doc, n, kid)
  BY <1>1 DEF WithId
<1>3. Ids(doc, n + 1) = Ids(doc, n)
  BY <1>1 DEF Ids
<1>4. \A kid : LastWithId(doc, n + 1, kid) = LastWithId(doc, n, kid)
  BY <1>2 DEF LastWithId
<1>5. \A m : NthWithout(doc, n + 1, m) = NthWithout(doc, n, m)
  BY <1>2 DEF NthWithout
<1>6. {Thumbprint(doc[i]) : i \in Kept(doc, n + 1)} = {Thumbprint(doc[i]) : i \in Kept(doc, n)}
  BY <1>1
<1>7. [kid \in Ids(doc, n + 1) |-> LastWithId(doc, n + 1, kid)]
      = [kid \in Ids(doc, n) |-> LastWithId(doc, n, kid)]
  BY <1>3, <1>4
<1>8. [m \in 1..Cardinality(WithId(doc, n + 1, NoKid)) |-> NthWithout(doc, n + 1, m)]
      = [m \in 1..Cardinality(WithId(doc, n, NoKid)) |-> NthWithout(doc, n, m)]
  BY <1>2, <1>5
<1> QED
  BY <1>6, <1>7, <1>8 DEF ReferenceUpTo

(* ... and one that is kept.                                               *)
LEMMA ReferenceKeeps ==
  ASSUME NEW doc \in Seq(RawKeys), NEW n \in Nat, n + 1 \in 1..Len(doc), Allowed(doc[n + 1])
  PROVE  ReferenceUpTo(doc, n + 1) = Indexed(ReferenceUpTo(doc, n), doc[n + 1])
<1> DEFINE r == doc[n + 1]
           old == ReferenceUpTo(doc, n)
           new == ReferenceUpTo(doc, n + 1)
           ix == Indexed(old, r)
<1>1. Kept(doc, n + 1) = Kept(doc, n) \cup {n + 1}
  <2>1. \A i : i \in 1..(n + 1) <=> i \in 1..n \/ i = n + 1
    OBVIOUS
  <2> QED
    BY <2>1 DEF Kept
<1>2. \A kid : kid # r.kid => WithId(doc, n + 1, kid) = WithId(doc, n, kid)
  BY <1>1 DEF WithId
<1>3. WithId(doc, n + 1, r.kid) = WithId(doc, n, r.kid) \cup {n + 1}
  BY <1>1 DEF WithId
<1>4. WithId(doc, n, r.kid) \subseteq 1..n
  BY KeptIsFinite
<1>5. new.by_thumbprint = ix.by_thumbprint
  BY <1>1 DEF ReferenceUpTo, Indexed
<1>6. new.by_kid = ix.by_kid
  <2>0. /\ new.by_kid = [kid \in Ids(doc, n + 1) |-> LastWithId(doc, n + 1, kid)]
        /\ old.by_kid = [kid \in Ids(doc, n) |-> LastWithId(doc, n, kid)]
    BY DEF ReferenceUpTo
  <2>1. \A kid : kid # r.kid => LastWithId(doc, n + 1, kid) = LastWithId(doc, n, kid)
    BY <1>2 DEF LastWithId
  <2>2. CASE r.kid = NoKid
    <3>1. Ids(doc, n + 1) = Ids(doc, n) /\ NoKid \notin Ids(doc, n)
      BY <1>1, <2>2 DEF Ids
    <3>2. \A kid \in Ids(doc, n) : LastWithId(doc, n + 1, kid) = LastWithId(doc, n, kid)
      BY <2>1, <2>2, <3>1
    <3>3. new.by_kid = old.by_kid
      BY <2>0, <3>1, <3>2
    <3> QED
      BY <2>2, <3>3 DEF Indexed
  <2>3. CASE r.kid # NoKid
    <3>1. Ids(doc, n + 1) = Ids(doc, n) \cup {r.kid}
      BY <1>1, <2>3 DEF Ids
    <3>2. LastWithId(doc, n + 1, r.kid) = Entry(r)
      <4>1. LastOf(WithId(doc, n, r.kid) \cup {n + 1}) = n + 1
        BY <1>4, NextPosition
      <4>2. LastOf(WithId(doc, n + 1, r.kid)) = n + 1
        BY <1>3, <4>1
      <4> QED
        BY <4>2 DEF LastWithId
    <3>3. DOMAIN old.by_kid = Ids(doc, n)
      BY <2>0
    <3>4. \A kid \in Ids(doc, n) : old.by_kid[kid] = LastWithId(doc, n, kid)
      BY <2>0
    <3>5. ix.by_kid = WithKid(old.by_kid, r.kid, Entry(r))
      BY <2>3 DEF Indexed
    <3> HIDE DEF old, r
    <3>6. WithKid(old.by_kid, r.kid, Entry(r))
          = [k \in Ids(doc, n + 1) |-> IF k = r.kid THEN Entry(r) ELSE old.by_kid[k]]
      BY <3>1, <3>3 DEF WithKid
    <3>7. \A k \in Ids(doc, n + 1) :
             LastWithId(doc, n + 1, k) = IF k = r.kid THEN Entry(r) ELSE old.by_kid[k]
      BY <2>1, <3>1, <3>2, <3>4
    <3> QED
      BY <2>0, <3>5, <3>6, <3>7
  <2> QED
    BY <2>2, <2>3
<1>7. new.keyless = ix.keyless
  <2> DEFINE A == WithId(doc, n, NoKid)
             B == WithId(doc, n + 1, NoKid)
  <2>0. /\ new.keyless = [m \in 1..Cardinality(B) |-> NthWithout(doc, n + 1, m)]
        /\ old.keyless = [m \in 1..Cardinality(A) |-> NthWithout(doc, n, m)]
    BY DEF ReferenceUpTo
  <2>1. CASE r.kid # NoKid
    <3>1. A = B
      BY <1>2, <2>1
    <3>2. \A m : NthWithout(doc, n + 1, m) = NthWithout(doc, n, m)
      BY <3>1 DEF NthWithout
    <3>3. ix.keyless = old.keyless
      BY <2>1 DEF Indexed
    <3> HIDE DEF A, B, old, new, ix
    <3> QED
      BY <2>0, <3>1, <3>2, <3>3
  <2>2. CASE r.kid = NoKid
    <3>1. B = A \cup {n + 1} /\ A \subseteq 1..n
      BY <1>3, <1>4, <2>2
    <3>2. /\ Cardinality(A) \in Nat /\ Cardinality(B) = Cardinality(A) + 1
          /\ Nth(B, Cardinality(A) + 1) = n + 1
          /\ \A m \in 1..Cardinality(A) : Nth(B, m) = Nth(A, m)
      <4> HIDE DEF A, B
      <4>1. /\ Cardinality(A) \in Nat /\ Cardinality(A \cup {n + 1}) = Cardinality(A) + 1
            /\ Nth(A \cup {n + 1}, Cardinality(A) + 1) = n + 1
            /\ \A m \in 1..Cardinality(A) : Nth(A \cup {n + 1}, m) = Nth(A, m)
        BY <3>1, NextPosition
      <4> QED
        BY <3>1, <4>1
    <3>3. ix.keyless = Append(old.keyless, Entry(r))
      BY <2>2 DEF Indexed
    <3> DEFINE size == Cardinality(A)
    <3>4. /\ NthWithout(doc, n + 1, size + 1) = Entry(r)
          /\ \A m \in 1..size : NthWithout(doc, n + 1, m) = NthWithout(doc, n, m)
      BY <3>2 DEF NthWithout
    <3>5. /\ new.keyless = [m \in 1..(size + 1) |-> NthWithout(doc, n + 1, m)]
          /\ old.keyless = [m \in 1..size |-> NthWithout(doc, n, m)]
          /\ size \in Nat
      BY <2>0, <3>2
    <3> HIDE DEF A, B, size, old, new, ix, r
    <3>6. Append(old.keyless, Entry(r)) = [m \in 1..(size + 1) |->
                     IF m = size + 1 THEN Entry(r) ELSE old.keyless[m]]
      <4>1. old.keyless \in Seq({NthWithout(doc, n, m) : m \in 1..size}) /\ Len(old.keyless) = size
        BY <3>5
      <4> QED
        BY <3>5, <4>1
    <3>7. \A m \in 1..(size + 1) :
             NthWithout(doc, n + 1, m) = IF m = size + 1 THEN Entry(r) ELSE old.keyless[m]
      BY <3>4, <3>5
    <3> QED
      BY <3>3, <3>5, <3>6, <3>7
  <2> QED
    BY <2>1, <2>2
<1> QED
  BY <1>5, <1>6, <1>7 DEF ReferenceUpTo, Indexed

LEMMA ReferenceOfNone ==
  ASSUME NEW doc PROVE ReferenceUpTo(doc, 0) = EmptyJwks
<1>1. Kept(doc, 0) = {} /\ WithId(doc, 0, NoKid) = {}
  BY DEF Kept, WithId
<1>2. Cardinality(WithId(doc, 0, NoKid)) = 0
  BY <1>1, FS_EmptySet
<1>3. Ids(doc, 0) = {}
  BY <1>1 DEF Ids
<1>4. [kid \in Ids(doc, 0) |-> LastWithId(doc, 0, kid)] = [k \in {} |-> k]
  BY <1>3
<1>5. {Thumbprint(doc[i]) : i \in Kept(doc, 0)} = {}
  BY <1>1
<1>6. [m \in 1..Cardinality(WithId(doc, 0, NoKid)) |-> NthWithout(doc, 0, m)] = <<>>
  BY <1>2
<1> QED
  BY <1>4, <1>5, <1>6 DEF ReferenceUpTo, EmptyJwks

(* A key set that is not empty has a kept key.                             *)
LEMMA NotEmptyKeeps ==
  ASSUME NEW doc, NEW n \in Nat, ~IsEmpty(ReferenceUpTo(doc, n))
  PROVE  \E i \in 1..n : Allowed(doc[i])
<1> SUFFICES ASSUME Kept(doc, n) = {} PROVE FALSE
  BY DEF Kept
<1>1. WithId(doc, n, NoKid) = {}
  BY DEF WithId
<1>2. Cardinality(WithId(doc, n, NoKid)) = 0
  BY <1>1, FS_EmptySet
<1>3. Ids(doc, n) = {}
  BY DEF Ids
<1>4. DOMAIN [kid \in Ids(doc, n) |-> LastWithId(doc, n, kid)] = {}
  BY <1>3
<1>5. [m \in 1..Cardinality(WithId(doc, n, NoKid)) |-> NthWithout(doc, n, m)] = <<>>
  BY <1>2
<1> QED
  BY <1>4, <1>5 DEF ReferenceUpTo, IsEmpty

(* An iteration that passes its key over, and one that keeps it.           *)
LEMMA HeadIsNext ==
  ASSUME NEW j, JobTyped(j), j.left # <<>>, NEW n \in 0..Len(j.doc), ParsedUpTo(j, n)
  PROVE  /\ n \in Nat /\ n + 1 \in 1..Len(j.doc) /\ Head(j.left) = j.doc[n + 1]
         /\ Len(Tail(j.left)) = Len(j.doc) - (n + 1)
         /\ \A i \in 1..Len(Tail(j.left)) : Tail(j.left)[i] = j.doc[(n + 1) + i]
<1> DEFINE left == j.left
           doc == j.doc
<1>1. left \in Seq(RawKeys) /\ left # <<>> /\ doc \in Seq(RawKeys)
  BY DEF JobTyped
<1>2. /\ Len(left) = Len(doc) - n
      /\ \A i \in 1..Len(left) : left[i] = doc[n + i]
  BY DEF ParsedUpTo
<1> HIDE DEF left, doc
<1>3. Len(left) \in Nat /\ Len(left) >= 1 /\ Len(doc) \in Nat /\ n \in Nat
  BY <1>1, <1>2
<1>4. /\ Head(left) = left[1] /\ Len(Tail(left)) = Len(left) - 1
      /\ \A i \in 1..Len(Tail(left)) : Tail(left)[i] = left[i + 1]
  BY <1>1
<1>5. Head(left) = doc[n + 1] /\ n + 1 \in 1..Len(doc)
  BY <1>2, <1>3, <1>4
<1>6. Len(Tail(left)) = Len(doc) - (n + 1)
  BY <1>2, <1>3, <1>4
<1>7. ASSUME NEW i \in 1..Len(Tail(left)) PROVE Tail(left)[i] = doc[(n + 1) + i]
  <2>1. i + 1 \in 1..Len(left) /\ n + (i + 1) = (n + 1) + i
    BY <1>3, <1>4
  <2>2. left[i + 1] = doc[n + (i + 1)]
    BY <1>2, <2>1
  <2> QED
    BY <1>4, <2>1, <2>2
<1> QED
  BY <1>3, <1>5, <1>6, <1>7 DEF left, doc

LEMMA LoopSkips ==
  ASSUME NEW j, JobTyped(j), JobParsed(j), j.pc = "parse", j.left # <<>>,
         ~Allowed(Head(j.left))
  PROVE  JobParsed([j EXCEPT !.left = Tail(@)])
<1> DEFINE k == [j EXCEPT !.left = Tail(@)]
<1>1. k.pc = "parse" /\ k.doc = j.doc /\ k.left = Tail(j.left) /\ k.acc = j.acc
  BY DEF JobTyped
<1>2. PICK n \in 0..Len(j.doc) : ParsedUpTo(j, n)
  BY DEF JobParsed
<1>3. /\ n \in Nat /\ n + 1 \in 1..Len(j.doc) /\ Head(j.left) = j.doc[n + 1]
      /\ Len(Tail(j.left)) = Len(j.doc) - (n + 1)
      /\ \A i \in 1..Len(Tail(j.left)) : Tail(j.left)[i] = j.doc[(n + 1) + i]
  BY <1>2, HeadIsNext
<1> HIDE DEF k
<1>4. ReferenceUpTo(j.doc, n + 1) = j.acc
  <2>1. j.doc \in Seq(RawKeys) /\ ~Allowed(j.doc[n + 1])
    BY <1>3 DEF JobTyped
  <2>2. ReferenceUpTo(j.doc, n + 1) = ReferenceUpTo(j.doc, n)
    BY <1>3, <2>1, ReferenceSkips
  <2>3. j.acc = ReferenceUpTo(j.doc, n)
    BY <1>2 DEF ParsedUpTo
  <2> QED
    BY <2>2, <2>3
<1>5. \A i \in 1..(n + 1) : ~Panics(j.doc[i]) /\ ~Fails(j.doc[i])
  BY <1>2, <1>3 DEF ParsedUpTo, Panics, Fails
<1>6. ParsedUpTo(k, n + 1)
  BY <1>1, <1>3, <1>4, <1>5 DEF ParsedUpTo
<1>7. n + 1 \in 0..Len(k.doc)
  BY <1>1, <1>3
<1> QED
  BY <1>1, <1>6, <1>7 DEF JobParsed, k

LEMMA LoopKeeps ==
  ASSUME NEW j, JobTyped(j), JobParsed(j), j.pc = "parse", j.left # <<>>,
         Allowed(Head(j.left)), ~Panics(Head(j.left)), ~Fails(Head(j.left))
  PROVE  JobParsed([j EXCEPT !.left = Tail(@), !.acc = Indexed(j.acc, Head(j.left))])
<1> DEFINE k == [j EXCEPT !.left = Tail(@), !.acc = Indexed(j.acc, Head(j.left))]
<1>1. /\ k.pc = "parse" /\ k.doc = j.doc /\ k.left = Tail(j.left)
      /\ k.acc = Indexed(j.acc, Head(j.left))
  BY DEF JobTyped
<1>2. PICK n \in 0..Len(j.doc) : ParsedUpTo(j, n)
  BY DEF JobParsed
<1>3. /\ n \in Nat /\ n + 1 \in 1..Len(j.doc) /\ Head(j.left) = j.doc[n + 1]
      /\ Len(Tail(j.left)) = Len(j.doc) - (n + 1)
      /\ \A i \in 1..Len(Tail(j.left)) : Tail(j.left)[i] = j.doc[(n + 1) + i]
  BY <1>2, HeadIsNext
<1> HIDE DEF k
<1>4. ReferenceUpTo(j.doc, n + 1) = k.acc
  <2>1. j.doc \in Seq(RawKeys) /\ Allowed(j.doc[n + 1])
    BY <1>3 DEF JobTyped
  <2>2. ReferenceUpTo(j.doc, n + 1) = Indexed(ReferenceUpTo(j.doc, n), j.doc[n + 1])
    BY <1>3, <2>1, ReferenceKeeps
  <2>3. j.acc = ReferenceUpTo(j.doc, n)
    BY <1>2 DEF ParsedUpTo
  <2> QED
    BY <1>1, <1>3, <2>2, <2>3
<1>5. \A i \in 1..(n + 1) : ~Panics(j.doc[i]) /\ ~Fails(j.doc[i])
  <2>1. \A i \in 1..(n + 1) : i \in 1..n \/ i = n + 1
    BY <1>3
  <2>2. ~Panics(j.doc[n + 1]) /\ ~Fails(j.doc[n + 1])
    BY <1>3
  <2>3. \A i \in 1..n : ~Panics(j.doc[i]) /\ ~Fails(j.doc[i])
    BY <1>2 DEF ParsedUpTo
  <2> QED
    BY <2>1, <2>2, <2>3
<1>6. ParsedUpTo(k, n + 1)
  BY <1>1, <1>3, <1>4, <1>5 DEF ParsedUpTo
<1>7. n + 1 \in 0..Len(k.doc)
  BY <1>1, <1>3
<1> QED
  BY <1>1, <1>6, <1>7 DEF JobParsed, k

(* A job at the end of the loop has the key set of its whole document.     *)
LEMMA ParsedWhole ==
  ASSUME NEW j, JobTyped(j), JobParsed(j), j.pc \in {"parse", "install", "store"},
         j.left = <<>>, ~IsEmpty(j.acc)
  PROVE  j.doc \in Documents /\ Acceptable(j.doc) /\ j.acc = Reference(j.doc)
<1>1. PICK n \in 0..Len(j.doc) : ParsedUpTo(j, n)
  BY DEF JobParsed
<1>2. n = Len(j.doc) /\ n \in Nat /\ DOMAIN j.doc = 1..n
  BY <1>1 DEF ParsedUpTo, JobTyped
<1>3. j.acc = Reference(j.doc)
  BY <1>1, <1>2 DEF ParsedUpTo, Reference
<1>4. \E i \in 1..n : Allowed(j.doc[i])
  BY <1>1, <1>2, NotEmptyKeeps DEF ParsedUpTo
<1>5. Acceptable(j.doc)
  BY <1>1, <1>2, <1>4 DEF ParsedUpTo, Acceptable
<1> QED
  BY <1>3, <1>5 DEF JobParsed

-----------------------------------------------------------------------------
(* The cache.                                                              *)

LEMMA AtParsed ==
  ASSUME NEW pc \in {"idle", "discovery", "fetch", "dead"}
  PROVE  JobParsed(At(pc)) /\ JobParsed(Idle)
  BY DEF JobParsed, At, Idle

LEMMA FetchedParsed ==
  ASSUME NEW doc \in Documents
  PROVE  JobParsed([pc |-> "parse", doc |-> doc, left |-> doc, acc |-> EmptyJwks])
<1> DEFINE j == [pc |-> "parse", doc |-> doc, left |-> doc, acc |-> EmptyJwks]
<1>1. doc \in Seq(RawKeys) /\ 0 \in 0..Len(doc)
  BY StartupAssumption
<1>2. ParsedUpTo(j, 0)
  BY <1>1, ReferenceOfNone DEF ParsedUpTo
<1> QED
  BY <1>1, <1>2 DEF JobParsed

(* A step that gives one job a new state and leaves the cache alone ...    *)
LEMMA CacheQuiet ==
  ASSUME CacheInv, JobsInv, UNCHANGED cacheVars,
         NEW c \in Contexts, NEW j, JobParsed(j), Become(c, j)
  PROVE  CacheInv'
  BY DEF CacheInv, JobsInv, Become, cacheVars, CacheIsOfOneDocument

(* ... and one that installs the key set of a whole document.              *)
LEMMA CacheInstalls ==
  ASSUME CacheInv, KeyInv, NEW c \in Contexts, Install(c),
         job[c].pc \in {"parse", "install", "store"}, job[c].left = <<>>, ~IsEmpty(job[c].acc),
         \A d \in Contexts : JobParsed(job'[d])
  PROVE  CacheInv'
<1>1. job[c].doc \in Documents /\ Acceptable(job[c].doc) /\ job[c].acc = Reference(job[c].doc)
  BY ParsedWhole DEF CacheInv, KeyInv, JobsInv
<1>2. /\ DOMAIN source' = Contexts
      /\ source'[c] = job[c].doc /\ jwks'[c] = job[c].acc
      /\ \A d \in Contexts \ {c} : source'[d] = source[d] /\ jwks'[d] = jwks[d]
  BY DEF CacheInv, KeyInv, BootInv, Install
<1>3. CacheIsOfOneDocument'
  BY <1>1, <1>2 DEF CacheInv, CacheIsOfOneDocument
<1> QED
  BY <1>1, <1>2, <1>3 DEF CacheInv

LEMMA CacheInvInit == Init => CacheInv
  BY AtParsed DEF Init, CacheInv, CacheIsOfOneDocument

LEMMA CacheInvStep == CacheInv /\ KeyInv /\ [Next]_vars => CacheInv'
<1> SUFFICES ASSUME CacheInv, KeyInv, [Next]_vars PROVE CacheInv'
  OBVIOUS
<1>0. JobsInv
  BY DEF KeyInv
<1>1. CASE LoadConfig \/ ClientFails \/ CompareContexts \/ UNCHANGED vars
  <2>1. UNCHANGED <<job, jwks, source>>
    BY <1>1 DEF LoadConfig, ClientFails, CompareContexts, vars, cacheVars
  <2> QED
    BY <2>1 DEF CacheInv, CacheIsOfOneDocument
<1>2. CASE BuildClient
  <2>1. Become("vault", At("discovery")) /\ "vault" \in Contexts /\ UNCHANGED cacheVars
    BY <1>2 DEF BuildClient, Become, Contexts
  <2> QED
    BY <1>0, <2>1, AtParsed, CacheQuiet
<1>3. ASSUME NEW c \in Contexts, Local(c) \/ Fetch(c) \/ Tick(c) PROVE CacheInv'
  <2>0. JobTyped(job[c]) /\ JobParsed(job[c]) /\ DOMAIN job = Contexts
    BY <1>0 DEF JobsInv, CacheInv
  <2>1. CASE Fetch(c) \/ Tick(c) \/ ParseEmpty(c)
    <3>1. UNCHANGED cacheVars
      BY <2>1 DEF Fetch, FetchDiscovery, FetchJwks, FetchFails, Tick, ParseEmpty
    <3>2. \/ Become(c, At("fetch")) \/ Become(c, Idle)
          \/ \E doc \in Documents :
                Become(c, [pc |-> "parse", doc |-> doc, left |-> doc, acc |-> EmptyJwks])
      BY <2>1 DEF Fetch, FetchDiscovery, FetchJwks, FetchFails, Tick, ParseEmpty, GiveUp
    <3>3. PICK j : JobParsed(j) /\ Become(c, j)
      BY <3>2, AtParsed, FetchedParsed
    <3> QED
      BY <1>0, <3>1, <3>3, CacheQuiet
  <2>2. CASE ParseNext(c)
    <3> DEFINE r == Head(job[c].left)
    <3>1. UNCHANGED cacheVars /\ job[c].pc = "parse" /\ job[c].left # <<>> /\ ParseKey(c, r)
      BY <2>2 DEF ParseNext
    <3>2. \/ Become(c, Idle) \/ Become(c, At("dead"))
          \/ ~Allowed(r) /\ Become(c, [job[c] EXCEPT !.left = Tail(@)])
          \/ /\ Allowed(r) /\ ~Panics(r) /\ ~Fails(r)
             /\ Become(c, [job[c] EXCEPT !.left = Tail(@), !.acc = Indexed(job[c].acc, r)])
      BY <3>1 DEF ParseKey, Panic, GiveUp
    <3>3. PICK j : JobParsed(j) /\ Become(c, j)
      BY <2>0, <3>1, <3>2, AtParsed, LoopSkips, LoopKeeps
    <3> QED
      BY <1>0, <3>1, <3>3, CacheQuiet
  <2>3. CASE ParseDone(c)
    <3>1. job[c].pc = "parse" /\ job[c].left = <<>> /\ ~IsEmpty(job[c].acc)
      BY <2>3 DEF ParseDone
    <3>2. CASE phase = "init"
      <4>1. Install(c)
        BY <2>3, <3>2 DEF ParseDone
      <4>2. \/ job' = [job EXCEPT !["vault"] = Idle, !["admin"] = At("discovery")]
            \/ job' = [job EXCEPT ![c] = Idle]
        BY <2>3, <3>2 DEF ParseDone, Become
      <4>3. \A d \in Contexts : JobParsed(job'[d])
        BY <2>0, <4>2, AtParsed DEF CacheInv, Contexts
      <4> QED
        BY <3>1, <4>1, <4>3, CacheInstalls
    <3>3. CASE phase = "serving"
      <4> DEFINE j == [job[c] EXCEPT !.pc = "install"]
      <4>1. Become(c, j) /\ UNCHANGED cacheVars
        BY <2>3, <3>3 DEF ParseDone
      <4>2. /\ j.pc = "install" /\ j.doc = job[c].doc /\ j.left = job[c].left
            /\ j.acc = job[c].acc
        BY <2>0 DEF JobTyped
      <4> HIDE DEF j
      <4>3. JobParsed(j)
        BY <2>0, <3>1, <4>2 DEF JobParsed, ParsedUpTo
      <4> QED
        BY <1>0, <4>1, <4>3, CacheQuiet
    <3> QED
      BY <2>3, <3>2, <3>3 DEF ParseDone
  <2>4. CASE CheckDisjoint(c)
    <3> DEFINE j == [job[c] EXCEPT !.pc = "store"]
    <3>1. (Become(c, Idle) \/ Become(c, j)) /\ UNCHANGED cacheVars /\ job[c].pc = "install"
      BY <2>4 DEF CheckDisjoint
    <3>2. j.pc = "store" /\ j.doc = job[c].doc /\ j.left = job[c].left /\ j.acc = job[c].acc
      BY <2>0 DEF JobTyped
    <3> HIDE DEF j
    <3>3. JobParsed(j)
      BY <2>0, <3>1, <3>2 DEF JobParsed, ParsedUpTo
    <3> QED
      BY <1>0, <3>1, <3>3, AtParsed, CacheQuiet
  <2>5. CASE StoreJwks(c)
    <3>1. /\ Install(c) /\ job' = [job EXCEPT ![c] = Idle]
          /\ job[c].pc = "store" /\ job[c].left = <<>> /\ ~IsEmpty(job[c].acc)
      BY <2>0, <2>5 DEF StoreJwks, Become, JobParsed
    <3>2. \A d \in Contexts : JobParsed(job'[d])
      BY <2>0, <3>1, AtParsed DEF CacheInv
    <3> QED
      BY <3>1, <3>2, CacheInstalls
  <2> QED
    BY <1>3, <2>1, <2>2, <2>3, <2>4, <2>5 DEF Local
<1> QED
  BY <1>1, <1>2, <1>3 DEF Next, Boot

(* The loop of parse_jwks computes what the document says, and no error,   *)
(* panic, refusal or interleaving of two tasks ever leaves anything else   *)
(* in a context's cache: for every provider and every document, the key    *)
(* set in use is the reference one of a single acceptable document.        *)
THEOREM CachedSetIsReference == Spec => []CacheIsOfOneDocument
<1>1. CacheInv => CacheIsOfOneDocument
  BY DEF CacheInv
<1> QED
  BY <1>1, KeyInvInit, KeyInvStep, CacheInvInit, CacheInvStep, PTL DEF Spec

-----------------------------------------------------------------------------
(* The type invariant.                                                     *)

Exits == {"ConfigError", "Client", "DiscoveryFetch", "JwksFetch", "EmptyJwks", "panic",
          "JwksOverlap"}

LEMMA OrderInit == Init => TypeOK /\ OrderInv
<1> SUFFICES ASSUME Init PROVE TypeOK /\ OrderInv
  OBVIOUS
<1>1. DOMAIN job = Contexts /\ \A c \in Contexts : JobTyped(job[c]) /\ job[c] = Idle
  BY AtOK DEF Init, JobOK
<1>2. Idle.pc = "idle"
  BY AtOK
<1>3. input # None /\ 0 \in 0..MaxRefreshes
  BY OptionAssumption, StartupAssumption DEF Init
<1>4. TypeOK
  BY <1>1, <1>2, <1>3 DEF Init, TypeOK
<1> QED
  BY <1>1, <1>4 DEF Init, OrderInv

(* A step of one job that leaves the caches alone.                         *)
LEMMA OrderQuiet ==
  ASSUME TypeOK, OrderInv, JobsInv, JobsInv', NEW c \in Contexts, NEW j, Become(c, j),
         Running, phase = "init" => job[c] # Idle,
         j.pc # "discovery",
         \/ UNCHANGED <<phase, exit>>
         \/ phase = "init" /\ phase' = "exited" /\ exit' \in Exits /\ j = Idle,
         UNCHANGED <<input, outcome, jwks, source>>, raced' \in BOOLEAN,
         refreshes' \in 0..MaxRefreshes
  PROVE  TypeOK' /\ OrderInv'
<1>1. job'[c] = j /\ \A d \in Contexts \ {c} : job'[d] = job[d]
  BY DEF JobsInv, Become
<1>2. DOMAIN job' = Contexts /\ \A d \in Contexts : JobTyped(job'[d])
  BY DEF JobsInv
<1>3. /\ phase' \in {"init", "serving", "exited"} /\ exit' \in Exits \cup {"none"}
      /\ (phase' = "exited") = (exit' # "none")
  BY DEF TypeOK, Running, Exits
<1>4. phase = "init" => job[Other(c)] = Idle /\ Other(c) \in Contexts /\ Other(c) # c
  BY DEF TypeOK, Contexts, Other
<1>5. Idle.pc = "idle"
  BY AtOK
<1>6. \A d \in Contexts : job'[d].pc = "discovery" => phase' = "init"
  BY <1>1, <1>4, <1>5 DEF TypeOK, Contexts, Other
<1>7. phase' = "init" => \E d \in Contexts : job'[Other(d)] = Idle
  BY <1>1, <1>4 DEF TypeOK, Contexts, Other
<1>8. input = None /\ outcome = None
  BY DEF OrderInv, TypeOK, Running
<1>9. TypeOK'
  BY <1>2, <1>3, <1>6, <1>7, <1>8 DEF TypeOK, Running, Exits
<1>10. OrderInv'
  BY <1>1, <1>3, <1>4, <1>8 DEF OrderInv, Running, Contexts, Other
<1> QED
  BY <1>9, <1>10

(* A step that puts the key set of a job into the cache.                   *)
LEMMA InstalledIsThere ==
  ASSUME TypeOK, KeyInv, CacheInv, NEW c \in Contexts, Install(c),
         job[c].pc \in {"parse", "install", "store"}, job[c].left = <<>>, ~IsEmpty(job[c].acc)
  PROVE  /\ jwks'[c] # None
         /\ \A d \in Contexts : jwks[d] # None => jwks'[d] # None
         /\ \A d \in Contexts : jwks'[d] = None \/ JwksTyped(jwks'[d])
         /\ \A d \in Contexts : (jwks'[d] = None) = (source'[d] = None)
<1>1. JobTyped(job[c]) /\ JobParsed(job[c])
  BY DEF KeyInv, JobsInv, CacheInv
<1>2. job[c].doc \in Documents /\ job[c].acc = Reference(job[c].doc)
  BY <1>1, ParsedWhole
<1>3. job[c].doc # None /\ job[c].acc # None /\ JwksTyped(job[c].acc)
  BY <1>1, <1>2, OptionAssumption DEF JobTyped
<1>4. /\ jwks'[c] = job[c].acc /\ source'[c] = job[c].doc
      /\ \A d \in Contexts \ {c} : jwks'[d] = jwks[d] /\ source'[d] = source[d]
  BY DEF KeyInv, BootInv, CacheInv, Install
<1> QED
  BY <1>3, <1>4 DEF TypeOK

LEMMA OrderStep ==
  TypeOK /\ OrderInv /\ KeyInv /\ CacheInv /\ [Next]_vars => TypeOK' /\ OrderInv'
<1> SUFFICES ASSUME TypeOK, OrderInv, KeyInv, CacheInv, [Next]_vars
             PROVE  TypeOK' /\ OrderInv'
  OBVIOUS
<1>0. JobsInv /\ JobsInv' /\ raced \in BOOLEAN /\ refreshes \in 0..MaxRefreshes
  BY KeyInvStep DEF KeyInv, TypeOK
<1>00. Idle.pc = "idle" /\ At("fetch").pc = "fetch" /\ At("discovery").pc = "discovery"
       /\ At("dead").pc = "dead"
  BY DEF Idle, At
<1>1. CASE UNCHANGED vars
  BY <1>1 DEF vars, TypeOK, OrderInv
<1>2. CASE LoadConfig
  <2>1. /\ UNCHANGED <<input, job, jwks, source, raced, refreshes>> /\ outcome' = load(input)
        /\ \/ phase' = "client" /\ exit' = "none"
           \/ phase' = "exited" /\ exit' = "ConfigError"
        /\ phase = "load"
    BY <1>2 DEF LoadConfig, cacheVars
  <2>2. load(input) # None /\ input # None
    BY <2>1, OptionAssumption DEF OrderInv
  <2>3. TypeOK'
    BY <1>00, <2>1, <2>2 DEF TypeOK, OrderInv
  <2>4. OrderInv'
    BY <2>1 DEF OrderInv
  <2> QED
    BY <2>3, <2>4
<1>3. CASE BuildClient \/ ClientFails
  <2>1. \A c \in Contexts : job[c] = Idle
    BY <1>3 DEF OrderInv, BuildClient, ClientFails
  <2>2. \/ phase' = "init" /\ exit' = exit /\ job' = [job EXCEPT !["vault"] = At("discovery")]
        \/ phase' = "exited" /\ exit' = "Client" /\ job' = job
    BY <1>3 DEF BuildClient, ClientFails
  <2>3. /\ input' = None /\ outcome' = None /\ exit = "none"
        /\ UNCHANGED <<jwks, source, raced, refreshes>>
    BY <1>3 DEF BuildClient, ClientFails, cacheVars, TypeOK
  <2>4. DOMAIN job' = Contexts /\ \A d \in Contexts : JobTyped(job'[d])
    BY <1>0 DEF JobsInv
  <2>5. /\ job'["admin"] = Idle
        /\ phase' = "init" \/ \A c \in Contexts : job'[c] = Idle
    BY <1>0, <2>1, <2>2 DEF JobsInv, Contexts
  <2>6. phase' = "init" => \E c \in Contexts : job'[Other(c)] = Idle
    BY <2>5 DEF Contexts, Other
  <2>7. TypeOK'
    BY <1>00, <2>2, <2>3, <2>4, <2>5, <2>6 DEF TypeOK
  <2>8. OrderInv'
    BY <2>2, <2>3, <2>5 DEF OrderInv
  <2> QED
    BY <2>7, <2>8
<1>4. CASE CompareContexts
  <2>1. /\ phase = "compare" /\ UNCHANGED <<input, outcome, job, jwks, source, raced, refreshes>>
        /\ \/ phase' = "exited" /\ exit' = "JwksOverlap"
           \/ phase' = "serving" /\ exit' = exit
    BY <1>4 DEF CompareContexts, bootVars, cacheVars
  <2>2. /\ input = None /\ outcome = None /\ exit = "none"
        /\ \A c \in Contexts : job[c] = Idle /\ jwks[c] # None
    BY <2>1 DEF TypeOK, OrderInv
  <2>3. TypeOK'
    BY <1>00, <2>1, <2>2 DEF TypeOK
  <2>4. OrderInv'
    BY <2>1, <2>2 DEF OrderInv
  <2> QED
    BY <2>3, <2>4
<1>5. ASSUME NEW c \in Contexts, Local(c) \/ Fetch(c) \/ Tick(c) PROVE TypeOK' /\ OrderInv'
  <2>1. CASE FetchDiscovery(c) \/ FetchJwks(c) \/ Tick(c)
    <3>1. PICK j : Become(c, j) /\ j.pc \in {"fetch", "parse"}
      <4>1. CASE FetchDiscovery(c) \/ Tick(c)
        BY <1>00, <4>1 DEF FetchDiscovery, Tick
      <4>2. CASE FetchJwks(c)
        <5>1. PICK doc \in Documents :
                 Become(c, [pc |-> "parse", doc |-> doc, left |-> doc, acc |-> EmptyJwks])
          BY <4>2 DEF FetchJwks
        <5> QED
          BY <5>1
      <4> QED
        BY <2>1, <4>1, <4>2
    <3>2. /\ Running /\ UNCHANGED <<phase, exit, input, outcome, jwks, source, raced>>
          /\ phase = "init" => job[c] # Idle
      BY <1>00, <2>1 DEF FetchDiscovery, FetchJwks, Tick, Running, bootVars, cacheVars
    <3>3. refreshes' \in 0..MaxRefreshes
      BY <1>0, <2>1, StartupAssumption DEF FetchDiscovery, FetchJwks, Tick
    <3> QED
      BY <1>0, <3>1, <3>2, <3>3, OrderQuiet
  <2>2. CASE FetchFails(c) \/ ParseEmpty(c)
    <3>1. Running /\ job[c].pc # "idle" /\ UNCHANGED <<input, outcome, jwks, source, raced, refreshes>>
      BY <2>2 DEF FetchFails, ParseEmpty, bootVars, cacheVars
    <3>2. PICK why \in Exits : GiveUp(c, why)
      BY <2>2 DEF FetchFails, ParseEmpty, Exits
    <3> QED
      BY <1>0, <1>00, <3>1, <3>2, OrderQuiet DEF GiveUp
  <2>3. CASE ParseNext(c)
    <3> DEFINE r == Head(job[c].left)
    <3>1. /\ Running /\ job[c].pc = "parse" /\ ParseKey(c, r)
          /\ UNCHANGED <<input, outcome, jwks, source, raced, refreshes>>
      BY <2>3 DEF ParseNext, bootVars, cacheVars
    <3> HIDE DEF r
    <3>2. CASE Panic(c)
      BY <1>0, <1>00, <3>1, <3>2, OrderQuiet DEF Panic, Running, Exits
    <3>3. CASE GiveUp(c, "JwksFetch")
      BY <1>0, <1>00, <3>1, <3>3, OrderQuiet DEF GiveUp, Exits
    <3>4. CASE ~Panic(c) /\ ~GiveUp(c, "JwksFetch")
      <4>1. /\ UNCHANGED <<phase, exit>>
            /\ \/ Become(c, [job[c] EXCEPT !.left = Tail(@)])
               \/ Become(c, [job[c] EXCEPT !.left = Tail(@), !.acc = Indexed(job[c].acc, r)])
        BY <3>1, <3>4 DEF ParseKey
      <4>2. DOMAIN job[c] = {"pc", "doc", "left", "acc"}
        BY <1>0 DEF JobsInv, JobTyped
      <4>3. PICK j \in {[job[c] EXCEPT !.left = Tail(@)],
                        [job[c] EXCEPT !.left = Tail(@), !.acc = Indexed(job[c].acc, r)]} :
               Become(c, j)
        BY <4>1
      <4>4. j.pc = "parse"
        BY <3>1, <4>2, <4>3
      <4> QED
        BY <1>0, <1>00, <3>1, <4>1, <4>3, <4>4, OrderQuiet
    <3> QED
      BY <3>2, <3>3, <3>4
  <2>4. CASE ParseDone(c) /\ phase = "init"
    <3>1. /\ job[c].pc = "parse" /\ job[c].left = <<>> /\ ~IsEmpty(job[c].acc) /\ Install(c)
          /\ UNCHANGED <<input, outcome, exit, raced, refreshes>>
      BY <2>4 DEF ParseDone, bootVars
    <3>2. /\ jwks'[c] # None
          /\ \A d \in Contexts : jwks[d] # None => jwks'[d] # None
          /\ \A d \in Contexts : jwks'[d] = None \/ JwksTyped(jwks'[d])
          /\ \A d \in Contexts : (jwks'[d] = None) = (source'[d] = None)
      BY <3>1, InstalledIsThere
    <3>3. DOMAIN job' = Contexts /\ \A d \in Contexts : JobTyped(job'[d])
      BY <1>0 DEF JobsInv
    <3>4. input = None /\ outcome = None /\ exit = "none"
      BY <2>4 DEF OrderInv, TypeOK
    <3>5. CASE c = "vault"
      <4>1. job' = [job EXCEPT !["vault"] = Idle, !["admin"] = At("discovery")] /\ phase' = "init"
        BY <2>4, <3>5 DEF ParseDone
      <4>2. job'["vault"] = Idle /\ job'["admin"] = At("discovery")
        BY <1>0, <4>1 DEF JobsInv, Contexts
      <4>3. \E d \in Contexts : job'[Other(d)] = Idle
        BY <4>2 DEF Contexts, Other
      <4>4. TypeOK'
        BY <1>0, <1>00, <3>1, <3>2, <3>3, <3>4, <4>1, <4>2, <4>3 DEF TypeOK, Contexts
      <4>5. OrderInv'
        BY <3>1, <3>2, <3>4, <3>5, <4>1 DEF OrderInv
      <4> QED
        BY <4>4, <4>5
    <3>6. CASE c = "admin"
      <4>1. job' = [job EXCEPT ![c] = Idle] /\ phase' = "compare"
        BY <2>4, <3>6 DEF ParseDone, Become
      <4>2. job["admin"] # Idle /\ job["vault"] = Idle
        BY <1>00, <2>4, <3>1, <3>6 DEF TypeOK, Contexts, Other
      <4>3. \A d \in Contexts : job'[d] = Idle
        BY <1>0, <3>6, <4>1, <4>2 DEF JobsInv, Contexts
      <4>4. \A d \in Contexts : jwks'[d] # None
        BY <2>4, <3>2, <3>6, <4>2 DEF OrderInv, Contexts
      <4>5. TypeOK'
        BY <1>0, <1>00, <3>1, <3>2, <3>3, <3>4, <4>1, <4>3, <4>4 DEF TypeOK
      <4>6. OrderInv'
        BY <3>1, <3>4, <4>1, <4>3 DEF OrderInv
      <4> QED
        BY <4>5, <4>6
    <3> QED
      BY <3>5, <3>6 DEF Contexts
  <2>5. CASE (ParseDone(c) /\ phase = "serving") \/ CheckDisjoint(c)
    <3>1. /\ phase = "serving" /\ Running
          /\ UNCHANGED <<phase, exit, input, outcome, jwks, source, refreshes>>
      BY <2>5 DEF ParseDone, CheckDisjoint, Running, bootVars, cacheVars
    <3>2. raced' \in BOOLEAN
      BY <1>0, <2>5 DEF ParseDone, CheckDisjoint
    <3>3. DOMAIN job[c] = {"pc", "doc", "left", "acc"}
      BY <1>0 DEF JobsInv, JobTyped
    <3>4. \/ Become(c, [job[c] EXCEPT !.pc = "install"]) \/ Become(c, Idle)
          \/ Become(c, [job[c] EXCEPT !.pc = "store"])
      BY <2>5 DEF ParseDone, CheckDisjoint
    <3>5. PICK j : Become(c, j) /\ j.pc \in {"install", "store", "idle"}
      BY <1>00, <3>3, <3>4
    <3> QED
      BY <1>0, <3>1, <3>2, <3>5, OrderQuiet
  <2>6. CASE StoreJwks(c)
    <3>1. /\ job[c].pc = "store" /\ phase = "serving" /\ Install(c) /\ Become(c, Idle)
          /\ UNCHANGED <<phase, exit, input, outcome, raced, refreshes>>
      BY <2>6 DEF StoreJwks, bootVars
    <3>2. job[c].left = <<>> /\ ~IsEmpty(job[c].acc)
      BY <3>1 DEF CacheInv, JobParsed
    <3>3. /\ jwks'[c] # None
          /\ \A d \in Contexts : jwks[d] # None => jwks'[d] # None
          /\ \A d \in Contexts : jwks'[d] = None \/ JwksTyped(jwks'[d])
          /\ \A d \in Contexts : (jwks'[d] = None) = (source'[d] = None)
      BY <3>1, <3>2, InstalledIsThere
    <3>4. DOMAIN job' = Contexts /\ \A d \in Contexts : JobTyped(job'[d])
      BY <1>0 DEF JobsInv
    <3>5. \A d \in Contexts : job'[d] = Idle \/ job'[d] = job[d]
      BY <1>0, <3>1 DEF JobsInv, Become
    <3>6. TypeOK'
      BY <1>0, <1>00, <3>1, <3>3, <3>4, <3>5 DEF TypeOK
    <3>7. OrderInv'
      BY <3>1 DEF OrderInv
    <3> QED
      BY <3>6, <3>7
  <2> QED
    BY <1>5, <2>1, <2>2, <2>3, <2>4, <2>5, <2>6 DEF Local, Fetch, ParseDone
<1> QED
  BY <1>1, <1>2, <1>3, <1>4, <1>5 DEF Next, Boot

(* run fetches one thing at a time, and only it asks for discovery         *)
(* documents; from the comparison on, both contexts have a key set.        *)
THEOREM StartupTyped == Spec => []TypeOK
  BY OrderInit, OrderStep, KeyInvInit, KeyInvStep, CacheInvInit, CacheInvStep, PTL DEF Spec

=============================================================================
