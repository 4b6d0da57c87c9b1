------------------------------- MODULE Startup -------------------------------
(***************************************************************************)
(* From the configuration to the key sets: the part of app::run before the *)
(* storage is opened (server/src/app.rs), init_contexts with its fetches   *)
(* (auth/context.rs, discovery.rs, jwks.rs), and the same fetch and parse  *)
(* in the scheduled refresh tasks once the server runs.                    *)
(*                                                                         *)
(* A key set document is whatever the provider sends at the time.  The     *)
(* loop of parse_jwks takes one step per key.  JwksRefresh has the other   *)
(* side of refreshing, with clocks, limits and waiters, and takes a parsed *)
(* key set for granted; Lifecycle has the rest of run.                     *)
(***************************************************************************)
EXTENDS Configuration, JwksDocument

CONSTANTS
    Sources,     \* what environment and file may hold
    Documents,   \* what a provider may send
    MaxRefreshes \* bound on scheduled refreshes

ASSUME StartupAssumption ==
    /\ \A s \in Sources : IsSource(s)
    /\ Documents \subseteq Seq(RawKeys)
    /\ MaxRefreshes \in Nat

(* No source, result, document or key set that is there is None.           *)
ASSUME OptionAssumption ==
    /\ \A s \in Sources : s # None /\ load(s) # None
    /\ \A d \in Documents : d # None /\ Reference(d) # None

Contexts == {"vault", "admin"}

Other(c) == IF c = "vault" THEN "admin" ELSE "vault"

VARIABLES
    input,     \* environment and file, until they are loaded
    outcome,   \* what config::load returned, until the client is built
    phase,     \* where run is
    exit,      \* why the process ended
    job,       \* per context: its fetch, in run or in the scheduled task
    jwks,      \* per context: the cached key set
    source,    \* history, per context: the document of the cached key set
    raced,     \* history: both contexts were between check and store at once
    refreshes  \* scheduled refreshes so far

vars == <<input, outcome, phase, exit, job, jwks, source, raced, refreshes>>
bootVars == <<input, outcome>>
cacheVars == <<jwks, source>>

(* pc: where the fetch is; doc: the document received; left: the keys of   *)
(* it that the loop has not seen; acc: the indexes so far.                 *)
At(pc) == [pc |-> pc, doc |-> <<>>, left |-> <<>>, acc |-> EmptyJwks]

Idle == At("idle")

Init ==
    /\ input \in Sources
    /\ outcome = None
    /\ phase = "load"
    /\ exit = "none"
    /\ job = [c \in Contexts |-> Idle]
    /\ jwks = [c \in Contexts |-> None]
    /\ source = [c \in Contexts |-> None]
    /\ raced = FALSE
    /\ refreshes = 0

-----------------------------------------------------------------------------
(* run, up to init_contexts.                                               *)

(* config::load()?                                                         *)
LoadConfig ==
    /\ phase = "load"
    /\ LET result == load(input)
       IN  /\ outcome' = result
           /\ phase' = IF result.error = <<>> THEN "client" ELSE "exited"
           /\ exit' = IF result.error = <<>> THEN "none" ELSE "ConfigError"
    /\ UNCHANGED <<input, job, cacheVars, raced, refreshes>>

(* The HTTP client is built, with the extra CA if there is one, and        *)
(* init_contexts starts with the vault's discovery document.  From here on *)
(* the configuration only says whom to ask.                                *)
BuildClient ==
    /\ phase = "client"
    /\ phase' = "init"
    /\ job' = [job EXCEPT !["vault"] = At("discovery")]
    /\ input' = None /\ outcome' = None
    /\ UNCHANGED <<exit, cacheVars, raced, refreshes>>

(* load_optional_pem, the PEM parser or the client's builder fails.        *)
ClientFails ==
    /\ phase = "client"
    /\ phase' = "exited" /\ exit' = "Client"
    /\ input' = None /\ outcome' = None
    /\ UNCHANGED <<job, cacheVars, raced, refreshes>>

-----------------------------------------------------------------------------
(* Fetching, in init_single_context and in do_scheduled_refresh.           *)

Running == phase \in {"init", "serving"}

Become(c, j) == job' = [job EXCEPT ![c] = j]

(* An error ends the start, and leaves a scheduled task to its next tick.  *)
GiveUp(c, why) ==
    /\ Become(c, Idle)
    /\ IF phase = "init" THEN phase' = "exited" /\ exit' = why ELSE UNCHANGED <<phase, exit>>

(* fetch_discovery returns an https jwks_uri.                              *)
FetchDiscovery(c) ==
    /\ Running /\ job[c].pc = "discovery"
    /\ Become(c, At("fetch"))
    /\ UNCHANGED <<bootVars, phase, exit, cacheVars, raced, refreshes>>

(* fetch_jwks receives a document that serde_json accepts.                 *)
FetchJwks(c) ==
    /\ Running /\ job[c].pc = "fetch"
    /\ \E doc \in Documents :
          Become(c, [pc |-> "parse", doc |-> doc, left |-> doc, acc |-> EmptyJwks])
    /\ UNCHANGED <<bootVars, phase, exit, cacheVars, raced, refreshes>>

(* Mutant: the client has no timeout, and the provider never answers.      *)
MutFetchFails(c) ==
    /\ FALSE
    /\ UNCHANGED vars

(* The request fails, is answered badly or takes the client's 30 seconds.  *)
FetchFails(c) ==
    /\ Running /\ job[c].pc \in {"discovery", "fetch"}
    /\ GiveUp(c, IF job[c].pc = "discovery" THEN "DiscoveryFetch" ELSE "JwksFetch")
    /\ UNCHANGED <<bootVars, cacheVars, raced, refreshes>>

-----------------------------------------------------------------------------
(* parse_jwks.                                                             *)

(* The panic ends the process from run, and only the task from a task,     *)
(* which nobody joins: the context is never refreshed again.               *)
Panic(c) ==
    IF phase = "init" THEN /\ phase' = "exited" /\ exit' = "panic"
                           /\ Become(c, Idle)
    ELSE Become(c, At("dead")) /\ UNCHANGED <<phase, exit>>

ParseKey(c, r) ==
    \/ /\ ~Allowed(r)
       /\ Become(c, [job[c] EXCEPT !.left = Tail(@)])
       /\ UNCHANGED <<phase, exit>>
    \/ Panics(r) /\ Panic(c)
    \/ Fails(r) /\ GiveUp(c, "JwksFetch")
    \/ /\ Allowed(r) /\ ~Panics(r) /\ ~Fails(r)
       /\ Become(c, [job[c] EXCEPT !.left = Tail(@), !.acc = Indexed(job[c].acc, r)])
       /\ UNCHANGED <<phase, exit>>

ParseNext(c) ==
    /\ Running /\ job[c].pc = "parse"
    /\ job[c].left # <<>>
    /\ ParseKey(c, Head(job[c].left))
    /\ UNCHANGED <<bootVars, cacheVars, raced, refreshes>>

(* A set without keys is an error.                                         *)
ParseEmpty(c) ==
    /\ Running /\ job[c].pc = "parse"
    /\ job[c].left = <<>> /\ IsEmpty(job[c].acc)
    /\ GiveUp(c, "EmptyJwks")
    /\ UNCHANGED <<bootVars, cacheVars, raced, refreshes>>

Install(c) ==
    /\ jwks' = [jwks EXCEPT ![c] = job[c].acc]
    /\ source' = [source EXCEPT ![c] = job[c].doc]

(* At the start the new context has the key set, and admin follows vault;  *)
(* a task goes on to install_refreshed_jwks.                               *)
ParseDone(c) ==
    /\ Running /\ job[c].pc = "parse"
    /\ job[c].left = <<>> /\ ~IsEmpty(job[c].acc)
    /\ \/ /\ phase = "init"
          /\ Install(c)
          /\ IF c = "vault"
             THEN /\ job' = [job EXCEPT !["vault"] = Idle, !["admin"] = At("discovery")]
                  /\ UNCHANGED phase
             ELSE Become(c, Idle) /\ phase' = "compare"
       \/ /\ phase = "serving"
          /\ Become(c, [job[c] EXCEPT !.pc = "install"])
          /\ UNCHANGED <<phase, cacheVars>>
    /\ UNCHANGED <<bootVars, exit, raced, refreshes>>

-----------------------------------------------------------------------------
(* The overlap checks.                                                     *)

(* The end of init_contexts; the rest of run follows at once here.         *)
CompareContexts ==
    /\ phase = "compare"
    /\ IF Overlap(jwks["vault"], jwks["admin"])
       THEN phase' = "exited" /\ exit' = "JwksOverlap"
       ELSE phase' = "serving" /\ UNCHANGED exit
    /\ UNCHANGED <<bootVars, job, cacheVars, raced, refreshes>>

(* Mutant: the task asks for the discovery document again.                 *)
MutTick(c) ==
    /\ phase = "serving" /\ job[c].pc = "idle"
    /\ refreshes < MaxRefreshes
    /\ refreshes' = refreshes + 1
    /\ Become(c, At("discovery"))
    /\ UNCHANGED <<bootVars, phase, exit, cacheVars, raced>>

(* The interval of scheduled_refresh_task elapses; the jwks_uri is cached. *)
Tick(c) ==
    /\ phase = "serving" /\ job[c].pc = "idle"
    /\ refreshes < MaxRefreshes
    /\ refreshes' = refreshes + 1
    /\ Become(c, At("fetch"))
    /\ UNCHANGED <<bootVars, phase, exit, cacheVars, raced>>

(* install_refreshed_jwks loads the other context's set and compares, ...  *)
CheckDisjoint(c) ==
    /\ phase = "serving" /\ job[c].pc = "install"
    /\ IF Overlap(jwks[Other(c)], job[c].acc)
       THEN Become(c, Idle) /\ UNCHANGED raced
       ELSE /\ Become(c, [job[c] EXCEPT !.pc = "store"])
            /\ raced' = (raced \/ job[Other(c)].pc = "store")
    /\ UNCHANGED <<bootVars, phase, exit, cacheVars, refreshes>>

(* ... and stores.                                                         *)
StoreJwks(c) ==
    /\ phase = "serving" /\ job[c].pc = "store"
    /\ Install(c)
    /\ Become(c, Idle)
    /\ UNCHANGED <<bootVars, phase, exit, raced, refreshes>>

-----------------------------------------------------------------------------
Local(c) == ParseNext(c) \/ ParseEmpty(c) \/ ParseDone(c) \/ CheckDisjoint(c) \/ StoreJwks(c)

Fetch(c) == FetchDiscovery(c) \/ FetchJwks(c) \/ FetchFails(c)

Boot == LoadConfig \/ BuildClient \/ ClientFails \/ CompareContexts

Next == Boot \/ \E c \in Contexts : Local(c) \/ Fetch(c) \/ Tick(c)

Spec == Init /\ [][Next]_vars

(* The runtime runs what is ready, and a request ends within the client's  *)
(* timeout; a provider need not answer, and nothing need be refreshed.     *)
FairSpec ==
    /\ Spec
    /\ WF_vars(CompareContexts)
    /\ \A c \in Contexts : WF_vars(Local(c)) /\ WF_vars(FetchFails(c))

-----------------------------------------------------------------------------
JobTyped(j) ==
    /\ DOMAIN j = {"pc", "doc", "left", "acc"}
    /\ j.pc \in {"idle", "discovery", "fetch", "parse", "install", "store", "dead"}
    /\ j.doc \in Seq(RawKeys) /\ j.left \in Seq(RawKeys)
    /\ JwksTyped(j.acc)

(* The type invariant, with what each phase of run can find: discovery is  *)
(* fetched only by run, there is one fetch at a time until the server      *)
(* serves, and both key sets are there from the comparison on.             *)
TypeOK ==
    /\ (outcome = None) = (phase \notin {"client", "exited"} \/ input = None)
    /\ phase \in {"load", "client", "init", "compare", "serving", "exited"}
    /\ exit \in {"none", "ConfigError", "Client", "DiscoveryFetch", "JwksFetch", "EmptyJwks",
                 "panic", "JwksOverlap"}
    /\ (phase = "exited") = (exit # "none")
    /\ DOMAIN job = Contexts /\ \A c \in Contexts : JobTyped(job[c])
    /\ \A c \in Contexts : jwks[c] = None \/ JwksTyped(jwks[c])
    /\ \A c \in Contexts : (jwks[c] = None) = (source[c] = None)
    /\ phase \in {"compare", "serving"} => \A c \in Contexts : jwks[c] # None
    /\ \A c \in Contexts : job[c].pc = "discovery" => phase = "init"
    /\ phase = "init" => \E c \in Contexts : job[Other(c)] = Idle
    /\ raced \in BOOLEAN
    /\ refreshes \in 0..MaxRefreshes

(* The inductive invariant of TypeOK, with KeyInv and CacheInv: run has    *)
(* no fetch under way before and between the contexts, and starts admin's  *)
(* when vault's is done.                                                   *)
OrderInv ==
    /\ phase \in {"load", "client"} => input \in Sources
    /\ phase \in {"init", "compare", "serving"} => input = None
    /\ phase \in {"load", "client", "compare"} => \A c \in Contexts : job[c] = Idle
    /\ phase = "init" /\ job["admin"] # Idle => jwks["vault"] # None

(* It does not matter whether a setting is given in the environment or in  *)
(* the file: load returns what it would if every setting that the file     *)
(* decides were an APOK_* variable, also when a table is spread over both, *)
(* and errors name the same setting.  For an accepted configuration this   *)
(* is so without exception; one that is refused may be accepted from the   *)
(* environment if it is its trusted_proxies that cannot be joined.         *)
PlacementIrrelevant ==
    outcome # None /\ input.unicode /\ input.file \in {"unset", "parsed"}
        /\ (outcome.error = <<>> \/ Joinable(Get(input.partial, "top", "trusted_proxies")))
    => outcome = load(AllInEnv(input))

(* A configuration that validate accepts has positive durations and sizes, *)
(* a replay window that covers freshness and skew, whose sum dpop.rs can   *)
(* form without overflow, a capacity that fits, distinct audiences and an  *)
(* absolute root, whatever the widths of the integers.                     *)
AcceptedConfigIsSound ==
    outcome # None /\ outcome.error = <<>> => SoundConfig(outcome.config)

(* A cached key set is exactly that of one whole, acceptable document: no  *)
(* failure, refusal or interleaving leaves a part of one, a mixture or an  *)
(* empty set.                                                              *)
CacheIsOfOneDocument ==
    \A c \in Contexts :
        source[c] # None => /\ Acceptable(source[c])
                            /\ jwks[c] = Reference(source[c])

(* While the server runs, no key verifies tokens of both audiences, unless *)
(* two installs were once between check and store together: the check by   *)
(* thumbprint covers every key that lookup_candidates can return.          *)
NoSharedKeys ==
    phase = "serving" /\ ~raced => Usable(jwks["vault"]) \cap Usable(jwks["admin"]) = {}

(* The inductive invariant of NoSharedKeys.  Every key that a key set can  *)
(* return is among its thumbprints, ...                                    *)
Covered(j) ==
    /\ \A k \in DOMAIN j.by_kid : j.by_kid[k].thumbprint \in j.by_thumbprint
    /\ \A i \in DOMAIN j.keyless : j.keyless[i].thumbprint \in j.by_thumbprint

Whole(j) == JwksTyped(j) /\ Covered(j)

JobsInv ==
    /\ DOMAIN job = Contexts
    /\ \A c \in Contexts : JobTyped(job[c]) /\ Covered(job[c].acc)

(* ... the contexts get theirs one after the other, nobody installs before *)
(* the server serves, ...                                                  *)
BootInv ==
    /\ DOMAIN jwks = Contexts
    /\ phase \in {"load", "client"} => job["admin"].pc = "idle"
    /\ phase = "init" /\ job["admin"].pc # "idle" => Whole(jwks["vault"])
    /\ phase \in {"compare", "serving"} => \A c \in Contexts : Whole(jwks[c])
    /\ phase # "serving" => \A c \in Contexts : job[c].pc \notin {"install", "store"}

(* ... and a set that is about to be stored is apart from the other        *)
(* context's, which nobody is about to replace.                            *)
ApartInv ==
    phase = "serving" /\ ~raced =>
        /\ ~Overlap(jwks["vault"], jwks["admin"])
        /\ \A c \in Contexts : job[c].pc = "store" =>
              ~Overlap(jwks[Other(c)], job[c].acc) /\ job[Other(c)].pc # "store"

KeyInv == JobsInv /\ BootInv /\ ApartInv

(* The inductive invariant of CacheIsOfOneDocument: a job that parses has  *)
(* the key set of the keys it has seen and found good, and the rest of the *)
(* document before it; one that goes on to install has seen them all.      *)
ParsedUpTo(j, n) ==
    /\ Len(j.left) = Len(j.doc) - n
    /\ \A i \in 1..Len(j.left) : j.left[i] = j.doc[n + i]
    /\ \A i \in 1..n : ~Panics(j.doc[i]) /\ ~Fails(j.doc[i])
    /\ j.acc = ReferenceUpTo(j.doc, n)

JobParsed(j) ==
    /\ j.pc \in {"parse", "install", "store"} =>
          j.doc \in Documents /\ \E n \in 0..Len(j.doc) : ParsedUpTo(j, n)
    /\ j.pc \in {"install", "store"} => j.left = <<>> /\ ~IsEmpty(j.acc)

CacheInv ==
    /\ \A c \in Contexts : JobParsed(job[c])
    /\ DOMAIN source = Contexts
    /\ \A c \in Contexts : source[c] = None \/ source[c] \in Documents
    /\ CacheIsOfOneDocument

(* No document of a provider makes the server panic, as the comment at     *)
(* compute_thumbprint's last arm has it.                                   *)
NeverPanics == exit # "panic" /\ \A c \in Contexts : job[c].pc # "dead"

(* Once it asks the providers, the start ends in a running server or an    *)
(* exit, and a refresh in an install or a failure, also with providers     *)
(* that never answer.                                                      *)
FetchesEnd ==
    /\ phase = "init" ~> phase \in {"serving", "exited"}
    /\ \A c \in Contexts : job[c].pc = "fetch" ~> job[c].pc \in {"idle", "dead"}

=============================================================================
