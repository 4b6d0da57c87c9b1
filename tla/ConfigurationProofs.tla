------------------------- MODULE ConfigurationProofs -------------------------
(* What config::load promises, for every environment and file and for      *)
(* every width of the integers.                                            *)
EXTENDS Startup, WellFoundedInduction, TLAPS

LEMMA LeastElement ==
  ASSUME NEW T, T \subseteq Nat, T # {}
  PROVE  \E i \in T : \A j \in T : i <= j
<1> DEFINE Less == {z \in Nat \X Nat : z[1] < z[2]}
<1>1. IsWellFoundedOn(Less, Nat)
  BY NatLessThanWellFounded DEF OpToRel
<1>2. \A x, y \in Nat : y < x => <<y, x>> \in Less
  OBVIOUS
<1> HIDE DEF Less
<1>3. PICK x \in T : \A y \in T : ~(<<y, x>> \in Less)
  BY <1>1, WFMin
<1>4. \A y \in T : ~(y < x)
  BY <1>2, <1>3
<1>5. \A y \in T : x <= y
  BY <1>4
<1> QED
  BY <1>5

(* Validation that ends without an error has met none on its way.          *)
LEMMA NoFirstError ==
  ASSUME NEW errors, DOMAIN errors \subseteq Nat, FirstError(errors) = <<>>
  PROVE  \A i \in DOMAIN errors : errors[i] = <<>>
<1> DEFINE bad == {i \in DOMAIN errors : errors[i] # <<>>}
<1> SUFFICES ASSUME bad # {} PROVE FALSE
  OBVIOUS
<1>1. PICK i \in bad : \A j \in bad : i <= j
  BY LeastElement
<1>2. (CHOOSE k \in bad : \A j \in bad : k <= j) \in bad
  BY <1>1
<1> QED
  BY <1>2 DEF FirstError

LEMMA CheckPassed ==
  ASSUME NEW ok \in BOOLEAN, NEW error, NEW t, NEW k, Check(ok, error, t, k) = <<>>
  PROVE  ok
  BY DEF Check

-----------------------------------------------------------------------------
(* Merging keeps the types.                                                *)

LEMMA MergedTable ==
  ASSUME NEW t \in Tables, NEW e, NEW f,
         e = None \/ IsTable(t, e), f = None \/ IsTable(t, f)
  PROVE  MergeTable(e, f) = None \/ IsTable(t, MergeTable(e, f))
  BY DEF MergeTable, Or, IsTable

LEMMA MergedSource ==
  ASSUME NEW s, IsSource(s), NEW file, file = s.partial \/ file = EmptyPartial,
         NEW p, p = env_overrides_file(collect_env(s.env), file)
  PROVE  \A t \in Tables : p[t] = None \/ IsTable(t, p[t])
<1> SUFFICES ASSUME NEW t \in Tables PROVE p[t] = None \/ IsTable(t, p[t])
  OBVIOUS
<1>1. collect_env(s.env)[t] = None \/ IsTable(t, collect_env(s.env)[t])
  BY DEF collect_env, IsSource
<1>2. file[t] = None \/ IsTable(t, file[t])
  <2>1. CASE file = s.partial
    BY <2>1 DEF IsSource
  <2>2. CASE file = EmptyPartial /\ t = "top"
    <3>1. file[t] = [k \in KeysOf[t] |-> None]
      BY <2>2 DEF EmptyPartial
    <3> QED
      BY <3>1 DEF IsTable, IsSetting
  <2>3. CASE file = EmptyPartial /\ t # "top"
    BY <2>3 DEF EmptyPartial
  <2> QED
    BY <2>1, <2>2, <2>3
<1>3. p[t] = MergeTable(collect_env(s.env)[t], file[t])
  BY DEF env_overrides_file
<1> QED
  BY <1>1, <1>2, <1>3, MergedTable

-----------------------------------------------------------------------------
LEMMA NumberTyped ==
  ASSUME NEW k \in Numbers, NEW v, IsSetting(k, v), v # None
  PROVE  v \in NumberValues /\ v.n \in Int /\ v.form \in {"int", "text", "other"}
  BY DEF IsSetting, ValuesOf, NumberValues

(* A number that passed parse_positive_u64.                                *)
LEMMA NumberPassed ==
  ASSUME NEW v, NEW k \in Numbers, IsSetting(k, v), NEW error, NEW t,
         NumberError(v, error, t, k) = <<>>, NEW default \in 1..MaxU64
  PROVE  NumberOr(v, default) \in 1..MaxU64
<1>1. v = None \/ Positive(v)
  BY CheckPassed DEF NumberError
<1> QED
  BY <1>1, WidthAssumption DEF NumberOr, Positive, IsSetting, ValuesOf, NumberValues

LEMMA DefaultsFit ==
  /\ \A k \in AuthKeys : DefaultAuth[k] \in 1..MaxU64
  /\ DefaultAuth.max_replay_entries \in 1024..MaxUsize
  BY WidthAssumption DEF AuthKeys, AuthDurations, DefaultAuth

(* The part of SoundConfig about [auth].                                   *)
SoundAuth(a) ==
    /\ \A k \in AuthKeys : a[k] \in 1..MaxU64
    /\ a["dpop_freshness_secs"] + a["clock_skew_secs"] <= MaxU64
    /\ a["jti_replay_window_secs"] >= a["dpop_freshness_secs"] + a["clock_skew_secs"]
    /\ a["max_replay_entries"] \in 1024..MaxUsize

LEMMA DefaultAuthSound == SoundAuth(DefaultAuth)
<1>1. /\ DefaultAuth["dpop_freshness_secs"] = 30 /\ DefaultAuth["clock_skew_secs"] = 60
      /\ DefaultAuth["jti_replay_window_secs"] = 90
      /\ DefaultAuth["max_replay_entries"] = 100000
  BY DEF DefaultAuth
<1> QED
  BY <1>1, DefaultsFit, WidthAssumption DEF SoundAuth

(* parse_auth: each of its checks passed, so the sum of freshness and skew *)
(* is a u64 and the window covers it.                                      *)
LEMMA AuthPassed ==
  ASSUME NEW auth, IsTable("auth", auth), AuthError(auth) = <<>>
  PROVE  SoundAuth(AuthConfig(auth))
<1> DEFINE required == RequiredWindow(auth)
           entries == auth["max_replay_entries"]
           c == AuthConfig(auth)
           errors == <<DurationError(auth, "clock_skew_secs"),
                       DurationError(auth, "dpop_freshness_secs"),
                       DurationError(auth, "jwks_refresh_secs"),
                       DurationError(auth, "discovery_refresh_secs"),
                       DurationError(auth, "on_demand_refresh_min_interval_secs"),
                       Check(required # None, "AuthReplayWindowTooSmall", "auth", "overflow"),
                       DurationError(auth, "jti_replay_window_secs"),
                       Check(entries = None \/ (/\ Positive(entries) /\ entries.n >= 1024
                                                /\ entries.n <= MaxUsize),
                             "InvalidAuthMaxReplayEntries", "auth", "max_replay_entries"),
                       Check(required # None =>
                                NumberOr(auth["jti_replay_window_secs"], required) >= required,
                             "AuthReplayWindowTooSmall", "auth", "jti_replay_window_secs")>>
<1>1. \A i \in 1..9 : errors[i] = <<>>
  <2>1. FirstError(errors) = <<>>
    BY DEF AuthError
  <2>2. DOMAIN errors = 1..9
    OBVIOUS
  <2> HIDE DEF errors
  <2> QED
    BY <2>1, <2>2, NoFirstError
<1>2. /\ \A k \in AuthDurations \cup {"jti_replay_window_secs"} : DurationError(auth, k) = <<>>
      /\ Check(required # None, "AuthReplayWindowTooSmall", "auth", "overflow") = <<>>
      /\ Check(entries = None \/ (/\ Positive(entries) /\ entries.n >= 1024
                                  /\ entries.n <= MaxUsize),
               "InvalidAuthMaxReplayEntries", "auth", "max_replay_entries") = <<>>
      /\ Check(required # None =>
                  NumberOr(auth["jti_replay_window_secs"], required) >= required,
               "AuthReplayWindowTooSmall", "auth", "jti_replay_window_secs") = <<>>
  <2> HIDE DEF required, entries
  <2>1. /\ errors[1] = <<>> /\ errors[2] = <<>> /\ errors[3] = <<>> /\ errors[4] = <<>>
        /\ errors[5] = <<>> /\ errors[6] = <<>> /\ errors[7] = <<>> /\ errors[8] = <<>>
        /\ errors[9] = <<>>
    <3> HIDE DEF errors
    <3> QED
      BY <1>1
  <2> QED
    BY <2>1 DEF AuthDurations
<1> HIDE DEF errors
<1> HIDE DEF required, entries
<1>3. /\ required # None
      /\ entries = None \/ (/\ Positive(entries) /\ entries.n >= 1024 /\ entries.n <= MaxUsize)
      /\ NumberOr(auth["jti_replay_window_secs"], required) >= required
  BY <1>2, CheckPassed
<1>4. \A k \in AuthKeys : k \in Numbers /\ IsSetting(k, auth[k])
  BY DEF IsTable, KeysOf, Numbers
<1>5. \A k \in AuthDurations : c[k] \in 1..MaxU64 /\ c[k] = NumberOr(auth[k], DefaultAuth[k])
  <2> SUFFICES ASSUME NEW k \in AuthDurations
               PROVE  c[k] \in 1..MaxU64 /\ c[k] = NumberOr(auth[k], DefaultAuth[k])
    OBVIOUS
  <2>1. k \in AuthKeys /\ k # "jti_replay_window_secs"
    BY DEF AuthKeys, AuthDurations
  <2>2. c[k] = NumberOr(auth[k], DefaultAuth[k])
    BY <2>1 DEF AuthConfig
  <2>3. NumberError(auth[k], "InvalidAuthDurationSecs", "auth", k) = <<>>
    BY <1>2 DEF DurationError
  <2> QED
    BY <1>4, <2>1, <2>2, <2>3, NumberPassed, DefaultsFit
<1> DEFINE freshness == c["dpop_freshness_secs"]
           skew == c["clock_skew_secs"]
<1>6. freshness \in 1..MaxU64 /\ skew \in 1..MaxU64 /\ required = CheckedAdd(freshness, skew)
  <2>1. /\ freshness = NumberOr(auth["dpop_freshness_secs"], DefaultAuth["dpop_freshness_secs"])
        /\ skew = NumberOr(auth["clock_skew_secs"], DefaultAuth["clock_skew_secs"])
        /\ freshness \in 1..MaxU64 /\ skew \in 1..MaxU64
    BY <1>5 DEF AuthDurations
  <2> QED
    BY <2>1 DEF RequiredWindow, required
<1> HIDE DEF freshness, skew
<1>7. freshness + skew <= MaxU64 /\ required = freshness + skew /\ required \in 1..MaxU64
  <2>1. CASE freshness + skew <= MaxU64
    <3>1. required = freshness + skew
      BY <1>6, <2>1 DEF CheckedAdd
    <3> QED
      BY <1>6, <2>1, <3>1, WidthAssumption
  <2>2. CASE ~(freshness + skew <= MaxU64)
    BY <1>3, <1>6, <2>2 DEF CheckedAdd
  <2> QED
    BY <2>1, <2>2
<1>8. /\ c["jti_replay_window_secs"] = NumberOr(auth["jti_replay_window_secs"], required)
      /\ c["jti_replay_window_secs"] \in 1..MaxU64
      /\ c["jti_replay_window_secs"] >= freshness + skew
  <2>1. "jti_replay_window_secs" \in AuthKeys
    BY DEF AuthKeys
  <2>2. c["jti_replay_window_secs"] = NumberOr(auth["jti_replay_window_secs"], required)
    BY <2>1 DEF AuthConfig, required
  <2>3. NumberError(auth["jti_replay_window_secs"], "InvalidAuthDurationSecs", "auth",
                    "jti_replay_window_secs") = <<>>
    BY <1>2 DEF DurationError
  <2>4. NumberOr(auth["jti_replay_window_secs"], required) \in 1..MaxU64
    BY <1>4, <1>7, <2>1, <2>3, NumberPassed
  <2> QED
    BY <1>3, <1>7, <2>2, <2>4
<1>9. c["max_replay_entries"] \in 1024..MaxUsize
  <2>1. "max_replay_entries" \in AuthKeys
    BY DEF AuthKeys
  <2>2. c["max_replay_entries"] = NumberOr(entries, DefaultAuth["max_replay_entries"])
    BY <2>1 DEF AuthConfig, entries
  <2>3. CASE entries = None
    BY <2>2, <2>3, DefaultsFit DEF NumberOr
  <2>4. CASE entries # None
    <3>1. entries.n \in Int
      BY <1>4, <2>1, <2>4, NumberTyped DEF entries
    <3> QED
      BY <1>3, <2>2, <2>4, <3>1, WidthAssumption DEF NumberOr
  <2> QED
    BY <2>3, <2>4
<1>10. \A k \in AuthKeys : c[k] \in 1..MaxU64
  BY <1>5, <1>8, <1>9, WidthAssumption DEF AuthKeys
<1> QED
  BY <1>7, <1>8, <1>9, <1>10 DEF SoundAuth, freshness, skew

-----------------------------------------------------------------------------
(* validate.                                                               *)

LEMMA StoragePassed ==
  ASSUME NEW backend, NEW root, IsSetting("root", root), StorageError(backend, root) = <<>>
  PROVE  backend = "local_fs" => root = "absolute"
<1> DEFINE errors == <<Check(backend # None, "Missing", "top", "storage_backend"),
                       Check(backend # "junk", "InvalidStorageBackend", "top",
                             "storage_backend"),
                       Check(backend = "local_fs" => root # None,
                             "LocalFsRootMissing", "local_fs", "root"),
                       Check(backend = "local_fs" => root # "relative",
                             "LocalFsRootNotAbsolute", "local_fs", "root")>>
<1>1. errors[3] = <<>> /\ errors[4] = <<>>
  <2>1. FirstError(errors) = <<>> /\ DOMAIN errors = 1..4
    BY DEF StorageError
  <2> HIDE DEF errors
  <2> QED
    BY <2>1, NoFirstError
<1>2. (backend = "local_fs" => root # None) /\ (backend = "local_fs" => root # "relative")
  BY <1>1, CheckPassed
<1> QED
  BY <1>2 DEF IsSetting

LEMMA ListenPassed ==
  ASSUME NEW bind, NEW size, IsSetting("block_size_bytes", size), ListenError(bind, size) = <<>>
  PROVE  size.n \in 1..MaxU64
<1> DEFINE errors == <<Check(bind # None, "Missing", "top", "bind_address"),
                       Check(bind # "junk", "InvalidBindAddress", "top", "bind_address"),
                       NumberError(size, "InvalidBlockSize", "top", "block_size_bytes"),
                       Check(size # None, "Missing", "top", "block_size_bytes")>>
<1>1. errors[3] = <<>> /\ errors[4] = <<>>
  <2>1. FirstError(errors) = <<>> /\ DOMAIN errors = 1..4
    BY DEF ListenError
  <2> HIDE DEF errors
  <2> QED
    BY <2>1, NoFirstError
<1>2. size # None /\ NumberError(size, "InvalidBlockSize", "top", "block_size_bytes") = <<>>
  BY <1>1, CheckPassed
<1>3. NumberOr(size, 1) \in 1..MaxU64
  BY <1>2, NumberPassed, WidthAssumption DEF Numbers
<1> QED
  BY <1>2, <1>3 DEF NumberOr

LEMMA GetTyped ==
  ASSUME NEW p, NEW t \in Tables, p[t] = None \/ IsTable(t, p[t]), NEW k \in KeysOf[t]
  PROVE  IsSetting(k, Get(p, t, k))
  BY DEF Get, IsTable, IsSetting

LEMMA ValidateSound ==
  ASSUME NEW p, \A t \in Tables : p[t] = None \/ IsTable(t, p[t]), ConfigError(p) = <<>>
  PROVE  SoundConfig(ServerConfig(p))
<1> DEFINE listen == ListenError(Get(p, "top", "bind_address"), Get(p, "top", "block_size_bytes"))
           storage == StorageError(Get(p, "top", "storage_backend"), Get(p, "local_fs", "root"))
           drain == NumberError(Get(p, "top", "drain_timeout_secs"), "InvalidDrainTimeout",
                                "top", "drain_timeout_secs")
           apart == Check(Get(p, "vault_oidc", "audience") # Get(p, "admin_oidc", "audience"),
                          "DuplicateAudience", "admin_oidc", "audience")
           auth == IF p["auth"] = None THEN <<>> ELSE AuthError(p["auth"])
           proxies == ProxiesError(Get(p, "top", "trusted_proxies"))
           vault == OidcError("vault_oidc", Get(p, "vault_oidc", "issuer_url"),
                              Get(p, "vault_oidc", "audience"))
           admin == OidcError("admin_oidc", Get(p, "admin_oidc", "issuer_url"),
                              Get(p, "admin_oidc", "audience"))
           errors == <<listen, storage, proxies, drain, vault, admin, apart, auth>>
           c == ServerConfig(p)
<1>1. /\ listen = <<>> /\ storage = <<>> /\ drain = <<>> /\ apart = <<>> /\ auth = <<>>
  <2>1. FirstError(errors) = <<>>
    BY DEF ConfigError
  <2> HIDE DEF listen, storage, proxies, drain, vault, admin, apart, auth
  <2>2. DOMAIN errors = 1..8
    OBVIOUS
  <2>3. /\ errors[1] = <<>> /\ errors[2] = <<>> /\ errors[4] = <<>> /\ errors[7] = <<>>
        /\ errors[8] = <<>>
    <3> HIDE DEF errors
    <3> QED
      BY <2>1, <2>2, NoFirstError
  <2> QED
    BY <2>3
<1> HIDE DEF errors
<1>2. /\ {"top", "local_fs", "auth"} \subseteq Tables
      /\ "root" \in KeysOf["local_fs"]
      /\ {"block_size_bytes", "drain_timeout_secs"} \subseteq KeysOf["top"]
  BY DEF Tables, KeysOf
<1>3. c.block_size_bytes \in 1..MaxU64
  <2>1. IsSetting("block_size_bytes", Get(p, "top", "block_size_bytes"))
    BY <1>2, GetTyped
  <2> QED
    BY <1>1, <2>1, ListenPassed DEF ServerConfig
<1>4. c.drain_timeout \in 1..MaxU64
  <2>1. IsSetting("drain_timeout_secs", Get(p, "top", "drain_timeout_secs"))
    BY <1>2, GetTyped
  <2>2. NumberOr(Get(p, "top", "drain_timeout_secs"), 30) \in 1..MaxU64
    BY <1>1, <2>1, NumberPassed, WidthAssumption DEF Numbers
  <2> QED
    BY <2>2 DEF ServerConfig
<1>5. c.storage_backend = "local_fs" => c.root = "absolute"
  <2>1. IsSetting("root", Get(p, "local_fs", "root"))
    BY <1>2, GetTyped
  <2> QED
    BY <1>1, <2>1, StoragePassed DEF ServerConfig
<1>6. c.vault_oidc["audience"] # c.admin_oidc["audience"]
  <2>1. Get(p, "vault_oidc", "audience") # Get(p, "admin_oidc", "audience")
    BY <1>1, CheckPassed
  <2> QED
    BY <2>1 DEF ServerConfig, KeysOf
<1>7. SoundAuth(c.auth)
  <2>1. CASE p["auth"] = None
    BY <2>1, DefaultAuthSound DEF ServerConfig
  <2>2. CASE p["auth"] # None
    <3>1. SoundAuth(AuthConfig(p["auth"]))
      BY <1>1, <1>2, <2>2, AuthPassed
    <3> QED
      BY <2>2, <3>1 DEF ServerConfig
  <2> QED
    BY <2>1, <2>2
<1> HIDE DEF c
<1>8. SoundConfig(c)
  BY <1>3, <1>4, <1>5, <1>6, <1>7 DEF SoundConfig, SoundAuth
<1> QED
  BY <1>8 DEF c

LEMMA LoadSound ==
  ASSUME NEW s, IsSource(s), load(s).error = <<>>
  PROVE  SoundConfig(load(s).config)
<1> DEFINE file == IF s.file = "parsed" THEN s.partial ELSE EmptyPartial
           p == env_overrides_file(collect_env(s.env), file)
<1>1. CASE s.unicode /\ s.file \in {"unset", "parsed"}
  <2>1. load(s) = validate(p)
    BY <1>1 DEF load
  <2>2. \A t \in Tables : p[t] = None \/ IsTable(t, p[t])
    BY MergedSource
  <2> HIDE DEF p
  <2>3. ConfigError(p) = <<>> /\ load(s).config = ServerConfig(p)
    BY <2>1 DEF validate
  <2> QED
    BY <2>2, <2>3, ValidateSound
<1>2. CASE ~s.unicode \/ s.file \in {"unreadable", "malformed"}
  BY <1>2 DEF load, Refused, IsSource
<1> QED
  BY <1>1, <1>2 DEF IsSource

(* Once the client is built, neither sources nor result are touched.       *)
LEMMA SourcesAreKept ==
  ASSUME UNCHANGED vars \/ CompareContexts \/ \E c \in Contexts : Local(c) \/ Fetch(c) \/ Tick(c)
  PROVE  UNCHANGED <<input, outcome>> /\ (phase' = "load" => phase = "load")
<1>1. UNCHANGED <<input, outcome>>
  BY DEF vars, bootVars, CompareContexts, Local, Fetch, Tick, ParseNext, ParseEmpty,
     ParseDone, CheckDisjoint, StoreJwks, FetchDiscovery, FetchJwks, FetchFails
<1>2. phase' = "load" => phase = "load"
  BY DEF vars, CompareContexts, Local, Fetch, Tick, ParseNext, ParseKey, Panic, GiveUp,
     ParseEmpty, ParseDone, CheckDisjoint, StoreJwks, FetchDiscovery, FetchJwks, FetchFails
<1> QED
  BY <1>1, <1>2

(* Every configuration with which the server goes on to ask its providers  *)
(* is sound, for all widths: validate.rs needs no more than its checks to  *)
(* keep freshness + skew from overflowing and the window above it.         *)
THEOREM AcceptedIsSound == Spec => []AcceptedConfigIsSound
<1> DEFINE Inv == /\ phase = "load" => input \in Sources
                  /\ outcome = None \/ (outcome.error = <<>> => SoundConfig(outcome.config))
<1>1. Init => Inv
  BY DEF Init
<1>2. Inv /\ [Next]_vars => Inv'
  <2> SUFFICES ASSUME Inv, [Next]_vars PROVE Inv'
    OBVIOUS
  <2>1. CASE LoadConfig
    <3>1. load(input).error = <<>> => SoundConfig(load(input).config)
      BY <2>1, LoadSound, StartupAssumption DEF LoadConfig
    <3>2. outcome' = load(input) /\ phase' # "load"
      BY <2>1 DEF LoadConfig
    <3> QED
      BY <3>1, <3>2
  <2>2. CASE BuildClient \/ ClientFails
    BY <2>2 DEF BuildClient, ClientFails
  <2>3. CASE UNCHANGED vars \/ CompareContexts \/ \E c \in Contexts : Local(c) \/ Fetch(c) \/ Tick(c)
    BY <2>3, SourcesAreKept
  <2> QED
    BY <2>1, <2>2, <2>3 DEF Next, Boot
<1>3. Inv => AcceptedConfigIsSound
  BY DEF AcceptedConfigIsSound
<1> QED
  BY <1>1, <1>2, <1>3, PTL DEF Spec

-----------------------------------------------------------------------------
(* Where a setting is given.                                               *)

(* Two validations with the same checks up to the first that fails.        *)
LEMMA SameFirstError ==
  ASSUME NEW e, NEW f, DOMAIN e \subseteq Nat, DOMAIN f = DOMAIN e,
         \A i \in DOMAIN e : (\A j \in DOMAIN e : j < i => e[j] = <<>>) => f[i] = e[i]
  PROVE  FirstError(e) = FirstError(f)
<1> DEFINE B(g) == {i \in DOMAIN g : g[i] # <<>>}
           First(S) == CHOOSE i \in S : \A j \in S : i <= j
<1>1. CASE B(e) = {}
  <2>1. \A i \in DOMAIN e : e[i] = <<>>
    BY <1>1
  <2>2. B(f) = {}
    BY <2>1
  <2> QED
    BY <1>1, <2>2 DEF FirstError
<1>2. CASE B(e) # {}
  <2>1. PICK i \in B(e) : \A j \in B(e) : i <= j
    BY <1>2, LeastElement
  <2>2. \A j \in DOMAIN e : j < i => e[j] = <<>> /\ f[j] = <<>>
    <3> SUFFICES ASSUME NEW j \in DOMAIN e, j < i PROVE e[j] = <<>> /\ f[j] = <<>>
      OBVIOUS
    <3>1. \A k \in DOMAIN e : k <= j => e[k] = <<>>
      BY <2>1
    <3> QED
      BY <3>1
  <2>3. f[i] = e[i] /\ i \in B(f)
    BY <2>1, <2>2
  <2>4. \A j \in B(f) : i <= j
    BY <2>1, <2>2
  <2>5. First(B(e)) = i /\ First(B(f)) = i
    <3>1. B(e) \subseteq Nat /\ B(f) \subseteq Nat
      OBVIOUS
    <3>2. \A k \in B(e) : (\A j \in B(e) : k <= j) <=> k = i
      BY <2>1, <3>1
    <3>3. \A k \in B(f) : (\A j \in B(f) : k <= j) <=> k = i
      BY <2>3, <2>4, <3>1
    <3> QED
      BY <2>1, <2>3, <3>2, <3>3
  <2>6. FirstError(e) = e[First(B(e))] /\ FirstError(f) = f[First(B(f))]
    BY <1>2, <2>3 DEF FirstError
  <2> QED
    BY <2>3, <2>5, <2>6
<1> QED
  BY <1>1, <1>2

(* A table that is there is not None, and neither is a setting.            *)
LEMMA TableIsThere ==
  ASSUME NEW t \in Tables, NEW p, IsTable(t, p)
  PROVE  p # None /\ DOMAIN p = KeysOf[t]
<1> DEFINE Values == NumberValues \cup ProxyLists \cup STRING \cup {None}
<1>1. \A k \in KeysOf[t] : p[k] \in Values
  BY DEF IsTable, IsSetting, ValuesOf
<1>2. p \in [KeysOf[t] -> Values]
  BY <1>1 DEF IsTable
<1> QED
  BY <1>2, NoneAssumption DEF IsTable

(* A list of proxies holds strings, each of one part at least.             *)
LEMMA ListTyped ==
  ASSUME NEW v \in ProxyLists
  PROVE  /\ v.form \in {"list", "csv"}
         /\ v.form = "list" => v.texts \in Seq(Texts)
         /\ v.form = "csv" => v.text \in Texts
  BY DEF ProxyLists

LEMMA JoinedTyped ==
  ASSUME NEW texts \in Seq(Texts)
  PROVE  Joined(texts) \in Texts
<1>1. CASE texts = <<>>
  BY <1>1 DEF Joined, Texts, Parts
<1>2. CASE texts # <<>>
  <2> DEFINE j == [i \in 1..Len(texts) |-> texts[i][1]]
  <2>1. Joined(texts) = j /\ Len(texts) \in Nat /\ Len(texts) # 0
    BY <1>2 DEF Joined
  <2>2. \A i \in 1..Len(texts) : texts[i] \in Seq(Parts) /\ texts[i] # <<>>
    BY DEF Texts
  <2>3. \A i \in 1..Len(texts) : texts[i][1] \in Parts
    BY <2>2
  <2>4. j \in Seq(Parts) /\ Len(j) = Len(texts)
    BY <2>1, <2>3
  <2> QED
    BY <2>1, <2>4 DEF Texts
<1> QED
  BY <1>1, <1>2

LEMMA AsTextTyped ==
  ASSUME NEW k, NEW v, IsSetting(k, v)
  PROVE  IsSetting(k, AsText(k, v)) /\ (AsText(k, v) = None <=> v = None)
<1>1. CASE v = None
  BY <1>1 DEF AsText, IsSetting
<1>2. CASE v # None /\ k \in Numbers
  <2>0. k \notin {"root", "trusted_proxies"}
    BY <1>2 DEF Numbers, AuthKeys, AuthDurations
  <2>1. AsText(k, v) = NumberAsText(v)
    BY <1>2, <2>0 DEF AsText
  <2>2. AsText(k, v) \in NumberValues /\ AsText(k, v).form = "text"
    BY <1>2, <2>1, NumberTyped DEF NumberAsText, NumberValues
  <2> QED
    BY <1>2, <2>0, <2>2, NoneAssumption DEF IsSetting, ValuesOf
<1>3. CASE v # None /\ k \notin Numbers /\ k = "trusted_proxies"
  <2>1. v \in ProxyLists
    BY <1>3 DEF IsSetting, ValuesOf
  <2>2. CASE v.form = "list" /\ Joinable(v)
    <3>1. AsText(k, v) = [form |-> "csv", text |-> Joined(v.texts)]
      BY <1>3, <2>2 DEF AsText
    <3>2. Joined(v.texts) \in Texts
      BY <2>1, <2>2, ListTyped, JoinedTyped
    <3>3. AsText(k, v) \in ProxyLists
      BY <3>1, <3>2 DEF ProxyLists
    <3> QED
      BY <1>3, <3>3, NoneAssumption DEF IsSetting, ValuesOf
  <2>3. CASE ~(v.form = "list" /\ Joinable(v))
    BY <1>3, <2>3 DEF AsText
  <2> QED
    BY <2>2, <2>3
<1>4. CASE v # None /\ k \notin Numbers /\ k # "trusted_proxies"
  BY <1>4 DEF AsText
<1> QED
  BY <1>1, <1>2, <1>3, <1>4

(* What env_overrides_file makes of a setting.                             *)
Merged(s) == env_overrides_file(collect_env(s.env), s.partial)

LEMMA MergedGet ==
  ASSUME NEW s, IsSource(s), NEW t \in Tables, NEW k \in KeysOf[t]
  PROVE  Get(Merged(s), t, k) = Or(s.env[t][k], Get(s.partial, t, k))
<1> DEFINE e == s.env[t]
           f == s.partial[t]
           m == Merged(s)[t]
<1>1. IsTable(t, e) /\ (f = None \/ IsTable(t, f))
  BY DEF IsSource
<1>2. m = MergeTable(collect_env(s.env)[t], f)
  BY DEF Merged, env_overrides_file
<1>3. CASE collect_env(s.env)[t] = None
  <2>1. e[k] = None
    BY <1>1, <1>3, TableIsThere DEF collect_env
  <2>2. m = f
    BY <1>2, <1>3 DEF MergeTable, Or
  <2> QED
    BY <2>1, <2>2 DEF Get, Or
<1>4. CASE collect_env(s.env)[t] # None
  <2>1. collect_env(s.env)[t] = e
    BY <1>4 DEF collect_env
  <2>2. e # None /\ DOMAIN e = KeysOf[t]
    BY <1>1, TableIsThere
  <2>3. CASE f = None
    <3>1. m = e
      BY <1>2, <2>1, <2>2, <2>3 DEF MergeTable, Or
    <3> QED
      BY <2>2, <2>3, <3>1 DEF Get, Or
  <2>4. CASE f # None
    <3>1. m = [i \in KeysOf[t] |-> Or(e[i], f[i])]
      BY <1>2, <2>1, <2>2, <2>4 DEF MergeTable
    <3>2. IsTable(t, m)
      BY <1>1, <2>4, <3>1 DEF IsTable, Or
    <3>3. m # None
      BY <3>2, TableIsThere
    <3> QED
      BY <2>4, <3>1, <3>3 DEF Get
  <2> QED
    BY <2>3, <2>4
<1> QED
  BY <1>3, <1>4

LEMMA AllInEnvTyped ==
  ASSUME NEW s, IsSource(s)
  PROVE  /\ IsSource(AllInEnv(s))
         /\ \A t \in Tables : \A k \in KeysOf[t] :
               Get(Merged(AllInEnv(s)), t, k) = Or(s.env[t][k], AsText(k, Get(s.partial, t, k)))
<1> DEFINE a == AllInEnv(s)
<1>1. ASSUME NEW t \in Tables, NEW k \in KeysOf[t]
      PROVE  /\ a.env[t][k] = Or(s.env[t][k], AsText(k, Get(s.partial, t, k)))
             /\ IsSetting(k, a.env[t][k])
  <2>1. IsSetting(k, Get(s.partial, t, k)) /\ IsSetting(k, s.env[t][k])
    BY GetTyped DEF IsSource, IsTable
  <2>2. a.env[t][k] = Or(s.env[t][k], AsText(k, Get(s.partial, t, k)))
    BY DEF AllInEnv
  <2> QED
    BY <2>1, <2>2, AsTextTyped DEF Or
<1>2. ASSUME NEW t \in Tables PROVE IsTable(t, a.env[t])
  <2>1. a.env[t] = [k \in KeysOf[t] |-> a.env[t][k]]
    BY DEF AllInEnv
  <2> QED
    BY <1>1, <2>1 DEF IsTable
<1>3. a.unicode = s.unicode /\ a.file = "unset" /\ a.partial = EmptyPartial
  BY DEF AllInEnv
<1>4. ASSUME NEW t \in Tables PROVE a.partial[t] = None \/ IsTable(t, a.partial[t])
  <2>1. CASE t = "top"
    <3>1. a.partial[t] = [k \in KeysOf[t] |-> None]
      BY <1>3, <2>1 DEF EmptyPartial
    <3> QED
      BY <3>1 DEF IsTable, IsSetting
  <2>2. CASE t # "top"
    BY <1>3, <2>2 DEF EmptyPartial
  <2> QED
    BY <2>1, <2>2
<1>5. IsSource(a)
  <2> HIDE DEF a
  <2> QED
    BY <1>2, <1>3, <1>4 DEF IsSource
<1>6. ASSUME NEW t \in Tables, NEW k \in KeysOf[t] PROVE Get(a.partial, t, k) = None
  BY <1>3 DEF Get, EmptyPartial
<1>7. ASSUME NEW t \in Tables, NEW k \in KeysOf[t] PROVE Get(Merged(a), t, k) = a.env[t][k]
  BY <1>5, <1>6, MergedGet DEF Or
<1> QED
  BY <1>1, <1>5, <1>7

(* A number says the same as text, as far as parse_positive_u64 can tell.  *)
LEMMA NumberAgrees ==
  ASSUME NEW k \in Numbers, NEW v, IsSetting(k, v), NEW w, w = v \/ w = AsText(k, v)
  PROVE  /\ w = None <=> v = None
         /\ v # None => (Positive(w) <=> Positive(v))
         /\ \A error, t : NumberError(w, error, t, k) = NumberError(v, error, t, k)
         /\ v = None \/ Positive(v) => \A d : NumberOr(w, d) = NumberOr(v, d)
         /\ v # None /\ Positive(v) => w.n = v.n
<1>1. w = None <=> v = None
  BY AsTextTyped
<1>2. CASE w = v
  BY <1>2
<1>3. CASE w # v
  <2>1. v # None /\ k # "trusted_proxies" /\ w = AsText(k, v)
    BY <1>1, <1>3 DEF AsText, Numbers, AuthKeys, AuthDurations
  <2>2. w = NumberAsText(v)
    BY <2>1 DEF AsText
  <2>3. w.form = "text" /\ w.n = IF v.form = "other" THEN -1 ELSE v.n
    BY <2>2 DEF NumberAsText
  <2>4. v.n \in Int /\ v.form \in {"int", "text", "other"} /\ (v.form = "int" => v.n <= MaxI64)
    BY <2>1, NumberTyped DEF IsSetting
  <2>5. (Positive(w) <=> Positive(v)) /\ (Positive(v) => w.n = v.n)
    BY <2>3, <2>4, WidthAssumption DEF Positive
  <2>6. (w = None \/ Positive(w)) = (v = None \/ Positive(v))
    BY <1>1, <2>5
  <2> QED
    BY <1>1, <2>1, <2>5, <2>6 DEF NumberError, NumberOr
<1> QED
  BY <1>2, <1>3

(* A list of proxies that can be joined says the same as a string: as many *)
(* entries, and all of them networks in the one case if in the other.      *)
LEMMA ProxiesAgree ==
  ASSUME NEW v, IsSetting("trusted_proxies", v), NEW w,
         w = v \/ (w = AsText("trusted_proxies", v) /\ Joinable(v))
  PROVE  /\ ProxiesError(w) = ProxiesError(v)
         /\ v # None => Len(ProxyEntries(w)) = Len(ProxyEntries(v))
<1>1. CASE w = v
  BY <1>1
<1>2. CASE w # v
  <2> DEFINE texts == v.texts
             n == Len(texts)
  <2>0. "trusted_proxies" \notin Numbers
    BY DEF Numbers, AuthKeys, AuthDurations
  <2>1. v # None /\ w # None /\ Joinable(v)
    BY <1>2, AsTextTyped DEF AsText
  <2>2. v \in ProxyLists
    BY <2>0, <2>1 DEF IsSetting, ValuesOf
  <2>3. v.form = "list" /\ w = [form |-> "csv", text |-> Joined(texts)]
    BY <1>2, <2>0, <2>1 DEF AsText
  <2>4. /\ texts \in Seq(Texts) /\ texts # <<<<"empty">>>> /\ n \in Nat
        /\ \A i \in 1..n : /\ texts[i] \in Seq(Parts) /\ Len(texts[i]) = 1
                            /\ texts[i] # <<"padded">>
    BY <2>1, <2>2, <2>3, ListTyped DEF Joinable, Texts
  <2>5. \A i \in 1..n : texts[i] = <<texts[i][1]>> /\ texts[i][1] \in Parts \ {"padded"}
    BY <2>4
  <2>6. ProxyEntries(v) = texts
    BY <2>3 DEF ProxyEntries
  <2> HIDE DEF texts, n
  <2>7. CASE texts = <<>>
    <3>1. ProxyEntries(w) = <<>>
      BY <2>3, <2>7 DEF ProxyEntries, Joined
    <3>2. AllNetworks(w) = AllNetworks(v)
      BY <2>6, <2>7, <3>1 DEF AllNetworks
    <3> QED
      BY <2>1, <2>6, <2>7, <3>1, <3>2 DEF ProxiesError
  <2>8. CASE texts # <<>>
    <3> DEFINE j == [i \in 1..n |-> texts[i][1]]
    <3>1. Joined(texts) = j /\ n > 0
      BY <2>4, <2>8 DEF Joined, n
    <3>2. j # <<"empty">>
      <4> SUFFICES ASSUME j = <<"empty">> PROVE FALSE
        OBVIOUS
      <4>1. n = 1 /\ j[1] = "empty"
        <5>1. DOMAIN j = 1..n /\ DOMAIN <<"empty">> = 1..1
          OBVIOUS
        <5>2. n \in 1..n /\ n \in Nat
          BY <2>4, <3>1
        <5> QED
          BY <5>1, <5>2
      <4>2. texts[1] = <<"empty">>
        BY <2>5, <4>1
      <4>3. texts = <<texts[1]>>
        BY <2>4, <4>1 DEF n
      <4> QED
        BY <2>4, <4>2, <4>3
    <3>3. ProxyEntries(w) = [i \in 1..n |-> <<Trim(texts[i][1])>>]
      BY <2>3, <3>1, <3>2 DEF ProxyEntries
    <3>4. \A i \in 1..n : ProxyEntries(w)[i] = <<"net">> <=> texts[i] = <<"net">>
      <4> SUFFICES ASSUME NEW i \in 1..n
                   PROVE  ProxyEntries(w)[i] = <<"net">> <=> texts[i] = <<"net">>
        OBVIOUS
      <4> DEFINE q == texts[i][1]
      <4>1. q \in {"net", "blank", "empty", "junk"} /\ texts[i] = <<q>>
        BY <2>5 DEF Parts
      <4>2. ProxyEntries(w)[i] = <<Trim(q)>>
        BY <3>3
      <4>3. Trim(q) = "net" <=> q = "net"
        BY <4>1 DEF Trim
      <4> HIDE DEF q
      <4> QED
        BY <4>1, <4>2, <4>3
    <3>5. DOMAIN ProxyEntries(w) = 1..n /\ DOMAIN texts = 1..n
      BY <2>4, <3>3 DEF n
    <3>6. AllNetworks(w) = AllNetworks(v)
      BY <2>6, <3>4, <3>5 DEF AllNetworks
    <3>7. Len(ProxyEntries(w)) = n
      BY <2>4, <3>3
    <3> QED
      BY <2>1, <2>6, <3>6, <3>7 DEF ProxiesError, n
  <2> QED
    BY <2>7, <2>8
<1> QED
  BY <1>1, <1>2

(* parse_auth of a table whose numbers are spelled otherwise: the first    *)
(* error is the same, and without one the result.                          *)
LEMMA AuthAgrees ==
  ASSUME NEW a, NEW b, \A k \in AuthKeys : IsSetting(k, a[k]),
         \A k \in AuthKeys : b[k] = a[k] \/ b[k] = AsText(k, a[k])
  PROVE  AuthError(b) = AuthError(a) /\ (AuthError(a) = <<>> => AuthConfig(b) = AuthConfig(a))
<1> DEFINE D(x, k) == DurationError(x, k)
           R(x) == Check(RequiredWindow(x) # None, "AuthReplayWindowTooSmall", "auth", "overflow")
           M(x) == Check(x["max_replay_entries"] = None
                           \/ (/\ Positive(x["max_replay_entries"])
                               /\ x["max_replay_entries"].n >= 1024
                               /\ x["max_replay_entries"].n <= MaxUsize),
                         "InvalidAuthMaxReplayEntries", "auth", "max_replay_entries")
           W(x) == Check(RequiredWindow(x) # None =>
                           NumberOr(x["jti_replay_window_secs"], RequiredWindow(x))
                             >= RequiredWindow(x),
                         "AuthReplayWindowTooSmall", "auth", "jti_replay_window_secs")
           E(x) == <<D(x, "clock_skew_secs"), D(x, "dpop_freshness_secs"),
                     D(x, "jwks_refresh_secs"), D(x, "discovery_refresh_secs"),
                     D(x, "on_demand_refresh_min_interval_secs"), R(x),
                     D(x, "jti_replay_window_secs"), M(x), W(x)>>
<1>1. AuthError(a) = FirstError(E(a)) /\ AuthError(b) = FirstError(E(b))
  BY DEF AuthError
<1>2. AuthKeys \subseteq Numbers
  BY DEF Numbers
<1>3. ASSUME NEW k \in AuthKeys
      PROVE  /\ b[k] = None <=> a[k] = None
             /\ D(b, k) = D(a, k)
             /\ D(a, k) = <<>> => \A d : NumberOr(b[k], d) = NumberOr(a[k], d)
  <2>1. D(a, k) = <<>> => a[k] = None \/ Positive(a[k])
    BY CheckPassed DEF DurationError, NumberError
  <2> QED
    BY <1>2, <2>1, NumberAgrees DEF DurationError
<1>4. M(b) = M(a)
  <2> DEFINE v == a["max_replay_entries"]
             w == b["max_replay_entries"]
             Fits(x) == x = None \/ (/\ Positive(x) /\ x.n >= 1024 /\ x.n <= MaxUsize)
  <2>0. "max_replay_entries" \in AuthKeys
    BY DEF AuthKeys
  <2>1. /\ w = None <=> v = None
        /\ v # None => (Positive(w) <=> Positive(v))
        /\ v # None /\ Positive(v) => w.n = v.n
    BY <1>2, <2>0, NumberAgrees
  <2> HIDE DEF v, w
  <2>2. Fits(w) = Fits(v)
    BY <2>1
  <2> HIDE DEF Fits
  <2>3. /\ M(a) = Check(Fits(v), "InvalidAuthMaxReplayEntries", "auth", "max_replay_entries")
        /\ M(b) = Check(Fits(w), "InvalidAuthMaxReplayEntries", "auth", "max_replay_entries")
    BY DEF Fits, v, w
  <2> QED
    BY <2>2, <2>3
<1>5. {"clock_skew_secs", "dpop_freshness_secs", "jwks_refresh_secs", "discovery_refresh_secs",
       "on_demand_refresh_min_interval_secs", "jti_replay_window_secs"} \subseteq AuthKeys
  BY DEF AuthKeys, AuthDurations
<1>6. D(a, "clock_skew_secs") = <<>> /\ D(a, "dpop_freshness_secs") = <<>>
      => RequiredWindow(b) = RequiredWindow(a) /\ R(b) = R(a)
  BY <1>3, <1>5 DEF RequiredWindow
<1>7. /\ D(a, "clock_skew_secs") = <<>> /\ D(a, "dpop_freshness_secs") = <<>>
      /\ D(a, "jti_replay_window_secs") = <<>>
      => W(b) = W(a)
  BY <1>3, <1>5, <1>6
<1>8. ASSUME AuthError(a) = <<>> PROVE AuthConfig(b) = AuthConfig(a)
  <2> HIDE DEF D, R, M, W
  <2>1. DOMAIN E(a) = 1..9
    OBVIOUS
  <2>2. \A i \in 1..9 : E(a)[i] = <<>>
    <3> DEFINE e == E(a)
    <3>1. FirstError(e) = <<>>
      BY <1>1, <1>8
    <3>2. DOMAIN e = 1..9
      BY <2>1
    <3> HIDE DEF e
    <3>3. \A i \in DOMAIN e : e[i] = <<>>
      BY <3>1, <3>2, NoFirstError
    <3> QED
      BY <3>2, <3>3 DEF e
  <2>3. /\ D(a, "clock_skew_secs") = <<>> /\ D(a, "dpop_freshness_secs") = <<>>
        /\ D(a, "jwks_refresh_secs") = <<>> /\ D(a, "discovery_refresh_secs") = <<>>
        /\ D(a, "on_demand_refresh_min_interval_secs") = <<>>
        /\ D(a, "jti_replay_window_secs") = <<>> /\ M(a) = <<>>
    <3>1. /\ E(a)[1] = <<>> /\ E(a)[2] = <<>> /\ E(a)[3] = <<>> /\ E(a)[4] = <<>>
          /\ E(a)[5] = <<>> /\ E(a)[7] = <<>> /\ E(a)[8] = <<>>
      <4> HIDE DEF E
      <4> QED
        BY <2>2
    <3> QED
      BY <3>1
  <2>4. \A d : NumberOr(b["max_replay_entries"], d) = NumberOr(a["max_replay_entries"], d)
    <3>1. a["max_replay_entries"] = None \/ Positive(a["max_replay_entries"])
      BY <2>3, CheckPassed DEF M
    <3>2. "max_replay_entries" \in AuthKeys
      BY DEF AuthKeys
    <3> QED
      BY <1>2, <3>1, <3>2, NumberAgrees
  <2>5. \A k \in AuthKeys : \A d : NumberOr(b[k], d) = NumberOr(a[k], d)
    BY <1>3, <2>3, <2>4 DEF AuthKeys, AuthDurations
  <2>6. RequiredWindow(b) = RequiredWindow(a)
    BY <1>6, <2>3
  <2> QED
    BY <2>5, <2>6 DEF AuthConfig
<1>9. AuthError(b) = AuthError(a)
  <2>1. /\ D(b, "clock_skew_secs") = D(a, "clock_skew_secs")
        /\ D(b, "dpop_freshness_secs") = D(a, "dpop_freshness_secs")
        /\ D(b, "jwks_refresh_secs") = D(a, "jwks_refresh_secs")
        /\ D(b, "discovery_refresh_secs") = D(a, "discovery_refresh_secs")
        /\ D(b, "on_demand_refresh_min_interval_secs") = D(a, "on_demand_refresh_min_interval_secs")
        /\ D(b, "jti_replay_window_secs") = D(a, "jti_replay_window_secs")
    BY <1>3, <1>5
  <2> HIDE DEF D, R, M, W
  <2>2. DOMAIN E(a) = 1..9 /\ DOMAIN E(b) = 1..9
    OBVIOUS
  <2>3. /\ \A i \in {1, 2, 3, 4, 5, 7, 8} : E(b)[i] = E(a)[i]
        /\ E(a)[1] = <<>> /\ E(a)[2] = <<>> => E(b)[6] = E(a)[6]
        /\ E(a)[1] = <<>> /\ E(a)[2] = <<>> /\ E(a)[7] = <<>> => E(b)[9] = E(a)[9]
    BY <1>4, <1>6, <1>7, <2>1
  <2> HIDE DEF E
  <2>4. \A i \in 1..9 : (\A j \in 1..9 : j < i => E(a)[j] = <<>>) => E(b)[i] = E(a)[i]
    BY <2>3
  <2> QED
    BY <1>1, <2>2, <2>4, SameFirstError
<1> QED
  BY <1>8, <1>9

(* Without a setting, parse_auth returns the defaults.                     *)
LEMMA AuthDefaults ==
  ASSUME NEW a, \A k \in AuthKeys : a[k] = None
  PROVE  AuthError(a) = <<>> /\ AuthConfig(a) = DefaultAuth
<1>1. /\ a["clock_skew_secs"] = None /\ a["dpop_freshness_secs"] = None
      /\ a["jwks_refresh_secs"] = None /\ a["discovery_refresh_secs"] = None
      /\ a["on_demand_refresh_min_interval_secs"] = None
      /\ a["jti_replay_window_secs"] = None /\ a["max_replay_entries"] = None
  BY DEF AuthKeys, AuthDurations
<1>2. RequiredWindow(a) = 90
  BY <1>1, WidthAssumption DEF RequiredWindow, CheckedAdd, NumberOr, DefaultAuth
<1>3. AuthConfig(a) = DefaultAuth
  <2>1. DOMAIN DefaultAuth = AuthKeys /\ DefaultAuth = [k \in AuthKeys |-> DefaultAuth[k]]
    BY DEF DefaultAuth, AuthKeys, AuthDurations
  <2>2. DefaultAuth["jti_replay_window_secs"] = 90
    BY DEF DefaultAuth
  <2>3. \A k \in AuthKeys : AuthConfig(a)[k] = DefaultAuth[k]
    BY <1>2, <2>2 DEF AuthConfig, NumberOr
  <2>4. AuthConfig(a) = [k \in AuthKeys |-> AuthConfig(a)[k]]
    BY DEF AuthConfig
  <2> QED
    BY <2>1, <2>3, <2>4
<1>4. AuthError(a) = <<>>
  <2>1. AuthError(a) = FirstError(<< <<>>, <<>>, <<>>, <<>>, <<>>,
           Check(RequiredWindow(a) # None, "AuthReplayWindowTooSmall", "auth", "overflow"),
           <<>>, <<>>,
           Check(RequiredWindow(a) # None =>
                    NumberOr(a["jti_replay_window_secs"], RequiredWindow(a)) >= RequiredWindow(a),
                 "AuthReplayWindowTooSmall", "auth", "jti_replay_window_secs")>>)
    BY <1>1 DEF AuthError, DurationError, NumberError, Check
  <2>2. RequiredWindow(a) # None
    BY <1>2, NoneAssumption
  <2>3. NumberOr(a["jti_replay_window_secs"], RequiredWindow(a)) >= RequiredWindow(a)
    BY <1>1, <1>2 DEF NumberOr
  <2>4. AuthError(a) = FirstError(<< <<>>, <<>>, <<>>, <<>>, <<>>, <<>>, <<>>, <<>>, <<>> >>)
    BY <2>1, <2>2, <2>3 DEF Check
  <2> QED
    BY <2>4 DEF FirstError
<1> QED
  BY <1>3, <1>4

(* The table that parse_auth sees, or one without settings.                *)
AuthOf(p) == IF p["auth"] = None THEN [k \in AuthKeys |-> None] ELSE p["auth"]

LEMMA AuthOfIsGet ==
  ASSUME NEW p
  PROVE  /\ \A k \in AuthKeys : AuthOf(p)[k] = Get(p, "auth", k)
         /\ (IF p["auth"] = None THEN <<>> ELSE AuthError(p["auth"])) = AuthError(AuthOf(p))
         /\ (IF p["auth"] = None THEN DefaultAuth ELSE AuthConfig(p["auth"])) = AuthConfig(AuthOf(p))
<1>1. CASE p["auth"] = None
  <2>1. \A k \in AuthKeys : AuthOf(p)[k] = None
    BY <1>1 DEF AuthOf
  <2>2. AuthError(AuthOf(p)) = <<>> /\ AuthConfig(AuthOf(p)) = DefaultAuth
    BY <2>1, AuthDefaults
  <2> QED
    BY <1>1, <2>1, <2>2 DEF Get
<1>2. CASE p["auth"] # None
  BY <1>2 DEF AuthOf, Get
<1> QED
  BY <1>1, <1>2

(* q says the same as p, perhaps in the spelling of the environment.       *)
Respells(q, p) ==
    \A t \in Tables : \A k \in KeysOf[t] :
        \/ Get(q, t, k) = Get(p, t, k)
        \/ Get(q, t, k) = AsText(k, Get(p, t, k))
           /\ (k = "trusted_proxies" => Joinable(Get(p, t, k)))

LEMMA ValidateAgrees ==
  ASSUME NEW p, \A t \in Tables : p[t] = None \/ IsTable(t, p[t]), NEW q, Respells(q, p)
  PROVE  validate(q) = validate(p)
<1> DEFINE T(x, k) == Get(x, "top", k)
           V(x, k) == Get(x, "vault_oidc", k)
           A(x, k) == Get(x, "admin_oidc", k)
           root(x) == Get(x, "local_fs", "root")
<1>1. \A t \in Tables : \A k \in KeysOf[t] : IsSetting(k, Get(p, t, k))
  BY GetTyped
<1>2. \A t \in Tables : \A k \in KeysOf[t] :
         k \notin Numbers \cup {"trusted_proxies"} => Get(q, t, k) = Get(p, t, k)
  BY DEF Respells, AsText
<1>3. /\ Tables = {"top", "local_fs", "vault_oidc", "admin_oidc", "auth"}
      /\ KeysOf["top"] = {"bind_address", "block_size_bytes", "storage_backend",
                          "trusted_proxies", "drain_timeout_secs"}
      /\ KeysOf["local_fs"] = {"root"} /\ KeysOf["auth"] = AuthKeys
      /\ KeysOf["vault_oidc"] = {"issuer_url", "audience"}
      /\ KeysOf["admin_oidc"] = {"issuer_url", "audience"}
  BY DEF Tables, KeysOf
<1>4. /\ {"bind_address", "storage_backend", "root", "issuer_url", "audience"}
            \cap (Numbers \cup {"trusted_proxies"}) = {}
      /\ {"block_size_bytes", "drain_timeout_secs"} \subseteq Numbers
  BY DEF Numbers, AuthKeys, AuthDurations
<1>5. /\ T(q, "bind_address") = T(p, "bind_address")
      /\ T(q, "storage_backend") = T(p, "storage_backend") /\ root(q) = root(p)
      /\ V(q, "issuer_url") = V(p, "issuer_url") /\ V(q, "audience") = V(p, "audience")
      /\ A(q, "issuer_url") = A(p, "issuer_url") /\ A(q, "audience") = A(p, "audience")
  BY <1>2, <1>3, <1>4
<1>6. ASSUME NEW k \in {"block_size_bytes", "drain_timeout_secs"}
      PROVE  /\ T(q, k) = None <=> T(p, k) = None
             /\ \A error, t : NumberError(T(q, k), error, t, k) = NumberError(T(p, k), error, t, k)
             /\ T(p, k) = None \/ Positive(T(p, k)) =>
                   \A d : NumberOr(T(q, k), d) = NumberOr(T(p, k), d)
  <2>1. k \in Numbers /\ IsSetting(k, T(p, k))
    BY <1>1, <1>3, <1>4
  <2>2. T(q, k) = T(p, k) \/ T(q, k) = AsText(k, T(p, k))
    BY <1>3 DEF Respells
  <2> QED
    BY <2>1, <2>2, NumberAgrees
<1>7. /\ ProxiesError(T(q, "trusted_proxies")) = ProxiesError(T(p, "trusted_proxies"))
      /\ T(p, "trusted_proxies") # None =>
            Len(ProxyEntries(T(q, "trusted_proxies"))) = Len(ProxyEntries(T(p, "trusted_proxies")))
  <2>1. IsSetting("trusted_proxies", T(p, "trusted_proxies"))
    BY <1>1, <1>3
  <2>2. \/ T(q, "trusted_proxies") = T(p, "trusted_proxies")
        \/ /\ T(q, "trusted_proxies") = AsText("trusted_proxies", T(p, "trusted_proxies"))
           /\ Joinable(T(p, "trusted_proxies"))
    BY <1>3 DEF Respells
  <2> QED
    BY <2>1, <2>2, ProxiesAgree
<1>8. /\ AuthError(AuthOf(q)) = AuthError(AuthOf(p))
      /\ AuthError(AuthOf(p)) = <<>> => AuthConfig(AuthOf(q)) = AuthConfig(AuthOf(p))
  <2>1. \A k \in AuthKeys : IsSetting(k, AuthOf(p)[k])
    BY <1>1, <1>3, AuthOfIsGet
  <2>2. \A k \in AuthKeys : AuthOf(q)[k] = AuthOf(p)[k] \/ AuthOf(q)[k] = AsText(k, AuthOf(p)[k])
    BY <1>3, AuthOfIsGet DEF Respells
  <2> QED
    BY <2>1, <2>2, AuthAgrees
<1> DEFINE listen(x) == ListenError(T(x, "bind_address"), T(x, "block_size_bytes"))
           storage(x) == StorageError(T(x, "storage_backend"), root(x))
           proxies(x) == ProxiesError(T(x, "trusted_proxies"))
           drain(x) == NumberError(T(x, "drain_timeout_secs"), "InvalidDrainTimeout",
                                   "top", "drain_timeout_secs")
           vault(x) == OidcError("vault_oidc", V(x, "issuer_url"), V(x, "audience"))
           admin(x) == OidcError("admin_oidc", A(x, "issuer_url"), A(x, "audience"))
           apart(x) == Check(V(x, "audience") # A(x, "audience"),
                             "DuplicateAudience", "admin_oidc", "audience")
           E(x) == <<listen(x), storage(x), proxies(x), drain(x), vault(x), admin(x), apart(x),
                     AuthError(AuthOf(x))>>
<1>9. ConfigError(p) = FirstError(E(p)) /\ ConfigError(q) = FirstError(E(q))
  BY AuthOfIsGet DEF ConfigError
<1>10. ConfigError(q) = ConfigError(p)
  <2>1. listen(q) = listen(p)
    <3>1. (T(q, "block_size_bytes") # None) = (T(p, "block_size_bytes") # None)
      BY <1>6
    <3>2. NumberError(T(q, "block_size_bytes"), "InvalidBlockSize", "top", "block_size_bytes")
          = NumberError(T(p, "block_size_bytes"), "InvalidBlockSize", "top", "block_size_bytes")
      BY <1>6
    <3> QED
      BY <1>5, <3>1, <3>2 DEF ListenError
  <2>2. /\ storage(q) = storage(p) /\ vault(q) = vault(p) /\ admin(q) = admin(p)
        /\ apart(q) = apart(p)
    BY <1>5
  <2>3. drain(q) = drain(p)
    BY <1>6
  <2> HIDE DEF listen, storage, drain, vault, admin, apart
  <2> QED
    BY <1>7, <1>8, <1>9, <2>1, <2>2, <2>3
<1>11. ASSUME ConfigError(p) = <<>> PROVE ServerConfig(q) = ServerConfig(p)
  <2>1. /\ listen(p) = <<>> /\ proxies(p) = <<>> /\ drain(p) = <<>>
        /\ AuthError(AuthOf(p)) = <<>>
    <3> HIDE DEF listen, storage, proxies, drain, vault, admin, apart
    <3> DEFINE e == E(p)
    <3>1. FirstError(e) = <<>> /\ DOMAIN e = 1..8
      BY <1>9, <1>11
    <3>2. e[1] = listen(p) /\ e[3] = proxies(p) /\ e[4] = drain(p) /\ e[8] = AuthError(AuthOf(p))
      OBVIOUS
    <3> HIDE DEF e
    <3>3. \A i \in DOMAIN e : e[i] = <<>>
      BY <3>1, NoFirstError
    <3> QED
      BY <3>1, <3>2, <3>3
  <2>2. T(q, "block_size_bytes").n = T(p, "block_size_bytes").n
    <3> DEFINE v == T(p, "block_size_bytes")
               w == T(q, "block_size_bytes")
    <3>1. v # None /\ NumberError(v, "InvalidBlockSize", "top", "block_size_bytes") = <<>>
      <4> DEFINE e == <<Check(T(p, "bind_address") # None, "Missing", "top", "bind_address"),
                        Check(T(p, "bind_address") # "junk", "InvalidBindAddress", "top",
                              "bind_address"),
                        NumberError(v, "InvalidBlockSize", "top", "block_size_bytes"),
                        Check(v # None, "Missing", "top", "block_size_bytes")>>
      <4>1. FirstError(e) = <<>> /\ DOMAIN e = 1..4
        BY <2>1 DEF ListenError
      <4>2. e[3] = <<>> /\ e[4] = <<>>
        <5> HIDE DEF e
        <5> QED
          BY <4>1, NoFirstError
      <4> QED
        BY <4>2, CheckPassed
    <3>2. Positive(v)
      BY <3>1, CheckPassed DEF NumberError
    <3>3. w # None /\ NumberOr(w, 0) = NumberOr(v, 0)
      BY <1>6, <3>1, <3>2
    <3> HIDE DEF v, w
    <3>4. w.n = v.n
      BY <3>1, <3>3 DEF NumberOr
    <3> QED
      BY <3>4 DEF v, w
  <2>3. Len(ProxyEntries(T(q, "trusted_proxies"))) = Len(ProxyEntries(T(p, "trusted_proxies")))
    <3> DEFINE v == T(p, "trusted_proxies")
               e == <<Check(v # None, "Missing", "top", "trusted_proxies"),
                      Check(v # None => AllNetworks(v),
                            "InvalidCidr", "top", "trusted_proxies")>>
    <3>1. FirstError(e) = <<>> /\ DOMAIN e = 1..2
      BY <2>1 DEF ProxiesError
    <3>2. e[1] = <<>>
      <4> HIDE DEF e
      <4> QED
        BY <3>1, NoFirstError
    <3>3. v # None
      BY <3>2, CheckPassed
    <3> QED
      BY <1>7, <3>3
  <2>4. NumberOr(T(q, "drain_timeout_secs"), 30) = NumberOr(T(p, "drain_timeout_secs"), 30)
    <3>1. T(p, "drain_timeout_secs") = None \/ Positive(T(p, "drain_timeout_secs"))
      BY <2>1, CheckPassed DEF NumberError
    <3> QED
      BY <1>6, <3>1
  <2>5. /\ [k \in KeysOf.vault_oidc |-> V(q, k)] = [k \in KeysOf.vault_oidc |-> V(p, k)]
        /\ [k \in KeysOf.admin_oidc |-> A(q, k)] = [k \in KeysOf.admin_oidc |-> A(p, k)]
    BY <1>3, <1>5
  <2>6. AuthConfig(AuthOf(q)) = AuthConfig(AuthOf(p))
    BY <1>8, <2>1
  <2> QED
    BY <1>5, <2>2, <2>3, <2>4, <2>5, <2>6, AuthOfIsGet DEF ServerConfig
<1> QED
  BY <1>10, <1>11 DEF validate

(* What validate accepts as trusted_proxies can be joined.                 *)
LEMMA AcceptedIsJoinable ==
  ASSUME NEW p, ConfigError(p) = <<>>
  PROVE  Joinable(Get(p, "top", "trusted_proxies"))
<1> DEFINE v == Get(p, "top", "trusted_proxies")
           e == <<ListenError(Get(p, "top", "bind_address"), Get(p, "top", "block_size_bytes")),
                  StorageError(Get(p, "top", "storage_backend"), Get(p, "local_fs", "root")),
                  ProxiesError(v),
                  NumberError(Get(p, "top", "drain_timeout_secs"), "InvalidDrainTimeout",
                              "top", "drain_timeout_secs"),
                  OidcError("vault_oidc", Get(p, "vault_oidc", "issuer_url"),
                            Get(p, "vault_oidc", "audience")),
                  OidcError("admin_oidc", Get(p, "admin_oidc", "issuer_url"),
                            Get(p, "admin_oidc", "audience")),
                  Check(Get(p, "vault_oidc", "audience") # Get(p, "admin_oidc", "audience"),
                        "DuplicateAudience", "admin_oidc", "audience"),
                  IF p["auth"] = None THEN <<>> ELSE AuthError(p["auth"])>>
           f == <<Check(v # None, "Missing", "top", "trusted_proxies"),
                  Check(v # None => AllNetworks(v), "InvalidCidr", "top", "trusted_proxies")>>
<1>1. FirstError(e) = <<>> /\ DOMAIN e = 1..8 /\ e[3] = ProxiesError(v)
  BY DEF ConfigError
<1>2. ProxiesError(v) = FirstError(f) /\ DOMAIN f = 1..2
  BY DEF ProxiesError
<1>3. f[2] = Check(v # None => AllNetworks(v), "InvalidCidr", "top", "trusted_proxies")
  OBVIOUS
<1> HIDE DEF v, e, f
<1>4. FirstError(f) = <<>>
  BY <1>1, <1>2, NoFirstError
<1>5. v # None => AllNetworks(v)
  <2> DEFINE ok == v # None => AllNetworks(v)
  <2>1. Check(ok, "InvalidCidr", "top", "trusted_proxies") = <<>>
    BY <1>2, <1>3, <1>4, NoFirstError
  <2>2. ok \in BOOLEAN
    OBVIOUS
  <2> HIDE DEF ok
  <2>3. ok
    BY <2>1, <2>2, CheckPassed
  <2> QED
    BY <2>3 DEF ok
<1>6. v # None /\ v.form = "list" => \A i \in DOMAIN v.texts : v.texts[i] = <<"net">>
  BY <1>5 DEF AllNetworks, ProxyEntries
<1>7. Len(<<"net">>) = 1 /\ <<"net">> # <<"padded">> /\ <<"net">> # <<"empty">>
  OBVIOUS
<1>8. ASSUME v.texts = <<<<"empty">>>> PROVE 1 \in DOMAIN v.texts /\ v.texts[1] = <<"empty">>
  <2>1. \A x : 1 \in DOMAIN <<x>> /\ <<x>>[1] = x
    OBVIOUS
  <2> QED
    BY <1>8, <2>1
<1>9. Joinable(v)
  BY <1>6, <1>7, <1>8 DEF Joinable
<1> QED
  BY <1>9 DEF v

(* config::load does not depend on where a setting is given.               *)
LEMMA LoadIsPlacementFree ==
  ASSUME NEW s, IsSource(s), s.unicode, s.file \in {"unset", "parsed"},
         load(s).error = <<>> \/ Joinable(Get(s.partial, "top", "trusted_proxies"))
  PROVE  load(s) = load(AllInEnv(s))
<1> DEFINE a == AllInEnv(s)
<1>1. /\ IsSource(a) /\ a.unicode /\ a.file = "unset" /\ a.partial = EmptyPartial
      /\ \A t \in Tables : \A k \in KeysOf[t] :
            Get(Merged(a), t, k) = Or(s.env[t][k], AsText(k, Get(s.partial, t, k)))
  BY AllInEnvTyped DEF AllInEnv
<1> HIDE DEF a
<1>2. load(s) = validate(Merged(s))
  BY DEF load, Merged, IsSource
<1>3. load(a) = validate(Merged(a))
  BY <1>1 DEF load, Merged
<1>4. \A t \in Tables : Merged(s)[t] = None \/ IsTable(t, Merged(s)[t])
  BY MergedSource DEF Merged
<1>j. \/ s.env["top"]["trusted_proxies"] # None
      \/ Joinable(Get(s.partial, "top", "trusted_proxies"))
  <2>1. CASE load(s).error = <<>>
    <3>1. Joinable(Get(Merged(s), "top", "trusted_proxies"))
      BY <1>2, <2>1, AcceptedIsJoinable DEF validate
    <3>2. "top" \in Tables /\ "trusted_proxies" \in KeysOf["top"]
      BY DEF Tables, KeysOf
    <3>3. Get(Merged(s), "top", "trusted_proxies") =
             Or(s.env["top"]["trusted_proxies"], Get(s.partial, "top", "trusted_proxies"))
      BY <3>2, MergedGet
    <3> QED
      BY <3>1, <3>3 DEF Or
  <2> QED
    BY <2>1
<1>5. Respells(Merged(a), Merged(s))
  <2> SUFFICES ASSUME NEW t \in Tables, NEW k \in KeysOf[t]
               PROVE  \/ Get(Merged(a), t, k) = Get(Merged(s), t, k)
                      \/ /\ Get(Merged(a), t, k) = AsText(k, Get(Merged(s), t, k))
                         /\ k = "trusted_proxies" => Joinable(Get(Merged(s), t, k))
    BY DEF Respells
  <2>1. Get(Merged(s), t, k) = Or(s.env[t][k], Get(s.partial, t, k))
    BY MergedGet
  <2>2. k = "trusted_proxies" => t = "top"
    BY DEF Tables, KeysOf, AuthKeys, AuthDurations
  <2> QED
    BY <1>1, <1>j, <2>1, <2>2 DEF Or
<1>6. validate(Merged(a)) = validate(Merged(s))
  BY <1>4, <1>5, ValidateAgrees
<1> QED
  BY <1>2, <1>3, <1>6 DEF a

(* A setting means the same in the environment and in the file, for every  *)
(* pair of sources and every width: collecting, merging table by table and *)
(* validating in order makes no difference between them, not even in the   *)
(* error that is reported first.                                           *)
THEOREM PlacementDoesNotMatter == Spec => []PlacementIrrelevant
<1> DEFINE Inv == /\ phase = "load" => input \in Sources /\ outcome = None
                  /\ outcome = None \/ (input \in Sources /\ outcome = load(input))
<1>1. Init => Inv
  BY DEF Init
<1>2. Inv /\ [Next]_vars => Inv'
  <2> SUFFICES ASSUME Inv, [Next]_vars PROVE Inv'
    OBVIOUS
  <2>1. CASE LoadConfig
    BY <2>1 DEF LoadConfig
  <2>2. CASE BuildClient \/ ClientFails
    BY <2>2 DEF BuildClient, ClientFails
  <2>3. CASE UNCHANGED vars \/ CompareContexts \/ \E c \in Contexts : Local(c) \/ Fetch(c) \/ Tick(c)
    BY <2>3, SourcesAreKept
  <2> QED
    BY <2>1, <2>2, <2>3 DEF Next, Boot
<1>3. Inv => PlacementIrrelevant
  <2> SUFFICES ASSUME Inv, outcome # None, input.unicode, input.file \in {"unset", "parsed"},
                      \/ outcome.error = <<>>
                      \/ Joinable(Get(input.partial, "top", "trusted_proxies"))
               PROVE  outcome = load(AllInEnv(input))
    BY DEF PlacementIrrelevant
  <2>1. IsSource(input) /\ outcome = load(input)
    BY StartupAssumption
  <2> QED
    BY <2>1, LoadIsPlacementFree
<1> QED
  BY <1>1, <1>2, <1>3, PTL DEF Spec

=============================================================================
