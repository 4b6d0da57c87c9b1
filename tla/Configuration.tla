---------------------------- MODULE Configuration ----------------------------
(***************************************************************************)
(* config::load (server/src/config): APOK_* variables and an optional TOML *)
(* file, each turned into a partial configuration, merged and validated.   *)
(* Everything here is a function of the two sources; Startup runs it.      *)
(*                                                                         *)
(* A setting is a key of a table; its value is None or what the validator  *)
(* can tell apart about it.  A number is [form, n]: a TOML integer         *)
(* ("int"), a string ("text", with n = -1 for one that spells no integer)  *)
(* or another TOML value ("other").  A string that may hold proxies is the *)
(* sequence of its parts between commas, a part being a network, one with  *)
(* spaces around it, spaces only, nothing at all or junk; trusted_proxies  *)
(* is a list of such strings ("list") or one of them ("csv").              *)
(***************************************************************************)
EXTENDS Integers, Sequences

CONSTANTS
    None,      \* Option::None
    MaxI64,    \* the largest TOML integer
    MaxU64,    \* u64::MAX
    MaxUsize   \* usize::MAX

(* The defaults of AuthConfig fit in every integer type.                   *)
ASSUME WidthAssumption ==
    /\ MaxI64 \in Nat /\ MaxU64 \in Nat /\ MaxUsize \in Nat
    /\ 100000 <= MaxI64 /\ MaxI64 < MaxU64
    /\ 100000 <= MaxUsize /\ MaxUsize <= MaxU64

AuthDurations ==
    {"clock_skew_secs", "dpop_freshness_secs", "jwks_refresh_secs", "discovery_refresh_secs",
     "on_demand_refresh_min_interval_secs"}

AuthKeys == AuthDurations \cup {"jti_replay_window_secs", "max_replay_entries"}

(* The fields of PartialConfig and its tables.  [storage] without          *)
(* local_fs says no more than no [storage] at all.                         *)
KeysOf ==
    [top |-> {"bind_address", "block_size_bytes", "storage_backend", "trusted_proxies",
              "drain_timeout_secs"},
     local_fs |-> {"root"},
     vault_oidc |-> {"issuer_url", "audience"},
     admin_oidc |-> {"issuer_url", "audience"},
     auth |-> AuthKeys]

Tables == DOMAIN KeysOf

Numbers == AuthKeys \cup {"block_size_bytes", "drain_timeout_secs"}

(* PartialConfig::default: no setting, and no table but the top.           *)
EmptyPartial ==
    [t \in Tables |-> IF t = "top" THEN [k \in KeysOf.top |-> None] ELSE None]

(* What a setting can hold: toml integers are i64, and a path is absolute  *)
(* or not.                                                                 *)
NumberValues == [form: {"int", "text", "other"}, n: Int]

Parts == {"net", "padded", "blank", "empty", "junk"}

(* The strings: split(',') gives one part at least.                        *)
Texts == Seq(Parts) \ {<<>>}

ProxyLists == [form: {"list"}, texts: Seq(Texts)] \cup [form: {"csv"}, text: Texts]

ValuesOf(k) ==
    IF k \in Numbers THEN NumberValues ELSE IF k = "trusted_proxies" THEN ProxyLists ELSE STRING

IsSetting(k, v) ==
    \/ v = None
    \/ /\ v \in ValuesOf(k)
       /\ k \in Numbers /\ v.form = "int" => v.n <= MaxI64
       /\ k = "root" => v \in {"absolute", "relative"}

IsTable(t, p) ==
    p = [k \in KeysOf[t] |-> p[k]] /\ \A k \in KeysOf[t] : IsSetting(k, p[k])

(* No setting and no table that is there is None.                          *)
ASSUME NoneAssumption ==
    /\ None \notin Int /\ None \notin NumberValues /\ None \notin ProxyLists
    /\ \A t \in Tables :
          None \notin [KeysOf[t] -> NumberValues \cup ProxyLists \cup STRING \cup {None}]

-----------------------------------------------------------------------------
(* Collecting and merging.                                                 *)

(* collect_env: a table is there if one of its variables is.               *)
collect_env(env) ==
    [t \in Tables |->
        IF t # "top" /\ \A k \in KeysOf[t] : env[t][k] = None THEN None ELSE env[t]]

Or(a, b) == IF a # None THEN a ELSE b

(* Mutant: a table of the environment hides the file's.                    *)
MutMergeTable(e, f) == Or(e, f)

(* merge_storage and merge_local_fs, merge_oidc, merge_auth.               *)
MergeTable(e, f) ==
    IF e # None /\ f # None THEN [k \in DOMAIN e |-> Or(e[k], f[k])] ELSE Or(e, f)

env_overrides_file(env, file) == [t \in Tables |-> MergeTable(env[t], file[t])]

(* The value that a partial configuration gives a setting.                 *)
Get(p, t, k) == IF p[t] = None THEN None ELSE p[t][k]

-----------------------------------------------------------------------------
(* Validation.                                                             *)

(* An error names what is wrong and the setting; <<>> is no error.         *)
Check(ok, error, t, k) == IF ok THEN <<>> ELSE <<error, t, k>>

(* The first error of several, as `?` returns it.                          *)
FirstError(errors) ==
    LET bad == {i \in DOMAIN errors : errors[i] # <<>>}
    IN  IF bad = {} THEN <<>>
        ELSE errors[CHOOSE i \in bad : \A j \in bad : i <= j]

(* parse_positive_u64 of a value that is there.                            *)
Positive(v) ==
    /\ v.form \in {"int", "text"}
    /\ v.n > 0
    /\ v.form = "text" => v.n <= MaxU64

NumberError(v, error, t, k) == Check(v = None \/ Positive(v), error, t, k)

NumberOr(v, default) == IF v = None THEN default ELSE v.n

(* parse_bind_address and block_size_bytes.                                *)
ListenError(bind, size) ==
    FirstError(<<Check(bind # None, "Missing", "top", "bind_address"),
                 Check(bind # "junk", "InvalidBindAddress", "top", "bind_address"),
                 NumberError(size, "InvalidBlockSize", "top", "block_size_bytes"),
                 Check(size # None, "Missing", "top", "block_size_bytes")>>)

(* parse_storage_backend.                                                  *)
StorageError(backend, root) ==
    FirstError(<<Check(backend # None, "Missing", "top", "storage_backend"),
                 Check(backend # "junk", "InvalidStorageBackend", "top", "storage_backend"),
                 Check(backend = "local_fs" => root # None,
                       "LocalFsRootMissing", "local_fs", "root"),
                 Check(backend = "local_fs" => root # "relative",
                       "LocalFsRootNotAbsolute", "local_fs", "root")>>)

(* str::trim of a part.                                                    *)
Trim(part) ==
    CASE part = "padded" -> "net"
      [] part = "blank" -> "empty"
      [] OTHER -> part

(* The entries of parse_trusted_proxies: the strings of a list as they     *)
(* are, or the parts of a string, trimmed, unless it is the empty string.  *)
ProxyEntries(v) ==
    IF v.form = "list" THEN v.texts
    ELSE IF v.text = <<"empty">> THEN <<>>
    ELSE [i \in DOMAIN v.text |-> <<Trim(v.text[i])>>]

(* Every entry parses as a network, which a string with spaces or with a   *)
(* comma in it does not.                                                   *)
AllNetworks(v) == \A i \in DOMAIN ProxyEntries(v) : ProxyEntries(v)[i] = <<"net">>

(* parse_trusted_proxies.                                                  *)
ProxiesError(v) ==
    FirstError(<<Check(v # None, "Missing", "top", "trusted_proxies"),
                 Check(v # None => AllNetworks(v), "InvalidCidr", "top", "trusted_proxies")>>)

(* parse_oidc and OidcAudienceConfig::new.                                 *)
OidcError(t, issuer, audience) ==
    FirstError(<<Check(issuer # None, "Missing", t, "issuer_url"),
                 Check(audience # None, "Missing", t, "audience"),
                 Check(issuer # "junk", "InvalidIssuerUrl", t, "issuer_url"),
                 Check(issuer # "http", "InvalidIssuerUrlScheme", t, "issuer_url"),
                 Check(issuer \notin {"query", "fragment"},
                       "IssuerUrlHasComponent", t, "issuer_url"),
                 Check(audience # "", "EmptyAudience", t, "audience")>>)

(* AuthConfig::default.                                                    *)
DefaultAuth ==
    [clock_skew_secs |-> 60, dpop_freshness_secs |-> 30, jwks_refresh_secs |-> 3600,
     discovery_refresh_secs |-> 86400, on_demand_refresh_min_interval_secs |-> 30,
     jti_replay_window_secs |-> 90, max_replay_entries |-> 100000]

(* Mutant: the sum wraps around.                                           *)
MutCheckedAdd(a, b) == (a + b) % (MaxU64 + 1)

(* u64::checked_add.                                                       *)
CheckedAdd(a, b) == IF a + b <= MaxU64 THEN a + b ELSE None

(* Freshness plus skew: what the window must cover, and what it is when it *)
(* is not given.                                                           *)
RequiredWindow(auth) ==
    CheckedAdd(NumberOr(auth["dpop_freshness_secs"], DefaultAuth.dpop_freshness_secs),
               NumberOr(auth["clock_skew_secs"], DefaultAuth.clock_skew_secs))

DurationError(auth, k) == NumberError(auth[k], "InvalidAuthDurationSecs", "auth", k)

(* The checks of parse_auth, parse_max_replay_entries included.            *)
AuthError(auth) ==
    LET required == RequiredWindow(auth)
        entries == auth["max_replay_entries"]
    IN  FirstError(<<DurationError(auth, "clock_skew_secs"),
                     DurationError(auth, "dpop_freshness_secs"),
                     DurationError(auth, "jwks_refresh_secs"),
                     DurationError(auth, "discovery_refresh_secs"),
                     DurationError(auth, "on_demand_refresh_min_interval_secs"),
                     Check(required # None, "AuthReplayWindowTooSmall", "auth", "overflow"),
                     DurationError(auth, "jti_replay_window_secs"),
                     Check(entries = None \/ (/\ Positive(entries) /\ entries.n >= 1024
                                              /\ entries.n <= MaxUsize),
                           "InvalidAuthMaxReplayEntries", "auth", "max_replay_entries"),
                     Check(required # None =>
                              NumberOr(auth["jti_replay_window_secs"], required) >= required,
                           "AuthReplayWindowTooSmall", "auth", "jti_replay_window_secs")>>)

(* The AuthConfig that parse_auth returns.                                 *)
AuthConfig(auth) ==
    [k \in AuthKeys |->
        NumberOr(auth[k], IF k = "jti_replay_window_secs" THEN RequiredWindow(auth)
                          ELSE DefaultAuth[k])]

(* validate, up to the first error.                                        *)
ConfigError(p) ==
    FirstError(
      <<ListenError(Get(p, "top", "bind_address"), Get(p, "top", "block_size_bytes")),
        StorageError(Get(p, "top", "storage_backend"), Get(p, "local_fs", "root")),
        ProxiesError(Get(p, "top", "trusted_proxies")),
        NumberError(Get(p, "top", "drain_timeout_secs"), "InvalidDrainTimeout",
                    "top", "drain_timeout_secs"),
        OidcError("vault_oidc", Get(p, "vault_oidc", "issuer_url"),
                  Get(p, "vault_oidc", "audience")),
        OidcError("admin_oidc", Get(p, "admin_oidc", "issuer_url"),
                  Get(p, "admin_oidc", "audience")),
        Check(Get(p, "vault_oidc", "audience") # Get(p, "admin_oidc", "audience"),
              "DuplicateAudience", "admin_oidc", "audience"),
        IF p["auth"] = None THEN <<>> ELSE AuthError(p["auth"])>>)

(* The ServerConfig that validate returns.                                 *)
ServerConfig(p) ==
    [bind_address |-> Get(p, "top", "bind_address"),
     block_size_bytes |-> Get(p, "top", "block_size_bytes").n,
     storage_backend |-> Get(p, "top", "storage_backend"),
     root |-> IF Get(p, "top", "storage_backend") = "local_fs"
              THEN Get(p, "local_fs", "root") ELSE None,
     trusted_proxies |-> Len(ProxyEntries(Get(p, "top", "trusted_proxies"))),
     drain_timeout |-> NumberOr(Get(p, "top", "drain_timeout_secs"), 30),
     vault_oidc |-> [k \in KeysOf.vault_oidc |-> Get(p, "vault_oidc", k)],
     admin_oidc |-> [k \in KeysOf.admin_oidc |-> Get(p, "admin_oidc", k)],
     auth |-> IF p["auth"] = None THEN DefaultAuth ELSE AuthConfig(p["auth"])]

validate(p) ==
    LET error == ConfigError(p)
    IN  [error |-> error, config |-> IF error = <<>> THEN ServerConfig(p) ELSE None]

-----------------------------------------------------------------------------
(* load.  A source is [unicode, env, file, partial]: whether every APOK_*  *)
(* variable is UTF-8, the settings the environment gives, how the file at  *)
(* APOK_CONFIG_PATH reads and what it says.                                *)

IsSource(s) ==
    /\ s.unicode \in BOOLEAN /\ s.file \in {"unset", "unreadable", "malformed", "parsed"}
    /\ \A t \in Tables : /\ IsTable(t, s.env[t])
                         /\ s.partial[t] = None \/ IsTable(t, s.partial[t])
    /\ s.file # "parsed" => s.partial = EmptyPartial

Refused(error) == [error |-> <<error, "", "">>, config |-> None]

(* collect_apok_env, load_optional_file, and the rest of load.             *)
load(s) ==
    CASE ~s.unicode -> Refused("NonUnicodeEnv")
      [] s.unicode /\ s.file = "unreadable" -> Refused("FileRead")
      [] s.unicode /\ s.file = "malformed" -> Refused("TomlParse")
      [] s.unicode /\ s.file \in {"unset", "parsed"} ->
            validate(env_overrides_file(collect_env(s.env),
                        IF s.file = "parsed" THEN s.partial ELSE EmptyPartial))

-----------------------------------------------------------------------------
(* Properties of what load returns.                                        *)

(* A value of the file as the environment spells it; a value that is       *)
(* neither integer nor string becomes a string that is no number.          *)
NumberAsText(v) == [form |-> "text", n |-> IF v.form = "other" THEN -1 ELSE v.n]

(* The list says the same when it is joined with commas: no entry has a    *)
(* comma in it, which would split it in two (as in                         *)
(* ["10.0.0.0/8,192.168.0.0/16"]), or spaces around it, which would be     *)
(* trimmed, and it is not the list of one empty string, which would be no  *)
(* entry.                                                                  *)
Joinable(v) ==
    v # None /\ v.form = "list" =>
        /\ v.texts # <<<<"empty">>>>
        /\ \A i \in DOMAIN v.texts : Len(v.texts[i]) = 1 /\ v.texts[i] # <<"padded">>

(* Strings without commas, joined with commas.                             *)
Joined(texts) ==
    IF texts = <<>> THEN <<"empty">> ELSE [i \in DOMAIN texts |-> texts[i][1]]

(* A list that cannot be joined has no spelling and stays what it is.      *)
AsText(k, v) ==
    CASE v = None -> None
      [] v # None /\ k \in Numbers -> NumberAsText(v)
      [] v # None /\ k = "trusted_proxies" ->
            IF v.form = "list" /\ Joinable(v)
            THEN [form |-> "csv", text |-> Joined(v.texts)] ELSE v
      [] OTHER -> v

(* All settings of a source in the environment.                            *)
AllInEnv(s) ==
    [unicode |-> s.unicode, file |-> "unset", partial |-> EmptyPartial,
     env |-> [t \in Tables |-> [k \in KeysOf[t] |->
                 Or(s.env[t][k], AsText(k, Get(s.partial, t, k)))]]]

(* What JwksRefresh, ReplayStore, AuthPipeline and BlockStore take for     *)
(* granted about an accepted configuration, and the arithmetic of dpop.rs  *)
(* and replay.rs with it: positive durations, a sum of freshness and skew  *)
(* that does not overflow and that the window covers, audiences apart.     *)
SoundConfig(c) ==
    /\ \A k \in AuthKeys : c.auth[k] \in 1..MaxU64
    /\ c.auth["dpop_freshness_secs"] + c.auth["clock_skew_secs"] <= MaxU64
    /\ c.auth["jti_replay_window_secs"] >=
          c.auth["dpop_freshness_secs"] + c.auth["clock_skew_secs"]
    /\ c.auth["max_replay_entries"] \in 1024..MaxUsize
    /\ c.block_size_bytes \in 1..MaxU64 /\ c.drain_timeout \in 1..MaxU64
    /\ c.vault_oidc["audience"] # c.admin_oidc["audience"]
    /\ c.storage_backend = "local_fs" => c.root = "absolute"

=============================================================================
