------------------------------ MODULE MCStartup ------------------------------
(* Instances of Startup.  Integers have 17 and 18 bits instead of 63 and   *)
(* 64, which leaves room for the defaults and makes the limits reachable.  *)
EXTENDS Startup

Num(n) == [form |-> "int", n |-> n]
Text(n) == [form |-> "text", n |-> n]
Junk == Text(-1)
OtherValue == [form |-> "other", n |-> 0]
List(texts) == [form |-> "list", texts |-> texts]
Csv(text) == [form |-> "csv", text |-> text]

Settings == UNION {{t} \X KeysOf[t] : t \in Tables}

(* What environment and file say of a setting.                             *)
Said(env, file) == [env |-> env, file |-> file]
Unsaid == Said(None, None)

(* An accepted configuration, spread over both sources.                    *)
Baseline ==
    [x \in Settings |->
        CASE x = <<"top", "bind_address">> -> Said(None, "addr")
          [] x = <<"top", "block_size_bytes">> -> Said(Text(4096), None)
          [] x = <<"top", "storage_backend">> -> Said(None, "local_fs")
          [] x = <<"top", "trusted_proxies">> -> Said(None, List(<<<<"net">>, <<"net">>>>))
          [] x = <<"local_fs", "root">> -> Said("absolute", None)
          [] x[2] = "issuer_url" -> Said(None, "https")
          [] x = <<"vault_oidc", "audience">> -> Said("a", None)
          [] x = <<"admin_oidc", "audience">> -> Said(None, "b")
          [] OTHER -> Unsaid]

Durations ==
    {Said(Text(0), Num(7)), Said(Text(5), Num(0)), Said(None, Num(-3)), Said(None, Num(MaxI64)),
     Said(Text(MaxU64), None), Said(Text(MaxU64 + 1), None), Said(Junk, Num(7)),
     Said(None, OtherValue)}

(* Other things to say of a setting.                                       *)
Variants(x) ==
    CASE x = <<"top", "bind_address">> -> {Unsaid, Said("junk", "addr"), Said("addr", "junk")}
      [] x = <<"top", "storage_backend">> -> {Unsaid, Said("none", "local_fs"), Said(None, "junk")}
      [] x = <<"top", "trusted_proxies">> ->
            {Unsaid, Said(Csv(<<"empty">>), List(<<<<"junk">>>>)),
             Said(Csv(<<"net", "padded">>), List(<<<<"net", "net">>>>)),
             Said(Csv(<<"net", "blank">>), None), Said(Csv(<<"blank">>), None),
             Said(None, List(<<>>)), Said(None, List(<<<<"padded">>>>)),
             Said(None, List(<<<<"net", "net">>>>)), Said(None, List(<<<<"empty">>>>)),
             Said(None, List(<<<<"net">>, <<"empty">>>>)), Said(None, List(<<<<"blank">>>>)),
             Said(None, Csv(<<"padded", "junk">>)), Said(None, Csv(<<"padded">>))}
      [] x = <<"local_fs", "root">> -> {Unsaid, Said("relative", "absolute"), Said(None, "relative")}
      [] x[2] = "issuer_url" -> {Unsaid, Said("https", "junk"), Said("http", None),
                                 Said(None, "query"), Said(None, "fragment")}
      [] x[2] = "audience" -> {Unsaid, Said("b", "a"), Said("a", "b"), Said(None, "")}
      [] x = <<"auth", "dpop_freshness_secs">> ->
            Durations \cup {Said(Text(MaxU64 - 60), None), Said(Text(20), Num(40))}
      [] x = <<"auth", "clock_skew_secs">> -> Durations \cup {Said(Text(61), Num(50))}
      [] x = <<"auth", "jti_replay_window_secs">> ->
            Durations \cup {Said(Text(89), Num(90)), Said(Text(90), Num(89)), Said(None, Num(91))}
      [] x = <<"auth", "max_replay_entries">> ->
            Durations \cup {Said(Text(1023), Num(1024)), Said(None, Num(1024)),
                            Said(Text(MaxUsize), None), Said(Text(MaxUsize + 1), None)}
      [] OTHER -> Durations

SourceOf(said, file, empty) ==
    [unicode |-> TRUE, file |-> file,
     env |-> [t \in Tables |-> [k \in KeysOf[t] |-> said[<<t, k>>].env]],
     partial |->
        [t \in Tables |->
            IF t # "top" /\ t \notin empty /\ \A k \in KeysOf[t] : said[<<t, k>>].file = None
            THEN None ELSE [k \in KeysOf[t] |-> said[<<t, k>>].file]]]

(* Settings that one check, or the merging of one table, reads together.   *)
Related ==
    {p \in Settings \X Settings :
        \/ p[1][1] = p[2][1] /\ p[1][1] \in {"auth", "vault_oidc", "admin_oidc"}
        \/ p = <<<<"top", "storage_backend">>, <<"local_fs", "root">>>>
        \/ p[1][1] = "vault_oidc" /\ p[2][1] = "admin_oidc"
        \/ p[1] = p[2]}

(* Up to two related settings changed, tables that are there but empty, a file     *)
(* that is not there or does not read, a variable that is not UTF-8.       *)
MCSources ==
    UNION {{SourceOf([Baseline EXCEPT ![p[1]] = v, ![p[2]] = w], "parsed", {}) :
               v \in Variants(p[1]), w \in Variants(p[2])} : p \in Related}
    \cup {SourceOf(Baseline, "parsed", empty) : empty \in SUBSET (Tables \ {"top"})}
    \cup {[SourceOf(Baseline, f, {}) EXCEPT !.partial = EmptyPartial] :
             f \in {"unset", "unreadable", "malformed"}}
    \cup {[SourceOf(Baseline, "parsed", {}) EXCEPT !.unicode = FALSE]}

OneSource == {SourceOf(Baseline, "parsed", {})}

Key(kty, alg, kid, key) ==
    [kty |-> kty, alg |-> alg, sound |-> TRUE, kid |-> kid, key |-> key]

(* Documents with repeated ids, keys without one, keys to pass over, keys  *)
(* that spoil a document at either end, and the octet key with an allowed  *)
(* algorithm.                                                              *)
MCDocuments ==
    {<<Key("RSA", "PS256", "i", "m")>>,
     <<Key("RSA", "PS256", NoKid, "m")>>,
     <<Key("RSA", "PS256", "i", "m"), Key("RSA", "PS256", "i", "n")>>,
     <<Key("EC", "ES256", "i", "m"), Key("RSA", "other", NoKid, "m")>>,
     <<Key("EC", "ES256", NoKid, "n"), Key("RSA", "PS256", NoKid, "n"), Key("EC", "ES256", "i", "m")>>,
     <<Key("RSA", "PS256", "i", "n"), [Key("EC", "ES256", "j", "m") EXCEPT !.sound = FALSE]>>,
     <<[Key("RSA", "other", "i", "n") EXCEPT !.sound = FALSE], Key("oct", "other", "i", "m")>>,
     <<Key("RSA", "PS256", "i", "n"), Key("oct", "PS256", "j", "m")>>}

=============================================================================
