------------------------------ MODULE MCStartup -------------------------------
(* Instances of StandaloneRuntime for TLC: a machine per platform, with    *)
(* and without a proxy in the environment, and one that uses the standard  *)
(* way.                                                                    *)
EXTENDS StandaloneRuntime

Env(upper, lower, http) ==
    [v \in Range(PROXY_ENV_VARS) |->
        CASE v = "HTTPS_PROXY" -> upper
          [] v = "https_proxy" -> lower
          [] v = "HTTP_PROXY" -> http
          [] OTHER -> "unset"]

Process(platform, experimental, env, bundle, extra) ==
    [platform |-> platform, experimental |-> experimental, env |-> env,
     AWS_CA_BUNDLE |-> bundle, NODE_EXTRA_CA_CERTS |-> extra]

MCMachines ==
    { Process("linux", TRUE, Env("malformed", "unset", "url"), "bundle", "unset"),
      Process("linux", TRUE, Env("unset", "unset", "unset"), "mixed", "extra"),
      Process("linux", FALSE, Env("unset", "url", "url"), "bundle", "unset"),
      Process("linux", FALSE, Env("empty", "url", "unset"), "unset", "unset"),
      Process("darwin", TRUE, Env("unset", "url", "unset"), "unset", "bundle"),
      Process("darwin", TRUE, Env("empty", "unset", "malformed"), "extra", "unset"),
      Process("win32", TRUE, Env("unset", "unset", "unset"), "unset", "bundle"),
      Process("other", TRUE, Env("unset", "unset", "unset"), "unset", "unset") }

Open(key) == [is |-> "open", key |-> key, value |-> ""]
Close == [is |-> "close", key |-> "", value |-> ""]
Entry(key, value) == [is |-> "entry", key |-> key, value |-> value]

(* An HTTP proxy that is switched off and an HTTPS one, behind an array    *)
(* and a dictionary of an interface; an output that ends too early.        *)
Https ==
    << Open(""), Open("ExceptionsList"), Entry("0", "localhost"), Close,
       Entry("HTTPEnable", "0"), Entry("HTTPProxy", "old"), Entry("HTTPPort", "80"),
       Entry("HTTPSEnable", "1"), Entry("HTTPSProxy", "proxy"), Entry("HTTPSPort", "443"),
       Open("__SCOPED__"), Open("en0"), Entry("HTTPEnable", "1"), Close, Close, Close >>

Scutil(fails, output) == [fails |-> fails, output |-> output]

Registry(enable, form) ==
    [ProxyEnable |-> enable, form |-> form, scheme |-> "https", host |-> "proxy",
     hosts |-> [p \in {"socks"} |-> "proxy"]]

MCSettings ==
    [p \in {"linux", "darwin", "win32", "other"} |->
        CASE p = "darwin" -> { Scutil(FALSE, Https), Scutil(FALSE, SubSeq(Https, 1, 10)), Scutil(TRUE, <<>>) }
          [] p = "win32" ->
                 { Registry("0x0", "url"), Registry("0x1", "url"), Registry("0x1", "pairs"),
                   [Registry("0x1", "pairs") EXCEPT !.hosts = [h \in {"http", "socks"} |-> "proxy"]],
                   [Registry("0x1", "bare") EXCEPT !.host = "a b"] }
          [] OTHER -> {"none"}]

MCHolds ==
    [s \in {"a.crt", "b.crt", "roots", "user", "win-ca", "bundle", "mixed", "extra"} |->
        CASE s = "a.crt" -> <<"corp">> [] s = "b.crt" -> <<"corp", "old">>
          [] s = "roots" -> <<"corp">> [] s = "user" -> <<"old", "mine">>
          [] s = "win-ca" -> <<"corp", "old">>
          [] s = "bundle" -> <<"mine">>
          [] s = "mixed" -> <<"old", "mine">>
          [] s = "extra" -> <<>>]

MCFragile ==
    [p \in {"linux", "darwin", "win32", "other"} |->
        CASE p = "linux" -> {"certs", "bundle", "a.crt"}
          [] p = "darwin" -> {"security", "user", "bundle"}
          [] p = "win32" -> {"win-ca", "bundle"}
          [] OTHER -> {}]

MCListing == [d \in {"certs"} |-> {"b.crt"}]

=============================================================================
