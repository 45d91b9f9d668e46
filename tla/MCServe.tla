------------------------------- MODULE MCServe -------------------------------
(* Settings around a few that are valid: one group of them varies at a     *)
(* time, with the transport, the redaction and the tunnel.                 *)
EXTENDS Serve

Unset == [x \in SettingNames |-> None]
Opt(values) == {None} \cup {Some(v) : v \in values}

App == Origin("http", "app", 8080)
Page == Origin("http", "page", AnyPort)
Malformed == Origin("malformed", "", AnyPort)

WithTunnel(s) ==
  [s EXCEPT !["ssh.host"] = Some("bastion"), !["ssh.user"] = Some("me"), !["ssh.password"] = Some("pw")]

HttpBase == [Unset EXCEPT !["transport"] = Some("http")]
HttpDoors ==
  {[HttpBase EXCEPT !["http.host"] = h, !["http.auth_token"] = t, !["http.allow_unauthenticated"] = u] :
     h \in {None, Some("open"), Some("blank")}, t \in Opt({"secret", "blank"}), u \in Opt({TRUE})}
HttpLists ==
  {[HttpBase EXCEPT !["http.allowed_origins"] = o, !["http.allowed_hosts"] = h] :
     o \in Opt({<<>>, <<App>>, <<Malformed>>, <<App, App>>}), h \in Opt({<<>>, <<"localhost", "proxy">>})}
Databases ==
  {[Unset EXCEPT !["database.backend"] = b, !["database.name"] = n, !["database.ssl"] = s,
                 !["database.ssl_ca"] = f, !["database.query_timeout"] = Some(0)] :
     b \in Opt({"sqlite"}), n \in {Some(""), Some("app")}, s \in Opt({TRUE}), f \in {Some("ca.pem"), Some("gone.pem")}}
Ssh ==
  {[Unset EXCEPT !["ssh.host"] = h, !["ssh.user"] = u, !["ssh.known_hosts"] = kh] :
     h \in Opt({"", "bastion"}), u \in Opt({"me"}), kh \in Opt({"kh"})}
  \cup {[WithTunnel(Unset) EXCEPT !["ssh.password"] = p, !["ssh.key"] = k, !["ssh.key_passphrase"] = pp] :
     p \in Opt({"pw"}), k \in {None, Some("nokey")}, pp \in Opt({"pp"})}
  \cup {[WithTunnel(Unset) EXCEPT !["ssh.password"] = None, !["ssh.key"] = Some("key"),
                                  !["ssh.strict_host_key_checking"] = Some("no")]}
Pii ==
  {[Unset EXCEPT !["pii.enable"] = e, !["pii.categories"] = c, !["pii.ner_enable"] = n,
                 !["pii.ner_model"] = m] :
     e \in Opt({TRUE}), c \in Opt({<<>>, <<"personal">>, <<"personal", "personal">>}),
     n \in Opt({TRUE}), m \in Opt({"model"})}
Mixed ==
  {WithTunnel([HttpBase EXCEPT !["pii.enable"] = Some(TRUE)]),
   WithTunnel([Unset EXCEPT !["pii.enable"] = Some(TRUE), !["pii.ner_enable"] = Some(TRUE),
                            !["pii.ner_model"] = Some("model")]),
   [WithTunnel(Unset) EXCEPT !["database.backend"] = Some("sqlite"), !["database.name"] = Some("app")]}

MCSettings == HttpDoors \cup HttpLists \cup Databases \cup Ssh \cup Pii \cup Mixed
MCFiles == {"ca.pem", "key"}

Request(origin, host, auth) == [origin |-> origin, host |-> host, auth |-> auth]
MCRequests ==
  {Request(None, "localhost", None), Request(None, "localhost", Some("blank")),
   Request(Some(App), "proxy", None), Request(Some(Page), "localhost", None),
   Request(Some(Origin("http", "localhost", 3000)), "localhost", Some("secret"))}
=============================================================================
