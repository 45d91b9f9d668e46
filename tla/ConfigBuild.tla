----------------------------- MODULE ConfigBuild -----------------------------
(***************************************************************************)
(* From checked settings to a configuration (crates/config/src/loader.rs,  *)
(* Resolver::build, and the validate function of each section): defaults,  *)
(* the rules that bring a section into being, and the rules a              *)
(* configuration must meet before anything starts.                         *)
(*                                                                         *)
(* An Option is a set with at most one element.  The settings are a        *)
(* function from the name of each to an option.  Of a value only what a    *)
(* rule tells apart is kept: a path is in Files or not, a bind host is     *)
(* "loopback", "open" or "blank".                                          *)
(***************************************************************************)
EXTENDS Naturals, Sequences

CONSTANT Files  \* the paths at which there is a file

None == {}
Some(v) == {v}
The(option) == CHOOSE v \in option : TRUE
UnwrapOr(option, default) == IF option = None THEN default ELSE The(option)

SshSettings == {"ssh.host", "ssh.user", "ssh.password", "ssh.key", "ssh.key_passphrase",
                "ssh.known_hosts", "ssh.strict_host_key_checking"}
SettingNames ==
  {"transport", "database.backend", "database.name", "database.ssl", "database.ssl_ca",
   "database.query_timeout", "http.host", "http.allowed_origins", "http.allowed_hosts",
   "http.auth_token", "http.allow_unauthenticated", "pii.enable", "pii.categories",
   "pii.ner_enable", "pii.ner_model"} \cup SshSettings

-----------------------------------------------------------------------------
(* Sections.  A port that is 0 stands for "any" in an allow-list entry.    *)

AnyPort == 0
Origin(scheme, host, port) == [scheme |-> scheme, host |-> host, port |-> port]
DefaultOrigins == <<Origin("http", "localhost", AnyPort), Origin("https", "localhost", AnyPort)>>
DefaultHosts == <<"localhost">>

DatabaseOf(s) ==
  [backend |-> UnwrapOr(s["database.backend"], "mysql"),
   host |-> "direct",
   name |-> s["database.name"],
   ssl |-> UnwrapOr(s["database.ssl"], FALSE),
   ssl_ca |-> s["database.ssl_ca"],
   query_timeout |-> UnwrapOr(s["database.query_timeout"], 30)]

HttpOf(s) ==
  [host |-> UnwrapOr(s["http.host"], "loopback"),
   allowed_origins |-> UnwrapOr(s["http.allowed_origins"], DefaultOrigins),
   allowed_hosts |-> UnwrapOr(s["http.allowed_hosts"], DefaultHosts),
   auth_token |-> s["http.auth_token"],
   allow_unauthenticated |-> UnwrapOr(s["http.allow_unauthenticated"], FALSE)]

PiiOf(s) ==
  [categories |-> s["pii.categories"],
   ner_enabled |-> UnwrapOr(s["pii.ner_enable"], FALSE),
   ner_model |-> s["pii.ner_model"]]

(* The default known_hosts lies in the home directory, if there is one. *)
SshOf(s, home) ==
  [host |-> UnwrapOr(s["ssh.host"], ""),
   user |-> UnwrapOr(s["ssh.user"], ""),
   password |-> s["ssh.password"],
   key |-> s["ssh.key"],
   key_passphrase |-> s["ssh.key_passphrase"],
   known_hosts |-> IF s["ssh.known_hosts"] # None THEN s["ssh.known_hosts"]
                   ELSE IF home THEN Some("~/.ssh/known_hosts") ELSE None,
   strict |-> UnwrapOr(s["ssh.strict_host_key_checking"], "yes")]

ConfigOf(s, home) ==
  LET transport == UnwrapOr(s["transport"], "stdio") IN
    [transport |-> transport,
     database |-> DatabaseOf(s),
     http |-> IF transport = "http" THEN Some(HttpOf(s)) ELSE None,
     pii |-> IF UnwrapOr(s["pii.enable"], FALSE) THEN Some(PiiOf(s)) ELSE None,
     ssh |-> IF s["ssh.host"] # None THEN Some(SshOf(s, home)) ELSE None]

-----------------------------------------------------------------------------
(* Rules: the diagnostics of each section.                                 *)

When(broken, diagnostic) == IF broken THEN {diagnostic} ELSE {}
Duplicates(list) == \E i, j \in DOMAIN list : i < j /\ list[i] = list[j]
IsLoopback(http) == http.host = "loopback"
Trim(text) == IF text = "blank" THEN "" ELSE text

DatabaseErrors(db) ==
  When(db.backend = "sqlite" /\ UnwrapOr(db.name, "") = "", "MissingSqliteDbName")
  \cup When(db.ssl /\ \E path \in db.ssl_ca : path \notin Files, "SslFileNotFound")

(* Mutant: a blank token passes for a token. *)
HttpErrorsTrustingTokens(http) ==
  When(Trim(http.host) = "", "EmptyHttpHost")
  \cup When(~IsLoopback(http) /\ http.auth_token = None /\ ~http.allow_unauthenticated,
            "UnauthenticatedNonLoopbackBind")

HttpErrors(http) ==
  When(Trim(http.host) = "", "EmptyHttpHost")
  \cup When(\E token \in http.auth_token : Trim(token) = "", "EmptyHttpAuthToken")
  \cup When(Trim(http.host) # "" /\ ~IsLoopback(http) /\ http.auth_token = None
              /\ ~http.allow_unauthenticated, "UnauthenticatedNonLoopbackBind")
  \cup When(\E i \in DOMAIN http.allowed_origins : http.allowed_origins[i].scheme = "malformed",
            "InvalidAllowedOrigin")
  \cup When(http.allowed_hosts = <<>>, "EmptyAllowedHosts")
  \cup When(Duplicates(http.allowed_origins) \/ Duplicates(http.allowed_hosts), "DuplicateHttpEntry")

PiiErrors(pii) ==
  When(\E list \in pii.categories : list = <<>>, "EmptyCategories")
  \cup When(\E list \in pii.categories : Duplicates(list), "DuplicateCategory")
  \cup When(pii.ner_enabled /\ pii.ner_model = None, "PiiNerModelMissing")

SshErrors(ssh) ==
  When(ssh.host = "", "EmptySshHost")
  \cup When(ssh.user = "", "MissingSshUser")
  \cup When(ssh.password = None /\ ssh.key = None, "MissingSshAuth")
  \cup When(\E path \in ssh.key : path \notin Files, "SshKeyNotFound")
  \cup When(ssh.key_passphrase # None /\ ssh.key = None, "SshKeyPassphraseWithoutKey")
  \cup When(ssh.known_hosts = None /\ ssh.strict # "no", "MissingSshKnownHosts")

Over(section, Errors(_)) == UNION {Errors(x) : x \in section}

ValidateErrors(config) ==
  DatabaseErrors(config.database)
  \cup Over(config.http, HttpErrors)
  \cup Over(config.pii, PiiErrors)
  \cup When(config.ssh # None /\ config.database.backend = "sqlite", "SshSqliteUnsupported")
  \cup Over(config.ssh, SshErrors)

(* Mutant: SSH settings without ssh.host are passed over. *)
BuildErrorsOfSections(s, home) == ValidateErrors(ConfigOf(s, home))

BuildErrors(s, home) ==
  ValidateErrors(ConfigOf(s, home))
  \cup When(s["ssh.host"] = None /\ \E x \in SshSettings : s[x] # None, "MissingSshHost")
=============================================================================
