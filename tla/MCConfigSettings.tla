--------------------------- MODULE MCConfigSettings ---------------------------
(* ConfigSettings for TLC: what texts there are, and three families of     *)
(* inputs: who overrides whom, what ${} reads, and which files are picked. *)
EXTENDS ConfigSettings, TLC

Literal(t) == t :> [name |-> "VAR", op |-> "literal", arg |-> ""]
Ref(t, name, op, arg) == t :> [name |-> name, op |-> op, arg |-> arg]
MCParts ==
  Literal("") @@ Literal(" ") @@ Literal("1") @@ Literal("word") @@ Literal("~/k")
    @@ Literal("c1,c2") @@ Literal("c2,c1,c2") @@ Literal("c1,") @@ Literal(":memory:")
    @@ Ref("${VAR}", "VAR", "plain", "") @@ Ref("${SETTING}", "SETTING", "plain", "")
    @@ Ref("${VAR:-word}", "VAR", ":-", "word") @@ Ref("${VAR-word}", "VAR", "-", "word")
    @@ Ref("${VAR:+word}", "VAR", ":+", "word") @@ Ref("${VAR+word}", "VAR", "+", "word")
    @@ Ref("${VAR:?word}", "VAR", ":?", "word") @@ Ref("${VAR?word}", "VAR", "?", "word")
    @@ Ref("${VAR:-${SETTING?}}", "VAR", ":-", "${SETTING?}") @@ Ref("${SETTING?}", "SETTING", "?", "")
    @@ Ref("${", "VAR", "invalid", "")
MCText == DOMAIN MCParts
MCNesting == [t \in MCText |-> CASE t = "${VAR:-${SETTING?}}" -> 2
                                 [] MCParts[t].op \in Taking /\ t # "${VAR:-${SETTING?}}" -> 1
                                 [] OTHER -> 0]
MCItems == [t \in MCText |-> CASE t \in {"", " "} -> <<"">>
                               [] t = "c1,c2" -> <<"c1", "c2">>
                               [] t = "c2,c1,c2" -> <<"c2", "c1", "c2">>
                               [] t = "c1," -> <<"c1", "">>
                               [] OTHER -> <<t>>]
MCAccepts == [k \in Kinds |-> CASE k \in {"bool", "int"} -> {"1"}
                                [] k = "enum" -> {"word"}
                                [] k = "list" -> MCText \ {"", " ", "c1,"}
                                [] OTHER -> MCText]

Line(key, form, raw) == [key |-> key, form |-> form, raw |-> raw]
EnvFile(statements) == [kind |-> "env", statements |-> statements]
ConfigFile(shape, type, text) == [kind |-> "config", shape |-> shape, type |-> type, text |-> text]
Environment(setting, var, config) == [SETTING |-> setting, VAR |-> var, CONFIG |-> config]
Input(kind, sqlite, process, envFlags, envList, configFlags, disk) ==
  [kind |-> kind, sqliteName |-> sqlite, process |-> process, envFlags |-> envFlags,
   envList |-> envList, configFlags |-> configFlags, disk |-> disk]

MCAbsolute == [n \in {"e1", "e2", "c2"} |-> CASE n = "e1" -> "d1" [] n = "e2" -> "d2" [] n = "c2" -> "d3"]
At(name) == Path("cwd", name)
Disk(contents) == [path \in {At(n) : n \in DOMAIN contents} |-> contents[path.name]]

Sets(t) == EnvFile(IF t = Unset THEN <<>> ELSE <<Line("SETTING", "quoted", t)>>)
Nodes == {<<"absent", "">>, <<"null", "">>, <<"tagged", "">>, <<"int", "1">>}
           \cup {<<"str", t>> : t \in {"", "1", "word"}}
Overriding ==
  {Input(k[1], k[2], Environment(p, Unset, Unset), <<"e1", "e2">>, Unset, <<"c1", "c2">>,
         Disk([e1 |-> Sets(t1), e2 |-> Sets(t2), c1 |-> ConfigFile(IF odd = "c1" THEN "malformed" ELSE "good", n1[1], n1[2]),
               c2 |-> ConfigFile(IF odd = "c2" THEN "malformed" ELSE "good", n2[1], n2[2])])) :
     k \in {<<"text", TRUE>>, <<"homePath", FALSE>>, <<"int", FALSE>>, <<"enum", FALSE>>},
     p \in {Unset, "", "1"}, t1 \in {Unset, "1", "word"}, t2 \in {Unset, "", "~/k"},
     n1 \in Nodes, n2 \in Nodes, odd \in {"none", "c1", "c2"}}

Statements == {Line("VAR", "expand", t) : t \in {"", "${VAR:-${SETTING?}}"}}
                \cup {Line("VAR", "bare", ""), Line("SETTING", "expand", "${VAR}"), Line("SETTING", "quoted", "1"),
                      Line("VAR", "open", ""), Line("VAR", "bad", "")}
Interpolating ==
  {Input("list", FALSE, Environment(p, v, Unset), <<"e1", "e2">>, Unset, <<"c1">>,
         Disk([e1 |-> EnvFile(<<s1, s2>>), e2 |-> EnvFile(<<s3>>), c1 |-> ConfigFile("good", "str", t)])) :
     p \in {Unset, ""}, v \in {Unset, "", "1"}, s1 \in Statements, s2 \in Statements, s3 \in Statements,
     t \in {"${VAR}", "${VAR:-word}", "${VAR-word}", "${VAR:+word}", "${VAR+word}", "${VAR:?word}", "${VAR?word}", "${"}}

\* c1 is an env file here and e1 a list of config files relative to it.
Flags(a, b) == {<<>>, <<"">>, <<a>>, <<b>>, <<a, b>>, <<b, a, b>>, <<a, "">>, <<a, a, b>>}
Listed(list) == EnvFile(IF list = Unset THEN <<>> ELSE <<Line("CONFIG", "quoted", list)>>)
Picking ==
  {Input("path", FALSE, Environment(Unset, Unset, c), f, l, g,
         Disk([c1 |-> Listed(Unset), c2 |-> Listed(l2), word |-> ConfigFile("broken", "str", "1")])
           @@ (Path("cwd", "1") :> ConfigFile("good", "str", "word"))
           @@ (Path("d3", "1") :> ConfigFile("good", "str", "~/k"))) :
     c \in {Unset, "", "word", "1"}, l \in {Unset, "", " ", "c1,c2", "c2,c1,c2", "c1,"},
     f \in Flags("c1", "c2"), g \in Flags("word", "1"), l2 \in {Unset, "1", ""}}

MCInputs == <<Overriding, Interpolating, Picking>>
=============================================================================
