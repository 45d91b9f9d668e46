---------------------------- MODULE ConfigSettings ----------------------------
(***************************************************************************)
(* How one setting gets its value (crates/config/src: settings/, env.rs,   *)
(* dotenv.rs, template.rs, interpolate.rs): the env files and the config   *)
(* files are picked, read one by one and interpolated, then every value of *)
(* every source is checked and the highest one wins.                       *)
(*                                                                         *)
(* Three variables: SETTING is the one of the setting, VAR any other one,  *)
(* CONFIG names the config files (DBMCP_CONFIG_FILE). A text is a token;   *)
(* the constants say what its template is, how it splits at commas and     *)
(* which kinds of settings take it.                                        *)
(***************************************************************************)
EXTENDS Naturals, Sequences, FiniteSets

CONSTANTS Text,      \* the texts a source may hold
          Parts,     \* text -> [name, op, arg], its ${} template
          Nesting,   \* text -> how deep its templates nest
          Items,     \* text -> its comma-separated items, trimmed
          Accepts,   \* kind -> the texts that cast to it
          Absolute,  \* file names that are absolute -> their directory
          Inputs     \* the loads that are looked at: a sequence of sets

Empty == ""
Unset == "(unset)"
Bad == "(bad)"
Names == {"SETTING", "VAR", "CONFIG"}
Kinds == {"text", "path", "homePath", "bool", "int", "enum", "list"}
Taking == {":-", "-", ":+", "+", ":?", "?"}
Ops == Taking \cup {"literal", "plain", "invalid"}

Forms == {"bad", "open", "bare", "quoted", "expand"}
Types == {"absent", "null", "tagged", "str"} \cup Kinds

(* An argument is a part of its template. *)
ASSUME TextAssumption ==
  /\ Empty \in Text /\ {Unset, Bad} \cap Text = {}
  /\ Parts \in [Text -> [name : Names, op : Ops, arg : Text]]
  /\ Nesting \in [Text -> Nat]
  /\ \A t \in Text : Parts[t].op \in Taking => Nesting[Parts[t].arg] < Nesting[t]
  /\ Items \in [Text -> Seq(STRING)]
  /\ Accepts \in [Kinds -> SUBSET Text]

Statement == [key : Names, form : Forms, raw : Text]
EnvFiles == [kind : {"env"}, statements : Seq(Statement)]
ConfigFiles == [kind : {"config"}, shape : {"good", "malformed", "broken"}, type : Types, text : Text]
ASSUME InputsAssumption ==
  \A i \in DOMAIN Inputs : \A x \in Inputs[i] :
    /\ x.kind \in Kinds /\ x.sqliteName \in BOOLEAN
    /\ x.process \in [Names -> Text \cup {Unset}] /\ x.envList \in Text \cup {Unset}
    /\ {x.envFlags, x.configFlags} \subseteq Seq(STRING)
    /\ \A path \in DOMAIN x.disk : x.disk[path] \in EnvFiles \cup ConfigFiles

VARIABLES
  input,      \* the options, the environment and the files: constant
  progress,   \* what load does next
  todo,       \* picked files that are not read yet
  layers,     \* EnvLayers: the env files read, with their entries
  files,      \* ConfigFiles: the config files read, interpolated
  malformed,  \* the config file whose structure stopped the reading
  warned,     \* history: unset variables that were warned about
  winner,     \* what wins: its value, base directory and source
  errors      \* what is wrong, in the order reported
loadVars == <<input, progress, todo, layers, files, malformed, warned, winner, errors>>

NoWinner == [value |-> Unset, base |-> Empty, from |-> "default", place |-> 0]

LoadInit ==
  /\ \E i \in DOMAIN Inputs : input \in Inputs[i]
  /\ progress = "pickEnv"
  /\ todo = <<>> /\ layers = <<>> /\ files = <<>>
  /\ malformed = {}
  /\ warned = {}
  /\ winner = NoWinner
  /\ errors = <<>>

-----------------------------------------------------------------------------
(* template.rs. The outcome of a substitution: its value, the unset names  *)
(* read without an operator, and whether it fails. An argument is          *)
(* substituted only where it is used.                                      *)
Substitute(text, lookup) ==
  LET value[t \in Text] ==
        LET p == Parts[t]
            v == lookup[p.name]
            held == [text |-> IF v = Unset THEN Empty ELSE v, unset |-> {}, ok |-> TRUE]
            arg == value[p.arg]
            absent == IF p.op \in {":-", ":+", ":?"} THEN v \in {Unset, Empty} ELSE v = Unset
        IN CASE p.op = "literal" -> [text |-> t, unset |-> {}, ok |-> TRUE]
             [] p.op = "invalid" -> [text |-> Empty, unset |-> {}, ok |-> FALSE]
             [] p.op = "plain" -> [held EXCEPT !.unset = IF v = Unset THEN {p.name} ELSE {}]
             [] p.op \in {":-", "-"} -> IF absent THEN arg ELSE held
             [] p.op \in {":+", "+"} -> IF absent THEN held ELSE arg
             [] p.op \in {":?", "?"} -> IF absent THEN [arg EXCEPT !.ok = FALSE] ELSE held
  IN value[text]

Put(entries, name, text) == [n \in DOMAIN entries \cup {name} |-> IF n = name THEN text ELSE entries[n]]
Held(entries, name) == IF name \in DOMAIN entries THEN entries[name] ELSE Unset
NoEntries == [n \in {} |-> Empty]

(* A bare KEY takes what is there. *)
Inherit(entries, name, text) == IF text = Unset THEN entries ELSE Put(entries, name, text)

(* EnvLayers::latest and var, and as if the first file counted. *)
Earliest(ls, name) ==
  LET setting == {i \in DOMAIN ls : name \in DOMAIN ls[i].entries}
  IN IF setting = {} THEN Unset ELSE ls[CHOOSE i \in setting : \A j \in setting : j >= i].entries[name]
Latest(ls, name) ==
  LET setting == {i \in DOMAIN ls : name \in DOMAIN ls[i].entries}
  IN IF setting = {} THEN Unset ELSE ls[CHOOSE i \in setting : \A j \in setting : j <= i].entries[name]
Process(name) == input.process[name]
Var(name) == IF Process(name) # Unset THEN Process(name) ELSE Latest(layers, name)

(* dotenv::parse: the statements of one file in order. A bad line and a    *)
(* failed template are noted and reading goes on; an unterminated quote    *)
(* stops it.                                                               *)
Lookup(entries) ==
  [n \in Names |-> IF Process(n) = Unset /\ n \in DOMAIN entries THEN entries[n] ELSE Var(n)]
ReadStatement(acc, s) ==
  LET lookup == Lookup(acc.entries)
      new == Substitute(s.raw, lookup)
  IN CASE acc.stopped -> acc
       [] ~acc.stopped /\ s.form = "bad" -> [acc EXCEPT !.ok = FALSE]
       [] ~acc.stopped /\ s.form = "open" -> [acc EXCEPT !.ok = FALSE, !.stopped = TRUE]
       [] ~acc.stopped /\ s.form = "bare" -> [acc EXCEPT !.entries = Inherit(@, s.key, lookup[s.key])]
       [] ~acc.stopped /\ s.form = "quoted" -> [acc EXCEPT !.entries = Put(@, s.key, s.raw)]
       [] ~acc.stopped /\ s.form = "expand" ->
            IF new.ok THEN [acc EXCEPT !.entries = Put(@, s.key, new.text), !.unset = @ \cup new.unset]
            ELSE [acc EXCEPT !.ok = FALSE]
ParseEnv(statements) ==
  LET parsed[i \in 0..Len(statements)] ==
        IF i = 0 THEN [entries |-> NoEntries, unset |-> {}, ok |-> TRUE, stopped |-> FALSE]
        ELSE ReadStatement(parsed[i - 1], statements[i])
  IN parsed[Len(statements)]

-----------------------------------------------------------------------------
(* pick::files: the paths a list of names stands for. Flags replace a list *)
(* from the environment; of a repeated path the last place counts,         *)
(* not the first.                                                          *)
Rank(S, R, x) == Cardinality({y \in S : <<y, x>> \in R})
InOrder(S, R) == [k \in 1..Cardinality(S) |-> CHOOSE x \in S : Rank(S, R, x) = k - 1]
LastPlaces(paths) ==
  LET last == {i \in DOMAIN paths : \A j \in DOMAIN paths : paths[j] = paths[i] => j <= i}
      order == InOrder(last, {pair \in last \X last : pair[1] < pair[2]})
  IN [k \in DOMAIN order |-> paths[order[k]]]

Path(dir, name) == [dir |-> IF name \in DOMAIN Absolute THEN Absolute[name] ELSE dir, name |-> name]

(* The list's names against `base`, "failed" for an empty flag or entry.   *)
Picked(flags, list, base) ==
  LET named == IF flags # <<>> THEN flags ELSE IF list \in {Unset, Empty, " "} THEN <<>> ELSE Items[list]
      dir == IF flags # <<>> THEN "cwd" ELSE base
  IN [failed |-> \E i \in DOMAIN named : named[i] = Empty,
      paths |-> LastPlaces([i \in DOMAIN named |-> Path(dir, named[i])])]

(* A reading failure ends the load. *)
Abort(what) ==
  /\ progress' = "failed"
  /\ errors' = <<[what |-> what, from |-> "file", place |-> 0]>>

(* read_file: a directory, or nothing, cannot be read. *)
Exists(path, kind) == path \in DOMAIN input.disk /\ input.disk[path].kind = kind

PickEnvFiles ==
  /\ progress = "pickEnv"
  /\ LET picked == Picked(input.envFlags, input.envList, "cwd")
     IN IF picked.failed THEN Abort("list") /\ UNCHANGED todo
        ELSE todo' = picked.paths /\ progress' = "readEnv" /\ UNCHANGED errors
  /\ UNCHANGED <<input, layers, files, malformed, warned, winner>>

(* One turn of EnvLayers::read. The warnings of a file that fails are lost. *)
ReadEnvFile ==
  /\ progress = "readEnv" /\ todo # <<>>
  /\ LET path == Head(todo)
         parsed == ParseEnv(input.disk[path].statements)
     IN /\ todo' = Tail(todo)
        /\ IF ~Exists(path, "env") THEN Abort("read") /\ UNCHANGED <<layers, warned>>
           ELSE IF ~parsed.ok THEN Abort("envFile") /\ UNCHANGED <<layers, warned>>
           ELSE /\ layers' = Append(layers, [dir |-> path.dir, entries |-> parsed.entries])
                /\ warned' = warned \cup parsed.unset
                /\ UNCHANGED <<progress, errors>>
  /\ UNCHANGED <<input, files, malformed, winner>>

-----------------------------------------------------------------------------
(* EnvLayers::candidates: the non-empty values of a name, highest first.   *)
(* Of the env files only the last that sets the name may win, and none     *)
(* may if it sets it empty.                                                *)
Candidate(from, place, type, text, dir, eligible) ==
  [from |-> from, place |-> place, type |-> type, text |-> text, dir |-> dir, eligible |-> eligible]

MayWinIfHeld(name, i) == name \in DOMAIN layers[i].entries
MayWin(name, i) == \A j \in DOMAIN layers : name \in DOMAIN layers[j].entries => j <= i
EnvCandidates(name) ==
  {c \in {Candidate("process", 0, "str", Process(name), Empty, TRUE)}
           \cup {Candidate("envFile", i, "str", Held(layers[i].entries, name), layers[i].dir, MayWin(name, i)) :
                  i \in DOMAIN layers} :
     c.text \notin {Unset, Empty}}

(* The process environment is above the env files, those are above the     *)
(* config files, and a later file is above an earlier one.                 *)
Level == [config |-> 1, envFile |-> 2, process |-> 3]
Above(c, d) == Level[c.from] > Level[d.from] \/ (c.from = d.from /\ c.place > d.place)
Highest(candidates) == CHOOSE c \in candidates : \A d \in candidates \ {c} : Above(c, d)

(* The list of config files; one from an env file is relative to it.       *)
PickConfigFiles ==
  /\ progress = "readEnv" /\ todo = <<>>
  /\ LET lists == {c \in EnvCandidates("CONFIG") : c.eligible}
         list == IF lists = {} THEN Unset ELSE Highest(lists).text
         base == IF lists = {} \/ Highest(lists).from = "process" THEN "cwd" ELSE Highest(lists).dir
         picked == Picked(input.configFlags, list, base)
     IN IF picked.failed THEN Abort("list") /\ UNCHANGED todo
        ELSE todo' = picked.paths /\ progress' = "readConfig" /\ UNCHANGED errors
  /\ UNCHANGED <<input, layers, files, malformed, warned, winner>>

(* One turn of ConfigFiles::read. A file of the wrong shape is the last    *)
(* one read; its values are still checked.                                 *)
ReadConfigFile ==
  /\ progress = "readConfig" /\ todo # <<>>
  /\ LET path == Head(todo)
         file == input.disk[path]
         new == IF file.type = "str" THEN Substitute(file.text, [n \in Names |-> Var(n)])
                ELSE [text |-> file.text, unset |-> {}, ok |-> TRUE]
     IN /\ IF ~Exists(path, "config") THEN Abort("read") /\ UNCHANGED <<todo, files, malformed, warned>>
           ELSE IF file.shape = "broken" THEN Abort("parse") /\ UNCHANGED <<todo, files, malformed, warned>>
           ELSE /\ warned' = warned \cup new.unset
                /\ IF ~new.ok THEN Abort("interpolate") /\ UNCHANGED <<todo, files, malformed>>
                   ELSE /\ files' = Append(files, [dir |-> path.dir, type |-> file.type, text |-> new.text])
                        /\ malformed' = IF file.shape = "malformed" THEN {Len(files) + 1} ELSE {}
                        /\ todo' = IF file.shape = "malformed" THEN <<>> ELSE Tail(todo)
                        /\ UNCHANGED <<progress, errors>>
  /\ UNCHANGED <<input, layers, winner>>

-----------------------------------------------------------------------------
(* Kind::check: the text of a value, Unset, or Bad. Text is cast to the    *)
(* kind, YAML of another type is not.                                      *)
Check(kind, type, text) ==
  IF type = "null" \/ (type = "str" /\ text = Empty /\ kind \in {"int", "bool", "list"}) THEN Unset
  ELSE IF type \in {"str", kind} /\ text \in Accepts[kind] THEN text ELSE Bad

(* Where a relative path starts: at its file, or as given if it is from    *)
(* the process environment; "home" after a tilde.                          *)
Base(kind, from, text, dir) ==
  CASE kind \notin {"path", "homePath"} \/ text = Empty -> Empty
    [] kind \in {"path", "homePath"} /\ text = "~/k" -> IF from = "process" /\ kind = "path" THEN Empty ELSE "home"
    [] OTHER -> dir

(* ConfigFiles::candidates: all of them eligible. *)
FileCandidates ==
  {Candidate("config", i, files[i].type, files[i].text, files[i].dir, TRUE) :
     i \in {j \in DOMAIN files : files[j].type # "absent"}}

(* InputError::order: config files, env files, the process environment.    *)
Before(d, e) ==
  \/ Level[d.from] < Level[e.from]
  \/ d.from = e.from /\ d.place < e.place
  \/ d.from = e.from /\ d.place = e.place /\ d.what = "structure" /\ e.what = "value"

(* The losers are checked as well; and as if only those that may win were. *)
Value(c) == Check(input.kind, c.type, c.text)
WrongEligible(all) == {c \in all : c.eligible /\ Value(c) = Bad}
Wrong(all) == {c \in all : Value(c) = Bad}

CheckSettings ==
  /\ progress = "readConfig" /\ todo = <<>>
  /\ LET all == EnvCandidates("SETTING") \cup FileCandidates
         winners == {c \in all : c.eligible /\ Value(c) \notin {Unset, Bad}}
         wrong == {[what |-> "value", from |-> c.from, place |-> c.place] : c \in Wrong(all)}
                  \cup {[what |-> "structure", from |-> "config", place |-> i] : i \in malformed}
     IN IF wrong # {}
        THEN /\ progress' = "failed"
             /\ errors' = InOrder(wrong, {pair \in wrong \X wrong : Before(pair[1], pair[2])})
             /\ UNCHANGED winner
        ELSE /\ progress' = "build"
             /\ winner' = IF winners = {} THEN NoWinner
                          ELSE LET c == Highest(winners)
                               IN [value |-> Value(c), base |-> Base(input.kind, c.from, c.text, c.dir),
                                   from |-> c.from, place |-> c.place]
             /\ UNCHANGED errors
  /\ UNCHANGED <<input, todo, layers, files, malformed, warned>>

(* Resolver::database: the name of a SQLite database that a file sets is   *)
(* a path as well.                                                         *)
Build ==
  /\ progress = "build"
  /\ progress' = "loaded"
  /\ winner' =
       IF input.sqliteName /\ winner.from \in {"envFile", "config"} /\ winner.value \notin {Empty, ":memory:"}
       THEN [winner EXCEPT !.base =
               IF winner.value = "~/k" THEN "home"
               ELSE IF winner.from = "envFile" THEN layers[winner.place].dir ELSE files[winner.place].dir]
       ELSE winner
  /\ UNCHANGED <<input, todo, layers, files, malformed, warned, errors>>

LoadNext == PickEnvFiles \/ ReadEnvFile \/ PickConfigFiles \/ ReadConfigFile \/ CheckSettings \/ Build

LoadSpec == LoadInit /\ [][LoadNext]_loadVars

-----------------------------------------------------------------------------
(* Every variable keeps its type. *)
Entries == UNION {[D -> Text] : D \in SUBSET Names}
Wrongs == {"list", "read", "envFile", "parse", "interpolate", "value", "structure"}
Dirs == {"cwd"} \cup {Absolute[n] : n \in DOMAIN Absolute}
LoadTypeOK ==
  /\ \E i \in DOMAIN Inputs : input \in Inputs[i]
  /\ progress \in {"pickEnv", "readEnv", "readConfig", "build", "loaded", "failed"}
  /\ todo \in Seq([dir : Dirs, name : STRING])
  /\ layers \in Seq([dir : Dirs, entries : Entries])
  /\ files \in Seq([dir : Dirs, type : Types, text : Text])
  /\ malformed \subseteq DOMAIN files
  /\ warned \subseteq Names
  /\ winner \in [value : Text \cup {Unset}, base : Dirs \cup {Empty, "home"},
                 from : DOMAIN Level \cup {"default"}, place : Nat]
  /\ winner.from = "envFile" => winner.place \in DOMAIN layers
  /\ winner.from = "config" => winner.place \in DOMAIN files
  /\ errors \in Seq([what : Wrongs, from : DOMAIN Level \cup {"file"}, place : Nat])
  /\ progress = "failed" <=> errors # <<>>

(* config-file.mdx: "The files fold into one set of keys", over which the  *)
(* process environment and under which the config files stand.             *)
Overlaid(upper, lower) ==
  [n \in DOMAIN upper \cup DOMAIN lower |-> IF n \in DOMAIN upper THEN upper[n] ELSE lower[n]]
Folded ==
  LET fold[i \in 0..Len(layers)] == IF i = 0 THEN NoEntries ELSE Overlaid(layers[i].entries, fold[i - 1])
  IN fold[Len(layers)]
Documented ==
  LET setting == {i \in DOMAIN files : files[i].type # "absent"
                                     /\ Check(input.kind, files[i].type, files[i].text) # Unset}
  IN IF Process("SETTING") \notin {Unset, Empty} THEN Process("SETTING")
     ELSE IF Held(Folded, "SETTING") \notin {Unset, Empty} THEN Folded["SETTING"]
     ELSE IF setting = {} THEN Unset
     ELSE files[CHOOSE i \in setting : \A j \in setting : j <= i].text

(* A setting has the value that the documentation says: an empty key in a  *)
(* later env file uncovers the config files but not an earlier env file, a *)
(* null or empty one in a config file uncovers the earlier files, and a    *)
(* path starts at the file that sets it.                                   *)
WinnerAsDocumented ==
  progress = "loaded" =>
    /\ winner.value = Documented
    /\ winner.base \notin {Empty, "home"} =>
         winner.base = IF winner.from = "envFile" THEN layers[winner.place].dir ELSE files[winner.place].dir

(* "Every value in every file is checked, including values a later file    *)
(* overrides": a load succeeds only if no source that was read holds a     *)
(* value of the wrong kind, and one that fails for its values names each   *)
(* source that does, and no other.                                         *)
WrongSources ==
  {<<"process", 0>> : x \in {y \in {1} : Process("SETTING") \notin Accepts[input.kind] \cup {Unset, Empty}}}
  \cup {<<"envFile", i>> : i \in {j \in DOMAIN layers :
           Held(layers[j].entries, "SETTING") \notin Accepts[input.kind] \cup {Unset, Empty}}}
  \cup {<<"config", i>> : i \in {j \in DOMAIN files : files[j].type # "absent"
                               /\ Check(input.kind, files[j].type, files[j].text) = Bad}}
EveryBadValueReported ==
  LET named == {<<errors[i].from, errors[i].place>> : i \in {j \in DOMAIN errors : errors[j].what = "value"}}
  IN /\ progress = "loaded" => WrongSources = {}
     /\ progress = "failed" /\ (\A i \in DOMAIN errors : errors[i].from # "file") => named = WrongSources

(* A ${} reference to a setting's own variable in a config file and the    *)
(* setting see the same text, unless the process environment holds an      *)
(* empty one: that hides the env files from the reference only.            *)
ReferencesSeeTheSetting ==
  LET env == {c \in EnvCandidates("SETTING") : c.eligible}
  IN env # {} /\ Process("SETTING") # Empty => Var("SETTING") = Highest(env).text

=============================================================================
