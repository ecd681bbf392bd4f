----------------------------- MODULE ConfigLoad -----------------------------
(***************************************************************************)
(* Loading the configuration and replacing it while the server runs: at    *)
(* the start, by ConfigReloader after a change of the file, and on request *)
(* of the admin API or of the web interface.  Loads may overlap, and files *)
(* change in between.                                                      *)
(*                                                                         *)
(* The text of a file is a sequence of parts: a setting, one whose value   *)
(* is a reference ${VAR:-default}, a plugin, the inclusion of another      *)
(* file, or something that is no YAML.  A text names an included file      *)
(* once, and no name is the beginning of another's.                        *)
(***************************************************************************)
EXTENDS ConfigData

CONSTANTS Paths,         \* the files of the configuration
          Main,          \* the one that is loaded
          Contents,      \* per path: the texts it can have
          Env,           \* the variables of the environment, which does not change
          Loads,         \* the loads that may be started
          MaxEdits       \* bound on the changes of files

VARIABLES file,          \* the text of each path
          load,          \* per load: [by, pc, text, config]
          stored,        \* the shared Config
          edits          \* number of changes so far

vars == <<file, load, stored, edits>>

\* The parts of a text.
Setting(name, v) == [part |-> "setting", name |-> name, value |-> v]
Reference(name, var, default) == [part |-> "reference", name |-> name, var |-> var, default |-> default]
PluginPart(p) == [part |-> "plugin", plugin |-> p]
Include(path) == [part |-> "include", path |-> path]
Broken == [part |-> "broken"]
NoText == <<[part |-> "no such file"]>>
NoDefault == [text |-> "no default"]

Load0 == [by |-> "nobody", pc |-> "idle", text |-> <<>>, config |-> DefaultConfig]

Init ==
  /\ file \in {f \in [Paths -> UNION {Contents[p] : p \in Paths}] : \A p \in Paths : f[p] \in Contents[p]}
  /\ load = [l \in Loads |-> Load0]
  /\ stored = DefaultConfig
  /\ edits = 0

-----------------------------------------------------------------------------
(* load_from_file.                                                         *)

\* substitute_env_vars: every reference to a variable is replaced by its value or
\* by the default; without either the load fails.
ValuesOf(var) == {v.value : v \in {e \in Env : e.name = var}}
Substitutable(text) ==
  \A i \in 1..Len(text) :
    text[i].part = "reference" => ValuesOf(text[i].var) # {} \/ text[i].default # NoDefault
SubstituteEnvVars(text) ==
  [i \in 1..Len(text) |->
     IF text[i].part # "reference" THEN text[i]
     ELSE Setting(text[i].name,
            IF ValuesOf(text[i].var) # {} THEN CHOOSE v \in ValuesOf(text[i].var) : TRUE ELSE text[i].default)]

Readable(text) == text # NoText /\ Substitutable(text)

Goto(l, pc) == load' = [load EXCEPT ![l].pc = pc]

\* load_from_file_internal: the file is read and its references are replaced.
Read(l, by) ==
  /\ load[l].pc = "idle"
  /\ load' = [load EXCEPT ![l] =
       IF Readable(file[Main]) THEN [Load0 EXCEPT !.by = by, !.pc = "expand", !.text = SubstituteEnvVars(file[Main])]
       ELSE [Load0 EXCEPT !.by = by, !.pc = "failed"]]
  /\ UNCHANGED <<file, stored, edits>>

\* ConfigReloader: its watcher has seen a change (see FileWatcher) and spawns the
\* reload, or reload() is called.
WatcherReload(l) == edits > 0 /\ Read(l, "watcher")
\* The requests.  The web interface refuses when it was given no configuration.
AdminReload(l) == Read(l, "admin")
WebReload(l) == Read(l, "web")

Includes(text) == {i \in 1..Len(text) : text[i].part = "include"}

\* process_includes: the first inclusion is replaced by the file, whose references
\* are replaced first.  Nothing is recorded of the files on the way.
ProcessIncludes(l) ==
  LET text == load[l].text IN
  /\ load[l].pc = "expand" /\ Includes(text) # {}
  /\ LET i == CHOOSE j \in Includes(text) : \A k \in Includes(text) : j <= k
         body == file[text[i].path] IN
     IF Readable(body)
     THEN load' = [load EXCEPT ![l].text =
                     SubSeq(text, 1, i - 1) \o SubstituteEnvVars(body) \o SubSeq(text, i + 1, Len(text))]
     ELSE Goto(l, "failed")
  /\ UNCHANGED <<file, stored, edits>>

\* serde_yaml::from_str: what is not given has its default, nothing may be given
\* twice.
Parsable(text) ==
  /\ Broken \notin ToSet(text)
  /\ \A i, j \in 1..Len(text) :
       text[i].part = "setting" /\ text[j].part = "setting" /\ text[i].name = text[j].name => i = j

Settings(text, name) == {i \in 1..Len(text) : text[i].part = "setting" /\ text[i].name = name}
Given(text, name, default) ==
  IF Settings(text, name) = {} THEN default ELSE text[CHOOSE i \in Settings(text, name) : TRUE].value.text
GivenAddr(text, name, default) ==
  IF Settings(text, name) = {} THEN default ELSE text[CHOOSE i \in Settings(text, name) : TRUE].value.addr

FromYaml(text) ==
  [DefaultConfig EXCEPT
     !.log.level = Given(text, "log.level", @),
     !.admin.addr = GivenAddr(text, "admin.addr", @),
     !.plugins = LET ps == SelectSeq(text, LAMBDA x : x.part = "plugin") IN [i \in 1..Len(ps) |-> ps[i].plugin]]

\* The orders in which the variables of the environment may be met.
Orders == SetToSeqs(Env)

\* load_from_yaml: parse, override, validate.  Those who call it validate again.
LoadFromYaml(l) ==
  /\ load[l].pc = "expand" /\ Includes(load[l].text) = {}
  /\ IF ~Parsable(load[l].text) THEN Goto(l, "failed")
     ELSE \E config \in Overridden(FromYaml(load[l].text), Orders) :
            IF Validate(config)
            THEN load' = [load EXCEPT ![l].pc = "loaded", ![l].config = config]
            ELSE Goto(l, "failed")
  /\ UNCHANGED <<file, stored, edits>>

\* The write lock is held for the assignment only.
Replace(l) ==
  /\ load[l].pc = "loaded" /\ Goto(l, "stored")
  /\ stored' = load[l].config
  /\ UNCHANGED <<file, edits>>

\* ConfigReloader::reload_config, and those of the admin API and the web
\* interface: the configuration is validated once more and replaced.
Store(l) == load[l].by = "watcher" /\ Validate(load[l].config) /\ Replace(l)
AdminStore(l) == load[l].by = "admin" /\ Validate(load[l].config) /\ Replace(l)
WebStore(l) == load[l].by = "web" /\ Validate(load[l].config) /\ Replace(l)

Edit(p) ==
  /\ edits < MaxEdits /\ edits' = edits + 1
  /\ \E t \in Contents[p] : t # file[p] /\ file' = [file EXCEPT ![p] = t]
  /\ UNCHANGED <<load, stored>>

Next ==
  \/ \E l \in Loads :
       \/ WatcherReload(l) \/ AdminReload(l) \/ WebReload(l)
       \/ ProcessIncludes(l) \/ LoadFromYaml(l)
       \/ Store(l) \/ AdminStore(l) \/ WebStore(l)
  \/ \E p \in Paths : Edit(p)

Spec == Init /\ [][Next]_vars

-----------------------------------------------------------------------------
(* Properties.                                                             *)

\* The value at a path of a plugin's arguments.
RECURSIVE At(_, _)
At(v, path) ==
  IF path = <<>> THEN v
  ELSE IF IsIndex(Head(path))
  THEN IF Has(v, "list") /\ IndexOf(Head(path)) <= Len(v.list)
       THEN At(v.list[IndexOf(Head(path))], Tail(path)) ELSE [absent |-> TRUE]
  ELSE IF Has(v, "map") /\ <<Head(path)>> \in DOMAIN v.map
       THEN At(v.map[<<Head(path)>>], Tail(path)) ELSE [absent |-> TRUE]

\* Two paths that part ways, at segments of one kind.
Apart(p, q) ==
  \E n \in 1..Len(p) :
    /\ n <= Len(q) /\ p[n] # q[n] /\ SubSeq(p, 1, n - 1) = SubSeq(q, 1, n - 1)
    /\ IsIndex(p[n]) = IsIndex(q[n])

ArgVars(config, i) == {v \in Env : IsPluginArg(v.name) /\ i \in Addressed(config, TagOf(v.name))}

\* What a loaded configuration has to be, given the parsed one: an argument that is
\* overridden by one variable has its value, in whatever order the variables came;
\* an argument apart from every overridden one keeps its own.
OverridesExact(parsed, config) ==
  /\ Len(config.plugins) = Len(parsed.plugins)
  /\ \A i \in 1..Len(parsed.plugins) :
       LET old == parsed.plugins[i].args
           new == config.plugins[i].args
           vars_i == ArgVars(parsed, i)
           paths == {PathOf(v.name) : v \in vars_i} IN
       /\ \A v \in vars_i :
            (\A w \in vars_i \ {v} : Apart(PathOf(v.name), PathOf(w.name)))
              => At(new, PathOf(v.name)) = ParseYamlValue(v.value)
       /\ Has(old, "map") =>
            \A v \in Env : IsPluginArg(v.name) /\ At(old, PathOf(v.name)) # [absent |-> TRUE]
                           /\ (\A p \in paths : Apart(PathOf(v.name), p))
                             => At(new, PathOf(v.name)) = At(old, PathOf(v.name))
       /\ Has(old, "map") =>
            \A k \in DOMAIN old.map : (\A p \in paths : <<Head(p)>> # k) => new.map[k] = old.map[k]

\* ConfigSound: the configuration in use is valid at all times, whatever the files,
\* the environment and the order in which the variables are met; each load changes
\* of the file exactly what the variables address.
ConfigSound ==
  /\ Validate(stored)
  /\ \A l \in Loads : load[l].pc = "loaded" => OverridesExact(FromYaml(load[l].text), load[l].config)
=============================================================================
