--------------------------- MODULE PluginBuilder ---------------------------
(***************************************************************************)
(* How a configuration becomes a graph of plugin objects                   *)
(* (src/src/plugin/builder.rs, driven by src/src/main.rs).                 *)
(*                                                                         *)
(* Plugins are shared objects (Arc<dyn Plugin>) that refer to each other.  *)
(* build() creates one object per configuration entry, in order; a         *)
(* sequence is only a placeholder without steps at that time.              *)
(* resolve_references() then replaces every sequence by a new object whose *)
(* steps capture the objects registered under the names they mention, and  *)
(* finally fills in the children of the fallback objects in place.         *)
(*                                                                         *)
(* The heap holds the objects.  Identity matters: a step keeps the object  *)
(* it captured when its name is registered anew later.                     *)
(***************************************************************************)
EXTENDS Naturals, Sequences, FiniteSets

CONSTANT Configs        \* the configurations to choose from: sequences of
                        \* entries [name, type, format, steps, children, error_only]

VARIABLES config,       \* the configuration file, fixed once read
          stage,        \* what main() is doing
          pos,          \* the entry its current loop is at
          plugins,      \* PluginBuilder.plugins: name -> object
          heap,         \* the objects: identity -> contents
          resolveErr    \* resolve_references() returned an error

buildVars == <<config, stage, pos, plugins, heap, resolveErr>>

\* The types of an entry: "broken" stands for an unknown type and for settings
\* its factory refuses.  The flow plugins have no factory for entries, so that
\* they are steps of a sequence only.
EntryTypes == {"sequence", "fallback", "server", "plugin", "cache", "broken"}
StepOps == {"ref", "fallback", "plugin", "accept", "return", "reject", "jump", "goto"}

IsSeq(s) == s \in Seq({s[i] : i \in DOMAIN s})

ASSUME ConfigsAssumption ==
  \A cf \in Configs :
    /\ IsSeq(cf)
    /\ \A n \in DOMAIN cf :
         /\ cf[n].type \in EntryTypes
         /\ cf[n].type = "fallback" => IsSeq(cf[n].children)
         /\ cf[n].type = "sequence" =>
              /\ IsSeq(cf[n].steps)
              /\ \A i \in DOMAIN cf[n].steps :
                   /\ cf[n].steps[i].op \in StepOps
                   /\ cf[n].steps[i].op = "fallback" => IsSeq(cf[n].steps[i].names)

Stages == {"build", "sequences", "fallbacks", "embedded", "serving"}

(***************************************************************************)
(* Identities: the object build() makes for the n-th entry, the sequence   *)
(* that replaces it, and the plugin made for the i-th step of that         *)
(* sequence (`exec: jump x`, `exec: fallback a,b`).                        *)
(***************************************************************************)
Built(n) == <<n, 0>>
Rebuilt(n) == <<n, 1>>
Inline(n, i) == <<n, 1 + i>>
IsInline(id) == id[2] > 1

Known(n) == n \in DOMAIN plugins
Kind(id) == heap[id].kind

\* HashMap::insert.
Insert(f, x, v) == [y \in DOMAIN f \cup {x} |-> IF y = x THEN v ELSE f[y]]

\* The members of a set of positions, in ascending order.
InOrder(S) ==
  [k \in 1..Cardinality(S) |-> CHOOSE i \in S : Cardinality({j \in S : j <= i}) = k]

\* The object build() creates: through the factory of its type, or for the
\* types the builder knows itself: an empty sequence, and an accept plugin in
\* the place of each server.
NewObject(c) ==
  CASE c.type = "sequence" -> [kind |-> "sequence", steps |-> <<>>]
    [] c.type = "fallback" -> [kind |-> "fallback", children |-> <<>>,
                               pending |-> c.children, error_only |-> c.error_only]
    [] c.type = "server"   -> [kind |-> "accept"]
    [] OTHER               -> [kind |-> c.type]

\* The plugin a step of the form `exec: <prefix> <args>` creates.
InlineObject(step) ==
  CASE step.op \in {"jump", "goto"} -> [kind |-> step.op, target |-> step.arg]
    [] step.op = "fallback" -> [kind |-> "fallback", children |-> <<>>,
                                pending |-> step.names, error_only |-> FALSE]
    [] OTHER -> [kind |-> step.op]

\* parse_exec_action(): the object step i of the n-th entry runs.
StepObject(n, i) ==
  LET step == config[n].steps[i] IN
  IF step.op = "ref" THEN plugins[step.arg] ELSE Inline(n, i)

Resolvable(step) == step.op = "ref" => Known(step.arg)

\* The steps that parse_sequence_steps() keeps: one whose plugin is missing is
\* skipped with a warning.
KeptSteps(c) == InOrder({i \in 1..Len(c.steps) : Resolvable(c.steps[i])})

\* Does rebuilding entry c succeed?  A condition nobody can parse, a format
\* the builder does not support, and a missing name in the `plugins: [...]`
\* format are errors.
Parses(c) ==
  /\ c.format \in {"list", "mapping"}
  /\ \A i \in 1..Len(c.steps) : c.steps[i].matches # "unknown"
  /\ c.format = "mapping" => \A i \in 1..Len(c.steps) : Resolvable(c.steps[i])

\* FallbackPlugin::resolve_children(): the names that are registered, in order.
\* The pending names are drained whether they are found or not.
ResolveChildren(o) ==
  LET found == InOrder({i \in 1..Len(o.pending) : Known(o.pending[i])}) IN
  [kind |-> "fallback", pending |-> <<>>, error_only |-> o.error_only,
   children |-> o.children \o [i \in 1..Len(found) |-> plugins[o.pending[found[i]]]]]

\* The next iteration of the current loop, or the loop after it.
Advance(next) ==
  IF pos < Len(config)
    THEN pos' = pos + 1 /\ UNCHANGED stage
    ELSE pos' = 1 /\ stage' = next

\* Without entries there is nothing to loop over.
BuildInit ==
  /\ config \in Configs
  /\ stage = IF config = <<>> THEN "serving" ELSE "build"
  /\ pos = 1
  /\ plugins = << >> /\ heap = << >>
  /\ resolveErr = FALSE

\* main()'s loop over build(): an entry of an unknown type, or whose factory
\* fails, is logged and left out.
Build ==
  LET c == config[pos] IN
  /\ stage = "build"
  /\ IF c.type = "broken"
       THEN UNCHANGED <<plugins, heap>>
       ELSE /\ heap' = Insert(heap, Built(pos), NewObject(c))
            /\ plugins' = Insert(plugins, c.name, Built(pos))
  /\ Advance("sequences")
  /\ UNCHANGED <<config, resolveErr>>

\* Pass 1 of resolve_references(): a sequence is parsed against the objects
\* registered now, and replaces the placeholder of its name.
RebuildSequence ==
  LET c == config[pos]
      kept == KeptSteps(c)
      steps == [k \in 1..Len(kept) |->
                  [cond |-> c.steps[kept[k]].matches # "none",
                   obj |-> StepObject(pos, kept[k])]]
      inline == {Inline(pos, i) : i \in {j \in 1..Len(c.steps) : c.steps[j].op # "ref"}}
  IN
  /\ stage = "sequences"
  /\ c.type = "sequence" /\ Parses(c)
  /\ heap' = [id \in DOMAIN heap \cup inline \cup {Rebuilt(pos)} |->
                IF id = Rebuilt(pos) THEN [kind |-> "sequence", steps |-> steps]
                ELSE IF id \in inline THEN InlineObject(c.steps[id[2] - 1])
                ELSE heap[id]]
  /\ plugins' = Insert(plugins, c.name, Rebuilt(pos))
  /\ Advance("fallbacks")
  /\ UNCHANGED <<config, resolveErr>>

\* resolve_references() stops at the first sequence that does not parse:
\* main() logs the error and serves with what has been resolved so far.
RebuildFails ==
  /\ stage = "sequences"
  /\ config[pos].type = "sequence" /\ ~Parses(config[pos])
  /\ resolveErr' = TRUE
  /\ stage' = "serving"
  /\ UNCHANGED <<config, pos, plugins, heap>>

\* Pass 2: the top-level fallback plugins resolve their children.  (With two
\* entries of one name, another plugin may be registered under it.)
ResolveFallback ==
  LET id == plugins[config[pos].name] IN
  /\ stage = "fallbacks"
  /\ config[pos].type = "fallback"
  /\ heap' = IF Kind(id) = "fallback"
               THEN [heap EXCEPT ![id] = ResolveChildren(@)]
               ELSE heap
  /\ Advance("embedded")
  /\ UNCHANGED <<config, plugins, resolveErr>>

\* Passes 1 and 2 skip the entries of other types.
SkipEntry ==
  \/ /\ stage = "sequences" /\ config[pos].type # "sequence"
     /\ Advance("fallbacks")
     /\ UNCHANGED <<config, plugins, heap, resolveErr>>
  \/ /\ stage = "fallbacks" /\ config[pos].type # "fallback"
     /\ Advance("embedded")
     /\ UNCHANGED <<config, plugins, heap, resolveErr>>

\* The fallback plugins that are steps of a registered sequence.
Embedded ==
  {id \in DOMAIN heap :
     /\ Kind(id) = "fallback"
     /\ \E n \in DOMAIN plugins :
          /\ Kind(plugins[n]) = "sequence"
          /\ \E i \in DOMAIN heap[plugins[n]].steps :
               heap[plugins[n]].steps[i].obj = id}

\* Without pass 3 of resolve_references().
ResolveEmbeddedDropped ==
  /\ stage = "embedded"
  /\ stage' = "serving"
  /\ UNCHANGED <<config, pos, plugins, heap, resolveErr>>

\* Pass 3: so do the fallback plugins inside the sequences' steps.  The
\* registry handed to the servers is a copy of the map as it is then.
ResolveEmbedded ==
  /\ stage = "embedded"
  /\ heap' = [id \in DOMAIN heap |->
                IF id \in Embedded THEN ResolveChildren(heap[id]) ELSE heap[id]]
  /\ stage' = "serving"
  /\ UNCHANGED <<config, pos, plugins, resolveErr>>

BuildNext ==
  \/ Build
  \/ RebuildSequence
  \/ RebuildFails
  \/ ResolveFallback
  \/ SkipEntry
  \/ ResolveEmbedded

-----------------------------------------------------------------------------
\* What validate() asks for; main() goes on with a warning.
NamesDistinct ==
  \A i, j \in 1..Len(config) : config[i].name = config[j].name => i = j

Current(id) == \E n \in DOMAIN plugins : plugins[n] = id

Wired(id) == heap[id].pending = <<>>
             /\ \A i \in DOMAIN heap[id].children : Current(heap[id].children[i])

(***************************************************************************)
(* When the servers start, and resolve_references() succeeded, every       *)
(* fallback plugin of the registry, top-level or inside a sequence, has    *)
(* all the children there are, and they are the registered objects; and    *)
(* when names are distinct, a step of a sequence runs the registered       *)
(* object of the name it mentions or the placeholder of a sequence that is *)
(* not declared before it (builder.rs:102-189).                            *)
(***************************************************************************)
ReferencesResolved ==
  (stage = "serving" /\ ~resolveErr) =>
    \A n \in DOMAIN plugins :
      LET o == heap[plugins[n]] IN
      /\ o.kind = "fallback" => Wired(plugins[n])
      /\ o.kind = "sequence" =>
           \A i \in DOMAIN o.steps :
             LET s == o.steps[i].obj IN
             /\ Kind(s) = "fallback" => Wired(s)
             /\ (NamesDistinct /\ ~IsInline(s) /\ ~Current(s)) =>
                  Kind(s) = "sequence" /\ s[1] >= plugins[n][1]

(***************************************************************************)
(* Every step of a sequence runs the object that is registered under the   *)
(* name it mentions: what builder.rs:66-69 says of a forward reference.    *)
(***************************************************************************)
ForwardReferences ==
  (stage = "serving" /\ ~resolveErr) =>
    \A n \in DOMAIN plugins :
      LET o == heap[plugins[n]] IN
      o.kind = "sequence" =>
        \A i \in DOMAIN o.steps : IsInline(o.steps[i].obj) \/ Current(o.steps[i].obj)
=============================================================================
