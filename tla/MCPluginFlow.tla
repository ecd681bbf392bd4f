---------------------------- MODULE MCPluginFlow ----------------------------
(***************************************************************************)
(* A family of small configurations: an entry sequence "main", a helper    *)
(* sequence "sub", a fallback "fb" over the helper and a plugin, a cache,  *)
(* a plugin and a server, in every order of the three that refer to each   *)
(* other.  References go from main to fb and sub, and from fb to sub: no   *)
(* sequence reaches itself.                                                *)
(***************************************************************************)
EXTENDS PluginFlow

Step(matches, op, arg) == [matches |-> matches, op |-> op, arg |-> arg]
Exec(op) == Step("none", op, "")
Ref(n) == Step("none", "ref", n)
Fallback(names) == [matches |-> "none", op |-> "fallback", names |-> names]

Entry0(n, type) == [name |-> n, type |-> type]
Sequence(n, format, steps) ==
  [name |-> n, type |-> "sequence", format |-> format, steps |-> steps]
FallbackEntry(n, names, error_only) ==
  [name |-> n, type |-> "fallback", children |-> names, error_only |-> error_only]

FirstSteps ==
  {Ref("sub"), Ref("fb"), Ref("cache"), Ref("gone"), Exec("accept"),
   Step("none", "jump", "sub"), Step("none", "jump", "gone"),
   Step("known", "goto", "sub"), Step("none", "goto", "gone"),
   Step("known", "jump", "fb"), Fallback(<<"sub", "gone", "up">>)}

Mains ==
  {Sequence("main", "list", <<s, t>>) : s \in FirstSteps, t \in {Ref("up"), Ref("cache")}}
  \cup {Sequence("main", "mapping", <<Ref("cache"), Ref("up"), Ref("sub")>>),
        Sequence("main", "mapping", <<Ref("gone")>>),
        Sequence("main", "list", <<Step("unknown", "accept", "")>>)}

Subs ==
  {Sequence("sub", "list", s) :
     s \in {<<Exec("reject"), Ref("up")>>, <<Exec("accept"), Ref("up")>>,
            <<Step("known", "return", ""), Ref("up")>>,
            <<Ref("up"), Ref("cache"), Ref("up")>>,
            <<Step("known", "jump", "up"), Step("none", "goto", "up")>>}}

Orders == {<<1, 2, 3>>, <<1, 3, 2>>, <<2, 1, 3>>, <<2, 3, 1>>, <<3, 1, 2>>, <<3, 2, 1>>}

\* Names given twice, and no entry at all.
Duplicates ==
  {<<Entry0("up", "plugin")>> \o <<m, s, f>> \o d :
     m \in {Sequence("main", "list", <<Ref("sub"), Ref("fb")>>)},
     s \in {Sequence("sub", "list", <<Fallback(<<"fb", "up">>)>>)},
     f \in {FallbackEntry("fb", <<"up">>, FALSE)},
     d \in {<<Sequence("sub", "list", <<Ref("up")>>)>>,
            <<Sequence("fb", "list", <<Ref("up")>>)>>,
            <<FallbackEntry("main", <<"sub">>, TRUE)>>}}

MCConfigs ==
  {<<Entry0("up", "plugin"), Entry0("cache", "cache"), Entry0("gone", "broken"),
     <<m, s, f>>[o[1]], <<m, s, f>>[o[2]], <<m, s, f>>[o[3]], Entry0("srv", "server")>> :
     m \in Mains, s \in Subs, o \in Orders,
     f \in {FallbackEntry("fb", <<"sub", "up">>, e) : e \in BOOLEAN}}
  \cup Duplicates \cup {<<>>}
=============================================================================
