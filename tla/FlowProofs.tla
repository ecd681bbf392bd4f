----------------------------- MODULE FlowProofs -----------------------------
(***************************************************************************)
(* What holds of every configuration that PluginBuilder builds and of      *)
(* every request that PluginFlow runs through it.                          *)
(***************************************************************************)
EXTENDS PluginFlow, FiniteSetTheorems, SequenceTheorems, TLAPS

IsList(s) == Len(s) \in Nat /\ DOMAIN s = 1..Len(s)

LEMMA SeqIsList == ASSUME NEW s, IsSeq(s) PROVE IsList(s)
BY DEF IsSeq, IsList

\* InOrder enumerates members of its set.  Their ranks are an injection into
\* 1..Cardinality(S), and so a surjection.
LEMMA InOrderMembers ==
    ASSUME NEW n \in Nat, NEW S \in SUBSET (1..n)
    PROVE  /\ Cardinality(S) \in Nat
           /\ InOrder(S) \in Seq(S)
           /\ Len(InOrder(S)) = Cardinality(S)
<1> DEFINE Upto(i) == {j \in S : j <= i}
           rank == [i \in S |-> Cardinality(Upto(i))]
           N == Cardinality(S)
<1>1. IsFiniteSet(S) /\ N \in Nat
    <2>1. IsFiniteSet(1..n)
        BY FS_Interval
    <2>2. IsFiniteSet(S)
        BY <2>1, FS_Subset
    <2> QED BY <2>2, FS_CardinalityType
<1>2. \A i \in S : IsFiniteSet(Upto(i)) /\ Cardinality(Upto(i)) \in 1..N
    <2> TAKE i \in S
    <2>1. Upto(i) \in SUBSET S /\ i \in Upto(i)
        OBVIOUS
    <2>2. IsFiniteSet(Upto(i)) /\ Cardinality(Upto(i)) <= N /\ Cardinality(Upto(i)) \in Nat
        BY <1>1, <2>1, FS_Subset, FS_CardinalityType
    <2>3. Cardinality(Upto(i)) # 0
        <3> HIDE DEF Upto
        <3> QED BY <2>1, <2>2, FS_EmptySet
    <2> QED BY <1>1, <2>2, <2>3
<1>3. ASSUME NEW i \in S, NEW k \in S, i < k
      PROVE  rank[i] # rank[k]
    <2>0. i \in Nat /\ k \in Nat /\ \A j \in S : j \in Nat
        OBVIOUS
    <2>1. \A j \in Upto(i) : j \in Upto(k)
        BY <1>3, <2>0
    <2>2. k \in Upto(k) /\ k \notin Upto(i)
        BY <1>3, <2>0
    <2>3. Upto(i) \in SUBSET Upto(k) /\ Upto(i) # Upto(k)
        BY <2>1, <2>2
    <2> QED BY <1>2, <2>3, FS_Subset
<1>4. rank \in Injection(S, 1..N)
    <2>1. rank \in [S -> 1..N]
        BY <1>2
    <2>2. \A i, k \in S : rank[i] = rank[k] => i = k
        BY <1>3
    <2> HIDE DEF rank
    <2> QED BY <2>1, <2>2 DEF Injection, IsInjective
<1>5. rank \in Surjection(S, 1..N)
    <2>1. IsFiniteSet(1..N) /\ Cardinality(1..N) = N
        BY <1>1, FS_Interval
    <2> HIDE DEF rank
    <2> QED BY <1>4, <2>1, FS_Injection
<1>6. \A k \in 1..N : \E i \in S : Cardinality(Upto(i)) = k
    BY <1>5 DEF Surjection
<1>7. InOrder(S) \in [1..N -> S]
    BY <1>6 DEF InOrder
<1> HIDE DEF N
<1> QED BY <1>1, <1>7 DEF N

-----------------------------------------------------------------------------
(* The objects that are built                                              *)

Ids == Nat \X Nat

BuildTypes ==
    /\ config \in Configs
    /\ stage \in Stages
    /\ stage # "serving" => pos \in 1..Len(config)

\* Everything that is referred to exists, and what has a name is not a plugin
\* made for a step: neither a jump nor a goto.
GoodObject(id) ==
    /\ id \in Ids
    /\ ~IsInline(id) => Kind(id) \notin {"jump", "goto"}
    /\ Kind(id) = "sequence" =>
         /\ IsList(heap[id].steps)
         /\ \A i \in DOMAIN heap[id].steps : heap[id].steps[i].obj \in DOMAIN heap
    /\ Kind(id) = "fallback" =>
         /\ IsList(heap[id].pending)
         /\ heap[id].children \in Seq(Ids)
         /\ \A i \in DOMAIN heap[id].children :
              heap[id].children[i] \in DOMAIN heap /\ ~IsInline(heap[id].children[i])

Graph ==
    /\ \A n \in DOMAIN plugins : plugins[n] \in DOMAIN heap /\ ~IsInline(plugins[n])
    /\ \A id \in DOMAIN heap : GoodObject(id)

GraphInv == BuildTypes /\ Graph

\* What the assumption says of the entry that the loops are at.
LEMMA EntryFacts ==
    ASSUME BuildTypes
    PROVE  /\ IsList(config)
           /\ \A n \in 1..Len(config) :
                /\ config[n].type \in EntryTypes
                /\ config[n].type = "fallback" => IsList(config[n].children)
                /\ config[n].type = "sequence" =>
                     /\ IsList(config[n].steps)
                     /\ \A i \in DOMAIN config[n].steps :
                          /\ config[n].steps[i].op \in StepOps
                          /\ config[n].steps[i].op = "fallback" =>
                               IsList(config[n].steps[i].names)
<1>1. config \in Configs
    BY DEF BuildTypes
<1>2. IsSeq(config)
    BY <1>1, ConfigsAssumption
<1>3. IsList(config)
    BY <1>2, SeqIsList
<1>4. ASSUME NEW n \in 1..Len(config)
      PROVE  /\ config[n].type \in EntryTypes
             /\ config[n].type = "fallback" => IsSeq(config[n].children)
             /\ config[n].type = "sequence" =>
                  /\ IsSeq(config[n].steps)
                  /\ \A i \in DOMAIN config[n].steps :
                       /\ config[n].steps[i].op \in StepOps
                       /\ config[n].steps[i].op = "fallback" =>
                            IsSeq(config[n].steps[i].names)
    <2>1. n \in DOMAIN config
        BY <1>3 DEF IsList
    <2> QED BY <1>1, <2>1, ConfigsAssumption
<1> QED BY <1>3, <1>4, SeqIsList

LEMMA AdvanceTypes ==
    ASSUME BuildTypes, stage # "serving", NEW next \in Stages, Advance(next),
           UNCHANGED config
    PROVE  BuildTypes'
BY EntryFacts DEF BuildTypes, Advance, IsList, Stages

LEMMA BuildGraph ==
    ASSUME GraphInv, Build
    PROVE  Graph'
<1> DEFINE c == config[pos]
           new == NewObject(c)
           b == Built(pos)
<1>0. pos \in 1..Len(config) /\ Graph /\ BuildTypes
    BY DEF GraphInv, BuildTypes, Build
<1>1. CASE c.type = "broken"
    BY <1>0, <1>1 DEF Build, Graph, GoodObject, Kind
<1>2. CASE c.type # "broken"
    <2>1. heap' = Insert(heap, b, new) /\ plugins' = Insert(plugins, c.name, b)
        BY <1>2 DEF Build
    <2>2. b \in Ids /\ ~IsInline(b)
        BY <1>0, EntryFacts DEF Built, Ids, IsInline, IsList
    <2>3. /\ new.kind \notin {"jump", "goto"}
          /\ new.kind = "sequence" => new.steps = <<>>
          /\ new.kind = "fallback" => new.children = <<>> /\ IsList(new.pending)
        BY <1>0, <1>2, EntryFacts DEF NewObject, EntryTypes
    <2> HIDE DEF b, new, c
    <2>4. /\ DOMAIN heap' = DOMAIN heap \cup {b}
          /\ heap'[b] = new
          /\ \A id \in DOMAIN heap : id # b => heap'[id] = heap[id]
        BY <2>1 DEF Insert
    <2>a. /\ DOMAIN plugins' = DOMAIN plugins \cup {c.name}
          /\ plugins'[c.name] = b
          /\ \A n \in DOMAIN plugins : n # c.name => plugins'[n] = plugins[n]
        BY <2>1 DEF Insert
    <2>5. ASSUME NEW n \in DOMAIN plugins'
          PROVE  plugins'[n] \in DOMAIN heap' /\ ~IsInline(plugins'[n])
        BY <1>0, <2>2, <2>4, <2>5, <2>a DEF Graph
    <2>6. ASSUME NEW id \in DOMAIN heap' PROVE GoodObject(id)'
        <3>1. CASE id = b
            <4>1. heap'[id] = new /\ id \in Ids /\ ~IsInline(id)
                BY <2>2, <2>4, <3>1
            <4>2. IsList(<<>>) /\ <<>> \in Seq(Ids) /\ DOMAIN <<>> = {}
                BY DEF IsList
            <4> QED BY <2>3, <4>1, <4>2 DEF GoodObject, Kind
        <3>2. CASE id # b
            <4>1. id \in DOMAIN heap /\ GoodObject(id) /\ heap'[id] = heap[id]
                BY <1>0, <2>4, <2>6, <3>2 DEF Graph
            <4> QED BY <2>4, <4>1 DEF GoodObject, Kind
        <3> QED BY <3>1, <3>2
    <2> QED BY <2>5, <2>6 DEF Graph
<1> QED BY <1>1, <1>2

\* What RebuildSequence adds to the heap: the sequence, and the plugins that
\* its steps make.
LEMMA RebuildFacts ==
    ASSUME GraphInv, RebuildSequence
    PROVE  /\ pos \in 1..Len(config) /\ config[pos].type = "sequence"
           /\ Rebuilt(pos) \in DOMAIN heap'
           /\ DOMAIN heap \subseteq DOMAIN heap'
           /\ heap'[Rebuilt(pos)].kind = "sequence"
           /\ IsList(heap'[Rebuilt(pos)].steps)
           /\ \A k \in DOMAIN heap'[Rebuilt(pos)].steps :
                LET s == heap'[Rebuilt(pos)].steps[k].obj IN
                \/ IsInline(s) /\ s \in DOMAIN heap'
                \/ \E n \in DOMAIN plugins : s = plugins[n]
           /\ \A id \in DOMAIN heap' :
                \/ id = Rebuilt(pos)
                \/ id \in DOMAIN heap /\ heap'[id] = heap[id]
                \/ /\ id \in Ids /\ IsInline(id)
                   /\ heap'[id].kind # "sequence"
                   /\ heap'[id].kind = "fallback" =>
                        heap'[id].children = <<>> /\ IsList(heap'[id].pending)
<1> DEFINE c == config[pos]
           S == {i \in 1..Len(c.steps) : Resolvable(c.steps[i])}
           kept == KeptSteps(c)
           steps == [k \in 1..Len(kept) |->
                       [cond |-> c.steps[kept[k]].matches # "none",
                        obj |-> StepObject(pos, kept[k])]]
           J == {j \in 1..Len(c.steps) : c.steps[j].op # "ref"}
           inline == {Inline(pos, i) : i \in J}
           r == Rebuilt(pos)
<1>1. /\ BuildTypes /\ Graph
      /\ pos \in 1..Len(config) /\ c.type = "sequence"
    BY DEF GraphInv, BuildTypes, RebuildSequence
<1>2. /\ IsList(config) /\ IsList(c.steps)
      /\ \A i \in DOMAIN c.steps :
           /\ c.steps[i].op \in StepOps
           /\ c.steps[i].op = "fallback" => IsList(c.steps[i].names)
    BY <1>1, EntryFacts
<1>3. pos \in Nat /\ Len(c.steps) \in Nat /\ DOMAIN c.steps = 1..Len(c.steps)
    BY <1>1, <1>2 DEF IsList
<1>4. kept \in Seq(S) /\ Len(kept) \in Nat
    <2> HIDE DEF c
    <2> QED BY <1>3, InOrderMembers DEF KeptSteps
<1>5. heap' = [id \in DOMAIN heap \cup inline \cup {r} |->
                 IF id = r THEN [kind |-> "sequence", steps |-> steps]
                 ELSE IF id \in inline THEN InlineObject(c.steps[id[2] - 1])
                 ELSE heap[id]]
    BY DEF RebuildSequence
<1>6. /\ r \in DOMAIN heap' /\ DOMAIN heap \subseteq DOMAIN heap'
      /\ inline \subseteq DOMAIN heap'
      /\ heap'[r] = [kind |-> "sequence", steps |-> steps]
      /\ \A id \in inline : id # r => heap'[id] = InlineObject(c.steps[id[2] - 1])
      /\ \A id \in DOMAIN heap' :
           id = r \/ id \in inline \/ (id \in DOMAIN heap /\ heap'[id] = heap[id])
    <2> HIDE DEF r, inline, steps, c
    <2> QED BY <1>5
<1>7. \A i \in J : /\ Inline(pos, i) \in Ids /\ IsInline(Inline(pos, i))
                   /\ Inline(pos, i)[2] - 1 = i
    BY <1>3 DEF Inline, IsInline, Ids
<1>8. ASSUME NEW k \in 1..Len(kept)
      PROVE  \/ IsInline(StepObject(pos, kept[k])) /\ StepObject(pos, kept[k]) \in inline
             \/ \E n \in DOMAIN plugins : StepObject(pos, kept[k]) = plugins[n]
    <2>1. kept[k] \in S
        BY <1>4
    <2>2. CASE c.steps[kept[k]].op = "ref"
        BY <2>1, <2>2 DEF StepObject, Resolvable, Known
    <2>3. CASE c.steps[kept[k]].op # "ref"
        <3>1. kept[k] \in J /\ StepObject(pos, kept[k]) = Inline(pos, kept[k])
            BY <2>1, <2>3 DEF StepObject
        <3> QED BY <1>7, <3>1
    <2> QED BY <2>2, <2>3
<1>9. ASSUME NEW i \in J
      PROVE  LET o == InlineObject(c.steps[i]) IN
             /\ o.kind # "sequence"
             /\ o.kind = "fallback" => o.children = <<>> /\ IsList(o.pending)
    BY <1>2, <1>3 DEF InlineObject, StepOps
<1>10. /\ heap'[r].kind = "sequence"
       /\ IsList(heap'[r].steps) /\ DOMAIN heap'[r].steps = 1..Len(kept)
       /\ \A k \in 1..Len(kept) : heap'[r].steps[k].obj = StepObject(pos, kept[k])
    <2> HIDE DEF kept, r, c
    <2> QED BY <1>4, <1>6 DEF IsList
<1>11. ASSUME NEW id \in inline, id # r
       PROVE  /\ id \in Ids /\ IsInline(id)
              /\ heap'[id].kind # "sequence"
              /\ heap'[id].kind = "fallback" =>
                   heap'[id].children = <<>> /\ IsList(heap'[id].pending)
    <2>1. PICK i \in J : id = Inline(pos, i)
        OBVIOUS
    <2>2. heap'[id] = InlineObject(c.steps[i])
        BY <1>6, <1>7, <1>11, <2>1
    <2> HIDE DEF c, J, inline, r
    <2> QED BY <1>7, <1>9, <2>1, <2>2
<1> HIDE DEF r, inline, steps, kept, J
<1> QED BY <1>1, <1>6, <1>8, <1>10, <1>11 DEF r

LEMMA RebuildGraph ==
    ASSUME GraphInv, RebuildSequence
    PROVE  Graph'
<1> DEFINE r == Rebuilt(pos)
<1>0. Graph /\ BuildTypes /\ pos \in Nat
    BY RebuildFacts, EntryFacts DEF GraphInv, IsList
<1>1. r \in Ids /\ ~IsInline(r)
    BY <1>0 DEF Rebuilt, Ids, IsInline
<1>2. plugins' = Insert(plugins, config[pos].name, r)
    BY DEF RebuildSequence
<1>3. ASSUME NEW n \in DOMAIN plugins'
      PROVE  plugins'[n] \in DOMAIN heap' /\ ~IsInline(plugins'[n])
    <2> HIDE DEF r
    <2>1. plugins'[n] = r \/ (n \in DOMAIN plugins /\ plugins'[n] = plugins[n])
        BY <1>2, <1>3 DEF Insert
    <2> QED BY <1>0, <1>1, <2>1, RebuildFacts DEF r, Graph
<1>4. ASSUME NEW id \in DOMAIN heap' PROVE GoodObject(id)'
    <2>1. CASE id = r
        <3>1. \A k \in DOMAIN heap'[r].steps : heap'[r].steps[k].obj \in DOMAIN heap'
            BY <1>0, RebuildFacts DEF Graph
        <3> QED BY <1>1, <2>1, <3>1, RebuildFacts DEF GoodObject, Kind
    <2>2. CASE id \in DOMAIN heap /\ heap'[id] = heap[id]
        <3>1. GoodObject(id) /\ DOMAIN heap \subseteq DOMAIN heap'
            BY <1>0, <2>2, RebuildFacts DEF Graph
        <3> QED BY <2>2, <3>1 DEF GoodObject, Kind
    <2>3. CASE /\ id \in Ids /\ IsInline(id)
               /\ heap'[id].kind # "sequence"
               /\ heap'[id].kind = "fallback" =>
                    heap'[id].children = <<>> /\ IsList(heap'[id].pending)
        <3>1. <<>> \in Seq(Ids) /\ DOMAIN <<>> = {}
            OBVIOUS
        <3> QED BY <2>3, <3>1 DEF GoodObject, Kind
    <2> QED BY <1>4, <2>1, <2>2, <2>3, RebuildFacts
<1> QED BY <1>3, <1>4 DEF Graph

\* Children that resolve_children() adds are registered objects.
LEMMA ResolveFacts ==
    ASSUME GraphInv, NEW id \in DOMAIN heap, Kind(id) = "fallback"
    PROVE  LET o == ResolveChildren(heap[id]) IN
           /\ o.kind = "fallback" /\ o.pending = <<>>
           /\ o.children \in Seq(Ids)
           /\ \A i \in DOMAIN o.children :
                \/ \E k \in DOMAIN heap[id].children : o.children[i] = heap[id].children[k]
                \/ \E n \in DOMAIN plugins : o.children[i] = plugins[n]
<1> DEFINE q == heap[id].pending
           S == {i \in 1..Len(q) : Known(q[i])}
           found == InOrder(S)
           new == [i \in 1..Len(found) |-> plugins[q[found[i]]]]
           old == heap[id].children
           o == ResolveChildren(heap[id])
<1>1. GoodObject(id) /\ Graph
    BY DEF GraphInv, Graph
<1>2. Len(q) \in Nat /\ old \in Seq(Ids)
    BY <1>1 DEF GoodObject, IsList
<1>3. found \in Seq(S) /\ Len(found) \in Nat
    <2> HIDE DEF q
    <2> QED BY <1>2, InOrderMembers
<1>4. \A i \in 1..Len(found) : q[found[i]] \in DOMAIN plugins
    <2>1. \A i \in 1..Len(found) : found[i] \in S
        <3> HIDE DEF found, S
        <3> QED BY <1>3
    <2> QED BY <2>1 DEF Known
<1>5. \A n \in DOMAIN plugins : plugins[n] \in Ids
    BY <1>1 DEF Graph, GoodObject
<1>6. new \in Seq(Ids) /\ Len(new) = Len(found)
    <2> HIDE DEF found, q, S
    <2> QED BY <1>3, <1>4, <1>5
<1>7. o.kind = "fallback" /\ o.pending = <<>> /\ o.children = old \o new
    BY DEF ResolveChildren
<1>8. \A i \in 1..Len(found) : new[i] = plugins[q[found[i]]]
    OBVIOUS
<1> HIDE DEF o, old, new, found, q, S
<1>9. /\ old \o new \in Seq(Ids)
      /\ DOMAIN (old \o new) = 1..(Len(old) + Len(new))
      /\ \A i \in 1..Len(old) : (old \o new)[i] = old[i]
      /\ \A i \in Len(old) + 1..Len(old) + Len(new) : (old \o new)[i] = new[i - Len(old)]
    BY <1>2, <1>6
<1>10. ASSUME NEW i \in DOMAIN o.children
       PROVE  \/ \E k \in DOMAIN old : o.children[i] = old[k]
              \/ \E n \in DOMAIN plugins : o.children[i] = plugins[n]
    <2>0. Len(old) \in Nat /\ Len(new) \in Nat /\ DOMAIN old = 1..Len(old)
        BY <1>2, <1>6
    <2>1. CASE i \in 1..Len(old)
        BY <1>7, <1>9, <2>0, <2>1
    <2>2. CASE i \in Len(old) + 1..Len(old) + Len(new)
        <3>1. i - Len(old) \in 1..Len(found) /\ o.children[i] = new[i - Len(old)]
            BY <1>6, <1>7, <1>9, <2>0, <2>2
        <3> QED BY <1>4, <1>8, <3>1
    <2> QED BY <1>7, <1>9, <1>10, <2>0, <2>1, <2>2
<1> QED BY <1>7, <1>9, <1>10 DEF o, old

\* A step that resolves the children of the fallback plugins R.
LEMMA ResolveGraph ==
    ASSUME GraphInv, UNCHANGED plugins, DOMAIN heap' = DOMAIN heap,
           NEW R \in SUBSET DOMAIN heap,
           \A id \in R : Kind(id) = "fallback" /\ heap'[id] = ResolveChildren(heap[id]),
           \A id \in DOMAIN heap \ R : heap'[id] = heap[id]
    PROVE  Graph'
<1>0. Graph
    BY DEF GraphInv
<1>1. ASSUME NEW id \in DOMAIN heap PROVE GoodObject(id)'
    <2>0. GoodObject(id)
        BY <1>0 DEF Graph
    <2>1. CASE id \in R
        <3> DEFINE o == heap'[id]
        <3>1. /\ o.kind = "fallback" /\ o.pending = <<>> /\ o.children \in Seq(Ids)
              /\ \A i \in DOMAIN o.children :
                   \/ \E k \in DOMAIN heap[id].children : o.children[i] = heap[id].children[k]
                   \/ \E n \in DOMAIN plugins : o.children[i] = plugins[n]
            BY <2>1, ResolveFacts
        <3> HIDE DEF o
        <3>2. \A i \in DOMAIN o.children : o.children[i] \in DOMAIN heap /\ ~IsInline(o.children[i])
            BY <1>0, <2>0, <2>1, <3>1 DEF Graph, GoodObject
        <3>3. IsList(o.pending)
            BY <3>1 DEF IsList
        <3> QED BY <2>0, <3>1, <3>2, <3>3 DEF GoodObject, Kind, o
    <2>2. CASE id \notin R
        BY <2>0, <2>2 DEF GoodObject, Kind
    <2> QED BY <2>1, <2>2
<1> QED BY <1>0, <1>1 DEF Graph

\* The two actions that resolve, in these terms.
LEMMA ResolveSteps ==
    ASSUME GraphInv, ResolveFallback \/ ResolveEmbedded
    PROVE  /\ UNCHANGED plugins /\ DOMAIN heap' = DOMAIN heap
           /\ \E R \in SUBSET DOMAIN heap :
                /\ \A id \in R : Kind(id) = "fallback" /\ heap'[id] = ResolveChildren(heap[id])
                /\ \A id \in DOMAIN heap \ R : heap'[id] = heap[id]
                /\ ResolveFallback =>
                     R = {id \in {plugins[config[pos].name]} \cap DOMAIN heap :
                            Kind(id) = "fallback"}
                /\ ResolveEmbedded => R = Embedded
<1>1. CASE ResolveFallback
    <2> DEFINE f == plugins[config[pos].name]
               R == {id \in {f} \cap DOMAIN heap : Kind(id) = "fallback"}
    <2>1. /\ UNCHANGED plugins
          /\ heap' = IF Kind(f) = "fallback" THEN [heap EXCEPT ![f] = ResolveChildren(@)] ELSE heap
        BY <1>1 DEF ResolveFallback
    <2>2. stage = "fallbacks" /\ ~ResolveEmbedded
        BY <1>1 DEF ResolveFallback, ResolveEmbedded
    <2> HIDE DEF f
    <2>3. /\ DOMAIN heap' = DOMAIN heap
          /\ \A id \in R : Kind(id) = "fallback" /\ heap'[id] = ResolveChildren(heap[id])
          /\ \A id \in DOMAIN heap \ R : heap'[id] = heap[id]
        BY <2>1
    <2> QED
        <3>1. R \in SUBSET DOMAIN heap
            OBVIOUS
        <3> HIDE DEF R
        <3> QED BY <2>1, <2>2, <2>3, <3>1 DEF f, R
<1>2. CASE ResolveEmbedded
    <2>1. /\ UNCHANGED plugins
          /\ heap' = [id \in DOMAIN heap |->
                        IF id \in Embedded THEN ResolveChildren(heap[id]) ELSE heap[id]]
        BY <1>2 DEF ResolveEmbedded
    <2>2. stage = "embedded" /\ ~ResolveFallback
        BY <1>2 DEF ResolveFallback, ResolveEmbedded
    <2>3. Embedded \subseteq DOMAIN heap /\ \A id \in Embedded : Kind(id) = "fallback"
        BY DEF Embedded
    <2>4. /\ DOMAIN heap' = DOMAIN heap
          /\ \A id \in Embedded : heap'[id] = ResolveChildren(heap[id])
          /\ \A id \in DOMAIN heap \ Embedded : heap'[id] = heap[id]
        BY <2>1, <2>3
    <2> QED BY <2>1, <2>2, <2>3, <2>4
<1> QED BY <1>1, <1>2

LEMMA BuildNextTypes ==
    ASSUME BuildTypes, BuildNext
    PROVE  BuildTypes'
<1>1. {"build", "sequences", "fallbacks", "embedded", "serving"} \subseteq Stages
    BY DEF Stages
<1>2. CASE Build \/ RebuildSequence \/ ResolveFallback \/ SkipEntry
    BY <1>1, <1>2, AdvanceTypes DEF Build, RebuildSequence, ResolveFallback, SkipEntry
<1>3. CASE RebuildFails \/ ResolveEmbedded
    BY <1>3 DEF RebuildFails, ResolveEmbedded, BuildTypes, Stages
<1> QED BY <1>2, <1>3 DEF BuildNext

LEMMA BuildNextGraph ==
    ASSUME GraphInv, BuildNext
    PROVE  GraphInv'
<1>1. BuildTypes'
    BY BuildNextTypes DEF GraphInv
<1>2. CASE Build \/ RebuildSequence
    BY <1>1, <1>2, BuildGraph, RebuildGraph DEF GraphInv
<1>3. CASE RebuildFails \/ SkipEntry
    <2>1. Graph /\ UNCHANGED <<plugins, heap>>
        BY <1>3 DEF GraphInv, RebuildFails, SkipEntry
    <2> QED BY <1>1, <2>1 DEF GraphInv, Graph, GoodObject, Kind
<1>4. CASE ResolveFallback \/ ResolveEmbedded
    <2>1. PICK R \in SUBSET DOMAIN heap :
            /\ \A id \in R : Kind(id) = "fallback" /\ heap'[id] = ResolveChildren(heap[id])
            /\ \A id \in DOMAIN heap \ R : heap'[id] = heap[id]
        BY <1>4, ResolveSteps
    <2>2. UNCHANGED plugins /\ DOMAIN heap' = DOMAIN heap
        BY <1>4, ResolveSteps
    <2> QED BY <1>1, <2>1, <2>2, ResolveGraph DEF GraphInv
<1> QED BY <1>2, <1>3, <1>4 DEF BuildNext

LEMMA BuildInitGraph ==
    ASSUME BuildInit
    PROVE  GraphInv
<1>1. IsSeq(config)
    BY ConfigsAssumption DEF BuildInit
<1>2. BuildTypes
    BY <1>1 DEF BuildTypes, BuildInit, Stages, IsSeq
<1>3. DOMAIN plugins = {} /\ DOMAIN heap = {}
    BY DEF BuildInit
<1> QED BY <1>2, <1>3 DEF GraphInv, Graph

-----------------------------------------------------------------------------
(* The call stack of a request                                             *)

Frame == [obj : Ids, pc : Nat \ {0}, jumping : BOOLEAN]

Frames ==
    /\ stack \in Seq(Frame)
    /\ \A i \in 1..Len(stack) :
         stack[i].obj \in DOMAIN heap /\ Kind(stack[i].obj) \in {"sequence", "fallback"}

NoFallback == \A i \in 1..Len(stack) : Kind(stack[i].obj) # "fallback"

LEMMA TopFacts ==
    ASSUME Frames, stack # <<>>
    PROVE  /\ Len(stack) \in Nat \ {0} /\ Len(stack) \in 1..Len(stack)
           /\ Top \in Frame /\ Top = stack[Len(stack)]
           /\ Top.obj \in DOMAIN heap /\ Kind(Top.obj) \in {"sequence", "fallback"}
           /\ Pop \in Seq(Frame) /\ Len(Pop) = Len(stack) - 1
           /\ \A i \in 1..Len(stack) - 1 : Pop[i] = stack[i]
<1>1. stack \in Seq(Frame) /\ Len(stack) \in Nat \ {0}
    BY DEF Frames
<1>2. Top \in Frame /\ Top = stack[Len(stack)]
    BY <1>1 DEF Top
<1>3. /\ Pop \in Seq(Frame) /\ Len(Pop) = Len(stack) - 1
      /\ \A i \in 1..Len(stack) - 1 : Pop[i] = stack[i]
    <2> DEFINE l == Len(stack) - 1
    <2>1. l \in Nat /\ l <= Len(stack) /\ Pop = SubSeq(stack, 1, l)
        BY <1>1 DEF Pop
    <2>2. \A i \in 1..l : stack[i] \in Frame
        BY <1>1
    <2> HIDE DEF l
    <2>3. /\ Pop \in Seq(Frame) /\ Len(Pop) = IF 1 <= l THEN l - 1 + 1 ELSE 0
          /\ \A i \in 1..l - 1 + 1 : Pop[i] = stack[1 + i - 1]
        BY <2>1, <2>2, SubSeqProperties
    <2>4. l - 1 + 1 = l /\ \A i \in 1..l : 1 + i - 1 = i
        BY <2>1
    <2>5. Len(Pop) = l
        BY <2>1, <2>3
    <2>6. \A i \in 1..l : Pop[i] = stack[i]
        BY <2>3, <2>4
    <2> QED BY <2>3, <2>5, <2>6 DEF l
<1> QED BY <1>1, <1>2, <1>3 DEF Frames

\* A call opens a frame.
LEMMA Pushes ==
    ASSUME Frames, UNCHANGED heap,
           NEW f \in Frame, f.obj \in DOMAIN heap, Kind(f.obj) \in {"sequence", "fallback"},
           stack' = Append(stack, f)
    PROVE  /\ Frames' /\ stack' # <<>>
           /\ AfterFallback => AfterFallback'
           /\ NoFallback' => NoFallback
<1>1. /\ stack' \in Seq(Frame) /\ Len(stack') = Len(stack) + 1 /\ Len(stack) \in Nat
      /\ \A i \in 1..Len(stack) : stack'[i] = stack[i]
      /\ stack'[Len(stack) + 1] = f
    BY DEF Frames
<1>2. \A id : Kind(id)' = Kind(id)
    BY DEF Kind
<1>3. \A i \in 1..Len(stack') : i \in 1..Len(stack) \/ i = Len(stack) + 1
    BY <1>1
<1>4. Frames'
    BY <1>1, <1>2, <1>3 DEF Frames
<1>5. AfterFallback => AfterFallback'
    BY <1>1, <1>2 DEF AfterFallback
<1>6. NoFallback' => NoFallback
    BY <1>1, <1>2 DEF NoFallback
<1> QED BY <1>1, <1>4, <1>5, <1>6

\* A return closes one.
LEMMA Pops ==
    ASSUME Frames, UNCHANGED heap, stack # <<>>, stack' = Pop
    PROVE  /\ Frames'
           /\ NoFallback => NoFallback'
           /\ Kind(Top.obj) = "sequence" /\ NoFallback' => NoFallback
<1>1. /\ Len(stack) \in Nat \ {0} /\ Top = stack[Len(stack)]
      /\ stack' \in Seq(Frame) /\ Len(stack') = Len(stack) - 1
      /\ \A i \in 1..Len(stack') : i \in 1..Len(stack) /\ stack'[i] = stack[i]
      /\ \A i \in 1..Len(stack) : i \in 1..Len(stack') \/ i = Len(stack)
    BY TopFacts
<1>2. \A id : Kind(id)' = Kind(id)
    BY DEF Kind
<1>3. Frames'
    BY <1>1, <1>2 DEF Frames
<1>4. NoFallback => NoFallback'
    BY <1>1, <1>2 DEF NoFallback
<1>5. Kind(Top.obj) = "sequence" /\ NoFallback' => NoFallback
    BY <1>1, <1>2 DEF NoFallback
<1> QED BY <1>3, <1>4, <1>5

\* The top frame goes on.
LEMMA Moves ==
    ASSUME Frames, UNCHANGED heap, stack # <<>>,
           NEW f \in Frame, f.obj = Top.obj, f.pc >= Top.pc, stack' = WithTop(f)
    PROVE  /\ Frames' /\ stack' # <<>>
           /\ AfterFallback => AfterFallback'
           /\ NoFallback' <=> NoFallback
           /\ Kind(Top.obj) = "fallback" /\ f.pc > 1 => AfterFallback'
<1>1. /\ Len(stack) \in Nat \ {0} /\ Top = stack[Len(stack)] /\ Top \in Frame
      /\ Top.obj \in DOMAIN heap /\ Kind(Top.obj) \in {"sequence", "fallback"}
      /\ Pop \in Seq(Frame) /\ Len(Pop) = Len(stack) - 1
      /\ \A i \in 1..Len(stack) - 1 : Pop[i] = stack[i]
    BY TopFacts
<1>2. /\ stack' \in Seq(Frame) /\ Len(stack') = Len(stack)
      /\ \A i \in 1..Len(stack) - 1 : stack'[i] = stack[i]
      /\ stack'[Len(stack)] = f
    BY <1>1 DEF WithTop
<1>3. \A id : Kind(id)' = Kind(id)
    BY DEF Kind
<1>4. \A i \in 1..Len(stack) : /\ stack'[i].obj = stack[i].obj
                               /\ stack'[i].pc >= stack[i].pc
                               /\ stack'[i].pc \in Nat /\ stack[i].pc \in Nat
    <2> TAKE i \in 1..Len(stack)
    <2>1. stack[i] \in Frame /\ stack'[i] \in Frame
        BY <1>2 DEF Frames
    <2>2. stack[i].pc \in Nat /\ stack'[i].pc \in Nat
        BY <2>1 DEF Frame
    <2>3. CASE i \in 1..Len(stack) - 1
        BY <1>2, <2>2, <2>3
    <2>4. CASE i = Len(stack)
        BY <1>1, <1>2, <2>2, <2>4
    <2> QED BY <1>1, <2>3, <2>4
<1>5. Frames'
    BY <1>2, <1>3, <1>4 DEF Frames
<1>6. AfterFallback => AfterFallback'
    BY <1>2, <1>3, <1>4 DEF AfterFallback
<1>7. NoFallback' <=> NoFallback
    BY <1>2, <1>3, <1>4 DEF NoFallback
<1>8. Kind(Top.obj) = "fallback" /\ f.pc > 1 => AfterFallback'
    BY <1>1, <1>2, <1>3 DEF AfterFallback
<1> QED BY <1>1, <1>2, <1>5, <1>6, <1>7, <1>8

-----------------------------------------------------------------------------
(* The inductive invariant of a request                                    *)

CtxFields == {"response", "ret", "jump", "goto", "fromCache", "background"}

FlowTypes ==
    /\ ctl \in {"idle", "call", "step", "result", "goto", "store"}
    /\ Frames
    /\ DOMAIN ctx = CtxFields
    /\ ctl = "call" => callee \in DOMAIN heap
    /\ ctl # "idle" => stage = "serving"
    /\ ctl \in {"idle", "goto", "store"} => stack = <<>>
    /\ ctl = "step" => stack # <<>>

\* No mark is pending when a plugin is called or a frame takes a step, except
\* for what the earlier children of a fallback left.  A jump is only ever
\* pending between a jump plugin and the sequence whose step it is: the handler
\* and the fallback plugins call named plugins, which are no jumps.
Marks ==
    /\ ctl \in {"call", "step"} =>
         ctx.jump = None /\ ((ctx.ret \/ ctx.goto # None) => AfterFallback)
    /\ ctl \in {"goto", "store"} => ctx.jump = None
    /\ ctl = "result" =>
         /\ (outcome = "err" \/ stack = <<>> \/ OnTop("fallback")) => ctx.jump = None
         /\ (ctx.jump # None /\ ctx.goto # None) => AfterFallback
    /\ (ctl = "call" /\ (stack = <<>> \/ OnTop("fallback"))) => ~IsInline(callee)

\* An error that no fallback will absorb is on its way to the handler.
Errors ==
    /\ DOMAIN hist = {"accepted", "escaped"}
    /\ ctl # "idle" =>
         /\ reply.kind # "error"
         /\ hist.escaped <=> (ctl = "result" /\ outcome = "err" /\ NoFallback)
    /\ ctl = "idle" => (reply.kind = "error" <=> hist.escaped)

Stored ==
    /\ FinalStored
    /\ stage # "serving" => reply = NoReply

FlowInv == GraphInv /\ FlowTypes /\ Marks /\ Errors /\ Stored

\* Nothing is built while requests are served.
LEMMA KindsStay ==
    ASSUME UNCHANGED buildVars
    PROVE  /\ UNCHANGED <<heap, plugins, stage>> /\ \A id : Kind(id)' = Kind(id)
           /\ UNCHANGED stack => /\ (AfterFallback' <=> AfterFallback)
                                 /\ (NoFallback' <=> NoFallback)
                                 /\ (Frames' <=> Frames)
                                 /\ \A k : OnTop(k)' <=> OnTop(k)
BY DEF buildVars, Kind, AfterFallback, NoFallback, Frames, OnTop, Top

\* The plugins that call no others return to the frame below.
LEMMA LeafStep ==
    ASSUME FlowInv, UNCHANGED buildVars, ctl = "call", UNCHANGED <<stack, reply>>,
           ctl' = "result", DOMAIN ctx' = CtxFields, DOMAIN hist' = DOMAIN hist,
           \/ ctx'.jump = None
           \/ /\ outcome' = "ok" /\ ~(stack = <<>> \/ OnTop("fallback"))
              /\ ctx'.goto = ctx.goto,
           hist'.escaped <=> (outcome' = "err" /\ NoFallback)
    PROVE  FlowTypes' /\ Marks' /\ Errors'
<1>0. FlowTypes /\ Marks /\ Errors
    BY DEF FlowInv
<1>1. FlowTypes'
    BY <1>0, KindsStay DEF FlowTypes
<1>2. Marks'
    BY <1>0, KindsStay DEF Marks
<1>3. Errors'
    BY <1>0, KindsStay DEF Errors
<1> QED BY <1>1, <1>2, <1>3

LEMMA PluginStep ==
    ASSUME FlowInv, ExecPlugin, UNCHANGED buildVars
    PROVE  FlowTypes' /\ Marks' /\ Errors'
<1>0. /\ ctl = "call" /\ DOMAIN ctx = CtxFields /\ ctx.jump = None /\ ~hist.escaped
      /\ DOMAIN hist = {"accepted", "escaped"}
    BY DEF FlowInv, FlowTypes, Marks, Errors, ExecPlugin, Calling
<1>1. CASE /\ Result("err")
           /\ hist' = [hist EXCEPT !.escaped =
                         \/ @
                         \/ \A i \in 1..Len(stack) : Kind(stack[i].obj) # "fallback"]
           /\ UNCHANGED <<ctx, stack, reply>>
    <2> DEFINE e == hist.escaped \/ \A i \in 1..Len(stack) : Kind(stack[i].obj) # "fallback"
    <2>1. e <=> NoFallback
        BY <1>0 DEF NoFallback
    <2>2. hist' = [hist EXCEPT !.escaped = e]
        BY <1>1
    <2> HIDE DEF e
    <2>3. DOMAIN hist' = DOMAIN hist /\ hist'.escaped = e
        BY <1>0, <2>2
    <2>4. ctl' = "result" /\ outcome' = "err"
        BY <1>1 DEF Result
    <2>5. hist'.escaped <=> (outcome' = "err" /\ NoFallback)
        BY <2>1, <2>3, <2>4
    <2> QED BY <1>0, <1>1, <2>3, <2>4, <2>5, LeafStep
<1>2. CASE /\ Result("ok")
           /\ \E r \in {ctx.response, None} \cup Responses :
                ctx' = [ctx EXCEPT !.response = r]
           /\ UNCHANGED <<hist, stack, reply>>
    <2>1. DOMAIN ctx' = CtxFields /\ ctx'.jump = None
        BY <1>0, <1>2 DEF CtxFields
    <2>2. ctl' = "result" /\ outcome' = "ok"
        BY <1>2 DEF Result
    <2> QED BY <1>0, <1>2, <2>1, <2>2, LeafStep
<1> QED BY <1>1, <1>2 DEF ExecPlugin

LEMMA CacheStep ==
    ASSUME FlowInv, ExecCache, UNCHANGED buildVars
    PROVE  FlowTypes' /\ Marks' /\ Errors'
<1>0. /\ ctl = "call" /\ DOMAIN ctx = CtxFields /\ ctx.jump = None /\ ~hist.escaped
    BY DEF FlowInv, FlowTypes, Marks, Errors, ExecCache, Calling
<1>1. ctl' = "result" /\ outcome' = "ok" /\ UNCHANGED <<stack, reply, hist>>
    BY DEF ExecCache, Result
<1>2. DOMAIN ctx' = CtxFields /\ ctx'.jump = None
    BY <1>0 DEF ExecCache, CtxFields
<1> QED BY <1>0, <1>1, <1>2, LeafStep

LEMMA FlowPluginStep ==
    ASSUME FlowInv, ExecFlow, UNCHANGED buildVars
    PROVE  FlowTypes' /\ Marks' /\ Errors'
<1> DEFINE o == heap[callee]
<1>0. /\ ctl = "call" /\ DOMAIN ctx = CtxFields /\ ctx.jump = None /\ ~hist.escaped
      /\ callee \in DOMAIN heap /\ DOMAIN hist = {"accepted", "escaped"}
      /\ o.kind \in {"accept", "return", "reject", "jump", "goto"}
    BY DEF FlowInv, FlowTypes, Marks, Errors, ExecFlow, Calling, Kind
<1>1. ctl' = "result" /\ outcome' = "ok" /\ UNCHANGED <<stack, reply>>
    BY DEF ExecFlow, Result
<1>2. DOMAIN hist' = DOMAIN hist /\ hist'.escaped = hist.escaped
    <2> DEFINE a == hist.accepted \/ o.kind = "accept"
    <2>1. hist' = [hist EXCEPT !.accepted = a]
        BY DEF ExecFlow
    <2> HIDE DEF a
    <2> QED BY <1>0, <2>1
<1>3. ctx' = CASE o.kind = "accept" -> Accept(ctx)
               [] o.kind = "return" -> ReturnPlugin(ctx)
               [] o.kind = "reject" -> Reject(ctx)
               [] o.kind = "jump"   -> Jump(ctx, o.target)
               [] o.kind = "goto"   -> Goto(ctx, o.target)
    BY DEF ExecFlow
<1>4. CASE o.kind = "jump"
    <2>1. ctx' = Jump(ctx, o.target)
        BY <1>3, <1>4
    <2>2. DOMAIN ctx' = CtxFields /\ ctx'.goto = ctx.goto
        BY <1>0, <2>1 DEF Jump, CtxFields
    <2>3. ~(stack = <<>> \/ OnTop("fallback"))
        <3>1. GoodObject(callee) /\ Marks
            BY <1>0 DEF FlowInv, GraphInv, Graph
        <3> QED BY <1>0, <1>4, <3>1 DEF GoodObject, Kind, Marks
    <2> QED BY <1>0, <1>1, <1>2, <2>2, <2>3, LeafStep
<1>5. CASE o.kind # "jump"
    <2>1. DOMAIN ctx' = CtxFields /\ ctx'.jump = None
        BY <1>0, <1>3, <1>5 DEF Accept, ReturnPlugin, Reject, Goto, CtxFields
    <2> QED BY <1>0, <1>1, <1>2, <2>1, LeafStep
<1> QED BY <1>4, <1>5

LEMMA EnterStep ==
    ASSUME FlowInv, Enter, UNCHANGED buildVars
    PROVE  FlowTypes' /\ Marks' /\ Errors'
<1> DEFINE f == [obj |-> callee, pc |-> 1, jumping |-> FALSE]
<1>0. /\ FlowTypes /\ Marks /\ Errors /\ ctl = "call" /\ callee \in DOMAIN heap
      /\ Kind(callee) \in {"sequence", "fallback"}
    BY DEF FlowInv, FlowTypes, Enter, Calling
<1>1. callee \in Ids
    BY <1>0 DEF FlowInv, GraphInv, Graph, GoodObject
<1>2. f \in Frame
    BY <1>1 DEF Frame
<1>3. f.obj = callee /\ stack' = Append(stack, f)
    BY DEF Enter
<1> HIDE DEF f
<1>4. ctl' = "step" /\ UNCHANGED <<ctx, reply, hist, outcome>>
    BY DEF Enter, Continue
<1>5. /\ Frames' /\ stack' # <<>>
      /\ AfterFallback => AfterFallback'
    BY <1>0, <1>2, <1>3, KindsStay, Pushes DEF FlowTypes
<1>6. FlowTypes'
    BY <1>0, <1>4, <1>5, KindsStay DEF FlowTypes
<1>7. Marks'
    BY <1>0, <1>4, <1>5 DEF Marks
<1>8. Errors'
    BY <1>0, <1>4 DEF Errors
<1> QED BY <1>6, <1>7, <1>8

\* A frame returns to the one below it.
LEMMA Returns ==
    ASSUME FlowInv, UNCHANGED buildVars, ctl \in {"step", "result"}, stack # <<>>,
           Return(outcome'), UNCHANGED <<reply, hist>>,
           DOMAIN ctx' = CtxFields, ctx'.jump = None,
           outcome' = "err" =>
             ctl = "result" /\ outcome = "err" /\ Kind(Top.obj) = "sequence",
           outcome' # "err" /\ ctl = "result" /\ outcome = "err" =>
             Kind(Top.obj) = "fallback"
    PROVE  FlowTypes' /\ Marks' /\ Errors'
<1>0. FlowTypes /\ Marks /\ Errors
    BY DEF FlowInv
<1>1. stack' = Pop /\ ctl' = "result"
    BY DEF Return, Result
<1>2. /\ Frames'
      /\ NoFallback => NoFallback'
      /\ Kind(Top.obj) = "sequence" /\ NoFallback' => NoFallback
    BY <1>0, <1>1, KindsStay, Pops DEF FlowTypes
<1>3. FlowTypes'
    BY <1>0, <1>1, <1>2, KindsStay DEF FlowTypes
<1>4. Marks'
    BY <1>1 DEF Marks
<1>5. Kind(Top.obj) = "fallback" => ~NoFallback
    BY <1>0, TopFacts DEF FlowTypes, NoFallback
<1>6. Errors'
    BY <1>0, <1>1, <1>2, <1>5 DEF Errors
<1> QED BY <1>3, <1>4, <1>6

\* The top frame goes on to its next step.
LEMMA GoesOn ==
    ASSUME FlowInv, UNCHANGED buildVars, ctl \in {"step", "result"}, stack # <<>>,
           NEW f \in Frame, f.obj = Top.obj, f.pc = Top.pc + 1, stack' = WithTop(f),
           ctl' = "step", UNCHANGED <<reply, hist>>, DOMAIN ctx' = CtxFields,
           ctx'.jump = None,
           Kind(Top.obj) = "fallback" \/ (ctx'.goto = None /\ ~ctx'.ret),
           ctl = "result" /\ outcome = "err" => Kind(Top.obj) = "fallback"
    PROVE  FlowTypes' /\ Marks' /\ Errors'
<1>0. FlowTypes /\ Marks /\ Errors
    BY DEF FlowInv
<1>1. Top \in Frame /\ (Kind(Top.obj) = "fallback" => ~NoFallback)
    BY <1>0, TopFacts DEF FlowTypes, NoFallback
<1>2. f.pc >= Top.pc /\ f.pc > 1
    BY <1>1 DEF Frame
<1>3. /\ Frames' /\ stack' # <<>>
      /\ Kind(Top.obj) = "fallback" => AfterFallback'
    BY <1>0, <1>2, KindsStay, Moves DEF FlowTypes
<1>4. FlowTypes'
    BY <1>0, <1>3, KindsStay DEF FlowTypes
<1>5. Marks'
    BY <1>3 DEF Marks
<1>6. Errors'
    BY <1>0, <1>1 DEF Errors
<1> QED BY <1>4, <1>5, <1>6

\* What a sequence makes of its frame.
LEMMA FrameChanges ==
    ASSUME NEW t \in Frame, NEW p \in Nat \ {0}
    PROVE  LET f == [t EXCEPT !.pc = p, !.jumping = FALSE]
               g == [t EXCEPT !.pc = p]
           IN /\ f \in Frame /\ f.obj = t.obj /\ f.pc = p
              /\ g \in Frame /\ g.obj = t.obj /\ g.pc = p
BY DEF Frame

LEMMA FrameJumps ==
    ASSUME NEW t \in Frame
    PROVE  LET f == [t EXCEPT !.jumping = TRUE]
           IN f \in Frame /\ f.obj = t.obj /\ f.pc = t.pc
BY DEF Frame

\* The end of a step of a sequence, after a plugin that did not fail.
LEMMA AfterStepInv ==
    ASSUME FlowInv, UNCHANGED buildVars, ctl \in {"step", "result"}, OnTop("sequence"),
           NEW c, DOMAIN c = CtxFields, c.jump = ctx.jump, c.goto = ctx.goto,
           AfterStep(c), UNCHANGED <<reply, hist>>, ctl = "result" => outcome # "err"
    PROVE  FlowTypes' /\ Marks' /\ Errors'
<1>0. FlowTypes /\ Marks /\ Errors /\ stack # <<>> /\ Kind(Top.obj) = "sequence"
    BY DEF FlowInv, OnTop
<1>1. ASSUME NEW d, DOMAIN d = CtxFields, d.jump = None, EndStep(d)
      PROVE  FlowTypes' /\ Marks' /\ Errors'
    <2>1. CASE d.goto # None \/ d.ret
        <3>1. ctx' = [d EXCEPT !.ret = TRUE] /\ Return("ok")
            BY <1>1, <2>1 DEF EndStep
        <3>2. DOMAIN ctx' = CtxFields /\ ctx'.jump = None
            BY <1>1, <3>1 DEF CtxFields
        <3>3. Return(outcome') /\ outcome' = "ok"
            BY <3>1 DEF Return, Result
        <3> QED BY <1>0, <3>2, <3>3, Returns
    <2>2. CASE ~(d.goto # None \/ d.ret)
        <3> DEFINE f == [Top EXCEPT !.pc = @ + 1, !.jumping = FALSE]
        <3>1. ctx' = d /\ stack' = WithTop(f) /\ ctl' = "step"
            BY <1>1, <2>2 DEF EndStep, Continue
        <3>2. Top \in Frame
            BY <1>0, TopFacts DEF FlowTypes
        <3>3. f \in Frame /\ f.obj = Top.obj /\ f.pc = Top.pc + 1
            <4>1. Top.pc + 1 \in Nat \ {0}
                BY <3>2 DEF Frame
            <4> QED BY ONLY <3>2, <4>1, FrameChanges
        <3> HIDE DEF f
        <3> QED BY <1>0, <1>1, <2>2, <3>1, <3>3, GoesOn
    <2> QED BY <2>1, <2>2
<1> DEFINE taken == [c EXCEPT !.jump = None, !.ret = FALSE]
<1>2. /\ DOMAIN taken = CtxFields /\ taken.jump = None /\ taken.goto = c.goto
      /\ taken.ret = FALSE
    BY DEF CtxFields
<1>3. CASE c.jump = None
    BY <1>1, <1>3 DEF AfterStep
<1>4. CASE c.jump # None /\ ~Known(c.jump)
    <2>1. EndStep(taken)
        BY <1>4 DEF AfterStep
    <2>2. \A d : DOMAIN d = CtxFields /\ d.jump = None /\ EndStep(d) =>
                   FlowTypes' /\ Marks' /\ Errors'
        BY <1>1
    <2>3. DOMAIN taken = CtxFields /\ taken.jump = None
        BY <1>2
    <2> HIDE DEF taken
    <2> QED BY ONLY <2>1, <2>2, <2>3
<1>5. CASE c.jump # None /\ Known(c.jump)
    <2> DEFINE f == [Top EXCEPT !.jumping = TRUE]
    <2>1. /\ ctx' = taken /\ stack' = WithTop(f)
          /\ ctl' = "call" /\ callee' = plugins[c.jump] /\ UNCHANGED outcome
        BY <1>5 DEF AfterStep, Call
    <2>2. Top \in Frame
        BY <1>0, TopFacts DEF FlowTypes
    <2>3. f \in Frame /\ f.obj = Top.obj /\ f.pc >= Top.pc
        <3>1. f \in Frame /\ f.obj = Top.obj /\ f.pc = Top.pc
            BY ONLY <2>2, FrameJumps
        <3>2. Top.pc \in Nat
            BY <2>2 DEF Frame
        <3> HIDE DEF f
        <3> QED BY <3>1, <3>2
    <2> HIDE DEF f, taken
    <2>4. /\ Frames' /\ stack' # <<>>
          /\ AfterFallback => AfterFallback'
        BY <1>0, <2>1, <2>3, KindsStay, Moves DEF FlowTypes
    <2>5. callee' \in DOMAIN heap /\ ~IsInline(callee')
        BY <1>5, <2>1 DEF Known, FlowInv, GraphInv, Graph
    <2>6. ctl = "result" /\ (ctx.goto # None => AfterFallback)
        BY <1>0, <1>5 DEF Marks
    <2>7. FlowTypes'
        BY <1>0, <1>2, <2>1, <2>4, <2>5, KindsStay DEF FlowTypes
    <2>8. Marks'
        BY <1>2, <2>1, <2>4, <2>5, <2>6 DEF Marks
    <2>9. Errors'
        BY <1>0, <2>1, <2>6 DEF Errors
    <2> QED BY <2>7, <2>8, <2>9
<1> QED BY <1>3, <1>4, <1>5

LEMMA SequenceStepInv ==
    ASSUME FlowInv, SequenceStep, UNCHANGED buildVars
    PROVE  FlowTypes' /\ Marks' /\ Errors'
<1> DEFINE steps == heap[Top.obj].steps
<1>0. /\ FlowTypes /\ Marks /\ Errors /\ ctl = "step" /\ OnTop("sequence")
      /\ stack # <<>> /\ Kind(Top.obj) = "sequence" /\ ctx.jump = None
      /\ DOMAIN ctx = CtxFields /\ UNCHANGED <<reply, hist>>
    BY DEF FlowInv, FlowTypes, Marks, SequenceStep, OnTop
<1>1. CASE Top.pc > Len(steps) /\ Return("ok") /\ UNCHANGED ctx
    <2>1. Return(outcome') /\ outcome' = "ok"
        BY <1>1 DEF Return, Result
    <2> QED BY <1>0, <1>1, <2>1, Returns
<1>2. CASE Top.pc <= Len(steps) /\ Call(steps[Top.pc].obj) /\ UNCHANGED <<ctx, stack>>
    <2>1. Top \in Frame /\ Top.obj \in DOMAIN heap
        BY <1>0, TopFacts DEF FlowTypes
    <2>2. Top.pc \in Nat \ {0}
        BY <2>1 DEF Frame
    <2>3. /\ IsList(steps)
          /\ \A i \in DOMAIN steps : steps[i].obj \in DOMAIN heap
        BY <1>0, <2>1 DEF FlowInv, GraphInv, Graph, GoodObject
    <2>4. Top.pc \in DOMAIN steps
        BY <1>2, <2>2, <2>3 DEF IsList
    <2>5. ctl' = "call" /\ callee' \in DOMAIN heap /\ UNCHANGED outcome
        BY <1>2, <2>3, <2>4 DEF Call
    <2>6. FlowTypes'
        BY <1>0, <1>2, <2>5, KindsStay DEF FlowTypes
    <2>7. Marks'
        BY <1>0, <1>2, <2>5, KindsStay DEF Marks, OnTop
    <2>8. Errors'
        BY <1>0, <1>2, <2>5 DEF Errors
    <2> QED BY <2>6, <2>7, <2>8
<1>3. CASE AfterStep(ctx)
    BY <1>0, <1>3, AfterStepInv
<1>4. Top.pc \in Nat /\ Len(steps) \in Nat
    <2>1. Top \in Frame /\ Top.obj \in DOMAIN heap
        BY <1>0, TopFacts DEF FlowTypes
    <2>2. IsList(steps)
        BY <1>0, <2>1 DEF FlowInv, GraphInv, Graph, GoodObject
    <2> QED BY <2>1, <2>2 DEF Frame, IsList
<1> QED BY <1>1, <1>2, <1>3, <1>4 DEF SequenceStep

LEMMA SequenceResultInv ==
    ASSUME FlowInv, SequenceResult, UNCHANGED buildVars
    PROVE  FlowTypes' /\ Marks' /\ Errors'
<1>0. /\ FlowTypes /\ Marks /\ Errors /\ ctl = "result" /\ OnTop("sequence")
      /\ stack # <<>> /\ Kind(Top.obj) = "sequence"
      /\ DOMAIN ctx = CtxFields /\ UNCHANGED <<reply, hist>>
    BY DEF FlowInv, FlowTypes, SequenceResult, OnTop
<1>1. CASE outcome = "err" /\ Return("err") /\ UNCHANGED ctx
    <2>1. Return(outcome') /\ outcome' = "err"
        BY <1>1 DEF Return, Result
    <2>2. ctx.jump = None
        BY <1>0, <1>1 DEF Marks
    <2> QED BY <1>0, <1>1, <2>1, <2>2, Returns
<1>2. CASE outcome # "err" /\ ~Top.jumping /\ AfterStep(ctx)
    BY <1>0, <1>2, AfterStepInv
<1>3. CASE outcome # "err" /\ Top.jumping /\ AfterStep([ctx EXCEPT !.ret = FALSE])
    <2> DEFINE c == [ctx EXCEPT !.ret = FALSE]
    <2>1. DOMAIN c = CtxFields /\ c.jump = ctx.jump /\ c.goto = ctx.goto
        BY <1>0 DEF CtxFields
    <2>2. AfterStep(c)
        BY <1>3
    <2> HIDE DEF c
    <2> QED BY <1>0, <1>3, <2>1, <2>2, AfterStepInv
<1> QED BY <1>1, <1>2, <1>3 DEF SequenceResult

LEMMA FallbackStepInv ==
    ASSUME FlowInv, FallbackStep, UNCHANGED buildVars
    PROVE  FlowTypes' /\ Marks' /\ Errors'
<1> DEFINE children == heap[Top.obj].children
<1>0. /\ FlowTypes /\ Marks /\ Errors /\ ctl = "step" /\ OnTop("fallback")
      /\ stack # <<>> /\ Kind(Top.obj) = "fallback" /\ ctx.jump = None
      /\ DOMAIN ctx = CtxFields /\ UNCHANGED <<ctx, reply, hist>>
    BY DEF FlowInv, FlowTypes, Marks, FallbackStep, OnTop
<1>1. Top \in Frame /\ Top.obj \in DOMAIN heap
    BY <1>0, TopFacts DEF FlowTypes
<1>2. Top.pc \in Nat \ {0}
    BY <1>1 DEF Frame
<1>3. /\ children \in Seq(Ids)
      /\ \A i \in DOMAIN children : children[i] \in DOMAIN heap /\ ~IsInline(children[i])
    BY <1>0, <1>1 DEF FlowInv, GraphInv, Graph, GoodObject
<1>4. CASE Top.pc > Len(children) /\ Return("ok")
    <2>1. Return(outcome') /\ outcome' = "ok"
        BY <1>4 DEF Return, Result
    <2> QED BY <1>0, <1>4, <2>1, Returns
<1>5. CASE ~(Top.pc > Len(children)) /\ Call(children[Top.pc]) /\ UNCHANGED stack
    <2>1. Top.pc \in DOMAIN children
        BY <1>2, <1>3, <1>5
    <2>2. /\ ctl' = "call" /\ UNCHANGED outcome
          /\ callee' \in DOMAIN heap /\ ~IsInline(callee')
        BY <1>3, <1>5, <2>1 DEF Call
    <2>3. FlowTypes'
        BY <1>0, <1>5, <2>2, KindsStay DEF FlowTypes
    <2>4. Marks'
        BY <1>0, <1>5, <2>2, KindsStay DEF Marks
    <2>5. Errors'
        BY <1>0, <2>2 DEF Errors
    <2> QED BY <2>3, <2>4, <2>5
<1> QED BY <1>4, <1>5 DEF FallbackStep

LEMMA FallbackResultInv ==
    ASSUME FlowInv, FallbackResult, UNCHANGED buildVars
    PROVE  FlowTypes' /\ Marks' /\ Errors'
<1>0. /\ FlowTypes /\ Marks /\ Errors /\ ctl = "result" /\ OnTop("fallback")
      /\ stack # <<>> /\ Kind(Top.obj) = "fallback" /\ ctx.jump = None
      /\ DOMAIN ctx = CtxFields /\ UNCHANGED <<ctx, reply, hist>>
    BY DEF FlowInv, FlowTypes, Marks, FallbackResult, OnTop
<1>1. CASE ShouldFallback
    <2> DEFINE f == [Top EXCEPT !.pc = @ + 1]
    <2>1. stack' = WithTop(f) /\ ctl' = "step"
        BY <1>1 DEF FallbackResult, Continue
    <2>2. Top \in Frame
        BY <1>0, TopFacts DEF FlowTypes
    <2>3. f \in Frame /\ f.obj = Top.obj /\ f.pc = Top.pc + 1
        <3>1. Top.pc + 1 \in Nat \ {0}
            BY <2>2 DEF Frame
        <3> QED BY ONLY <2>2, <3>1, FrameChanges
    <2> HIDE DEF f
    <2> QED BY <1>0, <2>1, <2>3, GoesOn
<1>2. CASE ~ShouldFallback
    <2>1. Return(outcome') /\ outcome' = "ok" /\ outcome # "err"
        BY <1>2 DEF FallbackResult, ShouldFallback, Return, Result
    <2> QED BY <1>0, <2>1, Returns
<1> QED BY <1>1, <1>2

-----------------------------------------------------------------------------
(* The handler                                                             *)

LEMMA HandleInv ==
    ASSUME FlowInv, Handle, UNCHANGED buildVars
    PROVE  FlowTypes' /\ Marks' /\ Errors' /\ ctl' # "idle"
<1>0. /\ FlowTypes /\ stage = "serving" /\ stack = <<>> /\ UNCHANGED stack
      /\ reply' = NoReply /\ hist' = NoHistory
    BY DEF FlowInv, FlowTypes, Handle
<1>1. DOMAIN ctx' = CtxFields /\ ctx'.jump = None /\ ctx'.goto = None /\ ~ctx'.ret
    <2>1. PICK b \in BOOLEAN : ctx' = FreshCtx(b)
        BY DEF Handle
    <2> QED BY <2>1 DEF FreshCtx, CtxFields
<1>2. \/ ctl' = "goto"
      \/ ctl' = "call" /\ callee' \in DOMAIN heap /\ ~IsInline(callee')
    BY DEF Handle, Call, Continue, Known, FlowInv, GraphInv, Graph
<1>3. FlowTypes'
    BY <1>0, <1>1, <1>2, KindsStay DEF FlowTypes
<1>4. Marks'
    BY <1>1, <1>2 DEF Marks
<1>5. Errors'
    BY <1>0, <1>2 DEF Errors, NoReply, NoHistory
<1> QED BY <1>2, <1>3, <1>4, <1>5

LEMMA HandlerResultInv ==
    ASSUME FlowInv, HandlerResult, UNCHANGED buildVars
    PROVE  FlowTypes' /\ Marks' /\ Errors' /\ (ctl' = "idle" => reply'.response = None)
<1>0. /\ FlowTypes /\ Marks /\ Errors /\ ctl = "result" /\ stack = <<>>
      /\ UNCHANGED <<ctx, stack, hist>>
    BY DEF FlowInv, HandlerResult
<1>1. ctx.jump = None /\ DOMAIN ctx = CtxFields
    BY <1>0 DEF Marks, FlowTypes
<1>2. NoFallback
    BY <1>0 DEF NoFallback
<1>3. \/ outcome = "err" /\ reply'.kind = "error" /\ reply'.response = None /\ ctl' = "idle"
      \/ outcome # "err" /\ ctl' = "goto" /\ UNCHANGED reply
    BY DEF HandlerResult, Continue
<1>4. FlowTypes'
    BY <1>0, <1>3, KindsStay DEF FlowTypes
<1>5. Marks'
    BY <1>0, <1>1, <1>3 DEF Marks
<1>6. Errors'
    BY <1>0, <1>2, <1>3 DEF Errors
<1> QED BY <1>3, <1>4, <1>5, <1>6

LEMMA HandlerGotoInv ==
    ASSUME FlowInv, HandlerGoto, UNCHANGED buildVars
    PROVE  FlowTypes' /\ Marks' /\ Errors' /\ ctl' # "idle"
<1>0. /\ FlowTypes /\ Marks /\ Errors /\ ctl = "goto" /\ stack = <<>>
      /\ UNCHANGED <<reply, stack, hist>> /\ ctx.jump = None /\ DOMAIN ctx = CtxFields
    BY DEF FlowInv, HandlerGoto, FlowTypes, Marks
<1>1. CASE ctx.goto = None
    <2>1. ctl' = "store" /\ UNCHANGED ctx
        BY <1>1 DEF HandlerGoto, Continue
    <2>2. FlowTypes'
        BY <1>0, <2>1, KindsStay DEF FlowTypes
    <2>3. Marks'
        BY <1>0, <2>1 DEF Marks
    <2>4. Errors'
        BY <1>0, <2>1 DEF Errors
    <2> QED BY <2>1, <2>2, <2>3, <2>4
<1>2. CASE ctx.goto # None
    <2>1. /\ ctx' = [ctx EXCEPT !.goto = None, !.ret = FALSE]
          /\ \/ ctl' = "store"
             \/ ctl' = "call" /\ callee' \in DOMAIN heap /\ ~IsInline(callee')
        BY <1>2 DEF HandlerGoto, Call, Continue, Known, FlowInv, GraphInv, Graph
    <2>2. DOMAIN ctx' = CtxFields /\ ctx'.jump = None /\ ctx'.goto = None /\ ~ctx'.ret
        BY <1>0, <2>1 DEF CtxFields
    <2>3. FlowTypes'
        BY <1>0, <2>1, <2>2, KindsStay DEF FlowTypes
    <2>4. Marks'
        BY <2>1, <2>2 DEF Marks
    <2>5. Errors'
        BY <1>0, <2>1 DEF Errors
    <2> QED BY <2>1, <2>3, <2>4, <2>5
<1> QED BY <1>1, <1>2

LEMMA FinishInv ==
    ASSUME FlowInv, Finish, UNCHANGED buildVars
    PROVE  FlowTypes' /\ Marks' /\ Errors' /\ FinalStored'
<1>0. /\ FlowTypes /\ Errors /\ ctl = "store" /\ stack = <<>> /\ DOMAIN ctx = CtxFields
      /\ UNCHANGED <<ctx, stack, hist>> /\ ctl' = "idle"
    BY DEF FlowInv, Finish, FlowTypes, Continue
<1>1. reply'.response = ctx.response /\ reply'.kind # "error"
    BY DEF Finish
<1>2. FlowTypes'
    BY <1>0, KindsStay DEF FlowTypes
<1>3. Marks'
    BY <1>0 DEF Marks
<1>4. Errors'
    BY <1>0, <1>1 DEF Errors
<1>5. FinalStored'
    <2>1. Caches' = Caches
        BY DEF Caches, Kind, buildVars
    <2>2. (Storable(reply.response) /\ ~ctx.fromCache)'
            => Storable(ctx.response) /\ ~ctx.fromCache
        BY <1>0, <1>1 DEF Storable
    <2>3. Storable(ctx.response) /\ ~ctx.fromCache
            => \A id \in Caches : id \in DOMAIN stored' /\ stored'[id] = ctx.response
        BY DEF Finish
    <2> QED BY <1>0, <1>1, <2>1, <2>2, <2>3 DEF FinalStored
<1> QED BY <1>2, <1>3, <1>4, <1>5

LEMMA FlowNextInv ==
    ASSUME FlowInv, Handle \/ FlowNext, UNCHANGED buildVars
    PROVE  FlowInv'
<1>1. FlowTypes' /\ Marks' /\ Errors'
    BY PluginStep, CacheStep, FlowPluginStep, EnterStep, SequenceStepInv, SequenceResultInv,
       FallbackStepInv, FallbackResultInv, HandleInv, HandlerResultInv, HandlerGotoInv,
       FinishInv DEF FlowNext, HandlerStep
<1>2. FinalStored'
    <2>1. CASE Finish
        BY <2>1, FinishInv
    <2>2. CASE HandlerResult
        BY <2>2, HandlerResultInv DEF FinalStored, Storable
    <2>3. CASE ~Finish /\ ~HandlerResult
        <3>1. ctl' # "idle"
            BY <2>3, HandleInv, HandlerGotoInv DEF FlowNext, HandlerStep, ExecPlugin,
               ExecCache, ExecFlow, Enter, SequenceStep, SequenceResult, FallbackStep,
               FallbackResult, AfterStep, EndStep, Return, Result, Continue, Call
        <3> QED BY <3>1 DEF FinalStored
    <2> QED BY <2>1, <2>2, <2>3
<1>3. stage' = "serving"
    <2>1. stage = "serving"
        BY DEF FlowInv, FlowTypes, Handle, FlowNext, HandlerStep, ExecPlugin, ExecCache,
           ExecFlow, Enter, SequenceStep, SequenceResult, FallbackStep, FallbackResult,
           HandlerResult, HandlerGoto, Finish, Calling
    <2> QED BY <2>1, KindsStay
<1>4. GraphInv'
    BY DEF FlowInv, GraphInv, BuildTypes, Graph, GoodObject, Kind, buildVars
<1> QED BY <1>1, <1>2, <1>3, <1>4 DEF FlowInv, Stored

\* While the plugins are built no request is served.
LEMMA BuildNextInv ==
    ASSUME FlowInv, BuildNext, UNCHANGED flowVars
    PROVE  FlowInv'
<1>0. stage # "serving"
    BY DEF BuildNext, Build, RebuildSequence, RebuildFails, ResolveFallback, SkipEntry,
       ResolveEmbedded
<1>1. ctl = "idle" /\ stack = <<>> /\ reply = NoReply /\ DOMAIN ctx = CtxFields
    BY <1>0 DEF FlowInv, FlowTypes, Stored
<1>2. GraphInv'
    BY BuildNextTypes, BuildNextGraph DEF FlowInv, GraphInv
<1>3. FlowTypes'
    BY <1>1 DEF FlowTypes, Frames, flowVars
<1>4. Marks'
    BY <1>1 DEF Marks, flowVars
<1>5. Errors'
    BY <1>1 DEF FlowInv, Errors, flowVars
<1>6. Stored'
    BY <1>1 DEF Stored, FinalStored, Storable, NoReply, flowVars
<1> QED BY <1>2, <1>3, <1>4, <1>5, <1>6 DEF FlowInv

THEOREM FlowInvariant == Spec => []FlowInv
<1>1. Init => FlowInv
    <2> SUFFICES ASSUME Init PROVE FlowInv
        OBVIOUS
    <2>1. GraphInv
        BY BuildInitGraph DEF Init
    <2>2. FlowTypes /\ Marks /\ Errors /\ Stored
        BY DEF Init, FlowInit, FlowTypes, Frames, Marks, Errors, Stored, FinalStored,
           Storable, NoReply, NoHistory, FreshCtx, CtxFields
    <2> QED BY <2>1, <2>2 DEF FlowInv
<1>2. FlowInv /\ [Next]_vars => FlowInv'
    <2> SUFFICES ASSUME FlowInv, [Next]_vars PROVE FlowInv'
        OBVIOUS
    <2>1. CASE BuildNext /\ UNCHANGED flowVars
        BY <2>1, BuildNextInv
    <2>2. CASE (Handle \/ FlowNext) /\ UNCHANGED buildVars
        BY <2>2, FlowNextInv
    <2>3. CASE UNCHANGED vars
        BY <2>3 DEF vars, buildVars, flowVars, FlowInv, GraphInv, BuildTypes, Graph,
           GoodObject, Kind, FlowTypes, Frames, Marks, OnTop, Top, AfterFallback, Errors,
           NoFallback, Stored, FinalStored, Caches
    <2> QED BY <2>1, <2>2, <2>3 DEF Next
<1> QED BY <1>1, <1>2, PTL DEF Spec

(***************************************************************************)
(* Marks never leak from one sequence into another, in any configuration   *)
(* and however deep the sequences, jumps and fallbacks nest                *)
(* (sequence.rs:137-193, mod.rs:112-129, fallback.rs:170-205).             *)
(***************************************************************************)
THEOREM MarksAreScoped == Spec => []MarksScoped
<1>1. FlowInv => MarksScoped
    BY DEF FlowInv, Marks, MarksScoped
<1> QED BY <1>1, FlowInvariant, PTL

(***************************************************************************)
(* A request fails exactly when a plugin failed outside every fallback,    *)
(* and otherwise each registered cache has stored the answer that the      *)
(* client gets, unless a cache supplied it (sequence.rs:106-113, 159-164,  *)
(* mod.rs:107-146).                                                        *)
(***************************************************************************)
THEOREM OutcomesAreKept == Spec => []OutcomeKept
<1>1. FlowInv => OutcomeKept
    BY DEF FlowInv, Errors, Stored, OutcomeKept, ErrorsPropagate
<1> QED BY <1>1, FlowInvariant, PTL

-----------------------------------------------------------------------------
(* References: the inductive invariant of the builder                      *)

\* A registered object was made for an entry of its name.
Entries ==
    \A n \in DOMAIN plugins :
      plugins[n][1] \in 1..Len(config) /\ config[plugins[n][1]].name = n

\* What build() makes has the kind of its entry, and what replaces it is a
\* sequence.
ObjectOf(id) ==
    /\ id[2] = 0 =>
         /\ Kind(id) = "fallback" => config[id[1]].type = "fallback"
         /\ Kind(id) = "sequence" <=> config[id[1]].type = "sequence"
         /\ Kind(id) = "sequence" => heap[id].steps = <<>>
    /\ id[2] = 1 => Kind(id) = "sequence" /\ stage # "build"

Objects == \A id \in DOMAIN heap : ObjectOf(id)

\* Children are resolved when no name is registered any more.
Children ==
    \A id \in DOMAIN heap : Kind(id) = "fallback" =>
      /\ stage \in {"build", "sequences"} => heap[id].children = <<>>
      /\ \A i \in DOMAIN heap[id].children : Current(heap[id].children[i])

\* Pass 1 leaves no placeholder registered behind it.
Placeholders ==
    stage = "sequences" =>
      \A n \in DOMAIN plugins :
        plugins[n][2] = 0 /\ config[plugins[n][1]].type = "sequence" => plugins[n][1] >= pos

\* A step that mentions a name has an object that stays registered under it, or
\* the placeholder of a sequence whose turn had not come.
Lasting(s) == Current(s) /\ (s[2] = 1 \/ config[s[1]].type # "sequence")

Captured ==
    NamesDistinct =>
      \A id \in DOMAIN heap : id[2] = 1 =>
        \A i \in DOMAIN heap[id].steps :
          LET s == heap[id].steps[i].obj IN
          IsInline(s) \/ Lasting(s) \/ (s[2] = 0 /\ Kind(s) = "sequence" /\ s[1] >= id[1])

\* Passes 2 and 3 drain the names of the fallback plugins.
Done(j) ==
    \/ stage = "fallbacks" /\ j < pos
    \/ stage = "embedded"
    \/ stage = "serving" /\ ~resolveErr

Drained ==
    /\ \A n \in DOMAIN plugins :
         Kind(plugins[n]) = "fallback" /\ Done(plugins[n][1]) => heap[plugins[n]].pending = <<>>
    /\ stage = "serving" /\ ~resolveErr =>
         \A n \in DOMAIN plugins : Kind(plugins[n]) = "sequence" =>
           \A i \in DOMAIN heap[plugins[n]].steps :
             LET s == heap[plugins[n]].steps[i].obj IN
             Kind(s) = "fallback" => heap[s].pending = <<>>

RefInv == Entries /\ Objects /\ Children /\ Placeholders /\ Captured /\ Drained

LEMMA RefBuild ==
    ASSUME GraphInv, RefInv, Build
    PROVE  RefInv'
<1> DEFINE c == config[pos]
           new == NewObject(c)
           b == Built(pos)
<1>0. /\ pos \in 1..Len(config) /\ pos \in Nat /\ Graph /\ BuildTypes /\ stage = "build"
      /\ UNCHANGED config /\ stage' \in {"build", "sequences"}
      /\ stage' = "sequences" => pos' = 1
    BY EntryFacts DEF GraphInv, BuildTypes, Build, Advance, IsList
<1>1. Entries /\ Objects /\ Children
    BY DEF RefInv
<1>2. \A id \in DOMAIN heap : id \in Ids /\ id[2] # 1
    BY <1>0, <1>1 DEF Graph, GoodObject, Objects, ObjectOf
<1>3. /\ DOMAIN heap \subseteq DOMAIN heap'
      /\ \A id \in DOMAIN heap' :
           \/ id \in DOMAIN heap /\ heap'[id] = heap[id]
           \/ id = b /\ heap'[id] = new /\ c.type # "broken"
      /\ \A n \in DOMAIN plugins' :
           \/ n \in DOMAIN plugins /\ plugins'[n] = plugins[n]
           \/ n = c.name /\ plugins'[n] = b
    <2>1. CASE c.type = "broken"
        BY <2>1 DEF Build
    <2>2. CASE c.type # "broken"
        <3>1. heap' = Insert(heap, b, new) /\ plugins' = Insert(plugins, c.name, b)
            BY <2>2 DEF Build
        <3> HIDE DEF b, new, c
        <3> QED BY <2>2, <3>1 DEF Insert
    <2> QED BY <2>1, <2>2
<1>4. b[1] = pos /\ b[2] = 0
    BY DEF Built
<1>5. c.type # "broken" =>
        /\ new.kind = "fallback" <=> c.type = "fallback"
        /\ new.kind = "sequence" <=> c.type = "sequence"
        /\ new.kind = "sequence" => new.steps = <<>>
        /\ new.kind = "fallback" => new.children = <<>>
    BY <1>0, EntryFacts DEF NewObject, EntryTypes
<1> HIDE DEF new, b
<1>6. Entries'
    BY <1>0, <1>1, <1>3, <1>4 DEF Entries
<1>7. ASSUME NEW id \in DOMAIN heap' PROVE ObjectOf(id)' /\ id[2] # 1
    BY <1>0, <1>1, <1>2, <1>3, <1>4, <1>5 DEF Objects, ObjectOf, Kind
<1>8. Children'
    <2>1. \A id \in DOMAIN heap' : Kind(id)' = "fallback" => heap'[id].children = <<>>
        BY <1>0, <1>1, <1>3, <1>5 DEF Children, Kind
    <2> QED BY <2>1 DEF Children
<1>9. Placeholders'
    BY <1>0, <1>6 DEF Placeholders, Entries
<1>10. Captured'
    BY <1>7 DEF Captured
<1>11. Drained'
    BY <1>0 DEF Drained, Done
<1> QED BY <1>6, <1>7, <1>8, <1>9, <1>10, <1>11 DEF RefInv, Objects

LEMMA RefRebuild ==
    ASSUME GraphInv, RefInv, RebuildSequence
    PROVE  RefInv'
<1> DEFINE r == Rebuilt(pos)
           name == config[pos].name
<1>0. /\ pos \in 1..Len(config) /\ pos \in Nat /\ Len(config) \in Nat /\ Graph
      /\ BuildTypes /\ stage = "sequences" /\ config[pos].type = "sequence"
      /\ UNCHANGED config /\ pos' \in Nat
      /\ \/ stage' = "sequences" /\ pos' = pos + 1
         \/ stage' = "fallbacks" /\ pos' = 1
    BY EntryFacts DEF GraphInv, BuildTypes, RebuildSequence, Advance, IsList
<1>1. Entries /\ Objects /\ Children /\ Placeholders /\ Captured
    BY DEF RefInv
<1>2. /\ DOMAIN plugins' = DOMAIN plugins \cup {name}
      /\ plugins'[name] = r
      /\ \A n \in DOMAIN plugins : n # name => plugins'[n] = plugins[n]
    <2>1. plugins' = Insert(plugins, name, r)
        BY DEF RebuildSequence
    <2> HIDE DEF r, name
    <2> QED BY <2>1 DEF Insert
<1>3. /\ r \in DOMAIN heap' /\ heap'[r].kind = "sequence"
      /\ DOMAIN heap \subseteq DOMAIN heap'
      /\ \A k \in DOMAIN heap'[r].steps :
           LET s == heap'[r].steps[k].obj IN
           IsInline(s) \/ \E n \in DOMAIN plugins : s = plugins[n]
      /\ \A id \in DOMAIN heap' :
           \/ id = r
           \/ id \in DOMAIN heap /\ heap'[id] = heap[id]
           \/ /\ id \in Ids /\ IsInline(id) /\ heap'[id].kind # "sequence"
              /\ heap'[id].kind = "fallback" => heap'[id].children = <<>>
    BY RebuildFacts
<1>4. r[1] = pos /\ r[2] = 1
    BY DEF Rebuilt
<1>5. \A id \in Ids : IsInline(id) => id[2] # 0 /\ id[2] # 1
    BY DEF Ids, IsInline
<1>6. \A id \in DOMAIN heap : id \in Ids
    BY <1>0 DEF Graph, GoodObject
<1> HIDE DEF r
<1>7. Entries'
    BY <1>0, <1>1, <1>2, <1>4 DEF Entries
<1>8. Objects'
    <2> SUFFICES ASSUME NEW id \in DOMAIN heap' PROVE ObjectOf(id)'
        BY DEF Objects
    <2>1. CASE id = r
        BY <1>0, <1>3, <1>4, <2>1 DEF ObjectOf, Kind
    <2>2. CASE id \in DOMAIN heap /\ heap'[id] = heap[id]
        BY <1>0, <1>1, <2>2 DEF Objects, ObjectOf, Kind
    <2>3. CASE id \in Ids /\ IsInline(id)
        BY <1>5, <2>3 DEF ObjectOf
    <2> QED BY <1>3, <2>1, <2>2, <2>3
<1>9. Children'
    <2>1. \A id \in DOMAIN heap' : Kind(id)' = "fallback" => heap'[id].children = <<>>
        BY <1>0, <1>1, <1>3 DEF Children, Kind
    <2> QED BY <2>1 DEF Children
<1>10. Placeholders'
    <2> SUFFICES ASSUME stage' = "sequences", NEW n \in DOMAIN plugins',
                        plugins'[n][2] = 0, config[plugins'[n][1]].type = "sequence"
                 PROVE  plugins'[n][1] >= pos'
        BY <1>0 DEF Placeholders
    <2>1. n \in DOMAIN plugins /\ n # name /\ plugins'[n] = plugins[n]
        BY <1>2, <1>4
    <2>2. plugins[n][1] >= pos /\ plugins[n][1] \in 1..Len(config)
        BY <1>0, <1>1, <2>1 DEF Placeholders, Entries
    <2>3. plugins[n][1] # pos
        BY <1>1, <2>1 DEF Entries
    <2> QED BY <1>0, <2>1, <2>2, <2>3
<1>11. Captured'
    <2> SUFFICES ASSUME NamesDistinct, NEW id \in DOMAIN heap', id[2] = 1,
                        NEW i \in DOMAIN heap'[id].steps, NEW s, s = heap'[id].steps[i].obj,
                        ~IsInline(s)
                 PROVE  Lasting(s)' \/ (s[2] = 0 /\ Kind(s)' = "sequence" /\ s[1] >= id[1])
        BY <1>0 DEF Captured, NamesDistinct
    <2>1. ASSUME Lasting(s) PROVE Lasting(s)'
        <3>1. PICK n \in DOMAIN plugins : plugins[n] = s
            BY <2>1 DEF Lasting, Current
        <3>2. s[2] = 1 \/ config[s[1]].type # "sequence"
            BY <2>1 DEF Lasting
        <3>3. CASE n # name
            BY <1>0, <1>2, <3>1, <3>2, <3>3 DEF Lasting, Current
        <3>4. CASE n = name
            <4>1. s[1] = pos
                BY <1>0, <1>1, <3>1, <3>4 DEF Entries, NamesDistinct
            <4>2. s \in Ids /\ s[2] = 1
                BY <1>0, <1>6, <3>1, <3>2, <4>1 DEF Graph
            <4>3. s = r
                BY <4>1, <4>2 DEF Ids, Rebuilt, r
            <4> QED BY <1>2, <1>4, <4>3 DEF Lasting, Current
        <3> QED BY <3>3, <3>4
    <2>2. ASSUME s[2] = 0, s \in DOMAIN heap, Kind(s) = "sequence" PROVE Kind(s)' = "sequence"
        <3>1. s \in DOMAIN heap' /\ s # r /\ ~IsInline(s)
            BY <1>3, <1>4, <2>2
        <3> QED BY <1>3, <2>2, <3>1 DEF Kind
    <2>3. CASE id # r
        <3>1. id \in DOMAIN heap /\ heap'[id] = heap[id]
            BY <1>3, <1>5, <2>3
        <3>2. Lasting(s) \/ (s[2] = 0 /\ Kind(s) = "sequence" /\ s[1] >= id[1])
            BY <1>1, <3>1 DEF Captured
        <3>3. s \in DOMAIN heap
            BY <1>0, <1>1, <3>1 DEF Graph, GoodObject, Objects, ObjectOf
        <3> QED BY <2>1, <2>2, <3>2, <3>3
    <2>4. CASE id = r
        <3>1. PICK n \in DOMAIN plugins : s = plugins[n]
            BY <1>3, <2>4
        <3>2. s \in DOMAIN heap /\ s \in Ids
            BY <1>0, <1>6, <3>1 DEF Graph
        <3>3. s[2] \in {0, 1}
            BY <3>2 DEF Ids, IsInline
        <3>4. CASE s[2] = 0 /\ config[s[1]].type = "sequence"
            <4>1. Kind(s) = "sequence"
                BY <1>1, <3>2, <3>4 DEF Objects, ObjectOf
            <4>2. s[1] >= pos
                BY <1>0, <1>1, <3>1, <3>4 DEF Placeholders
            <4> QED BY <1>4, <2>2, <2>4, <3>2, <3>4, <4>1, <4>2
        <3>5. CASE ~(s[2] = 0 /\ config[s[1]].type = "sequence")
            BY <2>1, <3>1, <3>3, <3>5 DEF Lasting, Current
        <3> QED BY <3>4, <3>5
    <2> QED BY <2>3, <2>4
<1>12. Drained'
    <2>1. \A n \in DOMAIN plugins' : plugins'[n][1] \in Nat \ {0}
        BY <1>0, <1>7 DEF Entries
    <2>2. \A n \in DOMAIN plugins' : ~Done(plugins[n][1])'
        BY <1>0, <2>1 DEF Done
    <2> QED BY <1>0, <2>2 DEF Drained
<1> QED BY <1>7, <1>8, <1>9, <1>10, <1>11, <1>12 DEF RefInv

\* An entry that a pass has nothing to do for, and the end of a pass.
LEMMA RefSkip ==
    ASSUME GraphInv, RefInv, SkipEntry \/ RebuildFails
    PROVE  RefInv'
<1>0. /\ pos \in 1..Len(config) /\ pos \in Nat /\ Len(config) \in Nat /\ Graph
      /\ stage \in {"sequences", "fallbacks"} /\ UNCHANGED <<config, plugins, heap>>
    BY EntryFacts DEF GraphInv, BuildTypes, SkipEntry, RebuildFails, IsList
<1>1. Entries /\ Objects /\ Children /\ Placeholders /\ Captured /\ Drained
    BY DEF RefInv
<1>2. \/ /\ stage = "sequences" /\ config[pos].type # "sequence"
         /\ stage' = "sequences" /\ pos' = pos + 1
      \/ stage = "sequences" /\ stage' = "fallbacks" /\ pos' = 1
      \/ stage = "sequences" /\ stage' = "serving" /\ resolveErr'
      \/ /\ stage = "fallbacks" /\ config[pos].type # "fallback"
         /\ stage' = "fallbacks" /\ pos' = pos + 1
      \/ /\ stage = "fallbacks" /\ config[pos].type # "fallback"
         /\ stage' = "embedded" /\ pos = Len(config)
    BY <1>0 DEF SkipEntry, RebuildFails, Advance
<1>3. Entries'
    BY <1>0, <1>1 DEF Entries
<1>4. Objects'
    BY <1>0, <1>1, <1>2 DEF Objects, ObjectOf, Kind
<1>5. Children'
    BY <1>0, <1>1, <1>2 DEF Children, Kind, Current
<1>6. Placeholders'
    BY <1>0, <1>1, <1>2 DEF Placeholders, Entries
<1>7. Captured'
    BY <1>0, <1>1 DEF Captured, Lasting, Current, NamesDistinct, Kind
<1>8. Drained'
    <2> SUFFICES ASSUME NEW n \in DOMAIN plugins, Kind(plugins[n]) = "fallback",
                        Done(plugins[n][1])'
                 PROVE  heap[plugins[n]].pending = <<>>
        BY <1>0, <1>2 DEF Drained, Kind
    <2>1. plugins[n] \in DOMAIN heap /\ plugins[n] \in Ids /\ plugins[n][1] \in 1..Len(config)
        BY <1>0, <1>1 DEF Graph, GoodObject, Entries
    <2>2. plugins[n][2] = 0
        BY <1>0, <1>1, <2>1 DEF Graph, Objects, ObjectOf, Ids, IsInline
    <2>3. config[plugins[n][1]].type = "fallback"
        BY <1>1, <2>1, <2>2 DEF Objects, ObjectOf
    <2>4. stage = "fallbacks" /\ plugins[n][1] < pos
        BY <1>0, <1>2, <2>1, <2>3 DEF Done
    <2> QED BY <1>1, <2>4 DEF Drained, Done
<1> QED BY <1>3, <1>4, <1>5, <1>6, <1>7, <1>8 DEF RefInv

LEMMA RefResolve ==
    ASSUME GraphInv, RefInv, ResolveFallback \/ ResolveEmbedded
    PROVE  RefInv'
<1>0. /\ pos \in 1..Len(config) /\ pos \in Nat /\ Len(config) \in Nat /\ Graph
      /\ UNCHANGED <<config, plugins>> /\ DOMAIN heap' = DOMAIN heap
    BY EntryFacts, ResolveSteps
       DEF GraphInv, BuildTypes, ResolveFallback, ResolveEmbedded, IsList
<1>1. Entries /\ Objects /\ Children /\ Captured /\ Drained
    BY DEF RefInv
<1>2. \/ ResolveFallback /\ stage = "fallbacks" /\ stage' = "fallbacks" /\ pos' = pos + 1
      \/ ResolveFallback /\ stage = "fallbacks" /\ stage' = "embedded" /\ pos = Len(config)
      \/ ResolveEmbedded /\ stage = "embedded" /\ stage' = "serving"
    BY <1>0 DEF ResolveFallback, ResolveEmbedded, Advance
<1>3. PICK R \in SUBSET DOMAIN heap :
        /\ \A id \in R : Kind(id) = "fallback" /\ heap'[id] = ResolveChildren(heap[id])
        /\ \A id \in DOMAIN heap \ R : heap'[id] = heap[id]
        /\ ResolveFallback =>
             R = {id \in {plugins[config[pos].name]} \cap DOMAIN heap : Kind(id) = "fallback"}
        /\ ResolveEmbedded => R = Embedded
    BY ResolveSteps
<1>4. ASSUME NEW id \in R
      PROVE  /\ heap'[id].kind = "fallback" /\ heap'[id].pending = <<>>
             /\ \A i \in DOMAIN heap'[id].children :
                  \/ \E k \in DOMAIN heap[id].children :
                       heap'[id].children[i] = heap[id].children[k]
                  \/ \E n \in DOMAIN plugins : heap'[id].children[i] = plugins[n]
    BY <1>3, ResolveFacts
<1>5. \A id \in DOMAIN heap :
        /\ Kind(id)' = Kind(id)
        /\ Kind(id) = "sequence" => heap'[id].steps = heap[id].steps
        /\ Kind(id) = "fallback" /\ heap[id].pending = <<>> => heap'[id].pending = <<>>
    BY <1>3, <1>4 DEF Kind
<1>6. \A id : Current(id)' <=> Current(id)
    BY <1>0 DEF Current
<1>7. Entries'
    BY <1>0, <1>1 DEF Entries
<1>8. Objects'
    BY <1>0, <1>1, <1>2, <1>5 DEF Objects, ObjectOf
<1>9. Children'
    <2> SUFFICES ASSUME NEW id \in DOMAIN heap, Kind(id) = "fallback",
                        NEW i \in DOMAIN heap'[id].children
                 PROVE  Current(heap'[id].children[i])
        BY <1>0, <1>2, <1>5, <1>6 DEF Children
    <2>1. CASE id \in R
        BY <1>1, <1>4, <2>1 DEF Children, Current
    <2>2. CASE id \notin R
        BY <1>1, <1>3, <2>2 DEF Children
    <2> QED BY <2>1, <2>2
<1>10. Placeholders'
    BY <1>2 DEF Placeholders
<1>11. Captured'
    <2> SUFFICES ASSUME NamesDistinct, NEW id \in DOMAIN heap, id[2] = 1,
                        NEW i \in DOMAIN heap'[id].steps, NEW s, s = heap'[id].steps[i].obj
                 PROVE  \/ IsInline(s) \/ Lasting(s)'
                        \/ (s[2] = 0 /\ Kind(s)' = "sequence" /\ s[1] >= id[1])
        BY <1>0 DEF Captured, NamesDistinct
    <2>1. Kind(id) = "sequence" /\ heap'[id].steps = heap[id].steps
        BY <1>1, <1>5 DEF Objects, ObjectOf
    <2>2. s \in DOMAIN heap
        BY <1>0, <2>1 DEF Graph, GoodObject
    <2>3. Lasting(s)' <=> Lasting(s)
        BY <1>0, <1>6 DEF Lasting
    <2> QED BY <1>1, <1>5, <2>1, <2>2, <2>3 DEF Captured
<1>12. \A n \in DOMAIN plugins : Kind(plugins[n]) = "fallback" /\ Done(plugins[n][1])'
           => heap'[plugins[n]].pending = <<>>
    <2> SUFFICES ASSUME NEW n \in DOMAIN plugins, Kind(plugins[n]) = "fallback",
                        Done(plugins[n][1])'
                 PROVE  heap'[plugins[n]].pending = <<>>
        OBVIOUS
    <2>1. plugins[n] \in DOMAIN heap /\ plugins[n][1] \in 1..Len(config)
          /\ config[plugins[n][1]].name = n
        BY <1>0, <1>1 DEF Graph, Entries
    <2>2. CASE plugins[n][1] = pos /\ ResolveFallback
        <3>1. plugins[n] \in R
            BY <1>3, <2>1, <2>2
        <3> QED BY <1>4, <3>1
    <2>3. CASE ~(plugins[n][1] = pos /\ ResolveFallback)
        <3>1. Done(plugins[n][1])
            BY <1>0, <1>2, <2>1, <2>3 DEF Done
        <3> QED BY <1>1, <1>5, <2>1, <3>1 DEF Drained
    <2> QED BY <2>2, <2>3
<1>13. ASSUME stage' = "serving", NEW n \in DOMAIN plugins, Kind(plugins[n]) = "sequence",
              NEW i \in DOMAIN heap'[plugins[n]].steps,
              NEW s, s = heap'[plugins[n]].steps[i].obj, Kind(s)' = "fallback"
       PROVE  heap'[s].pending = <<>>
    <2>1. plugins[n] \in DOMAIN heap /\ heap'[plugins[n]].steps = heap[plugins[n]].steps
        BY <1>0, <1>5, <1>13 DEF Graph
    <2>2. s \in DOMAIN heap
        BY <1>0, <1>13, <2>1 DEF Graph, GoodObject
    <2>3. Kind(s) = "fallback"
        BY <1>5, <1>13, <2>2
    <2>4. s \in Embedded
        BY <1>13, <2>1, <2>2, <2>3 DEF Embedded
    <2>5. s \in R
        BY <1>2, <1>3, <1>13, <2>4
    <2> QED BY <1>4, <2>5
<1>14. Drained'
    <2>1. \A n \in DOMAIN plugins : plugins[n] \in DOMAIN heap
        BY <1>0 DEF Graph
    <2>2. \A n \in DOMAIN plugins : Kind(plugins[n])' = Kind(plugins[n])
        BY <1>0, <1>5, <2>1 DEF Kind
    <2> QED BY <1>0, <1>12, <1>13, <2>2 DEF Drained
<1> QED BY <1>7, <1>8, <1>9, <1>10, <1>11, <1>14 DEF RefInv

THEOREM BuildInvariant == Spec => [](GraphInv /\ RefInv)
<1>1. Init => GraphInv /\ RefInv
    <2> SUFFICES ASSUME Init PROVE GraphInv /\ RefInv
        OBVIOUS
    <2>1. GraphInv
        BY BuildInitGraph DEF Init
    <2>2. DOMAIN plugins = {} /\ DOMAIN heap = {}
        BY DEF Init, BuildInit
    <2> QED BY <2>1, <2>2 DEF RefInv, Entries, Objects, Children, Placeholders, Captured,
               Drained
<1>2. GraphInv /\ RefInv /\ [Next]_vars => GraphInv' /\ RefInv'
    <2> SUFFICES ASSUME GraphInv, RefInv, [Next]_vars PROVE GraphInv' /\ RefInv'
        OBVIOUS
    <2>1. CASE BuildNext
        BY <2>1, BuildNextGraph, RefBuild, RefRebuild, RefSkip, RefResolve DEF BuildNext
    <2>2. CASE UNCHANGED buildVars
        <3>1. GraphInv'
            BY <2>2 DEF GraphInv, BuildTypes, Graph, GoodObject, Kind, buildVars
        <3>2. RefInv'
            BY <2>2 DEF RefInv, Entries, Objects, ObjectOf, Children, Placeholders,
               Captured, NamesDistinct, Lasting, Drained, Done, Current, Kind, buildVars
        <3> QED BY <3>1, <3>2
    <2> QED BY <2>1, <2>2 DEF Next, vars
<1> QED BY <1>1, <1>2, PTL DEF Spec

(***************************************************************************)
(* When the servers start, every fallback plugin of the registry and of    *)
(* its sequences has its children, which are registered objects, and with  *)
(* distinct names a step runs the registered object or the placeholder of  *)
(* a sequence that is not declared before it, whatever the configuration   *)
(* (builder.rs:102-189).                                                   *)
(***************************************************************************)
THEOREM ReferencesAreResolved == Spec => []ReferencesResolved
<1>1. GraphInv /\ RefInv => ReferencesResolved
    <2> SUFFICES ASSUME GraphInv, RefInv, stage = "serving", ~resolveErr,
                        NEW n \in DOMAIN plugins
                 PROVE  LET o == heap[plugins[n]] IN
                        /\ o.kind = "fallback" => Wired(plugins[n])
                        /\ o.kind = "sequence" =>
                             \A i \in DOMAIN o.steps :
                               LET s == o.steps[i].obj IN
                               /\ Kind(s) = "fallback" => Wired(s)
                               /\ (NamesDistinct /\ ~IsInline(s) /\ ~Current(s)) =>
                                    Kind(s) = "sequence" /\ s[1] >= plugins[n][1]
        BY DEF ReferencesResolved
    <2>1. Graph /\ plugins[n] \in DOMAIN heap /\ plugins[n] \in Ids /\ ~IsInline(plugins[n])
        BY DEF GraphInv, Graph, GoodObject
    <2>2. CASE Kind(plugins[n]) = "fallback"
        BY <2>1, <2>2 DEF RefInv, Children, Drained, Done, Wired, Kind
    <2>3. ASSUME Kind(plugins[n]) = "sequence",
                 NEW i \in DOMAIN heap[plugins[n]].steps,
                 NEW s, s = heap[plugins[n]].steps[i].obj
          PROVE  /\ Kind(s) = "fallback" => Wired(s)
                 /\ (NamesDistinct /\ ~IsInline(s) /\ ~Current(s)) =>
                      Kind(s) = "sequence" /\ s[1] >= plugins[n][1]
        <3>1. s \in DOMAIN heap
            BY <2>1, <2>3 DEF Graph, GoodObject
        <3>2. Kind(s) = "fallback" => Wired(s)
            BY <2>3, <3>1 DEF RefInv, Children, Drained, Wired
        <3>3. plugins[n][2] = 1
            <4>1. plugins[n][2] \in {0, 1}
                BY <2>1 DEF Ids, IsInline
            <4>2. plugins[n][2] # 0
                BY <2>1, <2>3 DEF RefInv, Objects, ObjectOf
            <4> QED BY <4>1, <4>2
        <3> QED BY <2>1, <2>3, <3>2, <3>3 DEF RefInv, Captured, Lasting
    <2> QED BY <2>1, <2>2, <2>3 DEF Kind
<1> QED BY <1>1, BuildInvariant, PTL
=============================================================================
