--------------------------- MODULE ServicesProofs ---------------------------
(***************************************************************************)
(* Proofs about Services, for every value of its constants.  Each part has *)
(* an inductive invariant of its own, which holds of the behaviours that   *)
(* are its: WatchInv, DownloadInv, ReverseInv, ValidatorInv and WebInv.    *)
(* What a call is answered is an invariant too, CallsInv, so that the      *)
(* properties of answers follow from what the operators return; those      *)
(* operators have lemmas.                                                  *)
(***************************************************************************)
EXTENDS Services, FiniteSetTheorems, SequenceTheorems, WellFoundedInduction, TLAPS

-----------------------------------------------------------------------------
(* The watching of rule files *)

RuleTexts == [RuleFiles -> RuleBodies \union {Watch!Absent}]
Noticed == [kind : {"Modify", "Remove"}, path : RuleFiles]

\* An event about f is among es.
Mentions(es, f) == \E i \in 1..Len(es) : es[i].path = f

\* A reading of f is still to come: an event in the channel, a removal in its
\* pause, or a debounce task that has not called the callback.
Outstanding(f) ==
  \/ Mentions(fileEvents, f)
  \/ handling = f
  \/ (f \in scheduled /\ pending[f] # "none" /\ reading.path # f)

\* The rules were made of the contents fs, or hosts refused them.
MadeOf(rules, fs) == rules.files = Watch!Rules(fs, FALSE).files \/ (kind = "hosts" /\ ~Watch!HostsAccept(fs))

\* What is served, or about to be, was made of the contents fs; a file that
\* differs from them was not watched or is to be read again.
LastRead(fs) ==
  /\ reading.path # Watch!None => fs = reading.files
  /\ reading.path = Watch!None => MadeOf(loaded, fs)
  /\ \A f \in RuleFiles : fs[f] # ruleFile[f] => (unseen \/ (Outstanding(f) /\ ruleFile[f] # Watch!Absent))

\* A removal in its pause keeps its path from being found quiet.
PauseFirst == handling # Watch!None => pending[handling] = "fresh" /\ reading.path # handling

WatchTypes ==
  /\ kind \in {"domain_set", "ip_set", "hosts"}
  /\ ruleFile \in RuleTexts
  /\ pending \in [RuleFiles -> {"none", "fresh", "quiet"}]
  /\ fileEvents \in Seq(Noticed)
  /\ handling \in RuleFiles \union {Watch!None}
  /\ reading.path \in RuleFiles \union {Watch!None}

\* The inductive invariant.
WatchInv ==
  /\ WatchTypes /\ PauseFirst
  /\ watcher = "stopped" \/ \E fs \in RuleTexts : LastRead(fs)

LEMMA MentionsAppend ==
  ASSUME NEW es \in Seq(Noticed), NEW e \in Noticed
  PROVE  /\ Append(es, e) \in Seq(Noticed)
         /\ Mentions(Append(es, e), e.path)
         /\ \A f : Mentions(es, f) => Mentions(Append(es, e), f)
<1> DEFINE t == Append(es, e)
<1>1. t \in Seq(Noticed) /\ Len(t) = Len(es) + 1 /\ t[Len(es) + 1] = e /\ \A i \in 1..Len(es) : t[i] = es[i]
  OBVIOUS
<1>2. Len(es) \in Nat
  OBVIOUS
<1> HIDE DEF t
<1>3. Mentions(t, e.path) /\ \A f : Mentions(es, f) => Mentions(t, f)
  BY <1>1, <1>2 DEF Mentions
<1> QED  BY <1>1, <1>3 DEF t

LEMMA MentionsTail ==
  ASSUME NEW es \in Seq(Noticed), es # <<>>
  PROVE  /\ Head(es) \in Noticed /\ Tail(es) \in Seq(Noticed)
         /\ \A f : Mentions(es, f) => (f = Head(es).path \/ Mentions(Tail(es), f))
<1> DEFINE t == Tail(es)
<1>1. Head(es) \in Noticed /\ Tail(es) \in Seq(Noticed) /\ Head(es) = es[1]
  OBVIOUS
<1>2. Len(es) \in Nat /\ Len(t) = Len(es) - 1 /\ \A i \in 1..Len(t) : t[i] = es[i + 1]
  BY HeadTailProperties
<1> HIDE DEF t
<1>3. ASSUME NEW f, Mentions(es, f), f # es[1].path
      PROVE  Mentions(t, f)
  <2>1. PICK i \in 1..Len(es) : es[i].path = f
    BY <1>3 DEF Mentions
  <2>2. i # 1
    BY <2>1, <1>3
  <2>3. i - 1 \in 1..Len(t) /\ (i - 1) + 1 = i
    BY <2>1, <2>2, <1>2
  <2>4. t[i - 1] = es[i]
    BY <2>3, <1>2
  <2> QED  BY <2>1, <2>3, <2>4 DEF Mentions
<1> QED  BY <1>1, <1>3 DEF t

\* The kernel's reports of a file that goes.
LEMMA MentionsBoth ==
  ASSUME NEW es \in Seq(Noticed), NEW f \in RuleFiles
  PROVE  LET s == es \o <<[kind |-> "Modify", path |-> f], [kind |-> "Remove", path |-> f]>> IN
         /\ s \in Seq(Noticed) /\ Mentions(s, f)
         /\ \A g : Mentions(es, g) => Mentions(s, g)
<1> DEFINE m == [kind |-> "Modify", path |-> f]
           r == [kind |-> "Remove", path |-> f]
           s == es \o <<m, r>>
<1>1. m \in Noticed /\ r \in Noticed /\ r.path = f
  BY DEF Noticed
<1> HIDE DEF m, r
<1>2. s = Append(Append(es, m), r)
  BY <1>1
<1>3. Append(es, m) \in Seq(Noticed) /\ \A g : Mentions(es, g) => Mentions(Append(es, m), g)
  BY <1>1, MentionsAppend
<1>4. /\ Append(Append(es, m), r) \in Seq(Noticed) /\ Mentions(Append(Append(es, m), r), r.path)
      /\ \A g : Mentions(Append(es, m), g) => Mentions(Append(Append(es, m), r), g)
  BY <1>1, <1>3, MentionsAppend
<1> QED  BY <1>1, <1>2, <1>3, <1>4 DEF m, r

\* A file changes, and its change is not seen or a reading of it is to come.
LEMMA ChangeKeeps ==
  ASSUME WatchTypes, PauseFirst, NEW f \in RuleFiles, NEW b \in RuleBodies \union {Watch!Absent},
         ruleFile' = [ruleFile EXCEPT ![f] = b],
         fileEvents' \in Seq(Noticed), \A g : Mentions(fileEvents, g) => Mentions(fileEvents', g),
         unseen => unseen', unseen' \/ ((Mentions(fileEvents', f) \/ handling = f) /\ b # Watch!Absent),
         UNCHANGED <<kind, handling, pending, scheduled, reading, loaded>>
  PROVE  /\ WatchTypes' /\ PauseFirst'
         /\ \A fs \in RuleTexts : LastRead(fs) => LastRead(fs)'
<1>1. ruleFile \in RuleTexts /\ ruleFile' \in RuleTexts
  BY DEF WatchTypes, RuleTexts
<1>2. WatchTypes' /\ PauseFirst'
  BY <1>1 DEF WatchTypes, PauseFirst
<1>3. ASSUME NEW fs \in RuleTexts, LastRead(fs)
      PROVE  LastRead(fs)'
  <2>1. \A g \in RuleFiles : Outstanding(g) => Outstanding(g)'
    BY DEF Outstanding
  <2>2. ASSUME NEW g \in RuleFiles, fs[g] # ruleFile'[g]
        PROVE  unseen' \/ (Outstanding(g)' /\ ruleFile'[g] # Watch!Absent)
    <3>1. CASE g = f
      <4>1. ruleFile'[g] = b
        BY <3>1, <1>1 DEF RuleTexts
      <4> QED  BY <3>1, <4>1 DEF Outstanding
    <3>2. CASE g # f
      <4>1. ruleFile'[g] = ruleFile[g]
        BY <3>2, <1>1 DEF RuleTexts
      <4> QED  BY <2>1, <2>2, <4>1, <1>3 DEF LastRead
    <3> QED  BY <3>1, <3>2
  <2>3. /\ (reading.path # Watch!None => fs = reading.files)'
        /\ (reading.path = Watch!None => MadeOf(loaded, fs))'
    BY <1>3 DEF LastRead, MadeOf
  <2> QED  BY <2>2, <2>3 DEF LastRead
<1> QED  BY <1>2, <1>3

\* The four changes of files.
LEMMA ChangesKeep ==
  ASSUME WatchInv, NEW f \in RuleFiles,
         Watch!Edit(f) \/ Watch!Replace(f) \/ Watch!Delete(f) \/ Watch!Create(f)
  PROVE  WatchInv'
<1> USE DEF WatchInv
<1>1. PICK b \in RuleBodies \union {Watch!Absent} :
        ruleFile' = [ruleFile EXCEPT ![f] = b] /\ (Watch!Delete(f) \/ b \in RuleBodies)
  BY DEF Watch!Edit, Watch!Replace, Watch!Delete, Watch!Create, Watch!Change
<1>2. UNCHANGED <<kind, watcher, handling, pending, scheduled, reading, loaded>>
  BY DEF Watch!Edit, Watch!Replace, Watch!Delete, Watch!Create, Watch!Gone, Watch!watchVars, Watch!debounceVars
<1>3. fileEvents \in Seq(Noticed)
  BY DEF WatchTypes
<1>4. /\ fileEvents' \in Seq(Noticed) /\ \A g : Mentions(fileEvents, g) => Mentions(fileEvents', g)
      /\ Watch!Reported(f) /\ ~Watch!Create(f) => Mentions(fileEvents', f)
  <2>1. CASE fileEvents' = fileEvents /\ (Watch!Create(f) \/ ~Watch!Reported(f))
    BY <2>1, <1>3
  <2>2. CASE fileEvents' = Append(fileEvents, [kind |-> "Modify", path |-> f])
    <3>1. PICK e : e = [kind |-> "Modify", path |-> f]
      OBVIOUS
    <3>2. e \in Noticed /\ e.path = f
      BY <3>1 DEF Noticed
    <3>3. fileEvents' = Append(fileEvents, e)
      BY <2>2, <3>1
    <3> QED  BY <3>2, <3>3, <1>3, MentionsAppend
  <2>3. CASE fileEvents' = fileEvents \o <<[kind |-> "Modify", path |-> f], [kind |-> "Remove", path |-> f]>>
    BY <2>3, <1>3, MentionsBoth
  <2> QED
    BY <2>1, <2>2, <2>3 DEF Watch!Edit, Watch!Replace, Watch!Delete, Watch!Create, Watch!Gone, Watch!watchVars
<1>5. Watch!RemovalToCome(f) => (Mentions(fileEvents, f) \/ handling = f)
  BY DEF Watch!RemovalToCome, Mentions
<1>6. /\ unseen => unseen'
      /\ unseen' \/ ((Mentions(fileEvents', f) \/ handling = f) /\ b # Watch!Absent)
  <2>1. CASE Watch!Delete(f) \/ Watch!Create(f)
    BY <2>1 DEF Watch!Delete, Watch!Create
  <2>2. CASE (Watch!Edit(f) \/ Watch!Replace(f)) /\ ~Watch!Delete(f) /\ ~Watch!Create(f)
    <3>1. unseen' = (unseen \/ ~(Watch!Reported(f) \/ Watch!RemovalToCome(f)))
      BY <2>2 DEF Watch!Edit, Watch!Replace
    <3>2. b # Watch!Absent
      BY <2>2, <1>1, FilesAssumption
    <3>3. CASE Watch!Reported(f) \/ Watch!RemovalToCome(f)
      BY <3>1, <3>2, <3>3, <1>4, <1>5, <2>2
    <3> QED  BY <3>1, <3>3
  <2> QED  BY <2>1, <2>2
<1>7. WatchTypes' /\ PauseFirst' /\ \A fs \in RuleTexts : LastRead(fs) => LastRead(fs)'
  BY <1>1, <1>2, <1>4, <1>6, ChangeKeeps
<1> QED  BY <1>2, <1>7

\* A step of the watcher or of a debounce task that changes no file and reads
\* none: what was outstanding stays so, or concerned a file that is gone.
LEMMA StepKeeps ==
  ASSUME WatchInv, WatchTypes', PauseFirst', UNCHANGED <<kind, ruleFile, watcher, reading, loaded, unseen>>,
         \A f \in RuleFiles : Outstanding(f) /\ ruleFile[f] # Watch!Absent => Outstanding(f)'
  PROVE  WatchInv'
<1>1. ASSUME NEW fs \in RuleTexts, LastRead(fs)
      PROVE  LastRead(fs)'
  <2>1. /\ (reading.path # Watch!None => fs = reading.files)'
        /\ (reading.path = Watch!None => MadeOf(loaded, fs))'
    BY <1>1 DEF LastRead, MadeOf
  <2>2. \A f \in RuleFiles : fs[f] # ruleFile'[f] => (unseen' \/ (Outstanding(f)' /\ ruleFile'[f] # Watch!Absent))
    BY <1>1 DEF LastRead
  <2> QED  BY <2>1, <2>2 DEF LastRead
<1> QED  BY <1>1 DEF WatchInv

LEMMA StartKeeps ==
  ASSUME WatchInv, Watch!WatcherStarts
  PROVE  WatchInv'
<1>1. UNCHANGED <<kind, ruleFile, fileEvents, handling, pending, scheduled, reading, loaded, unseen>>
      /\ watcher # "stopped"
  BY DEF Watch!WatcherStarts, Watch!debounceVars
<1>2. WatchTypes' /\ PauseFirst'
  BY <1>1 DEF WatchInv, WatchTypes, PauseFirst
<1>3. \A f \in RuleFiles : Outstanding(f)' <=> Outstanding(f)
  BY <1>1 DEF Outstanding
<1>4. \A fs \in RuleTexts : LastRead(fs) => LastRead(fs)'
  <2> SUFFICES ASSUME NEW fs \in RuleTexts, LastRead(fs)
               PROVE  LastRead(fs)'
    OBVIOUS
  <2>1. /\ (reading.path # Watch!None => fs = reading.files)'
        /\ (reading.path = Watch!None => MadeOf(loaded, fs))'
    BY <1>1 DEF LastRead, MadeOf
  <2>2. \A f \in RuleFiles : fs[f] # ruleFile'[f] => (unseen' \/ (Outstanding(f)' /\ ruleFile'[f] # Watch!Absent))
    BY <1>1, <1>3 DEF LastRead
  <2> QED  BY <2>1, <2>2 DEF LastRead
<1> QED  BY <1>1, <1>2, <1>4 DEF WatchInv

LEMMA IgnoreKeeps ==
  ASSUME WatchInv, Watch!Ignore
  PROVE  WatchInv'
<1>1. /\ UNCHANGED <<kind, ruleFile, watcher, handling, pending, scheduled, reading, loaded, unseen>>
      /\ fileEvents # <<>> /\ fileEvents' = Tail(fileEvents) /\ ruleFile[Head(fileEvents).path] = Watch!Absent
  BY DEF Watch!Ignore, Watch!debounceVars
<1>2. fileEvents \in Seq(Noticed)
  BY DEF WatchInv, WatchTypes
<1>3. /\ fileEvents' \in Seq(Noticed)
      /\ \A f : Mentions(fileEvents, f) => (f = Head(fileEvents).path \/ Mentions(fileEvents', f))
  BY <1>1, <1>2, MentionsTail
<1>4. WatchTypes' /\ PauseFirst'
  BY <1>1, <1>3 DEF WatchInv, WatchTypes, PauseFirst
<1>5. \A f \in RuleFiles : Outstanding(f) /\ ruleFile[f] # Watch!Absent => Outstanding(f)'
  BY <1>1, <1>3 DEF Outstanding
<1> QED  BY <1>1, <1>4, <1>5, StepKeeps

LEMMA HandleKeeps ==
  ASSUME WatchInv, Watch!HandleEvent
  PROVE  WatchInv'
<1>1. PICK e : e = Head(fileEvents)
  OBVIOUS
<1>2. /\ UNCHANGED <<kind, ruleFile, watcher, reading, loaded, unseen>>
      /\ handling = Watch!None /\ reading.path = Watch!None /\ fileEvents # <<>>
      /\ fileEvents' = Tail(fileEvents) /\ pending' = [pending EXCEPT ![e.path] = "fresh"]
      /\ \/ (handling' = e.path /\ scheduled' = scheduled)
         \/ (handling' = handling /\ scheduled' = scheduled \union {e.path})
  BY <1>1 DEF Watch!HandleEvent
<1>3. fileEvents \in Seq(Noticed) /\ pending \in [RuleFiles -> {"none", "fresh", "quiet"}]
  BY DEF WatchInv, WatchTypes
<1>4. /\ e \in Noticed /\ fileEvents' \in Seq(Noticed)
      /\ \A f : Mentions(fileEvents, f) => (f = e.path \/ Mentions(fileEvents', f))
  BY <1>1, <1>2, <1>3, MentionsTail
<1>5. e.path \in RuleFiles /\ e.path # Watch!None
  BY <1>4, FilesAssumption DEF Noticed
<1>6. /\ pending' \in [RuleFiles -> {"none", "fresh", "quiet"}] /\ pending'[e.path] = "fresh"
      /\ \A f \in RuleFiles : pending[f] # "none" => pending'[f] # "none"
  BY <1>2, <1>3, <1>5
<1>7. WatchTypes' /\ PauseFirst'
  BY <1>2, <1>4, <1>5, <1>6 DEF WatchInv, WatchTypes, PauseFirst
<1>8. ASSUME NEW f \in RuleFiles, Outstanding(f)
      PROVE  Outstanding(f)'
  <2>0. f # Watch!None
    BY FilesAssumption
  <2>1. CASE f = e.path
    BY <2>1, <1>2, <1>5, <1>6 DEF Outstanding
  <2>2. CASE f # e.path
    BY <2>0, <2>2, <1>2, <1>4, <1>6, <1>8 DEF Outstanding
  <2> QED  BY <2>1, <2>2
<1> QED  BY <1>2, <1>7, <1>8, StepKeeps

LEMMA RewatchKeeps ==
  ASSUME WatchInv, Watch!Rewatch
  PROVE  WatchInv'
<1>1. /\ UNCHANGED <<kind, ruleFile, watcher, fileEvents, pending, reading, loaded, unseen>>
      /\ handling # Watch!None /\ handling' = Watch!None /\ scheduled' = scheduled \union {handling}
  BY DEF Watch!Rewatch
<1>2. WatchTypes' /\ PauseFirst'
  BY <1>1 DEF WatchInv, WatchTypes, PauseFirst
<1>3. pending[handling] = "fresh" /\ reading.path # handling
  BY <1>1 DEF WatchInv, PauseFirst
<1>4. \A f \in RuleFiles : Outstanding(f) => Outstanding(f)'
  BY <1>1, <1>3 DEF Outstanding
<1> QED  BY <1>1, <1>2, <1>4, StepKeeps

LEMMA QuiesceKeeps ==
  ASSUME WatchInv, NEW f \in RuleFiles, Watch!Quiesce(f)
  PROVE  WatchInv'
<1>1. /\ UNCHANGED <<kind, ruleFile, watcher, fileEvents, handling, scheduled, reading, loaded, unseen>>
      /\ handling # f /\ pending' = [pending EXCEPT ![f] = "quiet"]
  BY DEF Watch!Quiesce, Watch!watchVars
<1>2. pending \in [RuleFiles -> {"none", "fresh", "quiet"}]
  BY DEF WatchInv, WatchTypes
<1>3. /\ pending' \in [RuleFiles -> {"none", "fresh", "quiet"}]
      /\ \A g \in RuleFiles : g # f => pending'[g] = pending[g]
      /\ pending'[f] # "none"
  BY <1>1, <1>2
<1>4. WatchTypes' /\ PauseFirst'
  BY <1>1, <1>3 DEF WatchInv, WatchTypes, PauseFirst
<1>5. ASSUME NEW g \in RuleFiles, Outstanding(g)
      PROVE  Outstanding(g)'
  BY <1>1, <1>3, <1>5 DEF Outstanding
<1> QED  BY <1>1, <1>4, <1>5, StepKeeps

\* A callback reads every file as it is: from then on nothing differs.
LEMMA ReadKeeps ==
  ASSUME WatchInv, NEW f \in RuleFiles, Watch!CallbackReads(f)
  PROVE  WatchInv'
<1>1. /\ UNCHANGED <<kind, ruleFile, watcher, fileEvents, handling, pending, scheduled, loaded>>
      /\ pending[f] = "quiet" /\ reading' = [path |-> f, files |-> ruleFile]
  BY DEF Watch!CallbackReads, Watch!watchVars
<1>2. f # Watch!None /\ reading'.path = f /\ reading'.files = ruleFile'
  BY <1>1, FilesAssumption
<1>3. WatchTypes' /\ PauseFirst'
  BY <1>1, <1>2 DEF WatchInv, WatchTypes, PauseFirst
<1>4. ruleFile' \in RuleTexts
  BY <1>3 DEF WatchTypes
<1>5. LastRead(ruleFile)'
  BY <1>2 DEF LastRead
<1> QED  BY <1>3, <1>4, <1>5 DEF WatchInv

\* The rules made of contents that the callback read.
LEMMA ReloadServes ==
  ASSUME NEW fs, NEW old, kind \in {"domain_set", "ip_set", "hosts"}
  PROVE  MadeOf(Watch!Reload(fs, old), fs)
<1>1. CASE kind = "hosts"
  BY <1>1 DEF MadeOf, Watch!Reload, Watch!LoadHosts
<1>2. CASE kind = "ip_set"
  BY <1>2 DEF MadeOf, Watch!Reload, Watch!ReloadNetworks
<1>3. CASE kind = "domain_set"
  BY <1>3 DEF MadeOf, Watch!Reload, Watch!ReloadDomains
<1> QED  BY <1>1, <1>2, <1>3

LEMMA EndKeeps ==
  ASSUME WatchInv, Watch!CallbackEnds
  PROVE  WatchInv'
<1>1. PICK f : f = reading.path
  OBVIOUS
<1>2. /\ UNCHANGED <<kind, ruleFile, watcher, fileEvents, handling, unseen>>
      /\ f # Watch!None /\ loaded' = Watch!Reload(reading.files, loaded)
      /\ pending' = [pending EXCEPT ![f] = "none"] /\ scheduled' = scheduled \ {f} /\ reading'.path = Watch!None
  BY <1>1 DEF Watch!CallbackEnds, Watch!watchVars, Watch!Idle
<1>3. f \in RuleFiles /\ handling # f /\ pending \in [RuleFiles -> {"none", "fresh", "quiet"}]
  BY <1>1, <1>2 DEF WatchInv, WatchTypes, PauseFirst
<1>4. /\ pending' \in [RuleFiles -> {"none", "fresh", "quiet"}]
      /\ \A g \in RuleFiles : g # f => pending'[g] = pending[g]
  BY <1>2, <1>3
<1>5. WatchTypes'
  BY <1>2, <1>4 DEF WatchInv, WatchTypes
<1>6. PauseFirst'
  BY <1>1, <1>2, <1>3, <1>4 DEF WatchInv, WatchTypes, PauseFirst
<1>7. ASSUME NEW fs \in RuleTexts, LastRead(fs)
      PROVE  LastRead(fs)'
  <2>1. fs = reading.files
    BY <1>1, <1>2, <1>7 DEF LastRead
  <2>2. kind \in {"domain_set", "ip_set", "hosts"}
    BY DEF WatchInv, WatchTypes
  <2>3. MadeOf(loaded, fs)'
    <3>1. loaded' = Watch!Reload(fs, loaded) /\ kind' = kind
      BY <2>1, <1>2
    <3>2. MadeOf(Watch!Reload(fs, loaded), fs)
      BY <2>2, ReloadServes
    <3> QED  BY <3>1, <3>2 DEF MadeOf
  <2>4. ASSUME NEW g \in RuleFiles, Outstanding(g)
        PROVE  Outstanding(g)'
    <3>0. g # Watch!None
      BY FilesAssumption
    <3>1. CASE g = f
      BY <3>1, <2>4, <1>1, <1>2, <1>3 DEF Outstanding
    <3>2. CASE g # f
      BY <3>0, <3>2, <2>4, <1>2, <1>4 DEF Outstanding
    <3> QED  BY <3>1, <3>2
  <2>5. \A g \in RuleFiles : fs[g] # ruleFile'[g] => (unseen' \/ (Outstanding(g)' /\ ruleFile'[g] # Watch!Absent))
    BY <2>4, <1>2, <1>7 DEF LastRead
  <2> QED  BY <2>3, <2>5, <1>2 DEF LastRead
<1> QED  BY <1>2, <1>5, <1>6, <1>7 DEF WatchInv

\* The rules of Plugin::init.
LEMMA WatchInitInv ==
  ASSUME Watch!Init
  PROVE  WatchInv
<1>1. /\ kind \in {"domain_set", "ip_set", "hosts"} /\ ruleFile \in RuleTexts
      /\ fileEvents = <<>> /\ handling = Watch!None /\ reading.path = Watch!None
      /\ pending = [f \in RuleFiles |-> "none"] /\ loaded = Watch!FirstLoad(ruleFile)
  BY FilesAssumption DEF Watch!Init, Watch!Idle, RuleTexts
<1>2. fileEvents \in Seq(Noticed)
  BY <1>1
<1>3. WatchTypes /\ PauseFirst
  BY <1>1, <1>2 DEF WatchTypes, PauseFirst
<1>4. MadeOf(loaded, ruleFile)
  <2>1. CASE kind = "hosts"
    BY <2>1, <1>1 DEF MadeOf, Watch!FirstLoad, Watch!LoadHosts
  <2>2. CASE kind # "hosts"
    BY <2>2, <1>1 DEF MadeOf, Watch!FirstLoad, Watch!LoadSets, Watch!Rules
  <2> QED  BY <2>1, <2>2
<1>5. LastRead(ruleFile)
  BY <1>1, <1>4 DEF LastRead
<1> QED  BY <1>1, <1>3, <1>5 DEF WatchInv

LEMMA WatchNextInv ==
  ASSUME WatchInv, [Watch!Next]_watchVars
  PROVE  WatchInv'
<1>1. CASE UNCHANGED watchVars
  <2>1. UNCHANGED <<kind, ruleFile, watcher, fileEvents, handling, pending, scheduled, reading, loaded, unseen>>
    BY <1>1 DEF watchVars
  <2>2. WatchTypes' /\ PauseFirst'
    BY <2>1 DEF WatchInv, WatchTypes, PauseFirst
  <2>3. \A f \in RuleFiles : Outstanding(f) => Outstanding(f)'
    BY <2>1 DEF Outstanding
  <2> QED  BY <2>1, <2>2, <2>3, StepKeeps
<1>2. ASSUME NEW f \in RuleFiles, Watch!Edit(f) \/ Watch!Replace(f) \/ Watch!Delete(f) \/ Watch!Create(f)
      PROVE  WatchInv'
  BY <1>2, ChangesKeep
<1>3. CASE Watch!WatcherStep
  BY <1>3, StartKeeps, IgnoreKeeps, HandleKeeps, RewatchKeeps DEF Watch!WatcherStep
<1>4. CASE Watch!DebounceStep
  BY <1>4, EndKeeps, QuiesceKeeps, ReadKeeps DEF Watch!DebounceStep
<1>5. CASE Watch!Stop
  <2>1. UNCHANGED <<kind, ruleFile, watcher, fileEvents, handling, pending, scheduled, reading, loaded, unseen>>
    BY <1>5 DEF Watch!Stop, Watch!watchVars, Watch!debounceVars
  <2>2. WatchTypes' /\ PauseFirst'
    BY <2>1 DEF WatchInv, WatchTypes, PauseFirst
  <2>3. \A f \in RuleFiles : Outstanding(f) => Outstanding(f)'
    BY <2>1 DEF Outstanding
  <2> QED  BY <2>1, <2>2, <2>3, StepKeeps
<1>6. CASE Watch!ShutdownDataset
  <2>1. UNCHANGED <<kind, ruleFile, fileEvents, handling, pending, reading>> /\ watcher' = "stopped"
    BY <1>6 DEF Watch!ShutdownDataset
  <2> QED  BY <2>1 DEF WatchInv, WatchTypes, PauseFirst
<1> QED  BY <1>1, <1>2, <1>3, <1>4, <1>5, <1>6 DEF Watch!Next

\* Nothing of the watcher or of the debounce tasks is under way.
WatchSettled ==
  /\ fileEvents = <<>> /\ handling = Watch!None /\ reading.path = Watch!None
  /\ \A f \in scheduled : pending[f] = "none"
WatchUpToDate ==
  part = "watch" /\ WatchSettled /\ watcher # "stopped" /\ ~unseen => Watch!UpToDate

LEMMA WatchInvUpToDate ==
  ASSUME WatchInv, WatchSettled, watcher # "stopped", ~unseen
  PROVE  Watch!UpToDate
<1>1. PICK fs \in RuleTexts : LastRead(fs)
  BY DEF WatchInv
<1>2. \A f \in RuleFiles : ~Outstanding(f)
  <2> SUFFICES ASSUME NEW f \in RuleFiles
               PROVE  ~Outstanding(f)
    OBVIOUS
  <2>1. f # Watch!None
    BY FilesAssumption
  <2>2. ~Mentions(fileEvents, f)
    BY DEF WatchSettled, Mentions
  <2> QED  BY <2>1, <2>2 DEF WatchSettled, Outstanding
<1>3. \A f \in RuleFiles : fs[f] = ruleFile[f]
  BY <1>1, <1>2 DEF LastRead
<1>4. fs = ruleFile
  BY <1>1, <1>3 DEF RuleTexts, WatchInv, WatchTypes
<1> QED  BY <1>1, <1>4 DEF LastRead, MadeOf, WatchSettled, Watch!UpToDate

\* No change of a watched rule file is lost (utils/mod.rs spawn_file_watcher and
\* the reload callbacks of domain_set, ip_set and hosts): when no event is waiting,
\* no removal is in its pause, no debounce task is to come and no callback runs, the
\* dataset serves what its files hold, unless a file was changed that nobody watched,
\* the watcher was stopped, or hosts refuses the contents.
THEOREM ReloadsLoseNothing == ServicesSpec => []WatchUpToDate
<1> DEFINE I == part = "watch" => WatchInv
<1>1. ServicesInit => I
  BY WatchInitInv DEF ServicesInit
<1>2. I /\ [ServicesNext]_servicesVars => I'
  <2> SUFFICES ASSUME I, [ServicesNext]_servicesVars, part' = "watch"
               PROVE  WatchInv'
    OBVIOUS
  <2>1. part = "watch" /\ [Watch!Next]_watchVars
    BY DEF ServicesNext, servicesVars, Only, WatchMoves, DownloadMoves, ReverseMoves, ValidatorMoves, WebMoves,
           CallsMove
  <2> QED  BY <2>1, WatchNextInv
<1>3. I => WatchUpToDate
  BY WatchInvUpToDate DEF WatchUpToDate
<1> HIDE DEF I
<1> QED  BY <1>1, <1>2, <1>3, PTL DEF ServicesSpec

-----------------------------------------------------------------------------
(* The downloads *)

FetchPcs == {"todo", "writing", "renaming", "cleanup", "ok", "err"}
FetchStates ==
  [pc : FetchPcs, attempt : Nat, body : RuleBodies \union {Download!NoBody},
   fd : {"none", "tmp", "final", "gone"}]
FileStates == Download!Content \union {Download!Absent}

PathsOf(r) == {plan[r][i] : i \in 1..Len(plan[r])}
Busy(r, f) == fetch[r][f].pc \in {"writing", "renaming"}

\* What holds of a path as long as no two downloads to it have overlapped: one at
\* most is writing or about to rename, it has the temporary file open unless the
\* clean-up of another has removed it, and the file it renames is complete.
Undisturbed(f) ==
  /\ final[f].whole
  /\ \A r, q \in Runs : Busy(r, f) /\ Busy(q, f) => r = q
  /\ \A r \in Runs :
       /\ fetch[r][f].pc = "writing" =>
            /\ fetch[r][f].body # Download!NoBody
            /\ \/ fetch[r][f].fd = "tmp" /\ tmp[f] = Download!Truncated
               \/ fetch[r][f].fd = "gone" /\ tmp[f] = Download!Absent
       /\ fetch[r][f].pc = "renaming" => tmp[f].whole

\* The inductive invariant.
DownloadInv ==
  /\ fetch \in [Runs -> [RuleFiles -> FetchStates]]
  /\ tmp \in [RuleFiles -> FileStates] /\ final \in [RuleFiles -> FileStates]
  /\ run \in [Runs -> {"idle", "downloading", "ok", "failed"}]
  /\ \A f \in RuleFiles : f \notin overlapped => Undisturbed(f)
  /\ \A r \in Runs, f \in RuleFiles : fetch[r][f].pc = "ok" => final[f] # Download!Absent
  /\ \A r \in Runs, f \in RuleFiles : run[r] = "ok" /\ f \in PathsOf(r) => fetch[r][f].pc = "ok"

LEMMA BodyTypes ==
  /\ "absent" \notin RuleBodies \union {Download!NoBody}
  /\ Download!NoBody \notin RuleBodies
  /\ Download!Truncated \in FileStates /\ Download!Truncated # Download!Absent
  /\ Download!Absent \in FileStates /\ Download!Absent.whole /\ Download!Absent.body # Download!NoBody
  /\ Download!Truncated.body = Download!NoBody
BY FilesAssumption DEF Watch!Absent, Download!NoBody, Download!Truncated, Download!Absent, FileStates, Download!Content

\* What a write leaves in a file.
LEMMA WrittenType ==
  ASSUME NEW old, NEW b \in RuleBodies \union {Download!NoBody}, NEW c \in Download!Written(old, b)
  PROVE  /\ c \in FileStates /\ c # Download!Absent /\ c.body = b
         /\ old.body = Download!NoBody => c.whole
<1>1. PICK w \in (IF old.body = Download!NoBody THEN {TRUE} ELSE BOOLEAN) : c = [body |-> b, whole |-> w]
  BY DEF Download!Written
<1>2. w \in BOOLEAN /\ c.body = b /\ c.whole = w
  BY <1>1
<1>3. c \in Download!Content
  BY <1>1, <1>2 DEF Download!Content
<1>4. c # Download!Absent
  BY <1>2, BodyTypes DEF Download!Absent
<1> QED BY <1>1, <1>2, <1>3, <1>4 DEF FileStates

LEMMA FailedType ==
  ASSUME NEW x \in FetchStates
  PROVE  Download!Failed(x) \in FetchStates /\ Download!Failed(x).pc \in {"todo", "err"}
<1> DEFINE again == [x EXCEPT !.pc = "todo", !.attempt = x.attempt + 1, !.fd = "none"]
           error == [x EXCEPT !.pc = "err", !.fd = "none"]
<1>1. again \in FetchStates /\ again.pc = "todo"
  <2> DEFINE n == x.attempt + 1
  <2>1. n \in Nat
    BY DEF FetchStates
  <2> HIDE DEF n
  <2>2. [x EXCEPT !.pc = "todo", !.attempt = n, !.fd = "none"] \in FetchStates
    BY <2>1 DEF FetchStates, FetchPcs
  <2> QED BY <2>2 DEF n, FetchStates
<1>2. error \in FetchStates /\ error.pc = "err"
  BY DEF FetchStates, FetchPcs
<1>3. Download!Failed(x) \in {again, error}
  BY DEF Download!Failed
<1> HIDE DEF again, error
<1> QED BY <1>1, <1>2, <1>3

LEMMA DownloadInitInv == Download!Init => DownloadInv
<1> SUFFICES ASSUME Download!Init PROVE DownloadInv
  OBVIOUS
<1>1. Download!Fetch0 \in FetchStates /\ Download!Fetch0.pc = "todo"
  BY DEF Download!Fetch0, FetchStates, FetchPcs
<1>2. /\ fetch = [r \in Runs |-> [f \in RuleFiles |-> Download!Fetch0]] /\ run = [r \in Runs |-> "idle"]
      /\ tmp = [f \in RuleFiles |-> Download!Absent] /\ final = [f \in RuleFiles |-> Download!Absent]
  BY DEF Download!Init
<1>3. \A r \in Runs, f \in RuleFiles : fetch[r][f] = Download!Fetch0
  BY <1>2
<1> QED BY <1>1, <1>2, <1>3, BodyTypes DEF DownloadInv, Undisturbed, Busy

\* One download goes on: what has to be shown of it.
LEMMA FetchChanges ==
  ASSUME DownloadInv, NEW r \in Runs, NEW f \in RuleFiles, NEW x \in FetchStates,
         fetch' \in [Runs -> [RuleFiles -> FetchStates]],
         fetch'[r][f] = x,
         fetch[r][f].pc # "ok",
         \A q \in Runs, g \in RuleFiles : <<q, g>> # <<r, f>> => fetch'[q][g].pc = fetch[q][g].pc,
         \A q \in Runs, g \in RuleFiles : g # f => fetch'[q][g] = fetch[q][g],
         tmp' \in [RuleFiles -> FileStates], final' \in [RuleFiles -> FileStates],
         \A g \in RuleFiles : g # f => tmp'[g] = tmp[g] /\ final'[g] = final[g],
         \A g \in RuleFiles : final[g] # Download!Absent => final'[g] # Download!Absent,
         x.pc = "ok" => final'[f] # Download!Absent,
         UNCHANGED <<plan, run>>,
         \A g \in RuleFiles : g # f => (g \in overlapped' <=> g \in overlapped),
         f \notin overlapped' => Undisturbed(f)'
  PROVE  DownloadInv'
<1>1. ASSUME NEW g \in RuleFiles, g # f, g \notin overlapped' PROVE Undisturbed(g)'
  BY <1>1 DEF DownloadInv, Undisturbed, Busy
<1>2. \A g \in RuleFiles : g \notin overlapped' => Undisturbed(g)'
  BY <1>1
<1>3. \A q \in Runs, g \in RuleFiles : fetch'[q][g].pc = "ok" => final'[g] # Download!Absent
  <2> SUFFICES ASSUME NEW q \in Runs, NEW g \in RuleFiles, fetch'[q][g].pc = "ok" PROVE final'[g] # Download!Absent
    OBVIOUS
  <2>1. CASE q = r /\ g = f
    BY <2>1
  <2>2. CASE ~(q = r /\ g = f)
    BY <2>2 DEF DownloadInv
  <2> QED BY <2>1, <2>2
<1>4. \A q \in Runs, g \in RuleFiles : run'[q] = "ok" /\ g \in PathsOf(q)' => fetch'[q][g].pc = "ok"
  BY DEF DownloadInv, PathsOf
<1> QED BY <1>2, <1>3, <1>4 DEF DownloadInv

\* The step of a download that leaves the files alone, other than to begin writing.
LEMMA FetchSteps ==
  ASSUME DownloadInv, NEW r \in Runs, NEW f \in RuleFiles, NEW x \in FetchStates,
         Download!Step(r, f, x), UNCHANGED <<plan, run, tmp, final, overlapped>>,
         fetch[r][f].pc # "ok", x.pc \in {"todo", "err", "cleanup"}
  PROVE  DownloadInv'
<1>1. /\ fetch' \in [Runs -> [RuleFiles -> FetchStates]] /\ fetch'[r][f] = x
      /\ \A q \in Runs, g \in RuleFiles : <<q, g>> # <<r, f>> => fetch'[q][g] = fetch[q][g]
  BY DEF DownloadInv, Download!Step
<1>2. f \notin overlapped' => Undisturbed(f)'
  <2> SUFFICES ASSUME f \notin overlapped PROVE Undisturbed(f)'
    OBVIOUS
  <2>1. Undisturbed(f)
    BY DEF DownloadInv
  <2>2. \A q \in Runs : fetch'[q][f] = IF q = r THEN x ELSE fetch[q][f]
    BY <1>1
  <2> QED BY <2>1, <2>2 DEF Undisturbed, Busy
<1>3. tmp' \in [RuleFiles -> FileStates] /\ final' \in [RuleFiles -> FileStates]
  BY DEF DownloadInv
<1> QED BY <1>1, <1>2, <1>3, FetchChanges

LEMMA RequestFailsDownload ==
  ASSUME DownloadInv, NEW r \in Runs, NEW f \in RuleFiles, Download!RequestFails(r, f)
  PROVE  DownloadInv'
<1>1. fetch[r][f] \in FetchStates
  BY DEF DownloadInv
<1> QED BY <1>1, FailedType, FetchSteps DEF Download!RequestFails

LEMMA WriteFailsDownload ==
  ASSUME DownloadInv, NEW r \in Runs, NEW f \in RuleFiles, Download!WriteFails(r, f)
  PROVE  DownloadInv'
<1>1. fetch[r][f] \in FetchStates
  BY DEF DownloadInv
<1> QED BY <1>1, FailedType, FetchSteps DEF Download!WriteFails

LEMMA RenameFailsDownload ==
  ASSUME DownloadInv, NEW r \in Runs, NEW f \in RuleFiles, Download!RenameFails(r, f)
  PROVE  DownloadInv'
<1> DEFINE x == [fetch[r][f] EXCEPT !.pc = "cleanup"]
<1>1. fetch[r][f] \in FetchStates /\ fetch[r][f].pc = "renaming"
  BY DEF DownloadInv, Download!RenameFails
<1>2. x \in FetchStates /\ x.pc = "cleanup"
  BY <1>1 DEF FetchStates, FetchPcs
<1>3. Download!Step(r, f, x) /\ UNCHANGED <<plan, run, tmp, final, overlapped>>
  BY DEF Download!RenameFails
<1> HIDE DEF x
<1> QED BY <1>1, <1>2, <1>3, FetchSteps

LEMMA OpenTmpDownload ==
  ASSUME DownloadInv, NEW r \in Runs, NEW f \in RuleFiles, Download!OpenTmp(r, f)
  PROVE  DownloadInv'
<1>1. PICK b \in RuleBodies : Download!Step(r, f, [fetch[r][f] EXCEPT !.pc = "writing", !.body = b, !.fd = "tmp"])
  BY DEF Download!OpenTmp
<1> DEFINE x == [fetch[r][f] EXCEPT !.pc = "writing", !.body = b, !.fd = "tmp"]
<1>2. fetch[r][f] \in FetchStates /\ fetch[r][f].pc = "todo"
  BY DEF DownloadInv, Download!OpenTmp
<1>3. x \in FetchStates /\ x.pc = "writing" /\ x.body = b /\ x.fd = "tmp"
  BY <1>2 DEF FetchStates, FetchPcs
<1>4. /\ Download!Step(r, f, x) /\ UNCHANGED <<plan, run, final>>
      /\ tmp' = [tmp EXCEPT ![f] = Download!Truncated]
      /\ overlapped' = overlapped \union {g \in {f} : \E q \in Runs \ {r} : fetch[q][g].pc \in {"writing", "renaming"}}
  BY <1>1 DEF Download!OpenTmp
<1> HIDE DEF x
<1>5. /\ fetch' \in [Runs -> [RuleFiles -> FetchStates]] /\ fetch'[r][f] = x
      /\ \A q \in Runs, g \in RuleFiles : <<q, g>> # <<r, f>> => fetch'[q][g] = fetch[q][g]
  BY <1>3, <1>4 DEF DownloadInv, Download!Step
<1>6. /\ tmp' \in [RuleFiles -> FileStates] /\ final' \in [RuleFiles -> FileStates]
      /\ tmp'[f] = Download!Truncated /\ \A g \in RuleFiles : g # f => tmp'[g] = tmp[g]
  BY <1>4, BodyTypes DEF DownloadInv
<1>7. f \notin overlapped' => Undisturbed(f)'
  <2> SUFFICES ASSUME f \notin overlapped' PROVE Undisturbed(f)'
    OBVIOUS
  <2>1. f \notin overlapped /\ \A q \in Runs : q # r => ~Busy(q, f)
    BY <1>4 DEF Busy
  <2>2. Undisturbed(f)
    BY <2>1 DEF DownloadInv
  <2>3. \A q \in Runs : fetch'[q][f] = IF q = r THEN x ELSE fetch[q][f]
    BY <1>5
  <2>4. b # Download!NoBody
    BY BodyTypes
  <2> QED BY <1>3, <1>4, <1>6, <2>1, <2>2, <2>3, <2>4 DEF Undisturbed, Busy
<1> QED BY <1>2, <1>3, <1>4, <1>5, <1>6, <1>7, FetchChanges

LEMMA WriteTmpDownload ==
  ASSUME DownloadInv, NEW r \in Runs, NEW f \in RuleFiles, Download!WriteTmp(r, f)
  PROVE  DownloadInv'
<1> DEFINE x == [fetch[r][f] EXCEPT !.pc = "renaming"]
           b == fetch[r][f].body
<1>1. fetch[r][f] \in FetchStates /\ fetch[r][f].pc = "writing" /\ b \in RuleBodies \union {Download!NoBody}
  BY DEF DownloadInv, Download!WriteTmp, FetchStates
<1>2. x \in FetchStates /\ x.pc = "renaming"
  BY <1>1 DEF FetchStates, FetchPcs
<1>3. /\ Download!Step(r, f, x) /\ UNCHANGED <<plan, run, overlapped>>
      /\ \/ /\ fetch[r][f].fd = "tmp" /\ \E c \in Download!Written(tmp[f], b) : tmp' = [tmp EXCEPT ![f] = c]
            /\ UNCHANGED final
         \/ /\ fetch[r][f].fd = "final" /\ \E c \in Download!Written(final[f], b) : final' = [final EXCEPT ![f] = c]
            /\ UNCHANGED tmp
         \/ fetch[r][f].fd = "gone" /\ UNCHANGED <<tmp, final>>
  BY DEF Download!WriteTmp
<1> HIDE DEF x, b
<1>4. /\ fetch' \in [Runs -> [RuleFiles -> FetchStates]] /\ fetch'[r][f] = x
      /\ \A q \in Runs, g \in RuleFiles : <<q, g>> # <<r, f>> => fetch'[q][g] = fetch[q][g]
  BY <1>2, <1>3 DEF DownloadInv, Download!Step
<1>5. /\ tmp' \in [RuleFiles -> FileStates] /\ final' \in [RuleFiles -> FileStates]
      /\ \A g \in RuleFiles : g # f => tmp'[g] = tmp[g] /\ final'[g] = final[g]
      /\ final[f] # Download!Absent => final'[f] # Download!Absent
  <2>1. CASE \E c \in Download!Written(tmp[f], b) : tmp' = [tmp EXCEPT ![f] = c] /\ UNCHANGED final
    BY <1>1, <2>1, WrittenType DEF DownloadInv
  <2>2. CASE \E c \in Download!Written(final[f], b) : final' = [final EXCEPT ![f] = c] /\ UNCHANGED tmp
    BY <1>1, <2>2, WrittenType DEF DownloadInv
  <2>3. CASE UNCHANGED <<tmp, final>>
    BY <2>3 DEF DownloadInv
  <2> QED BY <1>3, <2>1, <2>2, <2>3
<1>6. f \notin overlapped' => Undisturbed(f)'
  <2> SUFFICES ASSUME f \notin overlapped PROVE Undisturbed(f)'
    BY <1>3
  <2>1. Undisturbed(f)
    BY DEF DownloadInv
  <2>2. tmp'[f].whole /\ UNCHANGED final
    <3>1. CASE fetch[r][f].fd = "tmp" /\ tmp[f] = Download!Truncated
      <4>1. PICK c \in Download!Written(tmp[f], b) : tmp' = [tmp EXCEPT ![f] = c] /\ UNCHANGED final
        BY <1>3, <3>1
      <4> QED BY <1>1, <3>1, <4>1, WrittenType, BodyTypes DEF DownloadInv
    <3>2. CASE fetch[r][f].fd = "gone" /\ tmp[f] = Download!Absent
      BY <1>3, <3>2, BodyTypes
    <3> QED BY <1>1, <2>1, <3>1, <3>2 DEF Undisturbed
  <2>5. \A q \in Runs : fetch'[q][f] = IF q = r THEN x ELSE fetch[q][f]
    BY <1>4
  <2>6. \A q \in Runs : q # r => ~Busy(q, f)
    BY <1>1, <2>1 DEF Undisturbed, Busy
  <2> QED BY <1>2, <2>1, <2>2, <2>5, <2>6 DEF Undisturbed, Busy
<1>7. \A g \in RuleFiles : final[g] # Download!Absent => final'[g] # Download!Absent
  BY <1>5
<1> QED BY <1>1, <1>2, <1>3, <1>4, <1>5, <1>6, <1>7, FetchChanges

LEMMA RenameTmpDownload ==
  ASSUME DownloadInv, NEW r \in Runs, NEW f \in RuleFiles, Download!RenameTmp(r, f)
  PROVE  DownloadInv'
<1> DEFINE y(q) == IF q = r THEN [fetch[q][f] EXCEPT !.pc = "ok", !.fd = "none"]
                   ELSE [fetch[q][f] EXCEPT !.fd = Download!FdAfter(fetch[q][f])]
<1>1. /\ \A q \in Runs : fetch[q] \in [RuleFiles -> FetchStates] /\ fetch[q][f] \in FetchStates
      /\ fetch[r][f].pc = "renaming" /\ tmp[f] # Download!Absent
  BY DEF DownloadInv, Download!RenameTmp
<1>2. \A q \in Runs : /\ y(q) \in FetchStates
                      /\ y(q).pc = IF q = r THEN "ok" ELSE fetch[q][f].pc
  BY <1>1 DEF FetchStates, FetchPcs, Download!FdAfter
<1>3. /\ final' = [final EXCEPT ![f] = tmp[f]] /\ tmp' = [tmp EXCEPT ![f] = Download!Absent]
      /\ UNCHANGED <<plan, run, overlapped>>
      /\ fetch' = [q \in Runs |-> [fetch[q] EXCEPT ![f] = y(q)]]
  BY DEF Download!RenameTmp
<1> HIDE DEF y
<1>4. \A q \in Runs : fetch'[q] \in [RuleFiles -> FetchStates] /\ fetch'[q][f] = y(q)
                      /\ \A g \in RuleFiles : g # f => fetch'[q][g] = fetch[q][g]
  BY <1>1, <1>2, <1>3
<1>5. fetch' \in [Runs -> [RuleFiles -> FetchStates]]
  BY <1>3, <1>4
<1>6. /\ tmp' \in [RuleFiles -> FileStates] /\ final' \in [RuleFiles -> FileStates]
      /\ \A g \in RuleFiles : g # f => tmp'[g] = tmp[g] /\ final'[g] = final[g]
      /\ final'[f] = tmp[f]
  BY <1>3, BodyTypes DEF DownloadInv
<1>7. f \notin overlapped' => Undisturbed(f)'
  <2> SUFFICES ASSUME f \notin overlapped PROVE Undisturbed(f)'
    BY <1>3
  <2>1. Undisturbed(f)
    BY DEF DownloadInv
  <2>2. \A q \in Runs : q # r => ~Busy(q, f)
    BY <1>1, <2>1 DEF Undisturbed, Busy
  <2>3. \A q \in Runs : fetch'[q][f].pc \notin {"writing", "renaming"}
    BY <1>2, <1>4, <2>1, <2>2 DEF Undisturbed, Busy
  <2>4. final'[f].whole
    BY <1>1, <1>6, <2>1 DEF Undisturbed
  <2> QED BY <2>3, <2>4 DEF Undisturbed, Busy
<1>8. \A q \in Runs, g \in RuleFiles : <<q, g>> # <<r, f>> => fetch'[q][g].pc = fetch[q][g].pc
  BY <1>2, <1>4
<1>9. \A g \in RuleFiles : final[g] # Download!Absent => final'[g] # Download!Absent
  BY <1>1, <1>6
<1> QED BY <1>1, <1>2, <1>3, <1>4, <1>5, <1>6, <1>7, <1>8, <1>9, FetchChanges

LEMMA RemoveTmpDownload ==
  ASSUME DownloadInv, NEW r \in Runs, NEW f \in RuleFiles, Download!RemoveTmp(r, f)
  PROVE  DownloadInv'
<1> DEFINE y(q) == IF q = r THEN Download!Failed(fetch[r][f])
                   ELSE [fetch[q][f] EXCEPT !.fd = Download!FdRemoved(fetch[q][f])]
<1>1. /\ \A q \in Runs : fetch[q] \in [RuleFiles -> FetchStates] /\ fetch[q][f] \in FetchStates
      /\ fetch[r][f].pc = "cleanup"
  BY DEF DownloadInv, Download!RemoveTmp
<1>2. \A q \in Runs : /\ y(q) \in FetchStates
                      /\ q # r => /\ y(q).pc = fetch[q][f].pc /\ y(q).body = fetch[q][f].body
                                 /\ y(q).fd = Download!FdRemoved(fetch[q][f])
  <2> SUFFICES ASSUME NEW q \in Runs
               PROVE  /\ y(q) \in FetchStates
                      /\ q # r => /\ y(q).pc = fetch[q][f].pc /\ y(q).body = fetch[q][f].body
                                 /\ y(q).fd = Download!FdRemoved(fetch[q][f])
    OBVIOUS
  <2>1. CASE q = r
    BY <1>1, <2>1, FailedType
  <2>2. CASE q # r
    BY <1>1, <2>2 DEF FetchStates, Download!FdRemoved
  <2> QED BY <2>1, <2>2
<1>3. y(r).pc \in {"todo", "err"}
  BY <1>1, FailedType
<1>4. CASE Download!Step(r, f, Download!Failed(fetch[r][f])) /\ UNCHANGED tmp
  <2>1. Download!Failed(fetch[r][f]) \in FetchStates /\ Download!Failed(fetch[r][f]).pc \in {"todo", "err"}
    BY <1>1, FailedType
  <2>2. UNCHANGED <<plan, run, tmp, final, overlapped>>
    BY <1>4 DEF Download!RemoveTmp
  <2> QED BY <1>1, <1>4, <2>1, <2>2, FetchSteps
<1>5. CASE tmp' = [tmp EXCEPT ![f] = Download!Absent] /\ fetch' = [q \in Runs |-> [fetch[q] EXCEPT ![f] = y(q)]]
  <2>1. UNCHANGED <<plan, run, final, overlapped>>
    BY DEF Download!RemoveTmp
  <2> HIDE DEF y
  <2>2. \A q \in Runs : fetch'[q] \in [RuleFiles -> FetchStates] /\ fetch'[q][f] = y(q)
                        /\ \A g \in RuleFiles : g # f => fetch'[q][g] = fetch[q][g]
    BY <1>1, <1>2, <1>5
  <2>3. fetch' \in [Runs -> [RuleFiles -> FetchStates]]
    BY <1>5, <2>2
  <2>4. /\ tmp' \in [RuleFiles -> FileStates] /\ final' \in [RuleFiles -> FileStates]
        /\ tmp'[f] = Download!Absent /\ \A g \in RuleFiles : g # f => tmp'[g] = tmp[g]
    BY <1>5, <2>1, BodyTypes DEF DownloadInv
  <2>5. \A q \in Runs, g \in RuleFiles : <<q, g>> # <<r, f>> => fetch'[q][g].pc = fetch[q][g].pc
    BY <1>2, <2>2
  <2>6. f \notin overlapped' => Undisturbed(f)'
    <3> SUFFICES ASSUME f \notin overlapped PROVE Undisturbed(f)'
      BY <2>1
    <3>1. Undisturbed(f)
      BY DEF DownloadInv
    <3>2. \A q \in Runs : Busy(q, f)' => q # r /\ Busy(q, f)
      BY <1>2, <1>3, <2>2 DEF Busy
    <3>3. ASSUME NEW q \in Runs, fetch'[q][f].pc = "writing"
          PROVE  fetch'[q][f].body # Download!NoBody /\ fetch'[q][f].fd = "gone"
      <4>1. q # r /\ fetch[q][f].pc = "writing"
        BY <1>2, <1>3, <2>2, <3>3
      <4>2. fetch'[q][f].body = fetch[q][f].body /\ fetch'[q][f].fd = Download!FdRemoved(fetch[q][f])
        BY <1>2, <2>2, <4>1
      <4>3. fetch[q][f].body # Download!NoBody /\ fetch[q][f].fd \in {"tmp", "gone"}
        BY <3>1, <4>1 DEF Undisturbed
      <4> QED BY <4>2, <4>3 DEF Download!FdRemoved
    <3> QED BY <2>1, <2>4, <3>1, <3>2, <3>3, BodyTypes DEF Undisturbed, Busy
  <2> QED BY <1>1, <1>2, <1>3, <2>1, <2>2, <2>3, <2>4, <2>5, <2>6, FetchChanges
<1>6. \/ tmp' = [tmp EXCEPT ![f] = Download!Absent] /\ fetch' = [q \in Runs |-> [fetch[q] EXCEPT ![f] = y(q)]]
      \/ Download!Step(r, f, Download!Failed(fetch[r][f])) /\ UNCHANGED tmp
  BY DEF Download!RemoveTmp
<1> QED BY <1>4, <1>5, <1>6

LEMMA RunsChange ==
  ASSUME DownloadInv, UNCHANGED <<plan, fetch, tmp, final, overlapped>>,
         run' \in [Runs -> {"idle", "downloading", "ok", "failed"}],
         \A r \in Runs, f \in RuleFiles : run'[r] = "ok" /\ f \in PathsOf(r) => fetch[r][f].pc = "ok"
  PROVE  DownloadInv'
<1>1. \A f \in RuleFiles : Undisturbed(f)' <=> Undisturbed(f)
  BY DEF Undisturbed, Busy
<1>2. \A r : PathsOf(r)' = PathsOf(r)
  BY DEF PathsOf
<1> QED BY <1>1, <1>2 DEF DownloadInv

LEMMA TriggerDownload ==
  ASSUME DownloadInv, NEW r \in Runs, Download!Trigger(r) PROVE DownloadInv'
<1>1. run' = [run EXCEPT ![r] = "downloading"] /\ UNCHANGED <<plan, fetch, tmp, final, overlapped>>
  BY DEF Download!Trigger
<1>2. /\ run' \in [Runs -> {"idle", "downloading", "ok", "failed"}]
      /\ \A q \in Runs : run'[q] = "ok" => run[q] = "ok"
  BY <1>1 DEF DownloadInv
<1>3. \A q \in Runs, f \in RuleFiles : run'[q] = "ok" /\ f \in PathsOf(q) => fetch[q][f].pc = "ok"
  BY <1>2 DEF DownloadInv
<1> QED BY <1>1, <1>2, <1>3, RunsChange

LEMMA RunEndsDownload ==
  ASSUME DownloadInv, NEW r \in Runs, Download!RunEnds(r) PROVE DownloadInv'
<1>1. /\ UNCHANGED <<plan, fetch, tmp, final, overlapped>>
      /\ \/ Download!AllDone(r) /\ run' = [run EXCEPT ![r] = "ok"]
         \/ run' = [run EXCEPT ![r] = "failed"]
  BY DEF Download!RunEnds
<1>2. run' \in [Runs -> {"idle", "downloading", "ok", "failed"}]
  BY <1>1 DEF DownloadInv
<1>3. ASSUME NEW q \in Runs, NEW f \in RuleFiles, run'[q] = "ok", f \in PathsOf(q)
      PROVE  fetch[q][f].pc = "ok"
  <2>1. CASE run[q] = "ok"
    BY <1>3, <2>1 DEF DownloadInv
  <2>2. CASE run[q] # "ok"
    <3>1. q = r /\ Download!AllDone(r)
      BY <1>1, <1>3, <2>2 DEF DownloadInv
    <3> QED BY <1>3, <3>1 DEF Download!AllDone, PathsOf
  <2> QED BY <2>1, <2>2
<1> QED BY <1>1, <1>2, <1>3, RunsChange

LEMMA DownloadNextInv ==
  ASSUME DownloadInv, [Download!Next]_downloadVars PROVE DownloadInv'
<1>1. CASE UNCHANGED <<plan, run, fetch, tmp, final, overlapped>>
  BY <1>1, RunsChange DEF DownloadInv
<1>2. CASE Download!NoNextTime \/ Download!CronShutdown \/ UNCHANGED downloadVars
  BY <1>1, <1>2 DEF Download!NoNextTime, Download!CronShutdown, downloadVars
<1>3. CASE \E r \in Runs : Download!Trigger(r) \/ Download!RunEnds(r) \/ \E f \in RuleFiles : Download!Download(r, f)
  BY <1>3, TriggerDownload, RunEndsDownload, RequestFailsDownload, OpenTmpDownload, WriteTmpDownload, WriteFailsDownload,
     RenameTmpDownload, RenameFailsDownload, RemoveTmpDownload DEF Download!Download
<1> QED BY <1>1, <1>2, <1>3 DEF Download!Next

\* DownloadsAreWhole: whatever fails and however often it is tried again, a rule
\* file is incomplete only if two downloads were writing its path at once, and a
\* run that reports success leaves its files in place (downloader.rs
\* download_single), for any files, runs and number of retries.
THEOREM DownloadsAreWhole == ServicesSpec => []DownloadsAllOrNothing
<1> DEFINE I == part = "download" => DownloadInv
<1>1. ServicesInit => I
  BY DownloadInitInv DEF ServicesInit
<1>2. I /\ [ServicesNext]_servicesVars => I'
  <2> SUFFICES ASSUME I, [ServicesNext]_servicesVars, part' = "download" PROVE DownloadInv'
    OBVIOUS
  <2>1. part = "download" /\ [Download!Next]_downloadVars
    BY DEF ServicesNext, servicesVars, Only, WatchMoves, DownloadMoves, ReverseMoves, ValidatorMoves, WebMoves, CallsMove
  <2> QED BY <2>1, DownloadNextInv
<1>3. I => DownloadsAllOrNothing
  BY DEF DownloadInv, Undisturbed, DownloadsAllOrNothing, Download!DownloadsAllOrNothing, PathsOf
<1> QED BY <1>1, <1>2, <1>3, PTL DEF ServicesSpec

-----------------------------------------------------------------------------
(* The reverse lookup *)

\* An entry ends within the longest time from now.
Kept(e) == e.expires \in Nat /\ e.expires <= now + Reversed!ttl

\* The inductive invariant: the map holds the last mapping of an address or none,
\* and so does the copy of a lookup about to act on it, unless the address was
\* recorded again in between; a mapping whose time is not over is there.
ReverseInv ==
  /\ now \in Nat
  /\ DOMAIN names = Ips /\ DOMAIN latest = Ips /\ DOMAIN lookup = Lookups
  /\ \A i \in Ips : /\ names[i] \in {latest[i], Reversed!NoEntry}
                    /\ Kept(names[i]) /\ latest[i].expires \in Nat
                    /\ latest[i].expires > now /\ i \notin raced => names[i] = latest[i]
  /\ \A l \in Lookups :
       /\ lookup[l].pc \in {"idle", "read", "done"}
       /\ lookup[l].pc = "read" =>
            /\ lookup[l].ip \in Ips /\ Kept(lookup[l].copy) /\ lookup[l].answer = "none"
            /\ lookup[l].ip \notin raced => lookup[l].copy = latest[lookup[l].ip]
       /\ lookup[l].answer # "none" =>
            /\ lookup[l].pc = "done"
            /\ lookup[l].copy.expires > lookup[l].at /\ lookup[l].copy.expires <= lookup[l].at + Reversed!ttl

LEMMA TtlType == Reversed!ttl \in Nat /\ Reversed!ttl' = Reversed!ttl
BY TimesAssumption DEF Reversed!ttl

LEMMA ReverseInitInv == Reversed!Init => ReverseInv
BY TtlType DEF Reversed!Init, ReverseInv, Kept, Reversed!NoEntry, Reversed!NoLookup

LEMMA TickReverse ==
  ASSUME ReverseInv, Reversed!Tick PROVE ReverseInv'
<1>1. now' = now + 1 /\ now' \in Nat
  BY DEF ReverseInv, Reversed!Tick
<1>2. \A e : Kept(e) => e.expires \in Nat /\ e.expires <= now' + Reversed!ttl
  BY <1>1, TtlType DEF Kept, ReverseInv
<1>3. UNCHANGED <<names, lookup, latest, raced>>
  BY DEF Reversed!Tick
<1>4. ASSUME NEW i \in Ips
      PROVE  latest[i].expires > now' => latest[i].expires > now
  BY <1>1 DEF ReverseInv
<1> QED BY <1>1, <1>2, <1>3, <1>4, TtlType DEF ReverseInv, Kept

LEMMA SaveReverse ==
  ASSUME ReverseInv, NEW i \in Ips, NEW d \in Domains, NEW t \in Ttls, Reversed!Save(i, d, t)
  PROVE  ReverseInv'
<1> DEFINE e == [name |-> d, expires |-> now + Reversed!Shorter(t, Reversed!ttl)]
<1>1. e.expires \in Nat /\ e.expires <= now + Reversed!ttl
  BY TtlType, TimesAssumption DEF ReverseInv, Reversed!Shorter
<1>2. /\ names' = [names EXCEPT ![i] = e] /\ latest' = [latest EXCEPT ![i] = e]
      /\ UNCHANGED <<now, lookup>>
      /\ raced' = IF \E l \in Lookups : lookup[l].pc = "read" /\ lookup[l].ip = i
                  THEN raced \union {i} ELSE raced \ {i}
  BY DEF Reversed!Save
<1> HIDE DEF e
<1>3. \A j \in Ips : j # i => (j \in raced' <=> j \in raced) /\ names'[j] = names[j] /\ latest'[j] = latest[j]
  BY <1>2 DEF ReverseInv
<1>4. names'[i] = e /\ latest'[i] = e
  BY <1>2 DEF ReverseInv
<1>5. \A l \in Lookups : lookup[l].pc = "read" /\ lookup[l].ip = i => i \in raced'
  BY <1>2
<1> QED BY <1>1, <1>2, <1>3, <1>4, <1>5, TtlType DEF ReverseInv, Kept

\* A step that changes one lookup.
LEMMA LookupChanges ==
  ASSUME ReverseInv, NEW l \in Lookups, NEW x, lookup' = [lookup EXCEPT ![l] = x],
         UNCHANGED <<now, latest, raced>>, DOMAIN names' = Ips,
         \A i \in Ips : /\ names'[i] \in {names[i], Reversed!NoEntry}
                        /\ latest[i].expires > now /\ i \notin raced => names'[i] = names[i],
         x.pc \in {"idle", "read", "done"},
         x.pc = "read" => /\ x.ip \in Ips /\ Kept(x.copy) /\ x.answer = "none"
                          /\ x.ip \notin raced => x.copy = latest[x.ip],
         x.answer # "none" => x.pc = "done" /\ x.copy.expires > x.at /\ x.copy.expires <= x.at + Reversed!ttl
  PROVE  ReverseInv'
<1>1. Kept(Reversed!NoEntry) /\ \A e : Kept(e)' <=> Kept(e)
  BY TtlType DEF Kept, Reversed!NoEntry, ReverseInv
<1>2. DOMAIN lookup' = Lookups /\ \A k \in Lookups : lookup'[k] = IF k = l THEN x ELSE lookup[k]
  BY DEF ReverseInv
<1>3. \A i \in Ips : names'[i] \in {latest'[i], Reversed!NoEntry} /\ Kept(names'[i])
  BY <1>1 DEF ReverseInv
<1>4. \A i \in Ips : latest'[i].expires > now' /\ i \notin raced' => names'[i] = latest'[i]
  BY DEF ReverseInv
<1>5. \A k \in Lookups :
       /\ lookup'[k].pc \in {"idle", "read", "done"}
       /\ lookup'[k].pc = "read" =>
            /\ lookup'[k].ip \in Ips /\ Kept(lookup'[k].copy) /\ lookup'[k].answer = "none"
            /\ lookup'[k].ip \notin raced' => lookup'[k].copy = latest'[lookup'[k].ip]
       /\ lookup'[k].answer # "none" =>
            /\ lookup'[k].pc = "done"
            /\ lookup'[k].copy.expires > lookup'[k].at /\ lookup'[k].copy.expires <= lookup'[k].at + Reversed!ttl
  BY <1>2 DEF ReverseInv
<1> QED BY <1>1, <1>2, <1>3, <1>4, <1>5, TtlType DEF ReverseInv, Kept

LEMMA ReadReverse ==
  ASSUME ReverseInv, NEW l \in Lookups, NEW q \in PtrNames, Reversed!Read(l, q)
  PROVE  ReverseInv'
<1> DEFINE i == Reversed!ParsePtr(q.zone, q.labels)
           r == [Reversed!NoLookup EXCEPT !.pc = "read", !.ip = i, !.copy = names[i]]
           x == IF i \notin Ips \/ names[i] = Reversed!NoEntry THEN Reversed!Unanswered ELSE r
<1>1. lookup' = [lookup EXCEPT ![l] = x] /\ UNCHANGED <<now, names, latest, raced>>
  BY DEF Reversed!Read
<1>2. r.pc = "read" /\ r.ip = i /\ r.copy = names[i] /\ r.answer = "none"
  BY DEF Reversed!NoLookup
<1>3. Reversed!Unanswered.pc = "done" /\ Reversed!Unanswered.answer = "none"
  BY DEF Reversed!NoLookup, Reversed!Unanswered
<1> HIDE DEF i, r
<1>4. i \in Ips /\ names[i] # Reversed!NoEntry => Kept(names[i]) /\ names[i] = latest[i]
  BY DEF ReverseInv
<1>5. /\ x.pc \in {"idle", "read", "done"}
      /\ x.pc = "read" => /\ x.ip \in Ips /\ Kept(x.copy) /\ x.answer = "none"
                          /\ x.ip \notin raced => x.copy = latest[x.ip]
      /\ x.answer # "none" => x.pc = "done" /\ x.copy.expires > x.at /\ x.copy.expires <= x.at + Reversed!ttl
  BY <1>2, <1>3, <1>4
<1>6. DOMAIN names' = Ips /\ \A j \in Ips : names'[j] = names[j]
  BY <1>1 DEF ReverseInv
<1> HIDE DEF x
<1> QED BY <1>1, <1>5, <1>6, LookupChanges

LEMMA AnswerReverse ==
  ASSUME ReverseInv, NEW l \in Lookups, Reversed!AnswerPtr(l)
  PROVE  ReverseInv'
<1> DEFINE x == [lookup[l] EXCEPT !.pc = "done", !.answer = lookup[l].copy.name, !.at = now]
<1>1. /\ lookup' = [lookup EXCEPT ![l] = x] /\ UNCHANGED <<now, names, latest, raced>>
      /\ lookup[l].pc = "read" /\ lookup[l].copy.expires > now
  BY DEF Reversed!AnswerPtr
<1>2. x.pc = "done" /\ x.at = now /\ x.copy = lookup[l].copy
  OBVIOUS
<1>3. Kept(lookup[l].copy)
  BY <1>1 DEF ReverseInv
<1>4. DOMAIN names' = Ips /\ \A j \in Ips : names'[j] = names[j]
  BY <1>1 DEF ReverseInv
<1> HIDE DEF x
<1> QED BY <1>1, <1>2, <1>3, <1>4, LookupChanges DEF Kept

LEMMA RemoveReverse ==
  ASSUME ReverseInv, NEW l \in Lookups, Reversed!RemoveExpired(l)
  PROVE  ReverseInv'
<1> DEFINE x == Reversed!Unanswered
           j == lookup[l].ip
<1>1. /\ lookup' = [lookup EXCEPT ![l] = x] /\ UNCHANGED <<now, latest, raced>>
      /\ names' = [names EXCEPT ![j] = Reversed!NoEntry]
      /\ lookup[l].pc = "read" /\ lookup[l].copy.expires <= now
  BY DEF Reversed!RemoveExpired
<1>2. x.pc = "done" /\ x.answer = "none"
  BY DEF Reversed!NoLookup, Reversed!Unanswered
<1>3. j \in Ips /\ (j \notin raced => latest[j].expires <= now)
  BY <1>1 DEF ReverseInv
<1> HIDE DEF x, j
<1>4. /\ DOMAIN names' = Ips
      /\ \A i \in Ips : /\ names'[i] \in {names[i], Reversed!NoEntry}
                        /\ i # j => names'[i] = names[i]
  BY <1>1 DEF ReverseInv
<1>5. \A i \in Ips : latest[i].expires > now /\ i \notin raced => names'[i] = names[i]
  <2> SUFFICES ASSUME NEW i \in Ips, latest[i].expires > now, i \notin raced PROVE i # j
    BY <1>4
  <2>1. latest[i].expires \in Nat /\ now \in Nat
    BY DEF ReverseInv
  <2> QED BY <1>3, <2>1
<1> QED BY <1>1, <1>2, <1>4, <1>5, LookupChanges

LEMMA CleanupReverse ==
  ASSUME ReverseInv, Reversed!Cleanup PROVE ReverseInv'
<1>1. /\ names' = [i \in Ips |-> IF names[i].expires > now THEN names[i] ELSE Reversed!NoEntry]
      /\ UNCHANGED <<now, lookup, latest, raced>>
  BY DEF Reversed!Cleanup
<1>2. Kept(Reversed!NoEntry)
  BY TtlType DEF Kept, Reversed!NoEntry, ReverseInv
<1>3. \A i \in Ips : /\ names'[i] \in {latest[i], Reversed!NoEntry} /\ Kept(names'[i])
                     /\ latest[i].expires > now /\ i \notin raced => names'[i] = latest[i]
  BY <1>1, <1>2 DEF ReverseInv
<1> QED BY <1>1, <1>3, TtlType DEF ReverseInv, Kept

LEMMA ReverseNextInv ==
  ASSUME ReverseInv, [Reversed!Next]_reverseVars PROVE ReverseInv'
<1>1. CASE UNCHANGED reverseVars
  BY <1>1, TtlType DEF ReverseInv, Kept, reverseVars
<1>2. CASE Reversed!Next
  BY <1>2, TickReverse, CleanupReverse, SaveReverse, ReadReverse, AnswerReverse, RemoveReverse DEF Reversed!Next
<1> QED BY <1>1, <1>2

\* ReverseIsFresh: no PTR answer is given after the time of its mapping, nor for
\* longer than the plugin's ttl, and a mapping is lost early only when it was
\* recorded while a lookup was about to remove its predecessor
\* (reverse_lookup.rs lookup), for any number of addresses, lookups and TTLs.
THEOREM ReverseIsFresh == ServicesSpec => []ReverseFresh
<1> DEFINE I == part = "reverse" => ReverseInv
<1>1. ServicesInit => I
  BY ReverseInitInv DEF ServicesInit
<1>2. I /\ [ServicesNext]_servicesVars => I'
  <2> SUFFICES ASSUME I, [ServicesNext]_servicesVars, part' = "reverse" PROVE ReverseInv'
    OBVIOUS
  <2>1. part = "reverse" /\ [Reversed!Next]_reverseVars
    BY DEF ServicesNext, servicesVars, Only, WatchMoves, DownloadMoves, ReverseMoves, ValidatorMoves, WebMoves, CallsMove
  <2> QED BY <2>1, ReverseNextInv
<1>3. I => ReverseFresh
  BY DEF ReverseInv, ReverseFresh, Reversed!ReverseFresh
<1> QED BY <1>1, <1>2, <1>3, PTL DEF ServicesSpec

-----------------------------------------------------------------------------
(* The domain validator *)

\* Two sequences put together.
LEMMA JoinProperties ==
  ASSUME NEW S, NEW b \in Seq(S), NEW d \in Seq(S), NEW t, t = b \o d
  PROVE  /\ t \in Seq(S) /\ Len(t) = Len(b) + Len(d)
         /\ \A n \in 1..(Len(b) + Len(d)) : t[n] = IF n <= Len(b) THEN b[n] ELSE d[n - Len(b)]
BY ConcatProperties

\* t is the sequence s, of length l, without its a-th element.
Without(s, l, a, t) == l = Len(s) /\ t = SubSeq(s, 1, a - 1) \o SubSeq(s, a + 1, l)

\* Its elements.
LEMMA OthersProperties ==
  ASSUME NEW S, NEW s \in Seq(S), NEW l, NEW a \in 1..l, NEW t, Without(s, l, a, t)
  PROVE  /\ t \in Seq(S) /\ Len(t) = l - 1
         /\ \A n \in 1..(l - 1) : t[n] = s[IF n < a THEN n ELSE n + 1]
<1>a. PICK b : b = SubSeq(s, 1, a - 1)
  OBVIOUS
<1>b. PICK d : d = SubSeq(s, a + 1, l)
  OBVIOUS
<1>1. l \in Nat /\ l = Len(s) /\ \A n \in 1..l : s[n] \in S
  BY DEF Without
<1>2. t = b \o d
  BY <1>a, <1>b DEF Without
<1>4. /\ b \in Seq(S) /\ Len(b) = a - 1 /\ \A n \in 1..(a - 1) : b[n] = s[n]
  <2>1. a - 1 \in Int /\ \A n \in 1..(a - 1) : s[n] \in S
    BY <1>1
  <2>2. /\ b \in Seq(S) /\ Len(b) = IF 1 <= a - 1 THEN a - 1 - 1 + 1 ELSE 0
        /\ \A n \in 1..(a - 1 - 1 + 1) : b[n] = s[1 + n - 1]
    BY <1>a, <2>1, SubSeqProperties
  <2> QED BY <1>1, <2>2
<1>5. /\ d \in Seq(S) /\ Len(d) = l - a /\ \A n \in 1..(l - a) : d[n] = s[a + n]
  <2>1. a + 1 \in Int /\ l \in Int /\ \A n \in (a + 1)..l : s[n] \in S
    BY <1>1
  <2>2. /\ d \in Seq(S) /\ Len(d) = IF a + 1 <= l THEN l - (a + 1) + 1 ELSE 0
        /\ \A n \in 1..(l - (a + 1) + 1) : d[n] = s[a + 1 + n - 1]
    BY <1>b, <2>1, SubSeqProperties
  <2>3. \A n \in 1..(l - a) : n \in 1..(l - (a + 1) + 1) /\ a + 1 + n - 1 = a + n
    BY <1>1
  <2>4. (IF a + 1 <= l THEN l - (a + 1) + 1 ELSE 0) = l - a
    BY <1>1
  <2>5. \A n \in 1..(l - a) : d[n] = s[a + n]
    BY <2>2, <2>3
  <2> QED BY <2>2, <2>4, <2>5
<1>6. /\ t \in Seq(S) /\ Len(t) = l - 1
      /\ \A n \in 1..(l - 1) : t[n] = IF n <= a - 1 THEN b[n] ELSE d[n - (a - 1)]
  <2>1. /\ t \in Seq(S) /\ Len(t) = Len(b) + Len(d)
        /\ \A n \in 1..(Len(b) + Len(d)) : t[n] = IF n <= Len(b) THEN b[n] ELSE d[n - Len(b)]
    <3>1. b \in Seq(S) /\ d \in Seq(S)
      BY ONLY <1>4, <1>5
    <3>2. QED BY ONLY <1>2, <3>1, JoinProperties
  <2>2. Len(b) + Len(d) = l - 1
    <3>1. l \in Nat /\ a \in 1..l /\ Len(b) = a - 1 /\ Len(d) = l - a
      BY <1>1, <1>4, <1>5
    <3>2. QED BY ONLY <3>1
  <2> QED BY <1>4, <2>1, <2>2
<1>7. ASSUME NEW n \in 1..(l - 1) PROVE t[n] = s[IF n < a THEN n ELSE n + 1]
  <2>1. CASE n < a
    <3>1. n <= a - 1 /\ n \in 1..(a - 1)
      BY <1>1, <2>1
    <3> QED BY <1>4, <1>6, <2>1, <3>1
  <2>2. CASE ~(n < a)
    <3>1. n - (a - 1) \in 1..(l - a) /\ a + (n - (a - 1)) = n + 1 /\ ~(n <= a - 1)
      BY <1>1, <2>2
    <3>2. t[n] = d[n - (a - 1)]
      BY <1>6, <3>1
    <3>3. d[n - (a - 1)] = s[a + (n - (a - 1))]
      BY <1>5, <3>1
    <3> QED BY <2>2, <3>1, <3>2, <3>3
  <2> QED BY <2>1, <2>2
<1> QED BY <1>6, <1>7

\* The entries that may be cached: the verdicts of the checks that were made.
SoundEntries(done) == {Checked!Entry(c.name, Checked!ValidateDomain(strict_mode, c.name, c.qtype)) : c \in done}

OneEach(s) == \A i, j \in 1..Len(s) : s[i].name = s[j].name => i = j
Lacks(s, name) == \A i \in 1..Len(s) : s[i].name # name

\* A request that is answered has the verdict of its own check or of one made before.
Justified(q, done) ==
  /\ q.pc # "checking" /\ (q.pc = "passed") = (q.verdict = "valid")
  /\ q.from = "check" => Checked!Says(q.name, q.qtype, q.verdict)
  /\ q.from = "cache" => \E c \in done : c.name = q.name /\ Checked!Says(q.name, c.qtype, q.verdict)

\* The inductive invariant.
ValidatorInv ==
  /\ verdicts \in Seq(SoundEntries(checked))
  /\ Len(verdicts) <= Checked!Capacity
  /\ OneEach(verdicts)
  /\ DOMAIN request = Requests
  /\ \A r \in Requests : Checked!Answered(r) => Justified(request[r], checked)

LEMMA CapacityType == Checked!Capacity \in Nat \ {0} /\ Checked!Capacity' = Checked!Capacity
BY SizesAssumption DEF Checked!Capacity

LEMMA ValidatorInitInv == Checked!Init => ValidatorInv
<1> SUFFICES ASSUME Checked!Init PROVE ValidatorInv
  OBVIOUS
<1>1. verdicts = <<>> /\ request = [r \in Requests |-> Checked!Idle]
  BY DEF Checked!Init
<1>2. verdicts \in Seq(SoundEntries(checked)) /\ Len(verdicts) = 0
  BY <1>1
<1>3. Checked!Idle.pc = "idle"
  BY DEF Checked!Idle
<1> QED BY <1>1, <1>2, <1>3, CapacityType DEF ValidatorInv, OneEach, Checked!Answered

\* Removing entries keeps the names apart.
LEMMA OthersLack ==
  ASSUME ValidatorInv, NEW n, Checked!Cached(n)
  PROVE  /\ Checked!Others(n) \in Seq(SoundEntries(checked)) /\ OneEach(Checked!Others(n)) /\ Lacks(Checked!Others(n), n)
         /\ Len(Checked!Others(n)) + 1 <= Checked!Capacity
         /\ verdicts[Checked!At(n)] \in SoundEntries(checked) /\ verdicts[Checked!At(n)].name = n
<1>s. PICK s : s = verdicts
  OBVIOUS
<1>l. PICK l : l = Len(verdicts)
  OBVIOUS
<1>a. PICK a : a = Checked!At(n)
  OBVIOUS
<1>t. PICK t : t = Checked!Others(n)
  OBVIOUS
<1> DEFINE g(m) == IF m < a THEN m ELSE m + 1
<1>1. s \in Seq(SoundEntries(checked)) /\ l \in Nat /\ l <= Checked!Capacity
  BY <1>s, <1>l DEF ValidatorInv
<1>2. a \in 1..l /\ s[a].name = n
  <2>1. \E i \in 1..Len(verdicts) : verdicts[i].name = n
    BY DEF Checked!Cached
  <2> QED BY <2>1, <1>s, <1>l, <1>a DEF Checked!At
<1>3. Without(s, l, a, t)
  BY <1>s, <1>l, <1>a, <1>t DEF Checked!Others, Without
<1>4. l = Len(s)
  BY <1>s, <1>l
<1>5. /\ t \in Seq(SoundEntries(checked)) /\ Len(t) = l - 1
      /\ \A m \in 1..(l - 1) : t[m] = s[IF m < a THEN m ELSE m + 1]
  <2>1. s \in Seq(SoundEntries(checked)) /\ a \in 1..l
    BY <1>1, <1>2
  <2>2. QED BY ONLY <2>1, <1>3, OthersProperties
<1>6. \A m \in 1..(l - 1) : g(m) \in 1..l /\ g(m) # a
  BY <1>1, <1>2
<1>7. \A m, k \in 1..(l - 1) : g(m) = g(k) => m = k
  BY <1>1, <1>2
<1>8. \A m \in 1..(l - 1) : t[m] = s[g(m)]
  BY <1>5
<1> HIDE DEF g
<1>9. \A m, k \in 1..l : s[m].name = s[k].name => m = k
  BY <1>s, <1>l DEF ValidatorInv, OneEach
<1>10. OneEach(t)
  BY <1>5, <1>6, <1>7, <1>8, <1>9 DEF OneEach
<1>11. Lacks(t, n)
  BY <1>2, <1>5, <1>6, <1>8, <1>9 DEF Lacks
<1>12. l - 1 + 1 <= Checked!Capacity /\ s[a] \in SoundEntries(checked)
  BY <1>1, <1>2, <1>4
<1> QED BY <1>s, <1>a, <1>t, <1>2, <1>5, <1>10, <1>11, <1>12

\* What was justified by the checks made so far stays so when there are more.
LEMMA MoreChecks ==
  ASSUME NEW c, NEW d, c \subseteq d
  PROVE  /\ \A s \in Seq(SoundEntries(c)) : s \in Seq(SoundEntries(d))
         /\ \A q : Justified(q, c) => Justified(q, d)
<1>1. SoundEntries(c) \subseteq SoundEntries(d)
  BY DEF SoundEntries
<1>2. ASSUME NEW S, NEW T, S \subseteq T PROVE \A s \in Seq(S) : s \in Seq(T)
  BY <1>2
<1>3. \A q : Justified(q, c) => Justified(q, d)
  BY DEF Justified
<1> QED BY <1>1, <1>2, <1>3

\* An entry is put behind entries of other names.
LEMMA EntryAdded ==
  ASSUME ValidatorInv, UNCHANGED strict_mode, NEW d, checked' = d, checked \subseteq d,
         NEW s \in Seq(SoundEntries(d)), NEW e \in SoundEntries(d), OneEach(s), Lacks(s, e.name),
         Len(s) + 1 <= Checked!Capacity, verdicts' = Append(s, e),
         NEW r \in Requests, NEW q, request' = [request EXCEPT ![r] = q], Justified(q, d)
  PROVE  ValidatorInv'
<1> DEFINE S == SoundEntries(d)
<1>1. s \in Seq(S) /\ e \in S
  OBVIOUS
<1> HIDE DEF S
<1>2. /\ Append(s, e) \in Seq(S) /\ Len(Append(s, e)) = Len(s) + 1 /\ Len(s) \in Nat
      /\ \A i \in 1..Len(s) : Append(s, e)[i] = s[i]
      /\ Append(s, e)[Len(s) + 1] = e
  BY <1>1
<1> DEFINE v == Append(s, e)
           l == Len(s)
<1>3. l \in Nat /\ Len(v) = l + 1 /\ v[l + 1] = e /\ \A i \in 1..l : v[i] = s[i]
  BY <1>2
<1>4. /\ \A i, j \in 1..l : s[i].name = s[j].name => i = j
      /\ \A i \in 1..l : s[i].name # e.name
  BY DEF OneEach, Lacks
<1> HIDE DEF v, l
<1>5. \A i \in 1..(l + 1) : i \in 1..l \/ i = l + 1
  BY <1>3
<1>6. OneEach(v)
  BY <1>3, <1>4, <1>5 DEF OneEach
<1>7. verdicts' = v
  BY DEF v
<1>8. verdicts' \in Seq(SoundEntries(checked))' /\ Len(verdicts') <= Checked!Capacity' /\ OneEach(verdicts)'
  <2>1. verdicts' \in Seq(S) /\ Len(verdicts') <= Checked!Capacity
    BY <1>2
  <2>2. OneEach(verdicts')
    BY <1>6, <1>7
  <2>3. SoundEntries(checked)' = S
    BY DEF S, SoundEntries
  <2> QED BY <2>1, <2>2, <2>3, CapacityType DEF OneEach
<1>9. DOMAIN request' = Requests /\ \A k \in Requests : request'[k] = IF k = r THEN q ELSE request[k]
  BY DEF ValidatorInv
<1>10. ASSUME NEW k \in Requests, Checked!Answered(k)' PROVE Justified(request[k], checked)'
  <2>1. Justified(request'[k], d)
    <3>1. CASE k = r
      BY <1>9, <3>1
    <3>2. CASE k # r
      <4>1. request'[k] = request[k] /\ Justified(request[k], checked)
        BY <1>9, <1>10, <3>2 DEF ValidatorInv, Checked!Answered
      <4> QED BY <4>1, MoreChecks
    <3> QED BY <3>1, <3>2
  <2> QED BY <2>1 DEF Justified, Checked!Says
<1> QED BY <1>8, <1>9, <1>10 DEF ValidatorInv

\* What handle_result makes of a verdict.
LEMMA Handled ==
  ASSUME NEW n, NEW t, NEW v, NEW f
  PROVE  LET q == Checked!HandleResult(n, t, v, f) IN
         /\ q.pc # "checking" /\ (q.pc = "passed") = (v = "valid")
         /\ q.name = n /\ q.qtype = t /\ q.verdict = v /\ q.from = f
BY DEF Checked!HandleResult

LEMMA HitValidator ==
  ASSUME ValidatorInv, NEW r \in Requests, NEW n \in Names, NEW t \in Types, Checked!Hit(r, n, t)
  PROVE  ValidatorInv'
<1> DEFINE e == verdicts[Checked!At(n)]
           s == Checked!Others(n)
           q == Checked!HandleResult(n, t, e.verdict, "cache")
<1>1. Checked!Cached(n)
  BY DEF Checked!Hit
<1>2. /\ s \in Seq(SoundEntries(checked)) /\ OneEach(s) /\ Lacks(s, n) /\ Len(s) + 1 <= Checked!Capacity
      /\ e \in SoundEntries(checked) /\ e.name = n
  BY <1>1, OthersLack
<1>3. Checked!Entry(n, e.verdict) = e
  BY <1>2 DEF SoundEntries, Checked!Entry
<1>4. /\ verdicts' = Append(s, Checked!Entry(n, e.verdict)) /\ UNCHANGED <<strict_mode, checked>>
      /\ request' = [request EXCEPT ![r] = q]
  BY DEF Checked!Hit, Checked!VerdictOf
<1>5. /\ q.pc # "checking" /\ (q.pc = "passed") = (e.verdict = "valid")
      /\ q.name = n /\ q.verdict = e.verdict /\ q.from = "cache"
  BY Handled
<1> HIDE DEF e, s, q
<1>6. \E c \in checked : c.name = n /\ Checked!Says(n, c.qtype, e.verdict)
  <2>1. PICK c \in checked : e = Checked!Entry(c.name, Checked!ValidateDomain(strict_mode, c.name, c.qtype))
    BY <1>2 DEF SoundEntries
  <2>2. e.name = c.name /\ e.verdict = Checked!ValidateDomain(strict_mode, c.name, c.qtype)
    BY <2>1 DEF Checked!Entry
  <2> QED BY <1>2, <2>2 DEF Checked!Says
<1>7. Justified(q, checked)
  BY <1>5, <1>6 DEF Justified
<1> QED BY <1>2, <1>3, <1>4, <1>7, EntryAdded

LEMMA MissValidator ==
  ASSUME ValidatorInv, NEW r \in Requests, NEW n \in Names, NEW t \in Types, Checked!Miss(r, n, t)
  PROVE  ValidatorInv'
<1>1. /\ request' = [request EXCEPT ![r] = [Checked!Idle EXCEPT !.pc = "checking", !.name = n, !.qtype = t]]
      /\ UNCHANGED <<strict_mode, verdicts, checked>>
  BY DEF Checked!Miss
<1>2. PICK q : q = [Checked!Idle EXCEPT !.pc = "checking", !.name = n, !.qtype = t]
  OBVIOUS
<1>3. q.pc = "checking"
  BY <1>2 DEF Checked!Idle
<1>4. DOMAIN request' = Requests /\ \A k \in Requests : request'[k] = IF k = r THEN q ELSE request[k]
  BY <1>1, <1>2 DEF ValidatorInv
<1>5. SoundEntries(checked)' = SoundEntries(checked)
  BY <1>1 DEF SoundEntries
<1>6. \A k \in Requests : Checked!Answered(k)' => Justified(request'[k], checked)
  BY <1>3, <1>4 DEF ValidatorInv, Checked!Answered
<1>7. \A k \in Requests : Checked!Answered(k)' => Justified(request[k], checked)'
  BY <1>1, <1>6 DEF Justified, Checked!Says
<1> QED BY <1>1, <1>4, <1>5, <1>7, CapacityType DEF ValidatorInv, OneEach

LEMMA StoreValidator ==
  ASSUME ValidatorInv, NEW r \in Requests, Checked!Store(r)
  PROVE  ValidatorInv'
<1> DEFINE n == request[r].name
           v == Checked!ValidateDomain(strict_mode, n, request[r].qtype)
           e == Checked!Entry(n, v)
           q == Checked!HandleResult(n, request[r].qtype, v, "check")
           s == IF Checked!Cached(n) THEN Checked!Others(n)
                ELSE IF Len(verdicts) = Checked!Capacity THEN Tail(verdicts) ELSE verdicts
           d == checked \union {[name |-> n, qtype |-> request[r].qtype]}
<1>1. /\ request[r].pc = "checking" /\ UNCHANGED strict_mode
      /\ checked' = d /\ checked \subseteq d
      /\ verdicts' = Append(s, e) /\ request' = [request EXCEPT ![r] = q]
  BY DEF Checked!Store, Checked!Stored, Checked!Put
<1>2. /\ q.pc # "checking" /\ (q.pc = "passed") = (v = "valid")
      /\ q.name = n /\ q.qtype = request[r].qtype /\ q.verdict = v /\ q.from = "check"
  BY Handled
<1>3. e \in SoundEntries(d) /\ e.name = n
  <2>1. PICK c : c = [name |-> n, qtype |-> request[r].qtype]
    OBVIOUS
  <2>2. c \in d /\ c.name = n /\ c.qtype = request[r].qtype
    BY <2>1
  <2>3. e = Checked!Entry(c.name, Checked!ValidateDomain(strict_mode, c.name, c.qtype))
    BY <2>2
  <2> HIDE DEF n, v, e, d
  <2>4. e \in SoundEntries(d)
    BY <2>2, <2>3 DEF SoundEntries
  <2> QED BY <2>2, <2>3, <2>4 DEF Checked!Entry
<1>4. Justified(q, d)
  <2>1. Checked!Says(n, request[r].qtype, v)
    BY DEF Checked!Says
  <2> HIDE DEF q, n, v, d
  <2> QED BY <1>2, <2>1 DEF Justified
<1>5. verdicts \in Seq(SoundEntries(checked)) /\ OneEach(verdicts) /\ Len(verdicts) \in Nat /\ Len(verdicts) <= Checked!Capacity
  BY DEF ValidatorInv
<1>6. s \in Seq(SoundEntries(checked)) /\ OneEach(s) /\ Lacks(s, n) /\ Len(s) + 1 <= Checked!Capacity
  <2> HIDE DEF n, v, e, q
  <2>1. CASE Checked!Cached(n)
    BY <2>1, OthersLack
  <2>2. CASE ~Checked!Cached(n) /\ Len(verdicts) # Checked!Capacity
    <3>1. Lacks(verdicts, n)
      BY <2>2 DEF Checked!Cached, Lacks
    <3> QED BY <1>5, <2>2, <3>1, CapacityType
  <2>3. CASE ~Checked!Cached(n) /\ Len(verdicts) = Checked!Capacity
    <3>1. verdicts # <<>> /\ s = Tail(verdicts) /\ Len(verdicts) > 0
      BY <1>5, <2>3, CapacityType
    <3>2. /\ s \in Seq(SoundEntries(checked)) /\ Len(s) = Len(verdicts) - 1
          /\ \A i \in 1..Len(s) : i + 1 \in 1..Len(verdicts) /\ s[i] = verdicts[i + 1]
      BY <1>5, <3>1
    <3>3. Lacks(s, n)
      BY <2>3, <3>2 DEF Checked!Cached, Lacks
    <3>4. OneEach(s)
      <4> HIDE DEF s
      <4> SUFFICES ASSUME NEW i \in 1..Len(s), NEW j \in 1..Len(s), s[i].name = s[j].name PROVE i = j
        BY DEF OneEach
      <4>1. i + 1 \in 1..Len(verdicts) /\ j + 1 \in 1..Len(verdicts) /\ verdicts[i + 1].name = verdicts[j + 1].name
        BY <3>2
      <4>2. i + 1 = j + 1
        BY <1>5, <4>1 DEF OneEach
      <4> QED BY <4>2
    <3> QED BY <1>5, <2>3, <3>2, <3>3, <3>4
  <2> QED BY <2>1, <2>2, <2>3
<1> HIDE DEF n, v, e, q, s, d
<1>7. s \in Seq(SoundEntries(d))
  BY <1>1, <1>6, MoreChecks
<1> QED BY <1>1, <1>3, <1>4, <1>6, <1>7, EntryAdded

LEMMA ValidatorNextInv ==
  ASSUME ValidatorInv, [Checked!Next]_validatorVars PROVE ValidatorInv'
<1>1. CASE UNCHANGED validatorVars
  <2>1. UNCHANGED <<strict_mode, verdicts, request, checked>>
    BY <1>1 DEF validatorVars
  <2>2. SoundEntries(checked)' = SoundEntries(checked)
    BY <2>1 DEF SoundEntries
  <2>3. \A r \in Requests : Checked!Answered(r)' => Justified(request[r], checked)'
    BY <2>1 DEF ValidatorInv, Checked!Answered, Justified, Checked!Says
  <2> QED BY <2>1, <2>2, <2>3, CapacityType DEF ValidatorInv, OneEach
<1>2. CASE Checked!Next
  BY <1>2, HitValidator, MissValidator, StoreValidator DEF Checked!Next
<1> QED BY <1>1, <1>2

\* VerdictsAreSound: however requests for one name race between the lookup and the
\* store, a query that is checked is refused or let pass as the check says for its own
\* name and type, one answered from the cache as it said for that name and a type it
\* was checked with before; the cache has one such verdict per name within its capacity
\* (domain_validator.rs execute), for any names, requests and capacity.
THEOREM VerdictsAreSound == ServicesSpec => []VerdictSound
<1> DEFINE I == part = "validator" => ValidatorInv
<1>1. ServicesInit => I
  BY ValidatorInitInv DEF ServicesInit
<1>2. I /\ [ServicesNext]_servicesVars => I'
  <2> SUFFICES ASSUME I, [ServicesNext]_servicesVars, part' = "validator" PROVE ValidatorInv'
    OBVIOUS
  <2>1. part = "validator" /\ [Checked!Next]_validatorVars
    BY DEF ServicesNext, servicesVars, Only, WatchMoves, DownloadMoves, ReverseMoves, ValidatorMoves, WebMoves, CallsMove
  <2> QED BY <2>1, ValidatorNextInv
<1>3. I => VerdictSound
  <2> SUFFICES ASSUME ValidatorInv PROVE Checked!VerdictSound
    BY DEF VerdictSound
  <2>1. \A i \in 1..Len(verdicts) : verdicts[i] \in SoundEntries(checked)
    BY DEF ValidatorInv
  <2>2. ASSUME NEW i \in 1..Len(verdicts)
        PROVE  \E c \in checked : c.name = verdicts[i].name /\ Checked!Says(c.name, c.qtype, verdicts[i].verdict)
    <3>1. PICK c \in checked : verdicts[i] = Checked!Entry(c.name, Checked!ValidateDomain(strict_mode, c.name, c.qtype))
      BY <2>1 DEF SoundEntries
    <3> QED BY <3>1 DEF Checked!Entry, Checked!Says
  <2> QED BY <2>2 DEF ValidatorInv, OneEach, Justified, Checked!VerdictSound
<1> QED BY <1>1, <1>2, <1>3, PTL DEF ServicesSpec

-----------------------------------------------------------------------------
(* The web interface *)

\* A WebSocket, there or not.
Sockets == [at : {"none", "upgrading"} \union Web!Counted, silent : Nat, due : Int, topics : SUBSET (Topics \union {"overview"})]
Streams == {"none", "queries", "security", "open", "ending"}

Streaming(s) == {c \in Clients : s[c] \in {"open", "ending"}}
OpenPages(w) == {p \in Pages : w[p].at \in Web!Counted}

\* What an open socket has left before it is dropped: its silence and the time to
\* the next heartbeat, which is below zero when that is late.
InTime(x) == x.at \in Web!Loop => x.silent + x.due <= timeout_secs + heartbeat_secs

\* Nobody has a stream before the service serves, or after it has ended.
Quiet(l, s) == "web" \in WebServices /\ l["web"] \notin {"serving", "draining"} => \A c \in Clients : s[c] = "none"

\* The inductive invariant.
WebInv ==
  /\ DOMAIN life = WebServices
  /\ sse \in [Clients -> Streams] /\ ws \in [Pages -> Sockets]
  /\ sse_connections = Cardinality(Streaming(sse))
  /\ ws_connections = Cardinality(OpenPages(ws))
  /\ Quiet(life, sse)
  /\ \A p \in Pages : InTime(ws[p])

LEMMA WebConstants ==
  /\ IsFiniteSet(Clients) /\ IsFiniteSet(Pages)
  /\ heartbeat_secs \in Nat /\ timeout_secs \in Nat /\ MaxStall \in Nat
BY SizesAssumption, TimesAssumption

\* Where a socket may be.
LEMMA Places ==
  /\ "greeting" \in Web!Counted /\ "greeting" \notin Web!Loop
  /\ \A x \in {"none", "upgrading"} : x \notin Web!Counted /\ x \notin Web!Loop
  /\ \A x \in Web!Loop : x \in Web!Counted
  /\ {"waiting", "replying", "ponging", "pushing"} \subseteq Web!Loop
BY DEF Web!Counted, Web!Loop

LEMMA BeforeSocket ==
  ASSUME NEW x \in {"none", "upgrading", "greeting"}
  PROVE  Web!Before(x) \in Sockets /\ Web!Before(x).at = x /\ InTime(Web!Before(x))
<1>1. x \in {"none", "upgrading"} \union Web!Counted /\ x \notin Web!Loop
  BY Places
<1> QED BY <1>1 DEF Web!Before, Sockets, InTime

LEMMA WebInitInv == Web!Init => WebInv
<1> SUFFICES ASSUME Web!Init PROVE WebInv
  OBVIOUS
<1>1. /\ life = [s \in WebServices |-> "starting"] /\ sse = [c \in Clients |-> "none"] /\ sse_connections = 0
      /\ ws = [p \in Pages |-> Web!Before("none")] /\ ws_connections = 0
  BY DEF Web!Init
<1>2. Web!Before("none") \in Sockets /\ Web!Before("none").at = "none"
  BY BeforeSocket
<1>3. sse \in [Clients -> Streams] /\ ws \in [Pages -> Sockets]
  BY <1>1, <1>2 DEF Streams
<1>4. Streaming(sse) = {} /\ OpenPages(ws) = {}
  BY <1>1, <1>2, Places DEF Streaming, OpenPages
<1>5. Cardinality({}) = 0
  BY FS_EmptySet
<1> QED BY <1>1, <1>2, <1>3, <1>4, <1>5, Places DEF WebInv, Quiet, InTime

\* A step that leaves the streams and the sockets alone.
LEMMA LifeMoves ==
  ASSUME WebInv, UNCHANGED <<sse, sse_connections, ws, ws_connections>>,
         NEW s \in WebServices, NEW x, life' = [life EXCEPT ![s] = x],
         \/ s # "web" \/ x \in {"serving", "draining"} \/ life["web"] \notin {"serving", "draining"}
         \/ \A c \in Clients : sse[c] = "none"
  PROVE  WebInv'
<1>1. DOMAIN life' = WebServices
  BY DEF WebInv
<1>2. life'["web"] = IF s = "web" THEN x ELSE life["web"]
  <2>1. CASE s = "web"
    BY <2>1 DEF WebInv
  <2>2. CASE s # "web"
    BY <2>2
  <2> QED BY <2>1, <2>2
<1>3. Quiet(life', sse)
  BY <1>2 DEF Quiet, WebInv
<1> QED BY <1>1, <1>3 DEF WebInv

\* A step of a stream.
LEMMA StreamMoves ==
  ASSUME WebInv, UNCHANGED <<life, ws, ws_connections>>,
         NEW c \in Clients, NEW x \in Streams, sse' = [sse EXCEPT ![c] = x],
         \/ sse_connections' = sse_connections /\ sse[c] \notin {"open", "ending"} /\ x \notin {"open", "ending"}
         \/ sse_connections' = sse_connections + 1 /\ sse[c] \notin {"open", "ending"} /\ x \in {"open", "ending"}
         \/ sse_connections' = sse_connections - 1 /\ sse[c] \in {"open", "ending"} /\ x \notin {"open", "ending"},
         "web" \in WebServices => life["web"] \in {"serving", "draining"} \/ x = "none"
  PROVE  WebInv'
<1>1. sse' \in [Clients -> Streams] /\ sse'[c] = x /\ \A d \in Clients : d # c => sse'[d] = sse[d]
  BY DEF WebInv
<1>2. Quiet(life, sse')
  BY <1>1 DEF Quiet, WebInv
<1>3. IsFiniteSet(Streaming(sse)) /\ Cardinality(Streaming(sse)) \in Nat
  BY WebConstants, FS_Subset, FS_CardinalityType DEF Streaming
<1>4. CASE sse_connections' = sse_connections /\ sse[c] \notin {"open", "ending"} /\ x \notin {"open", "ending"}
  <2>1. Streaming(sse') = Streaming(sse)
    BY <1>1, <1>4 DEF Streaming
  <2> QED BY <1>1, <1>2, <1>4, <2>1 DEF WebInv
<1>5. CASE sse_connections' = sse_connections + 1 /\ sse[c] \notin {"open", "ending"} /\ x \in {"open", "ending"}
  <2>1. Streaming(sse') = Streaming(sse) \union {c} /\ c \notin Streaming(sse)
    BY <1>1, <1>5 DEF Streaming
  <2>2. Cardinality(Streaming(sse')) = Cardinality(Streaming(sse)) + 1
    BY <1>3, <2>1, FS_AddElement, ZenonT(60)
  <2> QED BY <1>1, <1>2, <1>5, <2>2 DEF WebInv
<1>6. CASE sse_connections' = sse_connections - 1 /\ sse[c] \in {"open", "ending"} /\ x \notin {"open", "ending"}
  <2>1. Streaming(sse') = Streaming(sse) \ {c} /\ c \in Streaming(sse)
    BY <1>1, <1>6 DEF Streaming
  <2>2. Cardinality(Streaming(sse')) = Cardinality(Streaming(sse)) - 1
    BY <1>3, <2>1, FS_RemoveElement
  <2> QED BY <1>1, <1>2, <1>6, <2>2 DEF WebInv
<1> QED BY <1>4, <1>5, <1>6

\* A step of a socket.
LEMMA SocketMoves ==
  ASSUME WebInv, UNCHANGED <<life, sse, sse_connections>>,
         NEW p \in Pages, NEW x \in Sockets, ws' = [ws EXCEPT ![p] = x], InTime(x),
         \/ ws_connections' = ws_connections /\ (x.at \in Web!Counted <=> ws[p].at \in Web!Counted)
         \/ ws_connections' = ws_connections + 1 /\ ws[p].at \notin Web!Counted /\ x.at \in Web!Counted
         \/ ws_connections' = ws_connections - 1 /\ ws[p].at \in Web!Counted /\ x.at \notin Web!Counted
  PROVE  WebInv'
<1>1. ws' \in [Pages -> Sockets] /\ ws'[p] = x /\ \A d \in Pages : d # p => ws'[d] = ws[d]
  BY DEF WebInv
<1>2. \A d \in Pages : InTime(ws'[d])
  BY <1>1 DEF WebInv
<1>3. IsFiniteSet(OpenPages(ws)) /\ Cardinality(OpenPages(ws)) \in Nat
  BY WebConstants, FS_Subset, FS_CardinalityType DEF OpenPages
<1>4. CASE ws_connections' = ws_connections /\ (x.at \in Web!Counted <=> ws[p].at \in Web!Counted)
  <2>1. OpenPages(ws') = OpenPages(ws)
    BY <1>1, <1>4 DEF OpenPages
  <2> QED BY <1>1, <1>2, <1>4, <2>1 DEF WebInv, InTime
<1>5. CASE ws_connections' = ws_connections + 1 /\ ws[p].at \notin Web!Counted /\ x.at \in Web!Counted
  <2>1. OpenPages(ws') = OpenPages(ws) \union {p} /\ p \notin OpenPages(ws)
    BY <1>1, <1>5 DEF OpenPages
  <2>2. Cardinality(OpenPages(ws')) = Cardinality(OpenPages(ws)) + 1
    BY <1>3, <2>1, FS_AddElement, ZenonT(60)
  <2> QED BY <1>1, <1>2, <1>5, <2>2 DEF WebInv, InTime
<1>6. CASE ws_connections' = ws_connections - 1 /\ ws[p].at \in Web!Counted /\ x.at \notin Web!Counted
  <2>1. OpenPages(ws') = OpenPages(ws) \ {p} /\ p \in OpenPages(ws)
    BY <1>1, <1>6 DEF OpenPages
  <2>2. Cardinality(OpenPages(ws')) = Cardinality(OpenPages(ws)) - 1
    BY <1>3, <2>1, FS_RemoveElement
  <2> QED BY <1>1, <1>2, <1>6, <2>2 DEF WebInv, InTime
<1> QED BY <1>4, <1>5, <1>6

\* What a socket's steps are made of.
LEMMA SocketGoes ==
  ASSUME WebInv, NEW p \in Pages, NEW x \in Sockets, InTime(x), Web!Stays(p, x),
         x.at \in Web!Counted <=> ws[p].at \in Web!Counted
  PROVE  WebInv'
BY SocketMoves DEF Web!Stays, Web!Goes, Web!services, Web!streams

LEMMA SocketCloses ==
  ASSUME WebInv, NEW p \in Pages, ws[p].at \in Web!Counted, Web!Close(p)
  PROVE  WebInv'
<1>1. PICK x : x = Web!Before("none")
  OBVIOUS
<1>2. x \in Sockets /\ x.at = "none" /\ InTime(x)
  BY <1>1, BeforeSocket
<1>3. /\ ws' = [ws EXCEPT ![p] = x] /\ ws_connections' = ws_connections - 1
      /\ UNCHANGED <<life, sse, sse_connections>>
  BY <1>1 DEF Web!Close, Web!Goes, Web!services, Web!streams
<1> QED BY <1>2, <1>3, Places, SocketMoves

\* A socket in the loop goes elsewhere in it, with its silence and its next heartbeat
\* as said.
LEMMA LoopMoves ==
  ASSUME WebInv, NEW p \in Pages, NEW x, Web!Stays(p, x), ws[p].at \in Web!Loop, x.at \in Web!Loop,
         x \in Sockets, x.silent + x.due <= timeout_secs + heartbeat_secs
  PROVE  WebInv'
BY SocketGoes, Places DEF InTime

\* A second passes for the sockets in their loops.
LEMMA TickInv == ASSUME WebInv, Web!Tick PROVE WebInv'
<1>1. /\ UNCHANGED <<life, sse, sse_connections, ws_connections>>
      /\ ws' = [p \in Pages |-> IF ws[p].at \in Web!Loop
                               THEN [ws[p] EXCEPT !.silent = ws[p].silent + 1, !.due = ws[p].due - 1] ELSE ws[p]]
  BY DEF Web!Tick, Web!services, Web!streams
<1>2. ASSUME NEW p \in Pages PROVE ws'[p] \in Sockets /\ ws'[p].at = ws[p].at /\ InTime(ws'[p])
  <2>1. ws[p] \in Sockets /\ InTime(ws[p])
    BY DEF WebInv
  <2>2. CASE ws[p].at \in Web!Loop
    <3>1. ws'[p] = [ws[p] EXCEPT !.silent = ws[p].silent + 1, !.due = ws[p].due - 1]
      BY <1>1, <2>2
    <3>2. PICK n, d : n = ws[p].silent + 1 /\ d = ws[p].due - 1
      OBVIOUS
    <3>3. ws[p].silent \in Nat /\ ws[p].due \in Int
      BY <2>1 DEF Sockets
    <3>4. n \in Nat /\ d \in Int /\ n + d = ws[p].silent + ws[p].due
      BY <3>2, <3>3
    <3>5. ws'[p] = [ws[p] EXCEPT !.silent = n, !.due = d]
      BY <3>1, <3>2
    <3>6. /\ ws'[p] \in Sockets /\ ws'[p].at = ws[p].at
          /\ ws'[p].silent = n /\ ws'[p].due = d
      BY <2>1, <3>4, <3>5 DEF Sockets
    <3> QED BY <2>1, <2>2, <3>4, <3>6 DEF InTime
  <2>3. CASE ws[p].at \notin Web!Loop
    BY <1>1, <2>1, <2>3
  <2> QED BY <2>2, <2>3
<1>3. ws' \in [Pages -> Sockets]
  BY <1>1, <1>2
<1>4. OpenPages(ws') = OpenPages(ws)
  BY <1>2 DEF OpenPages
<1>5. Quiet(life, sse)'
  BY <1>1 DEF Quiet, WebInv
<1> QED BY <1>1, <1>2, <1>3, <1>4, <1>5 DEF WebInv, InTime

LEMMA ServiceTasksInv ==
  ASSUME WebInv,
         \/ Web!BindAdmin \/ Web!BindMonitoring \/ Web!WithAdmin \/ Web!BindWeb \/ Web!TriggerShutdown
         \/ \E s \in WebServices : Web!Drain(s) \/ Web!End(s)
  PROVE  WebInv'
<1>1. ASSUME NEW s \in WebServices, s # "web", Web!Bind(s) PROVE WebInv'
  <2>1. /\ UNCHANGED <<sse, sse_connections, ws, ws_connections>>
        /\ \E x : life' = [life EXCEPT ![s] = x]
    BY <1>1 DEF Web!Bind, Web!Becomes, Web!streams, Web!sockets
  <2> QED BY <1>1, <2>1, LifeMoves
<1>2. CASE Web!BindAdmin \/ Web!BindMonitoring
  <2>1. CASE Web!BindAdmin
    BY <1>1, <2>1 DEF Web!BindAdmin
  <2>2. CASE Web!BindMonitoring
    BY <1>1, <2>2 DEF Web!BindMonitoring
  <2> QED BY <1>2, <2>1, <2>2
<1>3. CASE Web!WithAdmin \/ Web!BindWeb
  <2>1. /\ "web" \in WebServices /\ UNCHANGED <<sse, sse_connections, ws, ws_connections>>
        /\ life["web"] \notin {"serving", "draining"}
        /\ \E x : life' = [life EXCEPT !["web"] = x]
    BY <1>3 DEF Web!WithAdmin, Web!BindWeb, Web!Becomes, Web!streams, Web!sockets
  <2> QED BY <2>1, LifeMoves
<1>4. CASE Web!TriggerShutdown
  BY <1>4 DEF Web!TriggerShutdown, Web!streams, Web!sockets, WebInv, InTime, Quiet, Streaming, OpenPages
<1>5. ASSUME NEW s \in WebServices, Web!Drain(s) PROVE WebInv'
  <2>1. UNCHANGED <<sse, sse_connections, ws, ws_connections>> /\ life' = [life EXCEPT ![s] = "draining"]
    BY <1>5 DEF Web!Drain, Web!Becomes, Web!streams, Web!sockets
  <2> QED BY <2>1, LifeMoves
<1>6. ASSUME NEW s \in WebServices, Web!End(s) PROVE WebInv'
  <2>1. /\ UNCHANGED <<sse, sse_connections, ws, ws_connections>> /\ life' = [life EXCEPT ![s] = "ended"]
        /\ s = "web" => \A c \in Clients : sse[c] = "none"
    BY <1>6 DEF Web!End, Web!Becomes, Web!streams, Web!sockets
  <2> QED BY <2>1, LifeMoves
<1> QED BY <1>2, <1>3, <1>4, <1>5, <1>6

LEMMA StreamsInv ==
  ASSUME WebInv, NEW c \in Clients,
         \/ Web!SseAccept(c, "queries") \/ Web!SseAccept(c, "security")
         \/ Web!QueryLogsStream(c) \/ Web!SecurityEventsStream(c) \/ Web!SseEnd(c)
  PROVE  WebInv'
<1> USE DEF Web!services, Web!streams, Web!sockets
<1>1. CASE Web!SseAccept(c, "queries") \/ Web!SseAccept(c, "security")
  <2>1. PICK x \in {"queries", "security"} : Web!SseAccept(c, x)
    BY <1>1
  <2>2. /\ "web" \in WebServices /\ life["web"] \in {"serving", "draining"} /\ sse[c] = "none"
        /\ sse' = [sse EXCEPT ![c] = x] /\ UNCHANGED <<life, ws, ws_connections, sse_connections>>
    BY <2>1 DEF Web!SseAccept, Web!Answering
  <2>3. x \in Streams /\ x \notin {"open", "ending"}
    BY DEF Streams
  <2> QED BY <2>2, <2>3, StreamMoves
<1>2. CASE Web!QueryLogsStream(c) \/ Web!SecurityEventsStream(c)
  <2>1. sse[c] \in {"queries", "security"} /\ Web!Polled(c)
    BY <1>2 DEF Web!QueryLogsStream, Web!SecurityEventsStream
  <2>2. PICK x \in {"open", "ending"} : sse' = [sse EXCEPT ![c] = x]
    BY <2>1 DEF Web!Polled
  <2>3. sse_connections' = sse_connections + 1 /\ UNCHANGED <<life, ws, ws_connections>>
    BY <2>1 DEF Web!Polled
  <2>4. "web" \in WebServices => life["web"] \in {"serving", "draining"}
    BY <2>1 DEF WebInv, Quiet
  <2>5. x \in Streams
    BY DEF Streams
  <2> QED BY <2>1, <2>2, <2>3, <2>4, <2>5, StreamMoves
<1>3. CASE Web!SseEnd(c)
  <2>1. /\ sse' = [sse EXCEPT ![c] = "none"] /\ sse_connections' = sse_connections - Web!SseDrop(c)
        /\ UNCHANGED <<life, ws, ws_connections>>
    BY <1>3 DEF Web!SseEnd
  <2>2. sse_connections \in Nat
    BY WebConstants, FS_Subset, FS_CardinalityType DEF WebInv, Streaming
  <2>3. \/ sse_connections' = sse_connections /\ sse[c] \notin {"open", "ending"}
        \/ sse_connections' = sse_connections - 1 /\ sse[c] \in {"open", "ending"}
    BY <2>1, <2>2 DEF Web!SseDrop
  <2>4. "none" \in Streams
    BY DEF Streams
  <2> QED BY <2>1, <2>3, <2>4, StreamMoves
<1> QED BY <1>1, <1>2, <1>3

\* Before its loop, a socket is counted when it is greeted.
LEMMA SocketBegins ==
  ASSUME WebInv, NEW p \in Pages,
         Web!MetricsWs(p) \/ Web!UpgradeFails(p) \/ Web!Connected(p) \/ Web!Greeted(p)
  PROVE  WebInv'
<1>1. CASE Web!MetricsWs(p)
  <2>1. PICK x : x = Web!Before("upgrading")
    OBVIOUS
  <2>2. x \in Sockets /\ x.at = "upgrading" /\ InTime(x)
    BY <2>1, BeforeSocket
  <2>3. ws[p].at = "none" /\ Web!Stays(p, x)
    BY <1>1, <2>1 DEF Web!MetricsWs
  <2> QED BY <2>2, <2>3, Places, SocketGoes
<1>2. CASE Web!UpgradeFails(p)
  <2>1. PICK x : x = Web!Before("none")
    OBVIOUS
  <2>2. x \in Sockets /\ x.at = "none" /\ InTime(x)
    BY <2>1, BeforeSocket
  <2>3. ws[p].at = "upgrading" /\ Web!Stays(p, x)
    BY <1>2, <2>1 DEF Web!UpgradeFails
  <2> QED BY <2>2, <2>3, Places, SocketGoes
<1>3. CASE Web!Connected(p)
  <2>1. PICK x : x = Web!Before("greeting")
    OBVIOUS
  <2>2. x \in Sockets /\ x.at = "greeting" /\ InTime(x)
    BY <2>1, BeforeSocket
  <2>3. /\ ws[p].at = "upgrading" /\ ws' = [ws EXCEPT ![p] = x] /\ ws_connections' = ws_connections + 1
        /\ UNCHANGED <<life, sse, sse_connections>>
    BY <1>3, <2>1 DEF Web!Connected, Web!Goes, Web!services, Web!streams
  <2> QED BY <2>2, <2>3, Places, SocketMoves
<1>4. CASE Web!Greeted(p)
  <2>1. ws[p].at \in Web!Counted
    BY <1>4, Places DEF Web!Greeted
  <2>2. CASE Web!Close(p)
    BY <2>1, <2>2, SocketCloses
  <2>3. CASE ~Web!Close(p)
    <3>1. PICK x : x = [at |-> "waiting", silent |-> 0, due |-> 0, topics |-> {"overview"}]
      OBVIOUS
    <3>2. "waiting" \in Web!Counted /\ "waiting" \in Web!Loop
      BY Places
    <3>3. x \in Sockets /\ x.at = "waiting" /\ x.silent = 0 /\ x.due = 0
      BY <3>1, <3>2 DEF Sockets
    <3>4. InTime(x)
      BY <3>3, WebConstants DEF InTime
    <3>5. Web!Stays(p, x)
      BY <1>4, <2>3, <3>1 DEF Web!Greeted
    <3> QED BY <2>1, <3>2, <3>3, <3>4, <3>5, SocketGoes
  <2> QED BY <2>2, <2>3
<1> QED BY <1>1, <1>2, <1>3, <1>4

\* What a message, an answer or a change of topics makes of a socket in its loop.
LEMMA SocketChanges ==
  ASSUME WebInv, NEW p \in Pages, NEW w \in Web!Loop, ws[p].at \in Web!Loop,
         \/ Web!Stays(p, Web!At(p, w)) \/ Web!Stays(p, [Web!At(p, w) EXCEPT !.silent = 0])
         \/ Web!Stays(p, [ws[p] EXCEPT !.silent = 0])
         \/ \E u \in SUBSET (Topics \union {"overview"}) : Web!Stays(p, [ws[p] EXCEPT !.topics = u])
  PROVE  WebInv'
<1>1. /\ ws[p] \in Sockets /\ ws[p].silent + ws[p].due <= timeout_secs + heartbeat_secs
      /\ w \in Web!Counted
  BY Places DEF WebInv, InTime
<1>2. ws[p].silent \in Nat /\ ws[p].due \in Int /\ 0 + ws[p].due <= timeout_secs + heartbeat_secs
  BY <1>1, WebConstants DEF Sockets
<1>3. CASE Web!Stays(p, Web!At(p, w))
  <2>1. PICK x : x = [ws[p] EXCEPT !.at = w]
    OBVIOUS
  <2>2. x \in Sockets /\ x.at = w /\ x.silent = ws[p].silent /\ x.due = ws[p].due
    BY <1>1, <2>1 DEF Sockets
  <2>3. Web!Stays(p, x)
    BY <1>3, <2>1 DEF Web!At
  <2> QED BY <1>1, <2>2, <2>3, LoopMoves
<1>4. CASE Web!Stays(p, [Web!At(p, w) EXCEPT !.silent = 0])
  <2>1. PICK x : x = [ws[p] EXCEPT !.at = w, !.silent = 0]
    OBVIOUS
  <2>2. x \in Sockets /\ x.at = w /\ x.silent = 0 /\ x.due = ws[p].due
    BY <1>1, <2>1 DEF Sockets
  <2>3. PICK y : y = [ws[p] EXCEPT !.at = w]
    OBVIOUS
  <2>4. [y EXCEPT !.silent = 0] = x
    BY <1>1, <2>1, <2>3 DEF Sockets
  <2>5. Web!Stays(p, x)
    BY <1>4, <2>3, <2>4 DEF Web!At
  <2> QED BY <1>2, <2>2, <2>5, LoopMoves
<1>5. CASE Web!Stays(p, [ws[p] EXCEPT !.silent = 0])
  <2>1. PICK x : x = [ws[p] EXCEPT !.silent = 0]
    OBVIOUS
  <2>2. x \in Sockets /\ x.at = ws[p].at /\ x.silent = 0 /\ x.due = ws[p].due
    BY <1>1, <2>1 DEF Sockets
  <2> QED BY <1>2, <1>5, <2>1, <2>2, LoopMoves
<1>6. ASSUME NEW u \in SUBSET (Topics \union {"overview"}), Web!Stays(p, [ws[p] EXCEPT !.topics = u]) PROVE WebInv'
  <2>1. PICK x : x = [ws[p] EXCEPT !.topics = u]
    OBVIOUS
  <2>2. x \in Sockets /\ x.at = ws[p].at /\ x.silent = ws[p].silent /\ x.due = ws[p].due
    BY <1>1, <2>1 DEF Sockets
  <2> QED BY <1>1, <1>6, <2>1, <2>2, LoopMoves
<1> QED BY <1>3, <1>4, <1>5, <1>6

\* The heartbeat puts off the next one only when the client was not silent for too long.
LEMMA HeartbeatInv == ASSUME WebInv, NEW p \in Pages, Web!WsHeartbeat(p) PROVE WebInv'
<1>1. ws[p].at = "waiting" /\ ws[p].due <= 0 /\ ws[p] \in Sockets
  BY DEF Web!WsHeartbeat, WebInv
<1>2. CASE ws[p].silent > timeout_secs
  BY <1>1, <1>2, Places, SocketCloses DEF Web!WsHeartbeat
<1>3. CASE ~(ws[p].silent > timeout_secs)
  <2>1. PICK d : d = ws[p].due + heartbeat_secs
    OBVIOUS
  <2>2. d \in Int /\ ws[p].silent \in Nat /\ ws[p].silent + d <= timeout_secs + heartbeat_secs
    BY <1>1, <1>3, <2>1, WebConstants DEF Sockets
  <2>3. PICK y : y = [ws[p] EXCEPT !.at = "pushing"]
    OBVIOUS
  <2>4. "pushing" \in Web!Loop /\ "pushing" \in Web!Counted
    BY Places
  <2>5. y \in Sockets /\ y.at = "pushing" /\ y.silent = ws[p].silent /\ y.due = ws[p].due
    BY <1>1, <2>3, <2>4 DEF Sockets
  <2>6. PICK x : x = [y EXCEPT !.due = d]
    OBVIOUS
  <2>7. x \in Sockets /\ x.at = "pushing" /\ x.silent = ws[p].silent /\ x.due = d
    BY <2>2, <2>5, <2>6 DEF Sockets
  <2>8. Web!Stays(p, [y EXCEPT !.due = y.due + heartbeat_secs])
    BY <1>3, <2>3 DEF Web!WsHeartbeat, Web!At
  <2>9. Web!Stays(p, x)
    BY <2>1, <2>5, <2>6, <2>8
  <2> QED BY <1>1, <2>2, <2>4, <2>7, <2>9, Places, LoopMoves
<1> QED BY <1>2, <1>3

LEMMA SocketsInv ==
  ASSUME WebInv, NEW p \in Pages,
         \/ Web!WsTopics(p) \/ Web!WsText(p) \/ Web!Replied(p) \/ Web!WsPing(p) \/ Web!Ponged(p) \/ Web!WsPong(p)
         \/ Web!WsGone(p) \/ Web!WsUpdate(p) \/ Web!Pushed(p)
  PROVE  WebInv'
<1>1. CASE Web!WsTopics(p)
  <2>1. ws[p] \in Sockets /\ ws[p].at \in Web!Loop
    BY <1>1, Places DEF WebInv, Web!WsTopics
  <2>2. PICK t \in SUBSET Topics : \/ Web!Stays(p, [ws[p] EXCEPT !.topics = ws[p].topics \union t])
                                  \/ Web!Stays(p, [ws[p] EXCEPT !.topics = ws[p].topics \ t])
    BY <1>1 DEF Web!WsTopics
  <2>3. \A u \in {ws[p].topics \union t, ws[p].topics \ t} : u \in SUBSET (Topics \union {"overview"})
    BY <2>1 DEF Sockets
  <2>4. PICK u \in SUBSET (Topics \union {"overview"}) : Web!Stays(p, [ws[p] EXCEPT !.topics = u])
    BY <2>2, <2>3
  <2> QED BY <2>1, <2>4, SocketChanges
<1>2. CASE Web!WsText(p)
  <2>1. ws[p].at \in Web!Loop /\ "replying" \in Web!Loop
    BY <1>2, Places DEF Web!WsText
  <2> QED BY <1>2, <2>1, SocketChanges DEF Web!WsText
<1>3. CASE Web!Replied(p)
  <2>1. ws[p].at \in Web!Loop /\ "waiting" \in Web!Loop
    BY <1>3, Places DEF Web!Replied
  <2> QED BY <1>3, <2>1, SocketChanges DEF Web!Replied
<1>4. CASE Web!WsPing(p)
  <2>1. ws[p].at \in Web!Loop /\ "ponging" \in Web!Loop
    BY <1>4, Places DEF Web!WsPing
  <2> QED BY <1>4, <2>1, SocketChanges DEF Web!WsPing
<1>5. CASE Web!Ponged(p)
  <2>1. ws[p].at \in Web!Loop /\ ws[p].at \in Web!Counted /\ "waiting" \in Web!Loop
    BY <1>5, Places DEF Web!Ponged
  <2> QED BY <1>5, <2>1, SocketChanges, SocketCloses DEF Web!Ponged
<1>6. CASE Web!WsPong(p)
  <2>1. ws[p].at \in Web!Loop
    BY <1>6, Places DEF Web!WsPong
  <2> QED BY <1>6, <2>1, SocketChanges DEF Web!WsPong
<1>7. CASE Web!WsGone(p)
  BY <1>7, Places, SocketCloses DEF Web!WsGone
<1>8. CASE Web!WsUpdate(p)
  <2>1. ws[p].at \in Web!Loop /\ "pushing" \in Web!Loop
    BY <1>8, Places DEF Web!WsUpdate
  <2> QED BY <1>8, <2>1, SocketChanges DEF Web!WsUpdate
<1>9. CASE Web!Pushed(p)
  <2>1. ws[p].at \in Web!Loop /\ ws[p].at \in Web!Counted /\ "waiting" \in Web!Loop
    BY <1>9, Places DEF Web!Pushed
  <2> QED BY <1>9, <2>1, SocketChanges, SocketCloses DEF Web!Pushed
<1> QED BY <1>1, <1>2, <1>3, <1>4, <1>5, <1>6, <1>7, <1>8, <1>9

LEMMA WebNextInv == ASSUME WebInv, [Web!Next]_webVars PROVE WebInv'
<1>1. CASE Web!Next
  <2>1. ASSUME NEW p \in Pages,
               \/ Web!MetricsWs(p) \/ Web!UpgradeFails(p) \/ Web!Connected(p) \/ Web!Greeted(p) \/ Web!WsTopics(p)
               \/ Web!WsText(p) \/ Web!Replied(p) \/ Web!WsPing(p) \/ Web!Ponged(p) \/ Web!WsPong(p) \/ Web!WsGone(p)
               \/ Web!WsUpdate(p) \/ Web!WsHeartbeat(p) \/ Web!Pushed(p)
        PROVE  WebInv'
    <3>1. CASE Web!MetricsWs(p) \/ Web!UpgradeFails(p) \/ Web!Connected(p) \/ Web!Greeted(p)
      BY <3>1, SocketBegins
    <3>2. CASE Web!WsHeartbeat(p)
      BY <3>2, HeartbeatInv
    <3>3. CASE ~(\/ Web!MetricsWs(p) \/ Web!UpgradeFails(p) \/ Web!Connected(p) \/ Web!Greeted(p) \/ Web!WsHeartbeat(p))
      BY <2>1, <3>3, SocketsInv
    <3> QED BY <3>1, <3>2, <3>3
  <2> QED BY <1>1, <2>1, ServiceTasksInv, StreamsInv, TickInv DEF Web!Next
<1>2. CASE UNCHANGED webVars
  BY <1>2 DEF webVars, WebInv, Quiet, InTime, Streaming, OpenPages
<1> QED BY <1>1, <1>2

\* The number of elements of a set is the same in every module.
LEMMA SameCardinality == \A S : Web!Cardinality(S) = Cardinality(S)
BY DEF Cardinality, Web!Cardinality, IsFiniteSet, Web!IsFiniteSet

\* What the invariant says of the counters.
LEMMA WebInvCounts == ASSUME WebInv PROVE Web!ConnectionsCounted
<1>1. /\ sse_connections = Cardinality({c \in Clients : sse[c] \in {"open", "ending"}})
      /\ ws_connections = Cardinality({p \in Pages : ws[p].at \in Web!Counted})
  BY DEF WebInv, Streaming, OpenPages
<1>2. ASSUME "web" \in WebServices, life["web"] = "ended" PROVE sse_connections = 0
  <2>1. \A c \in Clients : sse[c] = "none"
    BY <1>2 DEF WebInv, Quiet
  <2>2. {c \in Clients : sse[c] \in {"open", "ending"}} = {}
    BY <2>1
  <2> QED BY <1>1, <2>2, FS_EmptySet
<1>3. ASSUME NEW p \in Pages, ws[p].at \in Web!Loop
      PROVE  ws[p].silent <= timeout_secs + heartbeat_secs + Web!Late(p)
  <2>1. ws[p].silent \in Nat /\ ws[p].due \in Int
    BY DEF WebInv, Sockets
  <2>2. ws[p].silent + ws[p].due <= timeout_secs + heartbeat_secs
    BY <1>3 DEF WebInv, InTime
  <2> QED BY <2>1, <2>2, WebConstants DEF Web!Late
<1>4. \A p \in Pages : ws[p].at \in Web!Loop => ws[p].silent <= timeout_secs + heartbeat_secs + Web!Late(p)
  BY <1>3
<1> QED BY <1>1, <1>2, <1>4, SameCardinality, Zenon DEF Web!ConnectionsCounted

-----------------------------------------------------------------------------
(* Calls *)

\* The call that was chosen is a call of its kind, and its answer is what the code
\* computes.
Answers(of, cases, result) == case.of = of => case \in cases /\ (answer = Pending \/ answer = result)
CallsInv ==
  /\ Answers("exchange", ExchangeCases, Exchange)
  /\ Answers("launch", LaunchCases, Launch)
  /\ Answers("client", ClientCases, Client)
  /\ Answers("cache", CacheCases, A!CacheInit(case.args))
  /\ Answers("upstream", UpstreamCases, Upstream)
  /\ Answers("key", KeyCases, Keyed)
  /\ Answers("admin", AdminCases, Administered)
  /\ Answers("shown", UpstreamShownCases, Shown)

LEMMA CallsInitInv == ASSUME ServicesInit PROVE CallsInv
<1>1. answer = Pending
  BY DEF ServicesInit, CallsInit, CallsOff
<1>2. \/ case = [of |-> Off]
      \/ case \in ExchangeCases \/ case \in LaunchCases \/ case \in ClientCases
      \/ case \in CacheCases \/ case \in UpstreamCases \/ case \in KeyCases
      \/ case \in AdminCases \/ case \in UpstreamShownCases
  BY DEF ServicesInit, CallsInit, CallsOff
<1>3. /\ case \in ExchangeCases => case.of = "exchange"
      /\ case \in LaunchCases => case.of = "launch"
      /\ case \in ClientCases => case.of = "client"
      /\ case \in CacheCases => case.of = "cache"
      /\ case \in UpstreamCases => case.of = "upstream"
      /\ case \in KeyCases => case.of = "key"
      /\ case \in AdminCases => case.of = "admin"
      /\ case \in UpstreamShownCases => case.of = "shown"
  <2>1. case \in ExchangeCases => case.of = "exchange"
    BY DEF ExchangeCases
  <2>2. case \in LaunchCases => case.of = "launch"
    BY DEF LaunchCases
  <2>3. case \in ClientCases => case.of = "client"
    BY DEF ClientCases
  <2>4. case \in CacheCases => case.of = "cache"
    BY DEF CacheCases
  <2>5. case \in UpstreamCases => case.of = "upstream"
    BY DEF UpstreamCases
  <2>6. case \in KeyCases => case.of = "key"
    BY DEF KeyCases
  <2>7. case \in AdminCases => case.of = "admin"
    BY DEF AdminCases
  <2>8. case \in UpstreamShownCases => case.of = "shown"
    BY DEF UpstreamShownCases
  <2> QED BY <2>1, <2>2, <2>3, <2>4, <2>5, <2>6, <2>7, <2>8
<1>4. case = [of |-> Off] => case.of = "off"
  BY DEF Off
<1> QED BY <1>1, <1>2, <1>3, <1>4 DEF CallsInv, Answers

\* What a call computes depends on the call alone.
LEMMA SameCall ==
  ASSUME UNCHANGED case
  PROVE  /\ Exchange' = Exchange /\ Launch' = Launch /\ Client' = Client /\ A!CacheInit(case.args)' = A!CacheInit(case.args)
         /\ Upstream' = Upstream /\ Keyed' = Keyed /\ Administered' = Administered /\ Shown' = Shown
<1>1. Exchange' = Exchange
  BY DEF Exchange
<1>2. Launch' = Launch
  BY DEF Launch
<1>3. Client' = Client
  BY DEF Client
<1>4. A!CacheInit(case.args)' = A!CacheInit(case.args)
  OBVIOUS
<1>5. Upstream' = Upstream
  BY DEF Upstream
<1>6. Keyed' = Keyed
  BY DEF Keyed
<1>7. Administered' = Administered
  BY DEF Administered
<1>8. Shown' = Shown
  BY DEF Shown
<1> QED BY <1>1, <1>2, <1>3, <1>4, <1>5, <1>6, <1>7, <1>8

LEMMA CallsNextInv == ASSUME CallsInv, [ServicesNext]_servicesVars PROVE CallsInv'
<1>1. \/ UNCHANGED callVars
      \/ \E of, result : /\ case.of = of /\ answer' = result /\ UNCHANGED case
                         /\ \/ of = "exchange" /\ result = Exchange
                            \/ of = "launch" /\ result = Launch
                            \/ of = "client" /\ result = Client
                            \/ of = "cache" /\ result = A!CacheInit(case.args)
                            \/ of = "upstream" /\ result = Upstream
                            \/ of = "key" /\ result = Keyed
                            \/ of = "admin" /\ result = Administered
                            \/ of = "shown" /\ result = Shown
  <2>1. CASE UNCHANGED servicesVars
    BY <2>1 DEF servicesVars
  <2>2. CASE CallsMove
    BY <2>2 DEF CallsMove, CallsNext, Serves, Configures, Call
  <2>3. CASE ServicesNext /\ ~CallsMove
    BY <2>3 DEF ServicesNext, Only, WatchMoves, DownloadMoves, ReverseMoves, ValidatorMoves, WebMoves
  <2> QED BY <2>1, <2>2, <2>3
<1>2. UNCHANGED case
  BY <1>1 DEF callVars
<1>3. CASE UNCHANGED callVars
  BY <1>2, <1>3, SameCall DEF callVars, CallsInv, Answers
<1>4. CASE ~UNCHANGED callVars
  BY <1>1, <1>2, <1>4, SameCall DEF CallsInv, Answers
<1> QED BY <1>3, <1>4

LEMMA CallsAnswered == ServicesSpec => []CallsInv
<1>1. ServicesInit => CallsInv
  BY CallsInitInv
<1>2. CallsInv /\ [ServicesNext]_servicesVars => CallsInv'
  BY CallsNextInv
<1> QED BY <1>1, <1>2, PTL DEF ServicesSpec

-----------------------------------------------------------------------------
(* The admin API *)

\* A part of a whole is at most a hundred percent of it.
LEMMA Percent ==
  ASSUME NEW h \in Nat, NEW t \in Nat, t > 0, h <= t
  PROVE  (h * 100) \div t <= 100 /\ (h * 100) \div t \in Nat
<1>1. PICK n : n = h * 100
  OBVIOUS
<1>2. n \in Nat /\ n <= 100 * t
  BY <1>1
<1>3. PICK q : q = n \div t
  OBVIOUS
<1>4. q \in Int /\ t * q <= n /\ n < t * q + t
  BY <1>2, <1>3
<1>5. q <= 100
  BY <1>2, <1>4
<1>6. q >= 0
  BY <1>2, <1>4
<1> QED BY <1>1, <1>3, <1>4, <1>5, <1>6

\* The requests about the cache.
LEMMA AdminAnswers ==
  ASSUME CallsInv, case.of = "admin", answer # Pending
  PROVE  /\ (answer.admin.status = "ok") <=> (answer.admin.cache.entries = 0)
         /\ (answer.web.status = "ok") <=> (answer.web.cache.entries = 0)
         /\ case.registry => answer.board.size = answer.stats.size /\ answer.board.hit_rate = answer.stats.hit_rate
         /\ answer.stats.hit_rate <= 100
<1>1. case \in AdminCases /\ answer = Administered
  BY DEF CallsInv, Answers
<1>2. PICK n \in {"cache", "my_cache"}, t \in {"cache", "forward"}, e \in CacheSizes, x \in {"clear", "flush"},
           g \in BOOLEAN, h \in Counts, m \in Counts :
        case = [of |-> "admin", cache |-> [name |-> n, type |-> t, entries |-> e], action |-> x, registry |-> g,
                hits |-> h, misses |-> m]
  BY <1>1 DEF AdminCases
<1>3. PICK c : c = [name |-> n, type |-> t, entries |-> e]
  OBVIOUS
<1>4. case.cache = c /\ case.action = x /\ case.registry = g /\ case.hits = h /\ case.misses = m
  BY <1>2, <1>3
<1>5. /\ answer.admin = Web!CacheControl(c, x) /\ answer.web = Web!WebClearCache(c, g)
      /\ answer.stats = Web!CacheStats(c, h, m) /\ answer.board = Web!DashboardCacheStats(c, g, h, m)
  BY <1>1, <1>4 DEF Administered
<1>6. /\ h \in Nat /\ m \in Nat /\ e \in Nat /\ e # 0
      /\ c.name = n /\ c.type = t /\ c.entries = e /\ DOMAIN c = {"name", "type", "entries"}
  BY <1>3, SizesAssumption
<1>7. PICK z : z = Web!CacheStatus(c)
  OBVIOUS
<1>8. PICK d : d = Web!Cleared(c)
  OBVIOUS
<1>9. (z = "ok" /\ d.entries = 0) \/ (z \in {"not found", "wrong type"} /\ d = c)
  BY <1>6, <1>7, <1>8 DEF Web!Cleared, Web!CacheStatus
<1>10. /\ answer.admin.status = IF x = "clear" \/ z # "ok" THEN z ELSE "bad request"
       /\ answer.admin.cache = IF x = "clear" THEN d ELSE c
  <2>1. answer.admin = [status |-> IF x = "clear" \/ z # "ok" THEN z ELSE "bad request",
                        cache |-> IF x = "clear" THEN d ELSE c]
    BY <1>5, <1>7, <1>8, Zenon DEF Web!CacheControl
  <2>2. PICK u, v : u = (IF x = "clear" \/ z # "ok" THEN z ELSE "bad request") /\ v = (IF x = "clear" THEN d ELSE c)
    OBVIOUS
  <2>3. answer.admin = [status |-> u, cache |-> v]
    BY <2>1, <2>2, Zenon
  <2>4. answer.admin.status = u /\ answer.admin.cache = v
    BY ONLY <2>3
  <2> QED BY <2>2, <2>4, Zenon
<1>11. (answer.admin.status = "ok") <=> (answer.admin.cache.entries = 0)
  BY <1>6, <1>9, <1>10
<1>12. /\ answer.web.status = IF ~g THEN "unavailable" ELSE IF z = "wrong type" THEN "server error" ELSE z
       /\ answer.web.cache = IF g THEN d ELSE c
  <2>1. answer.web = [status |-> IF ~g THEN "unavailable" ELSE IF z = "wrong type" THEN "server error" ELSE z,
                      cache |-> IF g THEN d ELSE c]
    BY <1>5, <1>7, <1>8, Zenon DEF Web!WebClearCache
  <2>2. PICK u, v : /\ u = (IF ~g THEN "unavailable" ELSE IF z = "wrong type" THEN "server error" ELSE z)
                    /\ v = (IF g THEN d ELSE c)
    OBVIOUS
  <2>3. answer.web = [status |-> u, cache |-> v]
    BY <2>1, <2>2, Zenon
  <2>4. answer.web.status = u /\ answer.web.cache = v
    BY ONLY <2>3
  <2> QED BY <2>2, <2>4, Zenon
<1>13. (answer.web.status = "ok") <=> (answer.web.cache.entries = 0)
  BY <1>6, <1>9, <1>12
<1>14. PICK y : y = Web!HitRate(h, m)
  OBVIOUS
<1>15. y <= 100
  <2>1. CASE h + m > 0
    <3>1. PICK s : s = h + m
      OBVIOUS
    <3>2. s \in Nat /\ s > 0 /\ h <= s
      BY <1>6, <2>1, <3>1
    <3>3. y = (h * 100) \div s
      BY <1>14, <2>1, <3>1 DEF Web!HitRate
    <3> QED BY <1>6, <3>2, <3>3, Percent
  <2>2. CASE ~(h + m > 0)
    BY <1>14, <2>2 DEF Web!HitRate
  <2> QED BY <2>1, <2>2
<1>16. answer.stats = IF z = "ok" THEN [status |-> "ok", size |-> c.entries, hit_rate |-> y]
                      ELSE [status |-> z, size |-> 0, hit_rate |-> 0]
  BY <1>5, <1>7, <1>14 DEF Web!CacheStats
<1>17. answer.stats.hit_rate <= 100
  BY <1>15, <1>16
<1>18. ASSUME g PROVE answer.board.size = answer.stats.size /\ answer.board.hit_rate = answer.stats.hit_rate
  <2>1. answer.board = IF g /\ answer.stats.status = "ok" THEN answer.stats ELSE [status |-> "ok", size |-> 0, hit_rate |-> 0]
    BY <1>5 DEF Web!DashboardCacheStats
  <2>2. CASE answer.stats.status = "ok"
    BY <1>18, <2>1, <2>2, Zenon
  <2>3. CASE answer.stats.status # "ok"
    <3>1. answer.board = [status |-> "ok", size |-> 0, hit_rate |-> 0]
      BY <2>1, <2>3, Zenon
    <3>2. z # "ok"
      BY ONLY <1>16, <2>3
    <3>3. answer.stats = [status |-> z, size |-> 0, hit_rate |-> 0]
      BY <1>16, <3>2, Zenon
    <3> QED BY ONLY <3>1, <3>3
  <2> QED BY <2>2, <2>3
<1> QED BY <1>4, <1>11, <1>13, <1>17, <1>18

\* What the dashboard lists of two upstreams.
LEMMA ShownAnswers ==
  ASSUME CallsInv, case.of = "shown", answer # Pending
  PROVE  /\ Cardinality(answer.both) = 2 /\ Cardinality(answer.one) = 1 /\ answer.one \subseteq answer.both
         /\ \E x \in answer.both : x.key = 1 /\ (x.status = "unknown" <=> case.new.queries = 0)
<1>1. case \in UpstreamShownCases /\ answer = Shown
  BY DEF CallsInv, Answers
<1>2. PICK h \in Healths, g \in Healths : case = [of |-> "shown", old |-> h, new |-> g]
  BY <1>1 DEF UpstreamShownCases
<1>3. case.old = h /\ case.new = g
  BY <1>2
<1>4. PICK none : none = [k \in {} |-> h]
  OBVIOUS
<1>5. PICK first : first = Web!Register(none, 1, h)
  OBVIOUS
<1>6. PICK second : second = Web!Register(first, 2, h)
  OBVIOUS
<1>7. PICK two : two = Web!Register(second, 1, g)
  OBVIOUS
<1>8. DOMAIN none = {}
  BY <1>4
<1>9. DOMAIN first = {1} /\ first[1] = h
  BY <1>5, <1>8 DEF Web!Register
<1>10. DOMAIN second = {1, 2} /\ second[2] = h
  BY <1>6, <1>9 DEF Web!Register
<1>11. DOMAIN two = {1, 2} /\ two[1] = g /\ two[2] = h
  BY <1>7, <1>10 DEF Web!Register
<1>12. PICK one : one = Web!Unregister(two, 1)
  OBVIOUS
<1>13. DOMAIN one = {2} /\ one[2] = h
  BY <1>11, <1>12 DEF Web!Unregister
<1>14. answer = [both |-> Web!GetAll(two), one |-> Web!GetAll(one)]
  BY <1>1, <1>3, <1>4, <1>5, <1>6, <1>7, <1>12 DEF Shown
<1>15. PICK a : a = [key |-> 1, status |-> Web!UpstreamStatus(g.queries, g.successes)]
  OBVIOUS
<1>16. PICK b : b = [key |-> 2, status |-> Web!UpstreamStatus(h.queries, h.successes)]
  OBVIOUS
<1>17. a.key = 1 /\ b.key = 2 /\ a.status = Web!UpstreamStatus(g.queries, g.successes)
  BY <1>15, <1>16
<1>18. answer.both = {a, b}
  <2>1. answer.both = {[key |-> k, status |-> Web!UpstreamStatus(two[k].queries, two[k].successes)] : k \in {1, 2}}
    BY <1>11, <1>14 DEF Web!GetAll
  <2> QED BY <1>11, <1>15, <1>16, <2>1
<1>19. answer.one = {b}
  <2>1. answer.one = {[key |-> k, status |-> Web!UpstreamStatus(one[k].queries, one[k].successes)] : k \in {2}}
    BY <1>13, <1>14 DEF Web!GetAll
  <2> QED BY <1>13, <1>16, <2>1
<1>20. a # b
  BY <1>17
<1>21. Cardinality({b}) = 1 /\ IsFiniteSet({b})
  BY FS_Singleton
<1>22. Cardinality({a, b}) = 2
  <2>1. {a, b} = {b} \union {a} /\ a \notin {b}
    BY <1>20
  <2>2. Cardinality({b} \union {a}) = Cardinality({b}) + 1
    BY <1>21, <2>1, FS_AddElement
  <2> QED BY <1>21, <2>1, <2>2
<1>23. g.queries \in Nat
  BY SizesAssumption
<1>24. a.status = "unknown" <=> g.queries = 0
  BY <1>17 DEF Web!UpstreamStatus
<1> QED BY <1>3, <1>17, <1>18, <1>19, <1>21, <1>22, <1>24

\* ConnectionsAreCounted: however connections open, fall silent, stop reading or end,
\* before and after the end of the web service, the counters of SSE and WebSocket
\* connections are the numbers of those that are open, and a silent WebSocket outlasts
\* its time only until the next heartbeat and by what that is late; a request about the
\* cache clears it just when it reports success, and the dashboard and the admin API
\* show the same; the dashboard lists every upstream once (web/state.rs,
\* websocket/handler.rs, admin.rs, upstream_registry.rs), for any clients, pages,
\* timeouts and counts.
THEOREM ConnectionsAreCounted == ServicesSpec => []ConnectionsCounted
<1> DEFINE I == part = "web" => WebInv
<1>1. ServicesInit => I
  BY WebInitInv DEF ServicesInit
<1>2. I /\ [ServicesNext]_servicesVars => I'
  <2> SUFFICES ASSUME I, [ServicesNext]_servicesVars, part' = "web" PROVE WebInv'
    OBVIOUS
  <2>1. part = "web" /\ [Web!Next]_webVars
    BY DEF ServicesNext, servicesVars, Only, WatchMoves, DownloadMoves, ReverseMoves, ValidatorMoves, WebMoves, CallsMove
  <2> QED BY <2>1, WebNextInv
<1>3. I /\ CallsInv => ConnectionsCounted
  BY WebInvCounts, AdminAnswers, ShownAnswers DEF ConnectionsCounted
<1> HIDE DEF I
<1> QED BY <1>1, <1>2, <1>3, CallsAnswered, PTL DEF ServicesSpec

-----------------------------------------------------------------------------
(* Exchanges *)

AskedMessages == [parses : BOOLEAN, id : Nat, opt : Nat, len : Nat]
RepliedMessages == [id : Nat, questions : Nat, records : Nat, tc : BOOLEAN]

\* d is the message m as it is written: whole if it fits into a frame.
Written(m, d) ==
  /\ d.id = m.id /\ d.len \in Nat /\ d.len <= 65535
  /\ 12 + m.questions + m.records <= 65535 =>
       d.len = 12 + m.questions + m.records /\ d.records = m.records /\ d.tc = m.tc
  /\ 12 + m.questions + m.records > 65535 => d.len = 12 + m.questions /\ d.records = 0 /\ d.tc = TRUE

LEMMA SerializeProperties ==
  ASSUME NEW m \in RepliedMessages, E!Encodable(m)
  PROVE  Written(m, E!Serialize(m))
<1>1. m.questions \in Nat /\ m.records \in Nat
  BY DEF RepliedMessages
<1>2. PICK a, b : a = 12 + m.questions + m.records /\ b = 12 + m.questions
  OBVIOUS
<1>3. a \in Nat /\ b \in Nat /\ b <= 65535
  BY <1>1, <1>2 DEF E!Encodable, E!HeaderSize, E!MaxFrame
<1>d. PICK d : d = E!Serialize(m)
  OBVIOUS
<1>4. CASE a <= 65535
  <2>1. d = [id |-> m.id, len |-> a, tc |-> m.tc, records |-> m.records]
    BY <1>2, <1>4, <1>d DEF E!Serialize, E!HeaderSize, E!MaxFrame
  <2>2. d.id = m.id /\ d.len = a /\ d.tc = m.tc /\ d.records = m.records
    BY ONLY <2>1
  <2>3. Written(m, d)
    BY <1>2, <1>3, <1>4, <2>2 DEF Written
  <2> QED BY <1>d, <2>3
<1>5. CASE ~(a <= 65535)
  <2>1. d = [id |-> m.id, len |-> b, tc |-> TRUE, records |-> 0]
    BY <1>2, <1>5, <1>d DEF E!Serialize, E!HeaderSize, E!MaxFrame
  <2>2. d.id = m.id /\ d.len = b /\ d.tc = TRUE /\ d.records = 0
    BY ONLY <2>1
  <2>3. 12 + m.questions + m.records > 65535
    BY <1>2, <1>3, <1>5
  <2>4. Written(m, d)
    BY <1>2, <1>3, <2>2, <2>3 DEF Written
  <2> QED BY <1>d, <2>4
<1> QED BY <1>4, <1>5

LEMMA RequestIdProperties ==
  ASSUME NEW q \in AskedMessages, NEW r \in RepliedMessages, NEW w, w = E!WithRequestId(q, r)
  PROVE  /\ w \in RepliedMessages /\ w.id = q.id /\ w.questions = r.questions /\ w.records = r.records /\ w.tc = r.tc
         /\ E!Encodable(r) => E!Encodable(w)
BY DEF AskedMessages, RepliedMessages, E!WithRequestId, E!Encodable

\* A reply over UDP.
LEMMA UdpSound ==
  ASSUME NEW q \in AskedMessages, q.opt <= 65535, NEW r \in RepliedMessages, NEW h, h.reply = r
  PROVE  E!ReplySound("udp", q, h, E!UdpExchange(q, h))
<1>1. PICK x : x = E!UdpExchange(q, h)
  OBVIOUS
<1>2. CASE ~q.parses \/ ~h.ok \/ ~E!Encodable(r)
  <2>1. x = [sent |-> FALSE]
    BY <1>1, <1>2 DEF E!UdpExchange, E!Silence
  <2>2. "data" \notin DOMAIN x /\ "prefix" \notin DOMAIN x
    BY ONLY <2>1
  <2> QED BY <1>1, <2>2 DEF E!ReplySound
<1>3. CASE q.parses /\ h.ok /\ E!Encodable(r)
  <2>1. PICK w : w = E!WithRequestId(q, r)
    OBVIOUS
  <2>2. PICK l : l = E!ClientUdpLimit(q)
    OBVIOUS
  <2>3. PICK d : d = E!FitUdpResponse(w, l)
    OBVIOUS
  <2>4. x = [sent |-> TRUE, data |-> d]
    BY <1>1, <1>3, <2>1, <2>2, <2>3 DEF E!UdpExchange, E!Sent
  <2>5. x.data = d /\ "prefix" \notin DOMAIN x
    BY ONLY <2>4
  <2>6. /\ w \in RepliedMessages /\ w.id = q.id /\ w.questions = r.questions /\ w.records = r.records /\ w.tc = r.tc
         /\ E!Encodable(w)
    BY <1>3, <2>1, RequestIdProperties
  <2>7. l \in Nat /\ 512 <= l /\ l <= 65535 /\ l = IF q.opt > 512 THEN q.opt ELSE 512
    BY <2>2 DEF AskedMessages, E!ClientUdpLimit, E!ServerConfig0
  <2>8. PICK n : n = 12 + r.questions + r.records
    OBVIOUS
  <2>9. n \in Nat /\ r.questions \in Nat /\ r.records \in Nat /\ 12 + r.questions <= 65535
    BY <1>3, <2>8 DEF RepliedMessages, E!Encodable, E!HeaderSize, E!MaxFrame
  <2>10. PICK s : s = E!Serialize(w)
    OBVIOUS
  <2>11. /\ s.id = q.id /\ s.len \in Nat
         /\ n <= 65535 => s.len = n /\ s.records = r.records
         /\ n > 65535 => s.len = 12 + r.questions /\ s.records = 0 /\ s.tc = TRUE
    <3>1. Written(w, s)
      BY <2>6, <2>10, SerializeProperties
    <3> QED BY ONLY <2>6, <2>8, <3>1 DEF Written
  <2>12. /\ d.id = q.id
         /\ n <= l => d.records = r.records
         /\ d.records # r.records => d.tc
         /\ d.len > l => 12 + r.questions > l /\ d.records = 0 /\ d.tc
    <3>1. CASE s.len <= l
      <4>1. d = s
        BY <2>3, <2>10, <3>1 DEF E!FitUdpResponse
      <4>2. CASE n <= 65535
        <5>1. d.id = q.id /\ d.records = r.records
          BY <2>11, <4>1, <4>2
        <5>2. d.len \in Nat /\ ~(d.len > l)
          BY <2>7, <2>11, <3>1, <4>1
        <5> QED BY ONLY <5>1, <5>2
      <4>3. CASE n > 65535
        <5>1. d.id = q.id /\ d.tc
          BY <2>11, <4>1, <4>3
        <5>2. ~(n <= l)
          BY <2>7, <2>9, <4>3
        <5>3. d.len \in Nat /\ ~(d.len > l)
          BY <2>7, <2>11, <3>1, <4>1
        <5> QED BY ONLY <5>1, <5>2, <5>3
      <4> QED BY <2>9, <4>2, <4>3
    <3>2. CASE ~(s.len <= l)
      <4>1. PICK v : v = [w EXCEPT !.tc = TRUE, !.records = 0]
        OBVIOUS
      <4>2. v \in RepliedMessages /\ v.id = q.id /\ v.questions = r.questions /\ v.records = 0 /\ v.tc = TRUE
        BY ONLY <2>6, <4>1 DEF RepliedMessages
      <4>3. d = E!Serialize(v)
        BY <2>3, <2>10, <3>2, <4>1 DEF E!FitUdpResponse
      <4>4. d.id = v.id /\ d.len = 12 + v.questions + v.records /\ d.records = v.records /\ d.tc = v.tc
        <5>1. 12 + v.questions + v.records <= 65535
          BY <2>9, <4>2
        <5>2. E!Encodable(v)
          BY <2>9, <4>2 DEF E!Encodable, E!HeaderSize, E!MaxFrame
        <5>3. Written(v, d)
          BY <4>2, <4>3, <5>2, SerializeProperties
        <5> QED BY ONLY <5>1, <5>3 DEF Written
      <4>5. d.len = 12 + r.questions
        BY <2>9, <4>2, <4>4
      <4>6. ~(n <= l)
        <5>1. CASE n <= 65535
          BY <2>11, <3>2, <5>1
        <5>2. CASE n > 65535
          BY <2>7, <2>9, <2>11, <3>2, <5>2
        <5> QED BY <2>9, <5>1, <5>2
      <4>7. d.id = q.id /\ d.records = 0 /\ d.tc
        BY <4>2, <4>4
      <4> QED BY <4>5, <4>6, <4>7
    <3> QED BY <3>1, <3>2
  <2>13. PICK least : least = E!HeaderSize + r.questions
    OBVIOUS
  <2>14. least = 12 + r.questions /\ least + r.records = n
    BY <2>8, <2>9, <2>13 DEF E!HeaderSize
  <2>15. /\ least + r.records <= l => d.records = r.records
         /\ d.records # r.records => d.tc
         /\ d.len > l => least > l /\ d.records = 0 /\ d.tc
    BY ONLY <2>12, <2>14
  <2>16. h.reply = r /\ x.data.id = q.id
    BY <2>5, <2>12
  <2>17. LET offered == IF q.opt > 512 THEN q.opt ELSE 512
             fixed == E!HeaderSize + h.reply.questions
         IN  /\ fixed + h.reply.records <= offered => x.data.records = h.reply.records
             /\ x.data.records # h.reply.records => x.data.tc
             /\ x.data.len > offered => fixed > offered /\ x.data.records = 0 /\ x.data.tc
    <3>1. l = (IF q.opt > 512 THEN q.opt ELSE 512) /\ least = E!HeaderSize + h.reply.questions
      BY ONLY <2>7, <2>13, <2>16
    <3>2. h.reply.records = r.records /\ x.data = d
      BY ONLY <2>5, <2>16, Zenon
    <3>3. least = E!HeaderSize + h.reply.questions /\ l = (IF q.opt > 512 THEN q.opt ELSE 512)
      BY ONLY <3>1
    <3> QED BY ONLY <2>15, <3>2, <3>3
  <2>18. E!ReplySound("udp", q, h, x)
    BY ONLY <1>3, <2>5, <2>16, <2>17, Zenon DEF E!ReplySound
  <2> QED BY <1>1, <2>18
<1> QED BY <1>2, <1>3 DEF AskedMessages

\* Nothing is sent, or a status, or the reply behind its length.
LEMMA NoDataSound ==
  ASSUME NEW t, NEW q, NEW h, NEW x, (x = E!Silence /\ t # "doh") \/ \E code : x = E!Status(code)
  PROVE  E!ReplySound(t, q, h, x)
<1>1. CASE x = E!Silence /\ t # "doh"
  <2>1. "data" \notin DOMAIN x /\ "prefix" \notin DOMAIN x
    BY ONLY <1>1 DEF E!Silence
  <2> QED BY <1>1, <2>1 DEF E!ReplySound
<1>2. CASE \E code : x = E!Status(code)
  <2>1. "data" \notin DOMAIN x /\ "prefix" \notin DOMAIN x /\ x.sent
    BY ONLY <1>2 DEF E!Status
  <2> QED BY <2>1 DEF E!ReplySound
<1> QED BY <1>1, <1>2

LEMMA FramedSound ==
  ASSUME NEW t, t \notin {"doh", "udp"}, NEW q \in AskedMessages, NEW r \in RepliedMessages, NEW h, h.reply = r,
         q.parses, h.ok, E!Encodable(r)
  PROVE  E!ReplySound(t, q, h, E!Framed(E!Serialize(E!WithRequestId(q, r))))
<1>1. PICK w : w = E!WithRequestId(q, r)
  OBVIOUS
<1>2. w \in RepliedMessages /\ w.id = q.id /\ E!Encodable(w)
  BY <1>1, RequestIdProperties
<1>3. PICK d : d = E!Serialize(w)
  OBVIOUS
<1>4. Written(w, d)
  BY <1>2, <1>3, SerializeProperties
<1>5. d.id = q.id /\ d.len \in Nat /\ d.len <= 65535
  BY <1>2, <1>4 DEF Written
<1>6. PICK p : p = d.len % 65536
  OBVIOUS
<1>7. p = d.len
  BY <1>5, <1>6
<1>8. PICK x : x = E!Framed(d)
  OBVIOUS
<1>9. x = [sent |-> TRUE, prefix |-> p, data |-> d]
  BY <1>6, <1>8 DEF E!Framed
<1>10. x.data = d /\ x.prefix = p
  BY ONLY <1>9
<1>11. E!ReplySound(t, q, h, x)
  BY <1>5, <1>7, <1>10 DEF E!ReplySound
<1> QED BY <1>1, <1>3, <1>8, <1>11

LEMMA HttpSound ==
  ASSUME NEW q \in AskedMessages, NEW r \in RepliedMessages, NEW h, h.reply = r, q.parses, h.ok \in BOOLEAN
  PROVE  E!ReplySound("doh", q, h, E!HttpReply(q, h))
<1>0. PICK x : x = E!HttpReply(q, h)
  OBVIOUS
<1>1. CASE ~h.ok \/ ~E!Encodable(r)
  <2>1. x = E!Status(500)
    BY <1>0, <1>1 DEF E!HttpReply
  <2> QED BY <1>0, <2>1, NoDataSound
<1>2. CASE h.ok /\ E!Encodable(r)
  <2>1. PICK w : w = E!WithRequestId(q, r)
    OBVIOUS
  <2>2. w \in RepliedMessages /\ w.id = q.id /\ E!Encodable(w)
    BY <1>2, <2>1, RequestIdProperties
  <2>3. PICK d : d = E!Serialize(w)
    OBVIOUS
  <2>4. Written(w, d)
    BY <2>2, <2>3, SerializeProperties
  <2>5. d.id = q.id
    BY <2>2, <2>4 DEF Written
  <2>6. x = [sent |-> TRUE, status |-> 200, data |-> d]
    BY <1>0, <1>2, <2>1, <2>3 DEF E!HttpReply
  <2>7. x.sent /\ x.data = d /\ "prefix" \notin DOMAIN x
    BY ONLY <2>6
  <2>8. E!ReplySound("doh", q, h, x)
    BY <1>2, <2>5, <2>7 DEF E!ReplySound
  <2> QED BY <1>0, <2>8
<1> QED BY <1>1, <1>2

LEMMA RepliesSound ==
  ASSUME CallsInv, case.of = "exchange", answer # Pending
  PROVE  E!ReplySound(IF case.transport \in {"get", "post"} THEN "doh" ELSE case.transport, case.query, case.handled, answer)
<1>1. case \in ExchangeCases /\ answer = Exchange
  BY DEF CallsInv, Answers
<1>2. PICK t \in {"udp", "tcp", "dot", "doq", "get", "post"}, q \in Queries, ok \in BOOLEAN, r \in Replies :
        case = [of |-> "exchange", transport |-> t, query |-> q, handled |-> [ok |-> ok, reply |-> r]]
  BY <1>1 DEF ExchangeCases
<1>3. PICK h : h = [ok |-> ok, reply |-> r]
  OBVIOUS
<1>4. case.transport = t /\ case.query = q /\ case.handled = h /\ h.ok = ok /\ h.reply = r
  BY <1>2, <1>3
<1>5. q \in AskedMessages /\ q.opt <= 65535 /\ r \in RepliedMessages /\ q.parses \in BOOLEAN /\ h.ok \in BOOLEAN
  BY <1>4, ExchangeAssumption DEF AskedMessages, RepliedMessages
<1>6. CASE t = "udp"
  <2>1. answer = E!UdpExchange(q, h)
    BY <1>1, <1>4, <1>6 DEF Exchange
  <2> QED BY <1>4, <1>5, <1>6, <2>1, UdpSound
<1>7. CASE t \in {"tcp", "dot", "doq"}
  <2>1. answer = E!Silence \/ (q.parses /\ h.ok /\ E!Encodable(r) /\ answer = E!Framed(E!Serialize(E!WithRequestId(q, r))))
    <3>1. CASE t = "tcp"
      <4>1. answer = E!TcpExchange(q, h)
        BY <1>1, <1>4, <3>1 DEF Exchange
      <4> QED BY ONLY <1>4, <4>1, Zenon DEF E!TcpExchange
    <3>2. CASE t = "dot"
      <4>1. answer = E!DotExchange(q, h)
        BY <1>1, <1>4, <3>2 DEF Exchange
      <4> QED BY ONLY <1>4, <4>1, Zenon DEF E!DotExchange
    <3>3. CASE t = "doq"
      <4>1. answer = E!DoqExchange(q, h)
        BY <1>1, <1>4, <3>3 DEF Exchange
      <4> QED BY ONLY <1>4, <4>1, Zenon DEF E!DoqExchange
    <3> QED BY <1>7, <3>1, <3>2, <3>3
  <2>2. t \notin {"doh", "udp"} /\ t \notin {"get", "post"}
    BY <1>7
  <2>3. E!ReplySound(t, q, h, answer)
    BY <1>4, <1>5, <2>1, <2>2, FramedSound, NoDataSound
  <2> QED BY <1>4, <2>2, <2>3
<1>8. CASE t \in {"get", "post"}
  <2>1. (\E code : answer = E!Status(code)) \/ (q.parses /\ answer = E!HttpReply(q, h))
    <3>1. CASE t = "get"
      <4>1. answer = E!DohGet(IF q.len = 0 THEN "not base64" ELSE "base64", q, h)
        BY <1>1, <1>4, <3>1 DEF Exchange
      <4> QED BY ONLY <4>1, Zenon DEF E!DohGet
    <3>2. CASE t = "post"
      <4>1. answer = E!DohPost(IF q.len = 0 THEN "other" ELSE "application/dns-message", q, h)
        BY <1>1, <1>4, <3>2 DEF Exchange
      <4> QED BY ONLY <4>1, ZenonT(60) DEF E!DohPost
    <3> QED BY <1>8, <3>1, <3>2
  <2>2. E!ReplySound("doh", q, h, answer)
    BY <1>4, <1>5, <2>1, HttpSound, NoDataSound
  <2> QED BY <1>4, <1>8, <2>2
<1> QED BY <1>6, <1>7, <1>8

LEMMA ClientsSound ==
  ASSUME CallsInv, case.of = "client", answer # Pending, answer.known, answer.ip # Peer.ip
  PROVE  case.transport = "doh" /\ case.trust /\ answer.ip = case.forwarded[1] /\ answer.ip # "invalid"
<1>1. case \in ClientCases /\ answer = Client
  BY DEF CallsInv, Answers
<1>2. PICK t \in {"udp", "tcp", "dot", "doh", "doq"}, f \in Forwarded, v \in BOOLEAN :
        case = [of |-> "client", transport |-> t, forwarded |-> f, trust |-> v]
  BY <1>1 DEF ClientCases
<1>3. case.transport = t /\ case.forwarded = f /\ case.trust = v
  BY <1>2
<1>4. answer = E!ClientOf(t, Peer, f, v)
  BY <1>1, <1>3 DEF Client
<1>5. \A ip, port : E!ClientInfo(ip, port).ip = ip
  BY DEF E!ClientInfo
<1>6. ~E!NoClient.known
  BY DEF E!NoClient
<1>7. t = "doh"
  <2>1. CASE t \in {"udp", "tcp", "dot"}
    BY <1>4, <1>5, <2>1 DEF E!ClientOf
  <2>2. CASE t = "doq"
    BY <1>4, <1>6, <2>2 DEF E!ClientOf
  <2> QED BY <2>1, <2>2
<1>8. answer = E!ExtractClientAddr(f, Peer, v)
  BY <1>4, <1>7 DEF E!ClientOf
<1>9. v /\ f[1] # "invalid" /\ answer.ip = f[1]
  BY <1>5, <1>8 DEF E!ExtractClientAddr
<1> QED BY <1>3, <1>7, <1>9

-----------------------------------------------------------------------------
(* Listeners *)

LEMMA NatMin == ASSUME NEW T \in SUBSET Nat, T # {} PROVE \E x \in T : \A y \in T : x <= y
<1> DEFINE R == OpToRel(<, Nat)
<1>1. IsWellFoundedOn(R, Nat)
  BY NatLessThanWellFounded
<1>2. \A y, x \in Nat : y < x => <<y, x>> \in R
  BY DEF OpToRel
<1> HIDE DEF R
<1>3. PICK x \in T : \A y \in T : ~(<<y, x>> \in R)
  BY <1>1, WFMin
<1>4. x \in Nat /\ \A y \in T : y \in Nat /\ ~(y < x)
  BY <1>2, <1>3
<1> QED BY <1>4

\* g is the outcome of the first n binds, one after the other, of which the system
\* refuses those in rf.
Launches(ps, rf, g, n) == g = [i \in 1..n |-> E!LaunchNext(ps, g, rf, i)]

\* What comes of a listener depends on the earlier ones only.
SameBefore(g, h, i) == \A j \in 1..(i - 1) : g[j] = h[j]
LEMMA LaunchNextLocal ==
  ASSUME NEW ps, NEW rf, NEW g, NEW h, NEW i \in Nat, SameBefore(g, h, i)
  PROVE  E!LaunchNext(ps, g, rf, i) = E!LaunchNext(ps, h, rf, i)
<1>1. \A j \in 1..(i - 1) : g[j] = h[j]
  BY DEF SameBefore
<1>2. \A at : (\E j \in 1..(i - 1) : /\ g[j].state = "serving"
                                    /\ E!Overlap(g[j].addr, at.addr)
                                    /\ E!Transport(ps[j].type) = E!Transport(ps[i].type))
              <=> (\E j \in 1..(i - 1) : /\ h[j].state = "serving"
                                        /\ E!Overlap(h[j].addr, at.addr)
                                        /\ E!Transport(ps[j].type) = E!Transport(ps[i].type))
  BY ONLY <1>1
<1> QED BY ONLY <1>2 DEF E!LaunchNext

LEMMA LaunchesOneMore ==
  ASSUME NEW ps, NEW rf, NEW n \in Nat, NEW g, Launches(ps, rf, g, n)
  PROVE  \E h : Launches(ps, rf, h, n + 1)
<1>1. PICK h : h = [i \in 1..(n + 1) |-> IF i <= n THEN g[i] ELSE E!LaunchNext(ps, g, rf, i)]
  OBVIOUS
<1>2. \A i \in 1..n : h[i] = g[i] /\ g[i] = E!LaunchNext(ps, g, rf, i)
  BY <1>1, SMTT(30) DEF Launches
<1>3. ASSUME NEW i \in 1..(n + 1) PROVE h[i] = E!LaunchNext(ps, h, rf, i)
  <2>1. h[i] = E!LaunchNext(ps, g, rf, i)
    BY <1>1, <1>2
  <2>2. SameBefore(g, h, i)
    BY <1>2 DEF SameBefore
  <2>3. i \in Nat
    OBVIOUS
  <2> QED BY <2>1, <2>2, <2>3, LaunchNextLocal
<1>4. h = [i \in 1..(n + 1) |-> E!LaunchNext(ps, h, rf, i)]
  <2>1. h = [i \in 1..(n + 1) |-> h[i]]
    BY <1>1
  <2> QED BY <1>3, <2>1
<1> QED BY <1>4 DEF Launches

LEMMA LaunchesExist == ASSUME NEW ps, NEW rf, NEW n \in Nat PROVE \E g : Launches(ps, rf, g, n)
<1> DEFINE T == {m \in Nat : ~\E g : Launches(ps, rf, g, m)}
<1>1. SUFFICES ASSUME T # {} PROVE FALSE
  BY <1>1
<1>2. PICK x \in T : \A y \in T : x <= y
  BY <1>1, NatMin
<1>3. x # 0
  <2>1. PICK g : g = [i \in 1..0 |-> 0]
    OBVIOUS
  <2>2. g = [i \in 1..0 |-> E!LaunchNext(ps, g, rf, i)]
    BY <2>1
  <2> QED BY <1>2, <2>2 DEF Launches
<1>4. x - 1 \in Nat /\ x - 1 \notin T /\ x - 1 + 1 = x
  BY <1>2, <1>3
<1>5. \E g : Launches(ps, rf, g, x - 1)
  BY <1>4
<1> QED BY <1>2, <1>4, <1>5, LaunchesOneMore

LEMMA LaunchAllLaunches ==
  ASSUME NEW ps, NEW rf, Len(ps) \in Nat
  PROVE  \A i \in 1..Len(ps) : E!LaunchAll(ps, rf)[i] = E!LaunchNext(ps, E!LaunchAll(ps, rf), rf, i)
<1>1. E!LaunchAll(ps, rf) = CHOOSE g : g = [i \in 1..Len(ps) |-> E!LaunchNext(ps, g, rf, i)]
  BY DEF E!LaunchAll
<1>2. \E g : g = [i \in 1..Len(ps) |-> E!LaunchNext(ps, g, rf, i)]
  <2>1. PICK m \in Nat : m = Len(ps)
    OBVIOUS
  <2>2. PICK g : Launches(ps, rf, g, m)
    BY LaunchesExist
  <2>3. g = [i \in 1..Len(ps) |-> E!LaunchNext(ps, g, rf, i)]
    BY <2>1, <2>2, Zenon DEF Launches
  <2> QED BY <2>3, Zenon
<1>3. PICK g : g = E!LaunchAll(ps, rf)
  OBVIOUS
<1>4. g = [i \in 1..Len(ps) |-> E!LaunchNext(ps, g, rf, i)]
  BY <1>1, <1>2, <1>3, Zenon
<1> QED BY <1>3, <1>4

\* A listener that serves could bind, at the address it was given.
LEMMA LaunchOneProperties ==
  ASSUME NEW p, NEW b \in BOOLEAN, NEW x, x = E!LaunchOne(p, b), NEW at, at = E!ParseListenAddr(p.listen, p.type)
  PROVE  /\ x.state = "serving" => b /\ p.type \in E!ServerTypes /\ at.ok /\ x.addr = at.addr
         /\ E!Startable(p) /\ x.state # "serving" => ~b
<1>0. E!Nothing.state # "serving"
  BY DEF E!Nothing
<1>1. CASE p.type \in {"udp_server", "tcp_server"}
  <2>1. x = E!LaunchPlain(p, b)
    BY <1>1 DEF E!LaunchOne
  <2>2. CASE ~at.ok \/ ~b
    <3>1. x = E!Nothing
      BY <2>1, <2>2 DEF E!LaunchPlain
    <3>2. E!Startable(p) => at.ok
      BY DEF E!Startable
    <3> QED BY <1>0, <2>2, <3>1, <3>2
  <2>3. CASE ~(~at.ok \/ ~b)
    <3>1. x = [state |-> "serving", addr |-> at.addr, entry |-> E!GetEntry(p.entry)]
      BY <2>1, <2>3 DEF E!LaunchPlain
    <3>2. x.state = "serving" /\ x.addr = at.addr
      BY ONLY <3>1
    <3> QED BY <1>1, <2>3, <3>2 DEF E!ServerTypes
  <2> QED BY <2>2, <2>3
<1>2. CASE p.type \in {"doh_server", "dot_server", "doq_server"}
  <2>1. \/ x = E!Nothing /\ ~E!Startable(p)
        \/ \E c \in BOOLEAN : /\ x = [state |-> IF c /\ b THEN "serving" ELSE "failed",
                                     addr |-> at.addr, entry |-> E!GetEntry(p.entry)]
                              /\ at.ok /\ (E!Startable(p) => c)
    <3>1. CASE p.type \in {"doh_server", "dot_server"}
      <4>1. x = E!LaunchTls(p, b)
        BY <3>1 DEF E!LaunchOne
      <4>2. PICK c \in BOOLEAN : c <=> E!BuildServerConfig(p.cert_file.value, p.key_file.value)
        OBVIOUS
      <4>3. E!Startable(p) => at.ok /\ p.cert_file.kind = "string" /\ p.key_file.kind = "string" /\ c
        BY <3>1, <4>2 DEF E!Startable, E!Inline
      <4>4. c => E!FromFiles(p.cert_file.value, p.key_file.value)
        BY <4>2 DEF E!BuildServerConfig
      <4>5. CASE ~at.ok \/ p.cert_file.kind # "string" \/ p.key_file.kind # "string"
                 \/ ~E!FromFiles(p.cert_file.value, p.key_file.value)
        <5>1. x = E!Nothing
          BY <4>1, <4>5 DEF E!LaunchTls
        <5> QED BY <4>3, <4>4, <4>5, <5>1
      <4>6. CASE ~(~at.ok \/ p.cert_file.kind # "string" \/ p.key_file.kind # "string"
                   \/ ~E!FromFiles(p.cert_file.value, p.key_file.value))
        <5>1. x = [state |-> IF c /\ b THEN "serving" ELSE "failed", addr |-> at.addr, entry |-> E!GetEntry(p.entry)]
          BY <4>1, <4>2, <4>6 DEF E!LaunchTls
        <5> QED BY <4>3, <4>6, <5>1
      <4> QED BY <4>5, <4>6
    <3>2. CASE p.type = "doq_server"
      <4>1. x = E!LaunchDoq(p, b)
        BY <3>2 DEF E!LaunchOne
      <4>2. PICK c \in BOOLEAN : c <=> E!BuildQuicServerConfig(p.cert_file.value, p.key_file.value)
        OBVIOUS
      <4>3. E!Startable(p) => at.ok /\ p.cert_file.kind = "string" /\ p.key_file.kind = "string" /\ c
        BY <3>2, <4>2 DEF E!Startable, E!Inline
      <4>4. CASE ~at.ok \/ p.cert_file.kind # "string" \/ p.key_file.kind # "string"
        <5>1. x = E!Nothing
          BY <4>1, <4>4 DEF E!LaunchDoq
        <5> QED BY <4>3, <4>4, <5>1
      <4>5. CASE ~(~at.ok \/ p.cert_file.kind # "string" \/ p.key_file.kind # "string")
        <5>1. x = [state |-> IF c /\ b THEN "serving" ELSE "failed", addr |-> at.addr, entry |-> E!GetEntry(p.entry)]
          BY <4>1, <4>2, <4>5 DEF E!LaunchDoq
        <5> QED BY <4>3, <4>5, <5>1
      <4> QED BY <4>4, <4>5
    <3> QED BY <1>2, <3>1, <3>2
  <2>2. ASSUME x.state = "serving" PROVE b /\ at.ok /\ x.addr = at.addr
    BY <1>0, <2>1, <2>2
  <2>3. ASSUME E!Startable(p), x.state # "serving" PROVE ~b
    BY <2>1, <2>3
  <2> QED BY <1>2, <2>2, <2>3 DEF E!ServerTypes
<1>3. CASE p.type \notin E!ServerTypes
  <2>1. x = E!Nothing
    BY <1>3 DEF E!LaunchOne, E!ServerTypes
  <2>2. ~E!Startable(p)
    BY <1>3 DEF E!Startable
  <2> QED BY <1>0, <1>3, <2>1, <2>2 DEF E!ServerTypes
<1> QED BY <1>1, <1>2, <1>3 DEF E!ServerTypes

LEMMA ListenersSound ==
  ASSUME CallsInv, case.of = "launch", answer # Pending
  PROVE  E!LaunchSound(E!Binds(case.plugins, case.order), case.order, case.refused, answer.all)
<1>1. case \in LaunchCases /\ answer = Launch
  BY DEF CallsInv, Answers
<1>p. PICK plugins \in ListenerLists :
        case \in {[of |-> "launch", plugins |-> plugins, order |-> order, refused |-> refused] :
                    order \in E!BindOrders(plugins), refused \in SUBSET (1..Len(plugins))}
  BY <1>1, SMTT(30) DEF LaunchCases
<1>b. PICK B, R : B = E!BindOrders(plugins) /\ R = SUBSET (1..Len(plugins))
  OBVIOUS
<1>c. case \in {[of |-> "launch", plugins |-> plugins, order |-> order, refused |-> refused] : order \in B, refused \in R}
  BY ONLY <1>p, <1>b
<1>2. PICK order \in B, refused \in R :
        case = [of |-> "launch", plugins |-> plugins, order |-> order, refused |-> refused]
  BY ONLY <1>c
<1>3. case.plugins = plugins /\ case.order = order /\ case.refused = refused
  BY ONLY <1>2
<1>4. PICK ps : ps = E!Binds(plugins, order)
  OBVIOUS
<1>5. PICK f : f = E!LaunchAll(ps, refused)
  OBVIOUS
<1>6. answer.all = f
  BY <1>1, <1>3, <1>4, <1>5 DEF Launch
<1>7. Len(plugins) \in Nat
  <2>1. PICK S : plugins \in Seq(S)
    BY ListenerAssumption, Zenon
  <2> QED BY ONLY <2>1
<1>8. Len(ps) = Len(plugins) /\ \A k \in 1..Len(ps) : ps[k] = plugins[order[k]]
  BY <1>4, <1>7 DEF E!Binds
<1>9. \A i \in 1..Len(ps) : f[i] = E!LaunchNext(ps, f, refused, i)
  BY <1>5, <1>7, <1>8, LaunchAllLaunches
<1>10. \A j, k \in 1..Len(ps) : j < k /\ E!Inline(ps[k].type) => order[j] < order[k]
  BY <1>b, <1>8, Zenon DEF E!BindOrders
<1>11. ASSUME NEW i \in 1..Len(ps)
       PROVE  /\ f[i].state = "serving" /\ ps[i].listen.kind = "string" => f[i].addr.port = ps[i].listen.value.port
              /\ E!Startable(ps[i]) /\ f[i].state # "serving" =>
                   \/ i \in refused
                   \/ \E j \in 1..Len(ps) :
                        /\ f[j].state = "serving" /\ E!Transport(ps[j].type) = E!Transport(ps[i].type)
                        /\ E!Overlap(f[j].addr, E!ParseListenAddr(ps[i].listen, ps[i].type).addr)
                        /\ E!Inline(ps[i].type) => order[j] < order[i]
  <2>1. PICK p : p = ps[i]
    OBVIOUS
  <2>2. PICK at : at = E!ParseListenAddr(p.listen, p.type)
    OBVIOUS
  <2>3. PICK b \in BOOLEAN : b <=> /\ ~(at.ok /\ \E j \in 1..(i - 1) :
                                          /\ f[j].state = "serving"
                                          /\ E!Overlap(f[j].addr, at.addr)
                                          /\ E!Transport(ps[j].type) = E!Transport(p.type))
                                   /\ i \notin refused
    OBVIOUS
  <2>4. PICK x : x = E!LaunchOne(p, b)
    OBVIOUS
  <2>5. p.type \in E!ServerTypes => f[i] = x
    BY <1>9, <2>1, <2>2, <2>3, <2>4 DEF E!LaunchNext
  <2>6. /\ x.state = "serving" => b /\ p.type \in E!ServerTypes /\ at.ok /\ x.addr = at.addr
        /\ E!Startable(p) /\ x.state # "serving" => ~b
    BY <2>2, <2>4, LaunchOneProperties
  <2>7. f[i].state = "serving" => p.type \in E!ServerTypes
    BY <1>9, <2>1, LaunchOneProperties DEF E!LaunchNext
  <2>8. ASSUME f[i].state = "serving", p.listen.kind = "string" PROVE f[i].addr.port = p.listen.value.port
    <3>1. f[i].addr = at.addr
      BY <2>5, <2>6, <2>7, <2>8
    <3>2. at.addr = E!NormalizeListenAddr(p.listen.value)
      BY <2>2, <2>8 DEF E!ParseListenAddr
    <3>3. PICK v : v = p.listen.value
      OBVIOUS
    <3>4. E!NormalizeListenAddr(v).port = v.port
      BY DEF E!NormalizeListenAddr
    <3> QED BY ONLY <3>1, <3>2, <3>3, <3>4
  <2>9. ASSUME E!Startable(p), f[i].state # "serving", i \notin refused
        PROVE  \E j \in 1..Len(ps) :
                 /\ f[j].state = "serving" /\ E!Transport(ps[j].type) = E!Transport(p.type)
                 /\ E!Overlap(f[j].addr, at.addr)
                 /\ E!Inline(p.type) => order[j] < order[i]
    <3>1. ~b
      BY <2>5, <2>6, <2>9 DEF E!Startable
    <3>2. PICK j \in 1..(i - 1) : /\ f[j].state = "serving"
                                  /\ E!Overlap(f[j].addr, at.addr)
                                  /\ E!Transport(ps[j].type) = E!Transport(p.type)
      BY <2>3, <2>9, <3>1
    <3>3. j \in 1..Len(ps) /\ j < i
      BY <1>7, <1>8
    <3>4. E!Inline(p.type) => order[j] < order[i]
      BY <1>10, <2>1, <3>3
    <3> QED BY <3>2, <3>3, <3>4
  <2> QED BY <2>1, <2>2, <2>8, <2>9
<1>12. E!LaunchSound(ps, order, refused, f)
  BY <1>11, Zenon DEF E!LaunchSound
<1> QED BY <1>3, <1>4, <1>6, <1>12

\* ExchangesAreSound: whatever the transport, a client gets a reply to its query by
\* id, whole over UDP if it fits, with TC if it is incomplete, and larger than the
\* client can take only without records and if its questions alone are; framed by its
\* length on a stream; and never a reply of a handler that failed.  In whatever order
\* the listeners of a list bind and whichever of them the system refuses, each that
\* could start serves, was refused, or met one that serves at its address, listed
\* before it unless it binds in a task.  A forwarded address counts only where it is
\* trusted.  For any queries, replies and lists of listeners (udp.rs, tcp.rs, dot.rs,
\* doh.rs, doq.rs, launcher.rs).
THEOREM ExchangesAreSound == ServicesSpec => []ExchangeSound
<1>1. CallsInv => ExchangeSound
  BY RepliesSound, ListenersSound, ClientsSound DEF ExchangeSound
<1> QED BY <1>1, CallsAnswered, PTL

-----------------------------------------------------------------------------
(* Arguments *)

\* The bits of a query that its key has.
Bits(ad, cd, do) == (IF ad THEN 1 ELSE 0) + (IF cd THEN 2 ELSE 0) + (IF do THEN 4 ELSE 0)

\* The bits of a query are told apart by their sum.
LEMMA BitsApart ==
  ASSUME NEW a \in BOOLEAN, NEW b \in BOOLEAN, NEW c \in BOOLEAN, NEW x \in BOOLEAN, NEW y \in BOOLEAN, NEW z \in BOOLEAN,
         Bits(a, b, c) = Bits(x, y, z)
  PROVE  a = x /\ b = y /\ c = z
BY DEF Bits

\* A message of one question, as its question and its bits.
LEMMA KeyedMessage ==
  ASSUME NEW m \in KeyMessages, m.questions # <<>>
  PROVE  \E n \in KeyNames, t \in KeyTypes :
           /\ m.questions = <<[lower |-> n, qtype |-> t, qclass |-> 1]>>
           /\ A!MakeKey(m) = <<n, t, 1, Bits(m.ad, m.cd, m.do)>>
<1>1. PICK n \in KeyNames, t \in KeyTypes : m.questions = <<[lower |-> n, qtype |-> t, qclass |-> 1]>>
  BY DEF KeyMessages
<1>2. PICK q : q = [lower |-> n, qtype |-> t, qclass |-> 1]
  OBVIOUS
<1>3. m.questions = <<q>> /\ q.lower = n /\ q.qtype = t /\ q.qclass = 1
  BY <1>1, <1>2
<1>4. Head(m.questions) = q
  BY <1>3
<1>5. PICK b : b = Bits(m.ad, m.cd, m.do)
  OBVIOUS
<1>6. A!MakeKey(m) = <<Head(m.questions).lower, Head(m.questions).qtype, Head(m.questions).qclass, b>>
  BY <1>5, Zenon DEF A!MakeKey, Bits
<1>7. A!MakeKey(m) = <<n, t, 1, b>>
  BY <1>3, <1>4, <1>6, Zenon
<1> QED BY <1>1, <1>5, <1>7, Zenon

LEMMA KeysSound ==
  ASSUME CallsInv, case.of = "key", answer # Pending, case.one.questions # <<>>
  PROVE  (answer.one = answer.other) <=> case.one = case.other
<1>1. case \in KeyCases /\ answer = Keyed
  BY DEF CallsInv, Answers
<1>2. PICK m \in KeyMessages, n \in KeyMessages : case = [of |-> "key", one |-> m, other |-> n]
  BY <1>1 DEF KeyCases
<1>3. case.one = m /\ case.other = n
  BY <1>2
<1>4. answer.one = A!MakeKey(m) /\ answer.other = A!MakeKey(n)
  BY <1>1, <1>3 DEF Keyed
<1>5. ASSUME A!MakeKey(m) = A!MakeKey(n) PROVE m = n
  <2>1. PICK x \in KeyNames, t \in KeyTypes :
          /\ m.questions = <<[lower |-> x, qtype |-> t, qclass |-> 1]>>
          /\ A!MakeKey(m) = <<x, t, 1, Bits(m.ad, m.cd, m.do)>>
    BY <1>3, KeyedMessage
  <2>2. n.questions # <<>>
    <3>1. SUFFICES ASSUME n.questions = <<>> PROVE FALSE
      OBVIOUS
    <3>2. A!MakeKey(n) = <<>>
      BY <3>1 DEF A!MakeKey
    <3>3. PICK z : A!MakeKey(m) = <<x, t, 1, z>>
      BY <2>1, Zenon
    <3>4. <<x, t, 1, z>> # <<>>
      OBVIOUS
    <3> QED BY ONLY <1>5, <3>2, <3>3, <3>4
  <2>3. PICK y \in KeyNames, u \in KeyTypes :
          /\ n.questions = <<[lower |-> y, qtype |-> u, qclass |-> 1]>>
          /\ A!MakeKey(n) = <<y, u, 1, Bits(n.ad, n.cd, n.do)>>
    BY <2>2, KeyedMessage
  <2>4. PICK b, d : /\ b = Bits(m.ad, m.cd, m.do)
                    /\ d = Bits(n.ad, n.cd, n.do)
    OBVIOUS
  <2>5. <<x, t, 1, b>> = <<y, u, 1, d>>
    BY <1>5, <2>1, <2>3, <2>4, Zenon
  <2>6. x = y /\ t = u /\ b = d
    BY ONLY <2>5
  <2>7. /\ m.ad \in BOOLEAN /\ m.cd \in BOOLEAN /\ m.do \in BOOLEAN
        /\ n.ad \in BOOLEAN /\ n.cd \in BOOLEAN /\ n.do \in BOOLEAN
    BY DEF KeyMessages
  <2>8. m.ad = n.ad /\ m.cd = n.cd /\ m.do = n.do
    <3>1. Bits(m.ad, m.cd, m.do) = Bits(n.ad, n.cd, n.do)
      BY ONLY <2>4, <2>6, Zenon
    <3> QED BY ONLY <2>7, <3>1, BitsApart, Zenon
  <2>9. m.questions = n.questions
    BY <2>1, <2>3, <2>6, Zenon
  <2>10. /\ m = [questions |-> m.questions, ad |-> m.ad, cd |-> m.cd, do |-> m.do]
         /\ n = [questions |-> n.questions, ad |-> n.ad, cd |-> n.cd, do |-> n.do]
    BY DEF KeyMessages
  <2> QED BY <2>8, <2>9, <2>10, Zenon
<1> QED BY <1>3, <1>4, <1>5

-----------------------------------------------------------------------------
(* The settings of a cache *)

SettingNames ==
  {"ok", "max_size", "negative", "cache_ttl", "lazy", "threshold", "coordinator", "cleanup", "interval", "pressure",
   "dump_file", "dump_interval"}

\* What CacheSettingsSound looks at.
Set(c, negative, ttl, lazy, threshold, coordinator) ==
  /\ DOMAIN c = SettingNames /\ c = [f \in SettingNames |-> c[f]] /\ c.ok = TRUE
  /\ c.negative = negative /\ c.cache_ttl = ttl /\ c.lazy = lazy
  /\ c.threshold = threshold /\ c.coordinator = coordinator

LEMMA SetSteps ==
  ASSUME NEW c, NEW n, NEW t, NEW l, NEW h, NEW k, Set(c, n, t, l, h, k), NEW v
  PROVE  /\ Set(A!WithNegativeCache(c, v), v, t, l, h, k)
         /\ Set(A!WithCoordinator(c), n, t, l, h, IF k = 0 THEN 4 ELSE k)
         /\ Set([c EXCEPT !.lazy = TRUE, !.threshold = v], n, t, TRUE, v, k)
         /\ Set([c EXCEPT !.cache_ttl = v], n, v, l, h, k)
<1>1. Set(A!WithNegativeCache(c, v), v, t, l, h, k)
  BY DEF Set, SettingNames, A!WithNegativeCache
<1>2. Set(A!WithCoordinator(c), n, t, l, h, IF k = 0 THEN 4 ELSE k)
  BY DEF Set, SettingNames, A!WithCoordinator
<1>3. Set([c EXCEPT !.lazy = TRUE, !.threshold = v], n, t, TRUE, v, k)
  BY DEF Set, SettingNames
<1>4. Set([c EXCEPT !.cache_ttl = v], n, v, l, h, k)
  BY DEF Set, SettingNames
<1> QED BY <1>1, <1>2, <1>3, <1>4

LEMMA ClampRange == \A n \in Int : A!Clamp(n) \in 0..100
BY DEF A!Clamp

LEMMA SettingsSound ==
  ASSUME CallsInv, case.of = "cache", answer # Pending
  PROVE  A!CacheSettingsSound(case.args, answer)
<1>1. case \in CacheCases /\ answer = A!CacheInit(case.args)
  BY DEF CallsInv, Answers
<1>2. PICK args \in CacheArgs : case = [of |-> "cache", args |-> args]
  BY <1>1 DEF CacheCases
<1>3. case.args = args
  BY <1>2
<1> DEFINE negative == args.negative_cache.kind = "bool" /\ args.negative_cache.value
           lazy == args.enable_lazycache.kind = "bool" /\ args.enable_lazycache.value
<1>4. negative => args.negative_cache.kind = "bool" /\ args.negative_cache.value
  OBVIOUS
<1>5. negative \in BOOLEAN /\ lazy \in BOOLEAN
  OBVIOUS
<1>6. PICK ttl : ttl = A!NumberOr(args.cache_ttl, 0)
  OBVIOUS
<1>7. /\ ttl \in Nat
      /\ (args.cache_ttl.kind = "number" /\ args.cache_ttl.value % 256 > 0) <=> ttl > 0
  <2>1. CASE args.cache_ttl.kind = "number"
    <3>1. args.cache_ttl.value \in Int
      BY <2>1, CacheArgsAssumption
    <3>2. ttl = args.cache_ttl.value % 256
      BY <1>6, <2>1 DEF A!NumberOr, A!Unsigned
    <3>3. args.cache_ttl.value % 256 \in Nat
      BY <3>1
    <3> QED BY <2>1, <3>2, <3>3
  <2>2. CASE args.cache_ttl.kind # "number"
    <3>1. ttl = 0
      BY <1>6, <2>2 DEF A!NumberOr
    <3> QED BY <2>2, <3>1
  <2> QED BY <2>1, <2>2
<1>8. PICK size : size = IF args.size.kind = "absent" THEN 1024 ELSE A!Unsigned(args.size.value)
  OBVIOUS
<1>9. PICK sized : sized = A!CacheNew(size)
  OBVIOUS
<1>10. Set(sized, -1, 0, FALSE, 5, 0)
  BY <1>9 DEF Set, SettingNames, A!CacheNew
<1>11. PICK nttl : nttl = IF args.negative_ttl.kind = "absent" THEN 300 ELSE A!Unsigned(args.negative_ttl.value)
  OBVIOUS
<1>12. PICK negated : negated = IF negative THEN A!WithNegativeCache(sized, nttl) ELSE sized
  OBVIOUS
<1>13. PICK n : Set(negated, n, 0, FALSE, 5, 0) /\ (~negative => n = -1)
  BY <1>10, <1>12, SetSteps
<1>14. PICK windowed : windowed = A!WithCacheTtl(negated, ttl)
  OBVIOUS
<1>15. PICK k \in {0, 4} : Set(windowed, n, ttl, FALSE, 5, k) /\ ((k = 4) <=> (ttl > 0))
  <2>1. CASE ttl > 0
    <3>1. windowed = A!WithCoordinator([negated EXCEPT !.cache_ttl = ttl])
      BY <1>14, <2>1 DEF A!WithCacheTtl
    <3>2. Set([negated EXCEPT !.cache_ttl = ttl], n, ttl, FALSE, 5, 0)
      BY <1>13, SetSteps
    <3>3. Set(windowed, n, ttl, FALSE, 5, IF 0 = 0 THEN 4 ELSE 0)
      BY ONLY <3>1, <3>2, SetSteps, Zenon
    <3>4. Set(windowed, n, ttl, FALSE, 5, 4)
      BY <3>3
    <3> WITNESS 4 \in {0, 4}
    <3> QED BY <2>1, <3>4
  <2>2. CASE ~(ttl > 0)
    <3>1. windowed = negated /\ ttl = 0
      BY <1>7, <1>14, <2>2 DEF A!WithCacheTtl
    <3>2. Set(windowed, n, ttl, FALSE, 5, 0)
      BY <1>13, <3>1
    <3>3. (0 = 4) <=> (ttl > 0)
      BY <2>2
    <3> WITNESS 0 \in {0, 4}
    <3> QED BY ONLY <3>2, <3>3, Zenon
  <2> QED BY <2>1, <2>2
<1>16. PICK given : given = IF args.lazycache_threshold.kind = "absent" THEN 5 ELSE args.lazycache_threshold.value
  OBVIOUS
<1>17. PICK refreshed : refreshed = IF lazy THEN A!WithLazyCache(windowed, given) ELSE windowed
  OBVIOUS
<1>18. PICK c : c = A!WithCleanup(refreshed, TRUE, 60, 80)
  OBVIOUS
<1>i. PICK interval : interval = IF args.dump_interval.kind = "number" /\ args.dump_interval.value >= 0
                                  THEN args.dump_interval.value ELSE 600
  OBVIOUS
<1>a. answer = IF args.size.kind \notin {"absent", "number"} THEN A!Refused
               ELSE IF negative /\ args.negative_ttl.kind \notin {"absent", "number"} THEN A!Refused
               ELSE IF args.cache_ttl.kind = "float" THEN A!Refused
               ELSE IF lazy /\ args.lazycache_threshold.kind \notin {"absent", "number", "float"} THEN A!Refused
               ELSE IF args.dump_file.kind # "string" THEN c
               ELSE [c EXCEPT !.dump_file = TRUE, !.dump_interval = interval]
  <2>1. answer = A!CacheInit(args)
    BY <1>1, <1>3
  <2> QED BY ONLY <2>1, <1>6, <1>8, <1>9, <1>11, <1>12, <1>14, <1>16, <1>17, <1>18, <1>i DEF A!CacheInit
<1> HIDE DEF negative, lazy
<1>19. PICK h, m : /\ Set(refreshed, n, ttl, lazy, h, m)
                   /\ m = IF lazy THEN 4 ELSE k
                   /\ h = IF lazy THEN A!Clamp(given) ELSE 5
  <2>1. CASE lazy
    <3>1. PICK v : v = A!Clamp(given)
      OBVIOUS
    <3>2. refreshed = A!WithCoordinator([windowed EXCEPT !.lazy = TRUE, !.threshold = v])
      BY <1>17, <2>1, <3>1 DEF A!WithLazyCache
    <3>3. Set([windowed EXCEPT !.lazy = TRUE, !.threshold = v], n, ttl, TRUE, v, k)
      BY <1>15, SetSteps
    <3>4. Set(refreshed, n, ttl, TRUE, v, IF k = 0 THEN 4 ELSE k)
      BY ONLY <3>2, <3>3, SetSteps, Zenon
    <3>5. (IF k = 0 THEN 4 ELSE k) = 4
      OBVIOUS
    <3> QED BY <2>1, <3>1, <3>4, <3>5
  <2>2. CASE ~lazy
    <3>1. refreshed = windowed
      BY ONLY <1>17, <2>2
    <3>2. lazy = FALSE
      BY ONLY <1>5, <2>2
    <3>3. Set(refreshed, n, ttl, lazy, 5, k)
      BY ONLY <1>15, <3>1, <3>2, Zenon
    <3> WITNESS 5, k
    <3> QED BY ONLY <2>2, <3>3, Zenon
  <2> QED BY <2>1, <2>2
<1>20. /\ Set(c, n, ttl, lazy, h, m) /\ c.pressure \in 0..100 /\ c.interval = 60
  <2>1. A!Clamp(80) \in 0..100
    BY ClampRange
  <2>2. c = [refreshed EXCEPT !.cleanup = TRUE, !.interval = 60, !.pressure = A!Clamp(80)]
    BY <1>18 DEF A!WithCleanup
  <2> QED BY <1>19, <2>1, <2>2 DEF Set, SettingNames
<1>21. \/ ~answer.ok
       \/ /\ \/ answer = c
             \/ \E x : answer = [c EXCEPT !.dump_file = TRUE, !.dump_interval = x]
          /\ lazy => args.lazycache_threshold.kind \in {"absent", "number", "float"}
  <2>1. ~A!Refused.ok
    BY DEF A!Refused
  <2>2. \/ answer = A!Refused
        \/ /\ \/ answer = c
              \/ \E x : answer = [c EXCEPT !.dump_file = TRUE, !.dump_interval = x]
           /\ lazy => args.lazycache_threshold.kind \in {"absent", "number", "float"}
    <3>2. PICK y : y = [c EXCEPT !.dump_file = TRUE, !.dump_interval = interval]
      OBVIOUS
    <3>3. \/ answer = A!Refused
          \/ /\ answer = c \/ answer = y
             /\ lazy => args.lazycache_threshold.kind \in {"absent", "number", "float"}
      BY ONLY <1>a, <3>2, Zenon
    <3> QED BY ONLY <3>2, <3>3, Zenon
  <2> QED BY <2>1, <2>2
<1>22. ASSUME answer.ok
       PROVE  /\ Set(answer, n, ttl, lazy, h, m) /\ answer.pressure \in 0..100 /\ answer.interval = 60
              /\ lazy => args.lazycache_threshold.kind \in {"absent", "number", "float"}
  BY <1>20, <1>21, <1>22 DEF Set, SettingNames
<1>23. ASSUME answer.ok PROVE h \in 0..100
  <2>1. CASE lazy
    <3>1. given \in Int
      BY <1>16, <1>22, <1>23, <2>1, CacheArgsAssumption
    <3> QED BY <1>19, <2>1, <3>1, ClampRange
  <2>2. CASE ~lazy
    BY <1>19, <2>2
  <2> QED BY <2>1, <2>2
<1>24. (m = 4) <=> (lazy \/ ttl > 0)
  BY <1>5, <1>15, <1>19
<1>25. ASSUME n >= 0 PROVE args.negative_cache.value = TRUE
  <2>1. negative
    BY <1>13, <1>25
  <2> QED BY <1>4, <2>1, CacheArgsAssumption
<1>26. answer.ok =>
         /\ (answer.coordinator = 4) <=> (answer.lazy \/ answer.cache_ttl > 0)
         /\ answer.threshold \in 0..100 /\ answer.pressure \in 0..100 /\ answer.interval >= 1
         /\ (args.cache_ttl.kind = "number" /\ args.cache_ttl.value % 256 > 0) <=> answer.cache_ttl > 0
         /\ answer.negative >= 0 => args.negative_cache.value = TRUE
  <2> SUFFICES ASSUME answer.ok
               PROVE  /\ (answer.coordinator = 4) <=> (answer.lazy \/ answer.cache_ttl > 0)
                      /\ answer.threshold \in 0..100 /\ answer.pressure \in 0..100 /\ answer.interval >= 1
                      /\ (args.cache_ttl.kind = "number" /\ args.cache_ttl.value % 256 > 0) <=> answer.cache_ttl > 0
                      /\ answer.negative >= 0 => args.negative_cache.value = TRUE
    OBVIOUS
  <2>1. /\ answer.coordinator = m /\ answer.lazy = lazy /\ answer.cache_ttl = ttl /\ answer.threshold = h
        /\ answer.negative = n /\ answer.pressure \in 0..100 /\ answer.interval = 60
    BY <1>22 DEF Set
  <2>2. (answer.coordinator = 4) <=> (answer.lazy \/ answer.cache_ttl > 0)
    BY ONLY <1>24, <2>1
  <2>3. answer.threshold \in 0..100 /\ answer.pressure \in 0..100 /\ answer.interval >= 1
    BY <1>23, <2>1
  <2>4. (args.cache_ttl.kind = "number" /\ args.cache_ttl.value % 256 > 0) <=> answer.cache_ttl > 0
    BY ONLY <1>7, <2>1
  <2>5. answer.negative >= 0 => args.negative_cache.value = TRUE
    BY <1>25, <2>1
  <2> QED BY <2>2, <2>3, <2>4, <2>5
<1> QED BY <1>3, <1>26 DEF A!CacheSettingsSound

-----------------------------------------------------------------------------
(* Upstreams *)

\* What texts are made of.  (That a literal is a string is not known to the provers.)
Tokens == STRING \union {"|", ":", "53"}

\* t is text without its leading occurrences of s, of which there are k.
Trims(t, text, s, k) ==
  /\ t \in Seq(Tokens) /\ k \in 0..Len(text)
  /\ \A i \in 1..k : text[i] = s
  /\ Len(t) = Len(text) - k /\ \A i \in 1..Len(t) : t[i] = text[k + i]
  /\ Len(t) = 0 \/ t[1] # s

LEMMA TrimSchemeTrims ==
  ASSUME NEW text \in Seq(Tokens), NEW s
  PROVE  \E k : Trims(A!TrimScheme(text, s), text, s, k)
<1>1. PICK l : l = Len(text)
  OBVIOUS
<1>2. l \in Nat
  BY <1>1
<1> DEFINE T == {k \in Nat : k <= l /\ (k = l \/ text[k + 1] # s)}
<1>3. l \in T
  BY <1>2
<1>4. PICK x \in T : \A y \in T : x <= y
  BY <1>3, NatMin
<1>5. x \in 0..l /\ (x = l \/ text[x + 1] # s)
  BY <1>2, <1>4
<1>6. ASSUME NEW i \in 1..x PROVE text[i] = s
  <2>1. i - 1 \in Nat /\ i - 1 < x /\ i - 1 <= l /\ i - 1 # l /\ i - 1 + 1 = i
    BY <1>2, <1>5
  <2>2. i - 1 \notin T
    BY <1>4, <1>5, <2>1
  <2> QED BY <2>1, <2>2
<1> HIDE DEF T
<1> DEFINE P(k) == (\A i \in 1..k : text[i] = s) /\ (k = Len(text) \/ text[k + 1] # s)
<1>7. \E k \in 0..Len(text) : P(k)
  BY <1>1, <1>5, <1>6
<1>8. PICK n : n = CHOOSE k \in 0..Len(text) : P(k)
  OBVIOUS
<1>9. n \in 0..l /\ (\A i \in 1..n : text[i] = s) /\ (n = l \/ text[n + 1] # s)
  BY <1>1, <1>7, <1>8
<1>10. PICK t : t = A!TrimScheme(text, s)
  OBVIOUS
<1>11. t = SubSeq(text, n + 1, l)
  BY <1>1, <1>8, <1>10, Zenon DEF A!TrimScheme
<1>12. \A i \in (n + 1)..l : text[i] \in Tokens
  BY <1>1, <1>2, <1>9
<1>13. /\ t \in Seq(Tokens) /\ Len(t) = IF n + 1 <= l THEN l - (n + 1) + 1 ELSE 0
       /\ \A i \in 1..(l - (n + 1) + 1) : t[i] = text[n + 1 + i - 1]
  <2>1. n + 1 \in Int /\ l \in Int
    BY <1>2, <1>9
  <2> QED BY <1>11, <1>12, <2>1, SubSeqProperties
<1>14. Len(t) = l - n /\ \A i \in 1..(l - n) : i \in 1..(l - (n + 1) + 1) /\ n + 1 + i - 1 = n + i
  BY ONLY <1>2, <1>9, <1>13
<1>15. \A i \in 1..(l - n) : t[i] = text[n + i]
  BY ONLY <1>13, <1>14
<1>16. Len(t) = 0 \/ t[1] # s
  <2>1. CASE n = l
    BY <1>2, <1>14, <2>1
  <2>2. CASE n # l
    <3>1. 1 \in 1..(l - n)
      BY <1>2, <1>9, <2>2
    <3> QED BY <1>9, <1>15, <2>2, <3>1
  <2> QED BY <2>1, <2>2
<1>17. Trims(t, text, s, n)
  BY ONLY <1>1, <1>9, <1>13, <1>14, <1>15, <1>16 DEF Trims
<1> QED BY <1>10, <1>17

\* t is a followed by r.
Joins(t, a, r) ==
  /\ t \in Seq(Tokens) /\ a \in Seq(Tokens) /\ r \in Seq(Tokens)
  /\ Len(t) = Len(a) + Len(r)
  /\ \A i \in 1..Len(a) : t[i] = a[i]
  /\ \A i \in 1..Len(r) : t[Len(a) + i] = r[i]

LEMMA JoinsIs == ASSUME NEW a \in Seq(Tokens), NEW r \in Seq(Tokens) PROVE Joins(a \o r, a, r)
<1>1. PICK t : t = a \o r
  OBVIOUS
<1>2. /\ t \in Seq(Tokens) /\ Len(t) = Len(a) + Len(r) /\ Len(a) \in Nat /\ Len(r) \in Nat
      /\ \A i \in 1..(Len(a) + Len(r)) : t[i] = IF i <= Len(a) THEN a[i] ELSE r[i - Len(a)]
  BY <1>1, ConcatProperties
<1>3. PICK m, n : m = Len(a) /\ n = Len(r)
  OBVIOUS
<1>4. /\ m \in Nat /\ n \in Nat /\ \A i \in 1..(m + n) : t[i] = IF i <= m THEN a[i] ELSE r[i - m]
  BY ONLY <1>2, <1>3
<1>5. \A i \in 1..m : t[i] = a[i]
  BY ONLY <1>4
<1>6. ASSUME NEW i \in 1..n PROVE t[m + i] = r[i]
  <2>1. m + i \in 1..(m + n) /\ ~(m + i <= m) /\ m + i - m = i
    BY ONLY <1>4, <1>6
  <2>2. t[m + i] = r[m + i - m]
    BY ONLY <1>4, <2>1
  <2> QED BY ONLY <2>1, <2>2
<1>7. Joins(t, a, r)
  BY <1>2, <1>3, <1>5, <1>6 DEF Joins
<1> QED BY <1>1, <1>7

\* What follows the text, and does not begin with the scheme, stays.
LEMMA TrimJoined ==
  ASSUME NEW text, NEW a, NEW r, Joins(text, a, r), NEW s, Len(r) > 0, r[1] # s,
         NEW u, NEW k, Trims(u, a, s, k), NEW v, NEW m, Trims(v, text, s, m)
  PROVE  Joins(v, u, r)
<1>1. PICK x, y : x = Len(a) /\ y = Len(r)
  OBVIOUS
<1>2. x \in Nat /\ y \in Nat /\ y > 0
  BY <1>1 DEF Joins
<1>3. /\ Len(text) = x + y /\ (\A i \in 1..x : text[i] = a[i]) /\ (\A i \in 1..y : text[x + i] = r[i])
      /\ r \in Seq(Tokens)
  BY ONLY <1>1, Joins(text, a, r) DEF Joins
<1>4. /\ u \in Seq(Tokens) /\ k \in 0..x /\ (\A i \in 1..k : a[i] = s) /\ Len(u) = x - k
      /\ (\A i \in 1..(x - k) : u[i] = a[k + i]) /\ (x - k = 0 \/ u[1] # s)
  <2>1. Len(u) = x - k
    BY ONLY <1>1, Trims(u, a, s, k) DEF Trims
  <2>2. /\ u \in Seq(Tokens) /\ k \in 0..x /\ (\A i \in 1..k : a[i] = s)
        /\ (\A i \in 1..Len(u) : u[i] = a[k + i]) /\ (Len(u) = 0 \/ u[1] # s)
    BY ONLY <1>1, Trims(u, a, s, k) DEF Trims
  <2> QED BY ONLY <2>1, <2>2
<1>5. /\ v \in Seq(Tokens) /\ m \in 0..(x + y) /\ (\A i \in 1..m : text[i] = s) /\ Len(v) = x + y - m
      /\ (\A i \in 1..(x + y - m) : v[i] = text[m + i]) /\ (x + y - m = 0 \/ v[1] # s)
  <2>1. PICK n : n = Len(text)
    OBVIOUS
  <2>2. n = x + y
    BY ONLY <1>3, <2>1
  <2>3. Len(v) = n - m
    BY ONLY <2>1, Trims(v, text, s, m) DEF Trims
  <2>4. /\ v \in Seq(Tokens) /\ m \in 0..n /\ (\A i \in 1..m : text[i] = s)
        /\ (\A i \in 1..Len(v) : v[i] = text[m + i]) /\ (Len(v) = 0 \/ v[1] # s)
    BY ONLY <2>1, Trims(v, text, s, m) DEF Trims
  <2>5. Len(v) = x + y - m /\ m \in 0..(x + y)
    <3>1. m \in 0..n /\ n \in Nat
      BY ONLY <1>2, <2>2, <2>4
    <3> QED BY ONLY <1>2, <2>2, <2>3, <3>1
  <2>6. \A i \in 1..(x + y - m) : v[i] = text[m + i]
    BY ONLY <2>4, <2>5
  <2>7. x + y - m = 0 \/ v[1] # s
    BY ONLY <2>4, <2>5
  <2> QED BY ONLY <2>4, <2>5, <2>6, <2>7
<1>6. ~(m < k)
  <2>1. SUFFICES ASSUME m < k PROVE FALSE
    OBVIOUS
  <2>2. m + 1 \in 1..k /\ m + 1 \in 1..x /\ 1 \in 1..(x + y - m) /\ x + y - m # 0
    BY ONLY <1>2, <1>4, <1>5, <2>1
  <2>3. v[1] = text[m + 1] /\ text[m + 1] = a[m + 1] /\ a[m + 1] = s
    BY ONLY <1>3, <1>4, <1>5, <2>2
  <2> QED BY ONLY <1>5, <2>2, <2>3
<1>7. ~(k < m)
  <2>1. SUFFICES ASSUME k < m PROVE FALSE
    OBVIOUS
  <2>2. k + 1 \in 1..m
    BY ONLY <1>2, <1>4, <1>5, <2>1
  <2>3. text[k + 1] = s
    BY ONLY <1>5, <2>2
  <2>4. CASE k < x
    <3>1. k + 1 \in 1..x /\ 1 \in 1..(x - k) /\ x - k # 0
      BY ONLY <1>2, <1>4, <2>4
    <3>2. u[1] = a[k + 1] /\ text[k + 1] = a[k + 1]
      BY ONLY <1>3, <1>4, <3>1
    <3> QED BY ONLY <1>4, <2>3, <3>1, <3>2
  <2>5. CASE k = x
    <3>1. text[x + 1] = r[1]
      BY ONLY <1>2, <1>3
    <3> QED BY <2>3, <2>5, <3>1
  <2> QED BY <1>2, <1>4, <2>4, <2>5
<1>8. k = m
  BY ONLY <1>2, <1>4, <1>5, <1>6, <1>7
<1>9. PICK l : l = x - k
  OBVIOUS
<1>10. l \in Nat /\ x + y - m = l + y /\ k + l = x
  BY ONLY <1>2, <1>4, <1>8, <1>9
<1>11. ASSUME NEW i \in 1..l PROVE v[i] = u[i]
  <2>1. i \in 1..(l + y) /\ k + i \in 1..x
    BY ONLY <1>2, <1>4, <1>9, <1>10, <1>11
  <2>2. v[i] = text[k + i] /\ text[k + i] = a[k + i] /\ u[i] = a[k + i]
    <3>1. v[i] = text[k + i]
      BY ONLY <1>5, <1>8, <1>10, <2>1
    <3>2. text[k + i] = a[k + i]
      BY ONLY <1>3, <2>1
    <3>3. u[i] = a[k + i]
      BY ONLY <1>4, <1>9, <1>11
    <3> QED BY <3>1, <3>2, <3>3
  <2> QED BY <2>2
<1>12. ASSUME NEW i \in 1..y PROVE v[l + i] = r[i]
  <2>0. k \in Int /\ i \in 1..y
    BY ONLY <1>4, <1>12
  <2>1. l + i \in 1..(l + y) /\ k + (l + i) = x + i
    BY ONLY <1>2, <1>10, <2>0
  <2>2. v[l + i] = text[k + (l + i)] /\ text[x + i] = r[i]
    <3>1. v[l + i] = text[k + (l + i)]
      BY ONLY <1>5, <1>8, <1>10, <2>1
    <3>2. text[x + i] = r[i]
      BY ONLY <1>3, <1>12
    <3> QED BY <3>1, <3>2
  <2> QED BY ONLY <2>1, <2>2
<1>13. Len(u) = l /\ Len(v) = l + y
  BY ONLY <1>4, <1>5, <1>9, <1>10
<1> QED BY ONLY <1>1, <1>3, <1>4, <1>5, <1>11, <1>12, <1>13 DEF Joins

\* Both schemes at once.
LEMMA TrimmedJoined ==
  ASSUME NEW a \in Seq(Tokens), NEW r \in Seq(Tokens), Len(r) > 0, r[1] = "|"
  PROVE  Joins(A!Trimmed(a \o r), A!Trimmed(a), r)
<1>1. PICK text : text = a \o r
  OBVIOUS
<1>2. Joins(text, a, r)
  BY <1>1, JoinsIs
<1>3. PICK u, v : u = A!TrimScheme(a, "udp://") /\ v = A!TrimScheme(text, "udp://")
  OBVIOUS
<1>4. text \in Seq(Tokens)
  BY <1>2 DEF Joins
<1>5. Joins(v, u, r)
  <2>1. PICK k : Trims(u, a, "udp://", k)
    BY <1>3, TrimSchemeTrims
  <2>2. PICK m : Trims(v, text, "udp://", m)
    BY <1>3, <1>4, TrimSchemeTrims
  <2>3. r[1] # "udp://"
    OBVIOUS
  <2> QED BY <1>2, <2>1, <2>2, <2>3, TrimJoined
<1>6. u \in Seq(Tokens) /\ v \in Seq(Tokens)
  BY <1>5 DEF Joins
<1>7. PICK w, z : w = A!TrimScheme(u, "tcp://") /\ z = A!TrimScheme(v, "tcp://")
  OBVIOUS
<1>8. Joins(z, w, r)
  <2>1. PICK k : Trims(w, u, "tcp://", k)
    BY <1>6, <1>7, TrimSchemeTrims
  <2>2. PICK m : Trims(z, v, "tcp://", m)
    BY <1>6, <1>7, TrimSchemeTrims
  <2>3. r[1] # "tcp://"
    OBVIOUS
  <2> QED BY <1>5, <2>1, <2>2, <2>3, TrimJoined
<1> QED BY <1>1, <1>3, <1>7, <1>8 DEF A!Trimmed

\* Trimming takes no new element into a text.
LEMMA TrimmedFrom ==
  ASSUME NEW a \in Seq(Tokens)
  PROVE  /\ A!Trimmed(a) \in Seq(Tokens)
         /\ \A i \in 1..Len(A!Trimmed(a)) : \E j \in 1..Len(a) : A!Trimmed(a)[i] = a[j]
<1>1. PICK u : u = A!TrimScheme(a, "udp://")
  OBVIOUS
<1>2. PICK k : Trims(u, a, "udp://", k)
  BY <1>1, TrimSchemeTrims
<1>3. PICK w : w = A!TrimScheme(u, "tcp://")
  OBVIOUS
<1>4. u \in Seq(Tokens)
  BY <1>2 DEF Trims
<1>5. PICK m : Trims(w, u, "tcp://", m)
  BY <1>3, <1>4, TrimSchemeTrims
<1>6. PICK x, y, z : x = Len(a) /\ y = Len(u) /\ z = Len(w)
  OBVIOUS
<1>7. /\ x \in Nat /\ y \in Nat /\ z \in Nat /\ k \in 0..x /\ m \in 0..y /\ y = x - k /\ z = y - m
      /\ \A i \in 1..y : u[i] = a[k + i]
      /\ \A i \in 1..z : w[i] = u[m + i]
  BY <1>2, <1>4, <1>5, <1>6 DEF Trims
<1>8. ASSUME NEW i \in 1..z PROVE \E j \in 1..x : w[i] = a[j]
  <2>1. m + i \in 1..y /\ k + (m + i) \in 1..x
    <3>1. x \in Nat /\ k \in Nat /\ m \in Nat /\ i \in Nat /\ 1 <= i /\ i <= (x - k) - m
      BY ONLY <1>7, <1>8
    <3> QED BY ONLY <1>7, <3>1
  <2>2. w[i] = a[k + (m + i)]
    BY ONLY <1>7, <1>8, <2>1
  <2> QED BY <2>1, <2>2
<1>9. w = A!Trimmed(a) /\ w \in Seq(Tokens)
  BY <1>1, <1>3, <1>5 DEF A!Trimmed, Trims
<1> QED BY <1>6, <1>8, <1>9

\* What an address is made into is a text without a "|".
LEMMA NormalizedFrom ==
  ASSUME NEW a \in Seq(Tokens), \A i \in 1..Len(a) : a[i] # "|"
  PROVE  A!NormalizeAddr(a) \in Seq(Tokens) /\ \A i \in 1..Len(A!NormalizeAddr(a)) : A!NormalizeAddr(a)[i] # "|"
<1>1. PICK b : b = A!Trimmed(a)
  OBVIOUS
<1>2. b \in Seq(Tokens) /\ \A i \in 1..Len(b) : b[i] # "|"
  BY <1>1, TrimmedFrom
<1>3. PICK p : p = <<":", "53">>
  OBVIOUS
<1>4. p \in Seq(Tokens) /\ Len(p) = 2 /\ p[1] = ":" /\ p[2] = "53"
  <2>1. PICK e \in Tokens, f \in Tokens : e = ":" /\ f = "53"
    BY DEF Tokens
  <2>2. p = <<e, f>>
    BY ONLY <1>3, <2>1
  <2>3. p \in Seq(Tokens) /\ Len(p) = 2 /\ p[1] = e /\ p[2] = f
    BY ONLY <2>2, e \in Tokens, f \in Tokens
  <2> QED BY ONLY <2>1, <2>3
<1>5. PICK c : c = b \o p
  OBVIOUS
<1>6. Joins(c, b, p)
  BY <1>2, <1>4, <1>5, JoinsIs
<1>7. c \in Seq(Tokens) /\ \A i \in 1..Len(c) : c[i] # "|"
  <2>1. PICK l : l = Len(b)
    OBVIOUS
  <2>2. l \in Nat /\ Len(c) = l + 2 /\ (\A i \in 1..l : c[i] = b[i]) /\ c[l + 1] = p[1] /\ c[l + 2] = p[2]
    BY <1>2, <1>4, <1>6, <2>1 DEF Joins
  <2>3. ASSUME NEW i \in 1..(l + 2) PROVE c[i] # "|"
    <3>1. i \in 1..l \/ i = l + 1 \/ i = l + 2
      BY <2>2
    <3> QED BY <1>2, <1>4, <2>1, <2>2, <3>1
  <2> QED BY <1>6, <2>2, <2>3 DEF Joins
<1>8. A!NormalizeAddr(a) \in {a, b, c}
  BY <1>1, <1>3, <1>5, Zenon DEF A!NormalizeAddr
<1> QED BY <1>2, <1>7, <1>8

\* An address with a port is made into the same, whatever tag follows it.
LEMMA NormalizedJoined ==
  ASSUME NEW a \in Seq(Tokens), NEW r \in Seq(Tokens), Len(r) > 0, r[1] = "|", A!HasColon(A!Trimmed(a))
  PROVE  Joins(A!NormalizeAddr(a \o r), A!NormalizeAddr(a), r)
<1>1. PICK text, u, v : text = a \o r /\ u = A!Trimmed(a) /\ v = A!Trimmed(text)
  OBVIOUS
<1>2. Joins(text, a, r) /\ Joins(v, u, r)
  BY <1>1, JoinsIs, TrimmedJoined
<1>3. Len(a) \in Nat /\ Len(r) \in Nat /\ Len(u) \in Nat /\ Len(v) = Len(u) + Len(r)
  BY <1>2 DEF Joins
<1>4. A!HasColon(v)
  <2>1. PICK i \in 1..Len(u) : u[i] \in A!Schemes \union {":"}
    BY <1>1 DEF A!HasColon
  <2>2. v[i] = u[i] /\ i \in 1..Len(v)
    BY <1>2, <1>3, <2>1 DEF Joins
  <2> QED BY <2>1, <2>2 DEF A!HasColon
<1>5. a # <<>> /\ 1 \in 1..Len(a)
  <2>1. PICK i \in 1..Len(u) : TRUE
    BY <1>1 DEF A!HasColon
  <2>2. \E j \in 1..Len(a) : TRUE
    BY <1>1, <2>1, TrimmedFrom
  <2> QED BY <1>3, <2>2
<1>6. text # <<>> /\ text[1] = a[1]
  <2>1. text[1] = a[1] /\ Len(text) > 0
    BY <1>2, <1>3, <1>5 DEF Joins
  <2> QED BY <2>1
<1>7. A!NormalizeAddr(a) = IF a[1] \in {"http://", "https://"} THEN a ELSE u
  BY <1>1, <1>5, Zenon DEF A!NormalizeAddr
<1>8. A!NormalizeAddr(text) = IF a[1] \in {"http://", "https://"} THEN text ELSE v
  BY <1>1, <1>4, <1>6, Zenon DEF A!NormalizeAddr
<1>9. CASE a[1] \in {"http://", "https://"}
  BY <1>1, <1>2, <1>7, <1>8, <1>9, Zenon
<1>10. CASE ~(a[1] \in {"http://", "https://"})
  BY <1>1, <1>2, <1>7, <1>8, <1>10, Zenon
<1> QED BY <1>9, <1>10

\* A text without a "|" is an upstream without a tag.
LEMMA UntaggedText ==
  ASSUME NEW a \in Seq(Tokens), \A i \in 1..Len(a) : a[i] # "|"
  PROVE  A!UpstreamOfText(a) = [ok |-> TRUE, addr |-> A!NormalizeAddr(a), tag |-> <<>>]
<1>1. PICK e : e = A!NormalizeAddr(a)
  OBVIOUS
<1>2. \A i \in 1..Len(e) : e[i] # "|"
  BY <1>1, NormalizedFrom
<1>3. {i \in 1..Len(e) : e[i] = "|"} = {}
  BY <1>2
<1> QED BY <1>1, <1>3, Zenon DEF A!UpstreamOfText

\* A text is split at its first "|".
LEMMA TaggedText ==
  ASSUME NEW e, NEW a \in Seq(Tokens), \A i \in 1..Len(a) : a[i] # "|", NEW tag \in Seq(Tokens),
         NEW r, r = <<"|">> \o tag, Joins(e, a, r), NEW text, e = A!NormalizeAddr(text)
  PROVE  A!UpstreamOfText(text) = [ok |-> TRUE, addr |-> a, tag |-> tag]
<1>1. PICK x, y : x = Len(a) /\ y = Len(tag)
  OBVIOUS
<1>2. x \in Nat /\ y \in Nat
  BY <1>1
<1>3. PICK b : b = <<"|">>
  OBVIOUS
<1>4. b \in Seq(Tokens) /\ Len(b) = 1 /\ b[1] = "|"
  <2>1. PICK f \in Tokens : f = "|"
    BY DEF Tokens
  <2>2. b = <<f>>
    BY ONLY <1>3, <2>1
  <2>3. b \in Seq(Tokens) /\ Len(b) = 1 /\ b[1] = f
    BY ONLY <2>2, f \in Tokens
  <2> QED BY ONLY <2>1, <2>3
<1>5. Joins(r, b, tag)
  <2>1. r = b \o tag
    BY <1>3, Zenon
  <2> QED BY ONLY <1>4, <2>1, tag \in Seq(Tokens), JoinsIs
<1>6. Len(r) = 1 + y /\ r[1] = "|" /\ \A i \in 1..y : r[1 + i] = tag[i]
  BY ONLY <1>1, <1>2, <1>4, <1>5 DEF Joins
<1>7. /\ e \in Seq(Tokens) /\ Len(e) = x + (1 + y) /\ (\A i \in 1..x : e[i] = a[i])
      /\ \A i \in 1..(1 + y) : e[x + i] = r[i]
  BY ONLY <1>1, <1>6, Joins(e, a, r) DEF Joins
<1>8. e[x + 1] = "|" /\ x + 1 \in 1..Len(e)
  <2>1. 1 \in 1..(1 + y) /\ x + 1 \in 1..(x + (1 + y))
    BY ONLY <1>2
  <2> QED BY ONLY <1>6, <1>7, <2>1
<1>9. \A i \in 1..x : e[i] # "|"
  BY ONLY <1>1, <1>7, \A i \in 1..Len(a) : a[i] # "|"
<1>10. PICK bars : bars = {i \in 1..Len(e) : e[i] = "|"}
  OBVIOUS
<1>11. x + 1 \in bars /\ \A j \in bars : x + 1 <= j
  <2>1. x + 1 \in bars
    BY ONLY <1>8, <1>10
  <2>2. ASSUME NEW j \in bars PROVE x + 1 <= j
    <3>1. j \in 1..(x + (1 + y)) /\ e[j] = "|"
      BY ONLY <1>7, <1>10, <2>2
    <3>2. j \notin 1..x
      BY ONLY <1>9, <3>1
    <3> QED BY ONLY <1>2, <3>1, <3>2
  <2> QED BY <2>1, <2>2
<1>12. PICK bar : bar = CHOOSE i \in bars : \A j \in bars : i <= j
  OBVIOUS
<1>13. bar \in bars /\ \A j \in bars : bar <= j
  BY ONLY <1>11, <1>12
<1>14. bar = x + 1
  <2>1. bar \in Int
    BY ONLY <1>10, <1>13
  <2>2. bar <= x + 1 /\ x + 1 <= bar
    BY ONLY <1>11, <1>13
  <2> QED BY ONLY <1>2, <2>1, <2>2
<1>15. PICK l : l = Len(e)
  OBVIOUS
<1>16. A!UpstreamOfText(text) = [ok |-> TRUE, addr |-> SubSeq(e, 1, bar - 1), tag |-> SubSeq(e, bar + 1, l)]
  <2>1. bars # {}
    BY ONLY <1>11
  <2> QED BY <1>10, <1>12, <1>15, <2>1, Zenon DEF A!UpstreamOfText
<1>17. bar - 1 = x /\ bar + 1 = x + 2 /\ l = x + 1 + y /\ x + 2 \in Int /\ l \in Int /\ x \in Int
  <2>1. l = x + (1 + y)
    BY ONLY <1>7, <1>15
  <2> QED BY ONLY <1>2, <1>14, <2>1
<1>18. SubSeq(e, 1, x) = a
  <2>1. PICK c : c = SubSeq(e, 1, x)
    OBVIOUS
  <2>2. \A i \in 1..x : e[i] \in Tokens
    BY ONLY <1>1, <1>7, a \in Seq(Tokens)
  <2>3. /\ c \in Seq(Tokens) /\ Len(c) = IF 1 <= x THEN x - 1 + 1 ELSE 0
        /\ \A i \in 1..(x - 1 + 1) : c[i] = e[1 + i - 1]
    BY <1>17, <2>1, <2>2, SubSeqProperties
  <2>4. Len(c) = x /\ \A i \in 1..x : i \in 1..(x - 1 + 1) /\ 1 + i - 1 = i
    BY ONLY <1>2, <2>3
  <2>5. \A i \in 1..x : c[i] = a[i]
    BY ONLY <1>7, <2>3, <2>4
  <2>6. c = a
    BY ONLY <1>1, <2>3, <2>4, <2>5, a \in Seq(Tokens), SeqEqual
  <2> QED BY <2>1, <2>6
<1>19. SubSeq(e, x + 2, l) = tag
  <2>1. PICK c : c = SubSeq(e, x + 2, l)
    OBVIOUS
  <2>2. \A i \in (x + 2)..l : e[i] \in Tokens
    <3>1. \A i \in (x + 2)..l : i \in 1..Len(e)
      BY ONLY <1>2, <1>15, <1>17
    <3> QED BY <1>7, <3>1
  <2>3. /\ c \in Seq(Tokens) /\ Len(c) = IF x + 2 <= l THEN l - (x + 2) + 1 ELSE 0
        /\ \A i \in 1..(l - (x + 2) + 1) : c[i] = e[x + 2 + i - 1]
    BY <1>17, <2>1, <2>2, SubSeqProperties
  <2>4. Len(c) = y /\ \A i \in 1..y : i \in 1..(l - (x + 2) + 1) /\ x + 2 + i - 1 = x + (1 + i) /\ 1 + i \in 1..(1 + y)
    <3>1. l - (x + 2) + 1 = y /\ (x + 2 <= l <=> 1 <= y)
      BY ONLY <1>2, <1>17
    <3>2. Len(c) = y
      BY ONLY <1>2, <2>3, <3>1
    <3> QED BY ONLY <1>2, <3>1, <3>2
  <2>5. ASSUME NEW i \in 1..y PROVE c[i] = tag[i]
    <3>1. c[i] = e[x + (1 + i)]
      BY ONLY <2>3, <2>4, <2>5
    <3>2. e[x + (1 + i)] = r[1 + i]
      BY ONLY <1>7, <2>4, <2>5
    <3>3. r[1 + i] = tag[i]
      BY ONLY <1>6, <2>5
    <3> QED BY <3>1, <3>2, <3>3
  <2>6. c = tag
    BY ONLY <1>1, <2>3, <2>4, <2>5, tag \in Seq(Tokens), SeqEqual
  <2> QED BY <2>1, <2>6
<1> QED BY <1>16, <1>17, <1>18, <1>19, Zenon

LEMMA UpstreamsSound ==
  ASSUME CallsInv, case.of = "upstream", answer # Pending
  PROVE  /\ A!SameUpstream(case.addr, case.tag)
         /\ answer.core.upstreams[1].addr = answer.core.upstreams[2].addr
         /\ answer.concurrent <=> case.concurrent = 2
<1>1. case \in UpstreamCases /\ answer = Upstream
  BY DEF CallsInv, Answers
<1>2. PICK a \in Hosts, tag \in Tags, c \in {1, 2} : case = [of |-> "upstream", addr |-> a, tag |-> tag, concurrent |-> c]
  BY <1>1 DEF UpstreamCases
<1>3. case.addr = a /\ case.tag = tag /\ case.concurrent = c
  BY <1>2
<1>4. a \in Seq(Tokens) /\ tag \in Seq(Tokens) /\ \A i \in 1..Len(a) : a[i] # "|"
  <2>1. a \in Seq(STRING) /\ tag \in Seq(STRING) /\ \A i \in 1..Len(a) : a[i] # "|"
    BY UpstreamAssumption
  <2>2. STRING \subseteq Tokens
    BY DEF Tokens
  <2> QED BY <2>1, <2>2, SeqMonotonic
<1>5. PICK addr : addr = A!NormalizeAddr(a)
  OBVIOUS
<1>6. addr \in Seq(Tokens) /\ \A i \in 1..Len(addr) : addr[i] # "|"
  BY <1>4, <1>5, NormalizedFrom
<1>7. A!SameUpstream(a, tag)
  <2>1. SUFFICES ASSUME A!HasColon(A!Trimmed(a))
                 PROVE  A!UpstreamOfText(a \o <<"|">> \o tag) =
                        A!UpstreamOfMap([addr |-> [kind |-> "string", value |-> a], tag |-> [kind |-> "string", value |-> tag]])
    BY DEF A!SameUpstream
  <2>2. PICK b : b = <<"|">>
    OBVIOUS
  <2>3. b \in Seq(Tokens) /\ Len(b) = 1 /\ b[1] = "|"
    <3>1. PICK f \in Tokens : f = "|"
      BY DEF Tokens
    <3>2. b = <<f>>
      BY ONLY <2>2, <3>1
    <3>3. b \in Seq(Tokens) /\ Len(b) = 1 /\ b[1] = f
      BY ONLY <3>2, f \in Tokens
    <3> QED BY ONLY <3>1, <3>3
  <2>4. PICK r : r = b \o tag
    OBVIOUS
  <2>5. (a \o b) \o tag = a \o r
    BY ONLY <1>4, <2>3, <2>4, ConcatAssociative
  <2>6. Joins(r, b, tag)
    BY ONLY <1>4, <2>3, <2>4, JoinsIs
  <2>7. r \in Seq(Tokens) /\ Len(r) > 0 /\ r[1] = "|"
    <3>1. r \in Seq(Tokens) /\ Len(r) = 1 + Len(tag) /\ Len(tag) \in Nat /\ r[1] = "|"
      BY <1>4, <2>3, <2>6 DEF Joins
    <3> QED BY ONLY <3>1
  <2>8. PICK text : text = a \o r
    OBVIOUS
  <2>9. Joins(A!NormalizeAddr(text), addr, r)
    BY <1>4, <1>5, <2>1, <2>7, <2>8, NormalizedJoined
  <2>10. r = <<"|">> \o tag
    BY <2>2, <2>4, Zenon
  <2>11. A!UpstreamOfText(text) = [ok |-> TRUE, addr |-> addr, tag |-> tag]
    BY ONLY <1>4, <1>6, <2>9, <2>10, TaggedText, Zenon
  <2>12. A!UpstreamOfMap([addr |-> [kind |-> "string", value |-> a], tag |-> [kind |-> "string", value |-> tag]]) =
         [ok |-> TRUE, addr |-> addr, tag |-> tag]
    BY <1>5 DEF A!UpstreamOfMap
  <2>13. a \o <<"|">> \o tag = text
    BY <2>2, <2>5, <2>8, Zenon
  <2> QED BY <2>11, <2>12, <2>13, Zenon
<1>8. PICK item : item = [kind |-> "map", value |-> [addr |-> Text(a), tag |-> Text(tag)]]
  OBVIOUS
<1>9. PICK first : first = Text(a)
  OBVIOUS
<1>10. A!UpstreamOf(first) = [ok |-> TRUE, addr |-> addr, tag |-> <<>>]
  <2>1. first.kind = "string" /\ first.value = a
    BY <1>9 DEF Text
  <2>2. A!UpstreamOf(first) = A!UpstreamOfText(a)
    BY <2>1 DEF A!UpstreamOf
  <2> QED BY <1>4, <1>5, <2>2, UntaggedText
<1>11. A!UpstreamOf(item) = [ok |-> TRUE, addr |-> addr, tag |-> tag]
  <2>1. PICK map : map = [addr |-> Text(a), tag |-> Text(tag)]
    OBVIOUS
  <2>2. item.kind = "map" /\ item.value = map
    BY <1>8, <2>1
  <2>3. A!UpstreamOf(item) = A!UpstreamOfMap(map)
    BY <2>2 DEF A!UpstreamOf
  <2>4. map.addr.kind = "string" /\ map.addr.value = a /\ map.tag.kind = "string" /\ map.tag.value = tag
    BY <2>1 DEF Text
  <2> QED BY <1>5, <2>3, <2>4 DEF A!UpstreamOfMap
<1>12. PICK list : list = <<first, item>>
  OBVIOUS
<1>13. PICK conc : conc = [kind |-> "number", value |-> c]
  OBVIOUS
<1>14. PICK args : args = [upstreams |-> [kind |-> "list", value |-> list],
                           timeout |-> A!Absent, max_attempts |-> A!Absent, strategy |-> A!Absent, health_checks |-> A!Absent,
                           concurrent |-> conc]
  OBVIOUS
<1>15. answer = A!ForwardInit(args)
  BY <1>1, <1>3, <1>8, <1>9, <1>12, <1>13, <1>14, Zenon DEF Upstream
<1>16. /\ args.upstreams.kind = "list" /\ args.upstreams.value = list
       /\ args.timeout.kind = "absent" /\ args.max_attempts.kind = "absent" /\ args.strategy.kind = "absent"
       /\ args.concurrent.kind = "number" /\ args.concurrent.value = c
  BY <1>13, <1>14 DEF A!Absent
<1>17. Len(list) = 2 /\ list[1] = first /\ list[2] = item
  BY <1>12
<1>18. PICK ups : ups = [i \in 1..Len(args.upstreams.value) |-> A!UpstreamOf(args.upstreams.value[i])]
  OBVIOUS
<1>19. ups = [i \in 1..2 |-> A!UpstreamOf(list[i])]
  BY <1>16, <1>17, <1>18
<1>20. ups[1] = A!UpstreamOf(first) /\ ups[2] = A!UpstreamOf(item) /\ Len(ups) = 2
  BY <1>17, <1>19
<1>21. ~\E i \in 1..Len(ups) : ~ups[i].ok
  <2>1. ups[1].ok /\ ups[2].ok
    BY <1>10, <1>11, <1>20
  <2> QED BY <1>20, <2>1
<1>22. PICK core : core = A!FromArgs(args)
  OBVIOUS
<1>23. core.ok /\ core.upstreams = ups
  <2>1. PICK t, s, h, n : core = [ok |-> TRUE, upstreams |-> ups, timeout |-> t, strategy |-> s, health_checks |-> h, max_attempts |-> n]
    BY <1>16, <1>18, <1>21, <1>22 DEF A!FromArgs
  <2> QED BY ONLY <2>1
<1>24. answer = [ok |-> TRUE, core |-> core, concurrent |-> args.concurrent.kind = "number" /\ args.concurrent.value > 1]
  BY <1>15, <1>22, <1>23, Zenon DEF A!ForwardInit
<1>25. PICK races \in BOOLEAN : races = (args.concurrent.kind = "number" /\ args.concurrent.value > 1)
  OBVIOUS
<1>26. answer = [ok |-> TRUE, core |-> core, concurrent |-> races]
  BY <1>24, <1>25, Zenon
<1>27. answer.core = core /\ answer.concurrent = races
  BY ONLY <1>26
<1>28. races <=> c = 2
  <2>1. c > 1 <=> c = 2
    OBVIOUS
  <2>2. args.concurrent.value > 1 <=> c = 2
    BY ONLY <1>16, <2>1, Zenon
  <2> QED BY ONLY <1>16, <1>25, <2>2, Zenon
<1>29. ups[1].addr = ups[2].addr
  BY <1>10, <1>11, <1>20
<1> QED BY <1>3, <1>7, <1>23, <1>27, <1>28, <1>29

\* ArgumentsAreSound: a cache that serves stale answers or refreshes ahead has its
\* coordinator and no other has, with thresholds that are fractions; "addr|tag" and
\* the mapping of addr and tag are one upstream if the address has a port or a scheme
\* of its own (without one nothing is claimed of them), and so are the two forms of any
\* address without a tag; two queries share a key of the cache just when they ask the
\* same with the same bits (cache/mod.rs init and make_key, forward/builder.rs
\* from_args), for any arguments, addresses, tags and names.
THEOREM ArgumentsAreSound == ServicesSpec => []ArgumentsSound
<1>1. CallsInv => ArgumentsSound
  BY SettingsSound, UpstreamsSound, KeysSound DEF ArgumentsSound
<1> QED BY <1>1, CallsAnswered, PTL
=============================================================================
