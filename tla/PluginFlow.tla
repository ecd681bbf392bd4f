----------------------------- MODULE PluginFlow -----------------------------
(***************************************************************************)
(* How a request runs through the plugins that PluginBuilder built:        *)
(* PluginHandler::handle (src/src/plugin/mod.rs), SequencePlugin::execute, *)
(* FallbackPlugin::execute and the flow plugins accept, reject, return,    *)
(* jump and goto.                                                          *)
(*                                                                         *)
(* Plugins steer the flow through the request's Context: a RETURN_FLAG, a  *)
(* jump_target and a goto_label in its metadata, which the sequences on    *)
(* the call stack and the handler below them read and remove.  The nested  *)
(* execute() calls are the frames of `stack'; ctl says whether a plugin is *)
(* about to be called, the top frame is to take its next step, or a call   *)
(* has just returned to the top frame with `outcome'.                      *)
(***************************************************************************)
EXTENDS PluginBuilder

CONSTANTS Entry,        \* the plugin a server hands its requests to
          Data,         \* what records an answer may carry
          None          \* no label, no response, no object

VARIABLES ctx,          \* the Context: response and metadata
          ctl,          \* what happens next
          callee,       \* the object to call, when ctl = "call"
          outcome,      \* the result of the call, when ctl = "result"
          stack,        \* the active sequence and fallback calls
          reply,        \* what handle() returned
          stored,       \* what each cache has stored for the request's key
          hist          \* history: what has happened to this request

flowVars == <<ctx, ctl, callee, outcome, stack, reply, stored, hist>>
vars == <<buildVars, flowVars>>

\* A response has records, has none, or reports an error.
Answer(d) == [code |-> "answer", data |-> d]
Responses == {Answer(d) : d \in Data}
             \cup {[code |-> "nodata", data |-> None], [code |-> "rcode", data |-> None]}

FreshCtx(background) ==
  [response |-> None, ret |-> FALSE, jump |-> None, goto |-> None,
   fromCache |-> FALSE, background |-> background]

NoReply == [kind |-> "none", response |-> None]
NoHistory == [accepted |-> FALSE, escaped |-> FALSE]

FlowInit ==
  /\ ctx = FreshCtx(FALSE)
  /\ ctl = "idle" /\ callee = None /\ outcome = "ok"
  /\ stack = <<>> /\ reply = NoReply
  /\ stored = << >>
  /\ hist = NoHistory

Top == stack[Len(stack)]
Pop == SubSeq(stack, 1, Len(stack) - 1)
WithTop(frame) == Append(Pop, frame)
OnTop(kind) == stack # <<>> /\ Kind(Top.obj) = kind

Call(id) == ctl' = "call" /\ callee' = id /\ UNCHANGED outcome
Result(o) == ctl' = "result" /\ outcome' = o /\ callee' = None
Continue(c) == ctl' = c /\ callee' = None /\ UNCHANGED outcome

Calling(kinds) == ctl = "call" /\ Kind(callee) \in kinds

-----------------------------------------------------------------------------
(* The plugins that do not call others.                                    *)

\* Any executable plugin (forward, hosts, ttl, ...): it fails, or succeeds
\* having set a response, dropped it, or left it alone.
ExecPlugin ==
  /\ Calling({"plugin"})
  /\ \/ /\ Result("err")
        /\ hist' = [hist EXCEPT !.escaped =
                      \/ @
                      \/ \A i \in 1..Len(stack) : Kind(stack[i].obj) # "fallback"]
        /\ UNCHANGED ctx
     \/ /\ Result("ok")
        /\ \E r \in {ctx.response, None} \cup Responses :
             ctx' = [ctx EXCEPT !.response = r]
        /\ UNCHANGED hist
  /\ UNCHANGED <<stack, reply, stored>>

\* What CachePlugin::try_store_response stores (negative_cache is off by
\* default; an answer stands for one with a positive TTL).
Storable(r) == r # None /\ r.code = "answer"

Stores(id) == Insert(stored, id, ctx.response)

\* CachePlugin::execute: nothing more once a response came from a cache; a
\* lookup while there is no response, which a background refresh skips; a
\* store otherwise.
ExecCache ==
  /\ Calling({"cache"})
  /\ Result("ok")
  /\ \/ /\ ctx.response = None /\ ~ctx.fromCache /\ ~ctx.background   \* a hit
        /\ \E d \in Data :
             ctx' = [ctx EXCEPT !.response = Answer(d), !.fromCache = TRUE, !.ret = TRUE]
        /\ UNCHANGED stored
     \/ /\ ctx.response = None \/ ctx.fromCache                       \* a miss
        /\ UNCHANGED <<ctx, stored>>
     \/ /\ ctx.response # None /\ ~ctx.fromCache
        /\ stored' = IF Storable(ctx.response) THEN Stores(callee) ELSE stored
        /\ UNCHANGED ctx
  /\ UNCHANGED <<stack, reply, hist>>

\* The flow plugins only leave marks in the context.
Accept(c) == [c EXCEPT !.ret = TRUE]
ReturnPlugin(c) == [c EXCEPT !.ret = TRUE]
Reject(c) == [c EXCEPT !.ret = TRUE, !.response = [code |-> "rcode", data |-> None]]
Jump(c, target) == [c EXCEPT !.ret = TRUE, !.jump = target]
Goto(c, label) == [c EXCEPT !.ret = TRUE, !.goto = label]

ExecFlow ==
  /\ Calling({"accept", "return", "reject", "jump", "goto"})
  /\ LET o == heap[callee] IN
     /\ ctx' = CASE o.kind = "accept" -> Accept(ctx)
                 [] o.kind = "return" -> ReturnPlugin(ctx)
                 [] o.kind = "reject" -> Reject(ctx)
                 [] o.kind = "jump"   -> Jump(ctx, o.target)
                 [] o.kind = "goto"   -> Goto(ctx, o.target)
     /\ hist' = [hist EXCEPT !.accepted = @ \/ o.kind = "accept"]
  /\ Result("ok")
  /\ UNCHANGED <<stack, reply, stored>>

-----------------------------------------------------------------------------
(* Sequences.                                                              *)

\* Calling a sequence or a fallback plugin opens a frame.
Enter ==
  /\ Calling({"sequence", "fallback"})
  /\ stack' = Append(stack, [obj |-> callee, pc |-> 1, jumping |-> FALSE])
  /\ Continue("step")
  /\ UNCHANGED <<ctx, reply, stored, hist>>

Return(o) == stack' = Pop /\ Result(o)

\* The end of a step, when no jump is pending: a goto stops the sequence and
\* raises the flag again, for the sequences below; so does a raised flag.
EndStep(c) ==
  IF c.goto # None \/ c.ret
    THEN /\ ctx' = [c EXCEPT !.ret = TRUE]
         /\ Return("ok")
    ELSE /\ ctx' = c
         /\ stack' = WithTop([Top EXCEPT !.pc = @ + 1, !.jumping = FALSE])
         /\ Continue("step")

\* What follows a step's plugin: a pending jump runs its target, as often as
\* there is one, with both marks removed; an unknown target is ignored.
AfterStep(c) ==
  LET taken == [c EXCEPT !.jump = None, !.ret = FALSE] IN
  IF c.jump = None THEN EndStep(c)
  ELSE IF Known(c.jump)
    THEN /\ ctx' = taken
         /\ stack' = WithTop([Top EXCEPT !.jumping = TRUE])
         /\ Call(plugins[c.jump])
    ELSE EndStep(taken)

\* The next step: its condition, if it has one, decides whether its plugin
\* runs; the marks are looked at in either case.
SequenceStep ==
  /\ ctl = "step" /\ OnTop("sequence")
  /\ LET steps == heap[Top.obj].steps IN
     IF Top.pc > Len(steps)
       THEN Return("ok") /\ UNCHANGED ctx
       ELSE \/ /\ Call(steps[Top.pc].obj)
               /\ UNCHANGED <<ctx, stack>>
            \/ /\ steps[Top.pc].cond
               /\ AfterStep(ctx)
  /\ UNCHANGED <<reply, stored, hist>>

\* A sequence that goes on after a failed jump target.
SequenceResultIgnoresJumpErrors ==
  /\ ctl = "result" /\ OnTop("sequence")
  /\ IF outcome = "err" /\ ~Top.jumping
       THEN Return("err") /\ UNCHANGED ctx
       ELSE AfterStep(IF Top.jumping THEN [ctx EXCEPT !.ret = FALSE] ELSE ctx)
  /\ UNCHANGED <<reply, stored, hist>>

\* Back from a step's plugin or from a jump target.  An error ends the
\* sequence; a flag that a jump target raised does not.
SequenceResult ==
  /\ ctl = "result" /\ OnTop("sequence")
  /\ IF outcome = "err"
       THEN Return("err") /\ UNCHANGED ctx
       ELSE AfterStep(IF Top.jumping THEN [ctx EXCEPT !.ret = FALSE] ELSE ctx)
  /\ UNCHANGED <<reply, stored, hist>>

-----------------------------------------------------------------------------
(* Fallback.                                                               *)

FallbackStep ==
  /\ ctl = "step" /\ OnTop("fallback")
  /\ IF Top.pc > Len(heap[Top.obj].children)
       THEN Return("ok")
       ELSE Call(heap[Top.obj].children[Top.pc]) /\ UNCHANGED stack
  /\ UNCHANGED <<ctx, reply, stored, hist>>

\* FallbackPlugin::should_fallback.
ShouldFallback ==
  \/ outcome = "err"
  \/ /\ ~heap[Top.obj].error_only
     /\ ctx.response = None \/ ctx.response.code # "answer"

FallbackResult ==
  /\ ctl = "result" /\ OnTop("fallback")
  /\ IF ShouldFallback
       THEN /\ stack' = WithTop([Top EXCEPT !.pc = @ + 1])
            /\ Continue("step")
       ELSE Return("ok")
  /\ UNCHANGED <<ctx, reply, stored, hist>>

-----------------------------------------------------------------------------
(* PluginHandler::handle.                                                  *)

\* A request arrives: a fresh context, and the entry plugin is called.  What
\* the caches hold for its key is forgotten first (any request is modelled).
Handle ==
  /\ stage = "serving" /\ ctl = "idle"
  /\ \E background \in BOOLEAN : ctx' = FreshCtx(background)
  /\ IF Known(Entry) THEN Call(plugins[Entry]) ELSE Continue("goto")
  /\ reply' = NoReply /\ stored' = << >> /\ hist' = NoHistory
  /\ UNCHANGED stack

\* The entry plugin, or a goto target, has returned to the handler.
HandlerResult ==
  /\ ctl = "result" /\ stack = <<>>
  /\ IF outcome = "err"
       THEN reply' = [kind |-> "error", response |-> None] /\ Continue("idle")
       ELSE Continue("goto") /\ UNCHANGED reply
  /\ UNCHANGED <<ctx, stack, stored, hist>>

\* A goto target that starts with the flag that stopped the sequence before it.
HandlerGotoKeepsFlag ==
  /\ ctl = "goto"
  /\ IF ctx.goto = None
       THEN Continue("store") /\ UNCHANGED ctx
       ELSE /\ ctx' = [ctx EXCEPT !.goto = None]
            /\ IF Known(ctx.goto) THEN Call(plugins[ctx.goto]) ELSE Continue("store")
  /\ UNCHANGED <<stack, reply, stored, hist>>

\* A goto label that is not removed before its target runs.
HandlerGotoKeepsLabel ==
  /\ ctl = "goto"
  /\ IF ctx.goto = None
       THEN Continue("store") /\ UNCHANGED ctx
       ELSE /\ ctx' = [ctx EXCEPT !.ret = FALSE]
            /\ IF Known(ctx.goto) THEN Call(plugins[ctx.goto]) ELSE Continue("store")
  /\ UNCHANGED <<stack, reply, stored, hist>>

\* Goto targets replace what ran before, one after the other.
HandlerGoto ==
  /\ ctl = "goto"
  /\ IF ctx.goto = None
       THEN Continue("store") /\ UNCHANGED ctx
       ELSE /\ ctx' = [ctx EXCEPT !.goto = None, !.ret = FALSE]
            /\ IF Known(ctx.goto) THEN Call(plugins[ctx.goto]) ELSE Continue("store")
  /\ UNCHANGED <<stack, reply, stored, hist>>

Caches == {plugins[n] : n \in {m \in DOMAIN plugins : Kind(plugins[m]) = "cache"}}

\* The post-processing: every registered cache sees the final response, and
\* the handler answers with it, or with SERVFAIL when there is none.
Finish ==
  /\ ctl = "store"
  /\ stored' = IF Storable(ctx.response) /\ ~ctx.fromCache
                 THEN [id \in Caches \cup DOMAIN stored |->
                         IF id \in Caches THEN ctx.response ELSE stored[id]]
                 ELSE stored
  /\ reply' = [kind |-> IF ctx.response = None THEN "servfail" ELSE "response",
                response |-> ctx.response]
  /\ Continue("idle")
  /\ UNCHANGED <<ctx, stack, hist>>

HandlerStep == HandlerResult \/ HandlerGoto \/ Finish

FlowNext ==
  \/ ExecPlugin \/ ExecCache \/ ExecFlow
  \/ Enter \/ SequenceStep \/ SequenceResult
  \/ FallbackStep \/ FallbackResult
  \/ HandlerStep

Init == BuildInit /\ FlowInit

Next ==
  \/ BuildNext /\ UNCHANGED flowVars
  \/ Handle /\ UNCHANGED buildVars
  \/ FlowNext /\ UNCHANGED buildVars

\* The request's task is polled until it is done: each call of a plugin
\* returns (the ones that wait on the network do so with a timeout).
Spec == Init /\ [][Next]_vars /\ WF_vars(FlowNext /\ UNCHANGED buildVars)

-----------------------------------------------------------------------------
AfterFallback ==
  \E i \in 1..Len(stack) : Kind(stack[i].obj) = "fallback" /\ stack[i].pc > 1

(***************************************************************************)
(* Marks do not leak from one sequence into another: a sequence takes a    *)
(* step with no jump, goto or return pending, so that a jump target or a   *)
(* goto target runs from its first step to its own end, and nothing runs   *)
(* between a goto and its target (sequence.rs:137-193, mod.rs:112-129).    *)
(* The exception is a sequence that runs as a later child of a fallback,   *)
(* which leaves the marks of the earlier children where they are           *)
(* (fallback.rs:170-205).                                                  *)
(***************************************************************************)
MarksScoped ==
  (ctl = "step" /\ OnTop("sequence")) =>
    /\ ctx.jump = None
    /\ (ctx.ret \/ ctx.goto # None) => AfterFallback

(***************************************************************************)
(* The request fails exactly when some plugin failed with no fallback      *)
(* around it: no sequence, jump or goto swallows an error, and a fallback  *)
(* never lets one through (sequence.rs:106-113, 159-164, mod.rs:107, 122). *)
(***************************************************************************)
ErrorsPropagate ==
  ctl = "idle" => (reply.kind = "error" <=> hist.escaped)

(***************************************************************************)
(* When the handler answers with records that no cache supplied, each      *)
(* registered cache has stored that answer, whatever a cache step in the   *)
(* middle of a sequence stored before (mod.rs:134-146).                    *)
(***************************************************************************)
FinalStored ==
  (ctl = "idle" /\ Storable(reply.response) /\ ~ctx.fromCache) =>
    \A id \in Caches : id \in DOMAIN stored /\ stored[id] = reply.response

\* OutcomeKept: the two together: what a request ends with is what its plugins
\* made of it, for the client and for the caches.
OutcomeKept == ErrorsPropagate /\ FinalStored

(***************************************************************************)
(* Every request ends, with a response, SERVFAIL or an error, when no      *)
(* sequence reaches itself (mod.rs:68-183).                                *)
(***************************************************************************)
RequestEnds == (ctl # "idle") ~> (ctl = "idle")

(***************************************************************************)
(* After an accept no further plugin runs for the request: "stop executing *)
(* further rules in the current sequence and any parent sequences"         *)
(* (docs/en/05_00_PLUGIN_SEQUENCE.md:81).                                  *)
(***************************************************************************)
AcceptIsFinal ==
  [][(hist.accepted /\ hist'.accepted) => ~(ctl = "step" /\ ctl' = "call")]_vars
=============================================================================
