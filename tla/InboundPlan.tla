---------------------------- MODULE InboundPlan ----------------------------
(***************************************************************************)
(* What an inbound endpoint means: its spec laid over the module defaults  *)
(* (src/inbound/inbound.plan.ts), the storage key and the key it hands     *)
(* down with a message (src/inbound/inbound.idempotency.ts), and how an    *)
(* outcome becomes the response (src/inbound/inbound.reply.ts).            *)
(*                                                                         *)
(* A module is a record: its inbound defaults, its idempotency service (a  *)
(* set with at most one store) and whether it resolves providers.          *)
(***************************************************************************)
EXTENDS Options, SequencesExt

\* A store: a slot of Options, or "bare", an instance that cannot release a key.
UsableStore(store, resolver) == store = "bare" \/ UsableInstance(store, resolver)

Merged(spec, module) == Layer(spec, module.defaults, "idempotency")

\* onFailure: a word, or a strategy that classifies.
FailureMode(options) ==
  LET option == Get(options, "onFailure", "keep")
  IN CASE option \in {"keep", "marker"} -> option
       [] option \in {"release", "store"} -> "static"
       [] OTHER -> "classifier"

\* At most one store.
StoreOf(spec, module) ==
  IF "store" \in DOMAIN Merged(spec, module).options
  THEN {Merged(spec, module).options.store} ELSE module.service

\* Whether failed keys may be tried again; they must not have been handed down then.
FailureIsActive(options) == FailureMode(options) # "keep"

\* What downstream scopes see: the client key, the storage key or nothing.
Forward(spec, module) ==
  LET merged == Merged(spec, module)
      silent == \/ "key" \in DOMAIN merged.options
                \/ IF merged.enabled THEN FailureIsActive(merged.options)
                   ELSE Get(spec, "requestReply", FALSE)
      forward == Get(merged.options, "forward", IF silent THEN "none" ELSE "raw")
  IN IF ~merged.enabled /\ forward = "resolved" THEN "raw" ELSE forward

\* What an endpoint is refused for, on its first request.
Refused(spec, module) ==
  LET merged == Merged(spec, module)
      o == merged.options
      resolver == module.resolver
      reply == Get(spec, "reply", Get(module.defaults, "reply", "envelope"))
  IN \/ FailureMode(o) = "classifier" /\ ~Usable(o.onFailure, resolver)
     \/ reply \notin {"envelope", "raw"} /\ ~Usable(reply, resolver)
     \/ merged.enabled /\ FailureIsActive(o) /\ Get(o, "forward", "none") # "none"
     \/ merged.enabled /\ merged.explicit /\ StoreOf(spec, module) = {}
     \/ merged.enabled /\ \E store \in StoreOf(spec, module) :
          \/ "store" \in DOMAIN o /\ ~UsableStore(store, resolver)
          \/ Get(o, "onFailure", "keep") = "release" /\ store = "bare"
          \/ Get(o, "onInFlight", "duplicate") \notin {"duplicate", "reject", "function"}
          \/ "failureCodec" \in DOMAIN o /\ ~UsableInstance(o.failureCodec, resolver)
          \/ ~UsableIn(o, {"key"}, resolver)

\* The plan of an endpoint that is not refused.
Plan(spec, module) ==
  LET merged == Merged(spec, module)
      o == merged.options
      stores == StoreOf(spec, module)
  IN [requestReply |-> Get(spec, "requestReply", FALSE),
      reply |-> Get(spec, "reply", Get(module.defaults, "reply", "envelope")),
      forward |-> Forward(spec, module),
      claims |-> merged.enabled /\ stores # {},
      keyed |-> merged.enabled /\ "key" \in DOMAIN o,
      onFailure |-> FailureMode(o),
      static |-> IF FailureMode(o) = "static" THEN o.onFailure ELSE "store",
      onDuplicate |-> Get(o, "onDuplicate", "envelope"),
      onInFlight |-> Get(o, "onInFlight", "duplicate"),
      canRelease |-> \A store \in stores : store # "bare"]

-----------------------------------------------------------------------------
(* Keys. *)

\* Faulty: a key that is not handed down is handed down as the client sent it.
ForwardedRaw(plan, clientKey, storageKey) ==
  IF plan.forward = "resolved" /\ plan.claims THEN {storageKey} ELSE {clientKey}

\* The key handed down with the message: at most one.  A plan without a claim has no storage key.
Forwarded(plan, clientKey, storageKey) ==
  CASE plan.forward = "raw" -> {clientKey}
    [] plan.forward = "resolved" /\ plan.claims -> {storageKey}
    [] OTHER -> {}

\* A part of a key, as a sequence of characters.
EncodeKeyPart(part) ==
  FlattenSeq([i \in DOMAIN part |-> CASE part[i] = "%" -> <<"%", "2", "5">>
                                      [] part[i] = ":" -> <<"%", "3", "A">>
                                      [] OTHER -> <<part[i]>>])

EncodeInboundKey(parts) ==
  FlattenSeq([i \in DOMAIN parts |-> (IF i = 1 THEN <<>> ELSE <<":">>) \o EncodeKeyPart(parts[i])])

-----------------------------------------------------------------------------
(* Responses.  An outcome carries a result (of the flow; for an accepted message, of the request's   *)
(* handler) and a message id; each part names the request it is of.                                *)

Part(what, of) == [what |-> what, of |-> of]

\* replyOutcome and acceptedOutcome of request r itself.
FirstOutcome(kind, r) == [kind |-> kind, carries |-> {Part("result", r), Part("id", r)}]

\* repeatOutcome: r repeats a key that `first` completed.  A reply is the stored one in a fresh
\* message, an accepted message has the stored id and what the handler returned to r; a
\* duplicate has at most the stored reply.
RepeatOutcome(plan, kind, first, r) ==
  CASE plan.onDuplicate = "replay" /\ kind = "reply" ->
         [kind |-> kind, carries |-> {Part("result", first), Part("id", r)}]
    [] plan.onDuplicate = "replay" /\ kind = "accepted" ->
         [kind |-> kind, carries |-> {Part("result", r), Part("id", first)}]
    [] OTHER ->
         [kind |-> "duplicate", carries |-> IF kind = "reply" THEN {Part("result", first)} ELSE {}]

\* The built-in mappers: the envelope, or the bare result; a duplicate keeps its envelope.
Response(plan, outcome) ==
  CASE plan.reply = "raw" /\ outcome.kind # "duplicate" ->
         [body |-> "bare", carries |-> {p \in outcome.carries : p.what = "result"}]
    [] plan.reply \in {"raw", "envelope"} -> [body |-> outcome.kind, carries |-> outcome.carries]
    [] OTHER -> [body |-> "custom", carries |-> outcome.carries]
=============================================================================
