------------------------------ MODULE Headers -------------------------------
(***************************************************************************)
(* The headers of a message: how they are made and passed on               *)
(* (src/message.ts, src/trace/trace-context.ts), and how they cross a      *)
(* protocol (src/adapters, src/inbound/inbound.transport.ts,               *)
(* src/inbound/inbound.idempotency.ts).                                    *)
(*                                                                         *)
(* A bag of headers is a function whose domain is the headers that are     *)
(* there.  A text is a number, 0 when it is empty; a new id is passed in.  *)
(***************************************************************************)
EXTENDS Options, SequencesExt

IsText(bag, name) == name \in DOMAIN bag /\ bag[name] > 0
Without(bag, names) == [name \in DOMAIN bag \ names |-> bag[name]]
With(name, value) == [n \in {name} |-> value]
IfText(name, bag, from) == IF IsText(bag, from) THEN With(name, bag[from]) ELSE Empty

-----------------------------------------------------------------------------
(* Making and passing on. *)

\* createMessage: what is given wins, the trace and the correlation start with the message itself.
CreateMessage(init, newId, newSpan) ==
  LET id == Get(init, "id", newId)
  IN [name \in DOMAIN init \cup {"id", "correlationId", "traceId", "spanId", "history"} |->
        CASE name = "id" -> id
          [] name \in {"correlationId", "traceId"} -> Get(init, name, id)
          [] name = "spanId" -> Get(init, name, newSpan)
          [] name = "history" -> Get(init, name, <<>>)
          [] OTHER -> init[name]]

RecordHop(bag, channel) == [bag EXCEPT !.history = Append(@, channel)]

CopyMessage(bag) == bag

\* nextHop: `reply` is "inherit", "none", or the channel of a jump as a one-element sequence.
NextHop(bag, channel, reply, newId, newSpan) ==
  LET caused == [name \in {"id", "spanId", "causationId", "parentSpanId", "history"} |->
                   CASE name = "id" -> newId
                     [] name = "spanId" -> newSpan
                     [] name = "causationId" -> bag.id
                     [] name = "parentSpanId" -> bag.spanId
                     [] name = "history" -> Append(bag.history, channel)]
      made == Over(caused, bag)
  IN CASE reply.mode = "inherit" -> made
       [] reply.mode = "none" -> Without(made, {"replyChannel"})
       [] reply.mode = "own" -> Over(With("replyChannel", reply.channel), made)

\* What the reply step and the gRPC adapter give an answer.
ReplyInit(bag) ==
  [correlationId |-> bag.correlationId, traceId |-> bag.traceId,
   causationId |-> bag.id, parentSpanId |-> bag.spanId]

\* TraceContext.fromHeaders: the ambient trace a consumer of the message runs in.
FromHeaders(bag, newSpan) ==
  LET always == [traceId |-> IF IsText(bag, "traceId") THEN bag.traceId ELSE bag.id,
                 spanId |-> IF IsText(bag, "spanId") THEN bag.spanId ELSE newSpan,
                 correlationId |-> IF IsText(bag, "correlationId") THEN bag.correlationId ELSE bag.id]
  IN Over(always, Over(IfText("parentSpanId", bag, "parentSpanId"),
                       IfText("causationId", bag, "causationId")))

\* TraceContext.bindMessage: what is missing is taken from the ambient trace, if there is one.
BindMessage(bag, ambient, newSpan) ==
  LET trace == IF IsText(bag, "traceId") THEN bag.traceId
               ELSE IF IsText(ambient, "traceId") THEN ambient.traceId ELSE bag.id
      own == [traceId |-> trace,
              spanId |-> IF IsText(bag, "spanId") THEN bag.spanId ELSE newSpan,
              correlationId |-> IF IsText(bag, "correlationId") THEN bag.correlationId ELSE bag.id]
      parent == IF IsText(bag, "parentSpanId") THEN With("parentSpanId", bag.parentSpanId)
                ELSE IfText("parentSpanId", ambient, "spanId")
  IN Over(own, Over(parent, Without(bag, {"parentSpanId"})))

\* MessageDispatcher.send: a message is made, bound to the ambient trace and recorded.
Sent(init, channel, ambient, newId, newSpan) ==
  RecordHop(BindMessage(CreateMessage(init, newId, newSpan), ambient, newSpan), channel)

-----------------------------------------------------------------------------
(* Protocols. *)

TraceKeys == {"x-trace-id", "x-span-id", "x-parent-span-id", "x-correlation-id", "x-causation-id"}
HeaderOf(key) ==
  CASE key = "x-trace-id" -> "traceId" [] key = "x-span-id" -> "spanId"
    [] key = "x-parent-span-id" -> "parentSpanId" [] key = "x-correlation-id" -> "correlationId"
    [] key = "x-causation-id" -> "causationId"
KeyOf(header) == CHOOSE key \in TraceKeys : HeaderOf(key) = header
TraceHeaders == {HeaderOf(key) : key \in TraceKeys}

\* normalizeHeaderValue: the first text in a value, whose strings, bytes and lists are given here in
\* reading order; 0 stands for what is no text.
Texts(value) == SelectSeq(value, LAMBDA leaf : leaf > 0)
Readable(raw, key) == key \in DOMAIN raw /\ Texts(raw[key]) # <<>>
Normalized(raw, key) == Head(Texts(raw[key]))

\* The first of the names that has a text, as a one-element set; none otherwise.
FirstReadable(raw, names) ==
  LET readable == SelectSeq(names, LAMBDA name : Readable(raw, name))
  IN IF readable = <<>> THEN {} ELSE {Normalized(raw, Head(readable))}

\* mapTraceHeadersIn
MapIn(raw) ==
  LET traced == {HeaderOf(key) : key \in {k \in TraceKeys : Readable(raw, k)}}
      keys == FirstReadable(raw, <<"idempotency-key", "x-idempotency-key">>)
  IN Over([header \in traced |-> Normalized(raw, KeyOf(header))],
          IF keys = {} THEN Empty ELSE With("idempotencyKey", CHOOSE key \in keys : TRUE))

\* mapTraceHeadersOut
MapOut(bag) ==
  Over([key \in {k \in TraceKeys : IsText(bag, HeaderOf(k))} |-> bag[HeaderOf(key)]],
       IfText("idempotency-key", bag, "idempotencyKey"))

\* bindRestOut: the trace wins over the headers of the binding, those over the content type.
RestOutHeaders(configured, bag, json) ==
  Over(MapOut(bag), Over(configured, With("content-type", json)))

\* The raw headers of a GraphQL request: of its HTTP request, its own, or its extensions.
GraphqlSource(sources) ==
  LET present == SelectSeq(<<"req", "headers", "extensions">>, LAMBDA s : s \in DOMAIN sources)
  IN IF present = <<>> THEN Empty ELSE sources[Head(present)]

\* The GraphQL strategy of the interceptor hands on those of the request, or the extensions.
GraphqlRawHeaders(sources) == GraphqlSource(Without(sources, {"headers"}))

\* clientKeyReader: the default mapping, or the first of the endpoint's own header names.
ClientKey(raw, names) ==
  FirstReadable(raw, IF names = <<>> THEN <<"idempotency-key", "x-idempotency-key">> ELSE names)
=============================================================================
