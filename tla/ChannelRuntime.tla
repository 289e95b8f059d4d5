--------------------------- MODULE ChannelRuntime ---------------------------
(***************************************************************************)
(* The life of an application on the channels: the module starts it        *)
(* (src/integration.module.ts), messages run through direct, queue, pubsub *)
(* and fanout channels and the steps of flows (src/channels, src/flow),    *)
(* failures are reported on the error channel, and the shutdown drains the *)
(* queues.  Jumps are in FlowEndpoint, the inner life of a queue in        *)
(* QueueChannel, reply channels in RequestReply.                           *)
(*                                                                         *)
(* Pending asynchronous work is a tree.  A node is a send, the wait of a   *)
(* fanout or broadcast for its parts, or a task: one consumer at work on   *)
(* one message.  Its id is the path of what led to it.                     *)
(***************************************************************************)
EXTENDS Integers, FiniteSets, SequencesExt, Glob

CONSTANTS
  Apps,        \* what an application may declare, and (a bound) how many messages it is sent: `traffic`
  Reports      \* bound: envelopes sent to the error channel; a step that needs one more is not taken

VARIABLES
  app,         \* this application
  phase,       \* "starting", "binding", "up", "stopping", "down" or "refused"
  channels,    \* the registry: declarations in the order of registration
  subs,        \* per channel: its consumers in the order of subscription
  cursor,      \* per channel and group: messages given to the group
  buffer,      \* per queue: messages waiting
  taken,       \* per queue: messages taken, the round-robin cursor
  closed,      \* the queues that close() has closed
  closing,     \* position of the shutdown in the registry
  bound,       \* broker queues whose consumer is bound
  work,        \* the nodes: id -> node
  requests, reports,    \* messages from clients, envelopes so far
  answers      \* what came back on the reply channel: the copies the answering message had been through

\* What an application declares.  Its names are strings.
FlowStep == [kind : STRING, to : SUBSET STRING, forget : SUBSET STRING, routing : Seq(STRING),
             can : SUBSET {"ok", "filtered", "throws"}]
Subscriber == [id : STRING, on : STRING, kind : STRING, steps : Seq(FlowStep), group : STRING,
               pattern : Seq(STRING)]
Declaration == [name : STRING, kind : STRING, bindings : SUBSET STRING, capacity : Nat]

ASSUME AppsTyped ==
  \A a \in Apps :
    /\ a.channels \in Seq(Declaration)
    /\ a.activators \in Seq(Subscriber) /\ a.outbounds \in Seq(Subscriber) /\ a.flows \in Seq(Subscriber)
    /\ a.brokers \in Seq(STRING) /\ a.entries \subseteq STRING

vars == <<app, phase, channels, subs, cursor, buffer, taken, closed, closing, bound, work,
          requests, reports, answers>>

ErrorChannel == "error"
ReplyChannel == "reply"

\* The application's declarations in the order the module reads them.
Consumers == <<[id |-> "logger", on |-> ErrorChannel, kind |-> "local", steps |-> <<>>,
                group |-> "", pattern |-> Everything]>>
             \o app.activators \o app.outbounds \o app.flows

\* The elements of seq at the given positions, in their order.
Chosen(seq, positions) ==
  [k \in 1 .. Cardinality(positions) |->
     seq[CHOOSE i \in positions : Cardinality({j \in positions : j < i}) = k - 1]]

Names == {channels[i].name : i \in DOMAIN channels}
Declared(name) == channels[CHOOSE i \in DOMAIN channels : channels[i].name = name]

-----------------------------------------------------------------------------
(* Messages: reply channel, routing key, the channels of the history; and, for the properties, *)
(* which kinds of copies led to it.                                                             *)

\* Faulty: a copy keeps the reply channel.
HopKeeps(msg, channel, copy) ==
  [msg EXCEPT !.history = Append(@, channel), !.copied = IF copy THEN @ \cup {"copy"} ELSE @]

Hop(msg, channel, copy) ==
  [msg EXCEPT !.history = Append(@, channel),
              !.reply = IF copy THEN "" ELSE @,
              !.copied = IF copy THEN @ \cup {"copy"} ELSE @]

Recorded(msg, channel) == [msg EXCEPT !.history = Append(@, channel)]

Tapped(msg) == [msg EXCEPT !.copied = @ \cup {"tap"}]

Created(reply) == [reply |-> reply, routing |-> <<>>, history |-> <<>>, copied |-> {}]

MaxHopDepth == 50

\* Faulty: only a bounce between two channels is seen.
CyclicBounce(msg, channel) ==
  \/ Len(msg.history) + 1 > MaxHopDepth
  \/ Len(msg.history) > 1 /\ msg.history[Len(msg.history) - 1] = channel

\* How often the history names a channel.
Passes(history, channel) == Cardinality({i \in DOMAIN history : history[i] = channel})

\* Before a fanout sends to a binding.
Cyclic(msg, channel) ==
  \/ Len(msg.history) + 1 > MaxHopDepth
  \/ Passes(msg.history, channel) >= 2

-----------------------------------------------------------------------------
(* The tree of pending work.  `mode` says what the failure of a node means: "all" fails the      *)
(* parent that awaits it, "settle" is reported when its siblings are done, "forget", "pump" and  *)
(* "drain" are reported at once, "quiet", "client" and "ack" are reported by nobody here.        *)

Node(kind, at, msg, mode) ==
  [kind |-> kind, at |-> at, msg |-> msg, mode |-> mode, step |-> 1, waits |-> {}, failed |-> {}]

\* A tree of one node, and a tree with nodes added to it.
Only(id, node) == [i \in {id} |-> node]
new ++ w == [i \in DOMAIN new \cup DOMAIN w |-> IF i \in DOMAIN new THEN new[i] ELSE w[i]]

\* A send per destination, by step n of the task at id.
SendsTo(id, n, destinations, msg, copy, mode) ==
  [child \in {Append(id, <<d, n>>) : d \in destinations} |->
     LET channel == Last(child)[1] IN
     Node("send", channel, Recorded(Hop(msg, channel, copy), channel), mode)]

\* Faulty: a broadcast goes on waiting for a subscriber that failed.
EndedIfOk(w, id, ok) ==
  LET parent == Front(id)
      rest == [i \in DOMAIN w \ {id} |-> w[i]]
  IN IF parent \in DOMAIN rest /\ id \in rest[parent].waits /\ (ok \/ w[id].mode = "all")
     THEN [rest EXCEPT ![parent].waits = @ \ {id}, ![parent].failed = IF ok THEN @ ELSE @ \cup {id}]
     ELSE rest

\* The tree once the node at id has ended; its parent may have gone before.
Ended(w, id, ok) ==
  LET parent == Front(id)
      rest == [i \in DOMAIN w \ {id} |-> w[i]]
  IN IF parent \in DOMAIN rest /\ id \in rest[parent].waits
     THEN [rest EXCEPT ![parent].waits = @ \ {id}, ![parent].failed = IF ok THEN @ ELSE @ \cup {id}]
     ELSE rest

\* A failure on its way to the error channel.
Report == Node("send", ErrorChannel, Recorded(Created(""), ErrorChannel), "quiet")

\* onError: n envelopes, which nobody awaits.
Envelopes(n) == [id \in {<<<<ErrorChannel, k>>>> : k \in reports + 1 .. reports + n} |-> Report]

Finish(id, ok) ==
  LET node == work[id]
      n == Cardinality(IF node.kind = "broadcast" THEN node.failed ELSE {})
           + (IF ~ok /\ node.mode \in {"forget", "pump", "drain"} THEN 1 ELSE 0)
  IN /\ reports + n <= Reports
     /\ work' = Envelopes(n) ++ Ended(work, id, ok)
     /\ reports' = reports + n

-----------------------------------------------------------------------------
(* Start. *)

\* The error channel, then the declared channels; a name that is there already is skipped.
Registered(declared) ==
  LET all == <<[name |-> ErrorChannel, kind |-> "pubsub", bindings |-> {}]>> \o declared
  IN Chosen(all, {i \in DOMAIN all : \A j \in 1 .. i - 1 : all[j].name # all[i].name})

\* Every consumer's channel exists, and no two outbounds have one name.
Bootable(registry) ==
  /\ \A i \in DOMAIN Consumers : \E j \in DOMAIN registry : registry[j].name = Consumers[i].on
  /\ \A i, j \in DOMAIN app.outbounds : i # j => app.outbounds[i].id # app.outbounds[j].id

\* A direct channel keeps the last subscriber only.
Displaced(i, channel) ==
  channel.kind = "direct" /\ \E j \in DOMAIN Consumers : j > i /\ Consumers[j].on = channel.name

IdsOn(channel) ==
  Chosen([i \in DOMAIN Consumers |-> Consumers[i].id],
         {i \in DOMAIN Consumers : Consumers[i].on = channel.name /\ ~Displaced(i, channel)})

Init ==
  /\ app \in Apps /\ phase = "starting"
  /\ channels = <<>> /\ subs = <<>> /\ cursor = <<>> /\ buffer = <<>> /\ taken = <<>>
  /\ closed = {} /\ closing = 1 /\ bound = 0
  /\ work = <<>> /\ requests = 0 /\ reports = 0
  /\ answers = {}

\* Faulty: the explorer binds first.
StartListening ==
  /\ phase = "starting" /\ channels' = Registered(app.channels)
  /\ phase' = IF Bootable(channels') THEN "binding" ELSE "refused"
  /\ LET names == {channels'[i].name : i \in DOMAIN channels'}
     IN /\ subs' = [c \in names |-> <<>>]
        /\ cursor' = [c \in names |-> [g \in {Consumers[i].group : i \in DOMAIN Consumers} |-> 0]]
        /\ buffer' = [c \in names |-> <<>>] /\ taken' = [c \in names |-> 0]
  /\ UNCHANGED <<app, closed, closing, bound, work, requests, reports, answers>>

\* onModuleInit up to its first await: channels, activators, outbounds, flows.  A mistake ends it.
Start ==
  /\ phase = "starting"
  /\ channels' = Registered(app.channels)
  /\ phase' = IF Bootable(channels') THEN "binding" ELSE "refused"
  /\ LET names == {channels'[i].name : i \in DOMAIN channels'}
     IN /\ subs' = [c \in names |-> IdsOn(Declared(c)')]
        /\ cursor' = [c \in names |-> [g \in {Consumers[i].group : i \in DOMAIN Consumers} |-> 0]]
        /\ buffer' = [c \in names |-> <<>>] /\ taken' = [c \in names |-> 0]
  /\ UNCHANGED <<app, closed, closing, bound, work, requests, reports, answers>>

\* The explorer binds one broker queue after the other; the broker may refuse.
Bind ==
  /\ phase = "binding"
  /\ IF bound < Len(app.brokers)
     THEN bound' = bound + 1 /\ phase' \in {"binding", "refused"}
     ELSE phase' = "up" /\ UNCHANGED bound
  /\ UNCHANGED <<app, channels, subs, cursor, buffer, taken, closed, closing, work, requests, reports,
                 answers>>

-----------------------------------------------------------------------------
(* Sends. *)

Root(name, node) == work' = Only(<<<<name, requests + 1>>>>, node) ++ work /\ requests' = requests + 1

\* A request to an entry point; its caller waits on the reply channel.
Request ==
  /\ phase = "up" /\ requests < app.traffic
  /\ \E entry \in app.entries :
       Root("client", Node("send", entry, Recorded(Created(ReplyChannel), entry), "client"))
  /\ UNCHANGED <<app, phase, channels, subs, cursor, buffer, taken, closed, closing, bound, reports,
                 answers>>

\* A delivery of a bound broker queue, also while others are being bound and while queues close.
Delivery ==
  /\ phase \in {"binding", "up", "stopping"} /\ requests < app.traffic
  /\ \E i \in 1 .. bound :
       Root("broker", Node("send", app.brokers[i],
                           Recorded(Recorded(Created(""), "broker"), app.brokers[i]), "ack"))
  /\ UNCHANGED <<app, phase, channels, subs, cursor, buffer, taken, closed, closing, bound, reports,
                 answers>>

ConsumerOf(id) == Consumers[CHOOSE i \in DOMAIN Consumers : Consumers[i].id = id]

Matching(channel, group, msg) ==
  Chosen(subs[channel],
         {i \in DOMAIN subs[channel] : LET c == ConsumerOf(subs[channel][i])
                                       IN c.group = group /\ Matches(c.pattern, msg.routing)})

Groups(channel) == {ConsumerOf(subs[channel][i]).group : i \in DOMAIN subs[channel]} \ {""}

\* A group whose members all do not match keeps its turn.
Turn(channel, msg, g) == IF Matching(channel, g, msg) = <<>> THEN 0 ELSE 1

\* The member of a group whose turn it is, if any matches.
Elected(channel, msg, g) ==
  LET m == Matching(channel, g, msg)
  IN IF m = <<>> THEN {} ELSE {m[(cursor[channel][g] % Len(m)) + 1]}

\* One member of each group in turn, and everybody without a group.
Targets(channel, msg) ==
  Range(Matching(channel, "", msg)) \cup UNION {Elected(channel, msg, g) : g \in Groups(channel)}

Broadcast(id, consumers, msg) ==
  [child \in {Append(id, <<c, 0>>) : c \in consumers} |-> Node("task", Last(child)[1], msg, "settle")]

\* The send is refused: no such channel, nobody there, a cycle, a full or a closed queue.
Refuse(id) == Finish(id, FALSE) /\ UNCHANGED <<cursor, buffer>>

\* A direct channel has one handler or none.
HandOver(id) ==
  LET node == work[id]
      on == subs[node.at]
  IN IF on = <<>> THEN Refuse(id)
     ELSE /\ work' = [work EXCEPT ![id] = Node("task", Last(on), node.msg, node.mode)]
          /\ UNCHANGED <<cursor, buffer, reports>>

Enqueue(id) ==
  LET q == work[id].at
  IN IF q \in closed \/ Len(buffer[q]) >= Declared(q).capacity THEN Refuse(id)
     ELSE /\ buffer' = [buffer EXCEPT ![q] = Append(@, work[id].msg)]
          /\ Finish(id, TRUE) /\ UNCHANGED cursor

Publish(id) ==
  LET node == work[id]
      tasks == Broadcast(id, Targets(node.at, node.msg), node.msg)
      turns(g) == IF g \in Groups(node.at) THEN Turn(node.at, node.msg, g) ELSE 0
  IN /\ work' = tasks ++ [work EXCEPT ![id] =
                  [Node("broadcast", node.at, node.msg, node.mode) EXCEPT !.waits = DOMAIN tasks]]
     /\ cursor' = [cursor EXCEPT ![node.at] = [g \in DOMAIN @ |-> @[g] + turns(g)]]
     /\ UNCHANGED <<buffer, reports>>

\* The bindings in parallel, and dispatchLocals as one more branch of the Promise.all.
FanOut(id) ==
  LET node == work[id]
      msg == node.msg
      bindings == Declared(node.at).bindings
      open == {b \in bindings : b \in Names /\ ~Cyclic(msg, b)}
      copies == [child \in {Append(id, <<b, 0>>) : b \in open} |->
                   Node("send", Last(child)[1], Hop(msg, Last(child)[1], TRUE), "all")]
      here == Range(subs[node.at])
      locals == {Append(id, <<"locals", 0>>) : c \in here}
      tasks == {Append(l, <<c, 0>>) : l \in locals, c \in here}
  IN /\ work' = copies
                ++ [l \in locals |-> [Node("broadcast", node.at, msg, "all") EXCEPT !.waits = tasks]]
                ++ [t \in tasks |-> Node("task", Last(t)[1], msg, "settle")]
                ++ [work EXCEPT ![id] =
                     [Node("fanout", node.at, msg, node.mode) EXCEPT
                        !.waits = DOMAIN copies \cup locals,
                        !.failed = {Append(id, <<b, 0>>) : b \in bindings \ open}]]
     /\ UNCHANGED <<cursor, buffer, reports>>

Dispatch(id) ==
  /\ work[id].kind = "send"
  /\ LET channel == work[id].at IN
     \/ channel \notin Names /\ Refuse(id)
     \/ channel \in Names /\ Declared(channel).kind = "direct" /\ HandOver(id)
     \/ channel \in Names /\ Declared(channel).kind = "queue" /\ Enqueue(id)
     \/ channel \in Names /\ Declared(channel).kind = "pubsub" /\ Publish(id)
     \/ channel \in Names /\ Declared(channel).kind = "fanout" /\ FanOut(id)
  /\ UNCHANGED <<app, phase, channels, subs, taken, closed, closing, bound, requests, answers>>

\* Promise.all fails with the first failure and leaves the others running; allSettled waits.
Gather(id) ==
  /\ work[id].kind \in {"fanout", "broadcast", "failing"}
  /\ \/ work[id].kind = "fanout" /\ work[id].failed # {} /\ Finish(id, FALSE)
     \/ /\ work[id].waits = {}
        /\ work[id].kind = "fanout" => work[id].failed = {}
        /\ Finish(id, work[id].kind # "failing")
  /\ UNCHANGED <<app, phase, channels, subs, cursor, buffer, taken, closed, closing, bound, requests,
                 answers>>

-----------------------------------------------------------------------------
(* Tasks: the steps of a flow; an activator or an outbound handles and replies. *)

Ready(id) == work[id].kind = "task" /\ work[id].waits = {}
At(id) == ConsumerOf(work[id].at).steps[work[id].step]
HasStep(id) == work[id].step <= Len(ConsumerOf(work[id].at).steps)
Beyond(id) == Len(ConsumerOf(work[id].at).steps) + 1

\* The task goes on at a step, waiting for some of the nodes it adds.
GoOn(id, step, added, waits) ==
  /\ work' = added ++ [work EXCEPT ![id].step = step, ![id].waits = waits]
  /\ UNCHANGED <<reports, answers>>

\* A flow and an activator report their failure and wait for the report before they fail.
Fail(id) ==
  /\ IF ConsumerOf(work[id].at).kind \in {"flow", "activator"}
     THEN LET report == Append(id, <<ErrorChannel, 0>>) IN
          /\ reports < Reports
          /\ work' = Only(report, Report)
                     ++ [work EXCEPT ![id].kind = "failing", ![id].waits = {report}]
          /\ reports' = reports + 1
     ELSE Finish(id, FALSE)
  /\ UNCHANGED answers

\* handle, transform, filter and the method of an activator: code of the application.
Handle(id) ==
  /\ At(id).kind = "handle"
  /\ \E how \in At(id).can :
       CASE how = "ok" -> GoOn(id, work[id].step + 1, <<>>, {})
         [] how = "filtered" -> GoOn(id, Beyond(id), <<>>, {})
         [] how = "throws" -> Fail(id)

IsCopy(kind) == kind \in {"fanout", "publish"}

\* to and route end the flow with their sends; publish sets the routing key.
SendOn(id) ==
  LET step == At(id)
      n == work[id].step
      msg == [work[id].msg EXCEPT !.routing = IF step.kind = "publish" THEN step.routing ELSE @]
      awaited == SendsTo(id, n, step.to, msg, IsCopy(step.kind), "all")
      forgotten == SendsTo(id, n, step.forget, msg, IsCopy(step.kind), "forget")
  IN /\ step.kind \in {"to", "route", "fanout", "publish"}
     /\ GoOn(id, IF step.kind \in {"to", "route"} THEN Beyond(id) ELSE n + 1,
             forgotten ++ awaited, DOMAIN awaited)

\* copyMessage: everything is kept; nobody waits, and a failure is swallowed.
WireTap(id) ==
  /\ At(id).kind = "wireTap"
  /\ LET tap == Tapped(work[id].msg) IN
     GoOn(id, work[id].step + 1,
          [child \in {Append(id, <<d, work[id].step>>) : d \in At(id).to} |->
             Node("send", Last(child)[1], Recorded(tap, Last(child)[1]), "quiet")], {})

\* A reply goes to the message's reply channel, if it has one; after the first answer the channel may
\* be gone, and the step fails.
Reply(id) ==
  /\ At(id).kind = "reply"
  /\ IF work[id].msg.reply = "" THEN GoOn(id, work[id].step + 1, <<>>, {})
     ELSE \/ /\ answers' = answers \cup {<<Head(id), work[id].msg.copied>>}
             /\ work' = [work EXCEPT ![id].step = @ + 1] /\ UNCHANGED reports
          \/ (\E a \in answers : a[1] = Head(id)) /\ Fail(id)

Task(id) ==
  /\ \/ /\ work[id].kind = "task" /\ work[id].failed # {} /\ Fail(id)
     \/ /\ Ready(id) /\ work[id].failed = {}
        /\ IF HasStep(id) THEN Handle(id) \/ SendOn(id) \/ WireTap(id) \/ Reply(id)
           ELSE Finish(id, TRUE) /\ UNCHANGED answers
  /\ UNCHANGED <<app, phase, channels, subs, cursor, buffer, taken, closed, closing, bound, requests>>

-----------------------------------------------------------------------------
(* Queues and shutdown. *)

Running(q, mode) == \E id \in DOMAIN work : work[id].mode = mode /\ id = <<Head(id)>> /\ Head(id)[1] = q

HasWork(q) == buffer[q] # <<>> /\ subs[q] # <<>>

Take(q, mode) ==
  LET consumer == subs[q][(taken[q] % Len(subs[q])) + 1] IN
  /\ work' = Only(<<<<q, taken[q] + 1>>>>, Node("task", consumer, Head(buffer[q]), mode)) ++ work
  /\ buffer' = [buffer EXCEPT ![q] = Tail(@)]
  /\ taken' = [taken EXCEPT ![q] = @ + 1]

\* The pump hands out one message at a time until the queue is closed.
Pump ==
  /\ phase \notin {"starting", "refused"}
  /\ \E q \in {q \in Names : Declared(q).kind = "queue"} \ closed :
       HasWork(q) /\ ~Running(q, "pump") /\ Take(q, "pump")
  /\ UNCHANGED <<app, phase, channels, subs, cursor, closed, closing, bound, requests, reports, answers>>

Leave ==
  /\ phase = "up"
  /\ \E c \in app.leaves :
       /\ \E name \in Names : \E i \in DOMAIN subs[name] : subs[name][i] = c
       /\ subs' = [name \in Names |-> Chosen(subs[name], {i \in DOMAIN subs[name] : subs[name][i] # c})]
  /\ UNCHANGED <<app, phase, channels, cursor, buffer, taken, closed, closing, bound, work, requests,
                 reports, answers>>

Stop ==
  /\ phase = "up" /\ phase' = "stopping"
  /\ UNCHANGED <<app, channels, subs, cursor, buffer, taken, closed, closing, bound, work, requests,
                 reports, answers>>

\* Faulty: close() does not refuse what comes after.
ClosesOpen(q) == closed

Closes(q) == closed \cup {q}

\* The queues are closed one after the other, in the order of registration; each drains its buffer.
Shutdown ==
  /\ phase = "stopping"
  /\ IF closing > Len(channels)
     THEN phase' = "down" /\ UNCHANGED <<work, buffer, taken, closed, closing>>
     ELSE LET q == channels[closing].name IN
          /\ UNCHANGED phase
          /\ IF channels[closing].kind # "queue"
             THEN closing' = closing + 1 /\ UNCHANGED <<work, buffer, taken, closed>>
             ELSE /\ closed' = Closes(q) /\ ~Running(q, "drain")
                  /\ IF HasWork(q) THEN Take(q, "drain") /\ UNCHANGED closing
                     ELSE closing' = closing + 1 /\ UNCHANGED <<work, buffer, taken>>
  /\ UNCHANGED <<app, channels, subs, cursor, bound, requests, reports, answers>>

-----------------------------------------------------------------------------
Work == \E id \in DOMAIN work : Dispatch(id) \/ Gather(id) \/ Task(id)

Over == phase \in {"down", "refused"} /\ UNCHANGED vars

Next == Start \/ Bind \/ Request \/ Delivery \/ Work \/ Pump \/ Leave \/ Stop \/ Shutdown \/ Over

Spec == Init /\ [][Next]_vars

\* The event loop runs what is ready and the application's code returns; clients, the broker,
\* subscribers that leave and the signal to stop are up to their environment.
FairSpec == Spec /\ WF_vars(Start) /\ WF_vars(Bind) /\ WF_vars(Work) /\ WF_vars(Pump) /\ WF_vars(Shutdown)
-----------------------------------------------------------------------------
\* README: "replyChannel precedence (runtime invariant): wireTap/fanout/publish -> none".
CopiesNeverAnswer == \A a \in answers : a[2] = {}

\* Copies made by fanout channels, fanout steps and publish never answer the caller, however the
\* branches are nested and joined; a tapped copy does (see CopiesNeverAnswer).
FannedCopiesNeverAnswer == \A a \in answers : "copy" \notin a[2]

\* Fanouts linked in a circle, directly or through flows and queues, do not multiply a message for
\* ever: no message passes a channel that only fanouts lead to a third time, wherever it has been
\* in between.
NoEndlessFanout ==
  LET steps == UNION {Range(Consumers[i].steps) : i \in DOMAIN Consumers}
      others == app.entries \cup UNION {step.to \cup step.forget : step \in steps}
      fanned == (UNION {channels[i].bindings : i \in DOMAIN channels}) \ others
  IN \A id \in DOMAIN work : \A name \in fanned :
       Passes(work[id].msg.history, name) <= 2

\* Whatever a delivery meets, it is not a half-started application: as soon as the broker can deliver,
\* every channel has all the consumers that the application declares, that no later one displaces and
\* that have not left.
DeliveriesFindConsumers ==
  (\E id \in DOMAIN work : Head(id)[1] = "broker") =>
    \A i \in DOMAIN Consumers :
      \/ Consumers[i].id \in app.leaves
      \/ Displaced(i, Declared(Consumers[i].on))
      \/ \E j \in DOMAIN subs[Consumers[i].on] : subs[Consumers[i].on][j] = Consumers[i].id

\* After the shutdown no queue still holds a message it accepted and somebody consumes, although
\* handlers of queues drained later go on sending to queues drained before.
NothingStaysQueued == phase = "down" => \A q \in Names : ~HasWork(q)

\* Every send and every task ends, in circles of fanouts too and with failures whose report is awaited
\* while its siblings fail, and a shutdown that has begun comes to its end: as long as no consumer of
\* the error channel fails.  One that does is told of its own failure, and waits for itself.
ErrorsHandled ==
  \A i \in DOMAIN Consumers : Consumers[i].on = ErrorChannel =>
    \A step \in Range(Consumers[i].steps) :
      step.kind = "reply" \/ (step.kind = "handle" /\ "throws" \notin step.can)
EverythingSettles ==
  /\ ErrorsHandled /\ DOMAIN work # {} ~> DOMAIN work = {}
  /\ ErrorsHandled /\ phase = "stopping" ~> phase = "down"
=============================================================================
