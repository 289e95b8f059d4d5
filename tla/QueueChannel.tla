---------------------------- MODULE QueueChannel ----------------------------
(***************************************************************************)
(* QueueChannel (src/channels/queue.channel.ts): a bounded FIFO buffer, a  *)
(* pump that hands one message after the other to the consumers in turn,   *)
(* and close(), which drains what is left with a loop of its own.          *)
(*                                                                         *)
(* JavaScript runs one callback at a time: a step of the model is the code *)
(* between two awaits.  A worker is a loop that has called a handler and   *)
(* awaits it: the pump, or one call of close().                            *)
(***************************************************************************)
EXTENDS Integers, Sequences, FiniteSets, SequencesExt

CONSTANTS
  Msgs,       \* messages that senders offer, each once
  Consumers,  \* subscribers, each subscribes at most once
  Closers,    \* calls of close()
  Pump,       \* the pump, a worker that is no closer
  NoMsg,
  Capacity

ASSUME WorkersAssumption == Pump \notin Closers /\ NoMsg \notin Msgs
ASSUME CapacityAssumption == Capacity \in Nat
ASSUME FiniteConsumers == IsFiniteSet(Consumers)

Workers == Closers \cup {Pump}

VARIABLES
  buffer,         \* messages accepted and not yet handed out
  consumers,      \* the subscribed consumers, oldest first
  rrCursor,
  pumpScheduled, pumping, closed,
  at,             \* per worker: "idle", "handling", "yield" or "closed"
  handling,       \* per worker: the message whose handler it awaits
  offered,        \* messages a sender has offered
  accepted,       \* the order in which send() accepted them
  started,        \* the order in which their handlers were called, with the consumer
  gone,           \* consumers that unsubscribed
  since           \* how many handlers had been called when the consumers last changed

vars == <<buffer, consumers, rrCursor, pumpScheduled, pumping, closed, at, handling, offered,
          accepted, started, gone, since>>

Init ==
  /\ buffer = <<>> /\ consumers = <<>> /\ rrCursor = 0
  /\ pumpScheduled = FALSE /\ pumping = FALSE /\ closed = FALSE
  /\ at = [w \in Workers |-> "idle"]
  /\ handling = [w \in Workers |-> NoMsg]
  /\ offered = {} /\ accepted = <<>> /\ started = <<>> /\ gone = {} /\ since = 0

Subscribed(c) == \E i \in DOMAIN consumers : consumers[i] = c

\* Faulty: a subscriber does not wake the pump up.
SubscribeQuietly(c) ==
  /\ ~Subscribed(c) /\ c \notin gone
  /\ consumers' = Append(consumers, c)
  /\ since' = Len(started)
  /\ UNCHANGED <<buffer, rrCursor, pumpScheduled, pumping, closed, at, handling, offered, accepted,
                 started, gone>>

Subscribe(c) ==
  /\ ~Subscribed(c) /\ c \notin gone
  /\ consumers' = Append(consumers, c)
  /\ since' = Len(started)
  /\ pumpScheduled' = TRUE
  /\ UNCHANGED <<buffer, rrCursor, pumping, closed, at, handling, offered, accepted, started, gone>>

Unsubscribe(c) ==
  /\ \E i \in DOMAIN consumers : consumers[i] = c /\ consumers' = RemoveAt(consumers, i)
  /\ gone' = gone \cup {c}
  /\ since' = Len(started)
  /\ UNCHANGED <<buffer, rrCursor, pumpScheduled, pumping, closed, at, handling, offered, accepted,
                 started>>

HasRoom == Len(buffer) < Capacity

Send(m) ==
  /\ m \notin offered
  /\ offered' = offered \cup {m}
  /\ IF closed \/ ~HasRoom
     THEN UNCHANGED <<buffer, accepted, pumpScheduled>>  \* ChannelError, CapacityExceededError
     ELSE /\ buffer' = Append(buffer, m)
          /\ accepted' = Append(accepted, m)
          /\ pumpScheduled' = TRUE
  /\ UNCHANGED <<consumers, rrCursor, pumping, closed, at, handling, started, gone, since>>

-----------------------------------------------------------------------------
PickFirst == consumers[1]  \* faulty: no turns
PickConsumer == consumers[(rrCursor % Len(consumers)) + 1]

\* Faulty: the message stays in the buffer until its handler returns.
ProcessNextPeeking(w) ==
  /\ started' = Append(started, <<Head(buffer), PickConsumer>>)
  /\ rrCursor' = rrCursor + 1
  /\ at' = [at EXCEPT ![w] = "handling"]
  /\ handling' = [handling EXCEPT ![w] = Head(buffer)]
  /\ UNCHANGED buffer

\* processNext: the message leaves the buffer, then its handler is called and awaited.
ProcessNext(w) ==
  /\ buffer' = Tail(buffer)
  /\ started' = Append(started, <<Head(buffer), PickConsumer>>)
  /\ rrCursor' = rrCursor + 1
  /\ at' = [at EXCEPT ![w] = "handling"]
  /\ handling' = [handling EXCEPT ![w] = Head(buffer)]

\* The loop of w is over.
Leave(w, label) ==
  /\ at' = [at EXCEPT ![w] = label]
  /\ handling' = [handling EXCEPT ![w] = NoMsg]
  /\ UNCHANGED <<buffer, started, rrCursor>>

HasWork == buffer # <<>> /\ consumers # <<>>

\* Faulty: the pump ignores closed.
PumpLoopWhileClosed ==
  \/ HasWork /\ ProcessNext(Pump) /\ pumping' = TRUE
  \/ ~HasWork /\ Leave(Pump, "idle") /\ pumping' = FALSE

\* The condition of the pump's loop, then either the next message or the finally block.
PumpLoop ==
  \/ ~closed /\ HasWork /\ ProcessNext(Pump) /\ pumping' = TRUE
  \/ ~(~closed /\ HasWork) /\ Leave(Pump, "idle") /\ pumping' = FALSE

\* The setImmediate callback of schedulePump.
PumpTick ==
  /\ pumpScheduled
  /\ pumpScheduled' = FALSE
  /\ IF pumping
     THEN UNCHANGED <<pumping, buffer, started, rrCursor, at, handling>>
     ELSE PumpLoop
  /\ UNCHANGED <<consumers, closed, offered, accepted, gone, since>>

\* The handler the pump awaits settles; a throwing one is only reported.
PumpHandled ==
  /\ at[Pump] = "handling"
  /\ at' = [at EXCEPT ![Pump] = "yield"]
  /\ handling' = [handling EXCEPT ![Pump] = NoMsg]
  /\ UNCHANGED <<buffer, consumers, rrCursor, pumpScheduled, pumping, closed, offered, accepted,
                 started, gone, since>>

\* yieldToEventLoop resolves.
PumpYielded ==
  /\ at[Pump] = "yield"
  /\ PumpLoop
  /\ UNCHANGED <<consumers, pumpScheduled, closed, offered, accepted, gone, since>>

CloseLoop(w) ==
  \/ HasWork /\ ProcessNext(w)
  \/ ~HasWork /\ Leave(w, "closed")

Close(w) ==
  /\ at[w] = "idle"
  /\ closed' = TRUE
  /\ CloseLoop(w)
  /\ UNCHANGED <<consumers, pumpScheduled, pumping, offered, accepted, gone, since>>

CloseHandled(w) ==
  /\ at[w] = "handling"
  /\ CloseLoop(w)
  /\ UNCHANGED <<consumers, pumpScheduled, pumping, closed, offered, accepted, gone, since>>

-----------------------------------------------------------------------------
\* The environment: senders, subscribers and whoever closes the channel.
Environment ==
  \/ \E m \in Msgs : Send(m)
  \/ \E c \in Consumers : Subscribe(c) \/ Unsubscribe(c)
  \/ \E w \in Closers : Close(w)

\* The event loop: scheduled callbacks run and handlers settle.
PumpStep == PumpTick \/ PumpHandled \/ PumpYielded
Handled == \E w \in Closers : CloseHandled(w)

Next == Environment \/ PumpStep \/ Handled

Spec == Init /\ [][Next]_vars

FairSpec == Spec /\ WF_vars(PumpStep) /\ \A w \in Closers : WF_vars(CloseHandled(w))

-----------------------------------------------------------------------------
\* Types, and never more messages waiting than `capacity` (hasRoom, send).
TypeOK ==
  /\ buffer \in Seq(Msgs) /\ Len(buffer) <= Capacity
  /\ consumers \in Seq(Consumers)
  /\ rrCursor \in Nat
  /\ pumpScheduled \in BOOLEAN /\ pumping \in BOOLEAN /\ closed \in BOOLEAN
  /\ at \in [Workers -> {"idle", "handling", "yield", "closed"}]
  /\ handling \in [Workers -> Msgs \cup {NoMsg}]
  /\ offered \subseteq Msgs /\ accepted \in Seq(Msgs) /\ gone \subseteq Consumers
  /\ started \in Seq(Msgs \X Consumers) /\ since \in 0 .. Len(started)

\* The messages handed out, in order.
HandedOut == [i \in DOMAIN started |-> started[i][1]]

\* Every accepted message is handed out exactly once and in the order of acceptance, whichever of
\* the pump and the drains hands it out; until then it is in the buffer (processNext).
NothingLostOrTwice == accepted = HandedOut \o buffer

\* No lost wake-up: until the channel is closed, a message and a consumer never meet without a
\* pump that is scheduled or running (schedulePump, the guard and the loop of pump).
WorkIsAwaited == HasWork /\ ~closed => pumpScheduled \/ pumping

\* The pump starts a message only while the channel is open ("el pump normal se stops con closed",
\* and nothing new is accepted) and only after the handler of the one before has settled, although
\* every send and every subscription schedules it again.
PumpTakesItsTurn ==
  [][/\ closed => accepted' = accepted
     /\ handling'[Pump] \in {handling[Pump], NoMsg} \/ (handling[Pump] = NoMsg /\ ~closed)]_vars

\* Turns: over any stretch without a subscription or its end, no consumer gets two messages more
\* than another, wherever the cursor stood when the stretch began (pickConsumer).
Turns(c) == Cardinality({i \in since + 1 .. Len(started) : started[i][2] = c})
TurnsAreFair ==
  \A i, j \in DOMAIN consumers : Turns(consumers[i]) - Turns(consumers[j]) \in -1 .. 1

\* A message that can be handed out is handled, unless the last consumer leaves: handlers settle,
\* no wake-up is lost and a drain takes over what the pump leaves behind.
Waiting(m) == \E i \in DOMAIN buffer : buffer[i] = m
Deliverable(m) ==
  Waiting(m) /\ consumers # <<>> /\ (closed => \E w \in Closers : at[w] = "handling")
HasBeenHandled(m) == (\E i \in DOMAIN started : started[i][1] = m) /\ \A w \in Workers : handling[w] # m
EveryMessageHandled ==
  \A m \in Msgs : Deliverable(m) ~> (HasBeenHandled(m) \/ consumers = <<>>)

\* Class comment: "`close()` hace drain (shutdown-safe, plan sec.8.6)": once a close() has
\* resolved, no handler of a message of the queue is still running.
DrainIsComplete ==
  (\E w \in Closers : at[w] = "closed") => \A w \in Workers : handling[w] = NoMsg
=============================================================================
