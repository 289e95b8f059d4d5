-------------------------- MODULE MCChannelRuntime --------------------------
(***************************************************************************)
(* Applications for ChannelRuntime, and the patterns of Glob compared with *)
(* their documented meaning.                                               *)
(***************************************************************************)
EXTENDS ChannelRuntime

Direct(name) == [name |-> name, kind |-> "direct", bindings |-> {}, capacity |-> 0]
Queue(name) == [name |-> name, kind |-> "queue", bindings |-> {}, capacity |-> 1]
PubSub(name) == [name |-> name, kind |-> "pubsub", bindings |-> {}, capacity |-> 0]
Fanout(name, to) == [name |-> name, kind |-> "fanout", bindings |-> to, capacity |-> 0]

Step(kind, to) == [kind |-> kind, to |-> to, forget |-> {}, routing |-> <<>>, can |-> {}]
Code(can) == [Step("handle", {}) EXCEPT !.can = can]
Answer == Step("reply", {})

Consumer(id, on, kind, steps) ==
  [id |-> id, on |-> on, kind |-> kind, steps |-> steps, group |-> "", pattern |-> Everything]
Member(id, on, group, pattern) ==
  [Consumer(id, on, "activator", <<Code({"ok"})>>) EXCEPT !.group = group, !.pattern = pattern]

Nothing == [channels |-> <<>>, activators |-> <<>>, outbounds |-> <<>>, flows |-> <<>>,
            brokers |-> <<>>, entries |-> {}, leaves |-> {}, traffic |-> 1]

\* A fanout whose binding is a queue, and the queue's flow closes the circle.
Circle ==
  [Nothing EXCEPT
     !.channels = <<Fanout("a", {"b"}), Fanout("b", {"q", "lost"}), Queue("q")>>,
     !.flows = <<Consumer("back", "q", "flow", <<Step("to", {"a"})>>)>>,
     !.entries = {"a"}]

\* Two fanouts bound to each other; a subscriber of the first gets the message and, back from the other,
\* a copy of it, and would answer either.
Mutual ==
  [Nothing EXCEPT
     !.channels = <<Fanout("a", {"b"}), Fanout("b", {"a"})>>,
     !.activators = <<Consumer("local", "a", "activator", <<Code({"ok", "throws"}), Answer>>)>>,
     !.entries = {"a"}]

\* A flow with every kind of copy; a failing activator behind a direct channel.
Copies ==
  [Nothing EXCEPT
     !.channels = <<Direct("in"), Fanout("f", {"d"}), PubSub("p"), Direct("d"), Direct("end")>>,
     !.activators = <<Consumer("work", "end", "activator", <<Code({"ok", "throws"}), Answer>>),
                      Consumer("side", "d", "activator", <<Code({"ok", "throws"}), Answer>>),
                      Consumer("listener", "p", "activator", <<Answer>>)>>,
     !.flows = <<Consumer("main", "in", "flow",
                   <<Code({"ok", "filtered"}),
                     [Step("fanout", {"f"}) EXCEPT !.forget = {"d"}],
                     [Step("publish", {"p"}) EXCEPT !.routing = <<"x">>],
                     Step("to", {"end"})>>)>>,
     !.entries = {"in"}]

\* Two queues, the second feeding the first, which is closed before it.
Backwards ==
  [Nothing EXCEPT
     !.channels = <<Queue("first"), Queue("second")>>,
     !.flows = <<Consumer("feed", "second", "flow", <<Step("route", {"first"})>>),
                 Consumer("last", "first", "flow", <<Code({"ok", "throws"})>>)>>,
     !.brokers = <<"second", "first">>, !.traffic = 2]

\* Competing consumers of one group, one with a pattern of its own, and one that leaves.
Groups3 ==
  [Nothing EXCEPT
     !.channels = <<Direct("in"), PubSub("p")>>,
     !.activators = <<Member("m1", "p", "g", <<"x", "*">>), Member("m2", "p", "g", <<"x", "*">>),
                      Member("m3", "p", "h", Everything)>>,
     !.flows = <<Consumer("main", "in", "flow", <<[Step("publish", {"p"}) EXCEPT !.routing = <<"x", "y">>], Answer>>)>>,
     !.entries = {"in"}, !.traffic = 2]
Leaving == [Groups3 EXCEPT !.leaves = {"m1", "main"}]

\* An outbound and a missing channel; an outbound that displaces an activator, and leaves.
Broken == [Nothing EXCEPT !.outbounds = <<Consumer("o", "nowhere", "outbound", <<>>)>>]
Twice ==
  [Nothing EXCEPT !.channels = <<Direct("x"), Direct("x"), Direct("error")>>,
                  !.activators = <<Consumer("a", "x", "activator", <<Answer>>)>>,
                  !.outbounds = <<Consumer("o", "x", "outbound", <<Code({"ok", "throws"}), Answer>>)>>,
                  !.entries = {"x"}, !.leaves = {"o"}]

\* Consumers of the error channel: one that only takes note, and one that can fail, which is then told
\* of its own failure.
Noting ==
  [Nothing EXCEPT
     !.channels = <<Direct("in"), PubSub("p")>>,
     !.activators = <<Consumer("work", "p", "activator", <<Code({"ok", "throws"})>>)>>,
     !.flows = <<Consumer("main", "in", "flow", <<[Step("fanout", {"p"}) EXCEPT !.forget = {"lost"}], Answer>>),
                 Consumer("notes", ErrorChannel, "flow", <<Code({"ok", "filtered"}), Answer>>)>>,
     !.entries = {"in"}]
Failing == [Noting EXCEPT !.flows[1].steps = <<Step("to", {"p"})>>, !.flows[2].steps = <<Code({"ok", "throws"})>>]

AllApps == {Circle, Mutual, Copies, Backwards, Groups3, Leaving, Broken, Twice, Noting, Failing}

Tapped1 ==
  [Nothing EXCEPT
     !.channels = <<Direct("in"), Direct("audit"), Direct("end")>>,
     !.activators = <<Consumer("audit", "audit", "activator", <<Code({"ok"}), Answer>>)>>,
     !.flows = <<Consumer("main", "in", "flow", <<Step("wireTap", {"audit"}), Answer>>)>>,
     !.entries = {"in"}]
TapApps == {Tapped1}

\* Documented: `*` is exactly one segment, `#` zero or more.  A `#` that opens a longer pattern is the
\* exception: what follows it brings a dot, so at least one segment must stand before.
ASSUME PatternsAsDocumented ==
  LET Seqs(S) == UNION {[1 .. n -> S] : n \in 0 .. 3}
      Fits(segment, part) == CASE segment = "#" -> TRUE
                               [] segment = "*" -> Len(part) = 1
                               [] OTHER -> part = <<segment>>
      Documented(pattern, key) ==
        \E cut \in [0 .. Len(pattern) -> 0 .. Len(key)] :
          /\ cut[0] = 0 /\ cut[Len(pattern)] = Len(key)
          /\ \A i \in 1 .. Len(pattern) : /\ cut[i - 1] <= cut[i]
                                          /\ Fits(pattern[i], SubSeq(key, cut[i - 1] + 1, cut[i]))
                                          /\ i = 1 /\ Len(pattern) > 1 /\ pattern[i] = "#" => cut[1] > 0 \/ key = <<>> 
  IN \A pattern \in Seqs({"x", "*", "#"}), key \in Seqs({"x", "y"}) :
       Matches(pattern, key) = Documented(pattern, key)
-----------------------------------------------------------------------------
(* Headers along every short way through the system. *)

H == INSTANCE Headers

\* The ways a message is passed on; 10 * n and 10 * n + 1 are the ids made at the n-th of them.
Ways == {"copy", "record", "bind", "hop", "jump", "tapped", "wire", "answer"}
Wired(bag) == [key \in DOMAIN H!MapOut(bag) |-> <<0, H!MapOut(bag)[key]>>]
Passed(bag, way, n) ==
  CASE way = "copy" -> H!CopyMessage(bag)
    [] way = "record" -> H!RecordHop(bag, "c")
    [] way = "bind" -> H!BindMessage(bag, [traceId |-> 7, spanId |-> 8], 10 * n)
    [] way = "hop" -> H!NextHop(bag, "c", [mode |-> "inherit"], 10 * n, 10 * n + 1)
    [] way = "jump" -> H!NextHop(bag, "c", [mode |-> "own", channel |-> 9], 10 * n, 10 * n + 1)
    [] way = "tapped" -> H!NextHop(bag, "c", [mode |-> "none"], 10 * n, 10 * n + 1)
    [] way = "wire" -> H!Sent(H!MapIn(Wired(bag)), "c", H!Empty, 10 * n, 10 * n + 1)
    [] way = "answer" -> H!Sent(H!ReplyInit(bag), "c", H!FromHeaders(bag, 10 * n), 10 * n, 10 * n + 1)

\* The message after each of the ways.
Trail(ways, first) ==
  LET after[n \in 0 .. Len(ways)] == IF n = 0 THEN first ELSE Passed(after[n - 1], ways[n], n)
  IN after
Journeys == UNION {[1 .. n -> Ways] : n \in 1 .. 3}
Start0 == H!Sent([idempotencyKey |-> 5], "c", H!Empty, 1, 2)

\* One request is one trace: its trace and correlation ids stay, however it is passed on; a hop and an
\* answer name the message and the span they come from, and a message that crosses a protocol
\* takes over the span it was sent with.
ASSUME OneTracePerRequest ==
  \A ways \in Journeys :
    LET after == Trail(ways, Start0)
    IN \A n \in 1 .. Len(ways) :
         /\ after[n].traceId = Start0.traceId /\ after[n].correlationId = Start0.correlationId
         /\ ways[n] \in {"hop", "jump", "tapped", "answer"} =>
              after[n].causationId = after[n - 1].id /\ after[n].parentSpanId = after[n - 1].spanId
         /\ ways[n] = "wire" => after[n].spanId = after[n - 1].spanId

\* The key of a request goes wherever its message goes, and no answer carries it.
ASSUME KeysTravelWithMessages ==
  \A ways \in Journeys :
    LET after == Trail(ways, Start0)
    IN \A n \in 0 .. Len(ways) :
         "idempotencyKey" \in DOMAIN after[n] <=> \A m \in 1 .. n : ways[m] # "answer"

\* Only an inherited or an own reply channel leads back.
ASSUME RepliesAreForTheirHop ==
  \A ways \in Journeys :
    LET after == Trail(ways, H!Over([replyChannel |-> 3], Start0))
        last == after[Len(ways)]
    IN /\ "replyChannel" \in DOMAIN last =>
            last.replyChannel = IF \E n \in DOMAIN ways : ways[n] = "jump" THEN 9 ELSE 3
       /\ "replyChannel" \in DOMAIN last <=>
            \E n \in 0 .. Len(ways) :
              /\ n > 0 => ways[n] = "jump"
              /\ \A m \in n + 1 .. Len(ways) : ways[m] \notin {"tapped", "wire", "answer"}

\* A message without a trace of its own joins the ambient one; one that was just made has its own
\* trace, and only its parent span is ambient.
Ambient == H!FromHeaders(Start0, 6)
ASSUME MadeMessagesStartTraces ==
  /\ H!BindMessage(H!With("id", 4), Ambient, 6).traceId = Start0.traceId
  /\ LET made == H!Sent(H!Empty, "c", Ambient, 4, 6)
     IN made.traceId = 4 /\ made.parentSpanId = Start0.spanId

\* The first text of a value is read, whatever it is wrapped in; the trace of a message wins over the
\* headers of a binding; a request over its extensions.
ASSUME ProtocolsAsDocumented ==
  /\ H!MapIn([h \in {"x-trace-id", "x-idempotency-key"} |-> IF h = "x-trace-id" THEN <<0, 4, 5>> ELSE <<6>>])
       = [traceId |-> 4, idempotencyKey |-> 6]
  /\ H!ClientKey([h \in {"own", "idempotency-key"} |-> <<3>>], <<"other">>) = {}
  /\ H!ClientKey([h \in {"own", "idempotency-key"} |-> <<3>>], <<"other", "own">>) = {3}
  /\ H!RestOutHeaders([h \in {"x-trace-id", "content-type"} |-> 9], Start0, 8)
       = H!Over(H!MapOut(Start0), H!With("content-type", 9))
  /\ H!GraphqlSource([req |-> 1, headers |-> 2, extensions |-> 3]) = 1
  /\ H!GraphqlRawHeaders([headers |-> 2, extensions |-> 3]) = 3
=============================================================================
