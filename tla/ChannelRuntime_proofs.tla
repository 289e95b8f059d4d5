------------------------ MODULE ChannelRuntime_proofs ------------------------
(***************************************************************************)
(* What ChannelRuntime keeps in every application: copies of fanouts never *)
(* answer, fanouts bound in a circle are not endless, deliveries find the  *)
(* consumers, and a shutdown leaves nothing in a queue.                    *)
(***************************************************************************)
EXTENDS ChannelRuntime, FiniteSetTheorems, TLAPS

(* The elements at some positions of a sequence. *)

\* How many of the positions come before i.
Rank(positions, i) == Cardinality({j \in positions : j < i})

LEMMA Ranks ==
  ASSUME NEW n \in Nat, NEW P \in SUBSET (1 .. n), NEW i \in P
  PROVE  /\ Rank(P, i) \in 0 .. Cardinality(P) - 1
         /\ \A j \in P : j < i => Rank(P, j) < Rank(P, i)
<1> DEFINE Before(j) == {k \in P : k < j}
<1>1. IsFiniteSet(P) /\ \A j \in P : j \in Int
  <2>1. IsFiniteSet(1 .. n)
    BY FS_Interval
  <2>2. IsFiniteSet(P)
    BY <2>1, FS_Subset
  <2>3. \A j \in P : j \in Int
    OBVIOUS
  <2> QED BY <2>2, <2>3
<1>2. \A j \in P : IsFiniteSet(Before(j)) /\ Cardinality(Before(j)) \in Nat
  BY <1>1, FS_Subset, FS_CardinalityType
<1>3. Cardinality(P \ {i}) = Cardinality(P) - 1 /\ IsFiniteSet(P \ {i}) /\ Cardinality(P) \in Nat
  BY <1>1, FS_RemoveElement, FS_CardinalityType
<1>4. Cardinality(Before(i)) <= Cardinality(P \ {i})
  <2>1. Before(i) \in SUBSET (P \ {i})
    OBVIOUS
  <2> QED BY <1>3, <2>1, FS_Subset
<1>5. ASSUME NEW j \in P, j < i
      PROVE  Cardinality(Before(j)) < Cardinality(Before(i))
  <2>1. Before(j) \cup {j} \in SUBSET Before(i) /\ j \notin Before(j)
    <3>1. \A k \in P : k < j => k < i
      BY <1>1, <1>5
    <3>2. ~(j < j)
      BY <1>1
    <3> QED BY <1>5, <3>1, <3>2
  <2>2. Cardinality(Before(j) \cup {j}) = Cardinality(Before(j)) + 1
    BY <1>2, <2>1, FS_AddElement
  <2>3. Cardinality(Before(j) \cup {j}) <= Cardinality(Before(i))
    BY <1>2, <2>1, FS_Subset
  <2> QED BY <1>2, <2>2, <2>3
<1>6. \A j \in P : Rank(P, j) = Cardinality(Before(j))
  BY DEF Rank
<1> HIDE DEF Before
<1> QED BY <1>2, <1>3, <1>4, <1>5, <1>6

\* Every rank below the number of positions is that of one position.
LEMMA RanksAreTaken ==
  ASSUME NEW n \in Nat, NEW P \in SUBSET (1 .. n), NEW k \in 1 .. Cardinality(P)
  PROVE  \E i \in P : Rank(P, i) = k - 1
<1> DEFINE N == Cardinality(P)
           f == [i \in P |-> Rank(P, i)]
<1>1. IsFiniteSet(P) /\ N \in Nat
  <2>1. IsFiniteSet(1 .. n)
    BY FS_Interval
  <2> QED BY <2>1, FS_Subset, FS_CardinalityType
<1>2. f \in [P -> 0 .. N - 1]
  BY Ranks
<1>3. \A i, j \in P : i < j => f[i] < f[j]
  BY Ranks
<1>4. \A i, j \in P : i # j => f[i] # f[j]
  <2>1. ASSUME NEW i \in P, NEW j \in P, i # j
        PROVE  f[i] # f[j]
    <3>1. i \in Int /\ j \in Int /\ f[i] \in Int /\ f[j] \in Int
      BY <1>1, <1>2
    <3>2. i < j \/ j < i
      BY <2>1, <3>1
    <3> HIDE DEF f
    <3> QED BY <1>3, <3>1, <3>2
  <2> HIDE DEF f
  <2> QED BY <2>1
<1> HIDE DEF f
<1>5. f \in Injection(P, 0 .. N - 1)
  BY <1>2, <1>4 DEF Injection, IsInjective
<1>6. IsFiniteSet(0 .. N - 1) /\ Cardinality(0 .. N - 1) = N
  <2>1. 0 \in Int /\ N - 1 \in Int
    BY <1>1
  <2>2. Cardinality(0 .. N - 1) = IF 0 > N - 1 THEN 0 ELSE N - 1 - 0 + 1
    BY <2>1, FS_Interval
  <2> QED BY <1>1, <2>1, <2>2, FS_Interval
<1>7. f \in Surjection(P, 0 .. N - 1)
  BY <1>5, <1>6, FS_Injection
<1>8. k - 1 \in 0 .. N - 1
  BY <1>1
<1>9. PICK i \in P : f[i] = k - 1
  BY <1>7, <1>8 DEF Surjection
<1> QED BY <1>9 DEF f

\* The chosen elements are those of the positions, each at its rank.
LEMMA ChosenElements ==
  ASSUME NEW T, NEW seq \in Seq(T), NEW P \in SUBSET DOMAIN seq
  PROVE  /\ Chosen(seq, P) \in Seq(T)
         /\ \A k \in DOMAIN Chosen(seq, P) : \E i \in P : Chosen(seq, P)[k] = seq[i]
         /\ \A i \in P : \E k \in DOMAIN Chosen(seq, P) : Chosen(seq, P)[k] = seq[i]
<1> DEFINE c == Chosen(seq, P)
           N == Cardinality(P)
<1>1. PICK n \in Nat : DOMAIN seq = 1 .. n
  OBVIOUS
<1>2. N \in Nat
  <2>1. IsFiniteSet(1 .. n)
    BY FS_Interval
  <2> QED BY <1>1, <2>1, FS_Subset, FS_CardinalityType
<1>3. /\ DOMAIN c = 1 .. N
      /\ \A k \in 1 .. N : c[k] = seq[CHOOSE i \in P : Rank(P, i) = k - 1]
  BY DEF Chosen, Rank
<1> HIDE DEF c
<1>4. ASSUME NEW k \in 1 .. N
      PROVE  \E i \in P : c[k] = seq[i]
  <2>1. \E i \in P : Rank(P, i) = k - 1
    BY <1>1, RanksAreTaken
  <2>2. (CHOOSE i \in P : Rank(P, i) = k - 1) \in P
    BY <2>1
  <2> QED BY <1>3, <2>2
<1>5. ASSUME NEW i \in P
      PROVE  \E k \in 1 .. N : c[k] = seq[i]
  <2>1. Rank(P, i) \in 0 .. N - 1
    BY <1>1, Ranks
  <2>2. PICK k \in 1 .. N : Rank(P, i) = k - 1
    <3>1. Rank(P, i) + 1 \in 1 .. N /\ Rank(P, i) = (Rank(P, i) + 1) - 1
      BY <1>2, <2>1
    <3> QED BY <3>1
  <2>3. ASSUME NEW j \in P, Rank(P, j) = k - 1
        PROVE  j = i
    <3>1. i \in Int /\ j \in Int
      BY <1>1
    <3>2. ~(k - 1 < k - 1)
      BY <2>2
    <3>3. ~(j < i)
      BY <1>1, <2>2, <2>3, <3>2, Ranks
    <3>4. ~(i < j)
      BY <1>1, <2>2, <2>3, <3>2, Ranks
    <3> QED BY <3>1, <3>3, <3>4
  <2>4. (CHOOSE j \in P : Rank(P, j) = k - 1) = i
    BY <2>2, <2>3
  <2> QED BY <1>3, <2>2, <2>4
<1>6. c \in Seq(T)
  <2>1. \A k \in 1 .. N : c[k] \in T
    BY <1>1, <1>4
  <2>2. c = [k \in 1 .. N |-> c[k]]
    BY <1>3 DEF c, Chosen
  <2>3. c \in [1 .. N -> T]
    BY <2>1, <2>2
  <2> QED BY <1>2, <2>3
<1> QED BY <1>3, <1>4, <1>5, <1>6 DEF c

-----------------------------------------------------------------------------
(* The channels a message has been through. *)

\* The history with another channel at its end.
Onward(h, c) == Append(h, c)

LEMMA PassesOfNone == \A c : Passes(<<>>, c) = 0
  BY FS_EmptySet DEF Passes

\* Another channel at the end is one more pass of that channel.
LEMMA PassesAppend ==
  ASSUME NEW T, NEW h \in Seq(T), NEW c \in T, NEW name
  PROVE  /\ Passes(h, name) \in Nat
         /\ Passes(Append(h, c), name) = IF c = name THEN Passes(h, name) + 1 ELSE Passes(h, name)
<1> DEFINE Places(g) == {i \in DOMAIN g : g[i] = name}
           n == Len(h)
           g == Append(h, c)
<1>1. /\ n \in Nat /\ DOMAIN h = 1 .. n /\ DOMAIN g = 1 .. n + 1
      /\ g[n + 1] = c /\ \A i \in 1 .. n : g[i] = h[i]
  <2>1. n \in Nat /\ DOMAIN h = 1 .. n
    OBVIOUS
  <2>2. DOMAIN g = 1 .. n + 1 /\ g[n + 1] = c
    OBVIOUS
  <2>3. ASSUME NEW i \in 1 .. n
        PROVE  g[i] = h[i]
    OBVIOUS
  <2> QED BY <2>1, <2>2, <2>3
<1> HIDE DEF n, g
<1>2. IsFiniteSet(Places(h)) /\ n + 1 \notin Places(h)
  <2>1. IsFiniteSet(1 .. n)
    BY <1>1, FS_Interval
  <2>2. Places(h) \in SUBSET (1 .. n)
    BY <1>1
  <2>3. n + 1 \notin 1 .. n
    BY <1>1
  <2> QED BY <2>1, <2>2, <2>3, FS_Subset
<1>3. Cardinality(Places(h)) \in Nat
  BY <1>2, FS_CardinalityType
<1>4. Places(g) = IF c = name THEN Places(h) \cup {n + 1} ELSE Places(h)
  <2>1. \A i \in 1 .. n + 1 : i \in 1 .. n \/ i = n + 1
    BY <1>1
  <2>2. \A i \in 1 .. n : i \in 1 .. n + 1
    BY <1>1
  <2>3. n + 1 \in 1 .. n + 1
    BY <1>1
  <2> QED BY <1>1, <2>1, <2>2, <2>3
<1>5. Cardinality(Places(h) \cup {n + 1}) = Cardinality(Places(h)) + 1
  BY <1>2, FS_AddElement
<1>6. Passes(h, name) = Cardinality(Places(h)) /\ Passes(g, name) = Cardinality(Places(g))
  BY DEF Passes
<1> HIDE DEF Places
<1> QED BY <1>3, <1>4, <1>5, <1>6 DEF g

LEMMA PassesOnward ==
  ASSUME NEW T, NEW h \in Seq(T), NEW c \in T
  PROVE  /\ Onward(h, c) \in Seq(T)
         /\ \A name : /\ Passes(h, name) \in Nat
                      /\ Passes(Onward(h, c), name) =
                           IF c = name THEN Passes(h, name) + 1 ELSE Passes(h, name)
<1>1. Append(h, c) \in Seq(T)
  OBVIOUS
<1>2. ASSUME NEW name
      PROVE  /\ Passes(h, name) \in Nat
             /\ Passes(Append(h, c), name) = IF c = name THEN Passes(h, name) + 1 ELSE Passes(h, name)
  BY PassesAppend
<1> QED BY ONLY <1>1, <1>2 DEF Onward

LEMMA HistoriesMade ==
  /\ \A m, c : Recorded(m, c) = [m EXCEPT !.history = Onward(m.history, c)]
  /\ \A m, c, copy : Hop(m, c, copy) =
       [m EXCEPT !.history = Onward(m.history, c),
                 !.reply = IF copy THEN "" ELSE m.reply,
                 !.copied = IF copy THEN m.copied \cup {"copy"} ELSE m.copied]
  BY DEF Recorded, Hop, Onward

(* What the consumers of an application are, and the channels only fanouts lead to. *)

\* The names there are; the provers do not see that a literal is a string.
Text == STRING \cup {"", "error", "reply", "broker", "client", "locals", "logger"}

\* The consumer the module itself declares.
Logger == [id |-> "logger", on |-> ErrorChannel, kind |-> "local", steps |-> <<>>,
           group |-> "", pattern |-> Everything]

ConsumerIds == {Consumers[i].id : i \in DOMAIN Consumers}
GroupNames == {Consumers[i].group : i \in DOMAIN Consumers}

StepsDeclared == UNION {Range(Consumers[i].steps) : i \in DOMAIN Consumers}
Others == app.entries \cup UNION {step.to \cup step.forget : step \in StepsDeclared}
Bound == UNION {channels[i].bindings : i \in DOMAIN channels}
Fanned == Bound \ Others

LEMMA EmptyTyped == ASSUME NEW T PROVE <<>> \in Seq(T)
  OBVIOUS

LEMMA JoinedTyped ==
  ASSUME NEW T, NEW x \in T, NEW a \in Seq(T), NEW b \in Seq(T), NEW c \in Seq(T)
  PROVE  <<x>> \o a \o b \o c \in Seq(T)
<1>1. <<x>> \in Seq(T)
  OBVIOUS
<1>2. <<x>> \o a \in Seq(T)
  BY <1>1
<1>3. <<x>> \o a \o b \in Seq(T)
  BY <1>2
<1> QED BY <1>3

LEMMA SeqGrows ==
  ASSUME NEW S, NEW T, S \subseteq T, NEW a \in Seq(S)
  PROVE  a \in Seq(T)
<1>1. a \in [1 .. Len(a) -> S] /\ Len(a) \in Nat
  OBVIOUS
<1>2. a \in [1 .. Len(a) -> T]
  BY <1>1
<1> QED BY <1>1, <1>2

LEMMA ConsumersTyped ==
  ASSUME app \in Apps
  PROVE  /\ Consumers \in Seq(Subscriber \cup {Logger})
         /\ \A c \in Subscriber \cup {Logger} : c.id \in Text /\ c.on \in Text /\ c.steps \in Seq(FlowStep)
<1> DEFINE S == Subscriber \cup {Logger}
<1>1. app.activators \in Seq(Subscriber) /\ app.outbounds \in Seq(Subscriber) /\ app.flows \in Seq(Subscriber)
  BY AppsTyped
<1>2. Subscriber \subseteq S /\ Logger \in S
  OBVIOUS
<1>3. app.activators \in Seq(S) /\ app.outbounds \in Seq(S) /\ app.flows \in Seq(S)
  BY <1>1, <1>2, SeqGrows
<1>4. Consumers = <<Logger>> \o app.activators \o app.outbounds \o app.flows
  BY DEF Consumers, Logger
<1>5. Logger.steps = <<>> /\ Logger.id = "logger" /\ Logger.on = ErrorChannel
  BY DEF Logger
<1>6. <<>> \in Seq(FlowStep) /\ "logger" \in Text /\ ErrorChannel \in Text
  <2>1. <<>> \in Seq(FlowStep)
    OBVIOUS
  <2>2. "logger" \in Text /\ ErrorChannel \in Text
    BY DEF Text, ErrorChannel
  <2> QED BY <2>1, <2>2
<1>7. ASSUME NEW c \in Subscriber
      PROVE  c.id \in Text /\ c.on \in Text /\ c.steps \in Seq(FlowStep)
  BY DEF Subscriber, Text
<1>8. Consumers \in Seq(S)
  BY ONLY <1>2, <1>3, <1>4, JoinedTyped
<1> QED BY <1>5, <1>6, <1>7, <1>8

LEMMA ConsumersKnown ==
  ASSUME app \in Apps, NEW c \in ConsumerIds
  PROVE  /\ c \in Text /\ ConsumerOf(c).id = c /\ ConsumerOf(c).group \in GroupNames
         /\ ConsumerOf(c).steps \in Seq(FlowStep)
         /\ \E i \in DOMAIN Consumers : ConsumerOf(c) = Consumers[i]
<1>1. PICK S : /\ Consumers \in Seq(S)
               /\ \A x \in S : x.id \in Text /\ x.steps \in Seq(FlowStep)
  BY ConsumersTyped
<1>2. \A i \in DOMAIN Consumers : Consumers[i] \in S
  BY <1>1
<1>3. \E i \in DOMAIN Consumers : Consumers[i].id = c
  BY DEF ConsumerIds
<1> DEFINE i == CHOOSE i \in DOMAIN Consumers : Consumers[i].id = c
<1>4. i \in DOMAIN Consumers /\ Consumers[i].id = c
  BY <1>3
<1>5. ConsumerOf(c) = Consumers[i]
  BY DEF ConsumerOf
<1> HIDE DEF i
<1>6. Consumers[i] \in S /\ Consumers[i].group \in GroupNames
  BY <1>2, <1>4 DEF GroupNames
<1> QED BY <1>1, <1>4, <1>5, <1>6

\* A step of a consumer sends to channels that are reached without a fanout.
LEMMA StepsKnown ==
  ASSUME app \in Apps, NEW c \in ConsumerIds, NEW n \in Nat \ {0}, n <= Len(ConsumerOf(c).steps)
  PROVE  LET step == ConsumerOf(c).steps[n] IN
         step \in FlowStep /\ step.to \subseteq Text \ Fanned /\ step.forget \subseteq Text \ Fanned
<1>1. PICK i \in DOMAIN Consumers : ConsumerOf(c) = Consumers[i]
  BY ConsumersKnown
<1>2. ConsumerOf(c).steps \in Seq(FlowStep)
  BY ConsumersKnown
<1>3. PICK steps \in Seq(FlowStep) : steps = ConsumerOf(c).steps
  BY <1>2
<1>4. n \in DOMAIN steps /\ steps[n] \in FlowStep
  BY <1>3
<1>5. steps[n] \in Range(Consumers[i].steps)
  BY <1>1, <1>3, <1>4 DEF Range
<1>6. steps[n] \in StepsDeclared
  BY <1>5 DEF StepsDeclared
<1>7. steps[n].to \subseteq Text /\ steps[n].forget \subseteq Text
  BY <1>4 DEF FlowStep, Text
<1>8. steps[n].to \subseteq Others /\ steps[n].forget \subseteq Others
  BY <1>6 DEF Others
<1> QED BY <1>3, <1>4, <1>7, <1>8 DEF Fanned

-----------------------------------------------------------------------------
(* Messages and the work in progress. *)

Replies == {"", "reply"}
Message == [reply : Replies, routing : Seq(STRING), history : Seq(Text),
            copied : SUBSET {"copy", "tap"}]

\* A copy does not answer, and no channel of fanouts is passed a third time.
Quiet(m) == "copy" \in m.copied => m.reply = ""
Tame(m) == /\ Quiet(m)
           /\ \A name \in Fanned : Passes(m.history, name) <= 2
Messages == {m \in Message : Tame(m)}

Ids == Seq(Text \X Int)
Kinds == {"send", "task", "broadcast", "fanout", "failing"}
Modes == {"all", "settle", "forget", "pump", "drain", "quiet", "client", "ack"}

Nodes == [kind : Kinds, at : Text, msg : Messages, mode : Modes, step : Nat \ {0},
          waits : SUBSET Ids, failed : SUBSET Ids]

\* A task is a consumer at work.
OkNode(n) == n \in Nodes /\ (n.kind = "task" => n.at \in ConsumerIds)
IsWork(w) == \A id \in DOMAIN w : id \in Ids /\ OkNode(w[id])

LEMMA MessagesMade ==
  ASSUME NEW reply \in Replies, NEW c \in Text
  PROVE  /\ Recorded(Created(reply), c) \in Messages
         /\ \A name : Passes(Recorded(Created(reply), c).history, name) < 2
<1> DEFINE m == Recorded(Created(reply), c)
<1>0. <<>> \in Seq(STRING)
  BY EmptyTyped
<1>1. <<>> \in Seq(Text)
  BY EmptyTyped
<1>2. m = [reply |-> reply, routing |-> <<>>, history |-> Onward(<<>>, c), copied |-> {}]
  BY HistoriesMade DEF Created
<1>3. Onward(<<>>, c) \in Seq(Text)
  BY <1>1, PassesOnward
<1>4. \A name : Passes(Onward(<<>>, c), name) <= 1
  <2>1. \A h : h \in Seq(Text) => \A name : Passes(Onward(h, c), name) =
          IF c = name THEN Passes(h, name) + 1 ELSE Passes(h, name)
    BY PassesOnward
  <2>2. \A name : Passes(Onward(<<>>, c), name) =
          IF c = name THEN Passes(<<>>, name) + 1 ELSE Passes(<<>>, name)
    BY <1>1, <2>1
  <2> QED BY <2>2, PassesOfNone
<1> HIDE DEF m
<1>5. m \in Message
  BY <1>0, <1>2, <1>3 DEF Message
<1>6. \A name : Passes(m.history, name) < 2
  <2>1. \A name : Passes(Onward(<<>>, c), name) \in Nat
    BY <1>1, <1>3, PassesOnward
  <2> QED BY <1>2, <1>4, <2>1
<1>7. \A name : Passes(m.history, name) <= 2
  <2>1. \A name : Passes(m.history, name) \in Nat
    BY <1>2, <1>3, PassesOnward
  <2> QED BY <1>6, <2>1
<1>8. Tame(m)
  BY <1>2, <1>7 DEF Tame, Quiet
<1> QED BY <1>5, <1>6, <1>8 DEF Messages, m

\* A channel appended to the history of a message.
LEMMA HistoryGrows ==
  ASSUME NEW m \in Messages, NEW c \in Text, NEW n \in Message,
         n.history = Onward(m.history, c),
         Quiet(n),
         c \in Fanned => Passes(m.history, c) < 2
  PROVE  n \in Messages
<1>1. m.history \in Seq(Text) /\ Tame(m)
  BY DEF Messages, Message
<1>2. PICK h \in Seq(Text) : h = m.history
  BY <1>1
<1>3. ASSUME NEW name \in Fanned
      PROVE  Passes(n.history, name) <= 2
  <2>1. Passes(h, name) \in Nat /\ Passes(h, name) <= 2
    BY <1>1, <1>2, <1>3, PassesOnward DEF Tame
  <2>2. Passes(Onward(h, c), name) = IF c = name THEN Passes(h, name) + 1 ELSE Passes(h, name)
    BY PassesOnward
  <2> QED BY <1>2, <1>3, <2>1, <2>2
<1> QED BY <1>3 DEF Messages, Tame, Quiet

LEMMA RecordedHop ==
  ASSUME NEW m \in Messages, NEW c \in Text,
         c \in Fanned => Passes(m.history, c) < 2
  PROVE  Recorded(m, c) \in Messages
<1>1. m \in Message /\ m.history \in Seq(Text) /\ Tame(m)
  BY DEF Messages, Message
<1>2. Onward(m.history, c) \in Seq(Text)
  BY <1>1, PassesOnward
<1>3. Recorded(m, c) \in Message
  BY <1>1, <1>2, HistoriesMade DEF Message
<1>4. /\ Recorded(m, c).history = Onward(m.history, c)
      /\ Recorded(m, c).copied = m.copied /\ Recorded(m, c).reply = m.reply
  BY <1>1, HistoriesMade DEF Message
<1>5. Quiet(Recorded(m, c))
  BY <1>1, <1>4 DEF Tame, Quiet
<1> QED BY <1>3, <1>4, <1>5, HistoryGrows

LEMMA HoppedOn ==
  ASSUME NEW m \in Messages, NEW c \in Text, NEW copy \in BOOLEAN,
         c \in Fanned => Passes(m.history, c) < 2
  PROVE  Hop(m, c, copy) \in Messages
<1>1. m \in Message /\ m.history \in Seq(Text) /\ Tame(m)
  BY DEF Messages, Message
<1>2. Onward(m.history, c) \in Seq(Text)
  BY <1>1, PassesOnward
<1> DEFINE n == Hop(m, c, copy)
<1>3. n = [m EXCEPT !.history = Onward(m.history, c),
                    !.reply = IF copy THEN "" ELSE m.reply,
                    !.copied = IF copy THEN m.copied \cup {"copy"} ELSE m.copied]
  BY HistoriesMade
<1> HIDE DEF n
<1>4. n \in Message
  <2>1. /\ (IF copy THEN "" ELSE m.reply) \in Replies
        /\ (IF copy THEN m.copied \cup {"copy"} ELSE m.copied) \in SUBSET {"copy", "tap"}
    BY <1>1 DEF Message, Replies
  <2>2. PICK reply \in Replies, copied \in SUBSET {"copy", "tap"} :
          n = [m EXCEPT !.history = Onward(m.history, c), !.reply = reply, !.copied = copied]
    BY <1>3, <2>1
  <2> QED BY <1>1, <1>2, <2>2 DEF Message
<1>5. /\ n.history = Onward(m.history, c)
      /\ n.reply = IF copy THEN "" ELSE m.reply
      /\ n.copied = IF copy THEN m.copied \cup {"copy"} ELSE m.copied
  BY <1>1, <1>3 DEF Message
<1>6. Quiet(n)
  BY <1>1, <1>5 DEF Tame, Quiet
<1>7. n \in Messages
  BY <1>4, <1>5, <1>6, HistoryGrows
<1> QED BY <1>7 DEF n

\* A fanout does not send to a binding that the message has passed twice.
LEMMA NotCyclic ==
  ASSUME NEW m \in Messages, NEW c \in Text, ~Cyclic(m, c)
  PROVE  Passes(m.history, c) < 2
<1>1. m.history \in Seq(Text)
  BY DEF Messages, Message
<1>2. Passes(m.history, c) \in Nat
  BY <1>1, PassesOnward
<1> QED BY <1>2 DEF Cyclic

LEMMA CopiesMade ==
  ASSUME NEW m \in Messages
  PROVE  /\ Tapped(m) \in Messages
         /\ \A r \in Seq(STRING) : [m EXCEPT !.routing = r] \in Messages
<1>1. m \in Message /\ Tame(m)
  BY DEF Messages
<1>2. /\ Tapped(m) \in Message /\ Tapped(m).history = m.history /\ Tapped(m).reply = m.reply
      /\ "copy" \in Tapped(m).copied => "copy" \in m.copied
  BY <1>1 DEF Tapped, Message
<1>3. ASSUME NEW r \in Seq(STRING)
      PROVE  [m EXCEPT !.routing = r] \in Messages
  <2>1. PICK n : n = [m EXCEPT !.routing = r]
    OBVIOUS
  <2>2. n \in Message /\ n.history = m.history /\ n.reply = m.reply /\ n.copied = m.copied
    BY <1>1, <2>1 DEF Message
  <2> QED BY <1>1, <2>1, <2>2 DEF Messages, Tame, Quiet
<1> QED BY <1>1, <1>2, <1>3 DEF Messages, Tame, Quiet

LEMMA NodesMade ==
  ASSUME NEW kind \in Kinds, NEW at \in Text, NEW msg \in Messages, NEW mode \in Modes,
         kind = "task" => at \in ConsumerIds
  PROVE  OkNode(Node(kind, at, msg, mode))
<1>1. {} \in SUBSET Ids /\ 1 \in Nat \ {0}
  OBVIOUS
<1> QED BY <1>1 DEF OkNode, Node, Nodes

LEMMA NodeParts ==
  ASSUME NEW n, OkNode(n)
  PROVE  /\ n.kind \in Kinds /\ n.at \in Text /\ n.msg \in Messages /\ n.mode \in Modes
         /\ n.step \in Nat \ {0} /\ n.waits \subseteq Ids /\ n.failed \subseteq Ids
  BY DEF OkNode, Nodes

\* A node keeps being one while it waits and goes on.
LEMMA NodesChange ==
  ASSUME NEW n, OkNode(n), NEW waits \in SUBSET Ids
  PROVE  /\ \A failed \in SUBSET Ids : OkNode([n EXCEPT !.waits = waits, !.failed = failed])
         /\ \A step \in Nat \ {0} : OkNode([n EXCEPT !.step = step, !.waits = waits])
         /\ OkNode([n EXCEPT !.kind = "failing", !.waits = waits])
         /\ OkNode([n EXCEPT !.waits = waits])
         /\ \A step \in Nat \ {0} : OkNode([n EXCEPT !.step = step])
<1>1. ASSUME NEW failed \in SUBSET Ids
      PROVE  OkNode([n EXCEPT !.waits = waits, !.failed = failed])
  BY DEF OkNode, Nodes
<1>2. ASSUME NEW step \in Nat \ {0}
      PROVE  OkNode([n EXCEPT !.step = step, !.waits = waits])
  BY DEF OkNode, Nodes
<1>3. OkNode([n EXCEPT !.kind = "failing", !.waits = waits])
  BY DEF OkNode, Nodes, Kinds
<1>4. OkNode([n EXCEPT !.waits = waits])
  BY DEF OkNode, Nodes
<1>5. ASSUME NEW step \in Nat \ {0}
      PROVE  OkNode([n EXCEPT !.step = step])
  BY DEF OkNode, Nodes
<1> QED BY <1>1, <1>2, <1>3, <1>4, <1>5

LEMMA Merged ==
  ASSUME NEW f, NEW g, IsWork(f), IsWork(g)
  PROVE  IsWork(f ++ g) /\ DOMAIN (f ++ g) = DOMAIN f \cup DOMAIN g
<1> DEFINE h == f ++ g
<1>1. DOMAIN h = DOMAIN f \cup DOMAIN g
  BY DEF ++
<1>2. \A x \in DOMAIN h : h[x] = IF x \in DOMAIN f THEN f[x] ELSE g[x]
  BY DEF ++
<1> HIDE DEF h
<1>3. IsWork(h)
  BY <1>1, <1>2 DEF IsWork
<1> QED BY <1>1, <1>3 DEF h

LEMMA Single ==
  ASSUME NEW id \in Ids, NEW n, OkNode(n)
  PROVE  IsWork(Only(id, n))
  BY DEF IsWork, Only

LEMMA NothingAdded == IsWork(<<>>)
  BY DEF IsWork

\* A node replaced.
LEMMA Replaced ==
  ASSUME NEW w, IsWork(w), NEW id \in DOMAIN w, NEW n, OkNode(n)
  PROVE  IsWork([w EXCEPT ![id] = n])
  BY DEF IsWork

LEMMA Restricted ==
  ASSUME NEW w, IsWork(w), NEW id
  PROVE  IsWork([i \in DOMAIN w \ {id} |-> w[i]])
  BY DEF IsWork

\* The nodes below id.
LEMMA ChildOf ==
  ASSUME NEW id \in Ids, NEW d \in Text, NEW n \in Int
  PROVE  /\ Append(id, <<d, n>>) \in Ids
         /\ Last(Append(id, <<d, n>>))[1] = d
<1>0. <<d, n>> \in Text \X Int /\ <<d, n>>[1] = d
  OBVIOUS
<1>1. PICK e \in Text \X Int : e = <<d, n>> /\ e[1] = d
  BY <1>0
<1>2. id \in Seq(Text \X Int)
  BY DEF Ids
<1>3. Append(id, e) \in Seq(Text \X Int)
  BY <1>2
<1>4. Last(Append(id, e)) = e
  <2>1. Len(Append(id, e)) = Len(id) + 1
    BY <1>2
  <2>2. Append(id, e)[Len(id) + 1] = e
    BY <1>2
  <2> QED BY <2>1, <2>2 DEF Last
<1>5. Last(Append(id, e))[1] = d
  BY <1>1, <1>4
<1> QED BY <1>1, <1>3, <1>5 DEF Ids

LEMMA RootOf ==
  ASSUME NEW d \in Text, NEW n \in Int
  PROVE  <<<<d, n>>>> \in Ids
  BY DEF Ids

LEMMA ChildrenMade ==
  ASSUME NEW id \in Ids, NEW D \in SUBSET Text, NEW n \in Int, NEW w,
         DOMAIN w = {Append(id, <<d, n>>) : d \in D},
         \A d \in D : OkNode(w[Append(id, <<d, n>>)])
  PROVE  IsWork(w) /\ DOMAIN w \subseteq Ids
<1>1. ASSUME NEW x \in DOMAIN w
      PROVE  x \in Ids /\ OkNode(w[x])
  <2>1. PICK d \in D : x = Append(id, <<d, n>>)
    OBVIOUS
  <2>2. Append(id, <<d, n>>) \in Ids
    BY ChildOf
  <2> QED BY <2>1, <2>2
<1> QED BY <1>1 DEF IsWork

LEMMA EndedWork ==
  ASSUME NEW w, IsWork(w), NEW id \in DOMAIN w, NEW ok \in BOOLEAN
  PROVE  IsWork(Ended(w, id, ok))
<1> DEFINE rest == [i \in DOMAIN w \ {id} |-> w[i]]
           parent == Front(id)
<1>1. IsWork(rest)
  BY Restricted
<1>2. id \in Ids
  BY DEF IsWork
<1> HIDE DEF rest, parent
<1>3. CASE parent \in DOMAIN rest
  <2> DEFINE n == rest[parent]
             waits == n.waits \ {id}
             failed == IF ok THEN n.failed ELSE n.failed \cup {id}
  <2>1. OkNode(n)
    BY <1>1, <1>3 DEF IsWork
  <2>2. waits \in SUBSET Ids /\ failed \in SUBSET Ids
    BY <1>2, <2>1, NodeParts
  <2>3. OkNode([n EXCEPT !.waits = waits, !.failed = failed])
    <3> HIDE DEF n, waits, failed
    <3> QED BY <2>1, <2>2, NodesChange
  <2>4. IsWork([rest EXCEPT ![parent] = [n EXCEPT !.waits = waits, !.failed = failed]])
    BY <1>1, <1>3, <2>3, Replaced
  <2>5. [rest EXCEPT ![parent].waits = @ \ {id}, ![parent].failed = IF ok THEN @ ELSE @ \cup {id}]
          = [rest EXCEPT ![parent] = [n EXCEPT !.waits = waits, !.failed = failed]]
    <3>1. "failed" \in DOMAIN n /\ n.waits = rest[parent].waits
      BY <2>1 DEF OkNode, Nodes
    <3> QED BY <1>3, <3>1
  <2> QED BY <1>1, <2>4, <2>5 DEF Ended, rest, parent
<1>4. CASE parent \notin DOMAIN rest
  BY <1>1, <1>4 DEF Ended, rest, parent
<1> QED BY <1>3, <1>4

LEMMA ReportMade == OkNode(Report)
<1>1. ErrorChannel \in Text /\ "" \in Replies
  BY DEF ErrorChannel, Text, Replies
<1>2. Recorded(Created(""), ErrorChannel) \in Messages
  BY <1>1, MessagesMade
<1> QED BY <1>1, <1>2, NodesMade DEF Kinds, Modes, Report

LEMMA EnvelopesMade ==
  ASSUME NEW n
  PROVE  IsWork(Envelopes(n))
<1>1. ErrorChannel \in Text
  BY DEF ErrorChannel, Text
<1>2. OkNode(Report)
  BY ReportMade
<1>3. \A k \in Int : <<<<ErrorChannel, k>>>> \in Ids
  BY <1>1, RootOf
<1>4. \A k \in reports + 1 .. reports + n : k \in Int
  OBVIOUS
<1> QED BY <1>2, <1>3, <1>4 DEF Envelopes, IsWork

LEMMA FinishedWork ==
  ASSUME IsWork(work), NEW id \in DOMAIN work, NEW ok \in BOOLEAN, Finish(id, ok)
  PROVE  IsWork(work')
<1>1. IsWork(Ended(work, id, ok))
  BY EndedWork
<1>2. PICK n : work' = Envelopes(n) ++ Ended(work, id, ok)
  BY DEF Finish
<1>3. IsWork(Envelopes(n))
  BY EnvelopesMade
<1> QED BY <1>1, <1>2, <1>3, Merged

\* The sends of a step.
LEMMA SendsMade ==
  ASSUME NEW id \in Ids, NEW n \in Int, NEW D \in SUBSET (Text \ Fanned), NEW m \in Messages,
         NEW copy \in BOOLEAN, NEW mode \in Modes
  PROVE  /\ IsWork(SendsTo(id, n, D, m, copy, mode))
         /\ DOMAIN SendsTo(id, n, D, m, copy, mode) \subseteq Ids
<1> DEFINE w == SendsTo(id, n, D, m, copy, mode)
<1>1. DOMAIN w = {Append(id, <<d, n>>) : d \in D}
  BY DEF SendsTo
<1>2. ASSUME NEW d \in D
      PROVE  OkNode(w[Append(id, <<d, n>>)])
  <2>1. Append(id, <<d, n>>) \in DOMAIN w
    BY <1>1
  <2>2. Last(Append(id, <<d, n>>))[1] = d
    BY ChildOf
  <2>3. w[Append(id, <<d, n>>)] = Node("send", d, Recorded(Hop(m, d, copy), d), mode)
    BY <2>1, <2>2 DEF SendsTo
  <2>4. Hop(m, d, copy) \in Messages
    BY HoppedOn
  <2>5. Recorded(Hop(m, d, copy), d) \in Messages
    BY <2>4, RecordedHop
  <2> QED BY <2>3, <2>5, NodesMade DEF Kinds
<1>3. D \in SUBSET Text
  OBVIOUS
<1> HIDE DEF w
<1>4. IsWork(w) /\ DOMAIN w \subseteq Ids
  BY <1>1, <1>2, <1>3, ChildrenMade
<1> QED BY <1>4 DEF w

-----------------------------------------------------------------------------
(* The types of the application's state. *)

ErrorDeclaration == [name |-> ErrorChannel, kind |-> "pubsub", bindings |-> {}]
Declarations == Declaration \cup {ErrorDeclaration}

ChannelTypes ==
  /\ channels \in Seq(Declarations)
  /\ subs \in [Names -> Seq(ConsumerIds)]
  /\ cursor \in [Names -> [GroupNames -> Nat]]
  /\ buffer \in [Names -> Seq(Messages)]
  /\ taken \in [Names -> Nat]

TypesInv ==
  /\ app \in Apps
  /\ phase \in {"starting", "binding", "up", "stopping", "down", "refused"}
  /\ ChannelTypes
  /\ closing \in Nat \ {0} /\ requests \in Nat
  /\ bound \in Nat /\ bound <= Len(app.brokers)
  /\ IsWork(work)
  /\ \A a \in answers : "copy" \notin a[2]

LEMMA DeclarationsKnown ==
  \A c \in Declarations : c.name \in Text /\ c.bindings \subseteq Text
<1>1. \A c \in Declaration : c.name \in Text /\ c.bindings \subseteq Text
  BY DEF Declaration, Text
<1>2. ErrorDeclaration.name \in Text /\ ErrorDeclaration.bindings \subseteq Text
  BY DEF ErrorDeclaration, ErrorChannel, Text
<1> QED BY <1>1, <1>2 DEF Declarations

LEMMA ChannelsKnown ==
  ASSUME channels \in Seq(Declarations)
  PROVE  /\ Names \subseteq Text
         /\ \A i \in DOMAIN channels : channels[i].name \in Names
         /\ \A c \in Names : /\ Declared(c).name = c
                             /\ Declared(c).bindings \subseteq Text
                             /\ \E i \in DOMAIN channels : Declared(c) = channels[i]
<1>1. \A i \in DOMAIN channels : channels[i] \in Declarations
  OBVIOUS
<1>2. \A i \in DOMAIN channels : channels[i].name \in Names /\ channels[i].name \in Text
  BY <1>1, DeclarationsKnown DEF Names
<1>3. ASSUME NEW c \in Names
      PROVE  /\ Declared(c).name = c
             /\ Declared(c).bindings \subseteq Text
             /\ \E i \in DOMAIN channels : Declared(c) = channels[i]
  <2>1. \E i \in DOMAIN channels : channels[i].name = c
    BY DEF Names
  <2> DEFINE i == CHOOSE i \in DOMAIN channels : channels[i].name = c
  <2>2. i \in DOMAIN channels /\ channels[i].name = c
    BY <2>1
  <2>3. Declared(c) = channels[i]
    BY DEF Declared
  <2> HIDE DEF i
  <2> QED BY <1>1, <2>2, <2>3, DeclarationsKnown
<1> QED BY <1>2, <1>3 DEF Names

LEMMA Elements == ASSUME NEW T, NEW s \in Seq(T) PROVE \A i \in DOMAIN s : s[i] \in T
  OBVIOUS

\* What a round robin picks is there.
LEMMA Picked ==
  ASSUME NEW T, NEW s \in Seq(T), s # <<>>, NEW n \in Nat
  PROVE  s[(n % Len(s)) + 1] \in T /\ Last(s) \in T /\ Head(s) \in T /\ Tail(s) \in Seq(T)
<1>1. Len(s) \in Nat /\ Len(s) > 0 /\ \A i \in 1 .. Len(s) : s[i] \in T
  OBVIOUS
<1>2. n % Len(s) \in 0 .. Len(s) - 1
  BY <1>1
<1>3. (n % Len(s)) + 1 \in 1 .. Len(s) /\ Len(s) \in 1 .. Len(s)
  BY <1>1, <1>2
<1>4. Head(s) \in T /\ Tail(s) \in Seq(T)
  OBVIOUS
<1> QED BY <1>1, <1>3, <1>4 DEF Last

LEMMA TargetsKnown ==
  ASSUME app \in Apps, ChannelTypes, NEW c \in Names, NEW msg
  PROVE  Targets(c, msg) \subseteq ConsumerIds
<1>1. PICK s \in Seq(ConsumerIds) : s = subs[c]
  BY DEF ChannelTypes
<1>2. \A g : Matching(c, g, msg) \in Seq(ConsumerIds)
  <2>1. ASSUME NEW P \in SUBSET DOMAIN s
        PROVE  Chosen(s, P) \in Seq(ConsumerIds)
    BY ChosenElements
  <2> QED BY <1>1, <2>1 DEF Matching
<1>3. Groups(c) \subseteq GroupNames
  <2>1. \A i \in DOMAIN s : s[i] \in ConsumerIds
    BY <1>1
  <2> QED BY <1>1, <2>1, ConsumersKnown DEF Groups
<1>4. ASSUME NEW g \in Groups(c), NEW m, m = Matching(c, g, msg), m # <<>>
      PROVE  m[(cursor[c][g] % Len(m)) + 1] \in ConsumerIds
  <2>1. cursor[c][g] \in Nat
    BY <1>3 DEF ChannelTypes
  <2>2. m \in Seq(ConsumerIds)
    BY <1>2, <1>4
  <2> QED BY <1>4, <2>1, <2>2, Picked
<1>5. Range(Matching(c, "", msg)) \subseteq ConsumerIds
  <2>1. PICK m \in Seq(ConsumerIds) : m = Matching(c, "", msg)
    BY <1>2
  <2>2. \A i \in DOMAIN m : m[i] \in ConsumerIds
    BY Elements
  <2> QED BY <2>1, <2>2 DEF Range
<1>6. \A g \in Groups(c) : Elected(c, msg, g) \subseteq ConsumerIds
  BY <1>4 DEF Elected
<1>7. ASSUME NEW x \in Targets(c, msg)
      PROVE  x \in ConsumerIds
  <2>1. PICK all : all = Range(Matching(c, "", msg)) /\ all \subseteq ConsumerIds
    BY <1>5
  <2>2. (\E g \in Groups(c) : x \in Elected(c, msg, g)) \/ x \in all
    BY <1>7, <2>1 DEF Targets
  <2> QED BY <1>6, <2>1, <2>2
<1> QED BY <1>7

-----------------------------------------------------------------------------
(* A step of a send. *)

LEMMA ConsumersAreTexts ==
  ASSUME app \in Apps
  PROVE  ConsumerIds \subseteq Text
  BY ConsumersKnown

LEMMA WorkNode ==
  ASSUME IsWork(work), NEW id \in DOMAIN work
  PROVE  /\ id \in Ids /\ OkNode(work[id])
         /\ work[id].at \in Text /\ work[id].msg \in Messages /\ work[id].mode \in Modes
  BY NodeParts DEF IsWork

\* A node waiting for what it has just made.
LEMMA WaitingNode ==
  ASSUME NEW kind \in Kinds \ {"task"}, NEW at \in Text, NEW msg \in Messages, NEW mode \in Modes,
         NEW waits \in SUBSET Ids
  PROVE  /\ OkNode([Node(kind, at, msg, mode) EXCEPT !.waits = waits])
         /\ \A failed \in SUBSET Ids :
              OkNode([Node(kind, at, msg, mode) EXCEPT !.waits = waits, !.failed = failed])
<1>1. OkNode(Node(kind, at, msg, mode))
  BY NodesMade
<1> QED BY <1>1, NodesChange

\* The tasks of a broadcast.
LEMMA BroadcastMade ==
  ASSUME app \in Apps, NEW id \in Ids, NEW C \in SUBSET ConsumerIds, NEW m \in Messages
  PROVE  IsWork(Broadcast(id, C, m)) /\ DOMAIN Broadcast(id, C, m) \subseteq Ids
<1> DEFINE w == Broadcast(id, C, m)
<1>0. PICK n \in Int : n = 0
  OBVIOUS
<1>1. DOMAIN w = {Append(id, <<c, n>>) : c \in C}
  BY <1>0 DEF Broadcast
<1>2. C \in SUBSET Text
  BY ConsumersAreTexts
<1>3. ASSUME NEW c \in C
      PROVE  OkNode(w[Append(id, <<c, n>>)])
  <2>1. Append(id, <<c, n>>) \in DOMAIN w
    BY <1>1
  <2>2. Last(Append(id, <<c, n>>))[1] = c
    BY <1>2, ChildOf
  <2>3. w[Append(id, <<c, n>>)] = Node("task", c, m, "settle")
    BY <1>0, <2>1, <2>2 DEF Broadcast
  <2> QED BY <1>2, <2>3, NodesMade DEF Kinds, Modes
<1> HIDE DEF w
<1>4. IsWork(w) /\ DOMAIN w \subseteq Ids
  BY <1>1, <1>2, <1>3, ChildrenMade
<1> QED BY <1>4 DEF w

\* The copies that a fanout sends to its bindings.
LEMMA FanoutCopiesMade ==
  ASSUME NEW id \in Ids, NEW m \in Messages, NEW D \in SUBSET Text, \A d \in D : ~Cyclic(m, d),
         NEW n \in Int, NEW w,
         w = [child \in {Append(id, <<d, n>>) : d \in D} |->
                Node("send", Last(child)[1], Hop(m, Last(child)[1], TRUE), "all")]
  PROVE  IsWork(w) /\ DOMAIN w \subseteq Ids
<1>1. DOMAIN w = {Append(id, <<d, n>>) : d \in D}
  OBVIOUS
<1>2. ASSUME NEW d \in D
      PROVE  OkNode(w[Append(id, <<d, n>>)])
  <2>1. Append(id, <<d, n>>) \in DOMAIN w
    BY <1>1
  <2>2. Last(Append(id, <<d, n>>))[1] = d
    BY ChildOf
  <2>3. w[Append(id, <<d, n>>)] = Node("send", d, Hop(m, d, TRUE), "all")
    BY <2>1, <2>2
  <2>4. Hop(m, d, TRUE) \in Messages
    BY NotCyclic, HoppedOn
  <2> QED BY <2>3, <2>4, NodesMade DEF Kinds, Modes
<1> QED BY <1>1, <1>2, ChildrenMade

Branch(id, C) == {Append(id, <<"locals", 0>>) : c \in C}
Branching(nodes, waits, channel, m) ==
  [l \in nodes |-> [Node("broadcast", channel, m, "all") EXCEPT !.waits = waits]]
Told(nodes, m) == [t \in nodes |-> Node("task", Last(t)[1], m, "settle")]
Below(nodes, C) == {Append(l, <<c, 0>>) : l \in nodes, c \in C}

\* The branch of a fanout that tells its own subscribers, and their tasks.
LEMMA FanoutLocalsMade ==
  ASSUME app \in Apps, NEW id \in Ids, NEW m \in Messages, NEW channel \in Text,
         NEW C \in SUBSET ConsumerIds, NEW locals, NEW tasks,
         locals = Branch(id, C),
         tasks = Below(locals, C)
  PROVE  /\ locals \subseteq Ids
         /\ IsWork(Branching(locals, tasks, channel, m))
         /\ IsWork(Told(tasks, m))
<1>1. locals \subseteq Ids
  <2>1. "locals" \in Text
    BY DEF Text
  <2>2. Append(id, <<"locals", 0>>) \in Ids
    BY <2>1, ChildOf
  <2> QED BY <2>2 DEF Branch
<1>2. ASSUME NEW t \in tasks
      PROVE  t \in Ids /\ Last(t)[1] \in C
  <2>1. PICK l \in locals, c \in C : t = Append(l, <<c, 0>>)
    BY DEF Below
  <2>2. c \in Text /\ l \in Ids
    BY <1>1, ConsumersAreTexts
  <2> QED BY <2>1, <2>2, ChildOf
<1>3. OkNode([Node("broadcast", channel, m, "all") EXCEPT !.waits = tasks])
  <2>1. "broadcast" \in Kinds \ {"task"} /\ "all" \in Modes
    BY DEF Kinds, Modes
  <2>2. tasks \in SUBSET Ids
    BY <1>2
  <2> QED BY <2>1, <2>2, WaitingNode
<1>4. ASSUME NEW t \in tasks
      PROVE  OkNode(Node("task", Last(t)[1], m, "settle"))
  <2>1. Last(t)[1] \in ConsumerIds /\ Last(t)[1] \in Text
    BY <1>2, ConsumersAreTexts
  <2> QED BY <2>1, NodesMade DEF Kinds, Modes
<1>5. IsWork(Branching(locals, tasks, channel, m))
  BY <1>1, <1>3 DEF IsWork, Branching
<1>6. IsWork(Told(tasks, m))
  BY <1>2, <1>4 DEF IsWork, Told
<1> QED BY <1>1, <1>5, <1>6

LEMMA RefusedTypes ==
  ASSUME TypesInv, NEW id \in DOMAIN work, Refuse(id)
  PROVE  IsWork(work') /\ buffer' = buffer /\ cursor' = cursor
<1>1. Finish(id, FALSE) /\ FALSE \in BOOLEAN
  BY DEF Refuse
<1>2. IsWork(work')
  BY <1>1, FinishedWork DEF TypesInv
<1> QED BY <1>2 DEF Refuse

LEMMA HandOverTypes ==
  ASSUME TypesInv, NEW id \in DOMAIN work, work[id].at \in Names, HandOver(id)
  PROVE  IsWork(work') /\ buffer' = buffer /\ cursor' = cursor
<1>1. CASE subs[work[id].at] = <<>>
  BY <1>1, RefusedTypes DEF HandOver
<1>2. CASE subs[work[id].at] # <<>>
  <2>1. PICK on \in Seq(ConsumerIds) : on = subs[work[id].at]
    BY DEF TypesInv, ChannelTypes
  <2>2. Last(on) \in ConsumerIds
    <3>1. 0 \in Nat
      OBVIOUS
    <3> QED BY <1>2, <2>1, <3>1, Picked
  <2>3. Last(on) \in Text
    BY <2>2, ConsumersAreTexts DEF TypesInv
  <2>4. work[id].msg \in Messages /\ work[id].mode \in Modes /\ IsWork(work)
    BY WorkNode DEF TypesInv
  <2>5. OkNode(Node("task", Last(on), work[id].msg, work[id].mode))
    BY <2>2, <2>3, <2>4, NodesMade DEF Kinds
  <2>6. work' = [work EXCEPT ![id] = Node("task", Last(on), work[id].msg, work[id].mode)]
        /\ UNCHANGED <<cursor, buffer, reports>>
    BY <1>2, <2>1 DEF HandOver
  <2> QED BY <2>4, <2>5, <2>6, Replaced
<1> QED BY <1>1, <1>2

LEMMA EnqueueTypes ==
  ASSUME TypesInv, NEW id \in DOMAIN work, work[id].at \in Names, Enqueue(id)
  PROVE  /\ IsWork(work') /\ buffer' \in [Names -> Seq(Messages)] /\ cursor' = cursor
         /\ \/ buffer' = buffer
            \/ /\ work[id].at \notin closed
               /\ buffer' = [buffer EXCEPT ![work[id].at] = Append(@, work[id].msg)]
<1> DEFINE q == work[id].at
<1>1. buffer \in [Names -> Seq(Messages)]
  BY DEF TypesInv, ChannelTypes
<1>2. CASE Refuse(id)
  BY <1>1, <1>2, RefusedTypes
<1>3. CASE ~Refuse(id)
  <2>1. /\ q \notin closed
        /\ buffer' = [buffer EXCEPT ![q] = Append(@, work[id].msg)]
        /\ Finish(id, TRUE) /\ cursor' = cursor
    BY <1>3 DEF Enqueue
  <2>2. IsWork(work')
    BY <2>1, FinishedWork DEF TypesInv
  <2>3. PICK b \in Seq(Messages), m \in Messages : b = buffer[q] /\ m = work[id].msg
    BY <1>1, WorkNode DEF TypesInv
  <2>4. Append(b, m) \in Seq(Messages)
    OBVIOUS
  <2>5. buffer' \in [Names -> Seq(Messages)]
    BY <1>1, <2>1, <2>3, <2>4
  <2> QED BY <2>1, <2>2, <2>5
<1> QED BY <1>2, <1>3

LEMMA PublishTypes ==
  ASSUME TypesInv, NEW id \in DOMAIN work, work[id].at \in Names, Publish(id)
  PROVE  /\ IsWork(work') /\ buffer' = buffer
         /\ cursor' \in [Names -> [GroupNames -> Nat]]
<1>1. PICK node, channel, tasks :
        /\ node = work[id] /\ channel = node.at
        /\ tasks = Broadcast(id, Targets(channel, node.msg), node.msg)
  OBVIOUS
<1>2. /\ work' = tasks ++ [work EXCEPT ![id] =
                   [Node("broadcast", channel, node.msg, node.mode) EXCEPT !.waits = DOMAIN tasks]]
      /\ \E f \in [GroupNames -> {0, 1}] :
           cursor' = [cursor EXCEPT ![channel] = [g \in DOMAIN @ |-> @[g] + f[g]]]
      /\ buffer' = buffer
  <2>1. PICK f : f = [g \in GroupNames |-> IF g \in Groups(channel) THEN Turn(channel, node.msg, g) ELSE 0]
    OBVIOUS
  <2>2. f \in [GroupNames -> {0, 1}]
    BY <2>1 DEF Turn
  <2>3. cursor[channel] \in [GroupNames -> Nat]
    BY <1>1 DEF TypesInv, ChannelTypes
  <2>4. [cursor EXCEPT ![channel] = [g \in DOMAIN @ |-> @[g] +
              (IF g \in Groups(channel) THEN Turn(channel, node.msg, g) ELSE 0)]]
          = [cursor EXCEPT ![channel] = [g \in DOMAIN @ |-> @[g] + f[g]]]
    BY <2>1, <2>3
  <2>5. cursor' = [cursor EXCEPT ![channel] = [g \in DOMAIN @ |-> @[g] +
                      (IF g \in Groups(channel) THEN Turn(channel, node.msg, g) ELSE 0)]]
    BY <1>1 DEF Publish
  <2>6. /\ work' = tasks ++ [work EXCEPT ![id] =
                    [Node("broadcast", channel, node.msg, node.mode) EXCEPT !.waits = DOMAIN tasks]]
        /\ buffer' = buffer
    BY <1>1 DEF Publish
  <2>7. cursor' = [cursor EXCEPT ![channel] = [g \in DOMAIN @ |-> @[g] + f[g]]]
    BY <2>4, <2>5
  <2> QED BY <2>2, <2>6, <2>7
<1>3. /\ id \in Ids /\ channel \in Text /\ node.msg \in Messages /\ node.mode \in Modes
      /\ IsWork(work) /\ app \in Apps /\ ChannelTypes
  BY <1>1, WorkNode DEF TypesInv
<1>4. Targets(channel, node.msg) \in SUBSET ConsumerIds
  BY <1>1, <1>3, TargetsKnown
<1>5. IsWork(tasks) /\ DOMAIN tasks \subseteq Ids
  BY <1>1, <1>3, <1>4, BroadcastMade
<1>6. OkNode([Node("broadcast", channel, node.msg, node.mode) EXCEPT !.waits = DOMAIN tasks])
  <2>1. "broadcast" \in Kinds \ {"task"}
    BY DEF Kinds
  <2> QED BY <1>3, <1>5, <2>1, WaitingNode
<1>7. IsWork(work')
  BY <1>2, <1>3, <1>5, <1>6, Replaced, Merged
<1>8. cursor' \in [Names -> [GroupNames -> Nat]]
  <2>1. PICK f \in [GroupNames -> {0, 1}] :
           cursor' = [cursor EXCEPT ![channel] = [g \in DOMAIN @ |-> @[g] + f[g]]]
    BY <1>2
  <2>2. cursor \in [Names -> [GroupNames -> Nat]]
    BY <1>3 DEF ChannelTypes
  <2>3. [g \in DOMAIN cursor[channel] |-> cursor[channel][g] + f[g]] \in [GroupNames -> Nat]
    BY <1>1, <2>2
  <2> QED BY <2>1, <2>2, <2>3
<1> QED BY <1>2, <1>7, <1>8

LEMMA FanOutTypes ==
  ASSUME TypesInv, NEW id \in DOMAIN work, work[id].at \in Names, FanOut(id)
  PROVE  IsWork(work') /\ buffer' = buffer /\ cursor' = cursor
<1>1. PICK node, msg, channel, bindings, here :
        /\ node = work[id] /\ msg = node.msg /\ channel = node.at
        /\ bindings = Declared(channel).bindings /\ here = Range(subs[channel])
  OBVIOUS
<1>2. /\ id \in Ids /\ channel \in Text /\ msg \in Messages /\ node.mode \in Modes
      /\ IsWork(work) /\ app \in Apps
  BY <1>1, WorkNode DEF TypesInv
<1>3. bindings \subseteq Text
  BY <1>1, ChannelsKnown DEF TypesInv, ChannelTypes
<1>4. here \in SUBSET ConsumerIds
  <2>1. PICK s \in Seq(ConsumerIds) : s = subs[channel]
    BY <1>1 DEF TypesInv, ChannelTypes
  <2>2. \A i \in DOMAIN s : s[i] \in ConsumerIds
    BY Elements
  <2> QED BY <1>1, <2>1, <2>2 DEF Range
<1>5. PICK zero \in Int : zero = 0
  OBVIOUS
<1>6. PICK open : open = {b \in bindings : b \in Names /\ ~Cyclic(msg, b)}
  OBVIOUS
<1>7. PICK copies : copies = [child \in {Append(id, <<b, zero>>) : b \in open} |->
                                Node("send", Last(child)[1], Hop(msg, Last(child)[1], TRUE), "all")]
  OBVIOUS
<1>17. PICK locals : locals = Branch(id, here)
  OBVIOUS
<1>18. PICK tasks : tasks = Below(locals, here)
  OBVIOUS
<1>19. PICK lost : lost = {Append(id, <<b, zero>>) : b \in bindings \ open}
  OBVIOUS
<1>20. PICK branch : branch = Branching(locals, tasks, channel, msg)
  OBVIOUS
<1>21. PICK told : told = Told(tasks, msg)
  OBVIOUS
<1>22. PICK waiting : waiting = [Node("fanout", channel, msg, node.mode) EXCEPT
                                   !.waits = DOMAIN copies \cup locals, !.failed = lost]
  OBVIOUS
<1>8. work' = copies ++ branch ++ told ++ [work EXCEPT ![id] = waiting]
      /\ buffer' = buffer /\ cursor' = cursor
  BY <1>1, <1>5, <1>6, <1>7, <1>17, <1>18, <1>19, <1>20, <1>21, <1>22 DEF FanOut, Below, Branch, Branching, Told
<1>9. IsWork(copies) /\ DOMAIN copies \subseteq Ids
  <2>1. open \in SUBSET Text /\ \A b \in open : ~Cyclic(msg, b)
    BY <1>3, <1>6
  <2> QED BY <1>2, <1>7, <2>1, FanoutCopiesMade
<1>10. locals \subseteq Ids /\ IsWork(branch) /\ IsWork(told)
  BY <1>2, <1>4, <1>17, <1>18, <1>20, <1>21, FanoutLocalsMade
<1>11. lost \subseteq Ids
  <2>1. \A b \in bindings : Append(id, <<b, zero>>) \in Ids
    BY <1>2, <1>3, ChildOf
  <2> QED BY <1>19, <2>1
<1>12. OkNode(waiting)
  <2>1. "fanout" \in Kinds \ {"task"}
    BY DEF Kinds
  <2>2. DOMAIN copies \cup locals \in SUBSET Ids /\ lost \in SUBSET Ids
    BY <1>9, <1>10, <1>11
  <2> QED BY <1>2, <1>22, <2>1, <2>2, WaitingNode
<1>13. IsWork([work EXCEPT ![id] = waiting])
  BY <1>2, <1>12, Replaced
<1>14. IsWork(copies ++ branch)
  BY <1>9, <1>10, Merged
<1>15. IsWork(copies ++ branch ++ told)
  BY <1>10, <1>14, Merged
<1>16. IsWork(work')
  BY <1>8, <1>13, <1>15, Merged
<1> QED BY <1>8, <1>16

LEMMA DispatchTypes ==
  ASSUME TypesInv, NEW id \in DOMAIN work, Dispatch(id)
  PROVE  /\ IsWork(work')
         /\ buffer' \in [Names -> Seq(Messages)]
         /\ cursor' \in [Names -> [GroupNames -> Nat]]
         /\ \/ buffer' = buffer
            \/ /\ work[id].at \in Names \ closed /\ Declared(work[id].at).kind = "queue"
               /\ buffer' = [buffer EXCEPT ![work[id].at] = Append(@, work[id].msg)]
<1>1. buffer \in [Names -> Seq(Messages)] /\ cursor \in [Names -> [GroupNames -> Nat]]
  BY DEF TypesInv, ChannelTypes
<1>2. CASE Refuse(id)
  BY <1>1, <1>2, RefusedTypes
<1>3. CASE work[id].at \in Names /\ HandOver(id)
  BY <1>1, <1>3, HandOverTypes
<1>4. CASE work[id].at \in Names /\ Declared(work[id].at).kind = "queue" /\ Enqueue(id)
  BY <1>1, <1>4, EnqueueTypes
<1>5. CASE work[id].at \in Names /\ Publish(id)
  BY <1>1, <1>5, PublishTypes
<1>6. CASE work[id].at \in Names /\ FanOut(id)
  BY <1>1, <1>6, FanOutTypes
<1> QED BY <1>2, <1>3, <1>4, <1>5, <1>6 DEF Dispatch

-----------------------------------------------------------------------------
(* A step of a task. *)

LEMMA FailTypes ==
  ASSUME TypesInv, NEW id \in DOMAIN work, Fail(id)
  PROVE  IsWork(work') /\ answers' = answers
<1>1. answers' = answers
  BY DEF Fail
<1>2. CASE Finish(id, FALSE)
  BY <1>1, <1>2, FinishedWork DEF TypesInv
<1>3. CASE ~Finish(id, FALSE)
  <2>1. PICK zero \in Int : zero = 0
    OBVIOUS
  <2>2. PICK report : report = Append(id, <<ErrorChannel, zero>>)
    OBVIOUS
  <2>3. ErrorChannel \in Text /\ "" \in Replies
    BY DEF ErrorChannel, Text, Replies
  <2>4. id \in Ids /\ OkNode(work[id]) /\ IsWork(work)
    BY WorkNode DEF TypesInv
  <2>5. report \in Ids
    BY <2>2, <2>3, <2>4, ChildOf
  <2>6. PICK node : node = Report
    OBVIOUS
  <2>7. OkNode(node)
    BY <2>6, ReportMade
  <2>8. work' = Only(report, node)
                ++ [work EXCEPT ![id].kind = "failing", ![id].waits = {report}]
    BY <1>3, <2>1, <2>2, <2>6 DEF Fail
  <2>9. OkNode([work[id] EXCEPT !.kind = "failing", !.waits = {report}])
    <3>1. {report} \in SUBSET Ids
      BY <2>5
    <3> QED BY <2>4, <3>1, NodesChange
  <2>10. [work EXCEPT ![id].kind = "failing", ![id].waits = {report}]
           = [work EXCEPT ![id] = [work[id] EXCEPT !.kind = "failing", !.waits = {report}]]
    OBVIOUS
  <2>11. IsWork([work EXCEPT ![id].kind = "failing", ![id].waits = {report}])
    BY <2>4, <2>9, <2>10, Replaced
  <2>12. IsWork(Only(report, node))
    BY <2>5, <2>7, Single
  <2> QED BY <1>1, <2>8, <2>11, <2>12, Merged
<1> QED BY <1>2, <1>3

LEMMA GoOnTypes ==
  ASSUME TypesInv, NEW id \in DOMAIN work, NEW step \in Nat \ {0}, NEW added, IsWork(added),
         NEW waits \in SUBSET Ids, GoOn(id, step, added, waits)
  PROVE  IsWork(work') /\ answers' = answers
<1>1. OkNode(work[id]) /\ IsWork(work)
  BY WorkNode DEF TypesInv
<1>2. OkNode([work[id] EXCEPT !.step = step, !.waits = waits])
  BY <1>1, NodesChange
<1>3. [work EXCEPT ![id].step = step, ![id].waits = waits]
        = [work EXCEPT ![id] = [work[id] EXCEPT !.step = step, !.waits = waits]]
  OBVIOUS
<1>4. IsWork([work EXCEPT ![id].step = step, ![id].waits = waits])
  BY <1>1, <1>2, <1>3, Replaced
<1>5. work' = added ++ [work EXCEPT ![id].step = step, ![id].waits = waits] /\ answers' = answers
  BY DEF GoOn
<1> QED BY <1>4, <1>5, Merged

\* The step that a task has reached.
LEMMA StepReached ==
  ASSUME TypesInv, NEW id \in DOMAIN work, Ready(id)
  PROVE  /\ work[id].step \in Nat \ {0} /\ work[id].step + 1 \in Nat \ {0}
         /\ Beyond(id) \in Nat \ {0}
         /\ HasStep(id) => /\ At(id) \in FlowStep
                           /\ At(id).to \subseteq Text \ Fanned /\ At(id).forget \subseteq Text \ Fanned
<1>1. work[id].at \in ConsumerIds /\ work[id].step \in Nat \ {0} /\ app \in Apps
  BY WorkNode, NodeParts DEF TypesInv, OkNode, Ready
<1>2. PICK c \in ConsumerIds, n \in Nat \ {0} : c = work[id].at /\ n = work[id].step
  BY <1>1
<1>3. PICK steps \in Seq(FlowStep) : steps = ConsumerOf(c).steps
  BY <1>1, ConsumersKnown
<1>4. Len(steps) \in Nat
  OBVIOUS
<1>5. n + 1 \in Nat \ {0} /\ Len(steps) + 1 \in Nat \ {0}
  BY <1>4
<1>6. n <= Len(steps) => LET step == ConsumerOf(c).steps[n] IN
          step \in FlowStep /\ step.to \subseteq Text \ Fanned /\ step.forget \subseteq Text \ Fanned
  BY <1>1, <1>3, StepsKnown
<1> QED BY <1>2, <1>3, <1>5, <1>6 DEF Beyond, HasStep, At

LEMMA HandleTypes ==
  ASSUME TypesInv, NEW id \in DOMAIN work, Ready(id), Handle(id), HasStep(id)
  PROVE  IsWork(work') /\ answers' = answers
<1>1. {} \in SUBSET Ids /\ IsWork(<<>>)
  BY NothingAdded
<1>2. /\ work[id].step + 1 \in Nat \ {0} /\ Beyond(id) \in Nat \ {0}
      /\ At(id).can \subseteq {"ok", "filtered", "throws"}
  BY StepReached DEF FlowStep
<1>3. \/ GoOn(id, work[id].step + 1, <<>>, {})
      \/ GoOn(id, Beyond(id), <<>>, {})
      \/ Fail(id)
  BY <1>2 DEF Handle
<1> QED BY <1>1, <1>2, <1>3, GoOnTypes, FailTypes

LEMMA SendOnTypes ==
  ASSUME TypesInv, NEW id \in DOMAIN work, Ready(id), SendOn(id), HasStep(id)
  PROVE  IsWork(work') /\ answers' = answers
<1>1. PICK step, n : step = At(id) /\ n = work[id].step
  OBVIOUS
<1>2. /\ n \in Nat \ {0} /\ n + 1 \in Nat \ {0} /\ Beyond(id) \in Nat \ {0}
      /\ step \in FlowStep /\ step.to \in SUBSET (Text \ Fanned) /\ step.forget \in SUBSET (Text \ Fanned)
  BY <1>1, StepReached
<1>3. PICK copy \in BOOLEAN : copy = IsCopy(step.kind)
  <2>1. IsCopy(step.kind) \in BOOLEAN
    BY DEF IsCopy
  <2> QED BY <2>1
<1>4. PICK msg : msg = [work[id].msg EXCEPT !.routing = IF step.kind = "publish" THEN step.routing ELSE @]
  OBVIOUS
<1>5. msg \in Messages
  <2>1. work[id].msg \in Messages
    BY WorkNode DEF TypesInv
  <2>2. PICK m \in Messages : m = work[id].msg
    BY <2>1
  <2>3. m.routing \in Seq(STRING) /\ step.routing \in Seq(STRING)
    BY <1>2 DEF Messages, Message, FlowStep
  <2>4. PICK r \in Seq(STRING) : r = IF step.kind = "publish" THEN step.routing ELSE m.routing
    BY <2>3
  <2>5. msg = [m EXCEPT !.routing = r]
    BY <1>4, <2>2, <2>4
  <2> QED BY <2>5, CopiesMade
<1>6. PICK awaited, forgotten : /\ awaited = SendsTo(id, n, step.to, msg, copy, "all")
                                /\ forgotten = SendsTo(id, n, step.forget, msg, copy, "forget")
  OBVIOUS
<1>7. /\ IsWork(awaited) /\ DOMAIN awaited \subseteq Ids
      /\ IsWork(forgotten)
  <2>1. "all" \in Modes /\ "forget" \in Modes
    BY DEF Modes
  <2>2. id \in Ids /\ n \in Int
    BY <1>2, WorkNode DEF TypesInv
  <2> QED BY <1>2, <1>3, <1>5, <1>6, <2>1, <2>2, SendsMade
<1>8. IsWork(forgotten ++ awaited)
  BY <1>7, Merged
<1>9. PICK next \in Nat \ {0} : GoOn(id, next, forgotten ++ awaited, DOMAIN awaited)
  BY <1>1, <1>2, <1>3, <1>4, <1>6 DEF SendOn
<1> QED BY <1>7, <1>8, <1>9, GoOnTypes

LEMMA WireTapTypes ==
  ASSUME TypesInv, NEW id \in DOMAIN work, Ready(id), WireTap(id), HasStep(id)
  PROVE  IsWork(work') /\ answers' = answers
<1>1. PICK n, D, tap : n = work[id].step /\ D = At(id).to /\ tap = Tapped(work[id].msg)
  OBVIOUS
<1>2. n \in Int /\ n + 1 \in Nat \ {0} /\ D \in SUBSET Text /\ D \in SUBSET (Text \ Fanned)
  BY <1>1, StepReached
<1>3. id \in Ids /\ tap \in Messages
  BY <1>1, WorkNode, CopiesMade DEF TypesInv
<1>4. PICK w : w = [child \in {Append(id, <<d, n>>) : d \in D} |->
                      Node("send", Last(child)[1], Recorded(tap, Last(child)[1]), "quiet")]
  OBVIOUS
<1>5. ASSUME NEW d \in D
      PROVE  OkNode(w[Append(id, <<d, n>>)])
  <2>1. Last(Append(id, <<d, n>>))[1] = d
    BY <1>2, <1>3, ChildOf
  <2>2. w[Append(id, <<d, n>>)] = Node("send", d, Recorded(tap, d), "quiet")
    BY <1>4, <2>1
  <2>3. Recorded(tap, d) \in Messages
    BY <1>2, <1>3, RecordedHop
  <2> QED BY <1>2, <2>2, <2>3, NodesMade DEF Kinds, Modes
<1>6. IsWork(w)
  <2>1. DOMAIN w = {Append(id, <<d, n>>) : d \in D}
    BY <1>4
  <2> QED BY <1>2, <1>3, <1>5, <2>1, ChildrenMade
<1>7. GoOn(id, n + 1, w, {})
  BY <1>1, <1>4 DEF WireTap
<1>8. {} \in SUBSET Ids
  OBVIOUS
<1> QED BY <1>2, <1>6, <1>7, <1>8, GoOnTypes

LEMMA ReplyTypes ==
  ASSUME TypesInv, NEW id \in DOMAIN work, Ready(id), Reply(id), HasStep(id)
  PROVE  IsWork(work') /\ \A a \in answers' : "copy" \notin a[2]
<1>1. {} \in SUBSET Ids /\ IsWork(<<>>) /\ work[id].step + 1 \in Nat \ {0}
  BY NothingAdded, StepReached
<1>2. \A a \in answers : "copy" \notin a[2]
  BY DEF TypesInv
<1>3. CASE GoOn(id, work[id].step + 1, <<>>, {}) \/ Fail(id)
  <2>1. IsWork(work') /\ answers' = answers
    BY <1>1, <1>3, GoOnTypes, FailTypes
  <2> QED BY <1>2, <2>1
<1>4. CASE /\ work[id].msg.reply # ""
           /\ answers' = answers \cup {<<Head(id), work[id].msg.copied>>}
           /\ work' = [work EXCEPT ![id].step = @ + 1]
  <2>1. OkNode(work[id]) /\ work[id].msg \in Messages /\ IsWork(work)
    BY WorkNode DEF TypesInv
  <2>2. "copy" \notin work[id].msg.copied
    BY <1>4, <2>1 DEF Messages, Tame, Quiet
  <2>3. OkNode([work[id] EXCEPT !.step = work[id].step + 1])
    <3>1. PICK s \in Nat \ {0} : s = work[id].step + 1
      BY <1>1
    <3>2. OkNode([work[id] EXCEPT !.step = s])
      BY <1>1, <2>1, NodesChange
    <3> QED BY <3>1, <3>2
  <2>4. work' = [work EXCEPT ![id] = [work[id] EXCEPT !.step = work[id].step + 1]]
    BY <1>4, <2>1 DEF OkNode, Nodes
  <2>5. IsWork(work')
    BY <2>1, <2>3, <2>4, Replaced
  <2>6. \A a \in answers' : "copy" \notin a[2]
    <3>1. PICK top, copied : top = Head(id) /\ copied = work[id].msg.copied
      OBVIOUS
    <3>2. answers' = answers \cup {<<top, copied>>} /\ "copy" \notin copied
      BY <1>4, <2>2, <3>1
    <3>3. <<top, copied>>[2] = copied
      OBVIOUS
    <3> QED BY <1>2, <3>2, <3>3
  <2> QED BY <2>5, <2>6
<1> QED BY <1>3, <1>4 DEF Reply

LEMMA TaskTypes ==
  ASSUME TypesInv, NEW id \in DOMAIN work, Task(id)
  PROVE  IsWork(work') /\ \A a \in answers' : "copy" \notin a[2]
<1>1. \A a \in answers : "copy" \notin a[2]
  BY DEF TypesInv
<1>2. CASE Fail(id)
  BY <1>1, <1>2, FailTypes
<1>3. CASE Ready(id) /\ HasStep(id) /\ (Handle(id) \/ SendOn(id) \/ WireTap(id))
  <2>1. IsWork(work') /\ answers' = answers
    BY <1>3, HandleTypes, SendOnTypes, WireTapTypes
  <2> QED BY <1>1, <2>1
<1>4. CASE Ready(id) /\ HasStep(id) /\ Reply(id)
  BY <1>4, ReplyTypes
<1>5. CASE Finish(id, TRUE) /\ UNCHANGED answers
  BY <1>1, <1>5, FinishedWork DEF TypesInv
<1> QED BY <1>2, <1>3, <1>4, <1>5 DEF Task

-----------------------------------------------------------------------------
(* The types are kept. *)

Phases == {"starting", "binding", "up", "stopping", "down", "refused"}

LEMMA Framed ==
  ASSUME app' = app, channels' = channels
  PROVE  /\ Names' = Names /\ Consumers' = Consumers
         /\ ConsumerIds' = ConsumerIds /\ GroupNames' = GroupNames
         /\ Messages' = Messages /\ (IsWork(work') => IsWork(work)')
<1>1. Consumers' = Consumers /\ Names' = Names /\ Bound' = Bound
  BY DEF Consumers, Names, Bound
<1>2. ConsumerIds' = ConsumerIds /\ GroupNames' = GroupNames /\ StepsDeclared' = StepsDeclared
  BY <1>1 DEF ConsumerIds, GroupNames, StepsDeclared
<1>3. Fanned' = Fanned
  BY <1>1, <1>2 DEF Fanned, Others
<1>4. \A m : Tame(m)' <=> Tame(m)
  BY <1>3 DEF Tame
<1>5. Messages' = Messages
  BY <1>4 DEF Messages
<1>6. Nodes' = Nodes
  BY <1>5 DEF Nodes
<1>7. IsWork(work') => IsWork(work)'
  BY <1>2, <1>6 DEF IsWork, OkNode
<1> QED BY <1>1, <1>2, <1>5, <1>7

LEMMA TypesKept ==
  ASSUME TypesInv, app' = app, channels' = channels, phase' \in Phases,
         subs' \in [Names -> Seq(ConsumerIds)], cursor' \in [Names -> [GroupNames -> Nat]],
         buffer' \in [Names -> Seq(Messages)], taken' \in [Names -> Nat],
         closing' \in Nat \ {0}, requests' \in Nat, bound' \in Nat, bound' <= Len(app.brokers),
         IsWork(work'), \A a \in answers' : "copy" \notin a[2]
  PROVE  TypesInv'
<1>1. ChannelTypes'
  BY Framed DEF TypesInv, ChannelTypes
<1>2. IsWork(work)'
  BY Framed
<1>3. app' \in Apps /\ Len(app'.brokers) = Len(app.brokers)
  BY DEF TypesInv
<1> QED BY <1>1, <1>2, <1>3 DEF TypesInv, Phases

LEMMA TypesNow ==
  ASSUME TypesInv
  PROVE  /\ phase \in Phases
         /\ subs \in [Names -> Seq(ConsumerIds)] /\ cursor \in [Names -> [GroupNames -> Nat]]
         /\ buffer \in [Names -> Seq(Messages)] /\ taken \in [Names -> Nat]
         /\ closing \in Nat \ {0} /\ requests \in Nat /\ bound \in Nat /\ bound <= Len(app.brokers)
         /\ IsWork(work) /\ \A a \in answers : "copy" \notin a[2]
  BY DEF TypesInv, ChannelTypes, Phases

LEMMA InitTypes == Init => TypesInv
<1> SUFFICES ASSUME Init PROVE TypesInv
  OBVIOUS
<1>1. channels = <<>> /\ DOMAIN channels = {} /\ Names = {}
  BY DEF Init, Names
<1>2. channels \in Seq(Declarations)
  BY <1>1, EmptyTyped
<1>3. /\ DOMAIN subs = {} /\ DOMAIN cursor = {} /\ DOMAIN buffer = {} /\ DOMAIN taken = {}
      /\ subs = <<>> /\ cursor = <<>> /\ buffer = <<>> /\ taken = <<>>
  BY DEF Init
<1>4. ASSUME NEW T
      PROVE  <<>> \in [{} -> T]
  OBVIOUS
<1>5. ChannelTypes
  BY <1>1, <1>2, <1>3, <1>4 DEF ChannelTypes
<1>6. IsWork(work) /\ answers = {}
  BY NothingAdded DEF Init
<1>7. Len(app.brokers) \in Nat
  BY AppsTyped DEF Init
<1> QED BY <1>5, <1>6, <1>7 DEF Init, TypesInv

\* The module's start gives every channel its consumers.
LEMMA RegisteredChannels ==
  ASSUME app \in Apps
  PROVE  Registered(app.channels) \in Seq(Declarations)
<1>1. PICK declared \in Seq(Declaration) : declared = app.channels
  BY AppsTyped
<1>2. declared \in Seq(Declarations)
  BY SeqGrows DEF Declarations
<1>3. ErrorDeclaration \in Declarations
  BY DEF Declarations
<1>4. <<ErrorDeclaration>> \o declared \in Seq(Declarations)
  <2>1. <<ErrorDeclaration>> \in Seq(Declarations)
    BY <1>3
  <2> QED BY <1>2, <2>1
<1>5. PICK all \in Seq(Declarations) : all = <<ErrorDeclaration>> \o declared
  BY <1>4
<1>6. Registered(declared) = Chosen(all, {i \in DOMAIN all : \A j \in 1 .. i - 1 : all[j].name # all[i].name})
  BY <1>5 DEF Registered, ErrorDeclaration
<1>7. \A P \in SUBSET DOMAIN all : Chosen(all, P) \in Seq(Declarations)
  BY ChosenElements
<1> QED BY <1>1, <1>6, <1>7

LEMMA IdsOnChannel ==
  ASSUME app \in Apps, NEW channel
  PROVE  /\ IdsOn(channel) \in Seq(ConsumerIds)
         /\ \A i \in DOMAIN Consumers :
              Consumers[i].on = channel.name /\ ~Displaced(i, channel) =>
                \E k \in DOMAIN IdsOn(channel) : IdsOn(channel)[k] = Consumers[i].id
<1>1. PICK n \in Nat : DOMAIN Consumers = 1 .. n
  BY ConsumersTyped
<1>2. PICK ids : ids = [i \in DOMAIN Consumers |-> Consumers[i].id]
  OBVIOUS
<1>3. ids \in Seq(ConsumerIds) /\ DOMAIN ids = DOMAIN Consumers
  BY <1>1, <1>2 DEF ConsumerIds
<1>4. PICK P : P = {i \in DOMAIN Consumers : Consumers[i].on = channel.name /\ ~Displaced(i, channel)}
  OBVIOUS
<1>5. P \in SUBSET DOMAIN ids
  BY <1>3, <1>4
<1>6. /\ Chosen(ids, P) \in Seq(ConsumerIds)
      /\ \A i \in P : \E k \in DOMAIN Chosen(ids, P) : Chosen(ids, P)[k] = ids[i]
  BY <1>3, <1>5, ChosenElements
<1>7. IdsOn(channel) = Chosen(ids, P)
  BY <1>2, <1>4 DEF IdsOn
<1>8. ASSUME NEW i \in DOMAIN Consumers, Consumers[i].on = channel.name, ~Displaced(i, channel)
      PROVE  \E k \in DOMAIN Chosen(ids, P) : Chosen(ids, P)[k] = Consumers[i].id
  <2>1. i \in P
    BY <1>4, <1>8
  <2>2. ids[i] = Consumers[i].id
    BY <1>2
  <2> QED BY <1>6, <2>1, <2>2
<1> QED BY <1>6, <1>7, <1>8

LEMMA StartTypes ==
  ASSUME TypesInv, DOMAIN work = {}, Start
  PROVE  TypesInv'
<1>1. app \in Apps /\ app' = app
  BY DEF TypesInv, Start
<1>2. ConsumerIds' = ConsumerIds /\ GroupNames' = GroupNames /\ Consumers' = Consumers
  BY <1>1 DEF ConsumerIds, GroupNames, Consumers
<1>3. channels' \in Seq(Declarations)
  BY <1>1, RegisteredChannels DEF Start
<1>4. subs' = [c \in Names' |-> IdsOn(Declared(c)')]
  BY DEF Start, Names
<1>5. subs' \in [Names' -> Seq(ConsumerIds)]
  <2>1. \A d : IdsOn(d) \in Seq(ConsumerIds)
    BY <1>1, IdsOnChannel
  <2> QED BY <1>4, <2>1
<1>6. cursor' = [c \in Names' |-> [g \in GroupNames |-> 0]]
  BY DEF Start, Names, GroupNames
<1>7. cursor' \in [Names' -> [GroupNames -> Nat]]
  BY <1>6
<1>8. buffer' = [c \in Names' |-> <<>>] /\ taken' = [c \in Names' |-> 0]
  BY DEF Start, Names
<1>9. buffer' \in [Names' -> Seq(Messages')] /\ taken' \in [Names' -> Nat]
  <2>1. <<>> \in Seq(Messages')
    BY EmptyTyped
  <2> QED BY <1>8, <2>1
<1>10. ChannelTypes'
  BY <1>2, <1>3, <1>5, <1>7, <1>9 DEF ChannelTypes
<1>11. IsWork(work)'
  <2>1. work' = work /\ DOMAIN work = {}
    BY DEF Start
  <2> QED BY <2>1 DEF IsWork
<1>12. /\ phase' \in {"binding", "refused"} /\ closing' = closing /\ bound' = bound
       /\ requests' = requests /\ answers' = answers
  BY DEF Start
<1> QED BY <1>1, <1>10, <1>11, <1>12 DEF TypesInv


LEMMA ChannelsStay ==
  ASSUME TypesInv, app' = app, channels' = channels, subs' = subs, cursor' = cursor,
         phase' \in Phases, closing' \in Nat \ {0}, bound' = bound, requests' \in Nat,
         buffer' \in [Names -> Seq(Messages)], taken' \in [Names -> Nat], IsWork(work'),
         \A a \in answers' : "copy" \notin a[2]
  PROVE  TypesInv'
<1>1. /\ subs' \in [Names -> Seq(ConsumerIds)] /\ cursor' \in [Names -> [GroupNames -> Nat]]
      /\ bound' \in Nat /\ bound' <= Len(app.brokers)
  BY TypesNow
<1> QED BY <1>1, TypesKept

LEMMA BindTypes ==
  ASSUME TypesInv, Bind
  PROVE  TypesInv'
<1>1. /\ app' = app /\ channels' = channels /\ subs' = subs /\ cursor' = cursor /\ buffer' = buffer
      /\ taken' = taken /\ closing' = closing /\ requests' = requests /\ work' = work
      /\ answers' = answers
  BY DEF Bind
<1>2. phase' \in Phases
  BY DEF Bind, Phases
<1>3. Len(app.brokers) \in Nat
  BY AppsTyped DEF TypesInv
<1>4. bound' \in Nat /\ bound' <= Len(app.brokers)
  BY <1>3, TypesNow DEF Bind
<1> QED BY <1>1, <1>2, <1>4, TypesNow, TypesKept

LEMMA RootWork ==
  ASSUME TypesInv, NEW name \in Text, NEW node, OkNode(node), Root(name, node)
  PROVE  IsWork(work') /\ requests' \in Nat
<1>1. requests \in Nat /\ IsWork(work)
  BY TypesNow
<1>2. PICK id : id = <<<<name, requests + 1>>>>
  OBVIOUS
<1>3. id \in Ids
  BY <1>1, <1>2, RootOf
<1>4. IsWork(Only(id, node))
  BY <1>3, Single
<1>5. IsWork(Only(id, node) ++ work)
  BY <1>1, <1>4, Merged
<1> QED BY <1>1, <1>2, <1>5 DEF Root

LEMMA RequestTypes ==
  ASSUME TypesInv, Request
  PROVE  TypesInv'
<1>1. /\ app' = app /\ channels' = channels /\ subs' = subs /\ cursor' = cursor /\ buffer' = buffer
      /\ taken' = taken /\ closing' = closing /\ bound' = bound /\ phase' = phase
      /\ answers' = answers
  BY DEF Request
<1>2. PICK entry \in app.entries :
        Root("client", Node("send", entry, Recorded(Created(ReplyChannel), entry), "client"))
  BY DEF Request
<1>3. entry \in Text
  BY AppsTyped DEF TypesInv, Text
<1>4. Recorded(Created(ReplyChannel), entry) \in Messages
  <2>1. ReplyChannel \in Replies
    BY DEF Replies, ReplyChannel
  <2> QED BY <1>3, <2>1, MessagesMade
<1>5. OkNode(Node("send", entry, Recorded(Created(ReplyChannel), entry), "client"))
  <2>1. "send" \in Kinds /\ "client" \in Modes /\ ~("send" = "task")
    BY DEF Kinds, Modes
  <2> QED BY <1>3, <1>4, <2>1, NodesMade
<1>6. "client" \in Text
  BY DEF Text
<1>7. IsWork(work') /\ requests' \in Nat
  BY <1>2, <1>5, <1>6, RootWork
<1> QED BY <1>1, <1>7, TypesNow, ChannelsStay

LEMMA DeliveryTypes ==
  ASSUME TypesInv, Delivery
  PROVE  TypesInv'
<1>1. /\ app' = app /\ channels' = channels /\ subs' = subs /\ cursor' = cursor /\ buffer' = buffer
      /\ taken' = taken /\ closing' = closing /\ bound' = bound /\ phase' = phase
      /\ answers' = answers
  BY DEF Delivery
<1>2. PICK i \in 1 .. bound :
        Root("broker", Node("send", app.brokers[i],
                            Recorded(Recorded(Created(""), "broker"), app.brokers[i]), "ack"))
  BY DEF Delivery
<1>3. PICK brokers \in Seq(STRING) : brokers = app.brokers
  BY AppsTyped DEF TypesInv
<1>4. i \in 1 .. Len(brokers)
  <2>1. i \in 1 .. bound
    BY <1>2
  <2>2. bound \in Nat /\ bound <= Len(app.brokers)
    BY TypesNow
  <2> QED BY ONLY <2>1, <2>2, <1>3
<1>5. brokers[i] \in STRING
  BY <1>4
<1>6. PICK b \in Text : b = app.brokers[i]
  BY <1>3, <1>5 DEF Text
<1>7. Recorded(Created(""), "broker") \in Messages
      /\ \A name : Passes(Recorded(Created(""), "broker").history, name) < 2
  <2>1. "" \in Replies /\ "broker" \in Text
    BY DEF Replies, Text
  <2> QED BY <2>1, MessagesMade
<1>8. Recorded(Recorded(Created(""), "broker"), b) \in Messages
  BY <1>7, RecordedHop
<1>9. OkNode(Node("send", b, Recorded(Recorded(Created(""), "broker"), b), "ack"))
  <2>1. "send" \in Kinds /\ "ack" \in Modes /\ ~("send" = "task")
    BY DEF Kinds, Modes
  <2> QED BY <1>8, <2>1, NodesMade
<1>10. "broker" \in Text
  BY DEF Text
<1>11. IsWork(work') /\ requests' \in Nat
  BY <1>2, <1>6, <1>9, <1>10, RootWork
<1> QED BY <1>1, <1>11, TypesNow, ChannelsStay

LEMMA WorkTypes ==
  ASSUME TypesInv, Work
  PROVE  TypesInv'
<1>1. PICK id \in DOMAIN work : Dispatch(id) \/ Gather(id) \/ Task(id)
  BY DEF Work
<1>2. CASE Dispatch(id)
  <2>1. /\ IsWork(work') /\ buffer' \in [Names -> Seq(Messages)]
        /\ cursor' \in [Names -> [GroupNames -> Nat]]
    BY <1>2, DispatchTypes
  <2>2. /\ app' = app /\ channels' = channels /\ subs' = subs /\ taken' = taken /\ phase' = phase
        /\ closing' = closing /\ bound' = bound /\ requests' = requests /\ answers' = answers
    BY <1>2 DEF Dispatch
  <2> QED BY <2>1, <2>2, TypesNow, TypesKept
<1>3. CASE Gather(id)
  <2>1. /\ app' = app /\ channels' = channels /\ subs' = subs /\ cursor' = cursor /\ buffer' = buffer
        /\ taken' = taken /\ phase' = phase /\ closing' = closing /\ bound' = bound
        /\ requests' = requests /\ answers' = answers
    BY <1>3 DEF Gather
  <2>2. \E ok \in BOOLEAN : Finish(id, ok)
    BY <1>3 DEF Gather
  <2>3. IsWork(work')
    BY <2>2, TypesNow, FinishedWork
  <2> QED BY <2>1, <2>3, TypesNow, ChannelsStay
<1>4. CASE Task(id)
  <2>1. /\ app' = app /\ channels' = channels /\ subs' = subs /\ cursor' = cursor /\ buffer' = buffer
        /\ taken' = taken /\ phase' = phase /\ closing' = closing /\ bound' = bound
        /\ requests' = requests
    BY <1>4 DEF Task
  <2>2. IsWork(work') /\ \A a \in answers' : "copy" \notin a[2]
    BY <1>4, TaskTypes
  <2> QED BY <2>1, <2>2, TypesNow, ChannelsStay
<1> QED BY <1>1, <1>2, <1>3, <1>4

LEMMA TakeTypes ==
  ASSUME TypesInv, NEW q \in Names, HasWork(q), NEW mode \in Modes, Take(q, mode)
  PROVE  /\ IsWork(work') /\ buffer' \in [Names -> Seq(Messages)] /\ taken' \in [Names -> Nat]
<1>1. PICK on \in Seq(ConsumerIds) : on = subs[q]
  BY TypesNow
<1>2. PICK n \in Nat : n = taken[q]
  BY TypesNow
<1>3. PICK waiting \in Seq(Messages) : waiting = buffer[q]
  BY TypesNow
<1>4. on # <<>> /\ waiting # <<>>
  BY <1>1, <1>3 DEF HasWork
<1>5. PICK c \in ConsumerIds : c = on[(n % Len(on)) + 1]
  BY <1>4, Picked
<1>6. PICK m \in Messages : m = Head(waiting)
  BY <1>4, Picked
<1>7. c \in Text
  BY ConsumersAreTexts DEF TypesInv
<1>8. OkNode(Node("task", c, m, mode))
  <2>1. "task" \in Kinds
    BY DEF Kinds
  <2> QED BY <1>7, <2>1, NodesMade
<1>9. q \in Text
  BY ChannelsKnown DEF TypesInv, ChannelTypes
<1>10. PICK id \in Ids : id = <<<<q, n + 1>>>>
  <2>1. n + 1 \in Int
    OBVIOUS
  <2>2. <<<<q, n + 1>>>> \in Ids
    BY <1>9, <2>1, RootOf
  <2> QED BY <2>2
<1>11. IsWork(Only(id, Node("task", c, m, mode)) ++ work)
  BY <1>8, Single, Merged, TypesNow
<1>12. work' = Only(id, Node("task", c, m, mode)) ++ work
  BY <1>1, <1>2, <1>3, <1>5, <1>6, <1>10 DEF Take
<1>13. Tail(waiting) \in Seq(Messages)
  BY <1>4, Picked
<1>14. buffer' = [buffer EXCEPT ![q] = Tail(waiting)]
  BY <1>3 DEF Take
<1>15. taken' = [taken EXCEPT ![q] = n + 1]
  BY <1>2 DEF Take
<1>16. buffer' \in [Names -> Seq(Messages)]
  BY <1>13, <1>14, TypesNow
<1>17. taken' \in [Names -> Nat]
  BY <1>15, TypesNow
<1> QED BY <1>11, <1>12, <1>16, <1>17

LEMMA PumpTypes ==
  ASSUME TypesInv, Pump
  PROVE  TypesInv'
<1>1. /\ app' = app /\ channels' = channels /\ subs' = subs /\ cursor' = cursor
      /\ phase' = phase /\ closing' = closing /\ bound' = bound
      /\ requests' = requests /\ answers' = answers
  BY DEF Pump
<1>2. PICK q \in Names : HasWork(q) /\ Take(q, "pump")
  BY DEF Pump
<1>3. "pump" \in Modes
  BY DEF Modes
<1>4. IsWork(work') /\ buffer' \in [Names -> Seq(Messages)] /\ taken' \in [Names -> Nat]
  BY <1>2, <1>3, TakeTypes
<1> QED BY <1>1, <1>4, TypesNow, ChannelsStay

\* Who leaves a channel leaves the others there.
LEMMA LeftBehind ==
  ASSUME TypesInv, Leave
  PROVE  /\ subs' \in [Names -> Seq(ConsumerIds)]
         /\ \A name \in Names : \A i \in DOMAIN subs[name] :
              \/ subs[name][i] \in app.leaves
              \/ \E j \in DOMAIN subs'[name] : subs'[name][j] = subs[name][i]
<1>1. PICK c \in app.leaves :
        subs' = [name \in Names |-> Chosen(subs[name], {i \in DOMAIN subs[name] : subs[name][i] # c})]
  BY DEF Leave
<1>2. ASSUME NEW name \in Names
      PROVE  /\ subs'[name] \in Seq(ConsumerIds)
             /\ \A i \in DOMAIN subs[name] :
                  \/ subs[name][i] \in app.leaves
                  \/ \E j \in DOMAIN subs'[name] : subs'[name][j] = subs[name][i]
  <2>1. PICK on \in Seq(ConsumerIds) : on = subs[name]
    BY TypesNow
  <2>2. PICK P : P = {i \in DOMAIN on : on[i] # c}
    OBVIOUS
  <2>3. P \in SUBSET DOMAIN on
    BY <2>2
  <2>4. subs'[name] = Chosen(on, P)
    BY <1>1, <2>1, <2>2
  <2>5. /\ Chosen(on, P) \in Seq(ConsumerIds)
        /\ \A i \in P : \E k \in DOMAIN Chosen(on, P) : Chosen(on, P)[k] = on[i]
    BY <2>3, ChosenElements
  <2>6. ASSUME NEW i \in DOMAIN on, on[i] \notin app.leaves
        PROVE  \E k \in DOMAIN Chosen(on, P) : Chosen(on, P)[k] = on[i]
    BY <2>2, <2>5, <2>6, <1>1
  <2> QED BY ONLY <2>1, <2>4, <2>5, <2>6
<1>3. DOMAIN subs' = Names /\ subs' = [name \in Names |-> subs'[name]]
  BY <1>1
<1> QED BY <1>2, <1>3

LEMMA LeaveTypes ==
  ASSUME TypesInv, Leave
  PROVE  TypesInv'
<1>1. /\ app' = app /\ channels' = channels /\ cursor' = cursor /\ buffer' = buffer /\ taken' = taken
      /\ phase' = phase /\ closing' = closing /\ bound' = bound /\ work' = work
      /\ requests' = requests /\ answers' = answers
  BY DEF Leave
<1> QED BY <1>1, LeftBehind, TypesNow, TypesKept

LEMMA StopTypes ==
  ASSUME TypesInv, Stop
  PROVE  TypesInv'
<1>1. /\ app' = app /\ channels' = channels /\ subs' = subs /\ cursor' = cursor /\ buffer' = buffer
      /\ taken' = taken /\ closing' = closing /\ bound' = bound /\ work' = work
      /\ requests' = requests /\ answers' = answers
  BY DEF Stop
<1>2. phase' \in Phases
  BY DEF Stop, Phases
<1> QED BY <1>1, <1>2, TypesNow, ChannelsStay

LEMMA ShutdownTypes ==
  ASSUME TypesInv, Shutdown
  PROVE  TypesInv'
<1>1. /\ app' = app /\ channels' = channels /\ subs' = subs /\ cursor' = cursor
      /\ bound' = bound /\ requests' = requests /\ answers' = answers
  BY DEF Shutdown
<1>2. phase' \in Phases
  BY TypesNow DEF Shutdown, Phases
<1>3. closing' \in Nat \ {0}
  BY TypesNow DEF Shutdown
<1>4. /\ IsWork(work') /\ buffer' \in [Names -> Seq(Messages)] /\ taken' \in [Names -> Nat]
  <2>1. CASE work' = work /\ buffer' = buffer /\ taken' = taken
    BY <2>1, TypesNow
  <2>2. CASE closing <= Len(channels) /\ HasWork(channels[closing].name)
             /\ Take(channels[closing].name, "drain")
    <3>1. closing \in DOMAIN channels
      BY <2>2, TypesNow DEF TypesInv, ChannelTypes
    <3>2. channels[closing].name \in Names
      BY <3>1, ChannelsKnown DEF TypesInv, ChannelTypes
    <3>3. "drain" \in Modes
      BY DEF Modes
    <3> QED BY <2>2, <3>2, <3>3, TakeTypes
  <2>3. channels \in Seq(Declarations) /\ closing \in Nat
    BY TypesNow DEF TypesInv, ChannelTypes
  <2> QED BY <2>1, <2>2, <2>3 DEF Shutdown
<1> QED BY <1>1, <1>2, <1>3, <1>4, TypesNow, ChannelsStay

-----------------------------------------------------------------------------
(* Deliveries find the consumers. *)

Unborn == phase = "starting" => DOMAIN work = {}

\* Consumer i has its channel.
Served(i) ==
  \/ Consumers[i].id \in app.leaves
  \/ Displaced(i, Declared(Consumers[i].on))
  \/ \E j \in DOMAIN subs[Consumers[i].on] : subs[Consumers[i].on][j] = Consumers[i].id

Subscribed == \A i \in DOMAIN Consumers : Consumers[i].on \in Names /\ Served(i)

CompleteInv == phase = "starting" \/ (phase = "refused" /\ DOMAIN work = {}) \/ Subscribed

LEMMA TypesStep ==
  ASSUME TypesInv, Unborn, [Next]_vars
  PROVE  TypesInv'
<1>1. CASE UNCHANGED vars
  <2>1. /\ app' = app /\ channels' = channels /\ subs' = subs /\ cursor' = cursor /\ buffer' = buffer
        /\ taken' = taken /\ phase' = phase /\ closing' = closing /\ bound' = bound
        /\ requests' = requests /\ answers' = answers /\ work' = work
    BY <1>1 DEF vars
  <2> QED BY <2>1, TypesNow, ChannelsStay
<1>2. CASE Start
  BY <1>2, StartTypes DEF Start, Unborn
<1>3. CASE Bind
  BY <1>3, BindTypes
<1>4. CASE Request
  BY <1>4, RequestTypes
<1>5. CASE Delivery
  BY <1>5, DeliveryTypes
<1>6. CASE Work
  BY <1>6, WorkTypes
<1>7. CASE Pump
  BY <1>7, PumpTypes
<1>8. CASE Leave
  BY <1>8, LeaveTypes
<1>9. CASE Stop
  BY <1>9, StopTypes
<1>10. CASE Shutdown
  BY <1>10, ShutdownTypes
<1>11. CASE Over
  BY <1>1, <1>11 DEF Over
<1> QED BY <1>1, <1>2, <1>3, <1>4, <1>5, <1>6, <1>7, <1>8, <1>9, <1>10, <1>11 DEF Next

\* What is declared and who has subscribed stays, with a step that leaves them alone.
LEMMA SubscribedStays ==
  ASSUME Subscribed, app' = app, channels' = channels, subs' = subs
  PROVE  Subscribed'
<1>1. Consumers' = Consumers /\ Names' = Names
  BY DEF Consumers, Names
<1>2. \A c : Declared(c)' = Declared(c)
  BY DEF Declared
<1>3. \A i, channel : Displaced(i, channel)' <=> Displaced(i, channel)
  BY <1>1 DEF Displaced
<1>4. \A i : Served(i)' <=> Served(i)
  BY <1>1, <1>2, <1>3 DEF Served
<1> QED BY <1>1, <1>4 DEF Subscribed

LEMMA StartSubscribes ==
  ASSUME TypesInv, Start, phase' = "binding"
  PROVE  Subscribed'
<1>1. app' = app /\ app \in Apps
  BY DEF Start, TypesInv
<1>2. Consumers' = Consumers
  BY <1>1 DEF Consumers
<1>3. subs' = [c \in Names' |-> IdsOn(Declared(c)')]
  BY DEF Start, Names
<1>4. channels' = Registered(app.channels) /\ Bootable(channels')
  BY DEF Start
<1>5. channels' \in Seq(Declarations)
  BY <1>1, <1>4, RegisteredChannels
<1>6. SUFFICES ASSUME NEW i \in DOMAIN Consumers
      PROVE  Consumers[i].on \in Names' /\ Served(i)'
  BY <1>2 DEF Subscribed
<1>7. PICK on : on = Consumers[i].on
  OBVIOUS
<1>8. on \in Names'
  BY <1>4, <1>7 DEF Bootable, Names
<1>9. PICK d : d = Declared(on)'
  OBVIOUS
<1>10. d.name = on
  <2>1. \E j \in DOMAIN channels' : channels'[j].name = on
    BY <1>8 DEF Names
  <2> QED BY <1>9, <2>1 DEF Declared
<1>11. Displaced(i, d)' <=> Displaced(i, d)
  BY <1>2 DEF Displaced
<1>12. ~Displaced(i, d) => \E k \in DOMAIN IdsOn(d) : IdsOn(d)[k] = Consumers[i].id
  BY <1>1, <1>7, <1>10, IdsOnChannel
<1>13. subs'[on] = IdsOn(d)
  BY <1>3, <1>8, <1>9
<1>14. Served(i)'
  BY <1>2, <1>7, <1>9, <1>11, <1>12, <1>13 DEF Served
<1> QED BY <1>7, <1>8, <1>14

LEMMA LeaveSubscribed ==
  ASSUME TypesInv, Leave, Subscribed
  PROVE  Subscribed'
<1>1. app' = app /\ channels' = channels
  BY DEF Leave
<1>2. Consumers' = Consumers /\ Names' = Names
  BY <1>1 DEF Consumers, Names
<1>3. \A c : Declared(c)' = Declared(c)
  BY <1>1 DEF Declared
<1>4. \A i, channel : Displaced(i, channel)' <=> Displaced(i, channel)
  BY <1>2 DEF Displaced
<1>5. SUFFICES ASSUME NEW i \in DOMAIN Consumers PROVE Consumers[i].on \in Names' /\ Served(i)'
  BY <1>2 DEF Subscribed
<1>6. Consumers[i].on \in Names /\ Served(i)
  BY DEF Subscribed
<1>7. CASE Consumers[i].id \in app.leaves \/ Displaced(i, Declared(Consumers[i].on))
  BY <1>1, <1>2, <1>3, <1>4, <1>6, <1>7 DEF Served
<1>8. CASE \E j \in DOMAIN subs[Consumers[i].on] : subs[Consumers[i].on][j] = Consumers[i].id
  <2>1. PICK j \in DOMAIN subs[Consumers[i].on] : subs[Consumers[i].on][j] = Consumers[i].id
    BY <1>8
  <2>2. \/ Consumers[i].id \in app.leaves
        \/ \E k \in DOMAIN subs'[Consumers[i].on] : subs'[Consumers[i].on][k] = Consumers[i].id
    BY <1>6, <2>1, LeftBehind
  <2> QED BY <1>1, <1>2, <1>6, <2>2 DEF Served
<1> QED BY <1>6, <1>7, <1>8 DEF Served

\* The steps that leave the application and who listens in it alone.
Settled == app' = app /\ channels' = channels /\ subs' = subs

LEMMA LaterSteps ==
  ASSUME [Next]_vars, ~Start, ~Leave
  PROVE  Settled
  BY DEF Next, vars, Settled, Bind, Request, Delivery, Work, Dispatch, Gather, Task, Pump, Stop,
         Shutdown, Over

LEMMA CompleteStep ==
  ASSUME TypesInv, Unborn, CompleteInv, [Next]_vars
  PROVE  Unborn' /\ CompleteInv'
<1>1. CASE Start
  <2>1. phase' \in {"binding", "refused"} /\ work' = work /\ DOMAIN work = {}
    BY <1>1 DEF Start, Unborn
  <2>2. CASE phase' = "binding"
    BY <1>1, <2>2, StartSubscribes DEF CompleteInv, Unborn
  <2>3. CASE phase' = "refused"
    BY <2>1, <2>3 DEF CompleteInv, Unborn
  <2> QED BY <2>1, <2>2, <2>3
<1>2. CASE Leave
  <2>1. phase = "up" /\ phase' = "up"
    BY <1>2 DEF Leave
  <2> QED BY <1>2, <2>1, LeaveSubscribed DEF CompleteInv, Unborn
<1>3. CASE Over \/ UNCHANGED vars
  <2>1. Settled /\ phase' = phase /\ work' = work
    BY <1>3 DEF Over, vars, Settled
  <2> QED BY <2>1, SubscribedStays DEF CompleteInv, Unborn, Settled
<1>4. CASE Work
  <2>1. DOMAIN work # {} /\ phase' = phase
    BY <1>4 DEF Work, Dispatch, Gather, Task
  <2>2. Settled
    BY <1>4 DEF Work, Dispatch, Gather, Task, Settled
  <2> QED BY <2>1, <2>2, SubscribedStays DEF CompleteInv, Unborn, Settled
<1>5. CASE Bind \/ Request \/ Delivery \/ Pump \/ Stop \/ Shutdown
  <2>1. phase \notin {"starting", "refused"} /\ phase' # "starting"
    BY <1>5 DEF Bind, Request, Delivery, Pump, Stop, Shutdown
  <2>2. Settled
    BY <1>5 DEF Bind, Request, Delivery, Pump, Stop, Shutdown, Settled
  <2> QED BY <2>1, <2>2, SubscribedStays DEF CompleteInv, Unborn, Settled
<1> QED BY <1>1, <1>2, <1>3, <1>4, <1>5 DEF Next

-----------------------------------------------------------------------------
(* The shutdown drains the queues. *)

\* Queues behind the shutdown's position are closed and drained; only queues hold messages.
Position == (phase \notin {"stopping", "down"} => closing = 1) /\ (phase = "down" => closing > Len(channels))
Behind ==
  \A i \in DOMAIN channels : i < closing /\ channels[i].kind = "queue" =>
    channels[i].name \in closed /\ ~HasWork(channels[i].name)
QueuesHold == \A q \in Names : buffer[q] # <<>> => Declared(q).kind = "queue"

DrainedInv == Position /\ Behind /\ QueuesHold

LEMMA BehindStays ==
  ASSUME Behind, channels' = channels, subs' = subs, closing' = closing, closed \subseteq closed',
         \A q \in Names : q \in closed /\ ~HasWork(q) => ~HasWork(q)'
  PROVE  Behind'
  BY DEF Behind, Names

LEMMA HoldStays ==
  ASSUME QueuesHold, channels' = channels,
         \A q \in Names : buffer'[q] # <<>> => buffer[q] # <<>> \/ Declared(q).kind = "queue"
  PROVE  QueuesHold'
<1>1. Names' = Names /\ \A q : Declared(q)' = Declared(q)
  BY DEF Names, Declared
<1> QED BY <1>1 DEF QueuesHold

LEMMA SameDrained ==
  ASSUME DrainedInv, channels' = channels, subs' = subs, closing' = closing, closed' = closed,
         buffer' = buffer, Position'
  PROVE  DrainedInv'
<1>1. Behind'
  BY BehindStays DEF DrainedInv, HasWork
<1>2. QueuesHold'
  BY HoldStays DEF DrainedInv
<1> QED BY <1>1, <1>2 DEF DrainedInv

LEMMA DispatchDrained ==
  ASSUME TypesInv, DrainedInv, NEW id \in DOMAIN work, Dispatch(id)
  PROVE  DrainedInv'
<1>1. /\ channels' = channels /\ subs' = subs /\ closing' = closing /\ closed' = closed
      /\ phase' = phase
  BY DEF Dispatch
<1>2. Position'
  BY <1>1 DEF DrainedInv, Position
<1>3. CASE buffer' = buffer
  BY <1>1, <1>2, <1>3, SameDrained
<1>4. CASE /\ work[id].at \in Names \ closed /\ Declared(work[id].at).kind = "queue"
           /\ buffer' = [buffer EXCEPT ![work[id].at] = Append(@, work[id].msg)]
  <2>1. \A q \in Names : q # work[id].at => buffer'[q] = buffer[q]
    BY <1>4
  <2>2. Behind'
    BY <1>1, <1>4, <2>1, BehindStays DEF DrainedInv, HasWork
  <2>3. QueuesHold'
    BY <1>1, <1>4, <2>1, HoldStays DEF DrainedInv
  <2> QED BY <1>2, <2>2, <2>3 DEF DrainedInv
<1> QED BY <1>3, <1>4, DispatchTypes

\* A message taken from a queue.
LEMMA TakeLeaves ==
  ASSUME TypesInv, NEW q \in Names, HasWork(q), NEW mode, Take(q, mode)
  PROVE  /\ buffer[q] # <<>> /\ \A other \in Names \ {q} : buffer'[other] = buffer[other]
  BY TypesNow DEF HasWork, Take

LEMMA PumpDrained ==
  ASSUME TypesInv, DrainedInv, Pump
  PROVE  DrainedInv'
<1>1. /\ channels' = channels /\ subs' = subs /\ closing' = closing /\ closed' = closed
      /\ phase' = phase
  BY DEF Pump
<1>2. Position'
  BY <1>1 DEF DrainedInv, Position
<1>3. PICK q \in Names \ closed : HasWork(q) /\ Take(q, "pump")
  BY DEF Pump
<1>4. buffer[q] # <<>> /\ \A other \in Names \ {q} : buffer'[other] = buffer[other]
  BY <1>3, TakeLeaves
<1>5. Behind'
  BY <1>1, <1>3, <1>4, BehindStays DEF DrainedInv, HasWork
<1>6. QueuesHold'
  BY <1>1, <1>3, <1>4, HoldStays DEF DrainedInv
<1> QED BY <1>2, <1>5, <1>6 DEF DrainedInv

LEMMA ShutdownDrained ==
  ASSUME TypesInv, DrainedInv, Shutdown
  PROVE  DrainedInv'
<1>1. channels' = channels /\ subs' = subs /\ phase = "stopping"
  BY DEF Shutdown
<1>2. closing \in Nat \ {0} /\ Len(channels) \in Nat /\ DOMAIN channels = 1 .. Len(channels)
  BY TypesNow DEF TypesInv, ChannelTypes
<1>3. CASE closing > Len(channels)
  <2>1. /\ closing' = closing /\ closed' = closed /\ buffer' = buffer /\ phase' = "down"
    BY <1>3 DEF Shutdown
  <2>2. Position'
    BY <1>1, <1>3, <2>1 DEF Position
  <2> QED BY <1>1, <2>1, <2>2, SameDrained
<1>4. CASE ~(closing > Len(channels))
  <2>1. PICK q : q = channels[closing].name
    OBVIOUS
  <2>2. q \in Names /\ closing \in DOMAIN channels
    BY <1>2, <1>4, <2>1 DEF Names
  <2>3. phase' = "stopping"
    BY <1>1, <1>4 DEF Shutdown
  <2>4. Position'
    BY <2>3 DEF Position
  <2>5. CASE channels[closing].kind # "queue"
    <3>1. closing' = closing + 1 /\ closed' = closed /\ buffer' = buffer
      BY <1>4, <2>5 DEF Shutdown
    <3>2. Behind'
      <4>1. SUFFICES ASSUME NEW i \in DOMAIN channels, i < closing + 1, channels[i].kind = "queue"
                     PROVE  channels[i].name \in closed /\ ~HasWork(channels[i].name)'
        BY <1>1, <3>1 DEF Behind
      <4>2. i < closing
        BY <1>2, <2>5, <4>1
      <4> QED BY <1>1, <3>1, <4>1, <4>2 DEF DrainedInv, Behind, HasWork
    <3>3. QueuesHold'
      BY <1>1, <3>1, HoldStays DEF DrainedInv
    <3> QED BY <2>4, <3>2, <3>3 DEF DrainedInv
  <2>6. CASE channels[closing].kind = "queue" /\ HasWork(q)
    <3>1. closing' = closing /\ closed' = closed \cup {q} /\ Take(q, "drain")
      BY <1>4, <2>1, <2>6 DEF Shutdown, Closes
    <3>2. buffer[q] # <<>> /\ \A other \in Names \ {q} : buffer'[other] = buffer[other]
      BY <2>2, <2>6, <3>1, TakeLeaves
    <3>3. Behind'
      BY <1>1, <2>6, <3>1, <3>2, BehindStays DEF DrainedInv, HasWork
    <3>4. QueuesHold'
      BY <1>1, <3>2, HoldStays DEF DrainedInv
    <3> QED BY <2>4, <3>3, <3>4 DEF DrainedInv
  <2>7. CASE channels[closing].kind = "queue" /\ ~HasWork(q)
    <3>1. closing' = closing + 1 /\ closed' = closed \cup {q} /\ buffer' = buffer
      BY <1>4, <2>1, <2>7 DEF Shutdown, Closes
    <3>2. Behind'
      <4>1. SUFFICES ASSUME NEW i \in DOMAIN channels, i < closing + 1, channels[i].kind = "queue"
                     PROVE  channels[i].name \in closed' /\ ~HasWork(channels[i].name)'
        BY <1>1, <3>1 DEF Behind
      <4>2. CASE i < closing
        BY <1>1, <3>1, <4>1, <4>2 DEF DrainedInv, Behind, HasWork
      <4>3. CASE i = closing
        BY <1>1, <2>1, <2>7, <3>1, <4>3 DEF HasWork
      <4> QED BY <1>2, <4>1, <4>2, <4>3
    <3>3. QueuesHold'
      BY <1>1, <3>1, HoldStays DEF DrainedInv
    <3> QED BY <2>4, <3>2, <3>3 DEF DrainedInv
  <2> QED BY <2>5, <2>6, <2>7
<1> QED BY <1>3, <1>4

LEMMA StartDrained ==
  ASSUME TypesInv, DrainedInv, Start
  PROVE  DrainedInv'
<1>1. phase = "starting" /\ phase' \in {"binding", "refused"} /\ closing' = closing
  BY DEF Start
<1>2. closing = 1
  BY <1>1 DEF DrainedInv, Position
<1>3. Position'
  BY <1>1, <1>2 DEF Position
<1>4. buffer' = [c \in Names' |-> <<>>]
  BY DEF Start, Names
<1>5. QueuesHold'
  BY <1>4 DEF QueuesHold
<1>6. DOMAIN channels' \subseteq Nat \ {0}
  BY RegisteredChannels DEF TypesInv, Start
<1>7. Behind'
  BY <1>1, <1>2, <1>6 DEF Behind
<1> QED BY <1>3, <1>5, <1>7 DEF DrainedInv

LEMMA DrainedStep ==
  ASSUME TypesInv, DrainedInv, [Next]_vars
  PROVE  DrainedInv'
<1>1. CASE Start
  BY <1>1, StartDrained
<1>2. CASE Leave
  <2>1. /\ channels' = channels /\ closing' = closing /\ closed' = closed /\ buffer' = buffer
        /\ phase = "up" /\ phase' = phase
    BY <1>2 DEF Leave
  <2>2. closing = 1
    BY <2>1 DEF DrainedInv, Position
  <2>3. Position'
    BY <2>1, <2>2 DEF Position
  <2>4. DOMAIN channels \subseteq Nat \ {0}
    BY DEF TypesInv, ChannelTypes
  <2>5. Behind'
    BY <2>1, <2>2, <2>4 DEF Behind
  <2>6. QueuesHold'
    BY <2>1, HoldStays DEF DrainedInv
  <2> QED BY <2>3, <2>5, <2>6 DEF DrainedInv
<1>3. CASE Work
  <2>1. PICK id \in DOMAIN work : Dispatch(id) \/ Gather(id) \/ Task(id)
    BY <1>3 DEF Work
  <2>2. CASE Dispatch(id)
    BY <2>2, DispatchDrained
  <2>3. CASE Gather(id) \/ Task(id)
    <3>1. /\ channels' = channels /\ subs' = subs /\ closing' = closing /\ closed' = closed
          /\ buffer' = buffer /\ phase' = phase
      BY <2>3 DEF Gather, Task
    <3>2. Position'
      BY <3>1 DEF DrainedInv, Position
    <3> QED BY <3>1, <3>2, SameDrained
  <2> QED BY <2>1, <2>2, <2>3
<1>4. CASE Pump
  BY <1>4, PumpDrained
<1>5. CASE Shutdown
  BY <1>5, ShutdownDrained
<1>6. CASE Bind \/ Request \/ Delivery \/ Stop \/ Over \/ UNCHANGED vars
  <2>1. /\ channels' = channels /\ subs' = subs /\ closing' = closing /\ closed' = closed
        /\ buffer' = buffer
    BY <1>6 DEF Bind, Request, Delivery, Stop, Over, vars
  <2>2. phase' = phase \/ (phase \in {"binding", "up"} /\ phase' # "down")
    BY <1>6 DEF Bind, Request, Delivery, Stop, Over, vars
  <2>3. Position'
    BY <2>1, <2>2 DEF DrainedInv, Position
  <2> QED BY <2>1, <2>3, SameDrained
<1> QED BY <1>1, <1>2, <1>3, <1>4, <1>5, <1>6 DEF Next

-----------------------------------------------------------------------------
(* The theorems. *)

Inv == TypesInv /\ Unborn /\ CompleteInv /\ DrainedInv

LEMMA InitInv == Init => Inv
<1> SUFFICES ASSUME Init PROVE Inv
  OBVIOUS
<1>1. TypesInv
  BY InitTypes
<1>2. phase = "starting" /\ DOMAIN work = {}
  BY DEF Init
<1>3. channels = <<>> /\ DOMAIN channels = {} /\ Names = {} /\ closing = 1
  BY DEF Init, Names
<1>4. DrainedInv
  BY <1>2, <1>3 DEF DrainedInv, Position, Behind, QueuesHold
<1> QED BY <1>1, <1>2, <1>4 DEF Inv, Unborn, CompleteInv

LEMMA InvStep == Inv /\ [Next]_vars => Inv'
  BY TypesStep, CompleteStep, DrainedStep DEF Inv

\* The inductive invariant: the types, with what messages carry; nothing is in progress before the
\* start, and after it every consumer is on its channel; and what the shutdown has drained.
THEOREM RuntimeInvariant == Spec => []Inv
<1> QED BY InitInv, InvStep, PTL DEF Spec

\* Copies made by fanout channels, fanout steps and publish never answer the caller (the reply channel
\* is dropped where a copy is made), in every application and however branches are nested.
THEOREM CopiesStayQuiet == Spec => []FannedCopiesNeverAnswer
<1>1. Inv => FannedCopiesNeverAnswer
  BY DEF Inv, TypesInv, FannedCopiesNeverAnswer
<1> QED BY <1>1, RuntimeInvariant, PTL

\* Fanouts bound in a circle do not multiply a message for ever: no message passes a channel that only
\* fanouts lead to a third time (the check of the history before a fanout sends).
THEOREM FanoutsEnd == Spec => []NoEndlessFanout
<1>1. ASSUME Inv PROVE NoEndlessFanout
  <2>1. \A id \in DOMAIN work : work[id].msg \in Messages
    BY <1>1, NodeParts DEF Inv, TypesInv, IsWork
  <2>2. \A id \in DOMAIN work : \A name \in Fanned : Passes(work[id].msg.history, name) <= 2
    BY <2>1 DEF Messages, Tame
  <2> QED BY <2>2 DEF NoEndlessFanout, Fanned, Bound, Others, StepsDeclared
<1> QED BY <1>1, RuntimeInvariant, PTL

\* A message of the broker meets no half-started application: when one is there, every channel has the
\* consumers that are declared, but for those that have left or that a later one displaced.
THEOREM DeliveriesAreServed == Spec => []DeliveriesFindConsumers
<1>1. ASSUME Inv PROVE DeliveriesFindConsumers
  <2>1. SUFFICES ASSUME DOMAIN work # {} PROVE \A i \in DOMAIN Consumers : Served(i)
    BY DEF DeliveriesFindConsumers, Served
  <2>2. Subscribed
    BY <1>1, <2>1 DEF Inv, Unborn, CompleteInv
  <2> QED BY <2>2 DEF Subscribed
<1> QED BY <1>1, RuntimeInvariant, PTL

\* After the shutdown no queue holds a message that it accepted and that somebody consumes: the queues
\* are closed and drained in turn, and a closed one refuses what handlers drained later still send.
THEOREM ShutdownsDrain == Spec => []NothingStaysQueued
<1>1. ASSUME Inv PROVE NothingStaysQueued
  <2>1. SUFFICES ASSUME phase = "down", NEW q \in Names, HasWork(q) PROVE FALSE
    BY DEF NothingStaysQueued
  <2>2. Declared(q).kind = "queue"
    BY <1>1, <2>1 DEF Inv, DrainedInv, QueuesHold, HasWork
  <2>3. channels \in Seq(Declarations) /\ closing \in Nat
    BY <1>1 DEF Inv, TypesInv, ChannelTypes
  <2>4. PICK i \in DOMAIN channels : Declared(q) = channels[i]
    BY <2>3, ChannelsKnown
  <2>5. channels[i].name = q
    BY <2>3, <2>4, ChannelsKnown
  <2>6. i < closing
    BY <1>1, <2>1, <2>3 DEF Inv, DrainedInv, Position
  <2> QED BY <1>1, <2>1, <2>2, <2>4, <2>5, <2>6 DEF Inv, DrainedInv, Behind
<1> QED BY <1>1, RuntimeInvariant, PTL
=============================================================================
