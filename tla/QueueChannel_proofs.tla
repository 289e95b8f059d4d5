------------------------ MODULE QueueChannel_proofs ------------------------
(***************************************************************************)
(* Theorems about QueueChannel for any messages, consumers, calls of       *)
(* close() and capacity.                                                   *)
(***************************************************************************)
EXTENDS QueueChannel, FiniteSetTheorems, SequenceTheorems, TLAPS

-----------------------------------------------------------------------------
(* Sequences and remainders. *)

\* What is appended to the second part is appended to the whole.
LEMMA AppendSecond ==
  ASSUME NEW S, NEW s \in Seq(S), NEW t \in Seq(S), NEW e \in S
  PROVE  s \o Append(t, e) = Append(s \o t, e)
<1>1. s \o t \in Seq(S) /\ Append(t, e) \in Seq(S)
  BY ConcatProperties, AppendProperties
<1>2. s \o Append(t, e) = s \o (t \o <<e>>)
  BY AppendIsConcat
<1>3. Append(s \o t, e) = (s \o t) \o <<e>>
  BY <1>1, AppendIsConcat
<1>4. <<e>> \in Seq(S)
  OBVIOUS
<1> QED BY <1>2, <1>3, <1>4, ConcatAssociative

\* Moving the head of the second part to the end of the first changes nothing.
LEMMA MoveHead ==
  ASSUME NEW S, NEW s \in Seq(S), NEW t \in Seq(S), t # <<>>
  PROVE  Append(s, Head(t)) \o Tail(t) = s \o t
<1>1. Head(t) \in S /\ Tail(t) \in Seq(S) /\ Len(Tail(t)) = Len(t) - 1
      /\ \A i \in 1 .. Len(Tail(t)) : Tail(t)[i] = t[i + 1]
  BY HeadTailProperties
<1>2. Head(t) = t[1]
  OBVIOUS
<1>3. Append(s, Head(t)) \in Seq(S) /\ Len(Append(s, Head(t))) = Len(s) + 1
      /\ (\A i \in 1 .. Len(s) : Append(s, Head(t))[i] = s[i])
      /\ Append(s, Head(t))[Len(s) + 1] = Head(t)
  BY <1>1, AppendProperties
<1> DEFINE l == Append(s, Head(t)) \o Tail(t)
           r == s \o t
<1>4. l \in Seq(S) /\ Len(l) = Len(s) + 1 + (Len(t) - 1)
      /\ \A i \in 1 .. Len(s) + 1 + (Len(t) - 1) :
           l[i] = IF i <= Len(s) + 1 THEN Append(s, Head(t))[i] ELSE Tail(t)[i - (Len(s) + 1)]
  BY <1>1, <1>3, ConcatProperties
<1>5. r \in Seq(S) /\ Len(r) = Len(s) + Len(t)
      /\ \A i \in 1 .. Len(s) + Len(t) : r[i] = IF i <= Len(s) THEN s[i] ELSE t[i - Len(s)]
  BY ConcatProperties
<1>6. Len(s) \in Nat /\ Len(t) \in Nat
  BY LenProperties
<1>7. \A i \in 1 .. Len(l) : l[i] = r[i]
  <2> SUFFICES ASSUME NEW i \in 1 .. Len(l) PROVE l[i] = r[i]
    OBVIOUS
  <2>1. CASE i <= Len(s)
    BY <2>1, <1>3, <1>4, <1>5, <1>6
  <2>2. CASE i = Len(s) + 1
    BY <2>2, <1>2, <1>3, <1>4, <1>5, <1>6
  <2>3. CASE i > Len(s) + 1
    <3>1. l[i] = Tail(t)[i - (Len(s) + 1)] /\ r[i] = t[i - Len(s)]
      BY <2>3, <1>4, <1>5, <1>6
    <3>2. i - (Len(s) + 1) \in 1 .. Len(Tail(t)) /\ (i - (Len(s) + 1)) + 1 = i - Len(s)
      BY <2>3, <1>1, <1>4, <1>6
    <3> QED BY <3>1, <3>2, <1>1
  <2> QED BY <2>1, <2>2, <2>3, <1>4, <1>6
<1> QED BY <1>4, <1>5, <1>6, <1>7, SeqEqual

\* Dropping one place keeps the order of the others.
LEMMA RemoveAtFacts ==
  ASSUME NEW S, NEW s \in Seq(S), NEW i \in 1 .. Len(s)
  PROVE  /\ RemoveAt(s, i) \in Seq(S)
         /\ Len(RemoveAt(s, i)) = Len(s) - 1
         /\ \A j \in 1 .. Len(s) - 1 : RemoveAt(s, i)[j] = IF j < i THEN s[j] ELSE s[j + 1]
<1> DEFINE front == SubSeq(s, 1, i - 1)
           back == SubSeq(s, i + 1, Len(s))
<1>1. Len(s) \in Nat /\ \A j \in 1 .. Len(s) : s[j] \in S
  BY LenProperties, ElementOfSeq
<1>2. front \in Seq(S) /\ Len(front) = i - 1 /\ \A j \in 1 .. i - 1 : front[j] = s[j]
  <2>1. \A j \in 1 .. i - 1 : s[j] \in S
    BY <1>1
  <2> QED BY <2>1, <1>1, SubSeqProperties
<1>3. back \in Seq(S) /\ Len(back) = Len(s) - i /\ \A j \in 1 .. Len(s) - i : back[j] = s[i + j]
  <2>1. \A j \in i + 1 .. Len(s) : s[j] \in S
    BY <1>1
  <2> QED BY <2>1, <1>1, SubSeqProperties
<1> HIDE DEF front, back
<1>4. /\ front \o back \in Seq(S)
      /\ Len(front \o back) = Len(front) + Len(back)
      /\ \A j \in 1 .. Len(front) + Len(back) :
           (front \o back)[j] = IF j <= Len(front) THEN front[j] ELSE back[j - Len(front)]
  BY <1>2, <1>3, ConcatProperties
<1>5. RemoveAt(s, i) = front \o back
  BY DEF RemoveAt, front, back
<1>7. Len(front) + Len(back) = Len(s) - 1
  BY <1>1, <1>2, <1>3
<1>6. ASSUME NEW j \in 1 .. Len(s) - 1
      PROVE  (front \o back)[j] = IF j < i THEN s[j] ELSE s[j + 1]
  <2>1. CASE j < i
    BY <2>1, <1>1, <1>2, <1>4, <1>7
  <2>2. CASE j >= i
    <3>1. j - (i - 1) \in 1 .. Len(s) - i /\ i + (j - (i - 1)) = j + 1
      BY <2>2, <1>1
    <3>2. (front \o back)[j] = back[j - (i - 1)]
      BY <2>2, <1>1, <1>2, <1>4, <1>7
    <3> QED BY <2>2, <3>1, <3>2, <1>3
  <2>3. j < i \/ j >= i
    BY <1>1
  <2> QED BY <2>1, <2>2, <2>3
<1> QED BY <1>4, <1>5, <1>6, <1>7

\* A quotient and a remainder are determined by their number.
LEMMA OneDivision ==
  ASSUME NEW n \in Nat, NEW a \in Int, NEW b \in Int, NEW x \in 0 .. n - 1, NEW y \in 0 .. n - 1,
         n * a + x = n * b + y
  PROVE  x = y
<1>1. CASE a = b
  BY <1>1
<1>2. ASSUME a >= b + 1 PROVE FALSE
  <2>1. n * (a - b - 1) >= 0
    BY <1>2
  <2>2. n * (a - b - 1) = n * a - n * b - n
    OBVIOUS
  <2> QED BY <2>1, <2>2
<1>3. ASSUME b >= a + 1 PROVE FALSE
  <2>1. n * (b - a - 1) >= 0
    BY <1>3
  <2>2. n * (b - a - 1) = n * b - n * a - n
    OBVIOUS
  <2> QED BY <2>1, <2>2
<1> QED BY <1>1, <1>2, <1>3

\* The cursor modulo a length goes up by one and starts again at 0.
LEMMA NextTurn ==
  ASSUME NEW r \in Nat, NEW n \in Nat, n > 0
  PROVE  /\ r % n \in 0 .. n - 1
         /\ (r + 1) % n = IF r % n = n - 1 THEN 0 ELSE (r % n) + 1
<1>1. \A k \in Nat : k % n \in 0 .. n - 1 /\ k \div n \in Int /\ k = n * (k \div n) + (k % n)
  OBVIOUS
<1>2. CASE r % n = n - 1
  BY <1>1, <1>2, OneDivision
<1>3. CASE r % n # n - 1
  <2>1. /\ (r + 1) % n \in 0 .. n - 1
        /\ r \div n \in Int /\ (r + 1) \div n \in Int
        /\ r = n * (r \div n) + (r % n) /\ r + 1 = n * ((r + 1) \div n) + ((r + 1) % n)
    <3>1. r \in Nat /\ r + 1 \in Nat
      OBVIOUS
    <3> QED BY <3>1, <1>1
  <2>2. (r % n) + 1 \in 0 .. n - 1
    BY <1>1, <1>3
  <2>3. n * (r \div n) + ((r % n) + 1) = n * ((r + 1) \div n) + ((r + 1) % n)
    BY <2>1, <2>2
  <2>4. (r % n) + 1 = (r + 1) % n
    BY ONLY n \in Nat, <2>1, <2>2, <2>3, OneDivision
  <2> QED BY <2>4, <1>1, <1>3
<1> QED BY <1>1, <1>2, <1>3

-----------------------------------------------------------------------------
(* Types. *)

\* TypeOK, and a consumer is subscribed once.
Typed ==
  /\ TypeOK
  /\ \A i, j \in DOMAIN consumers : consumers[i] = consumers[j] => i = j

\* The pump has a handler or a yield to wait for exactly while it is pumping.
PumpInv ==
  /\ pumping <=> at[Pump] \in {"handling", "yield"}
  /\ at[Pump] # "handling" => handling[Pump] = NoMsg

\* Where a consumer is picked there is one.
LEMMA Picked ==
  ASSUME Typed, HasWork
  PROVE  /\ Len(consumers) \in Nat /\ Len(consumers) > 0
         /\ rrCursor % Len(consumers) \in 0 .. Len(consumers) - 1
         /\ (rrCursor % Len(consumers)) + 1 \in DOMAIN consumers
         /\ DOMAIN consumers = 1 .. Len(consumers)
         /\ PickConsumer \in Consumers /\ Head(buffer) \in Msgs
<1>1. consumers \in Seq(Consumers) /\ consumers # <<>> /\ buffer \in Seq(Msgs) /\ buffer # <<>>
      /\ rrCursor \in Nat
  BY DEF Typed, TypeOK, HasWork
<1>2. Len(consumers) \in Nat /\ Len(consumers) > 0 /\ DOMAIN consumers = 1 .. Len(consumers)
  BY <1>1
<1>3. rrCursor % Len(consumers) \in 0 .. Len(consumers) - 1
  BY <1>1, <1>2, NextTurn
<1>4. (rrCursor % Len(consumers)) + 1 \in DOMAIN consumers
  BY <1>2, <1>3
<1> QED BY <1>1, <1>2, <1>3, <1>4 DEF PickConsumer

\* Handing a message out, or not, keeps the types.
LEMMA LoopTypes ==
  ASSUME Typed, NEW w \in Workers, NEW l \in {"idle", "closed"},
         (HasWork /\ ProcessNext(w)) \/ Leave(w, l),
         UNCHANGED <<consumers, since>>
  PROVE  /\ buffer' \in Seq(Msgs) /\ Len(buffer') <= Capacity
         /\ rrCursor' \in Nat
         /\ at' \in [Workers -> {"idle", "handling", "yield", "closed"}]
         /\ handling' \in [Workers -> Msgs \cup {NoMsg}]
         /\ started' \in Seq(Msgs \X Consumers) /\ since' \in 0 .. Len(started')
<1>1. CASE HasWork /\ ProcessNext(w)
  <2>1. PickConsumer \in Consumers /\ Head(buffer) \in Msgs
    BY <1>1, Picked
  <2>2. buffer \in Seq(Msgs) /\ buffer # <<>> /\ started \in Seq(Msgs \X Consumers)
        /\ Len(buffer) <= Capacity /\ Capacity \in Nat
    BY <1>1, CapacityAssumption DEF Typed, TypeOK, HasWork
  <2>3. buffer' \in Seq(Msgs) /\ Len(buffer') <= Capacity
    BY <1>1, <2>2 DEF ProcessNext
  <2>4. started' \in Seq(Msgs \X Consumers) /\ Len(started') = Len(started) + 1
    BY <1>1, <2>1, <2>2 DEF ProcessNext
  <2> QED BY <1>1, <2>1, <2>3, <2>4 DEF ProcessNext, Typed, TypeOK
<1>2. CASE Leave(w, l)
  BY <1>2 DEF Leave, Typed, TypeOK
<1> QED BY <1>1, <1>2

LEMMA TypedStep == Typed /\ [Next]_vars => Typed'
<1> SUFFICES ASSUME Typed, [Next]_vars PROVE Typed'
  OBVIOUS
<1>1. TypeOK /\ \A i, j \in DOMAIN consumers : consumers[i] = consumers[j] => i = j
  BY DEF Typed
<1>2. ASSUME NEW m \in Msgs, Send(m) PROVE Typed'
  <2>1. CASE closed \/ ~HasRoom
    BY <1>1, <1>2, <2>1 DEF Send, Typed, TypeOK
  <2>2. CASE ~(closed \/ ~HasRoom)
    <3>1. buffer' = Append(buffer, m) /\ accepted' = Append(accepted, m) /\ pumpScheduled' = TRUE
      BY <1>2, <2>2 DEF Send
    <3>2. buffer' \in Seq(Msgs) /\ Len(buffer') <= Capacity /\ accepted' \in Seq(Msgs)
      BY <1>1, <2>2, <3>1, CapacityAssumption DEF HasRoom, TypeOK
    <3> QED BY <1>1, <1>2, <3>1, <3>2 DEF Send, Typed, TypeOK
  <2> QED BY <2>1, <2>2
<1>3. ASSUME NEW c \in Consumers, Subscribe(c) PROVE Typed'
  <2>1. consumers' \in Seq(Consumers)
    BY <1>1, <1>3 DEF Subscribe, TypeOK
  <2>2. \A i, j \in DOMAIN consumers' : consumers'[i] = consumers'[j] => i = j
    BY <1>1, <1>3 DEF Subscribe, Subscribed, TypeOK
  <2> QED BY <1>1, <1>3, <2>1, <2>2 DEF Subscribe, Typed, TypeOK
<1>4. ASSUME NEW c \in Consumers, Unsubscribe(c) PROVE Typed'
  <2>1. PICK k \in DOMAIN consumers : consumers' = RemoveAt(consumers, k)
    BY <1>4 DEF Unsubscribe
  <2>2. consumers \in Seq(Consumers) /\ Len(consumers) \in Nat
        /\ DOMAIN consumers = 1 .. Len(consumers)
    BY <1>1 DEF TypeOK
  <2>3. /\ consumers' \in Seq(Consumers) /\ Len(consumers') = Len(consumers) - 1
        /\ \A j \in 1 .. Len(consumers) - 1 :
             consumers'[j] = IF j < k THEN consumers[j] ELSE consumers[j + 1]
    BY <2>1, <2>2, RemoveAtFacts
  <2>4. \A i, j \in DOMAIN consumers' : consumers'[i] = consumers'[j] => i = j
    <3> SUFFICES ASSUME NEW i \in 1 .. Len(consumers) - 1, NEW j \in 1 .. Len(consumers) - 1,
                        consumers'[i] = consumers'[j]
                 PROVE  i = j
      BY <2>2, <2>3
    <3> DEFINE old(n) == IF n < k THEN n ELSE n + 1
    <3>1. old(i) \in DOMAIN consumers /\ old(j) \in DOMAIN consumers
      BY <2>2
    <3>2. consumers'[i] = consumers[old(i)] /\ consumers'[j] = consumers[old(j)]
      BY <2>3
    <3>3. old(i) = old(j)
      BY <1>1, <3>1, <3>2
    <3> QED BY <2>2, <3>3
  <2> QED BY <1>1, <1>4, <2>3, <2>4 DEF Unsubscribe, Typed, TypeOK
<1>5. CASE PumpTick
  BY <1>1, <1>5, LoopTypes DEF PumpTick, PumpLoop, Workers, Typed, TypeOK
<1>6. CASE PumpHandled
  BY <1>1, <1>6 DEF PumpHandled, Workers, Typed, TypeOK
<1>7. CASE PumpYielded
  BY <1>1, <1>7, LoopTypes DEF PumpYielded, PumpLoop, Workers, Typed, TypeOK
<1>8. ASSUME NEW w \in Closers, Close(w) PROVE Typed'
  BY <1>1, <1>8, LoopTypes DEF Close, CloseLoop, Workers, Typed, TypeOK
<1>9. ASSUME NEW w \in Closers, CloseHandled(w) PROVE Typed'
  BY <1>1, <1>9, LoopTypes DEF CloseHandled, CloseLoop, Workers, Typed, TypeOK
<1>10. CASE UNCHANGED vars
  BY <1>1, <1>10 DEF vars, Typed, TypeOK
<1> QED
  BY <1>2, <1>3, <1>4, <1>5, <1>6, <1>7, <1>8, <1>9, <1>10
     DEF Next, Environment, PumpStep, Handled

LEMMA PumpInvStep == Typed /\ PumpInv /\ [Next]_vars => PumpInv'
<1> SUFFICES ASSUME Typed, PumpInv, [Next]_vars PROVE PumpInv'
  OBVIOUS
<1>1. /\ Pump \notin Closers /\ Pump \in Workers
      /\ at \in [Workers -> {"idle", "handling", "yield", "closed"}]
      /\ handling \in [Workers -> Msgs \cup {NoMsg}]
  BY WorkersAssumption DEF Workers, Typed, TypeOK
<1>2. ASSUME NEW m \in Msgs, Send(m) PROVE PumpInv'
  BY <1>2 DEF Send, PumpInv
<1>3. ASSUME NEW c \in Consumers, Subscribe(c) \/ Unsubscribe(c) PROVE PumpInv'
  BY <1>3 DEF Subscribe, Unsubscribe, PumpInv
<1>4. ASSUME PumpLoop, at[Pump] # "handling" PROVE PumpInv'
  BY <1>1, <1>4 DEF PumpLoop, ProcessNext, Leave, PumpInv
<1>5. CASE PumpTick
  BY <1>4, <1>5 DEF PumpTick, PumpInv
<1>6. CASE PumpHandled
  BY <1>1, <1>6 DEF PumpHandled, PumpInv
<1>7. CASE PumpYielded
  BY <1>4, <1>7 DEF PumpYielded
<1>8. ASSUME NEW w \in Closers, Close(w) \/ CloseHandled(w) PROVE PumpInv'
  <2>1. w # Pump
    BY <1>1
  <2> QED BY <1>1, <1>8, <2>1 DEF Close, CloseHandled, CloseLoop, ProcessNext, Leave, PumpInv
<1>9. CASE UNCHANGED vars
  BY <1>9 DEF vars, PumpInv
<1> QED BY <1>2, <1>3, <1>5, <1>6, <1>7, <1>8, <1>9 DEF Next, Environment, PumpStep, Handled

LEMMA TypedInvariant == Spec => [](Typed /\ PumpInv)
<1>1. ASSUME Init PROVE Typed /\ PumpInv
  <2>1. /\ buffer = <<>> /\ consumers = <<>> /\ accepted = <<>> /\ started = <<>>
        /\ Pump \in Workers
    BY <1>1 DEF Init, Workers
  <2>2. /\ buffer \in Seq(Msgs) /\ consumers \in Seq(Consumers) /\ accepted \in Seq(Msgs)
        /\ started \in Seq(Msgs \X Consumers)
        /\ Len(buffer) = 0 /\ Len(started) = 0 /\ DOMAIN consumers = {}
    BY <2>1
  <2>4. /\ at \in [Workers -> {"idle", "handling", "yield", "closed"}]
        /\ handling \in [Workers -> Msgs \cup {NoMsg}]
        /\ since \in 0 .. Len(started) /\ rrCursor \in Nat /\ Len(buffer) <= Capacity
    BY <1>1, <2>2, CapacityAssumption DEF Init
  <2>5. /\ pumpScheduled \in BOOLEAN /\ pumping \in BOOLEAN /\ closed \in BOOLEAN
        /\ offered \subseteq Msgs /\ gone \subseteq Consumers
    BY <1>1 DEF Init
  <2>3. Typed
    BY <2>2, <2>4, <2>5 DEF Typed, TypeOK
  <2> QED BY <1>1, <2>1, <2>3 DEF Init, PumpInv
<1> QED BY <1>1, TypedStep, PumpInvStep, PTL DEF Spec

\* Every variable keeps its type, and never more messages wait than the capacity allows.
THEOREM QueueTypeCorrect == Spec => []TypeOK
<1>1. Typed => TypeOK
  BY DEF Typed
<1> QED BY <1>1, TypedInvariant, PTL

-----------------------------------------------------------------------------
(* The pump. *)

\* The pump starts a message only while the channel is open and only after the handler of the one
\* before has settled, and a closed channel accepts nothing (schedulePump, pump, send).
THEOREM PumpOneAtATime == Spec => PumpTakesItsTurn
<1> DEFINE Turn == /\ closed => accepted' = accepted
                   /\ \/ handling'[Pump] \in {handling[Pump], NoMsg}
                      \/ handling[Pump] = NoMsg /\ ~closed
<1>1. ASSUME Typed, PumpInv, [Next]_vars PROVE [Turn]_vars
  <2>1. /\ Pump \notin Closers /\ Pump \in Workers
        /\ handling \in [Workers -> Msgs \cup {NoMsg}]
    BY <1>1, WorkersAssumption DEF Workers, Typed, TypeOK
  <2>2. ASSUME NEW m \in Msgs, Send(m) PROVE Turn
    BY <2>2 DEF Send
  <2>3. ASSUME NEW c \in Consumers, Subscribe(c) \/ Unsubscribe(c) PROVE Turn
    BY <2>3 DEF Subscribe, Unsubscribe
  <2>4. ASSUME PumpLoop, at[Pump] # "handling", accepted' = accepted PROVE Turn
    BY <1>1, <2>1, <2>4 DEF PumpLoop, ProcessNext, Leave, PumpInv
  <2>5. CASE PumpTick
    BY <1>1, <2>4, <2>5 DEF PumpTick, PumpInv
  <2>6. CASE PumpHandled
    BY <2>1, <2>6 DEF PumpHandled
  <2>7. CASE PumpYielded
    BY <2>4, <2>7 DEF PumpYielded
  <2>8. ASSUME NEW w \in Closers, Close(w) \/ CloseHandled(w) PROVE Turn
    <3>1. w # Pump
      BY <2>1
    <3> QED BY <2>1, <2>8, <3>1 DEF Close, CloseHandled, CloseLoop, ProcessNext, Leave
  <2> QED
    BY <1>1, <2>2, <2>3, <2>5, <2>6, <2>7, <2>8 DEF Next, Environment, PumpStep, Handled
<1> QED BY <1>1, TypedInvariant, PTL DEF Spec, PumpTakesItsTurn

\* Until the channel is closed, a message and a consumer never meet without a pump that is scheduled
\* or running (schedulePump, the guard and the loop of pump).
THEOREM NoLostWakeUp == Spec => []WorkIsAwaited
<1>1. Init => WorkIsAwaited
  BY DEF Init, WorkIsAwaited, HasWork
<1>2. ASSUME Typed, WorkIsAwaited, [Next]_vars PROVE WorkIsAwaited'
  <2>1. ASSUME NEW m \in Msgs, Send(m) PROVE WorkIsAwaited'
    BY <1>2, <2>1 DEF Send, WorkIsAwaited, HasWork
  <2>2. ASSUME NEW c \in Consumers, Subscribe(c) PROVE WorkIsAwaited'
    BY <2>2 DEF Subscribe, WorkIsAwaited
  <2>3. ASSUME NEW c \in Consumers, Unsubscribe(c) PROVE WorkIsAwaited'
    <3>1. consumers # <<>>
      BY <2>3, <1>2 DEF Unsubscribe, Typed, TypeOK
    <3> QED BY <1>2, <2>3, <3>1 DEF Unsubscribe, WorkIsAwaited, HasWork
  <2>4. ASSUME PumpLoop, UNCHANGED <<consumers, closed>> PROVE WorkIsAwaited'
    BY <2>4 DEF PumpLoop, ProcessNext, Leave, WorkIsAwaited, HasWork
  <2>5. CASE PumpTick
    BY <1>2, <2>4, <2>5 DEF PumpTick, WorkIsAwaited, HasWork
  <2>6. CASE PumpHandled
    BY <1>2, <2>6 DEF PumpHandled, WorkIsAwaited, HasWork
  <2>7. CASE PumpYielded
    BY <2>4, <2>7 DEF PumpYielded
  <2>8. ASSUME NEW w \in Closers, Close(w) \/ CloseHandled(w) PROVE WorkIsAwaited'
    BY <1>2, <2>8
       DEF Close, CloseHandled, CloseLoop, ProcessNext, Leave, WorkIsAwaited, HasWork
  <2>9. CASE UNCHANGED vars
    BY <1>2, <2>9 DEF vars, WorkIsAwaited, HasWork
  <2> QED
    BY <1>2, <2>1, <2>2, <2>3, <2>5, <2>6, <2>7, <2>8, <2>9
       DEF Next, Environment, PumpStep, Handled
<1> QED BY <1>1, <1>2, TypedInvariant, PTL DEF Spec

-----------------------------------------------------------------------------
(* What is accepted and what is handed out. *)

\* The first parts of a sequence of pairs.
Firsts(s) == [i \in DOMAIN s |-> s[i][1]]

\* The first parts of a sequence of pairs are a sequence.
LEMMA FirstParts ==
  ASSUME NEW A, NEW P, \A p \in P : p[1] \in A, NEW s \in Seq(P)
  PROVE  Firsts(s) \in Seq(A) /\ Len(Firsts(s)) = Len(s)
<1> DEFINE f == [i \in 1 .. Len(s) |-> s[i][1]]
<1>1. Len(s) \in Nat /\ DOMAIN s = 1 .. Len(s) /\ \A i \in 1 .. Len(s) : s[i] \in P
  BY LenProperties, ElementOfSeq
<1>2. \A i \in 1 .. Len(s) : s[i][1] \in A
  BY <1>1
<1>3. f \in [1 .. Len(s) -> A]
  BY <1>2
<1>4. f \in Seq(A) /\ Len(f) = Len(s)
  BY <1>1, <1>3
<1>5. Firsts(s) = f
  BY <1>1 DEF Firsts
<1> QED BY <1>4, <1>5

\* What is appended comes last.
LEMMA LastPlace ==
  ASSUME NEW S, NEW s \in Seq(S), NEW e \in S, NEW t, t = Append(s, e)
  PROVE  /\ t \in Seq(S) /\ Len(t) = Len(s) + 1 /\ Len(s) \in Nat
         /\ \A i \in 1 .. Len(s) : t[i] = s[i]
         /\ t[Len(s) + 1] = e
         /\ DOMAIN s = 1 .. Len(s) /\ DOMAIN t = 1 .. Len(s) + 1
  BY AppendProperties, LenProperties

\* The first part of a further pair comes last.
LEMMA FirstPartsGrow ==
  ASSUME NEW A, NEW P, \A p \in P : p[1] \in A,
         NEW s \in Seq(P), NEW e \in P, NEW t, t = Append(s, e)
  PROVE  Firsts(t) = Append(Firsts(s), e[1])
<1> DEFINE f == Firsts(s)
           g == Firsts(t)
           h == Append(f, e[1])
<1>1. /\ t \in Seq(P) /\ Len(t) = Len(s) + 1 /\ Len(s) \in Nat
      /\ \A i \in 1 .. Len(s) : t[i] = s[i]
      /\ t[Len(s) + 1] = e
      /\ DOMAIN s = 1 .. Len(s) /\ DOMAIN t = 1 .. Len(s) + 1
  BY LastPlace
<1>2. f \in Seq(A) /\ Len(f) = Len(s) /\ g \in Seq(A) /\ Len(g) = Len(s) + 1 /\ e[1] \in A
  BY <1>1, FirstParts
<1>3. (\A i \in 1 .. Len(s) + 1 : g[i] = t[i][1]) /\ (\A i \in 1 .. Len(s) : f[i] = s[i][1])
  BY <1>1 DEF Firsts
<1> HIDE DEF f, g
<1>4. /\ h \in Seq(A) /\ Len(h) = Len(s) + 1
      /\ (\A i \in 1 .. Len(s) : h[i] = f[i]) /\ h[Len(s) + 1] = e[1]
  BY <1>2, AppendProperties
<1> HIDE DEF h
<1>5. \A i \in 1 .. Len(s) + 1 : g[i] = h[i]
  <2> SUFFICES ASSUME NEW i \in 1 .. Len(s) + 1 PROVE g[i] = h[i]
    OBVIOUS
  <2>1. g[i] = t[i][1]
    BY <1>3
  <2>2. CASE i = Len(s) + 1
    BY ONLY <2>1, <2>2, <1>1, <1>4
  <2>3. CASE i \in 1 .. Len(s)
    <3>1. t[i] = s[i] /\ f[i] = s[i][1] /\ h[i] = f[i]
      BY <2>3, <1>1, <1>3, <1>4
    <3> QED BY ONLY <2>1, <3>1
  <2> QED BY <2>2, <2>3, <1>1
<1>6. g = h
  BY <1>2, <1>4, <1>5, SeqEqual
<1> QED BY <1>6 DEF f, g, h

\* The loops hand out the head of the buffer.
LEMMA LoopKeepsOrder ==
  ASSUME Typed, NothingLostOrTwice, accepted' = accepted,
         \/ \E w \in Workers : HasWork /\ ProcessNext(w)
         \/ UNCHANGED <<buffer, started>>
  PROVE  NothingLostOrTwice'
<1>1. CASE \E w \in Workers : HasWork /\ ProcessNext(w)
  <2>1. /\ buffer' = Tail(buffer) /\ started' = Append(started, <<Head(buffer), PickConsumer>>)
        /\ buffer \in Seq(Msgs) /\ buffer # <<>>
        /\ started \in Seq(Msgs \X Consumers) /\ Len(started) \in Nat
        /\ DOMAIN started = 1 .. Len(started)
        /\ Head(buffer) \in Msgs /\ PickConsumer \in Consumers
    BY <1>1, Picked DEF Typed, TypeOK, HasWork, ProcessNext
  <2>2. HandedOut \in Seq(Msgs) /\ Len(HandedOut) = Len(started)
    BY <2>1, FirstParts DEF HandedOut, Firsts
  <2>3. HandedOut' = Append(HandedOut, Head(buffer))
    <3>1. HandedOut' = Firsts(started') /\ HandedOut = Firsts(started)
      BY DEF HandedOut, Firsts
    <3> DEFINE e == <<Head(buffer), PickConsumer>>
               P == Msgs \X Consumers
    <3>2. /\ e \in P /\ e[1] = Head(buffer) /\ \A p \in P : p[1] \in Msgs
          /\ started \in Seq(P) /\ started' = Append(started, e)
      BY <2>1
    <3> HIDE DEF e, P
    <3>3. Firsts(started') = Append(Firsts(started), e[1])
      BY ONLY <3>2, FirstPartsGrow
    <3> QED BY <3>1, <3>2, <3>3
  <2>4. HandedOut \in Seq(Msgs) /\ buffer \in Seq(Msgs) /\ buffer # <<>>
    BY <2>1, <2>2
  <2>5. Append(HandedOut, Head(buffer)) \o Tail(buffer) = HandedOut \o buffer
    BY ONLY <2>4, MoveHead
  <2>6. accepted = HandedOut \o buffer /\ accepted' = accepted
    BY DEF NothingLostOrTwice
  <2>7. HandedOut' \o buffer' = HandedOut \o buffer
    BY <2>1, <2>3, <2>5
  <2> QED BY <2>6, <2>7 DEF NothingLostOrTwice
<1>2. CASE UNCHANGED <<buffer, started>>
  BY <1>2 DEF NothingLostOrTwice, HandedOut
<1> QED BY <1>1, <1>2

LEMMA OrderStep == Typed /\ NothingLostOrTwice /\ [Next]_vars => NothingLostOrTwice'
<1> SUFFICES ASSUME Typed, NothingLostOrTwice, [Next]_vars PROVE NothingLostOrTwice'
  OBVIOUS
<1>1. ASSUME NEW m \in Msgs, Send(m) PROVE NothingLostOrTwice'
  <2>1. CASE closed \/ ~HasRoom
    BY <1>1, <2>1 DEF Send, NothingLostOrTwice, HandedOut
  <2>2. CASE ~(closed \/ ~HasRoom)
    <3>1. /\ buffer' = Append(buffer, m) /\ accepted' = Append(accepted, m) /\ started' = started
          /\ buffer \in Seq(Msgs) /\ started \in Seq(Msgs \X Consumers)
      BY <1>1, <2>2 DEF Send, Typed, TypeOK
    <3>2. HandedOut \in Seq(Msgs) /\ HandedOut' = HandedOut
      BY <3>1, FirstParts DEF HandedOut, Firsts
    <3>3. accepted = HandedOut \o buffer
      BY DEF NothingLostOrTwice
    <3> HIDE DEF HandedOut
    <3>4. accepted' = HandedOut \o Append(buffer, m)
      <4>1. HandedOut \o Append(buffer, m) = Append(HandedOut \o buffer, m)
        <5>1. HandedOut \in Seq(Msgs) /\ buffer \in Seq(Msgs)
          BY <3>1, <3>2
        <5> QED BY ONLY <5>1, m \in Msgs, AppendSecond
      <4> QED BY <3>1, <3>3, <4>1
    <3> QED BY <3>1, <3>2, <3>4 DEF NothingLostOrTwice
  <2> QED BY <2>1, <2>2
<1>2. ASSUME NEW c \in Consumers, Subscribe(c) \/ Unsubscribe(c) PROVE NothingLostOrTwice'
  BY <1>2 DEF Subscribe, Unsubscribe, NothingLostOrTwice, HandedOut
<1>3. CASE PumpTick \/ PumpYielded
  BY <1>3, LoopKeepsOrder DEF PumpTick, PumpYielded, PumpLoop, Leave, Workers
<1>4. CASE PumpHandled
  BY <1>4 DEF PumpHandled, NothingLostOrTwice, HandedOut
<1>5. ASSUME NEW w \in Closers, Close(w) \/ CloseHandled(w) PROVE NothingLostOrTwice'
  BY <1>5, LoopKeepsOrder DEF Close, CloseHandled, CloseLoop, Leave, Workers
<1>6. CASE UNCHANGED vars
  BY <1>6 DEF vars, NothingLostOrTwice, HandedOut
<1> QED BY <1>1, <1>2, <1>3, <1>4, <1>5, <1>6 DEF Next, Environment, PumpStep, Handled

\* Whatever the pump and the drains do, every accepted message is handed out once, in order, or is
\* still in the buffer (send, processNext).
THEOREM AcceptedIsHandedOut == Spec => []NothingLostOrTwice
<1>1. ASSUME Init PROVE NothingLostOrTwice
  <2>1. accepted = <<>> /\ buffer = <<>> /\ HandedOut = <<>>
    BY <1>1 DEF Init, HandedOut
  <2> QED BY <2>1 DEF NothingLostOrTwice
<1> QED BY <1>1, OrderStep, TypedInvariant, PTL DEF Spec

-----------------------------------------------------------------------------
(* Turns. *)

\* In the order of their next turns the i-th consumer comes before the j-th: those behind the
\* cursor are served before the round starts again.
Before(i, j) ==
  LET p == rrCursor % Len(consumers)
  IN  (i > p /\ j <= p) \/ (i <= j /\ (i > p <=> j > p))

\* Who is served sooner has had as many turns, or one less.
TurnInv ==
  \A i, j \in DOMAIN consumers :
    Before(i, j) =>
      /\ Turns(consumers[i]) <= Turns(consumers[j])
      /\ Turns(consumers[j]) <= Turns(consumers[i]) + 1

\* The handlers of the stretch are finitely many.
LEMMA TurnsType ==
  ASSUME Typed, NEW c
  PROVE  /\ Turns(c) \in Nat
         /\ IsFiniteSet({i \in since + 1 .. Len(started) : started[i][2] = c})
<1>1. since + 1 \in Int /\ Len(started) \in Int
  BY DEF Typed, TypeOK
<1>2. IsFiniteSet(since + 1 .. Len(started))
  BY <1>1, FS_Interval
<1>3. IsFiniteSet({i \in since + 1 .. Len(started) : started[i][2] = c})
  BY <1>2, FS_Subset
<1> QED BY <1>3, FS_CardinalityType DEF Turns

\* One more turn for the consumer that is served.
LEMMA TurnsServed ==
  ASSUME Typed, HasWork, NEW w \in Workers, ProcessNext(w), since' = since, NEW c
  PROVE  Turns(c)' = IF c = PickConsumer THEN Turns(c) + 1 ELSE Turns(c)
<1> DEFINE T == {i \in since + 1 .. Len(started) : started[i][2] = c}
           n == Len(started) + 1
<1>1. /\ started' = Append(started, <<Head(buffer), PickConsumer>>)
      /\ started \in Seq(Msgs \X Consumers) /\ Len(started) \in Nat
      /\ since \in Nat /\ since <= Len(started)
  BY DEF ProcessNext, Typed, TypeOK
<1>2. /\ Len(started') = n
      /\ \A i \in 1 .. Len(started) : started'[i] = started[i]
      /\ started'[n][2] = PickConsumer
  BY <1>1
<1>3. T' = IF c = PickConsumer THEN T \cup {n} ELSE T
  BY <1>1, <1>2
<1>4. n \notin T
  BY <1>1
<1>5. IsFiniteSet(T)
  BY TurnsType
<1>6. Turns(c)' = Cardinality(T') /\ Turns(c) = Cardinality(T)
  BY DEF Turns
<1>7. Cardinality(T \cup {n}) = Cardinality(T) + 1
  BY <1>4, <1>5, FS_AddElement
<1> HIDE DEF T
<1> QED BY <1>3, <1>6, <1>7

\* Serving one consumer moves it behind all others and gives it the turn it was short of.
LEMMA LoopKeepsTurns ==
  ASSUME Typed, TurnInv, UNCHANGED <<consumers, since>>,
         \/ \E w \in Workers : HasWork /\ ProcessNext(w)
         \/ UNCHANGED <<started, rrCursor>>
  PROVE  TurnInv'
<1>1. CASE \E w \in Workers : HasWork /\ ProcessNext(w)
  <2> DEFINE n == Len(consumers)
             p == rrCursor % n
             T(i) == Turns(consumers[i])
             U(i) == Turns(consumers[i])'
  <2>1. /\ n \in Nat /\ n > 0 /\ p \in 0 .. n - 1 /\ p + 1 \in DOMAIN consumers
        /\ DOMAIN consumers = 1 .. n
    BY <1>1, Picked
  <2>2. rrCursor \in Nat /\ rrCursor' = rrCursor + 1 /\ rrCursor' % n = IF p = n - 1 THEN 0 ELSE p + 1
    BY <1>1, <2>1, NextTurn DEF ProcessNext, Typed, TypeOK
  <2>3. ASSUME NEW i \in 1 .. n PROVE T(i) \in Nat /\ U(i) = IF i = p + 1 THEN T(i) + 1 ELSE T(i)
    <3>1. consumers[i] = PickConsumer <=> i = p + 1
      BY <2>1 DEF Typed, PickConsumer
    <3>2. Turns(consumers[i]) \in Nat
      BY TurnsType
    <3>3. \A c : Turns(c)' = IF c = PickConsumer THEN Turns(c) + 1 ELSE Turns(c)
      BY <1>1, TurnsServed
    <3> QED BY <3>1, <3>2, <3>3
  <2>4. \A i, j \in 1 .. n : Before(i, j) => T(i) <= T(j) /\ T(j) <= T(i) + 1
    BY <2>1 DEF TurnInv
  <2>5. \A i, j \in 1 .. n : Before(i, j) <=> (i > p /\ j <= p) \/ (i <= j /\ (i > p <=> j > p))
    BY DEF Before
  <2>6. \A i, j \in 1 .. n :
          Before(i, j)' <=> LET q == IF p = n - 1 THEN 0 ELSE p + 1
                            IN  (i > q /\ j <= q) \/ (i <= j /\ (i > q <=> j > q))
    BY <2>2 DEF Before
  <2>7. ASSUME NEW i \in 1 .. n, NEW j \in 1 .. n, Before(i, j)'
        PROVE  U(i) <= U(j) /\ U(j) <= U(i) + 1
    <3>1. /\ T(i) \in Nat /\ U(i) = IF i = p + 1 THEN T(i) + 1 ELSE T(i)
          /\ T(j) \in Nat /\ U(j) = IF j = p + 1 THEN T(j) + 1 ELSE T(j)
      BY <2>3
    <3> HIDE DEF T, U
    <3>2. CASE i = p + 1
      <4>1. j = i
        BY <2>1, <2>6, <2>7, <3>2
      <4> QED BY <3>1, <4>1
    <3>3. CASE i # p + 1 /\ j = p + 1
      <4>1. Before(j, i)
        BY <2>1, <2>5, <3>3
      <4> QED BY <2>4, <3>1, <3>3, <4>1
    <3>4. CASE i # p + 1 /\ j # p + 1
      <4>1. Before(i, j)
        BY <2>1, <2>5, <2>6, <2>7, <3>4
      <4> QED BY <2>4, <3>1, <3>4, <4>1
    <3> QED BY <3>2, <3>3, <3>4
  <2> QED BY <2>1, <2>7 DEF TurnInv
<1>2. CASE UNCHANGED <<started, rrCursor>>
  <2>1. \A d : Turns(d)' = Turns(d)
    BY <1>2 DEF Turns
  <2>2. \A i, j : Before(i, j)' = Before(i, j)
    BY <1>2 DEF Before
  <2> QED BY <2>1, <2>2 DEF TurnInv
<1> QED BY <1>1, <1>2

LEMMA TurnsStep == Typed /\ TurnInv /\ [Next]_vars => TurnInv'
<1> SUFFICES ASSUME Typed, TurnInv, [Next]_vars PROVE TurnInv'
  OBVIOUS
<1>1. CASE UNCHANGED <<consumers, since, started, rrCursor>>
  BY <1>1, LoopKeepsTurns
<1>2. ASSUME NEW c \in Consumers, Subscribe(c) \/ Unsubscribe(c) PROVE TurnInv'
  <2>1. since' = Len(started') /\ Len(started') \in Nat
    BY <1>2 DEF Subscribe, Unsubscribe, Typed, TypeOK
  <2>2. \A d : Turns(d)' = 0
    <3> SUFFICES ASSUME NEW d PROVE Turns(d)' = 0
      OBVIOUS
    <3>1. {i \in since' + 1 .. Len(started') : started'[i][2] = d} = {}
      BY <2>1
    <3> QED BY <3>1, FS_EmptySet DEF Turns
  <2> QED BY <2>2 DEF TurnInv
<1>3. CASE PumpTick \/ PumpYielded
  <2>1. consumers' = consumers /\ since' = since
    BY <1>3 DEF PumpTick, PumpYielded
  <2>2. \/ HasWork /\ ProcessNext(Pump)
        \/ UNCHANGED <<started, rrCursor>>
    BY <1>3 DEF PumpTick, PumpYielded, PumpLoop, Leave
  <2> QED BY <2>1, <2>2, LoopKeepsTurns DEF Workers
<1>4. ASSUME NEW w \in Closers, Close(w) \/ CloseHandled(w) PROVE TurnInv'
  <2>1. consumers' = consumers /\ since' = since
    BY <1>4 DEF Close, CloseHandled
  <2>2. \/ HasWork /\ ProcessNext(w)
        \/ UNCHANGED <<started, rrCursor>>
    BY <1>4 DEF Close, CloseHandled, CloseLoop, Leave
  <2> QED BY <2>1, <2>2, LoopKeepsTurns DEF Workers
<1> QED
  BY <1>1, <1>2, <1>3, <1>4
     DEF Next, Environment, PumpStep, Handled, Send, PumpHandled, vars

\* Between two changes of the consumers no consumer gets two messages more than another
\* (pickConsumer and the cursor it advances).
THEOREM TurnsDifferByOne == Spec => []TurnsAreFair
<1>1. Init => TurnInv
  BY DEF Init, TurnInv
<1>2. ASSUME Typed, TurnInv PROVE TurnsAreFair
  <2> SUFFICES ASSUME NEW i \in DOMAIN consumers, NEW j \in DOMAIN consumers
               PROVE  Turns(consumers[i]) - Turns(consumers[j]) \in -1 .. 1
    BY DEF TurnsAreFair
  <2>1. Turns(consumers[i]) \in Nat /\ Turns(consumers[j]) \in Nat
    BY <1>2, TurnsType
  <2>2. Before(i, j) \/ Before(j, i)
    <3>1. /\ i \in Nat /\ j \in Nat /\ Len(consumers) \in Nat /\ Len(consumers) > 0
          /\ rrCursor \in Nat
      BY <1>2 DEF Typed, TypeOK
    <3>2. rrCursor % Len(consumers) \in Nat
      BY <3>1, NextTurn
    <3> QED BY <3>1, <3>2 DEF Before
  <2> QED BY <1>2, <2>1, <2>2 DEF TurnInv
<1> QED BY <1>1, <1>2, TurnsStep, TypedInvariant, PTL DEF Spec
=============================================================================
