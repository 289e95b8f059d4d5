------------------------ MODULE InboundGate_proofs -------------------------
(***************************************************************************)
(* Theorems about InboundGate for any requests, tenants and endpoints, any *)
(* marks and verdicts, and any number of TTLs.                             *)
(*                                                                         *)
(* The invariant says whose the entry of a key is: a request between its   *)
(* claim and its settlement, and a request whose flow does the work, owns  *)
(* the live entry of its key until the TTL has passed over it.             *)
(***************************************************************************)
EXTENDS InboundGate, TLAPS

Modes == {"keep", "marker", "static", "classifier"}

\* What the plan of an endpoint that is not refused always says.
PolicyOK ==
  /\ policy.onFailure \in Modes
  /\ ~policy.claims => policy.forward \in {"raw", "none"}

\* An endpoint without a claim has options of its own only when it is disabled.
LEMMA PlanFacts ==
  ASSUME NEW spec, NEW module, ~Refused(spec, module),
         Get(Merged(spec, module).options, "forward", "none") \in {"raw", "resolved", "none"}
  PROVE  /\ Plan(spec, module).onFailure \in Modes
         /\ ~Plan(spec, module).claims => Plan(spec, module).forward \in {"raw", "none"}
<1> DEFINE merged == Merged(spec, module)
           o == merged.options
           plan == Plan(spec, module)
<1>1. plan.onFailure = FailureMode(o) /\ plan.forward = Forward(spec, module)
      /\ (plan.claims <=> merged.enabled /\ StoreOf(spec, module) # {})
  BY DEF Plan
<1>2. FailureMode(o) \in Modes
  BY DEF FailureMode, Modes
<1>3. ASSUME ~merged.enabled PROVE Forward(spec, module) \in {"raw", "none"}
  BY <1>3 DEF Forward, Get
<1>4. ASSUME merged.enabled, StoreOf(spec, module) = {} PROVE Forward(spec, module) \in {"raw", "none"}
  <2>1. ~merged.explicit
    BY <1>4 DEF Refused
  <2>2. o = Over(Empty, Empty)
    BY <2>1 DEF Merged, Layer, Get
  <2>3. "forward" \notin DOMAIN o
    BY <2>2 DEF Over, Empty
  <2> QED BY <1>4, <2>3 DEF Forward, Get
<1> QED BY <1>1, <1>2, <1>3, <1>4

LEMMA InitPolicy == Init => PolicyOK
<1> SUFFICES ASSUME Init PROVE PolicyOK
  OBVIOUS
<1>1. PICK e \in Endpoints :
        ~Refused(e.spec, e.module) /\ policy = Over([reliable |-> e.reliable], Plan(e.spec, e.module))
  BY DEF Init
<1> DEFINE plan == Plan(e.spec, e.module)
<1>2. /\ policy.onFailure = plan.onFailure /\ policy.forward = plan.forward
      /\ policy.claims = plan.claims
  BY <1>1 DEF Plan, Over, Get
<1>3. plan.onFailure \in Modes /\ (~plan.claims => plan.forward \in {"raw", "none"})
  BY <1>1, ForwardAssumption, PlanFacts
<1> QED BY <1>2, <1>3 DEF PolicyOK

-----------------------------------------------------------------------------
(* Types. *)

\* The plan of the endpoint never changes, nor do the keys.
LEMMA PolicyFixed ==
  ASSUME [Next]_vars
  PROVE  policy' = policy /\ Keys' = Keys /\ \A r \in Requests : Key(r)' = Key(r)
BY DEF Next, vars, Keys, Key

LEMMA KeyType == \A r \in Requests : Key(r) \in Keys
BY DEF Key, Keys

Entries == [status : {"absent", "in-flight", "completed", "failed"}, live : BOOLEAN,
            what : {"none", "reply", "failure"}, of : Requests \cup {Nobody},
            owner : Requests \cup {Nobody}]
Errors == [kind : ErrorKinds, mark : Actions \cup {"none"}]
AnswerRecords == [kind : AnswerKinds, of : Requests \cup {Nobody},
              as : {"none", "in-flight", "completed", "failed"}]

\* Has no owner exactly when it is absent.
Sound(e) == e \in Entries /\ (e.status = "absent" <=> e.owner = Nobody)

LEMMA TypeParts ==
  TypeOK <=> /\ pc \in [Requests -> Labels]
             /\ entry \in [Keys -> Entries] /\ \A k \in Keys : Sound(entry[k])
             /\ handed \subseteq Keys
             /\ flow \in [Requests -> {"none", "running", "ok", "bad", "dropped"}]
             /\ error \in [Requests -> Errors]
             /\ answer \in [Requests -> AnswerRecords]
             /\ terms \in [Keys -> 0 .. MaxTerms]
             /\ term \in [Requests -> 0 .. MaxTerms]
             /\ outlived \subseteq Keys
<1>1. TypeOK => \A k \in Keys : Sound(entry[k])
  BY DEF TypeOK, Sound, Entries
<1>2. (\A k \in Keys : Sound(entry[k])) => \A k \in Keys : entry[k].status = "absent" <=> entry[k].owner = Nobody
  BY DEF Sound
<1> QED BY <1>1, <1>2 DEF TypeOK, Entries, Errors, AnswerRecords

\* What the calls of the store leave is an entry.
LEMMA EntryTypes ==
  ASSUME TypeOK, NEW r \in Requests
  PROVE  /\ Sound(Record(r)) /\ Sound(Absent) /\ Sound(Begun(r)) /\ Sound(FailedEntry(r))
         /\ \A what \in {"reply", "failure"} : Sound(CompletedWith(what, r))
<1>1. Sound(Record(r)) /\ Nobody \notin Requests
  BY KeyType, TypeParts, RequestsAssumption DEF Record
<1>2. Sound(Absent) /\ Sound(Begun(r))
  BY <1>1 DEF Sound, Entries, Absent, Begun
<1>3. Sound(FailedEntry(r))
  BY <1>1 DEF FailedEntry, Sound, Entries
<1>4. ASSUME NEW what \in {"reply", "failure"} PROVE Sound(CompletedWith(what, r))
  BY <1>1, <1>4 DEF CompletedWith, Sound, Entries
<1> QED BY <1>1, <1>2, <1>3, <1>4

\* A call of the store, whether it throws or not, leaves entries.
LEMMA StoreTypes ==
  ASSUME TypeOK, NEW r \in Requests, NEW e, Sound(e), Stores(r, e) \/ Throws(r, e)
  PROVE  /\ entry' \in [Keys -> Entries] /\ (\A k \in Keys : Sound(entry'[k]))
         /\ \A k \in Keys : k # Key(r) => entry'[k] = entry[k]
<1>1. Key(r) \in Keys /\ entry \in [Keys -> Entries] /\ \A k \in Keys : Sound(entry[k])
  BY KeyType, TypeParts
<1>2. e \in Entries
  BY DEF Sound
<1> QED BY <1>1, <1>2 DEF Stores, Throws

\* The types without the entries.
Rest ==
  /\ pc \in [Requests -> Labels] /\ handed \subseteq Keys
  /\ flow \in [Requests -> {"none", "running", "ok", "bad", "dropped"}]
  /\ error \in [Requests -> Errors] /\ answer \in [Requests -> AnswerRecords]
  /\ terms \in [Keys -> 0 .. MaxTerms] /\ term \in [Requests -> 0 .. MaxTerms]
  /\ outlived \subseteq Keys

EntriesOK == entry \in [Keys -> Entries] /\ \A k \in Keys : Sound(entry[k])

\* A step of a request leaves sound entries and touches only the entry of its own key.
LEMMA EntriesStep ==
  ASSUME TypeOK, policy' = policy, NEW r \in Requests, Step(r)
  PROVE  /\ entry' \in [Keys -> Entries] /\ (\A k \in Keys : Sound(entry'[k]))
         /\ \A k \in Keys : k # Key(r) => entry'[k] = entry[k]
<1>1. EntriesOK
  BY TypeParts DEF EntriesOK
<1>2. /\ Sound(Record(r)) /\ Sound(Absent) /\ Sound(Begun(r)) /\ Sound(FailedEntry(r))
      /\ Sound(CompletedWith("reply", r)) /\ Sound(CompletedWith("failure", r))
  BY EntryTypes
<1>3. CASE UNCHANGED entry
  BY <1>1, <1>3 DEF EntriesOK
<1>4. CASE \E e \in {Record(r), Absent, Begun(r), FailedEntry(r), CompletedWith("reply", r),
                     CompletedWith("failure", r)} : Stores(r, e) \/ Throws(r, e)
  BY <1>2, <1>4, StoreTypes
<1>5. ASSUME Claim(r) \/ ClaimThrows(r) \/ GetRecord(r)
      PROVE  UNCHANGED entry \/ \E e \in {Record(r), Absent, Begun(r)} : Stores(r, e) \/ Throws(r, e)
  BY <1>5 DEF Claim, ClaimThrows, GetRecord
<1>6. ASSUME Dispatch(r) \/ NotAccepted(r) \/ Answered(r) \/ FlowFails(r) \/ Unanswered(r) \/ Settle(r)
      PROVE  UNCHANGED entry
  BY <1>6 DEF Dispatch, NotAccepted, Answered, FlowFails, Unanswered, Settle, DispatchFails
<1>7. ASSUME Succeed(r) \/ SucceedThrows(r) \/ StoreFailure(r) \/ ReleaseKey(r) \/ SettleThrows(r) \/ Fail(r)
      PROVE  \E e \in {Absent, FailedEntry(r), CompletedWith("reply", r), CompletedWith("failure", r)} :
               Stores(r, e) \/ Throws(r, e)
  BY <1>7 DEF Succeed, SucceedThrows, StoreFailure, ReleaseKey, SettleThrows, Fail
<1> QED BY <1>3, <1>4, <1>5, <1>6, <1>7 DEF Step

\* The answers a step writes.
LEMMA AnswersType ==
  ASSUME TypeOK, NEW r \in Requests, NEW kind \in AnswerKinds, NEW of \in Requests \cup {Nobody},
         NEW as \in {"none", "in-flight", "completed", "failed"}, Answers(r, kind, of, as)
  PROVE  pc' \in [Requests -> Labels] /\ answer' \in [Requests -> AnswerRecords]
<1>1. [kind |-> kind, of |-> of, as |-> as] \in AnswerRecords
  BY DEF AnswerRecords
<1> QED BY <1>1, TypeParts DEF Answers, Goto, Labels

LEMMA RestStep ==
  ASSUME TypeOK, policy' = policy, Keys' = Keys, NEW r \in Requests, Step(r)
  PROVE  Rest'
<1>1. Rest /\ Key(r) \in Keys /\ EntriesOK
  BY TypeParts, KeyType DEF Rest, EntriesOK
<1>2. CASE Claim(r)
  BY <1>1, <1>2 DEF Claim, Goto, Labels, Rest
<1>3. CASE ClaimThrows(r)
  <2>1. pc' \in [Requests -> Labels] /\ answer' \in [Requests -> AnswerRecords]
    BY <1>3, AnswersType DEF ClaimThrows, AnswerKinds
  <2> QED BY <1>1, <1>3, <2>1 DEF ClaimThrows, Rest
<1>4. CASE GetRecord(r)
  <2>1. Record(r).of \in Requests \cup {Nobody}
    BY <1>1 DEF EntriesOK, Entries, Record
  <2>2. Repeat(r)
    BY <1>4 DEF GetRecord
  <2>3. PICK kind \in {"storedFailure", "replayed", "duplicate", "rejected"},
             of \in {Record(r).of, Nobody}, as \in {"none", "in-flight", "completed", "failed"} :
          Answers(r, kind, of, as)
    BY <2>2 DEF Repeat
  <2>4. kind \in AnswerKinds /\ of \in Requests \cup {Nobody}
    BY <2>1 DEF AnswerKinds
  <2>5. pc' \in [Requests -> Labels] /\ answer' \in [Requests -> AnswerRecords]
    BY <2>3, <2>4, AnswersType
  <2> QED BY <1>1, <1>4, <2>5 DEF GetRecord, Rest
<1>5. CASE Dispatch(r)
  <2>1. Forwarded(policy, "client", Key(r)) \subseteq Keys
    BY <1>1 DEF Forwarded, Keys
  <2> QED BY <1>1, <1>5, <2>1 DEF Dispatch, Goto, Labels, Rest
<1>6. ASSUME NEW kind \in {"business", "unanswered"}, NEW mark \in Actions \cup {"none"},
             DispatchFails(r, kind, mark), UNCHANGED flow
      PROVE  Rest'
  <2>1. [kind |-> kind, mark |-> mark] \in Errors
    BY DEF Errors, ErrorKinds
  <2>2. error' \in [Requests -> Errors]
    BY <1>1, <1>6, <2>1 DEF DispatchFails, Rest
  <2>3. pc' \in [Requests -> Labels] /\ answer' \in [Requests -> AnswerRecords]
    <3>1. CASE policy.claims
      BY <1>1, <1>6, <3>1 DEF DispatchFails, Goto, Labels, Rest
    <3>2. CASE ~policy.claims
      BY <1>6, <3>2, AnswersType DEF DispatchFails, AnswerKinds
    <3> QED BY <3>1, <3>2
  <2> QED BY <1>1, <1>6, <2>2, <2>3 DEF DispatchFails, Rest
<1>7. CASE NotAccepted(r) \/ FlowFails(r) \/ Unanswered(r)
  BY <1>6, <1>7, MarksAssumption DEF NotAccepted, FlowFails, Unanswered
<1>8. CASE Answered(r)
  <2>1. pc' \in [Requests -> Labels] /\ answer' \in [Requests -> AnswerRecords]
    <3>1. CASE policy.claims
      BY <1>1, <1>8, <3>1 DEF Answered, Goto, Labels, Rest
    <3>2. CASE ~policy.claims
      BY <1>8, <3>2, AnswersType DEF Answered, AnswerKinds
    <3> QED BY <3>1, <3>2
  <2> QED BY <1>1, <1>8, <2>1 DEF Answered, Rest
<1>9. CASE Succeed(r)
  <2>1. pc' \in [Requests -> Labels] /\ answer' \in [Requests -> AnswerRecords]
    BY <1>9, AnswersType DEF Succeed, AnswerKinds
  <2> QED BY <1>1, <1>9, <2>1 DEF Succeed, Rest
<1>10. CASE SucceedThrows(r)
  <2>1. [kind |-> "bookkeeping", mark |-> "none"] \in Errors
    BY DEF Errors, ErrorKinds
  <2> QED BY <1>1, <1>10, <2>1 DEF SucceedThrows, Goto, Labels, Rest
<1>11. CASE Settle(r)
  <2>1. PICK action : NextCall(r, action)
    BY <1>11 DEF Settle
  <2>2. pc' \in [Requests -> Labels] /\ answer' = answer
    BY <1>1, <2>1 DEF NextCall, Goto, Labels, Rest
  <2> QED BY <1>1, <1>11, <2>2 DEF Settle, Rest
<1>12. CASE StoreFailure(r) \/ ReleaseKey(r) \/ Fail(r)
  <2>1. pc' \in [Requests -> Labels] /\ answer' \in [Requests -> AnswerRecords]
    BY <1>12, AnswersType DEF StoreFailure, ReleaseKey, Fail, AnswerKinds
  <2> QED BY <1>1, <1>12, <2>1 DEF StoreFailure, ReleaseKey, Fail, Rest
<1>13. CASE SettleThrows(r)
  BY <1>1, <1>13 DEF SettleThrows, Goto, Labels, Rest
<1> QED
  BY <1>2, <1>3, <1>4, <1>5, <1>7, <1>8, <1>9, <1>10, <1>11, <1>12, <1>13 DEF Step

LEMMA TypeStep == TypeOK /\ [Next]_vars => TypeOK'
<1> SUFFICES ASSUME TypeOK, [Next]_vars PROVE TypeOK'
  OBVIOUS
<1>1. policy' = policy /\ Keys' = Keys
  BY PolicyFixed
<1>2. Rest /\ EntriesOK
  BY TypeParts DEF Rest, EntriesOK
<1>3. Rest' /\ EntriesOK' => TypeOK'
  BY TypeParts, PTL DEF Rest, EntriesOK
<1>4. ASSUME NEW r \in Requests, Step(r) PROVE TypeOK'
  <2>1. EntriesOK'
    BY <1>1, <1>4, EntriesStep DEF EntriesOK
  <2> QED BY <1>1, <1>3, <1>4, <2>1, RestStep
<1>5. ASSUME NEW r \in Requests, FlowEnds(r) PROVE TypeOK'
  BY <1>1, <1>2, <1>3, <1>5 DEF FlowEnds, Rest, EntriesOK
<1>6. ASSUME NEW k \in Keys, Expire(k) PROVE TypeOK'
  <2>1. EntriesOK'
    BY <1>1, <1>2, <1>6 DEF Expire, EntriesOK, Sound, Entries
  <2>2. terms' \in [Keys -> 0 .. MaxTerms] /\ outlived' \subseteq Keys
    BY <1>2, <1>6, RequestsAssumption DEF Expire, Rest
  <2> QED BY <1>1, <1>2, <1>3, <1>6, <2>1, <2>2 DEF Expire, Rest
<1>7. CASE PurgeExpired
  <2>1. Sound(Absent)
    BY RequestsAssumption DEF Sound, Entries, Absent
  <2>2. EntriesOK'
    BY <1>1, <1>2, <1>7, <2>1 DEF PurgeExpired, EntriesOK, Sound
  <2> QED BY <1>1, <1>2, <1>3, <1>7, <2>2 DEF PurgeExpired, Rest
<1>8. CASE UNCHANGED vars
  BY <1>1, <1>2, <1>3, <1>8 DEF vars, Rest, EntriesOK
<1> QED BY <1>4, <1>5, <1>6, <1>7, <1>8 DEF Next, AllEnded

LEMMA InitTypes == Init => TypeOK
<1> SUFFICES ASSUME Init PROVE TypeOK
  OBVIOUS
<1>1. Sound(Absent)
  BY RequestsAssumption DEF Sound, Entries, Absent
<1>2. EntriesOK
  BY <1>1 DEF Init, EntriesOK, Sound
<1>3. Rest
  BY RequestsAssumption
     DEF Init, Rest, Labels, Errors, ErrorKinds, NoError, AnswerRecords, AnswerKinds, NoAnswer
<1> QED BY <1>2, <1>3, TypeParts DEF EntriesOK, Rest

\* Every variable keeps its type, and an entry exists only because a request claimed it: complete()
\* and fail() create none.
THEOREM GateTypeCorrect == Spec => []TypeOK
BY InitTypes, TypeStep, PTL DEF Spec

-----------------------------------------------------------------------------
(* Who owns the entry of a key. *)

\* Between the claim and its settlement.
Active(r) == pc[r] \in {"send", "waiting", "succeed", "failed", "store", "release"}

Owns(r) == Record(r).live /\ Record(r).owner = r

\* No flow runs before the dispatch; without a classifier a key is released only, and a policy
\* applies only, when the flow is not doing the work.
Memory(r) ==
  /\ pc[r] \in {"begin", "get", "send"} => flow[r] = "none"
  /\ policy.onFailure # "classifier" =>
       /\ pc[r] = "release" => ~Works(r)
       /\ pc[r] = "failed" /\ (error[r].kind # "unanswered" \/ error[r].mark # "none") => ~Works(r)

MemoryInv == \A r \in Requests : Memory(r)

\* As long as no dispatch has outlived its TTL.
OwnedBy(r) ==
  policy.claims /\ Key(r) \notin outlived =>
    /\ Active(r) => Owns(r) /\ term[r] = terms[Key(r)]
    /\ Works(r) /\ term[r] = terms[Key(r)] => Owns(r)

OwnerInv == \A r \in Requests : OwnedBy(r) /\ term[r] <= terms[Key(r)]

\* Without a claim the scope of the flow knows the client key from the first dispatch on.
HandedInv ==
  ~policy.claims /\ policy.forward = "raw" =>
    /\ \A r \in Requests : flow[r] # "none" => "client" \in handed
    /\ \A r, q \in Requests : Works(r) /\ Works(q) => r = q

\* A step of one request changes nothing that another remembers.
LEMMA Frame ==
  ASSUME TypeOK, NEW r \in Requests, Step(r)
  PROVE  /\ \A q \in Requests \ {r} :
              pc'[q] = pc[q] /\ flow'[q] = flow[q] /\ error'[q] = error[q] /\ term'[q] = term[q]
         /\ terms' = terms /\ outlived' = outlived
<1>1. \A l : Goto(r, l) => \A q \in Requests \ {r} : pc'[q] = pc[q]
  BY TypeParts DEF Goto
<1>2. \A kind, of, as : Answers(r, kind, of, as) => \A q \in Requests \ {r} : pc'[q] = pc[q]
  BY <1>1 DEF Answers
<1>3. CASE Claim(r) \/ ClaimThrows(r) \/ Dispatch(r) \/ Answered(r)
  BY <1>1, <1>2, <1>3, TypeParts DEF Claim, ClaimThrows, Dispatch, Answered
<1>4. CASE GetRecord(r)
  BY <1>2, <1>4 DEF GetRecord, Repeat
<1>5. CASE NotAccepted(r) \/ FlowFails(r) \/ Unanswered(r)
  BY <1>1, <1>2, <1>5, TypeParts DEF NotAccepted, FlowFails, Unanswered, DispatchFails
<1>6. CASE Settle(r)
  BY <1>1, <1>6 DEF Settle, NextCall
<1>7. CASE Succeed(r) \/ SucceedThrows(r) \/ StoreFailure(r) \/ ReleaseKey(r) \/ SettleThrows(r) \/ Fail(r)
  BY <1>1, <1>2, <1>7, TypeParts
     DEF Succeed, SucceedThrows, StoreFailure, ReleaseKey, SettleThrows, Fail
<1> QED BY <1>3, <1>4, <1>5, <1>6, <1>7 DEF Step

\* An entry that is alive stays with its owner, unless the step releases it.
LEMMA EntryKept ==
  ASSUME TypeOK, NEW r \in Requests, Step(r)
  PROVE  \/ entry'[Key(r)].live = Record(r).live /\ entry'[Key(r)].owner = Record(r).owner
         \/ ~Record(r).live
         \/ pc[r] = "release"
<1>1. /\ entry \in [Keys -> Entries] /\ Key(r) \in Keys /\ Record(r) = entry[Key(r)]
      /\ Record(r) \in Entries
  BY TypeParts, KeyType DEF Record
<1>2. \A e : Stores(r, e) => entry'[Key(r)] = e
  BY <1>1 DEF Stores
<1>3. /\ \A what : CompletedWith(what, r).live = Record(r).live /\ CompletedWith(what, r).owner = Record(r).owner
      /\ FailedEntry(r).live = Record(r).live /\ FailedEntry(r).owner = Record(r).owner
  BY <1>1 DEF CompletedWith, FailedEntry, Entries
<1>4. CASE UNCHANGED entry
  BY <1>1, <1>4
<1>5. CASE Claim(r) \/ ClaimThrows(r) \/ GetRecord(r)
  BY <1>1, <1>2, <1>5 DEF Claim, ClaimThrows, GetRecord, Throws
<1>6. CASE Dispatch(r) \/ NotAccepted(r) \/ Answered(r) \/ FlowFails(r) \/ Unanswered(r) \/ Settle(r)
  BY <1>4, <1>6 DEF Dispatch, NotAccepted, Answered, FlowFails, Unanswered, Settle, DispatchFails
<1>7. CASE Succeed(r) \/ SucceedThrows(r) \/ StoreFailure(r) \/ Fail(r)
  <2>1. PICK e \in {CompletedWith("reply", r), CompletedWith("failure", r), FailedEntry(r)} :
          Stores(r, e) \/ Throws(r, e)
    BY <1>7 DEF Succeed, SucceedThrows, StoreFailure, Fail
  <2> QED BY <1>2, <1>3, <1>4, <2>1 DEF Throws
<1>8. CASE ReleaseKey(r) \/ SettleThrows(r)
  <2>1. CASE pc[r] = "release"
    BY <2>1
  <2>2. CASE pc[r] # "release"
    <3>1. Throws(r, CompletedWith("failure", r))
      BY <1>8, <2>2 DEF ReleaseKey, SettleThrows
    <3> QED BY <1>2, <1>3, <1>4, <3>1 DEF Throws
  <2> QED BY <2>1, <2>2
<1> QED BY <1>5, <1>6, <1>7, <1>8 DEF Step

\* What a step leaves of the other owners: only a release takes an entry that is alive, and its owner
\* releases it.
LEMMA OthersOwn ==
  ASSUME TypeOK, OwnerInv, policy' = policy, NEW r \in Requests, Step(r),
         NEW q \in Requests \ {r}
  PROVE  (OwnedBy(q) /\ term[q] <= terms[Key(q)])'
<1>1. /\ pc'[q] = pc[q] /\ flow'[q] = flow[q] /\ term'[q] = term[q]
      /\ terms' = terms /\ outlived' = outlived
  BY Frame
<1>2. Key(q)' = Key(q) /\ Key(r) \in Keys /\ Key(q) \in Keys
  BY KeyType DEF Key
<1>3. SUFFICES ASSUME policy.claims, Key(q) \notin outlived, Owns(q) PROVE Owns(q)'
  BY <1>1, <1>2 DEF OwnerInv, OwnedBy, Active, Works
<1>4. CASE Key(q) # Key(r)
  BY <1>2, <1>3, <1>4, EntriesStep DEF Owns, Record
<1>5. CASE Key(q) = Key(r)
  <2>1. pc[r] # "release"
    BY <1>3, <1>5 DEF OwnerInv, OwnedBy, Active, Owns, Record
  <2> QED BY <1>2, <1>3, <1>5, <2>1, EntryKept DEF Owns, Record
<1> QED BY <1>4, <1>5

\* The label a step leaves its request at.
LEMMA GoesTo ==
  ASSUME TypeOK, NEW r \in Requests, NEW l, Goto(r, l)
  PROVE  pc'[r] = l
BY TypeParts DEF Goto

LEMMA EndsAt ==
  ASSUME TypeOK, NEW r \in Requests, NEW kind, NEW of, NEW as, Answers(r, kind, of, as)
  PROVE  pc'[r] = "end"
BY GoesTo DEF Answers

\* After the claim a request owns the entry; until it settles the entry stays, and a request that
\* releases it does not do the work.
LEMMA SelfOwns ==
  ASSUME TypeOK, OwnerInv, MemoryInv, policy' = policy, policy.onFailure # "classifier",
         NEW r \in Requests, Step(r)
  PROVE  (OwnedBy(r) /\ term[r] <= terms[Key(r)])'
<1>1. terms' = terms /\ outlived' = outlived /\ Key(r)' = Key(r) /\ Key(r) \in Keys
  BY Frame, KeyType DEF Key
<1>2. /\ OwnedBy(r) /\ term[r] <= terms[Key(r)] /\ Memory(r)
      /\ term[r] \in Nat /\ terms[Key(r)] \in Nat
  BY <1>1, TypeParts, RequestsAssumption DEF OwnerInv, MemoryInv
<1>3. CASE Claim(r)
  <2>1. ~Works(r)' /\ term'[r] \in {term[r], terms[Key(r)]}
    BY <1>2, <1>3, TypeParts DEF Claim, Memory, Works
  <2>2. CASE policy.claims /\ Record(r).live
    <3>1. pc'[r] = "get"
      BY <1>3, <2>2, GoesTo DEF Claim
    <3> QED BY <1>1, <1>2, <2>1, <3>1 DEF OwnedBy, Active
  <2>3. CASE policy.claims /\ ~Record(r).live
    <3>1. entry' = [entry EXCEPT ![Key(r)] = Begun(r)] /\ term'[r] = terms[Key(r)]
      BY <1>3, <2>3, TypeParts DEF Claim, Stores
    <3>2. Owns(r)'
      BY <1>1, <3>1, TypeParts DEF Owns, Record, Begun
    <3> QED BY <1>1, <1>2, <3>1, <3>2 DEF OwnedBy
  <2>4. CASE ~policy.claims
    BY <1>1, <1>2, <2>1, <2>4 DEF OwnedBy
  <2> QED BY <2>2, <2>3, <2>4
<1>4. CASE ClaimThrows(r) \/ GetRecord(r)
  <2>1. pc'[r] = "end"
    <3>1. CASE ClaimThrows(r)
      BY <3>1, EndsAt DEF ClaimThrows
    <3>2. CASE GetRecord(r)
      BY <3>2, EndsAt DEF GetRecord, Repeat
    <3> QED BY <1>4, <3>1, <3>2
  <2>2. ~Works(r)' /\ term'[r] = term[r]
    BY <1>2, <1>4 DEF ClaimThrows, GetRecord, Memory, Works
  <2> QED BY <1>1, <1>2, <2>1, <2>2 DEF OwnedBy, Active
<1>5. CASE Dispatch(r) \/ NotAccepted(r) \/ Answered(r) \/ FlowFails(r) \/ Unanswered(r) \/ Settle(r)
  <2>1. entry' = entry /\ term' = term
    BY <1>5 DEF Dispatch, NotAccepted, Answered, FlowFails, Unanswered, Settle, DispatchFails
  <2>2. Owns(r)' <=> Owns(r)
    BY <1>1, <2>1 DEF Owns, Record
  <2>3. Works(r)' => Works(r) \/ pc[r] = "send"
    BY <1>5 DEF Dispatch, NotAccepted, Answered, FlowFails, Unanswered, Settle, Works
  <2>4. Active(r)
    BY <1>5 DEF Dispatch, NotAccepted, Answered, FlowFails, Unanswered, Settle, Active
  <2> QED BY <1>1, <1>2, <2>1, <2>2, <2>3, <2>4 DEF OwnedBy
<1>6. CASE Succeed(r) \/ SucceedThrows(r) \/ StoreFailure(r) \/ ReleaseKey(r) \/ SettleThrows(r) \/ Fail(r)
  <2>1. flow' = flow /\ term' = term
    BY <1>6 DEF Succeed, SucceedThrows, StoreFailure, ReleaseKey, SettleThrows, Fail
  <2>2. pc'[r] \in {"end", "fail"}
    BY <1>6, EndsAt, GoesTo
       DEF Succeed, SucceedThrows, StoreFailure, ReleaseKey, SettleThrows, Fail
  <2>3. CASE pc[r] = "release"
    BY <1>1, <1>2, <2>1, <2>2, <2>3 DEF OwnedBy, Active, Works, Memory
  <2>4. CASE pc[r] # "release"
    <3>1. Owns(r) => Owns(r)'
      BY <1>1, <2>4, EntryKept DEF Owns, Record
    <3> QED BY <1>1, <1>2, <2>1, <2>2, <3>1 DEF OwnedBy, Active, Works
  <2> QED BY <2>3, <2>4
<1> QED BY <1>3, <1>4, <1>5, <1>6 DEF Step

LEMMA MemoryStep ==
  ASSUME TypeOK, PolicyOK, MemoryInv, policy' = policy, NEW r \in Requests, Step(r)
  PROVE  MemoryInv'
<1>1. ASSUME NEW q \in Requests \ {r} PROVE Memory(q)'
  <2>1. pc'[q] = pc[q] /\ flow'[q] = flow[q] /\ error'[q] = error[q]
    BY Frame
  <2> QED BY <2>1 DEF MemoryInv, Memory, Works
<1>2. Memory(r)
  BY DEF MemoryInv
<1> SUFFICES Memory(r)'
  BY <1>1 DEF MemoryInv
<1>3. CASE Claim(r)
  <2>1. pc'[r] \in {"get", "send"} /\ flow' = flow
    BY <1>3, GoesTo DEF Claim
  <2> QED BY <1>2, <1>3, <2>1 DEF Claim, Memory, Works
<1>4. CASE ClaimThrows(r) \/ GetRecord(r)
  <2>1. pc'[r] = "end"
    <3>1. CASE ClaimThrows(r)
      BY <3>1, EndsAt DEF ClaimThrows
    <3>2. CASE GetRecord(r)
      BY <3>2, EndsAt DEF GetRecord, Repeat
    <3> QED BY <1>4, <3>1, <3>2
  <2> QED BY <2>1 DEF Memory, Works
<1>5. CASE Dispatch(r)
  <2>1. pc'[r] = "waiting"
    BY <1>5, GoesTo DEF Dispatch
  <2> QED BY <2>1 DEF Memory, Works
<1>6. ASSUME NEW kind, NEW mark, DispatchFails(r, kind, mark), flow' = flow,
             Works(r) => kind = "unanswered" /\ mark = "none"
      PROVE  Memory(r)'
  <2>1. pc'[r] \in {"failed", "end"}
    BY <1>6, EndsAt, GoesTo DEF DispatchFails
  <2>2. error'[r].kind = kind /\ error'[r].mark = mark
    BY <1>6, TypeParts DEF DispatchFails
  <2> QED BY <1>6, <2>1, <2>2 DEF Memory, Works
<1>7. CASE NotAccepted(r)
  BY <1>2, <1>6, <1>7 DEF NotAccepted, Memory, Works
<1>8. CASE FlowFails(r)
  BY <1>6, <1>8 DEF FlowFails, Works
<1>9. CASE Unanswered(r)
  BY <1>6, <1>9 DEF Unanswered
<1>10. CASE Answered(r)
  <2>1. pc'[r] \in {"succeed", "end"}
    BY <1>10, EndsAt, GoesTo DEF Answered
  <2> QED BY <2>1 DEF Memory, Works
<1>11. CASE Settle(r)
  <2>1. PICK action \in Decisions(r) : NextCall(r, action)
    BY <1>11 DEF Settle
  <2>2. pc'[r] \in {"store", "release", "fail"} /\ (pc'[r] = "release" => action = "release")
    BY <2>1, GoesTo DEF NextCall
  <2>3. ASSUME policy.onFailure # "classifier", action = "release"
        PROVE  error[r].kind # "unanswered" \/ error[r].mark # "none"
    BY <2>1, <2>3 DEF Decisions, PolicyOK, Modes
  <2> QED BY <1>2, <1>11, <2>2, <2>3 DEF Settle, Memory, Works
<1>12. CASE Succeed(r) \/ SucceedThrows(r) \/ StoreFailure(r) \/ ReleaseKey(r) \/ SettleThrows(r) \/ Fail(r)
  <2>1. pc'[r] \in {"end", "fail"}
    BY <1>12, EndsAt, GoesTo
       DEF Succeed, SucceedThrows, StoreFailure, ReleaseKey, SettleThrows, Fail
  <2> QED BY <2>1 DEF Memory, Works
<1> QED BY <1>3, <1>4, <1>5, <1>7, <1>8, <1>9, <1>10, <1>11, <1>12 DEF Step

-----------------------------------------------------------------------------
(* The work of a key. *)

\* A request begins the work by its dispatch only.
LEMMA WorksStep ==
  ASSUME TypeOK, MemoryInv, NEW r \in Requests, Step(r), NEW q \in Requests, Works(q)'
  PROVE  \/ Works(q) /\ term'[q] = term[q]
         \/ q = r /\ Dispatch(r) /\ pc[r] = "send" /\ term' = term
<1>1. CASE q # r
  BY <1>1, Frame DEF Works
<1>2. CASE q = r /\ Claim(r)
  BY <1>2 DEF Claim, Works, MemoryInv, Memory
<1>3. CASE q = r /\ ~Claim(r) /\ ~Dispatch(r)
  <2>1. flow' = flow /\ term' = term
    BY <1>3
       DEF Step, ClaimThrows, GetRecord, NotAccepted, Answered, FlowFails, Unanswered, DispatchFails,
           Succeed, SucceedThrows, Settle, StoreFailure, ReleaseKey, SettleThrows, Fail
  <2> QED BY <1>3, <2>1 DEF Works
<1>4. CASE q = r /\ Dispatch(r)
  BY <1>4 DEF Dispatch
<1> QED BY <1>1, <1>2, <1>3, <1>4

LEMMA HandedStep ==
  ASSUME TypeOK, MemoryInv, HandedInv, policy' = policy, NEW r \in Requests, Step(r)
  PROVE  HandedInv'
<1> SUFFICES ASSUME ~policy.claims, policy.forward = "raw"
             PROVE  /\ \A q \in Requests : flow'[q] # "none" => "client" \in handed'
                    /\ \A p, q \in Requests : Works(p)' /\ Works(q)' => p = q
  BY DEF HandedInv
<1>1. /\ \A q \in Requests : flow[q] # "none" => "client" \in handed
      /\ \A p, q \in Requests : Works(p) /\ Works(q) => p = q
  BY DEF HandedInv
<1>2. CASE Dispatch(r)
  <2>1. /\ handed' = handed \cup {"client"} /\ \A q \in Requests \ {r} : flow'[q] = flow[q]
        /\ flow'[r] = IF "client" \in handed THEN "dropped" ELSE "running"
    BY <1>2, TypeParts DEF Dispatch, Forwarded
  <2>2. CASE "client" \in handed
    BY <1>1, <2>1, <2>2 DEF Works
  <2>3. CASE "client" \notin handed
    <3>1. \A q \in Requests \ {r} : flow'[q] = "none"
      BY <1>1, <2>1, <2>3
    <3> QED BY <2>1, <3>1 DEF Works
  <2> QED BY <2>2, <2>3
<1>3. CASE ~Dispatch(r)
  <2>1. flow' = flow /\ handed' = handed
    BY <1>3
       DEF Step, Claim, ClaimThrows, GetRecord, NotAccepted, Answered, FlowFails, Unanswered,
           DispatchFails, Succeed, SucceedThrows, Settle, StoreFailure, ReleaseKey, SettleThrows, Fail
  <2> QED BY <1>1, <2>1 DEF Works
<1> QED BY <1>2, <1>3

\* The invariant: all of it fits a step of a request.
GateInv ==
  /\ PolicyOK /\ MemoryInv /\ HandedInv
  /\ policy.onFailure # "classifier" => OwnerInv /\ WorkOncePerTtl

LEMMA RequestStep ==
  ASSUME TypeOK, GateInv, policy' = policy, NEW r \in Requests, Step(r)
  PROVE  GateInv'
<1>1. PolicyOK' /\ MemoryInv' /\ HandedInv'
  BY MemoryStep, HandedStep DEF GateInv, PolicyOK
<1> SUFFICES ASSUME policy.onFailure # "classifier" PROVE (OwnerInv /\ WorkOncePerTtl)'
  BY <1>1 DEF GateInv
<1>2. OwnerInv /\ WorkOncePerTtl /\ MemoryInv /\ PolicyOK
  BY DEF GateInv
<1>3. OwnerInv'
  <2>1. ASSUME NEW q \in Requests PROVE (OwnedBy(q) /\ term[q] <= terms[Key(q)])'
    BY <1>2, OthersOwn, SelfOwns
  <2> QED BY <2>1 DEF OwnerInv
<1>4. WorkOncePerTtl'
  <2> SUFFICES ASSUME NEW p \in Requests, NEW q \in Requests, Same(p, q)', Works(p)', Works(q)'
               PROVE  IF policy.claims THEN Key(p) \in outlived \/ term'[p] # term'[q]
                      ELSE policy.forward = "none"
    <3>1. outlived' = outlived /\ \A x : Key(x)' = Key(x)
      BY Frame DEF Key
    <3> QED BY <3>1 DEF WorkOncePerTtl
  <2>1. p # q /\ Key(p) = Key(q)
    BY DEF Same, Key
  <2>2. CASE ~policy.claims
    BY <1>1, <1>2, <2>1, <2>2 DEF HandedInv, PolicyOK
  <2>3. CASE policy.claims
    <3>1. ASSUME Works(p), Works(q), term'[p] = term[p], term'[q] = term[q]
          PROVE  Key(p) \in outlived \/ term'[p] # term'[q]
      BY <1>2, <2>1, <2>3, <3>1 DEF WorkOncePerTtl, Same
    <3>2. ASSUME NEW x \in Requests, NEW y \in Requests, x # y, Key(x) = Key(y),
                 Works(y), pc[x] = "send", Key(x) \notin outlived
          PROVE  term[x] # term[y]
      <4>1. Owns(x) /\ term[x] = terms[Key(x)]
        BY <1>2, <2>3, <3>2 DEF OwnerInv, OwnedBy, Active
      <4>2. ~Owns(y)
        BY <3>2, <4>1 DEF Owns, Record
      <4> QED BY <1>2, <2>3, <3>2, <4>1, <4>2 DEF OwnerInv, OwnedBy
    <3>3. \/ Works(p) /\ term'[p] = term[p]
          \/ p = r /\ pc[r] = "send" /\ term' = term
      BY <1>2, WorksStep
    <3>4. \/ Works(q) /\ term'[q] = term[q]
          \/ q = r /\ pc[r] = "send" /\ term' = term
      BY <1>2, WorksStep
    <3>5. CASE p = r /\ pc[r] = "send" /\ term' = term
      BY <2>1, <2>3, <3>2, <3>4, <3>5
    <3>6. CASE q = r /\ pc[r] = "send" /\ term' = term
      BY <2>1, <2>3, <3>2, <3>3, <3>6
    <3> QED BY <2>3, <3>1, <3>3, <3>4, <3>5, <3>6
  <2> QED BY <2>2, <2>3
<1> QED BY <1>3, <1>4

\* The flow of a request ends: nobody begins to work.
LEMMA FlowEndsStep ==
  ASSUME TypeOK, GateInv, policy' = policy, NEW r \in Requests, FlowEnds(r)
  PROVE  GateInv'
<1>1. /\ UNCHANGED <<pc, entry, handed, error, terms, term, outlived, policy>>
      /\ flow[r] = "running" /\ flow'[r] \in {"ok", "bad"}
      /\ \A q \in Requests \ {r} : flow'[q] = flow[q]
  BY TypeParts DEF FlowEnds
<1>2. /\ \A q \in Requests : Works(q)' => Works(q)
      /\ \A q \in Requests : flow'[q] = "none" <=> flow[q] = "none"
  BY <1>1 DEF Works
<1>3. \A q \in Requests : Key(q)' = Key(q) /\ (Owns(q)' <=> Owns(q)) /\ (Active(q)' <=> Active(q))
  BY <1>1 DEF Key, Owns, Record, Active
<1>4. PolicyOK' /\ MemoryInv'
  BY <1>1, <1>2 DEF GateInv, PolicyOK, MemoryInv, Memory
<1>5. HandedInv'
  BY <1>1, <1>2 DEF GateInv, HandedInv
<1>6. OwnerInv => OwnerInv'
  BY <1>1, <1>2, <1>3 DEF OwnerInv, OwnedBy
<1>7. WorkOncePerTtl => WorkOncePerTtl'
  BY <1>1, <1>2, <1>3 DEF WorkOncePerTtl, Same
<1> QED BY <1>1, <1>4, <1>5, <1>6, <1>7 DEF GateInv

\* The TTL of a key passes: whoever has not settled is outlived, and no term of now has begun.
LEMMA ExpireStep ==
  ASSUME TypeOK, GateInv, policy' = policy, NEW k \in Keys, Expire(k)
  PROVE  GateInv'
<1>1. /\ UNCHANGED <<pc, handed, flow, error, answer, term, policy>>
      /\ terms[k] \in Nat /\ terms'[k] = terms[k] + 1
      /\ \A l \in Keys \ {k} : entry'[l] = entry[l] /\ terms'[l] = terms[l]
      /\ outlived \subseteq outlived'
      /\ \A r \in Requests : Unsettled(r, k) => k \in outlived'
  BY TypeParts, RequestsAssumption DEF Expire
<1>2. \A q \in Requests : Key(q)' = Key(q) /\ Key(q) \in Keys /\ (Works(q)' <=> Works(q))
  BY <1>1, KeyType DEF Key, Works
<1>3. PolicyOK' /\ MemoryInv' /\ HandedInv'
  BY <1>1 DEF GateInv, PolicyOK, MemoryInv, Memory, HandedInv, Works
<1>4. ASSUME OwnerInv, NEW q \in Requests PROVE (OwnedBy(q) /\ term[q] <= terms[Key(q)])'
  <2>1. OwnedBy(q) /\ term[q] <= terms[Key(q)] /\ term[q] \in Nat
    BY <1>4, TypeParts, RequestsAssumption DEF OwnerInv
  <2>2. CASE Key(q) # k
    BY <1>1, <1>2, <2>1, <2>2 DEF OwnedBy, Active, Owns, Record
  <2>3. CASE Key(q) = k
    <3>1. term'[q] # terms'[Key(q)] /\ term'[q] <= terms'[Key(q)]
      BY <1>1, <2>1, <2>3
    <3>2. policy.claims /\ k \notin outlived' => ~Active(q)
      BY <1>1, <2>1, <2>3 DEF OwnedBy, Active, Owns, Record, Unsettled, Ended
    <3> QED BY <1>1, <1>2, <2>3, <3>1, <3>2 DEF OwnedBy, Active
  <2> QED BY <2>2, <2>3
<1>5. OwnerInv => OwnerInv'
  BY <1>4 DEF OwnerInv
<1>6. WorkOncePerTtl => WorkOncePerTtl'
  BY <1>1, <1>2 DEF WorkOncePerTtl, Same
<1> QED BY <1>1, <1>3, <1>5, <1>6 DEF GateInv

\* Only what is alive has an owner that counts.
LEMMA PurgeStep ==
  ASSUME TypeOK, GateInv, policy' = policy, PurgeExpired
  PROVE  GateInv'
<1>1. /\ UNCHANGED <<pc, handed, flow, error, answer, terms, term, outlived, policy>>
      /\ \A k \in Keys : entry[k].live => entry'[k] = entry[k]
  BY DEF PurgeExpired
<1>2. \A q \in Requests : Key(q)' = Key(q) /\ Key(q) \in Keys /\ (Works(q)' <=> Works(q))
  BY <1>1, KeyType DEF Key, Works
<1>3. PolicyOK' /\ MemoryInv' /\ HandedInv'
  BY <1>1 DEF GateInv, PolicyOK, MemoryInv, Memory, HandedInv, Works
<1>4. \A q \in Requests : (Owns(q) => Owns(q)') /\ (Active(q)' <=> Active(q))
  BY <1>1, <1>2 DEF Owns, Record, Active
<1>5. OwnerInv => OwnerInv'
  BY <1>1, <1>2, <1>4 DEF OwnerInv, OwnedBy
<1>6. WorkOncePerTtl => WorkOncePerTtl'
  BY <1>1, <1>2 DEF WorkOncePerTtl, Same
<1> QED BY <1>1, <1>3, <1>5, <1>6 DEF GateInv

LEMMA GateStep == TypeOK /\ GateInv /\ [Next]_vars => GateInv'
<1> SUFFICES ASSUME TypeOK, GateInv, [Next]_vars PROVE GateInv'
  OBVIOUS
<1>1. policy' = policy
  BY PolicyFixed
<1>2. CASE UNCHANGED vars
  BY <1>2
     DEF vars, GateInv, PolicyOK, MemoryInv, Memory, HandedInv, OwnerInv, OwnedBy, Active, Owns,
         Record, Key, Works, WorkOncePerTtl, Same
<1> QED
  BY <1>1, <1>2, RequestStep, FlowEndsStep, ExpireStep, PurgeStep DEF Next, AllEnded

\* Within one TTL the work of a key is done at most once, for any requests, tenants and endpoints, as
\* long as no classifier decides and no dispatch outlives its TTL (claim, decideFailureAction,
\* settle; without a claim, the scope of the flow).
THEOREM WorkHappensOnce == Spec => []WorkOncePerTtl
<1>1. ASSUME Init PROVE GateInv
  <2>1. PolicyOK
    BY <1>1, InitPolicy
  <2>2. /\ \A q \in Requests : flow[q] = "none" /\ pc[q] = "begin" /\ term[q] = 0
        /\ \A k \in Keys : terms[k] = 0
    BY <1>1 DEF Init
  <2>3. MemoryInv /\ HandedInv /\ WorkOncePerTtl
    BY <2>2 DEF MemoryInv, Memory, HandedInv, WorkOncePerTtl, Works
  <2>4. OwnerInv
    BY <2>2, KeyType DEF OwnerInv, OwnedBy, Active, Works
  <2> QED BY <2>1, <2>3, <2>4 DEF GateInv
<1>2. GateInv => WorkOncePerTtl
  BY DEF GateInv, WorkOncePerTtl
<1> QED BY <1>1, <1>2, GateStep, GateTypeCorrect, PTL DEF Spec

-----------------------------------------------------------------------------
(* The settlement of the claims. *)

\* Over a store that works, the owner of an entry in flight is on its way to settle it; without a
\* claim there is no entry.
SettledInv ==
  /\ ~policy.claims =>
       /\ \A k \in Keys : entry[k].status = "absent"
       /\ \A r \in Requests : pc[r] \in {"begin", "send", "waiting", "end"}
  /\ policy.reliable =>
       \A k \in Keys : entry[k].status = "in-flight" =>
         \E r \in Requests : entry[k].owner = r /\ Key(r) = k /\ (Active(r) \/ pc[r] = "fail")

\* Without a claim nothing is stored.
LEMMA UnclaimedStep ==
  ASSUME TypeOK, SettledInv, policy' = policy, ~policy.claims, NEW r \in Requests, Step(r)
  PROVE  SettledInv'
<1>1. /\ \A k \in Keys : entry[k].status = "absent"
      /\ \A q \in Requests : pc[q] \in {"begin", "send", "waiting", "end"}
      /\ Keys' = Keys
  BY DEF SettledInv, Keys
<1>2. \A q \in Requests \ {r} : pc'[q] = pc[q]
  BY Frame
<1>3. Claim(r) \/ Dispatch(r) \/ NotAccepted(r) \/ Answered(r) \/ FlowFails(r) \/ Unanswered(r)
  BY <1>1
     DEF Step, ClaimThrows, GetRecord, Succeed, SucceedThrows, Settle, StoreFailure, ReleaseKey,
         SettleThrows, Fail
<1>4. entry' = entry
  BY <1>3 DEF Claim, Dispatch, NotAccepted, Answered, FlowFails, Unanswered, DispatchFails
<1>5. pc'[r] \in {"send", "waiting", "end"}
  BY <1>3, EndsAt, GoesTo
     DEF Claim, Dispatch, NotAccepted, Answered, FlowFails, Unanswered, DispatchFails
<1>6. \A q \in Requests : pc'[q] \in {"begin", "send", "waiting", "end"}
  BY <1>1, <1>2, <1>5
<1> QED BY <1>1, <1>4, <1>6 DEF SettledInv

LEMMA SettledStep ==
  ASSUME TypeOK, SettledInv, policy' = policy, policy.claims, NEW r \in Requests, Step(r)
  PROVE  SettledInv'
<1> SUFFICES ASSUME policy.reliable, NEW k \in Keys, entry'[k].status = "in-flight"
             PROVE  \E q \in Requests : entry'[k].owner = q /\ Key(q) = k /\ (Active(q)' \/ pc'[q] = "fail")
  BY DEF SettledInv, Keys, Key
<1>1. ASSUME entry[k].status = "in-flight"
      PROVE  \E q \in Requests : entry[k].owner = q /\ Key(q) = k /\ (Active(q) \/ pc[q] = "fail")
  BY <1>1 DEF SettledInv
<1>2. \A q \in Requests \ {r} : pc'[q] = pc[q]
  BY Frame
<1>3. ASSUME k # Key(r) \/ entry'[k] = entry[k], Key(r) = k => Active(r)' \/ pc'[r] = "fail" \/ pc'[r] = pc[r]
             \/ ~(Active(r) \/ pc[r] = "fail")
      PROVE  \E q \in Requests : entry'[k].owner = q /\ Key(q) = k /\ (Active(q)' \/ pc'[q] = "fail")
  <2>1. entry'[k] = entry[k]
    BY <1>3, EntriesStep
  <2>2. PICK q \in Requests : entry[k].owner = q /\ Key(q) = k /\ (Active(q) \/ pc[q] = "fail")
    BY <1>1, <2>1
  <2>3. Active(q)' \/ pc'[q] = "fail"
    BY <1>2, <1>3, <2>2 DEF Active
  <2> QED BY <2>1, <2>2, <2>3
<1>4. CASE k # Key(r)
  BY <1>3, <1>4
<1>5. ASSUME k = Key(r) PROVE Record(r) = entry[k] /\ \A e : Stores(r, e) => entry'[k] = e
  BY <1>5, TypeParts, KeyType DEF Record, Stores
<1>6. CASE k = Key(r) /\ Claim(r)
  <2>1. CASE Record(r).live
    <3>1. entry'[k] = entry[k] /\ ~(Active(r) \/ pc[r] = "fail")
      BY <1>6, <2>1 DEF Claim, Active
    <3> QED BY <1>3, <3>1
  <2>2. CASE ~Record(r).live
    <3>1. entry'[k].owner = r /\ pc'[r] = "send"
      BY <1>5, <1>6, <2>2, GoesTo DEF Claim, Begun
    <3> QED BY <1>6, <3>1 DEF Active
  <2> QED BY <2>1, <2>2
<1>7. CASE k = Key(r) /\ GetRecord(r)
  <2>1. ~(Active(r) \/ pc[r] = "fail") /\ (entry' = entry \/ entry'[k] = Absent)
    BY <1>5, <1>7 DEF GetRecord, Active
  <2>2. entry' = entry
    BY <2>1 DEF Absent
  <2> QED BY <1>3, <2>1, <2>2
<1>8. CASE k = Key(r) /\ (Dispatch(r) \/ NotAccepted(r) \/ Answered(r) \/ FlowFails(r) \/ Unanswered(r) \/ Settle(r))
  <2>1. entry' = entry
    BY <1>8 DEF Dispatch, NotAccepted, Answered, FlowFails, Unanswered, Settle, DispatchFails
  <2>2. pc'[r] \in {"waiting", "succeed", "failed", "store", "release", "fail"}
    BY <1>8, GoesTo
       DEF Dispatch, NotAccepted, Answered, FlowFails, Unanswered, Settle, DispatchFails, NextCall
  <2> QED BY <1>3, <2>1, <2>2 DEF Active
<1>9. CASE k = Key(r) /\ (ClaimThrows(r) \/ SucceedThrows(r) \/ SettleThrows(r))
  BY <1>9 DEF ClaimThrows, SucceedThrows, SettleThrows, Throws
<1>10. CASE k = Key(r) /\ (Succeed(r) \/ StoreFailure(r) \/ ReleaseKey(r) \/ Fail(r))
  <2>1. PICK e \in {CompletedWith("reply", r), CompletedWith("failure", r), Absent, FailedEntry(r)} :
          Stores(r, e)
    BY <1>10 DEF Succeed, StoreFailure, ReleaseKey, Fail, Throws
  <2>2. Record(r) \in Entries
    BY EntryTypes DEF Sound
  <2>3. e.status # "in-flight"
    <3>1. \A what : CompletedWith(what, r).status \in {"absent", "completed"}
      BY <2>2 DEF CompletedWith, Entries
    <3>2. FailedEntry(r).status \in {"absent", "failed"} /\ Absent.status = "absent"
      BY <2>2 DEF FailedEntry, Absent, Entries
    <3> QED BY <2>1, <3>1, <3>2
  <2> QED BY <1>5, <1>10, <2>1, <2>3
<1> QED BY <1>4, <1>6, <1>7, <1>8, <1>9, <1>10 DEF Step

\* Over a store that works no request leaves its claim in flight, whatever the policy decides, cannot
\* do or throws (succeed, failed, settle).
THEOREM ClaimsSettle == Spec => []ClaimsAreSettled
<1>1. ASSUME Init PROVE SettledInv
  BY <1>1 DEF Init, SettledInv, Absent
<1>2. ASSUME TypeOK, SettledInv, [Next]_vars PROVE SettledInv'
  <2>1. policy' = policy /\ Keys' = Keys /\ \A r \in Requests : Key(r)' = Key(r)
    BY <1>2, PolicyFixed
  <2>2. ASSUME NEW r \in Requests, Step(r) PROVE SettledInv'
    BY <1>2, <2>1, <2>2, UnclaimedStep, SettledStep
  <2>3. ASSUME UNCHANGED pc, \A k \in Keys : \/ entry'[k].status = entry[k].status
                                                /\ entry'[k].owner = entry[k].owner
                                             \/ entry'[k].status = "absent"
        PROVE  SettledInv'
    BY <1>2, <2>1, <2>3 DEF SettledInv, Active
  <2>4. ASSUME NEW r \in Requests, FlowEnds(r) PROVE SettledInv'
    BY <2>3, <2>4 DEF FlowEnds
  <2>5. ASSUME NEW k \in Keys, Expire(k) PROVE SettledInv'
    BY <1>2, <2>3, <2>5, TypeParts DEF Expire, Entries
  <2>6. CASE PurgeExpired
    BY <2>3, <2>6 DEF PurgeExpired, Absent
  <2>7. CASE UNCHANGED vars
    BY <2>3, <2>7 DEF vars
  <2> QED BY <1>2, <2>2, <2>4, <2>5, <2>6, <2>7 DEF Next, AllEnded
<1>3. ASSUME SettledInv PROVE ClaimsAreSettled
  <2> SUFFICES ASSUME NEW k \in Keys, policy.reliable, entry[k].status = "in-flight"
               PROVE  ~Ended(entry[k].owner)
    BY DEF ClaimsAreSettled
  <2>1. Active(entry[k].owner) \/ pc[entry[k].owner] = "fail"
    BY <1>3 DEF SettledInv
  <2> QED BY <2>1 DEF Active, Ended
<1> QED BY <1>1, <1>2, <1>3, GateTypeCorrect, PTL DEF Spec

-----------------------------------------------------------------------------
(* What a repeat is told. *)

\* A dispatch has no error before it failed, and no answer before its end.
ErrorAt(r) ==
  /\ pc[r] \in {"begin", "get", "send", "waiting", "succeed"} => error[r].kind = "none"
  /\ pc[r] \in {"failed", "store", "release"} => error[r].kind \in {"business", "unanswered"}
  /\ pc[r] = "fail" => error[r].kind # "none"
  /\ pc[r] # "end" => answer[r] = NoAnswer

ErrorInv == \A r \in Requests : ErrorAt(r)

\* The dispatch of r failed and its failure has been dealt with.
GaveUp(r) ==
  pc[r] \in {"fail", "end"} /\ error[r].kind \in {"business", "unanswered"} /\ answer[r].kind # "own"

\* What the entry of a key says happened, happened to a request with that key.
Tells(k) ==
  /\ entry[k].status = "completed" => entry[k].what # "none"
  /\ entry[k].what = "reply" => entry[k].of \in Requests /\ Key(entry[k].of) = k /\ Resolved(entry[k].of)
  /\ entry[k].what = "failure" => entry[k].of \in Requests /\ Key(entry[k].of) = k /\ GaveUp(entry[k].of)
  /\ entry[k].status = "failed" => \E q \in Requests : Key(q) = k /\ error[q].kind # "none"

\* And so does what a client is told.
Truthful(r) ==
  LET first == answer[r].of IN
  /\ answer[r].kind = "replayed" \/ answer[r].as = "completed" =>
       first \in Requests /\ Resolved(first) /\ Same(r, first)
  /\ answer[r].kind = "own" => first = r
  /\ answer[r].kind = "storedFailure" => first \in Requests /\ Same(r, first) /\ GaveUp(first)
  /\ answer[r].as = "failed" => \E q \in Requests : Same(r, q) /\ error[q].kind # "none"

TellsInv == ErrorInv /\ (\A k \in Keys : Tells(k)) /\ \A r \in Requests : Truthful(r)

\* The answers of the others stay; that of r changes only with its end.
LEMMA AnswerFrame ==
  ASSUME TypeOK, NEW r \in Requests, Step(r)
  PROVE  /\ \A q \in Requests \ {r} : answer'[q] = answer[q]
         /\ answer' = answer \/ \E kind, of, as : Answers(r, kind, of, as)
<1>1. ASSUME NEW kind, NEW of, NEW as, Answers(r, kind, of, as)
      PROVE  \A q \in Requests \ {r} : answer'[q] = answer[q]
  BY <1>1, TypeParts DEF Answers
<1>2. CASE Claim(r) \/ Dispatch(r) \/ SucceedThrows(r) \/ SettleThrows(r)
  BY <1>2 DEF Claim, Dispatch, SucceedThrows, SettleThrows
<1>3. CASE ClaimThrows(r) \/ Succeed(r) \/ StoreFailure(r) \/ ReleaseKey(r) \/ Fail(r)
  BY <1>1, <1>3 DEF ClaimThrows, Succeed, StoreFailure, ReleaseKey, Fail
<1>4. CASE GetRecord(r)
  BY <1>1, <1>4 DEF GetRecord, Repeat
<1>5. CASE NotAccepted(r) \/ FlowFails(r) \/ Unanswered(r)
  BY <1>1, <1>5 DEF NotAccepted, FlowFails, Unanswered, DispatchFails
<1>6. CASE Answered(r)
  BY <1>1, <1>6 DEF Answered
<1>7. CASE Settle(r)
  BY <1>7 DEF Settle, NextCall
<1> QED BY <1>2, <1>3, <1>4, <1>5, <1>6, <1>7 DEF Step

\* An error is written once, when the dispatch or complete() throws.
LEMMA ErrorStep ==
  ASSUME TypeOK, ErrorInv, NEW r \in Requests, Step(r)
  PROVE  ErrorInv'
<1>1. ASSUME NEW q \in Requests \ {r} PROVE ErrorAt(q)'
  BY Frame, AnswerFrame DEF ErrorInv, ErrorAt
<1>2. ErrorAt(r)
  BY DEF ErrorInv
<1> SUFFICES ErrorAt(r)'
  BY <1>1 DEF ErrorInv
<1>3. ASSUME NEW kind, NEW of, NEW as, Answers(r, kind, of, as) PROVE ErrorAt(r)'
  BY <1>3, EndsAt DEF ErrorAt
<1>4. CASE Claim(r)
  <2>1. pc'[r] \in {"get", "send"}
    BY <1>4, GoesTo DEF Claim
  <2> QED BY <1>2, <1>4, <2>1 DEF Claim, ErrorAt
<1>5. CASE ClaimThrows(r) \/ Succeed(r) \/ StoreFailure(r) \/ ReleaseKey(r) \/ Fail(r)
  BY <1>3, <1>5 DEF ClaimThrows, Succeed, StoreFailure, ReleaseKey, Fail
<1>6. CASE GetRecord(r)
  BY <1>3, <1>6 DEF GetRecord, Repeat
<1>7. CASE Dispatch(r)
  <2>1. pc'[r] = "waiting"
    BY <1>7, GoesTo DEF Dispatch
  <2> QED BY <1>2, <1>7, <2>1 DEF Dispatch, ErrorAt
<1>8. ASSUME NEW kind \in {"business", "unanswered"}, NEW mark, DispatchFails(r, kind, mark),
             pc[r] \in {"send", "waiting"}
      PROVE  ErrorAt(r)'
  <2>1. CASE ~policy.claims
    BY <1>3, <1>8, <2>1 DEF DispatchFails
  <2>2. CASE policy.claims
    <3>1. pc'[r] = "failed" /\ answer' = answer /\ error'[r].kind = kind
      BY <1>8, <2>2, GoesTo, TypeParts DEF DispatchFails
    <3> QED BY <1>2, <1>8, <3>1 DEF ErrorAt
  <2> QED BY <2>1, <2>2
<1>9. CASE NotAccepted(r) \/ FlowFails(r) \/ Unanswered(r)
  BY <1>8, <1>9 DEF NotAccepted, FlowFails, Unanswered
<1>10. CASE Answered(r)
  <2>1. CASE ~policy.claims
    BY <1>3, <1>10, <2>1 DEF Answered
  <2>2. CASE policy.claims
    <3>1. pc'[r] = "succeed"
      BY <1>10, <2>2, GoesTo DEF Answered
    <3> QED BY <1>2, <1>10, <2>2, <3>1 DEF Answered, ErrorAt
  <2> QED BY <2>1, <2>2
<1>11. CASE SucceedThrows(r)
  <2>1. pc'[r] = "fail" /\ error'[r].kind = "bookkeeping"
    BY <1>11, GoesTo, TypeParts DEF SucceedThrows
  <2> QED BY <1>2, <1>11, <2>1 DEF SucceedThrows, ErrorAt
<1>12. CASE Settle(r) \/ SettleThrows(r)
  <2>1. pc'[r] \in {"store", "release", "fail"} /\ error' = error /\ answer' = answer
        /\ pc[r] \in {"failed", "store", "release"}
    BY <1>12, GoesTo DEF Settle, NextCall, SettleThrows
  <2> QED BY <1>2, <2>1 DEF ErrorAt
<1> QED BY <1>4, <1>5, <1>6, <1>7, <1>9, <1>10, <1>11, <1>12 DEF Step

\* What has happened stays so.
LEMMA FirmStep ==
  ASSUME TypeOK, ErrorInv, NEW r \in Requests, Step(r), NEW q \in Requests
  PROVE  /\ Resolved(q) => Resolved(q)'
         /\ GaveUp(q) => GaveUp(q)'
         /\ error[q].kind # "none" => error'[q].kind # "none"
<1>1. ErrorAt(q)
  BY DEF ErrorInv
<1>2. CASE q # r
  BY <1>2, Frame, AnswerFrame DEF Resolved, GaveUp
<1>3. CASE q = r /\ (Claim(r) \/ ClaimThrows(r) \/ GetRecord(r) \/ Dispatch(r) \/ NotAccepted(r)
                    \/ Answered(r) \/ FlowFails(r) \/ Unanswered(r))
  <2>1. pc[r] \in {"begin", "get", "send", "waiting"}
    BY <1>3 DEF Claim, ClaimThrows, GetRecord, Dispatch, NotAccepted, Answered, FlowFails, Unanswered
  <2> QED BY <1>1, <1>3, <2>1 DEF ErrorAt, Resolved, GaveUp, NoAnswer
<1>4. CASE q = r /\ Succeed(r)
  <2>1. answer'[r].kind = "own" /\ pc[r] = "succeed"
    BY <1>4, TypeParts DEF Succeed, Answers
  <2> QED BY <1>1, <1>4, <2>1 DEF ErrorAt, Resolved, GaveUp
<1>5. CASE q = r /\ SucceedThrows(r)
  <2>1. error'[r].kind = "bookkeeping" /\ pc[r] = "succeed"
    BY <1>5, TypeParts DEF SucceedThrows
  <2> QED BY <1>1, <1>5, <2>1 DEF ErrorAt, Resolved, GaveUp
<1>6. CASE q = r /\ (Settle(r) \/ SettleThrows(r) \/ StoreFailure(r) \/ ReleaseKey(r))
  <2>1. pc[r] \in {"failed", "store", "release"} /\ error' = error
    BY <1>6 DEF Settle, SettleThrows, StoreFailure, ReleaseKey
  <2> QED BY <1>1, <1>6, <2>1 DEF ErrorAt, Resolved, GaveUp, NoAnswer
<1>7. CASE q = r /\ Fail(r)
  <2>1. pc[r] = "fail" /\ error' = error /\ pc'[r] = "end" /\ answer'[r].kind = "threw"
    BY <1>7, EndsAt, TypeParts DEF Fail, Answers
  <2> QED BY <1>1, <1>7, <2>1 DEF ErrorAt, Resolved, GaveUp, NoAnswer
<1> QED BY <1>2, <1>3, <1>4, <1>5, <1>6, <1>7 DEF Step

\* What a step leaves of the entry of its key, and what has happened to the request by then.
LEMMA EntryWritten ==
  ASSUME TypeOK, ErrorInv, NEW r \in Requests, Step(r)
  PROVE  \/ entry'[Key(r)] \in {Record(r), Absent, Begun(r)}
         \/ entry'[Key(r)] = CompletedWith("reply", r) /\ Resolved(r)'
         \/ entry'[Key(r)] = CompletedWith("failure", r) /\ GaveUp(r)'
         \/ entry'[Key(r)] = FailedEntry(r) /\ error'[r].kind # "none"
<1>1. /\ entry \in [Keys -> Entries] /\ Key(r) \in Keys /\ Record(r) = entry[Key(r)]
  BY TypeParts, KeyType DEF Record
<1>2. \A e : Stores(r, e) \/ Throws(r, e) => entry'[Key(r)] \in {Record(r), e}
  BY <1>1 DEF Stores, Throws
<1>3. ErrorAt(r)
  BY DEF ErrorInv
<1>4. CASE Claim(r) \/ ClaimThrows(r) \/ GetRecord(r)
  <2>1. UNCHANGED entry \/ \E e \in {Record(r), Absent, Begun(r)} : Stores(r, e) \/ Throws(r, e)
    BY <1>4 DEF Claim, ClaimThrows, GetRecord
  <2> QED BY <1>1, <1>2, <2>1
<1>5. CASE Dispatch(r) \/ NotAccepted(r) \/ Answered(r) \/ FlowFails(r) \/ Unanswered(r) \/ Settle(r)
  BY <1>1, <1>5 DEF Dispatch, NotAccepted, Answered, FlowFails, Unanswered, Settle, DispatchFails
<1>6. CASE Succeed(r) \/ SucceedThrows(r)
  <2>1. Resolved(r) /\ (Stores(r, CompletedWith("reply", r)) \/ Throws(r, CompletedWith("reply", r)))
    BY <1>6 DEF Succeed, SucceedThrows, Resolved
  <2> QED BY <1>2, <2>1, FirmStep
<1>7. CASE StoreFailure(r) \/ (SettleThrows(r) /\ pc[r] = "store")
  <2>1. Stores(r, CompletedWith("failure", r)) \/ Throws(r, CompletedWith("failure", r))
    BY <1>7 DEF StoreFailure, SettleThrows
  <2>2. pc'[r] \in {"fail", "end"} /\ error' = error
    BY <1>7, EndsAt, GoesTo DEF StoreFailure, SettleThrows
  <2>3. answer'[r].kind \in {"none", "threw"}
    BY <1>3, <1>7, TypeParts DEF StoreFailure, SettleThrows, Answers, ErrorAt, NoAnswer
  <2>4. GaveUp(r)'
    BY <1>3, <1>7, <2>2, <2>3 DEF GaveUp, ErrorAt, StoreFailure
  <2> QED BY <1>2, <2>1, <2>4
<1>8. CASE ReleaseKey(r) \/ (SettleThrows(r) /\ pc[r] # "store")
  <2>1. Stores(r, Absent) \/ Throws(r, Absent)
    BY <1>8 DEF ReleaseKey, SettleThrows
  <2> QED BY <1>2, <2>1
<1>9. CASE Fail(r)
  <2>1. Stores(r, FailedEntry(r)) \/ Throws(r, FailedEntry(r))
    BY <1>9 DEF Fail
  <2>2. error'[r].kind # "none"
    BY <1>3, <1>9 DEF Fail, ErrorAt
  <2> QED BY <1>2, <2>1, <2>2
<1> QED BY <1>4, <1>5, <1>6, <1>7, <1>8, <1>9 DEF Step

LEMMA TellsStep ==
  ASSUME TypeOK, TellsInv, policy' = policy, NEW r \in Requests, Step(r), NEW k \in Keys
  PROVE  Tells(k)'
<1>1. \A q : Key(q)' = Key(q)
  BY DEF Key
<1>2. /\ Tells(k) /\ ErrorInv
      /\ \A q \in Requests : /\ Resolved(q) => Resolved(q)'
                             /\ GaveUp(q) => GaveUp(q)'
                             /\ error[q].kind # "none" => error'[q].kind # "none"
  BY FirmStep DEF TellsInv
<1>3. CASE entry'[k] = entry[k]
  BY <1>1, <1>2, <1>3 DEF Tells, Resolved, GaveUp
<1>4. CASE k # Key(r)
  BY <1>3, <1>4, EntriesStep
<1>5. CASE k = Key(r) /\ entry'[k] # entry[k]
  <2>1. Record(r) = entry[k] /\ Record(r) \in Entries
    BY <1>5, EntryTypes DEF Record, Sound
  <2>2. CASE entry'[k] \in {Absent, Begun(r)}
    BY <2>2 DEF Tells, Absent, Begun
  <2>3. CASE entry'[k] = CompletedWith("reply", r) /\ Resolved(r)'
    <3>1. entry'[k].of = r /\ entry'[k].what = "reply" /\ entry'[k].status = "completed"
      BY <1>5, <2>1, <2>3 DEF CompletedWith, Entries
    <3> QED BY <1>1, <1>5, <2>3, <3>1 DEF Tells, Resolved
  <2>4. CASE entry'[k] = CompletedWith("failure", r) /\ GaveUp(r)'
    <3>1. entry'[k].of = r /\ entry'[k].what = "failure" /\ entry'[k].status = "completed"
      BY <1>5, <2>1, <2>4 DEF CompletedWith, Entries
    <3> QED BY <1>1, <1>5, <2>4, <3>1 DEF Tells, GaveUp
  <2>5. CASE entry'[k] = FailedEntry(r) /\ error'[r].kind # "none"
    <3>1. entry'[k].of = entry[k].of /\ entry'[k].what = entry[k].what /\ entry'[k].status = "failed"
      BY <1>5, <2>1, <2>5 DEF FailedEntry, Entries
    <3> QED BY <1>1, <1>2, <1>5, <2>5, <3>1 DEF Tells, Resolved, GaveUp
  <2> QED BY <1>2, <1>5, <2>1, <2>2, <2>3, <2>4, <2>5, EntryWritten
<1> QED BY <1>3, <1>4, <1>5

\* A repeat is told what the entry tells, of a request other than itself.
LEMMA RepeatTells ==
  ASSUME TypeOK, TellsInv, NEW r \in Requests, pc[r] = "get", Repeat(r)
  PROVE  LET said == answer'[r] IN
         /\ said.kind \in {"replayed", "duplicate", "storedFailure", "rejected"}
         /\ said.kind = "replayed" \/ said.as = "completed" =>
              said.of \in Requests /\ Resolved(said.of) /\ Same(r, said.of)
         /\ said.kind = "storedFailure" => said.of \in Requests /\ Same(r, said.of) /\ GaveUp(said.of)
         /\ said.as = "failed" => \E q \in Requests : Same(r, q) /\ error[q].kind # "none"
<1>1. Tells(Key(r)) /\ Record(r) = entry[Key(r)] /\ Record(r) \in Entries
  BY KeyType, TypeParts DEF TellsInv, Record
<1>2. error[r].kind = "none" /\ answer[r] = NoAnswer
  BY DEF TellsInv, ErrorInv, ErrorAt
<1>3. \A q \in Requests : (Resolved(q) \/ GaveUp(q) \/ error[q].kind # "none") => q # r
  BY <1>2 DEF Resolved, GaveUp, NoAnswer
<1>4. ASSUME NEW kind, NEW of, NEW as, Answers(r, kind, of, as)
      PROVE  answer'[r] = [kind |-> kind, of |-> of, as |-> as]
  BY <1>4, TypeParts DEF Answers
<1>5. CASE Record(r).live /\ Record(r).status = "completed" /\ Record(r).what = "failure"
  <2>1. Answers(r, "storedFailure", Record(r).of, "none")
    BY <1>5 DEF Repeat
  <2>2. answer'[r] = [kind |-> "storedFailure", of |-> Record(r).of, as |-> "none"]
    BY <1>4, <2>1
  <2>3. Record(r).of \in Requests /\ Key(Record(r).of) = Key(r) /\ GaveUp(Record(r).of)
    BY <1>1, <1>5 DEF Tells
  <2> QED BY <1>3, <2>2, <2>3 DEF Same
<1>6. CASE Record(r).live /\ Record(r).status = "completed" /\ Record(r).what # "failure"
  <2>1. Record(r).what = "reply"
    BY <1>1, <1>6 DEF Tells, Entries
  <2>2. Record(r).of \in Requests /\ Key(Record(r).of) = Key(r) /\ Resolved(Record(r).of)
    BY <1>1, <2>1 DEF Tells
  <2>3. \/ Answers(r, "replayed", Record(r).of, "none")
        \/ Answers(r, "duplicate", Record(r).of, "completed")
    BY <1>6 DEF Repeat
  <2>4. \/ answer'[r] = [kind |-> "replayed", of |-> Record(r).of, as |-> "none"]
        \/ answer'[r] = [kind |-> "duplicate", of |-> Record(r).of, as |-> "completed"]
    BY <1>4, <2>3
  <2> QED BY <1>3, <2>2, <2>4 DEF Same
<1>7. CASE Record(r).live /\ Record(r).status = "failed"
  <2>1. Answers(r, "duplicate", Nobody, "failed")
    BY <1>7 DEF Repeat
  <2>2. answer'[r] = [kind |-> "duplicate", of |-> Nobody, as |-> "failed"]
    BY <1>4, <2>1
  <2>3. PICK q \in Requests : Key(q) = Key(r) /\ error[q].kind # "none"
    BY <1>1, <1>7 DEF Tells
  <2> QED BY <1>3, <2>2, <2>3 DEF Same
<1>8. CASE ~(Record(r).live /\ Record(r).status \in {"completed", "failed"})
  <2>1. Answers(r, "duplicate", Nobody, "in-flight") \/ Answers(r, "rejected", Nobody, "none")
    BY <1>8 DEF Repeat
  <2>2. \/ answer'[r] = [kind |-> "duplicate", of |-> Nobody, as |-> "in-flight"]
        \/ answer'[r] = [kind |-> "rejected", of |-> Nobody, as |-> "none"]
    BY <1>4, <2>1
  <2> QED BY <2>2
<1> QED BY <1>5, <1>6, <1>7, <1>8

LEMMA TruthStep ==
  ASSUME TypeOK, TellsInv, policy' = policy, NEW r \in Requests, Step(r), NEW q \in Requests
  PROVE  Truthful(q)'
<1>1. \A p : Key(p)' = Key(p)
  BY DEF Key
<1>2. \A p \in Requests : /\ Resolved(p) => Resolved(p)'
                          /\ GaveUp(p) => GaveUp(p)'
                          /\ error[p].kind # "none" => error'[p].kind # "none"
  BY FirmStep DEF TellsInv
<1>3. Truthful(q)
  BY DEF TellsInv
<1>4. \A p : Same(q, p) => Same(q, p)'
  BY <1>1 DEF Same
<1>5. CASE answer'[q] = answer[q]
  BY <1>2, <1>3, <1>4, <1>5 DEF Truthful
<1>6. CASE q = r /\ GetRecord(r)
  <2>1. Repeat(r) /\ pc[r] = "get"
    BY <1>6 DEF GetRecord
  <2>2. LET said == answer'[r] IN
         /\ said.kind \in {"replayed", "duplicate", "storedFailure", "rejected"}
         /\ said.kind = "replayed" \/ said.as = "completed" =>
              said.of \in Requests /\ Resolved(said.of) /\ Same(r, said.of)
         /\ said.kind = "storedFailure" => said.of \in Requests /\ Same(r, said.of) /\ GaveUp(said.of)
         /\ said.as = "failed" => \E p \in Requests : Same(r, p) /\ error[p].kind # "none"
    BY <2>1, RepeatTells
  <2> QED BY <1>2, <1>4, <1>6, <2>2 DEF Truthful
<1>7. ASSUME q = r, NEW kind \in {"threw", "own"}, NEW of, Answers(r, kind, of, "none"), kind = "own" => of = r
      PROVE  Truthful(q)'
  <2>1. answer'[q] = [kind |-> kind, of |-> of, as |-> "none"]
    BY <1>7, TypeParts DEF Answers
  <2> QED BY <1>7, <2>1 DEF Truthful
<1>8. CASE q = r /\ (ClaimThrows(r) \/ Succeed(r) \/ StoreFailure(r) \/ ReleaseKey(r) \/ Fail(r))
  BY <1>7, <1>8 DEF ClaimThrows, Succeed, StoreFailure, ReleaseKey, Fail
<1>9. CASE q = r /\ (NotAccepted(r) \/ Answered(r) \/ FlowFails(r) \/ Unanswered(r))
  BY <1>5, <1>7, <1>9 DEF NotAccepted, Answered, FlowFails, Unanswered, DispatchFails
<1>10. CASE q = r /\ (Claim(r) \/ Dispatch(r) \/ SucceedThrows(r) \/ Settle(r) \/ SettleThrows(r))
  BY <1>5, <1>10 DEF Claim, Dispatch, SucceedThrows, Settle, NextCall, SettleThrows
<1>11. CASE q # r
  BY <1>5, <1>11, AnswerFrame
<1> QED BY <1>6, <1>8, <1>9, <1>10, <1>11 DEF Step

LEMMA TellsNext == TypeOK /\ TellsInv /\ [Next]_vars => TellsInv'
<1> SUFFICES ASSUME TypeOK, TellsInv, [Next]_vars PROVE TellsInv'
  OBVIOUS
<1>1. policy' = policy /\ Keys' = Keys /\ \A r \in Requests : Key(r)' = Key(r)
  BY PolicyFixed
<1>2. ASSUME NEW r \in Requests, Step(r) PROVE TellsInv'
  <2>1. ErrorInv'
    BY <1>2, ErrorStep DEF TellsInv
  <2>2. \A k \in Keys : Tells(k)'
    BY <1>1, <1>2, TellsStep
  <2>3. \A q \in Requests : Truthful(q)'
    BY <1>1, <1>2, TruthStep
  <2> QED BY <1>1, <2>1, <2>2, <2>3 DEF TellsInv
<1>3. ASSUME UNCHANGED <<pc, error, answer>>,
             \A k \in Keys : \/ /\ entry'[k].status = entry[k].status
                                /\ entry'[k].what = entry[k].what /\ entry'[k].of = entry[k].of
                             \/ entry'[k] = Absent
      PROVE  TellsInv'
  <2>1. \A r : (Resolved(r)' <=> Resolved(r)) /\ (GaveUp(r)' <=> GaveUp(r))
    BY <1>3 DEF Resolved, GaveUp
  <2>2. ErrorInv'
    BY <1>3 DEF TellsInv, ErrorInv, ErrorAt
  <2>3. ASSUME NEW k \in Keys PROVE Tells(k)'
    <3>1. CASE entry'[k] = Absent
      BY <3>1 DEF Tells, Absent
    <3>2. CASE /\ entry'[k].status = entry[k].status
               /\ entry'[k].what = entry[k].what /\ entry'[k].of = entry[k].of
      BY <1>1, <1>3, <2>1, <3>2 DEF TellsInv, Tells
    <3> QED BY <1>3, <3>1, <3>2
  <2>4. ASSUME NEW r \in Requests PROVE Truthful(r)'
    BY <1>1, <1>3, <2>1 DEF TellsInv, Truthful, Same
  <2> QED BY <1>1, <2>2, <2>3, <2>4 DEF TellsInv
<1>4. ASSUME NEW r \in Requests, FlowEnds(r) PROVE TellsInv'
  BY <1>3, <1>4 DEF FlowEnds
<1>5. ASSUME NEW k \in Keys, Expire(k) PROVE TellsInv'
  BY <1>3, <1>5, TypeParts DEF Expire, Entries
<1>6. CASE PurgeExpired
  BY <1>3, <1>6 DEF PurgeExpired
<1>7. CASE UNCHANGED vars
  BY <1>3, <1>7 DEF vars
<1> QED BY <1>2, <1>4, <1>5, <1>6, <1>7 DEF Next, AllEnded

\* What a repeat is told happened, did, for any requests, tenants and endpoints, whatever the policy,
\* the store and the TTL do: complete() writes the reply of its own caller and only after the dispatch
\* resolved, fail() and a stored failure follow an error, and a repeat reads the entry of its own key
\* (succeed, failed, settle, completedRepeat, resolveRepeat).
THEOREM RepeatsTellTheTruth == Spec => []RepeatsAreTrue
<1>1. ASSUME Init PROVE TellsInv
  <2>1. /\ \A r \in Requests : pc[r] = "begin" /\ error[r] = NoError /\ answer[r] = NoAnswer
        /\ \A k \in Keys : entry[k] = Absent
    BY <1>1 DEF Init
  <2>2. ErrorInv
    BY <2>1 DEF ErrorInv, ErrorAt, NoError
  <2>3. \A k \in Keys : Tells(k)
    BY <2>1 DEF Tells, Absent
  <2>4. \A r \in Requests : Truthful(r)
    BY <2>1 DEF Truthful, NoAnswer
  <2> QED BY <2>2, <2>3, <2>4 DEF TellsInv
<1>2. ASSUME TellsInv, TypeOK PROVE RepeatsAreTrue
  <2> SUFFICES ASSUME NEW r \in Requests, NEW first, first = answer[r].of
               PROVE  /\ answer[r].kind = "replayed" \/ answer[r].as = "completed" =>
                           Resolved(first) /\ Same(r, first)
                      /\ answer[r].kind = "storedFailure" =>
                           /\ Same(r, first) /\ error[first].kind \in {"business", "unanswered"}
                           /\ ~Resolved(first)
                      /\ answer[r].as = "failed" => \E q \in Requests : Same(r, q) /\ error[q].kind # "none"
    BY DEF RepeatsAreTrue
  <2>1. Truthful(r)
    BY <1>2 DEF TellsInv
  <2>2. GaveUp(first) => error[first].kind \in {"business", "unanswered"} /\ ~Resolved(first)
    BY DEF GaveUp, Resolved
  <2> QED BY <2>1, <2>2 DEF Truthful
<1> QED BY <1>1, <1>2, TellsNext, GateTypeCorrect, PTL DEF Spec

-----------------------------------------------------------------------------
(* The keys that are handed down with the messages. *)

\* What the plan says of the key it hands down, when the endpoint does not ask for it.
ForwardOK ==
  /\ policy.forward \in {"raw", "resolved", "none"}
  /\ policy.forward = "raw" => ~policy.keyed
  /\ ~policy.claims /\ policy.forward # "none" => policy.forward = "raw" /\ ~policy.requestReply
  /\ policy.claims /\ policy.forward # "none" => policy.onFailure = "keep"

LEMMA DefaultForward ==
  ASSUME NEW e, ~Refused(e.spec, e.module), ForwardsByDefault(e)
  PROVE  LET plan == Plan(e.spec, e.module) IN
         /\ plan.forward \in {"raw", "resolved", "none"}
         /\ plan.forward = "raw" => ~plan.keyed
         /\ ~plan.claims /\ plan.forward # "none" => plan.forward = "raw" /\ ~plan.requestReply
         /\ plan.claims /\ plan.forward # "none" => plan.onFailure = "keep"
<1> DEFINE merged == Merged(e.spec, e.module)
           o == merged.options
           plan == Plan(e.spec, e.module)
<1>1. /\ plan.forward = Forward(e.spec, e.module) /\ plan.onFailure = FailureMode(o)
      /\ plan.requestReply = Get(e.spec, "requestReply", FALSE)
      /\ (plan.claims <=> merged.enabled /\ StoreOf(e.spec, e.module) # {})
      /\ (plan.keyed <=> merged.enabled /\ "key" \in DOMAIN o)
  BY DEF Plan
<1>2. StoreOf(e.spec, e.module) # {}
  BY DEF StoreOf, ForwardsByDefault
<1>3. \/ "forward" \in DOMAIN o /\ o.forward = "none"
      \/ "forward" \in DOMAIN o /\ o.forward = "resolved" /\ merged.enabled
      \/ "forward" \notin DOMAIN o
  BY DEF ForwardsByDefault, Get
<1>4. CASE ~merged.enabled
  <2>1. plan.forward = IF Get(e.spec, "requestReply", FALSE) \/ "key" \in DOMAIN o \/ "forward" \in DOMAIN o
                       THEN "none" ELSE "raw"
    BY <1>1, <1>3, <1>4 DEF Forward, Get
  <2> QED BY <1>1, <1>4, <2>1
<1>5. CASE merged.enabled
  <2>1. FailureIsActive(o) => Get(o, "forward", "none") = "none"
    BY <1>5 DEF Refused
  <2>2. FailureIsActive(o) <=> FailureMode(o) # "keep"
    BY DEF FailureIsActive
  <2>3. CASE "forward" \in DOMAIN o
    <3>1. plan.forward = o.forward
      BY <1>1, <1>5, <2>3 DEF Forward, Get
    <3>2. o.forward # "none" => FailureMode(o) = "keep"
      BY <2>1, <2>2, <2>3 DEF Get
    <3> QED BY <1>1, <1>2, <1>3, <1>5, <2>3, <3>1, <3>2
  <2>4. CASE "forward" \notin DOMAIN o
    <3>1. plan.forward = IF "key" \in DOMAIN o \/ FailureIsActive(o) THEN "none" ELSE "raw"
      BY <1>1, <1>5, <2>4 DEF Forward, Get
    <3> QED BY <1>1, <1>2, <1>5, <2>2, <3>1
  <2> QED BY <2>3, <2>4
<1> QED BY <1>4, <1>5

\* Has claimed its key and not been turned away by the dispatch.
Sent(r) == pc[r] = "send" \/ flow[r] # "none"

\* Whoever sent in the term of now keeps the entry alive, as nothing is released.
LiveInv ==
  policy.claims /\ policy.forward # "none" =>
    /\ \A r \in Requests : pc[r] # "release"
    /\ \A r \in Requests : Sent(r) /\ term[r] = terms[Key(r)] => Record(r).live
    /\ \A r, q \in Requests : Same(r, q) /\ Sent(r) /\ Sent(q) => term[r] # term[q]

\* The scope of the flow knows the keys of the requests that were dispatched, and no others.
ScopeInv ==
  /\ \A k \in handed : \E q \in Requests : flow[q] # "none" /\ k \in Forwarded(policy, "client", Key(q))
  /\ \A r \in Requests : flow[r] = "dropped" =>
       policy.forward # "none" /\ \E q \in Requests : Same(r, q) /\ flow[q] # "none"

\* A request has claimed in a term that has begun.
TermsBegun == \A r \in Requests : term[r] <= terms[Key(r)]

SilenceInv == PolicyOK /\ ForwardOK /\ MemoryInv /\ TermsBegun /\ LiveInv /\ ScopeInv

\* A flow starts with the dispatch only.
LEMMA FlowStep ==
  ASSUME TypeOK, NEW r \in Requests, Step(r)
  PROVE  \/ UNCHANGED <<flow, handed>>
         \/ Dispatch(r)
BY DEF Step, Claim, ClaimThrows, GetRecord, NotAccepted, Answered, FlowFails, Unanswered, DispatchFails,
       Succeed, SucceedThrows, Settle, StoreFailure, ReleaseKey, SettleThrows, Fail

LEMMA ScopeStep ==
  ASSUME TypeOK, SilenceInv, policy' = policy, NEW r \in Requests, Step(r)
  PROVE  ScopeInv'
<1>1. \A q : Key(q)' = Key(q)
  BY DEF Key
<1>2. CASE UNCHANGED <<flow, handed>>
  BY <1>1, <1>2 DEF SilenceInv, ScopeInv, Same
<1>3. CASE Dispatch(r)
  <2> DEFINE keys == Forwarded(policy, "client", Key(r))
  <2>1. /\ handed' = handed \cup keys /\ flow[r] = "none"
        /\ flow'[r] = IF keys \cap handed = {} THEN "running" ELSE "dropped"
        /\ \A q \in Requests \ {r} : flow'[q] = flow[q]
    BY <1>3, TypeParts DEF Dispatch, SilenceInv, MemoryInv, Memory
  <2>2. \A q \in Requests : flow[q] # "none" => flow'[q] # "none"
    BY <2>1
  <2>3. \A k \in handed' : \E q \in Requests : flow'[q] # "none" /\ k \in Forwarded(policy, "client", Key(q))
    <3>1. ASSUME NEW k \in handed PROVE \E q \in Requests : flow'[q] # "none" /\ k \in Forwarded(policy, "client", Key(q))
      BY <2>2, <3>1 DEF SilenceInv, ScopeInv
    <3>2. ASSUME NEW k \in keys PROVE flow'[r] # "none" /\ k \in Forwarded(policy, "client", Key(r))
      BY <2>1, <3>2
    <3> QED BY <2>1, <3>1, <3>2
  <2>4. ASSUME flow'[r] = "dropped"
        PROVE  policy.forward # "none" /\ \E q \in Requests : Same(r, q) /\ flow[q] # "none"
    <3>1. PICK k : k \in keys /\ k \in handed
      BY <2>1, <2>4
    <3>2. PICK q \in Requests : flow[q] # "none" /\ k \in Forwarded(policy, "client", Key(q))
      BY <3>1 DEF SilenceInv, ScopeInv
    <3>3. ForwardOK
      BY DEF SilenceInv
    <3>4. CASE policy.forward = "raw"
      <4>1. Key(r) = Key(q)
        BY <3>3, <3>4 DEF ForwardOK, Key
      <4> QED BY <2>1, <3>2, <3>4, <4>1 DEF Same
    <3>5. CASE policy.forward # "raw"
      <4>1. policy.forward = "resolved" /\ k = Key(r) /\ k = Key(q)
        BY <3>1, <3>2, <3>5 DEF Forwarded
      <4> QED BY <2>1, <3>2, <4>1 DEF Same
    <3> QED BY <3>4, <3>5
  <2>5. ASSUME NEW p \in Requests, flow'[p] = "dropped"
        PROVE  policy.forward # "none" /\ \E q \in Requests : Same(p, q) /\ flow'[q] # "none"
    <3>1. policy.forward # "none" /\ \E q \in Requests : Same(p, q) /\ flow[q] # "none"
      BY <2>1, <2>4, <2>5 DEF SilenceInv, ScopeInv
    <3> QED BY <2>2, <3>1
  <2> QED BY <1>1, <2>3, <2>5 DEF ScopeInv, Same
<1> QED BY <1>2, <1>3, FlowStep

LEMMA LiveStep ==
  ASSUME TypeOK, SilenceInv, policy' = policy, NEW r \in Requests, Step(r)
  PROVE  LiveInv'
<1> SUFFICES ASSUME policy.claims, policy.forward # "none"
             PROVE  /\ \A q \in Requests : pc'[q] # "release"
                    /\ \A q \in Requests : Sent(q)' /\ term'[q] = terms'[Key(q)] => entry'[Key(q)].live
                    /\ \A p, q \in Requests : Same(p, q) /\ Sent(p)' /\ Sent(q)' => term'[p] # term'[q]
  BY DEF LiveInv, Same, Record, Key
<1>1. /\ policy.onFailure = "keep" /\ MemoryInv
      /\ \A q \in Requests : pc[q] # "release"
      /\ \A q \in Requests : Sent(q) /\ term[q] = terms[Key(q)] => entry[Key(q)].live
      /\ \A p, q \in Requests : Same(p, q) /\ Sent(p) /\ Sent(q) => term[p] # term[q]
  BY DEF SilenceInv, ForwardOK, LiveInv, Record
<1>2. /\ terms' = terms /\ \A q \in Requests \ {r} : (Sent(q)' <=> Sent(q)) /\ term'[q] = term[q]
      /\ \A q \in Requests \ {r} : pc'[q] = pc[q]
  BY Frame DEF Sent
<1>3. \A q \in Requests : entry[Key(q)].live => entry'[Key(q)].live
  <2>1. entry[Key(r)].live => entry'[Key(r)].live
    BY <1>1, EntryKept, TypeParts, KeyType DEF Record, Entries
  <2> QED BY <2>1, EntriesStep, KeyType
<1>4. pc'[r] # "release"
  <2>1. CASE Settle(r)
    <3>1. PICK action \in Decisions(r) : NextCall(r, action)
      BY <2>1 DEF Settle
    <3>2. action = "keep"
      BY <1>1, <3>1 DEF Decisions
    <3> QED BY <3>1, <3>2, GoesTo DEF NextCall
  <2>2. CASE Claim(r) \/ Dispatch(r) \/ SucceedThrows(r) \/ SettleThrows(r)
    BY <2>2, GoesTo DEF Claim, Dispatch, SucceedThrows, SettleThrows
  <2>3. CASE ClaimThrows(r) \/ GetRecord(r) \/ Succeed(r) \/ StoreFailure(r) \/ ReleaseKey(r) \/ Fail(r)
    BY <2>3, EndsAt DEF ClaimThrows, GetRecord, Repeat, Succeed, StoreFailure, ReleaseKey, Fail
  <2>4. CASE NotAccepted(r) \/ Answered(r) \/ FlowFails(r) \/ Unanswered(r)
    BY <2>4, EndsAt, GoesTo DEF NotAccepted, Answered, FlowFails, Unanswered, DispatchFails
  <2> QED BY <2>1, <2>2, <2>3, <2>4 DEF Step
<1>5. CASE Claim(r) /\ pc'[r] = "send"
  <2>1. ~entry[Key(r)].live /\ entry' = [entry EXCEPT ![Key(r)] = Begun(r)] /\ term'[r] = terms[Key(r)]
    <3>1. ~Record(r).live
      BY <1>5, GoesTo DEF Claim
    <3> QED BY <1>5, <3>1, TypeParts DEF Claim, Stores, Record
  <2>2. entry'[Key(r)].live
    BY <2>1, TypeParts, KeyType DEF Begun
  <2>3. ASSUME NEW q \in Requests, Same(r, q), Sent(q) PROVE term[q] # terms[Key(r)]
    BY <1>1, <2>1, <2>3 DEF Same
  <2> QED BY <1>1, <1>2, <1>3, <1>4, <2>1, <2>2, <2>3 DEF Same
<1>6. CASE ~Claim(r) \/ pc'[r] # "send"
  <2>1. term'[r] = term[r]
    <3>1. CASE Claim(r)
      BY <1>6, <3>1, GoesTo DEF Claim
    <3>2. CASE ~Claim(r)
      BY <3>2
         DEF Step, ClaimThrows, GetRecord, Dispatch, NotAccepted, Answered, FlowFails, Unanswered,
             DispatchFails, Succeed, SucceedThrows, Settle, StoreFailure, ReleaseKey, SettleThrows, Fail
    <3> QED BY <3>1, <3>2
  <2>2. pc'[r] # "send"
    <3>1. CASE Settle(r)
      <4>1. PICK action \in Decisions(r) : NextCall(r, action)
        BY <3>1 DEF Settle
      <4> QED BY <4>1, GoesTo DEF NextCall
    <3>2. CASE Claim(r)
      BY <1>6, <3>2
    <3>3. CASE Dispatch(r) \/ SucceedThrows(r) \/ SettleThrows(r)
      BY <3>3, GoesTo DEF Dispatch, SucceedThrows, SettleThrows
    <3>4. CASE ClaimThrows(r) \/ GetRecord(r) \/ Succeed(r) \/ StoreFailure(r) \/ ReleaseKey(r) \/ Fail(r)
      BY <3>4, EndsAt DEF ClaimThrows, GetRecord, Repeat, Succeed, StoreFailure, ReleaseKey, Fail
    <3>5. CASE NotAccepted(r) \/ Answered(r) \/ FlowFails(r) \/ Unanswered(r)
      BY <3>5, EndsAt, GoesTo DEF NotAccepted, Answered, FlowFails, Unanswered, DispatchFails
    <3> QED BY <3>1, <3>2, <3>3, <3>4, <3>5 DEF Step
  <2>3. Sent(r)' => Sent(r)
    BY <2>2, FlowStep DEF Sent, Dispatch
  <2>4. \A q \in Requests : (Sent(q)' => Sent(q)) /\ term'[q] = term[q]
    BY <1>2, <2>1, <2>3
  <2> QED BY <1>1, <1>2, <1>3, <1>4, <2>4
<1> QED BY <1>5, <1>6

LEMMA TermsStep ==
  ASSUME TypeOK, TermsBegun, policy' = policy, NEW r \in Requests, Step(r)
  PROVE  TermsBegun'
<1>1. term' = term \/ term' = [term EXCEPT ![r] = terms[Key(r)]]
  BY DEF Step, Claim, ClaimThrows, GetRecord, Dispatch, NotAccepted, Answered, FlowFails, Unanswered,
         DispatchFails, Succeed, SucceedThrows, Settle, StoreFailure, ReleaseKey, SettleThrows, Fail
<1>2. terms' = terms /\ \A q \in Requests : Key(q)' = Key(q) /\ terms[Key(q)] \in Nat
  BY Frame, TypeParts, KeyType, RequestsAssumption DEF Key
<1> QED BY <1>1, <1>2, TypeParts DEF TermsBegun

LEMMA SilenceNext == TypeOK /\ SilenceInv /\ [Next]_vars => SilenceInv'
<1> SUFFICES ASSUME TypeOK, SilenceInv, [Next]_vars PROVE SilenceInv'
  OBVIOUS
<1>1. policy' = policy /\ Keys' = Keys /\ (\A q : Key(q)' = Key(q)) /\ ForwardOK' /\ PolicyOK'
  BY PolicyFixed DEF SilenceInv, ForwardOK, PolicyOK, Key
<1>2. ASSUME NEW r \in Requests, Step(r) PROVE SilenceInv'
  <2>1. MemoryInv'
    BY <1>1, <1>2, MemoryStep DEF SilenceInv
  <2> QED BY <1>1, <1>2, <2>1, TermsStep, ScopeStep, LiveStep DEF SilenceInv
<1>3. ASSUME NEW r \in Requests, FlowEnds(r) PROVE SilenceInv'
  <2>1. /\ UNCHANGED <<pc, entry, handed, error, terms, term, outlived, policy>>
        /\ flow[r] = "running" /\ flow'[r] \in {"ok", "bad"}
        /\ \A q \in Requests \ {r} : flow'[q] = flow[q]
    BY <1>1, <1>3, TypeParts DEF FlowEnds
  <2>2. \A q \in Requests : /\ flow'[q] = "none" <=> flow[q] = "none"
                            /\ flow'[q] = "dropped" <=> flow[q] = "dropped"
                            /\ Works(q)' => Works(q)
    BY <2>1 DEF Works
  <2>3. \A q \in Requests : Sent(q)' <=> Sent(q)
    BY <2>1, <2>2 DEF Sent
  <2>4. MemoryInv'
    BY <2>1, <2>2 DEF SilenceInv, MemoryInv, Memory
  <2>5. LiveInv'
    BY <1>1, <2>1, <2>3 DEF SilenceInv, LiveInv, Same, Record
  <2>6. ScopeInv'
    BY <1>1, <2>1, <2>2 DEF SilenceInv, ScopeInv, Same
  <2>7. TermsBegun'
    BY <1>1, <2>1 DEF SilenceInv, TermsBegun
  <2> QED BY <1>1, <2>4, <2>5, <2>6, <2>7 DEF SilenceInv
<1>4. ASSUME UNCHANGED <<pc, handed, flow, error, term>>, TermsBegun',
             \A r \in Requests :
                \/ terms'[Key(r)] = terms[Key(r)] /\ (Record(r).live => entry'[Key(r)].live)
                \/ term[r] # terms'[Key(r)]
      PROVE  SilenceInv'
  <2>1. MemoryInv' /\ ScopeInv'
    BY <1>1, <1>4 DEF SilenceInv, MemoryInv, Memory, ScopeInv, Works, Same
  <2>2. \A q : Sent(q)' <=> Sent(q)
    BY <1>4 DEF Sent
  <2>3. LiveInv'
    BY <1>1, <1>4, <2>2 DEF SilenceInv, LiveInv, Same, Record
  <2> QED BY <1>1, <1>4, <2>1, <2>3 DEF SilenceInv
<1>5. ASSUME NEW k \in Keys, Expire(k) PROVE SilenceInv'
  <2>1. ASSUME NEW r \in Requests
        PROVE  \/ terms'[Key(r)] = terms[Key(r)] /\ (Record(r).live => entry'[Key(r)].live)
               \/ term[r] # terms'[Key(r)]
    <3>1. term[r] <= terms[Key(r)] /\ term[r] \in Nat /\ terms[Key(r)] \in Nat /\ Key(r) \in Keys
      BY TypeParts, KeyType, RequestsAssumption DEF SilenceInv, TermsBegun
    <3>2. CASE Key(r) = k
      BY <1>5, <3>1, <3>2, TypeParts DEF Expire
    <3>3. CASE Key(r) # k
      BY <1>5, <3>1, <3>3, TypeParts DEF Expire, Record
    <3> QED BY <3>2, <3>3
  <2>2. ASSUME NEW r \in Requests PROVE term[r] <= terms'[Key(r)]
    <3>1. term[r] <= terms[Key(r)] /\ term[r] \in Nat /\ terms[Key(r)] \in Nat /\ Key(r) \in Keys
      BY TypeParts, KeyType, RequestsAssumption DEF SilenceInv, TermsBegun
    <3> QED BY <1>5, <3>1, TypeParts DEF Expire
  <2>3. TermsBegun'
    BY <1>1, <1>5, <2>2 DEF TermsBegun, Expire
  <2> QED BY <1>4, <1>5, <2>1, <2>3 DEF Expire
<1>6. CASE PurgeExpired
  <2>1. TermsBegun'
    BY <1>1, <1>6 DEF PurgeExpired, SilenceInv, TermsBegun
  <2> QED BY <1>4, <1>6, <2>1, KeyType DEF PurgeExpired, Record
<1>7. CASE UNCHANGED vars
  <2>1. TermsBegun'
    BY <1>1, <1>7 DEF vars, SilenceInv, TermsBegun
  <2> QED BY <1>4, <1>7, <2>1 DEF vars, Record
<1> QED BY <1>2, <1>3, <1>5, <1>6, <1>7 DEF Next, AllEnded

\* The key a message is handed never silences it, for any requests, tenants, marks, verdicts and
\* endpoints that leave the forwarding to the plan: a key is handed down by default only where a
\* repeat in the same TTL is answered by the claim or awaits no reply, and only where all who carry
\* it share the storage key (resolveForward, forwardedHeaders).
THEOREM HandedKeysStaySafe ==
  ASSUME \A e \in Endpoints : ForwardsByDefault(e)
  PROVE  Spec => []HandedKeysNeverSilence
<1>1. ASSUME Init PROVE SilenceInv
  <2>1. PICK e \in Endpoints :
          ~Refused(e.spec, e.module) /\ policy = Over([reliable |-> e.reliable], Plan(e.spec, e.module))
    BY <1>1 DEF Init
  <2> DEFINE plan == Plan(e.spec, e.module)
  <2>2. /\ policy.onFailure = plan.onFailure /\ policy.forward = plan.forward /\ policy.claims = plan.claims
        /\ policy.keyed = plan.keyed /\ policy.requestReply = plan.requestReply
    BY <2>1 DEF Plan, Over, Get
  <2>3. ForwardOK
    BY <2>1, <2>2, DefaultForward DEF ForwardOK
  <2>4. /\ \A r \in Requests : flow[r] = "none" /\ pc[r] = "begin" /\ term[r] = 0 /\ terms[Key(r)] = 0
        /\ handed = {}
    BY <1>1, KeyType DEF Init
  <2>5. MemoryInv /\ TermsBegun /\ LiveInv /\ ScopeInv
    BY <2>4 DEF MemoryInv, Memory, TermsBegun, LiveInv, ScopeInv, Sent, Works
  <2> QED BY <1>1, <2>3, <2>5, InitPolicy DEF SilenceInv
<1>2. ASSUME SilenceInv PROVE HandedKeysNeverSilence
  <2> SUFFICES ASSUME NEW r \in Requests, flow[r] = "dropped"
               PROVE  \E q \in Requests :
                        /\ Same(r, q) /\ flow[q] # "none"
                        /\ IF policy.claims THEN term[q] # term[r] ELSE ~policy.requestReply
    BY DEF HandedKeysNeverSilence
  <2>1. PICK q \in Requests : Same(r, q) /\ flow[q] # "none" /\ policy.forward # "none"
    BY <1>2 DEF SilenceInv, ScopeInv
  <2> QED BY <1>2, <2>1 DEF SilenceInv, LiveInv, ForwardOK, Sent
<1> QED BY <1>1, <1>2, SilenceNext, GateTypeCorrect, PTL DEF Spec
=============================================================================
