--------------------------- MODULE IdempotentKey ---------------------------
(***************************************************************************)
(* What an idempotency key promises the clients of a saga, with none of    *)
(* the machinery: a key is free, taken by one run, or applied for ever;    *)
(* the work that stands under it is its holder's; a run that answers       *)
(* answers for the applied work.                                           *)
(***************************************************************************)
CONSTANTS Runs, NoRun, Keys, KeyOf

VARIABLES
  status,    \* per key: "free", "taken" or "applied"
  holder,    \* per key: the run that has it, NoRun when it is free
  standing,  \* per key: the runs with committed work that was not undone
  answer     \* per run: "none", "own", "replayed" or "error"

keyVars == <<status, holder, standing, answer>>

Init ==
  /\ status = [k \in Keys |-> "free"]
  /\ holder = [k \in Keys |-> NoRun]
  /\ standing = [k \in Keys |-> {}]
  /\ answer = [r \in Runs |-> "none"]

Set(k, st, who, work) ==
  /\ status' = [status EXCEPT ![k] = st]
  /\ holder' = [holder EXCEPT ![k] = who]
  /\ standing' = [standing EXCEPT ![k] = work]
  /\ UNCHANGED answer

\* A free key with nothing standing under it is taken, alone or with the first work.
Take(r, k) ==
  /\ status[k] = "free" /\ standing[k] = {}
  /\ \E work \in {{}, {r}} : Set(k, "taken", r, work)

\* The holder commits more of its work.
Work(r, k) ==
  /\ status[k] = "taken" /\ holder[k] = r
  /\ Set(k, "taken", r, {r})

\* The holder has undone what it committed and gives the key back.
GiveBack(r, k) ==
  /\ status[k] = "taken" /\ holder[k] = r
  /\ Set(k, "free", NoRun, {})

\* The reply is recorded with the last of the work.
Apply(r, k) ==
  /\ \/ status[k] = "free" /\ standing[k] = {}
     \/ status[k] = "taken" /\ holder[k] = r
  /\ Set(k, "applied", r, {r})

\* A run answers once and, if it has a key, only with the reply of the work that is applied.
Answer(r, a) ==
  /\ answer[r] = "none"
  /\ answer' = [answer EXCEPT ![r] = a]
  /\ a \in {"own", "replayed"} /\ KeyOf[r] \in Keys =>
       /\ status[KeyOf[r]] = "applied"
       /\ a = "own" <=> holder[KeyOf[r]] = r
  /\ UNCHANGED <<status, holder, standing>>

Next ==
  \E r \in Runs :
    \/ \E k \in Keys \cap {KeyOf[r]} : Take(r, k) \/ Work(r, k) \/ GiveBack(r, k) \/ Apply(r, k)
    \/ \E a \in {"own", "replayed", "error"} : Answer(r, a)

KeySpec == Init /\ [][Next]_keyVars
=============================================================================
