---------------------------- MODULE RequestReply ----------------------------
(***************************************************************************)
(* ReplyGateway.sendAndReceive (src/gateway/reply-gateway.ts) over the     *)
(* one-shot wait it opens (src/channels/one-shot.ts) on an ephemeral       *)
(* direct channel (src/channels/direct.channel.ts), against a responder    *)
(* that replies any number of times, at any moment, until its handler      *)
(* returns.  A step is the code between two awaits, so the timer may fire  *)
(* between any two steps of the caller and of the responder.               *)
(***************************************************************************)
EXTENDS Naturals

CONSTANTS
  Calls,       \* calls of sendAndReceive, each with a reply channel of its own
  Awaited,     \* the calls whose send awaits the responder: a direct channel, not a queue
  MaxReplies   \* bound: replies one responder sends

ASSUME CallsAssumption == Awaited \subseteq Calls /\ MaxReplies \in Nat

VARIABLES
  at,          \* per call: where the caller is
  registered,  \* per call: its reply channel is in the registry
  subscribed,  \* per call: the wait's handler is the reply channel's
  timer,       \* per call: the timer of the wait is armed
  wait,        \* per call: the promise of the wait
  timedOut,    \* per call: timedOut.error is set
  flow,        \* per call: the responder
  replies,     \* per call: replies sent so far
  outcome      \* per call: what sendAndReceive settled with

vars == <<at, registered, subscribed, timer, wait, timedOut, flow, replies, outcome>>

Pending == [is |-> "pending", msg |-> 0]
Message(n) == [is |-> "message", msg |-> n]
Rejected(why) == [is |-> why, msg |-> 0]

\* "ok": the handler returned; "failed": it threw an error of its own; "lateReply": it let the
\* NoSubscriberError of its own reply channel through; "gone": the ChannelNotFoundError.
FlowEnd == {"ok", "failed", "lateReply", "gone"}

Init ==
  /\ at = [c \in Calls |-> "idle"]
  /\ registered = [c \in Calls |-> FALSE]
  /\ subscribed = [c \in Calls |-> FALSE]
  /\ timer = [c \in Calls |-> FALSE]
  /\ wait = [c \in Calls |-> Pending]
  /\ timedOut = [c \in Calls |-> FALSE]
  /\ flow = [c \in Calls |-> "none"]
  /\ replies = [c \in Calls |-> 0]
  /\ outcome = [c \in Calls |-> Pending]

-----------------------------------------------------------------------------
(* The wait: settle, timeout and cancel of openFirstMessageWait. *)

\* The first settlement of a wait clears the timer; an error also unsubscribes.
Settled(c, what) == wait' = [wait EXCEPT ![c] = IF @ = Pending THEN what ELSE @]

\* Faulty: cancel() leaves the timer of a pending wait.
CancelledQuietly(c) ==
  /\ Settled(c, Rejected("cancelled"))
  /\ subscribed' = [subscribed EXCEPT ![c] = FALSE]
  /\ UNCHANGED timer

Cancelled(c) ==
  /\ Settled(c, Rejected("cancelled"))
  /\ timer' = [timer EXCEPT ![c] = FALSE]
  /\ subscribed' = [subscribed EXCEPT ![c] = FALSE]

TimerFires(c) ==
  /\ timer[c]
  /\ timer' = [timer EXCEPT ![c] = FALSE]
  /\ timedOut' = [timedOut EXCEPT ![c] = TRUE]
  /\ Settled(c, Rejected("timeout"))
  /\ subscribed' = [subscribed EXCEPT ![c] = FALSE]
  /\ UNCHANGED <<at, registered, flow, replies, outcome>>

-----------------------------------------------------------------------------
(* The caller. *)

\* The finally block, and what the call settles with.
Leave(c, what) ==
  /\ at' = [at EXCEPT ![c] = "done"]
  /\ outcome' = [outcome EXCEPT ![c] = what]
  /\ Cancelled(c)
  /\ registered' = [registered EXCEPT ![c] = FALSE]

\* The reply channel is created, subscribed and timed before the request leaves; "refused": no
\* such channel, nobody subscribed to it, or a full queue.
Call(c) ==
  /\ at[c] = "idle"
  /\ at' = [at EXCEPT ![c] = "sending"]
  /\ registered' = [registered EXCEPT ![c] = TRUE]
  /\ subscribed' = [subscribed EXCEPT ![c] = TRUE]
  /\ timer' = [timer EXCEPT ![c] = TRUE]
  /\ \E start \in {"running", "refused"} : flow' = [flow EXCEPT ![c] = start]
  /\ UNCHANGED <<wait, timedOut, replies, outcome>>

\* The send resolves: the responder returned, or the queue took the message.
Sent(c) ==
  /\ at[c] = "sending"
  /\ flow[c] # "refused" /\ (c \in Awaited => flow[c] = "ok")
  /\ at' = [at EXCEPT ![c] = "waiting"]
  /\ UNCHANGED <<registered, subscribed, timer, wait, timedOut, flow, replies, outcome>>

\* Faulty: the late reply's error reaches the caller as it is.
SendErrorPlain(c) == Rejected(IF flow[c] \in {"failed", "refused"} THEN "error" ELSE flow[c])

\* The catch of the send: a late reply of an awaited responder is the timeout.
SendError(c) ==
  Rejected(IF flow[c] = "lateReply" /\ timedOut[c] THEN "timeout"
           ELSE IF flow[c] \in {"failed", "refused"} THEN "error" ELSE flow[c])

\* The send is refused or its awaited responder threw: the error is the caller's.
SendRejects(c) ==
  /\ at[c] = "sending"
  /\ flow[c] = "refused" \/ (c \in Awaited /\ flow[c] \in FlowEnd \ {"ok"})
  /\ Leave(c, SendError(c))
  /\ UNCHANGED <<timedOut, flow, replies>>

\* await wait.promise.
Receive(c) ==
  /\ at[c] = "waiting" /\ wait[c] # Pending
  /\ Leave(c, wait[c])
  /\ UNCHANGED <<timedOut, flow, replies>>

-----------------------------------------------------------------------------
(* The responder. *)

\* It sends a reply that finds the handler of the wait, which the first message keeps subscribed.
Reply(c) ==
  /\ flow[c] = "running" /\ replies[c] < MaxReplies
  /\ registered[c] /\ subscribed[c]
  /\ replies' = [replies EXCEPT ![c] = @ + 1]
  /\ Settled(c, Message(replies[c] + 1))
  /\ timer' = [timer EXCEPT ![c] = FALSE]
  /\ UNCHANGED <<at, registered, subscribed, timedOut, flow, outcome>>

\* It sends a reply that finds nobody: its handler throws that error, or goes on without.
ReplyLate(c) ==
  /\ flow[c] = "running" /\ replies[c] < MaxReplies
  /\ ~(registered[c] /\ subscribed[c])
  /\ replies' = [replies EXCEPT ![c] = @ + 1]
  /\ \E next \in {"running", IF registered[c] THEN "lateReply" ELSE "gone"} :
       flow' = [flow EXCEPT ![c] = next]
  /\ UNCHANGED <<at, registered, subscribed, timer, wait, timedOut, outcome>>

FlowEnds(c) ==
  /\ flow[c] = "running"
  /\ \E how \in {"ok", "failed"} : flow' = [flow EXCEPT ![c] = how]
  /\ UNCHANGED <<at, registered, subscribed, timer, wait, timedOut, replies, outcome>>

-----------------------------------------------------------------------------
Caller(c) == Call(c) \/ Sent(c) \/ SendRejects(c) \/ Receive(c)
Responder(c) == Reply(c) \/ ReplyLate(c) \/ FlowEnds(c)

Quiet == (\A c \in Calls : at[c] = "done" /\ flow[c] # "running") /\ UNCHANGED vars

Next == (\E c \in Calls : Caller(c) \/ TimerFires(c) \/ Responder(c)) \/ Quiet

Spec == Init /\ [][Next]_vars

-----------------------------------------------------------------------------
Waits == {Pending, Rejected("timeout"), Rejected("cancelled")} \cup {Message(n) : n \in 1 .. MaxReplies}

\* Types; a call is done exactly when it has settled with something.
TypeOK ==
  /\ at \in [Calls -> {"idle", "sending", "waiting", "done"}]
  /\ registered \in [Calls -> BOOLEAN] /\ subscribed \in [Calls -> BOOLEAN]
  /\ timer \in [Calls -> BOOLEAN] /\ timedOut \in [Calls -> BOOLEAN]
  /\ wait \in [Calls -> Waits]
  /\ flow \in [Calls -> {"none", "running", "refused"} \cup FlowEnd]
  /\ replies \in [Calls -> 0 .. MaxReplies]
  /\ outcome \in [Calls -> Waits \cup {Rejected("error"), Rejected("lateReply"), Rejected("gone")}]
  /\ \A c \in Calls : at[c] = "done" <=> outcome[c] # Pending

\* A call leaves nothing behind, however it ended: no timer that keeps firing, no subscription, no
\* reply channel ("unregistered in `finally`, no leaks"), and none of it is lost before: until a
\* call settles, whoever is pending has a timer and a subscriber.
NothingLeaks ==
  \A c \in Calls :
    /\ at[c] = "done" => ~timer[c] /\ ~subscribed[c] /\ ~registered[c] /\ wait[c] # Pending
    /\ at[c] \in {"sending", "waiting"} /\ wait[c] = Pending => timer[c] /\ subscribed[c]

\* The caller gets the first reply of its own responder, whatever was sent after it and although
\* the timer may fire between the reply and the caller's await; or a timeout that did pass, also
\* when the late reply of an awaited responder met a missing subscriber; never a cancelled wait.
\* A responder that replies again before its handler returns is ignored, not failed: on an awaited
\* send it meets a missing subscriber only after the timeout, and never a missing channel.
FirstReplyWins ==
  \A c \in Calls :
    /\ outcome[c].is \in {"pending", "message", "timeout", "error"}
    /\ outcome[c].is = "message" => outcome[c].msg = 1
    /\ outcome[c].is = "timeout" => timedOut[c]
    /\ timedOut[c] => wait[c] = Rejected("timeout")
RepliesAreTolerated ==
  \A c \in Awaited :
    /\ flow[c] = "lateReply" => timedOut[c]
    /\ flow[c] # "gone"
OutcomesAreGenuine == FirstReplyWins /\ RepliesAreTolerated
=============================================================================
