--------------------------- MODULE MCFlowEndpoint ---------------------------
(***************************************************************************)
(* Instances of FlowEndpoint for TLC: the jumps it considers.             *)
(***************************************************************************)
EXTENDS FlowEndpoint

CONSTANTS d1, d2, t1, t2

\* One target, awaited behind a direct channel or behind a queue, with upsets.
Direct == [to |-> {t1}, upsets |-> 2, queued |-> {}, forgotten |-> {}, void |-> {}]
Queued == [Direct EXCEPT !.queued = {t1}]
\* Two targets and no upset: the second one behind a queue, or not waited for.
Both == [to |-> {t1, t2}, upsets |-> 0, queued |-> {t2}, forgotten |-> {}, void |-> {}]
OneForgotten == [Both EXCEPT !.queued = {}, !.forgotten = {t2}, !.void = {t2}]

MCPlans == {Direct, Queued, Both, OneForgotten}
=============================================================================
