------------------------------ MODULE Options -------------------------------
(***************************************************************************)
(* Options of a binding or an endpoint, laid over the defaults of the      *)
(* module, and the strategies among them (src/outbound/outbound.plan.ts,   *)
(* src/inbound/inbound.plan.ts).                                           *)
(*                                                                         *)
(* A set of options is a function whose domain is the options that are     *)
(* present and not undefined; `false` for a feature is Off.                *)
(***************************************************************************)
EXTENDS Integers, Sequences

Empty == [option \in {} |-> 0]

Get(options, name, default) == IF name \in DOMAIN options THEN options[name] ELSE default

\* { ...defined(fallback), ...defined(own) }
Over(own, fallback) ==
  [name \in DOMAIN own \cup DOMAIN fallback |-> Get(own, name, Get(fallback, name, 0))]

Off == [enabled |-> FALSE]

\* A feature with switches of its own.  `enabled` is not inherited once the endpoint passes options.
Layer(own, defaults, feature) ==
  LET mine == Get(own, feature, Empty)
      fallback == Get(defaults, feature, Empty)
  IN [options |-> Over(mine, fallback),
      enabled |-> Get(IF feature \in DOMAIN own THEN mine ELSE fallback, "enabled", TRUE),
      explicit |-> feature \in DOMAIN own \cup DOMAIN defaults]

\* A strategy is a slot: "function", "instance" with the methods of the port, or "ref", a reference to
\* a provider.  Others are refused: a "class" whose prototype has the method, a "stranger" without it,
\* a "dangling" reference or one to a stranger.
UsableInstance(slot, resolver) == slot = "instance" \/ (slot = "ref" /\ resolver)
Usable(slot, resolver) == slot = "function" \/ UsableInstance(slot, resolver)

UsableIn(options, names, resolver) ==
  \A name \in names \cap DOMAIN options : Usable(options[name], resolver)
=============================================================================
