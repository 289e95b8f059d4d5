-------------------------------- MODULE Glob --------------------------------
(***************************************************************************)
(* Routing key patterns of pubsub subscribers (src/channels/glob.ts): what *)
(* the regular expression a pattern is compiled to accepts.  A key and a   *)
(* pattern are sequences of segments; no segment of a key is empty, and a  *)
(* message without a routing key has the key <<>>.                         *)
(***************************************************************************)
EXTENDS Integers, Sequences

Everything == <<"#">>

\* How much of the key may be consumed after this segment, j segments having been consumed before.
\* Every segment but the first brings its own dot, and no key begins with one.
Steps(segment, index, key, j) ==
  IF index > 1 /\ j = 0 THEN (IF segment = "#" THEN {0} ELSE {})
  ELSE IF segment = "#" THEN j .. Len(key)
  ELSE {k \in {j + 1} : k <= Len(key) /\ segment \in {"*", key[k]}}

Matches(pattern, key) ==
  LET consumed[i \in 0 .. Len(pattern)] ==
        IF i = 0 THEN {0} ELSE UNION {Steps(pattern[i], i, key, j) : j \in consumed[i - 1]}
  IN Len(key) \in consumed[Len(pattern)]
=============================================================================
