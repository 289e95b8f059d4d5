-------------------------- MODULE MCDatabaseUnits ---------------------------
(***************************************************************************)
(* Instances of DatabaseUnits for TLC.                                     *)
(***************************************************************************)
EXTENDS DatabaseUnits, TLC

CONSTANTS u1, u2, u3, u4, e1, e2

Req(n, m, t) == [name |-> n, mode |-> m, timed |-> t]
Mv(e, s, b) == [id |-> e, to |-> s, by |-> b]

\* PENDING and RUNNING lead to each other, DONE is final.
Circuit == [pending |-> <<"running">>, running |-> <<"pending", "done">>, done |-> <<>>]

ByName == [n \in Names |-> n]
\* 1 and 3 hash to one key, and the keys sort unlike the names.
Hashed == [n \in Names |-> IF n = 2 THEN 1 ELSE 2]

Nothing == [u \in Units |-> <<>>]

Memory == [port |-> "memory", key |-> ByName, declared |-> Nothing, session |-> "read committed",
           impatient |-> FALSE, allowSnapshot |-> FALSE, moves |-> Nothing, versioned |-> TRUE,
           retried |-> {}, opaque |-> FALSE]
Postgres == [Memory EXCEPT !.port = "postgres", !.key = Hashed]

\* Two patient writers that declare two names in opposite orders, one of them first as a reader; a
\* reader; an impatient writer.
ReadersAndWriters ==
  [Memory EXCEPT !.declared =
     u1 :> <<Req(1, "exclusive", FALSE), Req(2, "exclusive", FALSE), Req(1, "shared", FALSE)>> @@
     u2 :> <<Req(2, "exclusive", FALSE), Req(1, "shared", FALSE)>> @@
     u3 :> <<Req(1, "shared", FALSE)>> @@
     u4 :> <<Req(1, "exclusive", TRUE)>>]

\* Rows that know no transaction, under one lock that not everybody takes.
MemoryRows ==
  [Memory EXCEPT
     !.declared = [u \in Units |-> IF u \in {u1, u2} THEN <<Req(1, "exclusive", TRUE)>> ELSE <<>>],
     !.moves = u1 :> <<Mv(e1, "running", "state"), Mv(e2, "running", "sources")>> @@
               u2 :> <<Mv(e1, "running", "version")>> @@
               u3 :> <<Mv(e1, "pending", "sources")>> @@
               u4 :> <<>>]

\* Names that share a key or sort unlike it, and rows that two of the units change without a lock,
\* in opposite orders.
Colliding ==
  [Postgres EXCEPT
     !.declared = u1 :> <<Req(1, "shared", FALSE), Req(2, "exclusive", FALSE), Req(3, "exclusive", FALSE)>> @@
                  u2 :> <<Req(2, "shared", FALSE), Req(3, "shared", FALSE)>> @@
                  u3 :> <<>> @@
                  u4 :> <<Req(2, "exclusive", TRUE), Req(3, "shared", FALSE)>>,
     !.moves = u1 :> <<Mv(e1, "running", "sources"), Mv(e2, "running", "state")>> @@
               u2 :> <<Mv(e1, "pending", "version")>> @@
               u3 :> <<Mv(e2, "running", "version"), Mv(e1, "running", "sources")>> @@
               u4 :> <<>>,
     !.retried = {"deadlock", "stale-state", "lock-timeout"}]

\* REPEATABLE READ, accepted: what changed since the snapshot may not be changed again.
Snapshots ==
  [Postgres EXCEPT
     !.session = "repeatable read", !.allowSnapshot = TRUE, !.impatient = TRUE,
     !.declared = [u \in Units |-> IF u = u1 THEN <<Req(1, "exclusive", FALSE)>> ELSE <<>>],
     !.moves = u1 :> <<Mv(e1, "running", "state"), Mv(e2, "running", "sources")>> @@
               u2 :> <<Mv(e1, "running", "sources"), Mv(e1, "pending", "version")>> @@
               u3 :> <<Mv(e1, "running", "sources")>> @@
               u4 :> <<>>,
     !.retried = {"serialization", "stale-state"}]

\* Sessions the lock port refuses, a table without versions, an adapter without row counts.
Locked == [u \in Units |-> <<Req(1, "exclusive", FALSE), Req(3, "shared", TRUE)>>]
Refused == [Postgres EXCEPT !.session = "repeatable read", !.declared = Locked]
Autocommit == [Postgres EXCEPT !.session = "autocommit", !.declared = Locked]
Unversioned ==
  [Postgres EXCEPT !.versioned = FALSE, !.opaque = TRUE,
     !.declared = [u \in Units |-> IF u \in {u3, u4} THEN <<Req(1, "exclusive", TRUE)>> ELSE <<>>],
     !.moves = u1 :> <<Mv(e1, "running", "version")>> @@ u2 :> <<Mv(e1, "done", "state")>> @@
               u3 :> <<Mv(e1, "running", "sources")>> @@ u4 :> <<Mv(e1, "running", "sources")>>]

AllScenes == {ReadersAndWriters, MemoryRows, Colliding, Snapshots, Refused, Autocommit, Unversioned}
=============================================================================
