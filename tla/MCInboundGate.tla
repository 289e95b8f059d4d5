--------------------------- MODULE MCInboundGate ---------------------------
(***************************************************************************)
(* Endpoints for InboundGate, and the plan of an endpoint compared with    *)
(* what its options are documented to mean.                                *)
(***************************************************************************)
EXTENDS InboundGate

CONSTANTS q1, q2, q3

Tenants == (q1 :> "a") @@ (q2 :> "a") @@ (q3 :> "b")

Module(defaults, service) == [defaults |-> defaults, service |-> service, resolver |-> TRUE]
Bare == Module(Empty, {"bare"})
Releasing == Module(Empty, {"instance"})

Endpoint(spec, module, reliable) ==
  [spec |-> spec @@ [channel |-> "c", requestReply |-> TRUE], module |-> module, reliable |-> reliable]
Rules(options) == [idempotency |-> options]

\* Every failure policy, over a store that fails and one that cannot release; repeats answered by
\* replay (of a reply, of an accepted message) or by envelope; keys bound to a tenant, handed down, or not claimed at all.
AllEndpoints ==
  {Endpoint(Rules([onFailure |-> "release", onDuplicate |-> "replay", onInFlight |-> "reject"]), Releasing, FALSE),
   Endpoint(Rules([onFailure |-> "release"]), Bare, FALSE),
   Endpoint(Rules([onFailure |-> "store", onDuplicate |-> "replay"]) @@ [reply |-> "raw"], Bare, TRUE),
   Endpoint(Rules([onFailure |-> "marker", key |-> "ref"]), Bare, TRUE),
   Endpoint(Rules([onFailure |-> "function"]), Releasing, FALSE),
   Endpoint(Rules([onDuplicate |-> "replay"]), Module(Rules([key |-> "function"]), {"bare"}), FALSE),
   Endpoint(Rules([key |-> "function", forward |-> "resolved"]), Bare, TRUE),
   Endpoint(Empty, Releasing, FALSE),
   Endpoint(Rules(Off), Module(Rules([key |-> "function"]), {"bare"}), TRUE),
   Endpoint(Rules(Off), Releasing, TRUE),
   Endpoint([requestReply |-> FALSE], Releasing, TRUE),
   Endpoint(Rules([onDuplicate |-> "replay"]) @@ [reply |-> "raw", requestReply |-> FALSE], Releasing, FALSE),
   Endpoint(Rules(Off) @@ [requestReply |-> FALSE], Releasing, TRUE)}

ASSUME AllByDefault == \A e \in AllEndpoints : ForwardsByDefault(e)

AnyMark == Actions \cup {"none"}
AnyVerdict == Actions \cup {"throws"}
Twins == Permutations({q1, q2})

\* Documented: forward is 'raw', and 'none' "as soon as `key` or an `onFailure` policy other than
\* 'keep' is configured", with which an explicit 'raw' or 'resolved' is rejected; "with the claim
\* disabled" it is 'none' when a reply is awaited or a key resolver configured; what the endpoint
\* says wins over the module, except that an object of options is enabled unless it says otherwise.
ASSUME ForwardAsDocumented ==
  LET Layers == {Empty, Off, [key |-> "function"], [onFailure |-> "keep"], [onFailure |-> "release"],
                 [forward |-> "raw"], [forward |-> "none"], Off @@ [forward |-> "raw"]}
  IN \A own \in Layers, fallback \in Layers, awaits \in BOOLEAN :
       LET spec == Rules(own) @@ [requestReply |-> awaits]
           says(option, value) == \/ option \in DOMAIN own /\ own[option] = value
                                  \/ option \notin DOMAIN own /\ option \in DOMAIN fallback /\ fallback[option] = value
           releases == says("onFailure", "release")
           disabled == "enabled" \in DOMAIN own
           forward == IF says("forward", "raw") THEN "raw"
                      ELSE IF \/ says("forward", "none") \/ says("key", "function")
                              \/ IF disabled THEN awaits ELSE releases
                           THEN "none" ELSE "raw"
       IN IF ~disabled /\ releases /\ says("forward", "raw")
          THEN Refused(spec, Module(Rules(fallback), {"instance"}))
          ELSE Plan(spec, Module(Rules(fallback), {"instance"})).forward = forward

\* Documented: a replayed reply is the first one, "use 'raw' [...] when repeats must be
\* byte-identical"; "with the default envelope" it has a fresh id; a replayed accepted message keeps
\* its id, and its handler result is the repeat's own, as "the handler body run[s] [...] again on
\* every repeat"; "a duplicate still answers the envelope".
ASSUME RepeatsAsDocumented ==
  \A reply \in {"envelope", "raw"}, awaits \in BOOLEAN, onDuplicate \in {"envelope", "replay"} :
    LET plan == Plan(Rules([onDuplicate |-> onDuplicate]) @@ [reply |-> reply, requestReply |-> awaits], Releasing)
        kind == IF awaits THEN "reply" ELSE "accepted"
        first == Response(plan, FirstOutcome(kind, q1))
        again == Response(plan, RepeatOutcome(plan, kind, q1, q2))
        fresh == again.carries \ first.carries
    IN IF onDuplicate = "replay"
       THEN /\ again.body = first.body
            /\ fresh = CASE awaits /\ reply = "raw" -> {}
                        [] awaits /\ reply = "envelope" -> {Part("id", q2)}
                        [] OTHER -> {Part("result", q2)}
       ELSE again.body = "duplicate" /\ fresh = {}

\* Documented: "array parts are escaped (`%` and `:`) and joined with `:`, so no part can forge the
\* boundary of another".
ASSUME KeysKeepTheirParts ==
  LET Parts == UNION {[1 .. n -> {"x", ":", "%", "2", "5", "3", "A"}] : n \in 1 .. 2}
      Keys2 == UNION {[1 .. n -> Parts] : n \in 1 .. 2}
      Encoded == {EncodeInboundKey(parts) : parts \in Keys2}
  IN Cardinality(Encoded) = Cardinality(Keys2)
=============================================================================
