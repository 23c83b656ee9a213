-------------------------- MODULE MCEventPipeline --------------------------
(* Instances of EventPipeline for TLC. *)
EXTENDS EventPipeline, TLC

CONSTANTS e1, e2, e3, w1, w2, k1

Workers == Permutations(Worker)

\* Two notifications of one message, in either stream.
SameKey == (e1 :> k1 @@ e2 :> k1 @@ e3 :> NoKey)
Unkeyed == [e \in Event |-> NoKey]
=============================================================================
