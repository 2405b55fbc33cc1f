----------------------- MODULE MCTransferQueueManager -----------------------
(* Instances of TransferQueueManager: a rollout, a stage that scores whole  *)
(* groups and a trainer that takes any scored samples.                      *)
EXTENDS TransferQueueManager

CONSTANTS u1, u2, u3, advantage, actor_train, responses, scores

MCUuids == {u1, u2, u3}
MCConsumers == {advantage, actor_train}
MCColumns == {responses, scores}
MCPutColumns == {responses}
MCRequires == (advantage :> {responses}) @@ (actor_train :> {responses, scores})
MCProduces == (advantage :> {scores}) @@ (actor_train :> {})
MCGrouped == (advantage :> TRUE) @@ (actor_train :> FALSE)
MCCounts == (advantage :> 2) @@ (actor_train :> 1)

(* The agent loop puts all the samples of a prompt at once. *)
WholePrompts == {<<u, u>> : u \in MCUuids}

Symmetry == Permutations(MCUuids)

NoQuery == {{}}
=============================================================================
