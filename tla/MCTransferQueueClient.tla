------------------------ MODULE MCTransferQueueClient ------------------------
(* One rollout puts the first sample of prompt 0, another one the rest of  *)
(* it and two samples of prompt 1; a reward worker writes back the scores  *)
(* of prompt 0 and of one of these.                                        *)
EXTENDS TransferQueueClient, TLC

CONSTANTS prompt, response, reward,
          rollout1, rollout2, rollout3, reward1,
          s1, s2

MCShared == {prompt}
MCColumns == {prompt, response, reward}
MCShards == {s1, s2}
MCPuts == {rollout1, rollout2, reward1}

(* Each shard owns adjacent rows of every put, up to three of them: more   *)
(* than a segment has.                                                     *)
MCGroups == 0 .. 1
MCShardOf == (0 :> s1) @@ (1 :> s2)
MCRows == (rollout1 :> <<0>>) @@ (rollout2 :> <<1, 2, 3, 4>>)
          @@ (reward1 :> <<0, 1, 2, 3>>)
MCCarries == [p \in MCPuts |-> IF p = reward1 THEN {reward} ELSE {prompt, response}]
MCReads == [p \in MCPuts |-> IF p = reward1 THEN {response} ELSE {}]

(* Whole prompts put one at a time go to the shards in turn: the rows of   *)
(* shard s1 are not adjacent in the write-back of all of them.             *)
InTurnGroups == 0 .. 2
InTurnShardOf == (0 :> s1) @@ (1 :> s2) @@ (2 :> s1)
InTurnRows ==
    (rollout1 :> <<0, 1>>) @@ (rollout2 :> <<2, 3>>) @@ (rollout3 :> <<4, 5>>)
    @@ (reward1 :> <<0, 1, 2, 3, 4, 5>>)
InTurnPuts == {rollout1, rollout2, rollout3, reward1}
InTurnColumns == {response, reward}
InTurnCarries == [p \in InTurnPuts |-> IF p = reward1 THEN {reward} ELSE {response}]
InTurnReads == [p \in InTurnPuts |-> IF p = reward1 THEN {response} ELSE {}]
=============================================================================
