----------------------- MODULE OnPolicyDistill_proofs -----------------------
(***************************************************************************)
(* The schedulers of on-policy distillation keep their promises for any    *)
(* number of batches and threads, whatever the teacher fails to answer.    *)
(* The invariant says at each call of a turn which batches are under way   *)
(* and how old they are.                                                   *)
(***************************************************************************)
EXTENDS OnPolicyDistill, TLAPS

Old(version, n) == version \in Nat /\ version <= updates /\ updates - version <= n

(* x is a generation of batch b, at most n updates old. *)
Is(x, b, n) == x.batch = b /\ Old(x.version, n)

Stepped == status # "step"

(* The first turn of one_step_off, up to its second half.                  *)
FirstTurn ==
    (scheduler = "one_step_off" /\ turn = 0) =>
        /\ at \in 1 .. 9
        /\ Stepped \/ at = 8
        /\ at < 8 \/ ~Stepped => updates = 0 /\ global_steps = 1
        /\ at >= 8 /\ Stepped => updates \in {0, 1} /\ global_steps = 2
        /\ at > 1 => rollout_weights = 0
        /\ at > 2 => rollout_future.batch = 1 /\ rollout_future.version = 0
        /\ at > 3 => teacher_future.batch = 1 /\ teacher_future.version = 0
        /\ at > 6 => result.of.batch = 1 /\ result.of.version = 0

(* The calls of a later turn, counted alike whether it sends weights or not. *)
Place == IF turn = 1 THEN at + 1 ELSE at

LaterTurns ==
    (scheduler = "one_step_off" /\ turn > 0) =>
        /\ turn < num_batches /\ Place \in 1 .. 6 /\ (Stepped \/ Place = 5)
        /\ Place < 5 \/ ~Stepped => global_steps = turn + 1 /\ Is(teacher_future, turn, 2)
        /\ Place = 2 => Old(rollout_weights, 1) /\ (turn > 1 => rollout_weights = updates)
        /\ Place \in {3, 4} \/ ~Stepped => Is(rollout_future, turn + 1, 1)
        /\ Place = 4 \/ ~Stepped => Is(result.of, turn, 2)
        /\ Place >= 5 /\ Stepped => global_steps = turn + 2
        /\ Place = 5 /\ Stepped => Is(rollout_future, turn + 1, 2)
        /\ Place = 6 => Is(teacher_future, turn + 1, 2)

(* The first two turns of two_step_off, which yield nothing. *)
WarmUp ==
    (scheduler = "two_step_off" /\ turn <= 1) =>
        /\ at \in 1 .. 3 /\ Stepped /\ updates = 0 /\ global_steps = 1
        /\ turn = 1 \/ at > 1 => rollout_weights = 0
        /\ (turn = 0 /\ at = 3) \/ (turn = 1 /\ at < 3) => Is(rollout_future, 1, 0)
        /\ turn = 0 \/ at = 1 => teacher_future = NoGeneration
        /\ turn = 1 /\ at > 1 => num_batches > 1 /\ Is(teacher_future, 1, 0)
        /\ turn = 1 /\ at = 3 => Is(rollout_future, 2, 0)

Stage == IF turn = 2 /\ at >= 3 THEN at + 1 ELSE at

Steady ==
    (scheduler = "two_step_off" /\ turn > 1 /\ turn < num_batches) =>
        /\ Stage \in 1 .. 6 /\ (Stepped \/ Stage = 6)
        /\ Stage < 6 \/ ~Stepped =>
              /\ global_steps = turn - 1
              /\ turn = 2 => updates = 0 /\ rollout_weights = 0
        /\ Stage = 1 => Is(teacher_future, turn - 1, 2)
        /\ Stage \in {1, 2} => Is(rollout_future, turn, 1)
        /\ Stage \in 2 .. 5 \/ ~Stepped => Is(result.of, turn - 1, 2)
        /\ Stage \in 3 .. 5 \/ ~Stepped => Is(teacher_future, turn, 1)
        /\ Stage = 4 => Old(rollout_weights, 0)
        /\ Stage = 5 \/ ~Stepped => Is(rollout_future, turn + 1, 0)
        /\ Stage = 6 /\ Stepped =>
              /\ global_steps = turn
              /\ Is(teacher_future, turn, 2) /\ Is(rollout_future, turn + 1, 1)

(* What follows the loop. *)
WindDown ==
    (scheduler = "two_step_off" /\ turn > 1 /\ turn = num_batches) =>
        /\ at \in 1 .. 6 /\ (Stepped \/ at \in {4, 6})
        /\ at < 4 \/ (at = 4 /\ ~Stepped) => global_steps = turn - 1
        /\ at = 1 => Is(teacher_future, turn - 1, 2)
        /\ at <= 2 => Is(rollout_future, turn, 1)
        /\ at \in {2, 3} \/ (at = 4 /\ ~Stepped) => Is(result.of, turn - 1, 2)
        /\ at = 3 \/ (at = 4 /\ ~Stepped) => Is(teacher_future, turn, 1)
        /\ at = 4 /\ Stepped => global_steps = turn /\ Is(teacher_future, turn, 2)
        /\ at = 5 \/ (at = 6 /\ ~Stepped) => global_steps = turn /\ Is(result.of, turn, 2)
        /\ at = 6 /\ Stepped => status = "returned"

(* The buffer holds what was collected last, and no step is begun after the *)
(* last.                                                                    *)
Collected == result.ok => knowledge = result.of.id
StepsLeft == status \in {"schedule", "step"} => global_steps <= total_training_steps

Plan == FirstTurn /\ LaterTurns /\ WarmUp /\ Steady /\ WindDown
IInv == TypeOK /\ Plan /\ Collected /\ StepsLeft

-----------------------------------------------------------------------------
(* The program of a turn, by the kinds of turns the invariant tells apart. *)
LEMMA Programs ==
    ASSUME TypeOK, scheduler = "one_step_off" => turn < num_batches
    PROVE  /\ scheduler = "one_step_off" /\ turn = 0 =>
                 Turn(turn) = <<"sync", "generate", "teach", "sync", "generate", "collect", "yield", "teach">> /\ Len(Turn(turn)) = 8
           /\ scheduler = "one_step_off" /\ turn = 1 =>
                 Turn(turn) = <<"generate", "collect", "yield", "teach">> /\ Len(Turn(turn)) = 4
           /\ scheduler = "one_step_off" /\ turn > 1 =>
                 Turn(turn) = <<"sync", "generate", "collect", "yield", "teach">> /\ Len(Turn(turn)) = 5
           /\ scheduler = "two_step_off" /\ turn = num_batches =>
                 Turn(turn) = <<"collect", "teach", "yield", "collect", "yield">> /\ Len(Turn(turn)) = 5
           /\ scheduler = "two_step_off" /\ turn = 0 => Turn(turn) = <<"sync", "generate">> /\ Len(Turn(turn)) = 2
           /\ scheduler = "two_step_off" /\ turn = 1 /\ turn < num_batches =>
                 Turn(turn) = <<"teach", "generate">> /\ Len(Turn(turn)) = 2
           /\ scheduler = "two_step_off" /\ turn = 2 /\ turn < num_batches =>
                 Turn(turn) = <<"collect", "teach", "generate", "yield">> /\ Len(Turn(turn)) = 4
           /\ scheduler = "two_step_off" /\ turn > 2 /\ turn < num_batches =>
                 Turn(turn) = <<"collect", "teach", "sync", "generate", "yield">> /\ Len(Turn(turn)) = 5
<1>1. turn \in Nat /\ num_batches \in Nat \ {0} /\ turn <= num_batches
    BY DistillAssumption DEF TypeOK
<1>2. ASSUME scheduler = "one_step_off", turn < num_batches
      PROVE  /\ turn = 0 => Turn(turn) =
                   <<"sync", "generate", "teach", "sync", "generate", "collect", "yield", "teach">>
             /\ turn = 1 => Turn(turn) = <<"generate", "collect", "yield", "teach">>
             /\ turn > 1 => Turn(turn) = <<"sync", "generate", "collect", "yield", "teach">>
    BY <1>1, <1>2 DEF Turn
<1>3. ASSUME scheduler = "two_step_off", turn < num_batches
      PROVE  /\ turn = 0 => Turn(turn) = <<"sync", "generate">>
             /\ turn = 1 => Turn(turn) = <<"teach", "generate">>
             /\ turn = 2 => Turn(turn) = <<"collect", "teach", "generate", "yield">>
             /\ turn > 2 => Turn(turn) = <<"collect", "teach", "sync", "generate", "yield">>
    BY <1>1, <1>3 DEF Turn
<1>4. ASSUME scheduler = "two_step_off", turn = num_batches
      PROVE  Turn(turn) = <<"collect", "teach", "yield", "collect", "yield">>
    BY <1>1, <1>4 DEF Turn, AfterLoop
<1>5. scheduler \in {"one_step_off", "two_step_off"}
    BY DEF TypeOK
<1> QED
    BY <1>1, <1>2, <1>3, <1>4, <1>5

(* How many calls there are in it. *)
LEMMA Lengths ==
    ASSUME TypeOK, scheduler = "one_step_off" => turn < num_batches
    PROVE  \E n \in Nat :
           /\ n = Len(Turn(turn)) /\ at \in 1 .. n + 1
           /\ scheduler = "one_step_off" /\ turn = 0 => n = 8
           /\ scheduler = "one_step_off" /\ turn = 1 => n = 4
           /\ scheduler = "one_step_off" /\ turn > 1 => n = 5
           /\ scheduler = "two_step_off" /\ turn = num_batches => n = 5
           /\ scheduler = "two_step_off" /\ turn = 0 => n = 2
           /\ scheduler = "two_step_off" /\ turn = 1 /\ turn < num_batches => n = 2
           /\ scheduler = "two_step_off" /\ turn = 2 /\ turn < num_batches => n = 4
           /\ scheduler = "two_step_off" /\ turn > 2 /\ turn < num_batches => n = 5
<1> DEFINE n == Len(Turn(turn))
<1>1. /\ turn \in Nat /\ num_batches \in Nat \ {0} /\ turn <= num_batches
      /\ scheduler \in {"one_step_off", "two_step_off"} /\ at \in 1 .. n + 1
    BY DistillAssumption DEF TypeOK
<1>2. /\ scheduler = "one_step_off" /\ turn = 0 => n = 8
      /\ scheduler = "one_step_off" /\ turn = 1 => n = 4
      /\ scheduler = "one_step_off" /\ turn > 1 => n = 5
      /\ scheduler = "two_step_off" /\ turn = num_batches => n = 5
      /\ scheduler = "two_step_off" /\ turn = 0 => n = 2
      /\ scheduler = "two_step_off" /\ turn = 1 /\ turn < num_batches => n = 2
      /\ scheduler = "two_step_off" /\ turn = 2 /\ turn < num_batches => n = 4
      /\ scheduler = "two_step_off" /\ turn > 2 /\ turn < num_batches => n = 5
    BY Programs
<1> HIDE DEF n
<1>3. n \in Nat
    BY <1>1, <1>2
<1>4. n = Len(Turn(turn))
    BY DEF n
<1> QED
    BY <1>1, <1>2, <1>3, <1>4

(* Where in its turn a scheduler makes each call. *)
LEMMA Places ==
    ASSUME IInv, NEW c, Calls(c)
    PROVE  /\ c = "sync" =>
                 \/ scheduler = "one_step_off" /\ turn = 0 /\ at \in {1, 4}
                 \/ scheduler = "one_step_off" /\ turn > 1 /\ at = 1
                 \/ scheduler = "two_step_off" /\ turn = 0 /\ at = 1
                 \/ scheduler = "two_step_off" /\ turn > 2 /\ turn < num_batches /\ at = 3
           /\ c = "generate" =>
                 \/ scheduler = "one_step_off" /\ turn = 0 /\ at \in {2, 5}
                 \/ scheduler = "one_step_off" /\ turn > 0 /\ Place = 2
                 \/ scheduler = "two_step_off" /\ turn <= 1 /\ turn < num_batches /\ at = 2
                 \/ scheduler = "two_step_off" /\ turn > 1 /\ turn < num_batches /\ Stage = 4
           /\ c = "teach" =>
                 \/ scheduler = "one_step_off" /\ turn = 0 /\ at \in {3, 8}
                 \/ scheduler = "one_step_off" /\ turn > 0 /\ Place = 5
                 \/ scheduler = "two_step_off" /\ turn = 1 /\ turn < num_batches /\ at = 1
                 \/ scheduler = "two_step_off" /\ turn > 1 /\ at = 2
           /\ c = "collect" =>
                 \/ scheduler = "one_step_off" /\ turn = 0 /\ at = 6
                 \/ scheduler = "one_step_off" /\ turn > 0 /\ Place = 3
                 \/ scheduler = "two_step_off" /\ turn = 1 /\ num_batches = 1 /\ at = 1
                 \/ scheduler = "two_step_off" /\ turn > 1 /\ turn < num_batches /\ at = 1
                 \/ scheduler = "two_step_off" /\ turn > 1 /\ turn = num_batches /\ at \in {1, 4}
           /\ c = "yield" =>
                 \/ scheduler = "one_step_off" /\ turn = 0 /\ at = 7
                 \/ scheduler = "one_step_off" /\ turn > 0 /\ Place = 4
                 \/ scheduler = "two_step_off" /\ turn > 1 /\ turn < num_batches /\ Stage = 5
                 \/ scheduler = "two_step_off" /\ turn > 1 /\ turn = num_batches /\ at \in {3, 5}
<1>1. /\ turn \in Nat /\ num_batches \in Nat \ {0} /\ turn <= num_batches /\ at \in Nat
      /\ scheduler \in {"one_step_off", "two_step_off"} /\ status = "schedule"
      /\ 1 <= at /\ at <= Len(Turn(turn)) /\ Turn(turn)[at] = c
    BY DistillAssumption DEF TypeOK, IInv, Calls
<1>2. /\ scheduler = "one_step_off" => turn < num_batches
      /\ Len(Turn(turn)) \in Nat
    <2>1. scheduler = "one_step_off" => turn < num_batches
        BY <1>1 DEF IInv, Plan, LaterTurns
    <2> QED
        BY <1>1, <2>1, Lengths DEF IInv
<1>3. CASE scheduler = "one_step_off" /\ turn = 0
    <2>1. at \in 1 .. 8
        BY <1>1, <1>2, <1>3, Lengths DEF IInv
    <2> QED
        BY <1>1, <1>2, <1>3, <2>1, Programs DEF IInv
<1>4. CASE scheduler = "one_step_off" /\ turn = 1
    <2>1. at \in 1 .. 4
        BY <1>1, <1>2, <1>4, Lengths DEF IInv
    <2> QED
        BY <1>1, <1>2, <1>4, <2>1, Programs DEF IInv, Place
<1>5. CASE scheduler = "one_step_off" /\ turn > 1
    <2>1. at \in 1 .. 5
        BY <1>1, <1>2, <1>5, Lengths DEF IInv
    <2> QED
        BY <1>1, <1>2, <1>5, <2>1, Programs DEF IInv, Place
<1>6. CASE scheduler = "two_step_off" /\ turn = num_batches
    <2>1. at \in 1 .. 5
        BY <1>1, <1>2, <1>6, Lengths DEF IInv
    <2>2. turn = 1 => at = 1
        BY <1>1, <1>6 DEF IInv, Plan, WarmUp
    <2> QED
        BY <1>1, <1>2, <1>6, <2>1, <2>2, Programs DEF IInv
<1>7. CASE scheduler = "two_step_off" /\ turn = 0
    <2>1. at \in 1 .. 2
        BY <1>1, <1>2, <1>7, Lengths DEF IInv
    <2> QED
        BY <1>1, <1>2, <1>7, <2>1, Programs DEF IInv
<1>8. CASE scheduler = "two_step_off" /\ turn = 1 /\ turn < num_batches
    <2>1. at \in 1 .. 2
        BY <1>1, <1>2, <1>8, Lengths DEF IInv
    <2> QED
        BY <1>1, <1>2, <1>8, <2>1, Programs DEF IInv
<1>9. CASE scheduler = "two_step_off" /\ turn = 2 /\ turn < num_batches
    <2>1. at \in 1 .. 4
        BY <1>1, <1>2, <1>9, Lengths DEF IInv
    <2> QED
        BY <1>1, <1>2, <1>9, <2>1, Programs DEF IInv, Stage
<1>10. CASE scheduler = "two_step_off" /\ turn > 2 /\ turn < num_batches
    <2>1. at \in 1 .. 5
        BY <1>1, <1>2, <1>10, Lengths DEF IInv
    <2> QED
        BY <1>1, <1>2, <1>10, <2>1, Programs DEF IInv, Stage
<1> QED
    BY <1>1, <1>3, <1>4, <1>5, <1>6, <1>7, <1>8, <1>9, <1>10

(* Where a turn ends. *)
Ended == at > Len(Turn(turn))

LEMMA Ends ==
    ASSUME IInv, Ended, turn < num_batches
    PROVE  \/ scheduler = "one_step_off" /\ turn = 0 /\ at = 9
           \/ scheduler = "one_step_off" /\ turn > 0 /\ Place = 6
           \/ scheduler = "two_step_off" /\ turn <= 1 /\ at = 3
           \/ scheduler = "two_step_off" /\ turn > 1 /\ Stage = 6
<1>0. TypeOK
    BY DEF IInv
<1>1. /\ turn \in Nat /\ num_batches \in Nat \ {0} /\ turn <= num_batches
      /\ scheduler \in {"one_step_off", "two_step_off"}
    BY <1>0, DistillAssumption DEF TypeOK
<1>2. PICK n \in Nat :
        /\ n = Len(Turn(turn)) /\ at \in 1 .. n + 1
        /\ scheduler = "one_step_off" /\ turn = 0 => n = 8
        /\ scheduler = "one_step_off" /\ turn = 1 => n = 4
        /\ scheduler = "one_step_off" /\ turn > 1 => n = 5
        /\ scheduler = "two_step_off" /\ turn = 0 => n = 2
        /\ scheduler = "two_step_off" /\ turn = 1 /\ turn < num_batches => n = 2
        /\ scheduler = "two_step_off" /\ turn = 2 /\ turn < num_batches => n = 4
        /\ scheduler = "two_step_off" /\ turn > 2 /\ turn < num_batches => n = 5
    BY <1>0, Lengths
<1>3. at = n + 1
    BY <1>2 DEF Ended
<1>4. ASSUME scheduler = "one_step_off"
      PROVE  (turn = 0 /\ at = 9) \/ (turn > 0 /\ Place = 6)
    <2>1. /\ turn = 0 => n = 8
          /\ turn = 1 => n = 4
          /\ turn > 1 => n = 5
        BY <1>2, <1>4
    <2> QED
        BY <1>1, <1>3, <2>1 DEF Place
<1>5. ASSUME scheduler = "two_step_off"
      PROVE  (turn <= 1 /\ at = 3) \/ (turn > 1 /\ Stage = 6)
    <2>1. /\ turn = 0 => n = 2
          /\ turn = 1 => n = 2
          /\ turn = 2 => n = 4
          /\ turn > 2 => n = 5
        BY <1>2, <1>5
    <2> QED
        BY <1>1, <1>3, <2>1 DEF Stage
<1> QED
    BY <1>1, <1>4, <1>5

-----------------------------------------------------------------------------
(* The numbers of the state. *)
Sizes ==
    /\ turn \in Nat /\ num_batches \in Nat \ {0} /\ turn <= num_batches /\ at \in Nat
    /\ total_training_steps \in 1 .. num_batches
    /\ scheduler \in {"one_step_off", "two_step_off"}
    /\ status \in {"schedule", "step", "returned", "raised"}
    /\ global_steps \in Nat /\ updates \in Nat /\ rollout_weights \in Int
    /\ rollout_future.batch \in Nat /\ rollout_future.version \in Int
    /\ teacher_future.batch \in Nat /\ teacher_future.version \in Int
    /\ result.of.batch \in Nat /\ result.of.version \in Int
    /\ result.ok \in BOOLEAN

LEMMA Numbers == ASSUME TypeOK PROVE Sizes
BY DistillAssumption, SMTT(30) DEF TypeOK, Generations, Unsynced, Sizes

(* The calls of a turn, and what follows a yield. *)
Stepping ==
    \/ SyncRolloutWeights \/ GenerateNextBatch \/ GetTeacherKnowledge
    \/ Collect \/ CollectFailure \/ CollectNothing \/ Yield \/ UpdateActor \/ SkipBatch

(* The first turn of one_step_off. *)
LEMMA InFirstTurn ==
    ASSUME IInv, Stepping, scheduler = "one_step_off", turn = 0
    PROVE  Plan'
<1>1. Sizes
    BY Numbers DEF IInv
<1>2. FirstTurn
    BY DEF IInv, Plan
<1>3. FirstTurn' => Plan'
    <2>1. scheduler' = scheduler /\ turn' = turn /\ num_batches' = num_batches
        BY DEF Stepping, SyncRolloutWeights, GenerateNextBatch, GetTeacherKnowledge, Collect, CollectFailure,
            CollectNothing, Yield, UpdateActor, SkipBatch, EndStep, config
    <2> QED
        BY <1>1, <2>1 DEF Sizes, Plan, FirstTurn, LaterTurns, WarmUp, Steady, WindDown
<1>4. SyncRolloutWeights => FirstTurn'
    <2> SUFFICES ASSUME SyncRolloutWeights PROVE FirstTurn'
        OBVIOUS
    <2>1. Calls("sync")
        BY DEF SyncRolloutWeights
    <2>2. at \in {1, 4}
        BY <1>1, <2>1, Places DEF Sizes
    <2> QED
        BY <1>1, <1>2, <2>2, SMTT(30) DEF Sizes, FirstTurn, SyncRolloutWeights, Stepped, Is, Old, config, workers, Calls
<1>5. GenerateNextBatch => FirstTurn'
    <2> SUFFICES ASSUME GenerateNextBatch PROVE FirstTurn'
        OBVIOUS
    <2>1. Calls("generate")
        BY DEF GenerateNextBatch
    <2>2. at \in {2, 5}
        BY <1>1, <2>1, Places DEF Sizes
    <2> QED
        BY <1>1, <1>2, <2>2 DEF Sizes, FirstTurn, GenerateNextBatch, Stepped, Is, Old, config, workers, Calls
<1>6. GetTeacherKnowledge => FirstTurn'
    <2> SUFFICES ASSUME GetTeacherKnowledge PROVE FirstTurn'
        OBVIOUS
    <2>1. Calls("teach")
        BY DEF GetTeacherKnowledge
    <2>2. at \in {3, 8}
        BY <1>1, <2>1, Places DEF Sizes
    <2> QED
        BY <1>1, <1>2, <2>2 DEF Sizes, FirstTurn, GetTeacherKnowledge, Stepped, Is, Old, config, workers, Calls
<1>7. Collect => FirstTurn'
    <2> SUFFICES ASSUME Collect PROVE FirstTurn'
        OBVIOUS
    <2>1. Calls("collect")
        BY DEF Collect
    <2>2. at = 6
        BY <1>1, <2>1, Places DEF Sizes
    <2> QED
        BY <1>1, <1>2, <2>2 DEF Sizes, FirstTurn, Collect, Stepped, Is, Old, config, workers, Calls
<1>8. CollectFailure => FirstTurn'
    <2> SUFFICES ASSUME CollectFailure PROVE FirstTurn'
        OBVIOUS
    <2>1. Calls("collect")
        BY DEF CollectFailure
    <2>2. at = 6
        BY <1>1, <2>1, Places DEF Sizes
    <2> QED
        BY <1>1, <1>2, <2>2 DEF Sizes, FirstTurn, CollectFailure, Stepped, Is, Old, config, workers, Calls
<1>9. CollectNothing => FirstTurn'
    <2> SUFFICES ASSUME CollectNothing PROVE FirstTurn'
        OBVIOUS
    <2>1. Calls("collect")
        BY DEF CollectNothing
    <2>2. at = 6
        BY <1>1, <2>1, Places DEF Sizes
    <2> QED
        BY <1>1, <1>2, <2>2 DEF Sizes, FirstTurn, CollectNothing, Stepped, Is, Old, config, workers, Calls, NoGeneration
<1>10. Yield => FirstTurn'
    <2> SUFFICES ASSUME Yield PROVE FirstTurn'
        OBVIOUS
    <2>1. Calls("yield")
        BY DEF Yield
    <2>2. at = 7
        BY <1>1, <2>1, Places DEF Sizes
    <2> QED
        BY <1>1, <1>2, <2>2 DEF Sizes, FirstTurn, Yield, Stepped, Is, Old, config, workers, Calls
<1>11. UpdateActor => FirstTurn'
    BY <1>1, <1>2 DEF Sizes, FirstTurn, UpdateActor, Stepped, Is, Old, config, workers, EndStep
<1>12. SkipBatch => FirstTurn'
    BY <1>1, <1>2 DEF Sizes, FirstTurn, SkipBatch, Stepped, Is, Old, config, workers, EndStep
<1> QED
    BY <1>3, <1>4, <1>5, <1>6, <1>7, <1>8, <1>9, <1>10, <1>11, <1>12 DEF Stepping

(* Its other turns. *)
LEMMA InLaterTurns ==
    ASSUME IInv, Stepping, scheduler = "one_step_off", turn > 0
    PROVE  Plan'
<1>1. Sizes
    BY Numbers DEF IInv
<1>2. LaterTurns
    BY DEF IInv, Plan
<1>3. LaterTurns' => Plan'
    <2>1. scheduler' = scheduler /\ turn' = turn /\ num_batches' = num_batches
        BY DEF Stepping, SyncRolloutWeights, GenerateNextBatch, GetTeacherKnowledge, Collect, CollectFailure,
            CollectNothing, Yield, UpdateActor, SkipBatch, EndStep, config
    <2> QED
        BY <1>1, <2>1 DEF Sizes, Plan, FirstTurn, LaterTurns, WarmUp, Steady, WindDown
<1>4. SyncRolloutWeights => LaterTurns'
    <2> SUFFICES ASSUME SyncRolloutWeights PROVE LaterTurns'
        OBVIOUS
    <2>1. Calls("sync")
        BY DEF SyncRolloutWeights
    <2>2. turn > 1 /\ at = 1
        BY <1>1, <2>1, Places DEF Sizes
    <2> QED
        BY <1>1, <1>2, <2>2 DEF Sizes, LaterTurns, SyncRolloutWeights, Stepped, Is, Old, config, workers, Place, Calls
<1>5. GenerateNextBatch => LaterTurns'
    <2> SUFFICES ASSUME GenerateNextBatch PROVE LaterTurns'
        OBVIOUS
    <2>1. Calls("generate")
        BY DEF GenerateNextBatch
    <2>2. Place = 2
        BY <1>1, <2>1, Places DEF Sizes
    <2> QED
        BY <1>1, <1>2, <2>2 DEF Sizes, LaterTurns, GenerateNextBatch, Stepped, Is, Old, config, workers, Place, Calls
<1>6. GetTeacherKnowledge => LaterTurns'
    <2> SUFFICES ASSUME GetTeacherKnowledge PROVE LaterTurns'
        OBVIOUS
    <2>1. Calls("teach")
        BY DEF GetTeacherKnowledge
    <2>2. Place = 5
        BY <1>1, <2>1, Places DEF Sizes
    <2> QED
        BY <1>1, <1>2, <2>2 DEF Sizes, LaterTurns, GetTeacherKnowledge, Stepped, Is, Old, config, workers, Place, Calls
<1>7. Collect => LaterTurns'
    <2> SUFFICES ASSUME Collect PROVE LaterTurns'
        OBVIOUS
    <2>1. Calls("collect")
        BY DEF Collect
    <2>2. Place = 3
        BY <1>1, <2>1, Places DEF Sizes
    <2> QED
        BY <1>1, <1>2, <2>2 DEF Sizes, LaterTurns, Collect, Stepped, Is, Old, config, workers, Place, Calls
<1>8. CollectFailure => LaterTurns'
    <2> SUFFICES ASSUME CollectFailure PROVE LaterTurns'
        OBVIOUS
    <2>1. Calls("collect")
        BY DEF CollectFailure
    <2>2. Place = 3
        BY <1>1, <2>1, Places DEF Sizes
    <2> QED
        BY <1>1, <1>2, <2>2 DEF Sizes, LaterTurns, CollectFailure, Stepped, Is, Old, config, workers, Place, Calls
<1>9. CollectNothing => LaterTurns'
    <2> SUFFICES ASSUME CollectNothing PROVE LaterTurns'
        OBVIOUS
    <2>1. Calls("collect")
        BY DEF CollectNothing
    <2>2. Place = 3
        BY <1>1, <2>1, Places DEF Sizes
    <2> QED
        BY <1>1, <1>2, <2>2 DEF Sizes, LaterTurns, CollectNothing, Stepped, Is, Old, config, workers, Place, Calls, NoGeneration
<1>10. Yield => LaterTurns'
    <2> SUFFICES ASSUME Yield PROVE LaterTurns'
        OBVIOUS
    <2>1. Calls("yield")
        BY DEF Yield
    <2>2. Place = 4
        BY <1>1, <2>1, Places DEF Sizes
    <2> QED
        BY <1>1, <1>2, <2>2 DEF Sizes, LaterTurns, Yield, Stepped, Is, Old, config, workers, Place, Calls
<1>11. UpdateActor => LaterTurns'
    BY <1>1, <1>2 DEF Sizes, LaterTurns, UpdateActor, Stepped, Is, Old, config, workers, Place, EndStep
<1>12. SkipBatch => LaterTurns'
    BY <1>1, <1>2 DEF Sizes, LaterTurns, SkipBatch, Stepped, Is, Old, config, workers, Place, EndStep
<1> QED
    BY <1>3, <1>4, <1>5, <1>6, <1>7, <1>8, <1>9, <1>10, <1>11, <1>12 DEF Stepping

(* The first two turns of two_step_off. *)
LEMMA InWarmUp ==
    ASSUME IInv, Stepping, scheduler = "two_step_off", turn <= 1
    PROVE  Plan'
<1>1. Sizes
    BY Numbers DEF IInv
<1>2. WarmUp
    BY DEF IInv, Plan
<1>3. WarmUp' => Plan'
    <2>1. scheduler' = scheduler /\ turn' = turn /\ num_batches' = num_batches
        BY DEF Stepping, SyncRolloutWeights, GenerateNextBatch, GetTeacherKnowledge, Collect, CollectFailure,
            CollectNothing, Yield, UpdateActor, SkipBatch, EndStep, config
    <2> QED
        BY <1>1, <2>1 DEF Sizes, Plan, FirstTurn, LaterTurns, WarmUp, Steady, WindDown
<1>4. SyncRolloutWeights => WarmUp'
    <2> SUFFICES ASSUME SyncRolloutWeights PROVE WarmUp'
        OBVIOUS
    <2>1. Calls("sync")
        BY DEF SyncRolloutWeights
    <2>2. turn = 0 /\ at = 1
        BY <1>1, <2>1, Places DEF Sizes
    <2> QED
        BY <1>1, <1>2, <2>2 DEF Sizes, WarmUp, SyncRolloutWeights, Stepped, Is, Old, config, workers, NoGeneration, Calls
<1>5. GenerateNextBatch => WarmUp'
    <2> SUFFICES ASSUME GenerateNextBatch PROVE WarmUp'
        OBVIOUS
    <2>1. Calls("generate")
        BY DEF GenerateNextBatch
    <2>2. turn < num_batches /\ at = 2
        BY <1>1, <2>1, Places DEF Sizes
    <2> QED
        BY <1>1, <1>2, <2>2 DEF Sizes, WarmUp, GenerateNextBatch, Stepped, Is, Old, config, workers, NoGeneration, Calls
<1>6. GetTeacherKnowledge => WarmUp'
    <2> SUFFICES ASSUME GetTeacherKnowledge PROVE WarmUp'
        OBVIOUS
    <2>1. Calls("teach")
        BY DEF GetTeacherKnowledge
    <2>2. turn = 1 /\ turn < num_batches /\ at = 1
        BY <1>1, <2>1, Places DEF Sizes
    <2> QED
        BY <1>1, <1>2, <2>2 DEF Sizes, WarmUp, GetTeacherKnowledge, Stepped, Is, Old, config, workers, NoGeneration, Calls
<1>7. Collect => WarmUp'
    <2> SUFFICES ASSUME Collect PROVE WarmUp'
        OBVIOUS
    <2>1. Calls("collect")
        BY DEF Collect
    <2>2. turn = 1 /\ at = 1
        BY <1>1, <2>1, Places DEF Sizes
    <2> QED
        BY <1>1, <1>2, <2>2 DEF Sizes, WarmUp, Collect, Stepped, Is, Old, config, workers, NoGeneration, Calls
<1>8. CollectFailure => WarmUp'
    <2> SUFFICES ASSUME CollectFailure PROVE WarmUp'
        OBVIOUS
    <2>1. Calls("collect")
        BY DEF CollectFailure
    <2>2. turn = 1 /\ at = 1
        BY <1>1, <2>1, Places DEF Sizes
    <2> QED
        BY <1>1, <1>2, <2>2 DEF Sizes, WarmUp, CollectFailure, Stepped, Is, Old, config, workers, NoGeneration, Calls
<1>9. CollectNothing => WarmUp'
    <2> SUFFICES ASSUME CollectNothing PROVE WarmUp'
        OBVIOUS
    <2>1. Calls("collect")
        BY DEF CollectNothing
    <2>2. turn = 1 /\ at = 1
        BY <1>1, <2>1, Places DEF Sizes
    <2> QED
        BY <1>1, <1>2, <2>2 DEF Sizes, WarmUp, CollectNothing, Stepped, Is, Old, config, workers, NoGeneration, Calls
<1>10. Yield => WarmUp'
    <2> SUFFICES ASSUME Yield PROVE WarmUp'
        OBVIOUS
    <2>1. Calls("yield")
        BY DEF Yield
    <2> QED
        BY <1>1, <2>1, Places DEF Sizes
<1>11. UpdateActor => WarmUp'
    BY <1>1, <1>2 DEF Sizes, WarmUp, UpdateActor, Stepped, Is, Old, config, workers, NoGeneration, EndStep
<1>12. SkipBatch => WarmUp'
    BY <1>1, <1>2 DEF Sizes, WarmUp, SkipBatch, Stepped, Is, Old, config, workers, NoGeneration, EndStep
<1> QED
    BY <1>3, <1>4, <1>5, <1>6, <1>7, <1>8, <1>9, <1>10, <1>11, <1>12 DEF Stepping

(* The turns up to the last. *)
LEMMA InSteadyTurns ==
    ASSUME IInv, Stepping, scheduler = "two_step_off", turn > 1, turn < num_batches
    PROVE  Plan'
<1>1. Sizes
    BY Numbers DEF IInv
<1>2. Steady
    BY DEF IInv, Plan
<1>3. Steady' => Plan'
    <2>1. scheduler' = scheduler /\ turn' = turn /\ num_batches' = num_batches
        BY DEF Stepping, SyncRolloutWeights, GenerateNextBatch, GetTeacherKnowledge, Collect, CollectFailure,
            CollectNothing, Yield, UpdateActor, SkipBatch, EndStep, config
    <2> QED
        BY <1>1, <2>1 DEF Sizes, Plan, FirstTurn, LaterTurns, WarmUp, Steady, WindDown
<1>4. SyncRolloutWeights => Steady'
    <2> SUFFICES ASSUME SyncRolloutWeights PROVE Steady'
        OBVIOUS
    <2>1. Calls("sync")
        BY DEF SyncRolloutWeights
    <2>2. turn > 2 /\ at = 3
        BY <1>1, <2>1, Places DEF Sizes
    <2> QED
        BY <1>1, <1>2, <2>2 DEF Sizes, Steady, SyncRolloutWeights, Stepped, Is, Old, config, workers, Stage, Calls
<1>5. GenerateNextBatch => Steady'
    <2> SUFFICES ASSUME GenerateNextBatch PROVE Steady'
        OBVIOUS
    <2>1. Calls("generate")
        BY DEF GenerateNextBatch
    <2>2. Stage = 4
        BY <1>1, <2>1, Places DEF Sizes
    <2> QED
        BY <1>1, <1>2, <2>2 DEF Sizes, Steady, GenerateNextBatch, Stepped, Is, Old, config, workers, Stage, Calls
<1>6. GetTeacherKnowledge => Steady'
    <2> SUFFICES ASSUME GetTeacherKnowledge PROVE Steady'
        OBVIOUS
    <2>1. Calls("teach")
        BY DEF GetTeacherKnowledge
    <2>2. at = 2
        BY <1>1, <2>1, Places DEF Sizes
    <2> QED
        BY <1>1, <1>2, <2>2 DEF Sizes, Steady, GetTeacherKnowledge, Stepped, Is, Old, config, workers, Stage, Calls
<1>7. Collect => Steady'
    <2> SUFFICES ASSUME Collect PROVE Steady'
        OBVIOUS
    <2>1. Calls("collect")
        BY DEF Collect
    <2>2. at = 1
        BY <1>1, <2>1, Places DEF Sizes
    <2> QED
        BY <1>1, <1>2, <2>2 DEF Sizes, Steady, Collect, Stepped, Is, Old, config, workers, Stage, Calls
<1>8. CollectFailure => Steady'
    <2> SUFFICES ASSUME CollectFailure PROVE Steady'
        OBVIOUS
    <2>1. Calls("collect")
        BY DEF CollectFailure
    <2>2. at = 1
        BY <1>1, <2>1, Places DEF Sizes
    <2> QED
        BY <1>1, <1>2, <2>2 DEF Sizes, Steady, CollectFailure, Stepped, Is, Old, config, workers, Stage, Calls
<1>9. CollectNothing => Steady'
    <2> SUFFICES ASSUME CollectNothing PROVE Steady'
        OBVIOUS
    <2>1. Calls("collect")
        BY DEF CollectNothing
    <2>2. at = 1
        BY <1>1, <2>1, Places DEF Sizes
    <2> QED
        BY <1>1, <1>2, <2>2 DEF Sizes, Steady, CollectNothing, Stepped, Is, Old, config, workers, Stage, Calls, NoGeneration
<1>10. Yield => Steady'
    <2> SUFFICES ASSUME Yield PROVE Steady'
        OBVIOUS
    <2>1. Calls("yield")
        BY DEF Yield
    <2>2. Stage = 5
        BY <1>1, <2>1, Places DEF Sizes
    <2> QED
        BY <1>1, <1>2, <2>2, SMTT(30) DEF Sizes, Steady, Yield, Stepped, Is, Old, config, workers, Stage, Calls
<1>11. UpdateActor => Steady'
    BY <1>1, <1>2 DEF Sizes, Steady, UpdateActor, Stepped, Is, Old, config, workers, Stage, EndStep
<1>12. SkipBatch => Steady'
    BY <1>1, <1>2 DEF Sizes, Steady, SkipBatch, Stepped, Is, Old, config, workers, Stage, EndStep
<1> QED
    BY <1>3, <1>4, <1>5, <1>6, <1>7, <1>8, <1>9, <1>10, <1>11, <1>12 DEF Stepping

(* What follows them. *)
LEMMA InWindDown ==
    ASSUME IInv, Stepping, scheduler = "two_step_off", turn > 1, turn = num_batches
    PROVE  Plan'
<1>1. Sizes
    BY Numbers DEF IInv
<1>2. WindDown
    BY DEF IInv, Plan
<1>3. WindDown' => Plan'
    <2>1. scheduler' = scheduler /\ turn' = turn /\ num_batches' = num_batches
        BY DEF Stepping, SyncRolloutWeights, GenerateNextBatch, GetTeacherKnowledge, Collect, CollectFailure,
            CollectNothing, Yield, UpdateActor, SkipBatch, EndStep, config
    <2> QED
        BY <1>1, <2>1 DEF Sizes, Plan, FirstTurn, LaterTurns, WarmUp, Steady, WindDown
<1>4. SyncRolloutWeights => WindDown'
    <2> SUFFICES ASSUME SyncRolloutWeights PROVE WindDown'
        OBVIOUS
    <2>1. Calls("sync")
        BY DEF SyncRolloutWeights
    <2> QED
        BY <1>1, <2>1, Places DEF Sizes
<1>5. GenerateNextBatch => WindDown'
    <2> SUFFICES ASSUME GenerateNextBatch PROVE WindDown'
        OBVIOUS
    <2>1. Calls("generate")
        BY DEF GenerateNextBatch
    <2> QED
        BY <1>1, <2>1, Places DEF Sizes
<1>6. GetTeacherKnowledge => WindDown'
    <2> SUFFICES ASSUME GetTeacherKnowledge PROVE WindDown'
        OBVIOUS
    <2>1. Calls("teach")
        BY DEF GetTeacherKnowledge
    <2>2. at = 2
        BY <1>1, <2>1, Places DEF Sizes
    <2> QED
        BY <1>1, <1>2, <2>2 DEF Sizes, WindDown, GetTeacherKnowledge, Stepped, Is, Old, config, workers, Calls
<1>7. Collect => WindDown'
    <2> SUFFICES ASSUME Collect PROVE WindDown'
        OBVIOUS
    <2>1. Calls("collect")
        BY DEF Collect
    <2>2. at \in {1, 4}
        BY <1>1, <2>1, Places DEF Sizes
    <2> QED
        BY <1>1, <1>2, <2>2 DEF Sizes, WindDown, Collect, Stepped, Is, Old, config, workers, Calls
<1>8. CollectFailure => WindDown'
    <2> SUFFICES ASSUME CollectFailure PROVE WindDown'
        OBVIOUS
    <2>1. Calls("collect")
        BY DEF CollectFailure
    <2>2. at \in {1, 4}
        BY <1>1, <2>1, Places DEF Sizes
    <2> QED
        BY <1>1, <1>2, <2>2 DEF Sizes, WindDown, CollectFailure, Stepped, Is, Old, config, workers, Calls
<1>9. CollectNothing => WindDown'
    <2> SUFFICES ASSUME CollectNothing PROVE WindDown'
        OBVIOUS
    <2>1. Calls("collect")
        BY DEF CollectNothing
    <2>2. at \in {1, 4}
        BY <1>1, <2>1, Places DEF Sizes
    <2> QED
        BY <1>1, <1>2, <2>2 DEF Sizes, WindDown, CollectNothing, Stepped, Is, Old, config, workers, Calls, NoGeneration
<1>10. Yield => WindDown'
    <2> SUFFICES ASSUME Yield PROVE WindDown'
        OBVIOUS
    <2>1. Calls("yield")
        BY DEF Yield
    <2>2. at \in {3, 5}
        BY <1>1, <2>1, Places DEF Sizes
    <2> QED
        BY <1>1, <1>2, <2>2 DEF Sizes, WindDown, Yield, Stepped, Is, Old, config, workers, Calls
<1>11. UpdateActor => WindDown'
    BY <1>1, <1>2 DEF Sizes, WindDown, UpdateActor, Stepped, Is, Old, config, workers, EndStep
<1>12. SkipBatch => WindDown'
    BY <1>1, <1>2 DEF Sizes, WindDown, SkipBatch, Stepped, Is, Old, config, workers, EndStep
<1> QED
    BY <1>3, <1>4, <1>5, <1>6, <1>7, <1>8, <1>9, <1>10, <1>11, <1>12 DEF Stepping

(* A new turn begins where the one before has left the batches. *)
LEMMA NextTurns ==
    ASSUME IInv, NextTurn
    PROVE  Plan'
<1>1. Sizes /\ Plan /\ (status = "schedule" => global_steps <= total_training_steps)
    BY Numbers DEF IInv, StepsLeft
<1>2. /\ scheduler' = scheduler /\ num_batches' = num_batches /\ turn' = turn + 1 /\ at' = 1
      /\ rollout_future' = rollout_future /\ teacher_future' = teacher_future /\ result' = result
      /\ rollout_weights' = rollout_weights /\ updates' = updates
      /\ global_steps' = global_steps /\ status' = status /\ status = "schedule" /\ turn < num_batches
    BY DEF NextTurn, config, workers
<1>3. \/ scheduler = "one_step_off" /\ turn = 0 /\ at = 9
      \/ scheduler = "one_step_off" /\ turn > 0 /\ Place = 6
      \/ scheduler = "two_step_off" /\ turn <= 1 /\ at = 3
      \/ scheduler = "two_step_off" /\ turn > 1 /\ Stage = 6
    BY Ends DEF NextTurn, Ended
<1>4. ASSUME scheduler = "one_step_off" PROVE Plan'
    <2>1. FirstTurn /\ LaterTurns
        BY <1>1 DEF Plan
    <2>2. LaterTurns'
        BY <1>1, <1>2, <1>3, <1>4, <2>1
        DEF Sizes, FirstTurn, LaterTurns, Place, Stepped, Is, Old
    <2> QED
        BY <1>1, <1>2, <1>4, <2>2 DEF Sizes, Plan, FirstTurn, WarmUp, Steady, WindDown
<1>5. ASSUME scheduler = "two_step_off" PROVE Plan'
    <2>1. WarmUp /\ Steady
        BY <1>1 DEF Plan
    <2>2. WarmUp'
        BY <1>1, <1>2, <1>3, <1>5, <2>1 DEF Sizes, WarmUp, Stepped, Is, Old, NoGeneration
    <2>3. Steady'
        BY <1>1, <1>2, <1>3, <1>5, <2>1 DEF Sizes, WarmUp, Steady, Stage, Stepped, Is, Old
    <2>4. WindDown'
        BY <1>1, <1>2, <1>3, <1>5, <2>1 DEF Sizes, WarmUp, Steady, WindDown, Stage, Stepped, Is, Old
    <2> QED
        BY <1>1, <1>2, <1>5, <2>2, <2>3, <2>4 DEF Sizes, Plan, FirstTurn, LaterTurns
<1> QED
    BY <1>1, <1>4, <1>5 DEF Sizes

(* The rollouts and the threads change nothing the plan speaks of. *)
LEMMA OthersSteps ==
    ASSUME IInv, FinishGeneration \/ (\E t \in Threads : Thread(t)) \/ UNCHANGED vars
    PROVE  Plan' /\ Collected' /\ StepsLeft'
<1>1. /\ scheduler' = scheduler /\ num_batches' = num_batches /\ total_training_steps' = total_training_steps
      /\ turn' = turn /\ at' = at
      /\ rollout_future' = rollout_future /\ teacher_future' = teacher_future /\ result' = result
      /\ rollout_weights' = rollout_weights /\ updates' = updates
      /\ global_steps' = global_steps /\ status' = status /\ knowledge' = knowledge
    BY DEF FinishGeneration, Thread, TakeTask, Answer, AnswerError, TimeOut, FailSend, Resolve,
        vars, config, driver, workers, teacher
<1> QED
    BY <1>1 DEF IInv, Plan, FirstTurn, LaterTurns, WarmUp, Steady, WindDown, Place, Stage, Stepped, Is, Old,
        Collected, StepsLeft

LEMMA BufferAndSteps ==
    ASSUME IInv, Driver
    PROVE  Collected' /\ StepsLeft'
<1>1. Sizes /\ Collected /\ StepsLeft
    BY Numbers DEF IInv
<1>2. Collected'
    BY <1>1 DEF Collected, Driver, NextTurn, SyncRolloutWeights, GenerateNextBatch, GetTeacherKnowledge,
        Collect, CollectFailure, CollectNothing, Yield, UpdateActor, SkipBatch, EndStep
<1>3. StepsLeft'
    BY <1>1 DEF Sizes, StepsLeft, Driver, NextTurn, SyncRolloutWeights, GenerateNextBatch, GetTeacherKnowledge,
        Collect, CollectFailure, CollectNothing, Yield, UpdateActor, SkipBatch, EndStep, config, Calls
<1> QED
    BY <1>2, <1>3

LEMMA PlanKept ==
    ASSUME IInv, [Next]_vars
    PROVE  Plan' /\ Collected' /\ StepsLeft'
<1>1. CASE NextTurn
    BY <1>1, NextTurns, BufferAndSteps DEF Driver
<1>2. CASE Stepping
    <2>1. Sizes
        BY Numbers DEF IInv
    <2>2. ASSUME scheduler = "one_step_off" PROVE Plan'
        <3>1. turn = 0 \/ turn > 0
            BY <2>1 DEF Sizes
        <3> QED
            BY <1>2, <2>2, <3>1, InFirstTurn, InLaterTurns
    <2>3. ASSUME scheduler = "two_step_off" PROVE Plan'
        <3>1. turn <= 1 \/ (turn > 1 /\ turn < num_batches) \/ (turn > 1 /\ turn = num_batches)
            BY <2>1 DEF Sizes
        <3> QED
            BY <1>2, <2>3, <3>1, InWarmUp, InSteadyTurns, InWindDown
    <2>4. Driver
        BY <1>2 DEF Driver, Stepping
    <2> QED
        BY <2>1, <2>2, <2>3, <2>4, BufferAndSteps DEF Sizes
<1>3. CASE FinishGeneration \/ (\E t \in Threads : Thread(t)) \/ UNCHANGED vars
    BY <1>3, OthersSteps
<1> QED
    BY <1>1, <1>2, <1>3 DEF Next, Driver, Stepping

-----------------------------------------------------------------------------
(* Every turn is a sequence of calls. *)
LEMMA TurnsAreSequences ==
    ASSUME NEW i \in Nat, scheduler \in {"one_step_off", "two_step_off"}
    PROVE  Len(Turn(i)) \in Nat
<1>1. ASSUME i = num_batches, scheduler = "one_step_off" PROVE Len(Turn(i)) = 2
    <2>1. Turn(i) = <<"collect", "yield">>
        BY <1>1 DEF Turn, AfterLoop
    <2> QED
        BY <2>1
<1>2. ASSUME i = num_batches, scheduler = "two_step_off" PROVE Len(Turn(i)) = 5
    <2>1. Turn(i) = <<"collect", "teach", "yield", "collect", "yield">>
        BY <1>2 DEF Turn, AfterLoop
    <2> QED
        BY <2>1
<1>3. ASSUME i # num_batches, scheduler = "one_step_off"
      PROVE  Len(Turn(i)) = 8 \/ Len(Turn(i)) = 4 \/ Len(Turn(i)) = 5
    <2>1. /\ i = 0 => Turn(i) =
                <<"sync", "generate", "teach", "sync", "generate", "collect", "yield", "teach">>
          /\ i = 1 => Turn(i) = <<"generate", "collect", "yield", "teach">>
          /\ i # 0 /\ i # 1 => Turn(i) = <<"sync", "generate", "collect", "yield", "teach">>
        BY <1>3 DEF Turn
    <2>2. i = 0 => Len(Turn(i)) = 8
        BY <2>1
    <2>3. i = 1 => Len(Turn(i)) = 4
        BY <2>1
    <2>4. i # 0 /\ i # 1 => Len(Turn(i)) = 5
        BY <2>1
    <2> QED
        BY <2>2, <2>3, <2>4
<1>4. ASSUME i # num_batches, scheduler = "two_step_off"
      PROVE  Len(Turn(i)) = 2 \/ Len(Turn(i)) = 4 \/ Len(Turn(i)) = 5
    <2>1. /\ i = 0 => Turn(i) = <<"sync", "generate">>
          /\ i = 1 => Turn(i) = <<"teach", "generate">>
          /\ i = 2 => Turn(i) = <<"collect", "teach", "generate", "yield">>
          /\ i # 0 /\ i # 1 /\ i # 2 => Turn(i) = <<"collect", "teach", "sync", "generate", "yield">>
        BY <1>4 DEF Turn
    <2>2. i = 0 \/ i = 1 => Len(Turn(i)) = 2
        BY <2>1
    <2>3. i = 2 => Len(Turn(i)) = 4
        BY <2>1
    <2>4. i # 0 /\ i # 1 /\ i # 2 => Len(Turn(i)) = 5
        BY <2>1
    <2> QED
        BY <2>2, <2>3, <2>4
<1> QED
    BY <1>1, <1>2, <1>3, <1>4

LEMMA TypeSteps ==
    ASSUME IInv, Stepping
    PROVE  TypeOK'
<1>1. Sizes /\ TypeOK /\ StepsLeft
    BY Numbers DEF IInv
<1>2. PICK n \in Nat : n = Len(Turn(turn)) /\ at \in 1 .. n + 1
    <2>1. scheduler = "one_step_off" => turn < num_batches
        BY <1>1 DEF IInv, Plan, LaterTurns, Sizes
    <2> QED
        BY <1>1, <2>1, Lengths
<1>3. Turn(turn)' = Turn(turn)
    <2>1. scheduler' = scheduler /\ turn' = turn /\ num_batches' = num_batches
        BY DEF Stepping, SyncRolloutWeights, GenerateNextBatch, GetTeacherKnowledge, Collect, CollectFailure,
            CollectNothing, Yield, UpdateActor, SkipBatch, EndStep, config
    <2> QED
        BY <2>1 DEF Turn, AfterLoop
<1> DEFINE AtOK == at \in 1 .. Len(Turn(turn)) + 1
<1>4. AtOK'
    <2>1. (at' = at + 1 /\ at <= Len(Turn(turn))) \/ at' = at
        BY DEF Stepping, SyncRolloutWeights, GenerateNextBatch, GetTeacherKnowledge, Collect, CollectFailure,
            CollectNothing, Yield, UpdateActor, SkipBatch, EndStep, Calls
    <2>2. at' \in 1 .. n + 1
        BY <1>2, <2>1
    <2> QED
        BY <1>2, <1>3, <2>2
<1> HIDE DEF AtOK
<1> DEFINE Rest ==
    /\ scheduler \in {"one_step_off", "two_step_off"}
    /\ num_batches \in 1 .. MaxBatches /\ total_training_steps \in 1 .. num_batches
    /\ turn \in 0 .. num_batches
    /\ rollout_future \in Generations /\ teacher_future \in Generations
    /\ result \in [of : Generations, ok : BOOLEAN]
    /\ generating \in BOOLEAN /\ rollout_weights \in Nat \cup {Unsynced} /\ updates \in Nat
    /\ global_steps \in 1 .. total_training_steps + 1
    /\ status \in {"schedule", "step", "returned", "raised"}
    /\ task_queue \in Seq(Tasks) /\ serving \in [Threads -> Tasks \cup {None}]
    /\ stuck \subseteq Threads
    /\ answered \subseteq Tasks /\ failed \subseteq Tasks /\ knowledge \in Nat
<1>5. Rest
    BY <1>1 DEF TypeOK
<1>6. SyncRolloutWeights => Rest'
    BY <1>5 DEF SyncRolloutWeights, config, teacher
<1>7. GenerateNextBatch => Rest'
    <2> SUFFICES ASSUME GenerateNextBatch PROVE Rest'
        OBVIOUS
    <2>1. rollout_future'.id \in Nat /\ turn + 1 \in 0 .. MaxBatches + 1
        BY <1>5, DistillAssumption DEF GenerateNextBatch, Generations
    <2>2. rollout_future' \in Generations
        BY <1>5, <2>1 DEF GenerateNextBatch, Generations
    <2> QED
        BY <1>5, <2>2 DEF GenerateNextBatch, config, teacher
<1>8. GetTeacherKnowledge => Rest'
    <2> SUFFICES ASSUME GetTeacherKnowledge PROVE Rest'
        OBVIOUS
    <2> DEFINE new == [p \in Parts |-> <<rollout_future.id, p>>]
    <2>1. rollout_future.id \in Nat
        BY <1>5 DEF Generations
    <2>2. new \in Seq(Tasks)
        BY <2>1, DistillAssumption DEF Parts, Tasks
    <2> HIDE DEF new
    <2>3. task_queue \o new \in Seq(Tasks)
        BY <1>5, <2>2
    <2>4. task_queue' = task_queue \o new
        BY DEF GetTeacherKnowledge, new
    <2> QED
        BY <1>5, <2>3, <2>4 DEF GetTeacherKnowledge, config, workers
<1>9. Collect => Rest'
    BY <1>5 DEF Collect, config, workers, teacher, Generations
<1>10. CollectFailure => Rest'
    BY <1>5 DEF CollectFailure, config, workers, teacher
<1>11. CollectNothing => Rest'
    BY <1>5 DEF CollectNothing, config, workers, teacher
<1>12. Yield => Rest'
    BY <1>5 DEF Yield, config, workers, teacher
<1>13. UpdateActor => Rest'
    BY <1>1, <1>5 DEF UpdateActor, EndStep, StepsLeft, config, teacher
<1>14. SkipBatch => Rest'
    BY <1>1, <1>5 DEF SkipBatch, EndStep, StepsLeft, config, teacher
<1>15. Rest'
    BY <1>6, <1>7, <1>8, <1>9, <1>10, <1>11, <1>12, <1>13, <1>14 DEF Stepping
<1> QED
    BY <1>4, <1>15 DEF TypeOK, AtOK

LEMMA TypeTurns ==
    ASSUME IInv, NextTurn
    PROVE  TypeOK'
<1>1. Sizes /\ TypeOK
    BY Numbers DEF IInv
<1>2. turn' = turn + 1 /\ num_batches' = num_batches /\ scheduler' = scheduler /\ at' = 1
    BY DEF NextTurn, config
<1>3. Len(Turn(turn))' \in Nat
    <2>1. Turn(turn)' = Turn(turn + 1)
        BY <1>2 DEF Turn, AfterLoop
    <2>2. turn + 1 \in Nat /\ scheduler \in {"one_step_off", "two_step_off"}
        BY <1>1 DEF Sizes
    <2> QED
        BY <2>1, <2>2, TurnsAreSequences
<1>4. (at \in 1 .. Len(Turn(turn)) + 1)'
    BY <1>2, <1>3
<1>5. turn' \in 0 .. num_batches
    BY <1>1, <1>2 DEF NextTurn, Sizes
<1> QED
    BY <1>1, <1>2, <1>4, <1>5 DEF TypeOK, NextTurn, config, workers, teacher

LEMMA TypeOthers ==
    ASSUME TypeOK, FinishGeneration \/ (\E t \in Threads : Thread(t)) \/ UNCHANGED vars
    PROVE  TypeOK'
<1> DEFINE Still ==
    /\ scheduler \in {"one_step_off", "two_step_off"}
    /\ num_batches \in 1 .. MaxBatches /\ total_training_steps \in 1 .. num_batches
    /\ turn \in 0 .. num_batches /\ at \in 1 .. Len(Turn(turn)) + 1
    /\ rollout_future \in Generations /\ teacher_future \in Generations
    /\ result \in [of : Generations, ok : BOOLEAN]
    /\ rollout_weights \in Nat \cup {Unsynced} /\ updates \in Nat
    /\ global_steps \in 1 .. total_training_steps + 1
    /\ status \in {"schedule", "step", "returned", "raised"} /\ knowledge \in Nat
<1>1. Still'
    <2>1. Still
        BY DEF TypeOK
    <2>2. /\ scheduler' = scheduler /\ num_batches' = num_batches
          /\ total_training_steps' = total_training_steps /\ turn' = turn /\ at' = at
          /\ rollout_future' = rollout_future /\ teacher_future' = teacher_future /\ result' = result
          /\ rollout_weights' = rollout_weights /\ updates' = updates
          /\ global_steps' = global_steps /\ status' = status /\ knowledge' = knowledge
        BY DEF FinishGeneration, Thread, TakeTask, Answer, AnswerError, TimeOut, FailSend, Resolve,
            vars, config, driver, workers, teacher
    <2>3. Turn(turn)' = Turn(turn)
        BY <2>2 DEF Turn, AfterLoop
    <2> QED
        BY <2>1, <2>2, <2>3
<1> DEFINE Own ==
    /\ generating \in BOOLEAN
    /\ task_queue \in Seq(Tasks) /\ serving \in [Threads -> Tasks \cup {None}]
    /\ stuck \subseteq Threads /\ answered \subseteq Tasks /\ failed \subseteq Tasks
<1>2. Own
    BY DEF TypeOK
<1> HIDE DEF Still
<1>3. CASE FinishGeneration
    <2>1. Own'
        BY <1>2, <1>3 DEF FinishGeneration, teacher
    <2> QED
        BY <1>1, <2>1 DEF TypeOK, Still
<1>4. ASSUME NEW t \in Threads, Thread(t) PROVE Own'
    <2>1. ASSUME TakeTask(t) PROVE Own'
        <3>1. Head(task_queue) \in Tasks /\ Tail(task_queue) \in Seq(Tasks)
            BY <1>2, <2>1 DEF TakeTask
        <3> QED
            BY <1>2, <2>1, <3>1 DEF TakeTask, workers
    <2>2. ASSUME NEW ok \in BOOLEAN, Resolve(t, ok), serving[t] # None, stuck' \subseteq Threads PROVE Own'
        <3>1. serving[t] \in Tasks
            BY <1>2, <2>2
        <3> QED
            BY <1>2, <2>2, <3>1 DEF Resolve, workers
    <2>3. Answer(t) \/ AnswerError(t) \/ TimeOut(t) \/ FailSend(t) => Own'
        BY <1>2, <1>4, <2>2 DEF Answer, AnswerError, TimeOut, FailSend
    <2> QED
        BY <1>4, <2>1, <2>3 DEF Thread
<1>5. UNCHANGED vars => Own'
    BY <1>2 DEF vars, workers, teacher
<1> QED
    BY <1>1, <1>3, <1>4, <1>5 DEF TypeOK, Still

-----------------------------------------------------------------------------
LEMMA Initially == Init => IInv
<1> SUFFICES ASSUME Init PROVE IInv
    OBVIOUS
<1>1. Len(Turn(turn)) \in Nat
    <2>1. turn \in Nat /\ scheduler \in {"one_step_off", "two_step_off"}
        BY DEF Init
    <2> QED
        BY <2>1, TurnsAreSequences
<1>2. TypeOK
    <2>1. at \in 1 .. Len(Turn(turn)) + 1
        BY <1>1 DEF Init
    <2>2. NoGeneration \in Generations
        BY DistillAssumption DEF NoGeneration, Generations
    <2>3. turn \in 0 .. num_batches /\ global_steps \in 1 .. total_training_steps + 1
        BY DistillAssumption DEF Init
    <2>4. [t \in Threads |-> None] \in [Threads -> Tasks \cup {None}] /\ <<>> \in Seq(Tasks)
        OBVIOUS
    <2>5. result \in [of : Generations, ok : BOOLEAN]
        BY <2>2 DEF Init
    <2> QED
        BY <2>1, <2>2, <2>3, <2>4, <2>5 DEF Init, TypeOK, Unsynced
<1>3. Plan
    BY DistillAssumption
    DEF Init, Plan, FirstTurn, LaterTurns, WarmUp, Steady, WindDown, Stepped, NoGeneration
<1> QED
    BY <1>2, <1>3, DistillAssumption DEF Init, IInv, Collected, StepsLeft

LEMMA Inductive == IInv /\ [Next]_vars => IInv'
<1> SUFFICES ASSUME IInv, [Next]_vars PROVE IInv'
    OBVIOUS
<1>1. TypeOK
    BY DEF IInv
<1>2. TypeOK'
    BY <1>1, TypeSteps, TypeTurns, TypeOthers DEF Next, Driver, Stepping
<1> QED
    BY <1>2, PlanKept DEF IInv

LEMMA Invariant == Spec => []IInv
BY Initially, Inductive, PTL DEF Spec

(* The state has its type, in runs of any length with any number of        *)
(* batches and threads.                                                    *)
THEOREM TypeCorrect == Spec => []TypeOK
<1>1. IInv => TypeOK
    BY DEF IInv
<1> QED
    BY <1>1, Invariant, PTL

(* No batch is trained more than two updates after the weights it was      *)
(* generated with.                                                         *)
THEOREM LagIsBounded == Spec => []LagBounded
<1>1. ASSUME IInv PROVE LagBounded
    <2>1. Sizes /\ Plan
        BY <1>1, Numbers DEF IInv
    <2> SUFFICES ASSUME Trains PROVE updates - result.of.version \in 0 .. 2
        BY DEF LagBounded
    <2>2. status = "step"
        BY DEF Trains
    <2>3. CASE scheduler = "one_step_off" /\ turn = 0
        BY <2>1, <2>2, <2>3 DEF Sizes, Plan, FirstTurn, Stepped
    <2>4. CASE scheduler = "one_step_off" /\ turn > 0
        BY <2>1, <2>2, <2>4 DEF Sizes, Plan, LaterTurns, Stepped, Is, Old
    <2>5. CASE scheduler = "two_step_off" /\ turn <= 1
        BY <2>1, <2>2, <2>5 DEF Sizes, Plan, WarmUp, Stepped
    <2>6. CASE scheduler = "two_step_off" /\ turn > 1 /\ turn < num_batches
        <3>1. Is(result.of, turn - 1, 2)
            BY <2>1, <2>2, <2>6 DEF Plan, Steady, Stepped
        <3> QED
            BY <2>1, <3>1 DEF Sizes, Is, Old
    <2>7. CASE scheduler = "two_step_off" /\ turn > 1 /\ turn = num_batches
        BY <2>1, <2>2, <2>7 DEF Sizes, Plan, WindDown, Stepped, Is, Old
    <2> QED
        BY <2>1, <2>3, <2>4, <2>5, <2>6, <2>7 DEF Sizes
<1> QED
    BY <1>1, Invariant, PTL

(* A step trains its own batch or the one before, with its own answers.    *)
THEOREM StepsAreInTurn == Spec => []StepsInTurn
<1>1. ASSUME IInv PROVE StepsInTurn
    <2>1. Sizes /\ Plan /\ Collected
        BY <1>1, Numbers DEF IInv
    <2> SUFFICES ASSUME Trains PROVE /\ knowledge = result.of.id
                                     /\ result.of.batch \in {global_steps - 1, global_steps} \ {0}
        BY DEF StepsInTurn
    <2>2. status = "step" /\ knowledge = result.of.id
        BY <2>1 DEF Trains, Collected
    <2>3. CASE scheduler = "one_step_off" /\ turn = 0
        BY <2>1, <2>2, <2>3 DEF Sizes, Plan, FirstTurn, Stepped
    <2>4. CASE scheduler = "one_step_off" /\ turn > 0
        BY <2>1, <2>2, <2>4 DEF Sizes, Plan, LaterTurns, Stepped, Is
    <2>5. CASE scheduler = "two_step_off" /\ turn <= 1
        BY <2>1, <2>2, <2>5 DEF Sizes, Plan, WarmUp, Stepped
    <2>6. CASE scheduler = "two_step_off" /\ turn > 1 /\ turn < num_batches
        BY <2>1, <2>2, <2>6 DEF Sizes, Plan, Steady, Stepped, Is
    <2>7. CASE scheduler = "two_step_off" /\ turn > 1 /\ turn = num_batches
        BY <2>1, <2>2, <2>7 DEF Sizes, Plan, WindDown, Stepped, Is
    <2> QED
        BY <2>1, <2>3, <2>4, <2>5, <2>6, <2>7 DEF Sizes
<1> QED
    BY <1>1, Invariant, PTL

(* Only the generation of the second turn of one_step_off, which sends no  *)
(* weights although the first turn has trained, is not of the weights the  *)
(* actor has; two_step_off sends none in two turns before it has trained.  *)
CurrentButSecond ==
    [][(rollout_future' # rollout_future /\ ~ (scheduler = "one_step_off" /\ turn = 1))
         => rollout_future'.version = updates]_vars

THEOREM OnlySecondIsStale == Spec => CurrentButSecond
<1>1. ASSUME IInv, [Next]_vars, rollout_future' # rollout_future,
             ~ (scheduler = "one_step_off" /\ turn = 1)
      PROVE  rollout_future'.version = updates
    <2>1. GenerateNextBatch
        BY <1>1 DEF Next, Driver, NextTurn, SyncRolloutWeights, GetTeacherKnowledge, Collect,
            CollectFailure, CollectNothing, Yield, UpdateActor, SkipBatch, EndStep,
            FinishGeneration, Thread, TakeTask, Answer, AnswerError, TimeOut, FailSend, Resolve,
            driver, vars
    <2>2. Calls("generate") /\ rollout_future'.version = rollout_weights
        BY <2>1 DEF GenerateNextBatch
    <2>3. Sizes /\ Plan
        BY <1>1, Numbers DEF IInv
    <2>4. Stepped
        BY <2>2 DEF Calls, Stepped
    <2>5. CASE scheduler = "one_step_off" /\ turn = 0 /\ at \in {2, 5}
        BY <2>2, <2>3, <2>5 DEF Sizes, Plan, FirstTurn
    <2>6. CASE scheduler = "one_step_off" /\ turn > 1 /\ Place = 2
        BY <2>2, <2>3, <2>6 DEF Sizes, Plan, LaterTurns
    <2>7. CASE scheduler = "two_step_off" /\ turn <= 1 /\ turn < num_batches /\ at = 2
        BY <2>2, <2>3, <2>7 DEF Sizes, Plan, WarmUp
    <2>8. CASE scheduler = "two_step_off" /\ turn > 1 /\ turn < num_batches /\ Stage = 4
        BY <2>2, <2>3, <2>8 DEF Sizes, Plan, Steady, Old
    <2> QED
        BY <1>1, <2>2, <2>3, <2>5, <2>6, <2>7, <2>8, Places DEF Sizes
<1>2. IInv /\ [Next]_vars =>
        [(rollout_future' # rollout_future /\ ~ (scheduler = "one_step_off" /\ turn = 1))
           => rollout_future'.version = updates]_vars
    BY <1>1
<1> QED
    BY <1>2, Invariant, PTL DEF Spec, CurrentButSecond
=============================================================================
