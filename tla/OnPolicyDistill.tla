-------------------------- MODULE OnPolicyDistill --------------------------
(***************************************************************************)
(* On-policy distillation, src/gkd/megatron: the driver's training loop    *)
(* and its two schedulers, the rollout workers, and the teacher's client.  *)
(*                                                                         *)
(* A scheduler is a generator that keeps one or two batches under way: it  *)
(* sends weights to the rollouts, starts a generation, submits what was    *)
(* generated to the teacher, collects the teacher's answers, and yields a  *)
(* batch to fit, which trains it. Turn lists the calls a scheduler makes   *)
(* in one turn of its loop. The parts of a batch are answered by threads,  *)
(* each with a REQ socket to the teacher's proxy; a thread whose socket    *)
(* has timed out can send nothing more, for the socket still waits for the *)
(* answer, and so fails whatever it takes from the queue.                  *)
(***************************************************************************)
EXTENDS Integers, Sequences

CONSTANTS
    MaxBatches,    \* bound: batches in all epochs together
    NWorkers,      \* n_server_workers: threads of the client and parts of a batch
    None

ASSUME DistillAssumption ==
    /\ MaxBatches \in Nat \ {0} /\ NWorkers \in Nat \ {0}
    /\ None \notin Nat \X (1 .. NWorkers)

VARIABLES
    scheduler, num_batches, total_training_steps,    \* of the configuration
    turn, at,           \* turn of the scheduler's loop, and its next call in it
    rollout_future,     \* the last generation started (fut)
    teacher_future,     \* the last one submitted (prev_fut)
    result,             \* the last one collected (prev_result)
    generating,         \* the rollouts are at work
    rollout_weights,    \* version they have
    updates,            \* version the actor has
    global_steps, status,
    task_queue, serving, stuck,    \* of the TeacherClient and its threads
    answered, failed,   \* futures that have come to their end
    knowledge           \* generation whose answers teacher_topk_logps_padded holds

config == <<scheduler, num_batches, total_training_steps>>
driver == <<turn, at, rollout_future, teacher_future, result, global_steps, status, knowledge>>
workers == <<generating, rollout_weights, updates>>
teacher == <<task_queue, serving, stuck, answered, failed>>
vars == <<config, driver, workers, teacher>>

Parts == 1 .. NWorkers
Threads == 1 .. NWorkers
Unsynced == -1          \* what the rollouts are built with
NoGeneration == [id |-> 0, batch |-> 0, version |-> 0]

Init ==
    /\ scheduler \in {"one_step_off", "two_step_off"}
    /\ num_batches \in 1 .. MaxBatches /\ total_training_steps \in 1 .. num_batches
    /\ turn = 0 /\ at = 1
    /\ rollout_future = NoGeneration /\ teacher_future = NoGeneration
    /\ result = [of |-> NoGeneration, ok |-> FALSE]
    /\ generating = FALSE /\ rollout_weights = Unsynced /\ updates = 0
    /\ global_steps = 1 /\ status = "schedule"
    /\ task_queue = <<>> /\ serving = [t \in Threads |-> None] /\ stuck = {}
    /\ answered = {} /\ failed = {} /\ knowledge = 0

-----------------------------------------------------------------------------
\* Mutant: both batches are collected before one is yielded.
CollectBoth ==
    IF scheduler = "one_step_off" THEN <<"collect", "yield">>
    ELSE <<"collect", "teach", "collect", "yield", "yield">>

\* The calls that follow the loop, for the batches still under way.
AfterLoop ==
    IF scheduler = "one_step_off" THEN <<"collect", "yield">>
    ELSE <<"collect", "teach", "yield", "collect", "yield">>

\* Mutant: weights are sent in the first turn only.
TurnUnsynced(i) ==
    IF i = num_batches THEN AfterLoop
    ELSE IF scheduler = "one_step_off"
    THEN IF i = 0
         THEN <<"sync", "generate", "teach", "generate", "collect", "yield", "teach">>
         ELSE <<"generate", "collect", "yield", "teach">>
    ELSE CASE i = 0 -> <<"sync", "generate">>
           [] i = 1 -> <<"teach", "generate">>
           [] OTHER -> <<"collect", "teach", "generate", "yield">>

\* The calls of turn i. The first turn of one_step_off goes on into the
\* branch for all turns but the second.
Turn(i) ==
    IF i = num_batches THEN AfterLoop
    ELSE IF scheduler = "one_step_off"
    THEN CASE i = 0 -> <<"sync", "generate", "teach", "sync", "generate", "collect", "yield", "teach">>
           [] i = 1 -> <<"generate", "collect", "yield", "teach">>
           [] OTHER -> <<"sync", "generate", "collect", "yield", "teach">>
    ELSE CASE i = 0 -> <<"sync", "generate">>
           [] i = 1 -> <<"teach", "generate">>
           [] i = 2 -> <<"collect", "teach", "generate", "yield">>
           [] OTHER -> <<"collect", "teach", "sync", "generate", "yield">>

Calls(call) == status = "schedule" /\ at <= Len(Turn(turn)) /\ Turn(turn)[at] = call

NextTurn ==
    /\ status = "schedule" /\ at > Len(Turn(turn)) /\ turn < num_batches
    /\ turn' = turn + 1 /\ at' = 1
    /\ UNCHANGED <<config, rollout_future, teacher_future, result, global_steps, status, knowledge,
                   workers, teacher>>

\* The broadcast takes both sides, and waits behind a generation.
SyncRolloutWeights ==
    /\ Calls("sync") /\ ~generating
    /\ rollout_weights' = updates /\ at' = at + 1
    /\ UNCHANGED <<config, turn, rollout_future, teacher_future, result, global_steps, status,
                   knowledge, generating, updates, teacher>>

GenerateNextBatch ==
    /\ Calls("generate") /\ ~generating
    /\ rollout_future' = [id |-> rollout_future.id + 1, batch |-> turn + 1, version |-> rollout_weights]
    /\ generating' = TRUE /\ at' = at + 1
    /\ UNCHANGED <<config, turn, teacher_future, result, global_steps, status, knowledge,
                   rollout_weights, updates, teacher>>

FinishGeneration ==
    /\ generating /\ generating' = FALSE
    /\ UNCHANGED <<config, driver, rollout_weights, updates, teacher>>

GetTeacherKnowledge ==
    /\ Calls("teach") /\ ~generating
    /\ teacher_future' = rollout_future /\ at' = at + 1
    /\ task_queue' = task_queue \o [p \in Parts |-> <<rollout_future.id, p>>]
    /\ UNCHANGED <<config, turn, rollout_future, result, global_steps, status, knowledge,
                   workers, serving, stuck, answered, failed>>

-----------------------------------------------------------------------------
\* handle_futures waits for the parts in their order, up to the first that
\* failed, and pads the answers into one buffer for all batches.
Awaited(p) == <<teacher_future.id, p>>

Collect ==
    /\ Calls("collect") /\ teacher_future # NoGeneration
    /\ \A p \in Parts : Awaited(p) \in answered
    /\ result' = [of |-> teacher_future, ok |-> TRUE]
    /\ knowledge' = teacher_future.id /\ at' = at + 1
    /\ UNCHANGED <<config, turn, rollout_future, teacher_future, global_steps, status, workers, teacher>>

CollectFailure ==
    /\ Calls("collect") /\ teacher_future # NoGeneration
    /\ \E p \in Parts : /\ Awaited(p) \in failed
                        /\ \A q \in 1 .. p - 1 : Awaited(q) \in answered
    /\ result' = [of |-> teacher_future, ok |-> FALSE] /\ at' = at + 1
    /\ UNCHANGED <<config, turn, rollout_future, teacher_future, global_steps, status, knowledge,
                   workers, teacher>>

\* teacher_future is unbound: two_step_off with a single batch.
CollectNothing ==
    /\ Calls("collect") /\ teacher_future = NoGeneration
    /\ status' = "raised"
    /\ UNCHANGED <<config, turn, at, rollout_future, teacher_future, result, global_steps, knowledge,
                   workers, teacher>>

Yield ==
    /\ Calls("yield")
    /\ status' = "step" /\ at' = at + 1
    /\ UNCHANGED <<config, turn, rollout_future, teacher_future, result, global_steps, knowledge,
                   workers, teacher>>

\* Mutant: the last step is noticed one step late.
EndStepLate ==
    /\ global_steps' = global_steps + 1
    /\ status' = IF global_steps > total_training_steps THEN "returned" ELSE "schedule"
    /\ UNCHANGED <<config, turn, at, rollout_future, teacher_future, result, knowledge,
                   generating, rollout_weights, teacher>>

EndStep ==
    /\ global_steps' = global_steps + 1
    /\ status' = IF global_steps >= total_training_steps THEN "returned" ELSE "schedule"
    /\ UNCHANGED <<config, turn, at, rollout_future, teacher_future, result, knowledge,
                   generating, rollout_weights, teacher>>

UpdateActor == status = "step" /\ result.ok /\ updates' = updates + 1 /\ EndStep
SkipBatch == status = "step" /\ ~result.ok /\ UNCHANGED updates /\ EndStep

-----------------------------------------------------------------------------
\* The threads of the TeacherClient (bg_task), and what the teacher answers.
Resolve(t, ok) ==
    /\ serving' = [serving EXCEPT ![t] = None]
    /\ answered' = IF ok THEN answered \cup {serving[t]} ELSE answered
    /\ failed' = IF ok THEN failed ELSE failed \cup {serving[t]}
    /\ UNCHANGED <<config, driver, workers, task_queue>>

TakeTask(t) ==
    /\ serving[t] = None /\ task_queue # <<>>
    /\ serving' = [serving EXCEPT ![t] = Head(task_queue)] /\ task_queue' = Tail(task_queue)
    /\ UNCHANGED <<config, driver, workers, stuck, answered, failed>>

Answer(t) == serving[t] # None /\ t \notin stuck /\ Resolve(t, TRUE) /\ UNCHANGED stuck
AnswerError(t) == serving[t] # None /\ t \notin stuck /\ Resolve(t, FALSE) /\ UNCHANGED stuck

\* Mutant: the thread ends with its socket, and leaves the future as it is.
TimeOutSilently(t) ==
    /\ serving[t] # None /\ t \notin stuck
    /\ stuck' = stuck \cup {t} /\ serving' = [serving EXCEPT ![t] = None]
    /\ UNCHANGED <<config, driver, workers, task_queue, answered, failed>>

TimeOut(t) ==
    /\ serving[t] # None /\ t \notin stuck
    /\ stuck' = stuck \cup {t} /\ Resolve(t, FALSE)

FailSend(t) == t \in stuck /\ serving[t] # None /\ Resolve(t, FALSE) /\ UNCHANGED stuck

-----------------------------------------------------------------------------
Driver ==
    \/ NextTurn \/ SyncRolloutWeights \/ GenerateNextBatch \/ GetTeacherKnowledge
    \/ Collect \/ CollectFailure \/ CollectNothing \/ Yield \/ UpdateActor \/ SkipBatch

Thread(t) == TakeTask(t) \/ Answer(t) \/ AnswerError(t) \/ TimeOut(t) \/ FailSend(t)

Next == Driver \/ FinishGeneration \/ \E t \in Threads : Thread(t)

Spec == Init /\ [][Next]_vars

\* The driver and the threads run; generations end; a request is answered or
\* times out.
FairSpec ==
    /\ Spec /\ WF_vars(Driver) /\ WF_vars(FinishGeneration)
    /\ \A t \in Threads : WF_vars(Thread(t))

-----------------------------------------------------------------------------
Generations == [id : Nat, batch : 0 .. MaxBatches + 1, version : Nat \cup {Unsynced}]
Tasks == Nat \X Parts

(* The state has its type.                                                  *)
TypeOK ==
    /\ scheduler \in {"one_step_off", "two_step_off"}
    /\ num_batches \in 1 .. MaxBatches /\ total_training_steps \in 1 .. num_batches
    /\ turn \in 0 .. num_batches /\ at \in 1 .. Len(Turn(turn)) + 1
    /\ rollout_future \in Generations /\ teacher_future \in Generations
    /\ result \in [of : Generations, ok : BOOLEAN]
    /\ generating \in BOOLEAN /\ rollout_weights \in Nat \cup {Unsynced} /\ updates \in Nat
    /\ global_steps \in 1 .. total_training_steps + 1
    /\ status \in {"schedule", "step", "returned", "raised"}
    /\ task_queue \in Seq(Tasks) /\ serving \in [Threads -> Tasks \cup {None}]
    /\ stuck \subseteq Threads
    /\ answered \subseteq Tasks /\ failed \subseteq Tasks /\ knowledge \in Nat

Trains == status = "step" /\ result.ok

(* A step trains its own batch or the one before, whatever was skipped, and *)
(* with the teacher's answers to it, although all batches share one buffer  *)
(* and others have been generated and submitted since.                      *)
StepsInTurn ==
    Trains => /\ knowledge = result.of.id
              /\ result.of.batch \in {global_steps - 1, global_steps} \ {0}

(* No batch is trained more than two updates after the weights that         *)
(* generated it, with either scheduler.                                     *)
LagBounded == Trains => updates - result.of.version \in 0 .. 2

(* Every generation has the actor's weights, sent before it or not.         *)
GeneratesCurrent ==
    [][rollout_future' # rollout_future => rollout_future'.version = updates]_vars

(* Training comes to its end whatever the teacher fails to answer, if there *)
(* are batches enough for the scheduler.                                    *)
Finishes == (scheduler = "two_step_off" => num_batches > 1) => <>(status = "returned")
=============================================================================
