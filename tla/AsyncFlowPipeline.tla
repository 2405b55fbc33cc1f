-------------------------- MODULE AsyncFlowPipeline --------------------------
(***************************************************************************)
(* The asynchronous training loop of src/async_flow: the driver feeds      *)
(* batches of prompts to the rollouts as long as the flow control queue    *)
(* has room, and carries the trainer's weights to the rollouts and to the  *)
(* worker that recomputes log probabilities; the trainer takes samples     *)
(* from the TransferQueue, a mini-batch at a time, and gives the tokens of *)
(* the prompts it has trained back to the queue.                           *)
(*                                                                         *)
(* A prompt stands for its group of samples. The ranks of a worker group,  *)
(* which barriers keep in step, are one process, and so are the rollout    *)
(* servers. The TransferQueue is what its own modules show it to be: a     *)
(* sample is there, whole, until the trainer takes it. The reference,      *)
(* reward and advantage workers only delay a sample and are part of the    *)
(* step of the forward worker. No version is lost to a crash.              *)
(***************************************************************************)
EXTENDS Integers, FiniteSets, Sequences, FiniteSetsExt, SequencesExt

CONSTANTS
    TrainBatchSize,  \* data.train_batch_size, in prompts
    MiniBatchSize,   \* ppo_mini_batch_size, in prompts
    NSamples,        \* rollout.n
    NumBatches,      \* batches the dataloader has left
    TotalSteps,      \* total_training_steps
    LoadedStep,      \* global_steps of the checkpoint; 0: none
    Stalenesses,     \* the values of async_flow.staleness
    AgentWorkers,    \* agent loop workers, each with one pull loop
    Backends,        \* the values of checkpoint_engine.backend
    MaxUpdates       \* bound: updates of one worker under way at once; others wait

ASSUME PipelineAssumption ==
    /\ TrainBatchSize \in Nat \ {0} /\ MiniBatchSize \in Nat \ {0}
    /\ TrainBatchSize % MiniBatchSize = 0
    /\ NSamples \in Nat \ {0} /\ NumBatches \in Nat \ {0}
    /\ TotalSteps \in Nat /\ LoadedStep \in Nat
    /\ Stalenesses \subseteq Nat
    /\ AgentWorkers \in Nat \ {0}
    /\ Backends \subseteq {"hccl", "flexfetch"} /\ MaxUpdates \in Nat \ {0}

Prompts == 1 .. NumBatches * TrainBatchSize
BatchOf(b) == b * TrainBatchSize + 1 .. (b + 1) * TrainBatchSize
Samples == 1 .. NSamples
None == -1
NoVersions == [i \in Samples |-> None]
Versions == LoadedStep .. LoadedStep + NumBatches

VARIABLES
    staleness,
    backend,
    fit,             \* where the driver is in fit()
    batch,           \* batches the driver has drawn from the dataloader
    is_last_step,
    global_steps,
    model_version,
    qsize,           \* flow_control_queue.qsize()
    prompt_pool,     \* prompts that no agent loop worker has pulled
    stage,           \* how far each prompt has come
    asked,           \* the version a server gave when a sample was asked for
    decoded,         \* history: the version that generated a sample
    version,         \* model_version of the prompt's samples in the queue
    scored,          \* history: the version that computed old_logprobs
    rollout_version, \* global_steps of the rollout servers
    rollout_paused,
    fwd_version,     \* _pending_version of the forward worker
    fwd_paused,
    updates,         \* weight transfers that have not ended
    train,           \* where the trainer's loop is
    mini_batch_iter,
    current_version, \* _current_version of the trainer
    weight_updated

config == <<staleness, backend>>
driverVars == <<fit, batch, is_last_step, global_steps, model_version>>
sampleVars == <<asked, decoded, version, scored>>
promptVars == <<prompt_pool, sampleVars>>
weightVars == <<rollout_version, rollout_paused, fwd_version, fwd_paused, updates>>
trainVars == <<train, mini_batch_iter>>
versionVars == <<current_version, weight_updated>>
vars == <<config, driverVars, qsize, stage, promptVars, weightVars, trainVars,
          versionVars>>

Capacity == (staleness + 1) * TrainBatchSize
OptimizerSteps == TrainBatchSize \div MiniBatchSize
At(s) == {p \in Prompts : stage[p] = s}

Init ==
    /\ staleness \in Stalenesses /\ backend \in Backends
    /\ fit = "health" /\ batch = 0 /\ is_last_step = FALSE
    /\ global_steps = LoadedStep + 1 /\ model_version = LoadedStep
    /\ qsize = 0
    /\ prompt_pool = <<>>
    /\ stage = [p \in Prompts |-> "data"]
    /\ asked = [p \in Prompts |-> NoVersions]
    /\ decoded = [p \in Prompts |-> NoVersions]
    /\ version = [p \in Prompts |-> None]
    /\ scored = [p \in Prompts |-> None]
    /\ rollout_version = LoadedStep /\ rollout_paused = FALSE
    /\ fwd_version = LoadedStep /\ fwd_paused = FALSE
    /\ updates = {}
    /\ train = "begin" /\ mini_batch_iter = 0
    /\ current_version = LoadedStep /\ weight_updated = TRUE

-----------------------------------------------------------------------------
(* The driver *)

(* _check_worker_health, also made while waiting for room: a worker whose  *)
(* loop has stopped ends the run.                                          *)
Healthy == train # "failed"

CheckHealth ==
    /\ fit = "health"
    /\ fit' = IF Healthy THEN "capacity" ELSE "failed"
    /\ UNCHANGED <<config, batch, is_last_step, global_steps, model_version,
                   qsize, stage, promptVars, weightVars, trainVars, versionVars>>

(* Mutant: waits as long as the queue would be full. *)
WaitForSlack ==
    /\ fit = "capacity" /\ qsize + TrainBatchSize < Capacity
    /\ fit' = "sync" /\ is_last_step' = (global_steps >= TotalSteps)
    /\ UNCHANGED <<config, batch, global_steps, model_version, qsize, stage,
                   promptVars, weightVars, trainVars, versionVars>>

(* Mutant: only looks whether the queue is full. *)
WaitUntilNotFull ==
    /\ fit = "capacity" /\ qsize < Capacity
    /\ fit' = "sync" /\ is_last_step' = (global_steps >= TotalSteps)
    /\ UNCHANGED <<config, batch, global_steps, model_version, qsize, stage,
                   promptVars, weightVars, trainVars, versionVars>>

WaitForCapacity ==
    /\ fit = "capacity"
    /\ \/ /\ qsize + TrainBatchSize <= Capacity
          /\ fit' = "sync"
          /\ is_last_step' = (global_steps >= TotalSteps)
       \/ /\ qsize + TrainBatchSize > Capacity /\ ~Healthy
          /\ fit' = "failed"
          /\ UNCHANGED is_last_step
    /\ UNCHANGED <<config, batch, global_steps, model_version, qsize, stage,
                   promptVars, weightVars, trainVars, versionVars>>

Update(w, v, p) == [worker |-> w, version |-> v, phase |-> p]

(* What update_weights_rollout_fwd starts with: everything with hccl, the  *)
(* trainer's copy into the host cache with flexfetch.                      *)
FirstUpdates(v) ==
    {Update("train", v, "load")} \cup
    IF backend = "hccl" THEN {Update(w, v, "pause") : w \in {"rollout", "fwd"}} ELSE {}

(* The weights are still those of model_version, or they are sent.         *)
SyncWeights ==
    /\ fit = "sync"
    /\ \/ /\ ~Healthy
          /\ fit' = "failed"
          /\ UNCHANGED <<global_steps, model_version, updates>>
       \/ /\ Healthy /\ current_version <= model_version
          /\ fit' = "generate"
          /\ UNCHANGED <<global_steps, model_version, updates>>
       \/ /\ Healthy /\ current_version > model_version
          /\ fit' = "update"
          /\ global_steps' = global_steps + 1
          /\ model_version' = current_version
          /\ updates' = updates \cup FirstUpdates(current_version)
    /\ UNCHANGED <<config, batch, is_last_step, qsize, stage, promptVars,
                   rollout_version, rollout_paused, fwd_version, fwd_paused, trainVars, versionVars>>

(* hccl is waited for. With flexfetch the rollouts and the forward worker  *)
(* are told to fetch once the trainer has written, and nobody waits.       *)
LaterUpdates(v) ==
    IF backend = "hccl" THEN {} ELSE {Update(w, v, "pause") : w \in {"rollout", "fwd"}}

UpdatesSubmitted ==
    /\ fit = "update"
    /\ \A u \in updates : u.worker # "train"
    /\ backend = "hccl" => updates = {}
    /\ updates' = updates \cup LaterUpdates(model_version)
    /\ fit' = "generate"
    /\ UNCHANGED <<config, batch, is_last_step, global_steps, model_version, qsize,
                   stage, promptVars, rollout_version, rollout_paused, fwd_version,
                   fwd_paused, trainVars, versionVars>>

(* The chunks of the batch, one for each prompt, in order.                 *)
GenerateSequences ==
    /\ fit = "generate"
    /\ fit' = "put_tokens"
    /\ prompt_pool' = prompt_pool \o [k \in 1 .. TrainBatchSize |-> batch * TrainBatchSize + k]
    /\ stage' = [p \in Prompts |-> IF p \in BatchOf(batch) THEN "pool" ELSE stage[p]]
    /\ batch' = batch + 1
    /\ UNCHANGED <<config, is_last_step, global_steps, model_version, qsize, asked,
                   decoded, version, scored, weightVars, trainVars, versionVars>>

(* The loop ends at the last step or with the data, and so does the run.   *)
PutTokens ==
    /\ fit = "put_tokens"
    /\ qsize' = qsize + TrainBatchSize
    /\ fit' = IF is_last_step \/ batch = NumBatches THEN "shutdown" ELSE "health"
    /\ UNCHANGED <<config, batch, is_last_step, global_steps, model_version, stage,
                   promptVars, weightVars, trainVars, versionVars>>

Shutdown ==
    /\ fit = "shutdown"
    /\ fit' = "done"
    /\ UNCHANGED <<config, batch, is_last_step, global_steps, model_version, qsize,
                   stage, promptVars, weightVars, trainVars, versionVars>>

-----------------------------------------------------------------------------
(* Weight transfers *)

Advance(u, p) == updates' = (updates \ {u}) \cup {Update(u.worker, u.version, p)}

(* The calls of pause arrive in order.                                     *)
MayPause(u) ==
    LET others == {o \in updates : o.worker = u.worker}
    IN  /\ \A o \in others : o.phase = "pause" => u.version <= o.version
        /\ Cardinality({o \in others : o.phase # "pause"}) < MaxUpdates

(* A pause returns when what is being generated, or scored, has ended.     *)
PauseWorker(u) ==
    /\ u.phase = "pause" /\ MayPause(u)
    /\ Advance(u, "load")
    /\ IF u.worker = "rollout"
       THEN rollout_paused' = TRUE /\ UNCHANGED fwd_paused
       ELSE fwd_paused' = TRUE /\ UNCHANGED rollout_paused
    /\ UNCHANGED <<rollout_version, fwd_version, versionVars>>

(* hccl broadcasts to all workers at once, when all have been paused.      *)
MayLoad == backend = "hccl" => \A u \in updates : u.phase # "pause"

LoadRollout(u) ==
    /\ u.worker = "rollout" /\ u.phase = "load" /\ MayLoad
    /\ rollout_version' = u.version
    /\ Advance(u, "resume")
    /\ UNCHANGED <<rollout_paused, fwd_version, fwd_paused, versionVars>>

LoadForward(u) ==
    /\ u.worker = "fwd" /\ u.phase = "load" /\ MayLoad
    /\ fwd_version' = u.version /\ fwd_paused' = FALSE
    /\ updates' = updates \ {u}
    /\ UNCHANGED <<rollout_version, rollout_paused, versionVars>>

(* update_weights of the trainer, which lets it go on.                     *)
SendWeights(u) ==
    /\ u.worker = "train" /\ MayLoad
    /\ current_version' = u.version /\ weight_updated' = TRUE
    /\ updates' = updates \ {u}
    /\ UNCHANGED <<rollout_version, rollout_paused, fwd_version, fwd_paused>>

ResumeRollout(u) ==
    /\ u.worker = "rollout" /\ u.phase = "resume"
    /\ backend = "hccl" => updates = {u}
    /\ rollout_paused' = FALSE
    /\ updates' = updates \ {u}
    /\ UNCHANGED <<rollout_version, fwd_version, fwd_paused, versionVars>>

Transfer ==
    /\ \E u \in updates : \/ PauseWorker(u) \/ LoadRollout(u) \/ LoadForward(u)
                          \/ SendWeights(u) \/ ResumeRollout(u)
    /\ UNCHANGED <<config, driverVars, qsize, stage, promptVars, trainVars>>

-----------------------------------------------------------------------------
(* The agent loop workers and the forward worker *)

(* Each pull loop has one chunk at a time, within the inflight limit.      *)
PullPrompt ==
    /\ prompt_pool # <<>>
    /\ Cardinality(At("rollout")) < AgentWorkers
    /\ Cardinality(At("rollout")) < Capacity
    /\ stage' = [stage EXCEPT ![Head(prompt_pool)] = "rollout"]
    /\ prompt_pool' = Tail(prompt_pool)
    /\ UNCHANGED <<asked, decoded, version, scored>>

(* A request reaches a server, which answers get_model_version at once and *)
(* generates as soon as it is not paused.                                  *)
AskServer(p, i) ==
    /\ stage[p] = "rollout" /\ asked[p][i] = None
    /\ asked' = [asked EXCEPT ![p][i] = rollout_version]
    /\ UNCHANGED <<stage, prompt_pool, decoded, version, scored>>

Decode(p, i) ==
    /\ stage[p] = "rollout" /\ asked[p][i] # None /\ decoded[p][i] = None
    /\ ~rollout_paused
    /\ decoded' = [decoded EXCEPT ![p][i] = rollout_version]
    /\ UNCHANGED <<stage, prompt_pool, asked, version, scored>>

(* The version of the group is that of its first sample.                   *)
PutBatch(p) ==
    /\ stage[p] = "rollout" /\ \A i \in Samples : decoded[p][i] # None
    /\ stage' = [stage EXCEPT ![p] = "stored"]
    /\ version' = [version EXCEPT ![p] = asked[p][1]]
    /\ UNCHANGED <<prompt_pool, asked, decoded, scored>>

(* The manager gives out the lowest indexes. The prompts get theirs when    *)
(* they are put, one agent loop in their order, several in any.            *)
Lowest(taken, from) == AgentWorkers = 1 => \A p \in taken, q \in from \ taken : p < q

ComputeLogProb(p) ==
    /\ stage[p] = "stored" /\ ~fwd_paused /\ Lowest({p}, At("stored"))
    /\ stage' = [stage EXCEPT ![p] = "usable"]
    /\ scored' = [scored EXCEPT ![p] = fwd_version]
    /\ UNCHANGED <<prompt_pool, asked, decoded, version>>

Generation ==
    /\ \/ PullPrompt
       \/ \E p \in Prompts : \/ \E i \in Samples : AskServer(p, i) \/ Decode(p, i)
                             \/ PutBatch(p) \/ ComputeLogProb(p)
    /\ UNCHANGED <<config, driverVars, qsize, weightVars, trainVars, versionVars>>

-----------------------------------------------------------------------------
(* The trainer *)

(* Mutant: a window of one version more. *)
FreshOneMore(p) ==
    staleness # 0 /\ current_version # 0 =>
        version[p] \in current_version - staleness - 1 .. current_version

(* The manager looks at versions only when both values are true in Python. *)
Fresh(p) ==
    staleness # 0 /\ current_version # 0 =>
        version[p] \in current_version - staleness .. current_version

Usable == {p \in At("usable") : Fresh(p)}

(* Mutant: does not wait for the weights. *)
FetchAtOnce ==
    /\ train = "begin" /\ fit # "done"
    /\ \E taken \in kSubset(MiniBatchSize, Usable) :
        /\ Lowest(taken, Usable)
        /\ stage' = [p \in Prompts |-> IF p \in taken THEN "training" ELSE stage[p]]
    /\ train' = "train"
    /\ UNCHANGED <<qsize, sampleVars, mini_batch_iter, versionVars>>

(* on_process_begin waits for the weights, dispatch_data for a mini-batch. *)
FetchMiniBatch ==
    /\ train = "begin" /\ fit # "done"
    /\ mini_batch_iter = 0 => weight_updated
    /\ \E taken \in kSubset(MiniBatchSize, Usable) :
        /\ Lowest(taken, Usable)
        /\ stage' = [p \in Prompts |-> IF p \in taken THEN "training" ELSE stage[p]]
    /\ train' = "train"
    /\ UNCHANGED <<qsize, sampleVars, mini_batch_iter, versionVars>>

(* delete_experience takes the mini-batch out of the queue.                *)
Without(f, none) == [p \in Prompts |-> IF stage[p] = "training" THEN none ELSE f[p]]

ProcessBatch ==
    /\ train = "train"
    /\ mini_batch_iter' = mini_batch_iter + 1
    /\ stage' = Without(stage, "trained")
    /\ asked' = Without(asked, NoVersions) /\ decoded' = Without(decoded, NoVersions)
    /\ version' = Without(version, None) /\ scored' = Without(scored, None)
    /\ train' = IF mini_batch_iter' = OptimizerSteps THEN "await" ELSE "release"
    /\ UNCHANGED <<qsize, versionVars>>

(* on_process_end, one assignment at a time: the driver reads the version  *)
(* and sets weight_updated from another thread.                            *)
AwaitWeights ==
    /\ train = "await"
    /\ weight_updated' = FALSE
    /\ train' = "advance"
    /\ UNCHANGED <<qsize, stage, sampleVars, mini_batch_iter, current_version>>

AdvanceVersion ==
    /\ train = "advance"
    /\ current_version' = current_version + 1
    /\ train' = "reset"
    /\ UNCHANGED <<qsize, stage, sampleVars, mini_batch_iter, weight_updated>>

(* Mutant: goes on counting. *)
NeverReset ==
    /\ train = "reset"
    /\ train' = "release"
    /\ UNCHANGED <<mini_batch_iter, qsize, stage, sampleVars, versionVars>>

ResetIter ==
    /\ train = "reset"
    /\ mini_batch_iter' = 0
    /\ train' = "release"
    /\ UNCHANGED <<qsize, stage, sampleVars, versionVars>>

(* get_nowait_batch raises when the tokens are not there yet, and the loop *)
(* of the worker stops.                                                    *)
ReleaseFlowControl ==
    /\ train = "release"
    /\ \/ qsize >= MiniBatchSize /\ qsize' = qsize - MiniBatchSize /\ train' = "begin"
       \/ qsize < MiniBatchSize /\ train' = "failed" /\ UNCHANGED qsize
    /\ UNCHANGED <<stage, sampleVars, mini_batch_iter, versionVars>>

Training ==
    /\ FetchMiniBatch \/ ProcessBatch \/ AwaitWeights \/ AdvanceVersion \/ ResetIter
        \/ ReleaseFlowControl
    /\ UNCHANGED <<config, driverVars, prompt_pool, weightVars>>

-----------------------------------------------------------------------------
Driver == \/ CheckHealth \/ WaitForCapacity \/ SyncWeights \/ UpdatesSubmitted
          \/ GenerateSequences \/ PutTokens \/ Shutdown

Next == Driver \/ Transfer \/ Generation \/ Training

Spec == Init /\ [][Next]_vars

(* Every process runs. No step is undone, so that some step whenever one   *)
(* is possible is enough.                                                  *)
FairSpec == Spec /\ WF_vars(Next)

-----------------------------------------------------------------------------
(* Properties *)

TypeOK ==
    /\ staleness \in Stalenesses /\ backend \in Backends
    /\ fit \in {"health", "capacity", "sync", "update", "generate", "put_tokens",
                "shutdown", "done", "failed"}
    /\ batch \in 0 .. NumBatches /\ is_last_step \in BOOLEAN
    /\ global_steps \in Nat /\ model_version \in Versions
    /\ qsize \in 0 .. Capacity
    /\ prompt_pool \in Seq(Prompts)
    /\ stage \in [Prompts -> {"data", "pool", "rollout", "stored", "usable",
                              "training", "trained"}]
    /\ \A f \in {asked, decoded} : f \in [Prompts -> [Samples -> Versions \cup {None}]]
    /\ \A f \in {version, scored} : f \in [Prompts -> Versions \cup {None}]
    /\ rollout_version \in Versions /\ rollout_paused \in BOOLEAN
    /\ fwd_version \in Versions /\ fwd_paused \in BOOLEAN
    /\ \A u \in updates : u.worker \in {"train", "rollout", "fwd"}
                          /\ u.version \in Versions /\ u.phase \in {"pause", "load", "resume"}
    /\ train \in {"begin", "train", "await", "advance", "reset", "release", "failed"}
    /\ mini_batch_iter \in 0 .. OptimizerSteps
    /\ current_version \in Versions /\ weight_updated \in BOOLEAN

(* No more than (staleness + 1) batches are between the rollouts and the   *)
(* trainer (the backpressure loop of fit, _release_flow_control).          *)
InFlightBounded ==
    Cardinality(Prompts \ (At("data") \cup At("trained"))) <= Capacity

(* Nothing is trained more than staleness versions after the version the   *)
(* queue has for it, with the filter or, when the manager does not apply   *)
(* it, by flow control alone. With flexfetch nobody waits for the rollouts *)
(* to load, and it is the filter that counts.                              *)
RecordedLagBounded ==
    backend = "hccl" \/ staleness # 0 =>
        \A p \in At("training") : current_version - version[p] \in 0 .. staleness

(* With hccl and staleness 0 every sample is generated, scored and trained *)
(* by the same version.                                                    *)
OnPolicy ==
    backend = "hccl" /\ staleness = 0 => \A p \in At("training") :
        scored[p] = current_version /\ \A i \in Samples : decoded[p][i] = current_version

(* How old the weights are behind what is trained never exceeds staleness, *)
(* whatever the order of transfers, rollouts and mini batches.             *)
LagBounded == RecordedLagBounded /\ OnPolicy

(* Sending weights never takes the trainer's version back                  *)
(* (update_weights writes what the driver read before).                    *)
NeverTakenBack == [][current_version' >= current_version]_vars

(* Prompts whose version the trainer has left behind for good: no fetch     *)
(* takes them, and nobody gives their tokens back.                         *)
Lapsed ==
    {p \in At("stored") \cup At("usable") :
        staleness # 0 /\ version[p] < current_version - staleness}

(* There would be room for a batch, were it not for their tokens. It takes  *)
(* rollouts that nobody waited for to load before a batch was generated.   *)
Starved ==
    /\ backend = "flexfetch"
    /\ fit = "capacity" /\ qsize + TrainBatchSize > Capacity
    /\ qsize - Cardinality(Lapsed) + TrainBatchSize <= Capacity

(* The driver comes to the end of the data, or stops on a worker's error,  *)
(* or waits for the tokens of prompts that were filtered out: waiting for  *)
(* room and waiting for weights never wait for each other otherwise.       *)
Finishes == <>[](fit \in {"done", "failed"} \/ Starved)
=============================================================================
