----------------------- MODULE AsyncFlowPipeline_proofs -----------------------
(***************************************************************************)
(* Proofs about AsyncFlowPipeline, for any batch sizes, staleness, number  *)
(* of samples, batches and workers and for both back ends: how many        *)
(* prompts are under way, how old the weights are behind what is trained,  *)
(* and that sending weights never takes the trainer's version back.        *)
(***************************************************************************)
EXTENDS AsyncFlowPipeline, FiniteSetTheorems, SequenceTheorems, TLAPS

(* The prompts that have been drawn and not been trained yet.              *)
InFlight == Prompts \ (At("data") \cup At("trained"))

(* Batches are drawn in order, and only when the queue has room for their  *)
(* tokens, which are put when the batch has been handed out.               *)
BatchesDrawn ==
    /\ At("data") = {p \in Prompts : p > batch * TrainBatchSize}
    /\ fit \in {"health", "capacity", "sync", "update", "generate"} => batch < NumBatches
    /\ fit = "put_tokens" => batch > 0
    /\ fit \in {"sync", "update", "generate", "put_tokens"} => qsize + TrainBatchSize <= Capacity

(* The pool holds each of its prompts once.                                *)
PoolHeld ==
    /\ \A k \in 1 .. Len(prompt_pool) : stage[prompt_pool[k]] = "pool"
    /\ \A j, k \in 1 .. Len(prompt_pool) : prompt_pool[j] = prompt_pool[k] => j = k

(* The trainer has one mini-batch at a time, and counts those of a version.*)
IterAgrees ==
    /\ train \in {"await", "advance", "reset"} => mini_batch_iter = OptimizerSteps
    /\ train \in {"begin", "train", "release", "failed"} => mini_batch_iter < OptimizerSteps
    /\ train # "train" => At("training") = {}
    /\ train = "train" => At("training") \in kSubset(MiniBatchSize, Prompts)

(* What has been trained is what the versions stand for, and the tokens in *)
(* the queue are those of the prompts that have not been given back.       *)
TrainedOfVersion == IF train = "reset" THEN 0 ELSE MiniBatchSize * mini_batch_iter
NotPut == IF fit = "put_tokens" THEN TrainBatchSize ELSE 0
NotReleased ==
    IF train \in {"await", "advance", "reset", "release", "failed"} THEN MiniBatchSize ELSE 0

Tally ==
    /\ Cardinality(At("trained")) =
          TrainBatchSize * (current_version - LoadedStep) + TrainedOfVersion
    /\ qsize = batch * TrainBatchSize - NotPut - Cardinality(At("trained")) + NotReleased

(* The trainer is at most one version ahead of what the driver has sent,   *)
(* and then it waits; a transfer brings it the version it has.             *)
VersionsAgree ==
    /\ current_version \in {model_version, model_version + 1}
    /\ current_version # model_version => ~weight_updated
    /\ train \in {"train", "await", "advance"} => current_version = model_version
    /\ train = "advance" => ~weight_updated
    /\ ~weight_updated => \/ train \in {"advance", "reset"}
                          \/ train \in {"begin", "release", "failed"} /\ mini_batch_iter = 0
    /\ \A u \in updates : u.worker = "train" =>
          /\ fit = "update" /\ ~weight_updated
          /\ train # "advance"
          /\ u.phase = "load"
          /\ u.version = current_version /\ current_version = model_version
          /\ \A x \in updates : x.worker = "train" => x = u
    /\ \A u \in updates : u.version <= model_version
    /\ rollout_version <= model_version /\ fwd_version <= model_version

(* With hccl the driver goes on when the version has been loaded by all.   *)
Brought(w, v) ==
    \/ v = model_version
    \/ \E u \in updates : u.worker = w /\ u.phase # "resume"

Carried ==
    backend = "hccl" =>
        /\ \A u \in updates : u.version = model_version
        /\ fit # "update" => updates = {}
        /\ Brought("rollout", rollout_version) /\ Brought("fwd", fwd_version)

(* What the samples of a prompt know of versions, by its stage.            *)
SamplesAgree ==
    \A p \in Prompts :
        /\ stage[p] \in {"data", "pool", "trained"} =>
              asked[p] = NoVersions /\ decoded[p] = NoVersions
        /\ \A i \in Samples : /\ asked[p][i] <= model_version
                              /\ decoded[p][i] # None => asked[p][i] # None
        /\ stage[p] \in {"stored", "usable", "training"} =>
              version[p] \in LoadedStep .. model_version
        /\ stage[p] = "training" => Fresh(p)

(* With hccl and staleness 0 a batch begins when everything has been       *)
(* trained, and with the version of its number.                            *)
VersionOfBatch ==
    IF fit \in {"update", "generate"} \/ batch = 0 THEN LoadedStep + batch
    ELSE LoadedStep + batch - 1

OneVersion(p) ==
    /\ \A i \in Samples : asked[p][i] \in {None, model_version}
                          /\ decoded[p][i] \in {None, model_version}
    /\ stage[p] \in {"stored", "usable", "training"} =>
          version[p] = model_version /\ \A i \in Samples : decoded[p][i] = model_version
    /\ stage[p] \in {"usable", "training"} => scored[p] = model_version

InStep ==
    backend = "hccl" /\ staleness = 0 =>
        /\ model_version = VersionOfBatch
        /\ \A p \in Prompts : OneVersion(p)

IInv ==
    /\ TypeOK /\ BatchesDrawn /\ PoolHeld /\ IterAgrees /\ Tally
    /\ VersionsAgree /\ Carried /\ SamplesAgree /\ InStep

-----------------------------------------------------------------------------
(* Sizes *)

LEMMA SizesAreNumbers ==
    /\ TrainBatchSize \in Nat /\ TrainBatchSize > 0
    /\ MiniBatchSize \in Nat /\ MiniBatchSize > 0 /\ MiniBatchSize <= TrainBatchSize
    /\ OptimizerSteps \in Nat /\ OptimizerSteps > 0
    /\ MiniBatchSize * OptimizerSteps = TrainBatchSize
BY PipelineAssumption DEF OptimizerSteps

LEMMA SumIsMonotone ==
    ASSUME NEW a \in Int, NEW b \in Int, NEW c \in Int, NEW d \in Int, a <= b, b + c <= d
    PROVE  a + c <= d
OBVIOUS

LEMMA ProductIsMonotone ==
    ASSUME NEW n \in Nat, n > 0, NEW a \in Int, NEW b \in Int
    PROVE  /\ n * a \in Int /\ n * (a + 1) = n * a + n /\ a * n = n * a
           /\ n * a <= n * b => a <= b
           /\ a <= b => n * a <= n * b
           /\ n * a < n * b => a < b
OBVIOUS

LEMMA PromptsAreFinite ==
    /\ IsFiniteSet(Prompts) /\ Prompts \subseteq Nat
    /\ \A S \in SUBSET Prompts : IsFiniteSet(S) /\ Cardinality(S) \in Nat
<1>1. NumBatches * TrainBatchSize \in Nat
  BY PipelineAssumption
<1>2. IsFiniteSet(Prompts)
  BY <1>1, FS_Interval DEF Prompts
<1>3. ASSUME NEW S \in SUBSET Prompts PROVE IsFiniteSet(S) /\ Cardinality(S) \in Nat
  BY <1>2, FS_Subset, FS_CardinalityType
<1>4. Prompts \subseteq Nat
  BY <1>1 DEF Prompts
<1> QED
  BY <1>2, <1>3, <1>4

(* What has been drawn is so many whole batches, in order.                 *)
LEMMA DrawnPrompts ==
    ASSUME TypeOK, BatchesDrawn
    PROVE  /\ Prompts \ At("data") = 1 .. batch * TrainBatchSize
           /\ Cardinality(Prompts \ At("data")) = batch * TrainBatchSize
           /\ batch * TrainBatchSize \in Nat
<1>1. batch \in Nat /\ batch <= NumBatches /\ NumBatches \in Nat /\ TrainBatchSize \in Nat \ {0}
  BY PipelineAssumption DEF TypeOK
<1>2. batch * TrainBatchSize \in Nat /\ NumBatches * TrainBatchSize \in Nat
      /\ batch * TrainBatchSize <= NumBatches * TrainBatchSize
  BY <1>1
<1>3. Prompts \ At("data") = 1 .. batch * TrainBatchSize
  BY <1>2 DEF BatchesDrawn, Prompts
<1>4. \A n \in Nat : Cardinality(1 .. n) = n
  BY FS_Interval
<1> QED
  BY <1>2, <1>3, <1>4

(* What is under way and what has been trained are what has been drawn.    *)
LEMMA InFlightCounted ==
    ASSUME TypeOK, BatchesDrawn
    PROVE  /\ Cardinality(InFlight) \in Nat /\ Cardinality(At("trained")) \in Nat
           /\ Cardinality(InFlight) = batch * TrainBatchSize - Cardinality(At("trained"))
           /\ Cardinality(InFlight) = 0 => InFlight = {}
<1>1. At("trained") \subseteq Prompts /\ InFlight \subseteq Prompts
      /\ At("trained") \cap InFlight = {}
      /\ At("trained") \cup InFlight = Prompts \ At("data")
  BY DEF At, InFlight
<1>2. IsFiniteSet(InFlight) /\ IsFiniteSet(At("trained"))
      /\ Cardinality(InFlight) \in Nat /\ Cardinality(At("trained")) \in Nat
  BY <1>1, PromptsAreFinite
<1>3. Cardinality(At("trained") \cup InFlight) =
        Cardinality(At("trained")) + Cardinality(InFlight) - Cardinality({})
  BY <1>1, <1>2, FS_Union
<1>4. Cardinality(InFlight) = batch * TrainBatchSize - Cardinality(At("trained"))
  <2>1. Cardinality({}) = 0
    BY FS_EmptySet
  <2>2. Cardinality(At("trained") \cup InFlight) = batch * TrainBatchSize
        /\ batch * TrainBatchSize \in Nat
    BY <1>1, DrawnPrompts
  <2> QED
    BY <1>2, <1>3, <2>1, <2>2
<1> QED
  BY <1>2, <1>4, FS_EmptySet

(* The bound, from the guard that waits for room and from the tokens.      *)
LEMMA BoundFromTally ==
    ASSUME TypeOK, BatchesDrawn, Tally
    PROVE  InFlightBounded
<1>1. /\ qsize \in Nat /\ qsize <= Capacity /\ Capacity \in Int
      /\ TrainBatchSize \in Nat /\ MiniBatchSize \in Nat
  BY PipelineAssumption DEF TypeOK, Capacity
<1>2. Cardinality(InFlight) = qsize + NotPut - NotReleased
  BY <1>1, InFlightCounted, DrawnPrompts DEF Tally, NotPut, NotReleased
<1>3. Cardinality(InFlight) <= Capacity
  BY <1>1, <1>2 DEF NotPut, NotReleased, BatchesDrawn
<1> QED
  BY <1>3 DEF InFlightBounded, InFlight

(* No more versions than batches.                                          *)
LEMMA VersionBounded ==
    ASSUME TypeOK, BatchesDrawn, IterAgrees, Tally
    PROVE  /\ current_version - LoadedStep <= batch
           /\ train \in {"await", "advance"} => current_version + 1 - LoadedStep <= batch
<1> DEFINE v == current_version - LoadedStep
<1>1. /\ v \in Int /\ batch \in Int /\ mini_batch_iter \in Nat
      /\ current_version \in Int /\ LoadedStep \in Nat
  BY PipelineAssumption DEF TypeOK, Versions
<1>2. Cardinality(At("trained")) <= batch * TrainBatchSize
  BY InFlightCounted, DrawnPrompts, SizesAreNumbers
<1>3. MiniBatchSize * mini_batch_iter \in Nat
  BY <1>1, SizesAreNumbers
<1> HIDE DEF v
<1>4. TrainBatchSize * v <= TrainBatchSize * batch
  <2>1. TrainBatchSize * v + TrainedOfVersion <= batch * TrainBatchSize
    BY <1>2 DEF Tally, v
  <2>2. TrainedOfVersion \in Nat
    BY <1>3 DEF TrainedOfVersion
  <2> QED
    BY <2>1, <2>2, <1>1, SizesAreNumbers, ProductIsMonotone
<1>5. ASSUME train \in {"await", "advance"} PROVE v + 1 <= batch
  <2>1. TrainedOfVersion = TrainBatchSize
    BY <1>5, SizesAreNumbers DEF IterAgrees, TrainedOfVersion
  <2>2. TrainBatchSize * (v + 1) <= TrainBatchSize * batch
    BY <1>1, <1>2, <2>1, SizesAreNumbers, ProductIsMonotone DEF Tally, v
  <2> QED
    BY <1>1, <2>2, SizesAreNumbers, ProductIsMonotone
<1> QED
  BY <1>1, <1>4, <1>5, SizesAreNumbers, ProductIsMonotone DEF v

-----------------------------------------------------------------------------
(* Every action keeps the invariant *)

LEMMA InitIInv == Init => IInv
<1> SUFFICES ASSUME Init PROVE IInv
  OBVIOUS
<1>1. At("data") = Prompts /\ At("trained") = {} /\ At("training") = {}
  BY DEF Init, At
<1>2. 0 * TrainBatchSize = 0 /\ TrainBatchSize * 0 = 0 /\ MiniBatchSize * 0 = 0
  BY SizesAreNumbers
<1>3. LoadedStep \in Versions /\ LoadedStep - LoadedStep = 0
  BY PipelineAssumption DEF Versions
<1>4. Capacity \in Nat /\ TrainBatchSize <= Capacity
  <2>1. staleness \in Nat
    BY PipelineAssumption DEF Init
  <2>2. staleness + 1 >= 1 /\ staleness + 1 \in Int
    BY <2>1
  <2> QED
    BY <2>2, SizesAreNumbers DEF Capacity
<1>5. TypeOK
  <2>1. /\ asked \in [Prompts -> [Samples -> Versions \cup {None}]]
        /\ decoded \in [Prompts -> [Samples -> Versions \cup {None}]]
    BY DEF Init, NoVersions
  <2>2. /\ version \in [Prompts -> Versions \cup {None}]
        /\ scored \in [Prompts -> Versions \cup {None}]
    BY DEF Init
  <2>3. /\ mini_batch_iter \in 0 .. OptimizerSteps /\ qsize \in 0 .. Capacity
        /\ batch \in 0 .. NumBatches /\ global_steps \in Nat
    BY <1>4, PipelineAssumption, SizesAreNumbers DEF Init
  <2>4. /\ \A f \in {asked, decoded} : f \in [Prompts -> [Samples -> Versions \cup {None}]]
        /\ \A f \in {version, scored} : f \in [Prompts -> Versions \cup {None}]
    BY <2>1, <2>2
  <2>5. stage \in [Prompts -> {"data", "pool", "rollout", "stored", "usable", "training",
                              "trained"}]
    BY DEF Init
  <2>6. /\ current_version \in Versions /\ model_version \in Versions
        /\ rollout_version \in Versions /\ fwd_version \in Versions
    BY <1>3 DEF Init
  <2>7. prompt_pool \in Seq(Prompts)
    BY DEF Init
  <2> HIDE DEF Capacity, OptimizerSteps, Versions, Prompts, Samples
  <2> QED
    BY <2>3, <2>4, <2>5, <2>6, <2>7 DEF Init, TypeOK
<1>6. BatchesDrawn /\ PoolHeld
  BY <1>1, <1>2, PromptsAreFinite, PipelineAssumption DEF Init, BatchesDrawn, PoolHeld, Prompts
<1>7. IterAgrees
  BY <1>1, SizesAreNumbers DEF Init, IterAgrees
<1>8. Tally
  <2>1. Cardinality(At("trained")) = 0
    BY <1>1, FS_EmptySet
  <2> QED
    BY <1>2, <1>3, <2>1 DEF Init, Tally, TrainedOfVersion, NotPut, NotReleased
<1>9. VersionsAgree /\ Carried
  BY <1>3, PipelineAssumption DEF Init, VersionsAgree, Carried, Brought
<1>10. SamplesAgree
  BY PipelineAssumption DEF Init, SamplesAgree, NoVersions, None
<1>11. InStep
  BY PipelineAssumption DEF Init, InStep, VersionOfBatch, OneVersion, NoVersions, None
<1> QED
  BY <1>5, <1>6, <1>7, <1>8, <1>9, <1>10, <1>11 DEF IInv

(* An action that leaves the prompts, the weights and the trainer alone.   *)
LEMMA StagesUnchanged ==
    ASSUME stage' = stage
    PROVE  \A s : At(s)' = At(s)
BY DEF At

LEMMA CheckHealthKeeps == ASSUME IInv, CheckHealth PROVE IInv'
<1>1. \A s : At(s)' = At(s)
  BY StagesUnchanged DEF CheckHealth
<1> USE DEF IInv, CheckHealth, config, promptVars, sampleVars, weightVars, trainVars, versionVars
<1>2. TypeOK'
  BY DEF TypeOK, Capacity
<1>3. BatchesDrawn' /\ PoolHeld' /\ IterAgrees'
  BY <1>1 DEF BatchesDrawn, PoolHeld, IterAgrees, Capacity
<1>4. Tally'
  BY <1>1 DEF Tally, TrainedOfVersion, NotPut, NotReleased
<1>5. VersionsAgree' /\ Carried'
  BY DEF VersionsAgree, Carried, Brought
<1>6. SamplesAgree' /\ InStep'
  BY DEF SamplesAgree, Fresh, InStep, OneVersion, VersionOfBatch
<1> QED
  BY <1>2, <1>3, <1>4, <1>5, <1>6

LEMMA WaitForCapacityKeeps == ASSUME IInv, WaitForCapacity PROVE IInv'
<1>1. \A s : At(s)' = At(s)
  BY StagesUnchanged DEF WaitForCapacity, promptVars
<1> USE DEF IInv, WaitForCapacity, config, promptVars, sampleVars, weightVars, trainVars, versionVars
<1>2. TypeOK'
  <2>1. (global_steps >= TotalSteps) \in BOOLEAN
    OBVIOUS
  <2> QED
    BY <2>1 DEF TypeOK, Capacity
<1>3. BatchesDrawn' /\ PoolHeld' /\ IterAgrees'
  BY <1>1 DEF BatchesDrawn, PoolHeld, IterAgrees, Capacity
<1>4. Tally'
  BY <1>1 DEF Tally, TrainedOfVersion, NotPut, NotReleased
<1>5. VersionsAgree' /\ Carried'
  BY DEF VersionsAgree, Carried, Brought
<1>6. SamplesAgree' /\ InStep'
  BY DEF SamplesAgree, Fresh, InStep, OneVersion, VersionOfBatch
<1> QED
  BY <1>2, <1>3, <1>4, <1>5, <1>6

LEMMA ShutdownKeeps == ASSUME IInv, Shutdown PROVE IInv'
<1>1. \A s : At(s)' = At(s)
  BY StagesUnchanged DEF Shutdown, promptVars
<1> USE DEF IInv, Shutdown, config, promptVars, sampleVars, weightVars, trainVars, versionVars
<1>2. TypeOK'
  BY DEF TypeOK, Capacity
<1>3. BatchesDrawn' /\ PoolHeld' /\ IterAgrees'
  BY <1>1 DEF BatchesDrawn, PoolHeld, IterAgrees, Capacity
<1>4. Tally'
  BY <1>1 DEF Tally, TrainedOfVersion, NotPut, NotReleased
<1>5. VersionsAgree' /\ Carried'
  BY DEF VersionsAgree, Carried, Brought
<1>6. SamplesAgree' /\ InStep'
  BY DEF SamplesAgree, Fresh, InStep, OneVersion, VersionOfBatch
<1> QED
  BY <1>2, <1>3, <1>4, <1>5, <1>6

LEMMA UpdatesSubmittedKeeps == ASSUME IInv, UpdatesSubmitted PROVE IInv'
<1>1. \A s : At(s)' = At(s)
  BY StagesUnchanged DEF UpdatesSubmitted, promptVars
<1> USE DEF IInv, UpdatesSubmitted, config, promptVars, sampleVars, weightVars, trainVars, versionVars
<1>2. TypeOK'
  BY DEF TypeOK, Capacity, LaterUpdates, Update
<1>3. BatchesDrawn' /\ PoolHeld' /\ IterAgrees'
  BY <1>1 DEF BatchesDrawn, PoolHeld, IterAgrees, Capacity
<1>4. Tally'
  BY <1>1 DEF Tally, TrainedOfVersion, NotPut, NotReleased
<1>5. VersionsAgree' /\ Carried'
  <2>1. \A u \in updates' : \/ u \in updates
                            \/ u.worker # "train" /\ u.version = model_version
    <3>1. ASSUME NEW u \in LaterUpdates(model_version)
          PROVE  u.worker # "train" /\ u.version = model_version
      BY DEF LaterUpdates, Update
    <3> QED
      BY <3>1
  <2>2. model_version \in Int /\ \A u \in updates : u.version \in Int
    BY PipelineAssumption DEF TypeOK, Versions
  <2>3. VersionsAgree'
    BY <2>1, <2>2 DEF VersionsAgree
  <2>4. backend = "hccl" => updates = {} /\ updates' = {}
    BY DEF LaterUpdates
  <2> QED
    BY <2>3, <2>4 DEF Carried, Brought
<1>6. SamplesAgree' /\ InStep'
  BY DEF SamplesAgree, Fresh, InStep, OneVersion, VersionOfBatch
<1> QED
  BY <1>2, <1>3, <1>4, <1>5, <1>6

LEMMA PutTokensKeeps == ASSUME IInv, PutTokens PROVE IInv'
<1>1. \A s : At(s)' = At(s)
  BY StagesUnchanged DEF PutTokens, promptVars
<1> USE DEF IInv, PutTokens, config, promptVars, sampleVars, weightVars, trainVars, versionVars
<1>a. /\ qsize \in Nat /\ TrainBatchSize \in Nat /\ MiniBatchSize \in Nat
      /\ batch * TrainBatchSize \in Nat /\ Cardinality(At("trained")) \in Nat
      /\ batch \in 0 .. NumBatches
  BY DrawnPrompts, InFlightCounted, SizesAreNumbers DEF TypeOK
<1>2. TypeOK'
  BY <1>a DEF TypeOK, Capacity, BatchesDrawn
<1>3. BatchesDrawn' /\ PoolHeld' /\ IterAgrees'
  <2>1. fit' \in {"shutdown", "health"} /\ (fit' = "health" => batch < NumBatches)
    BY <1>a, PipelineAssumption
  <2>2. BatchesDrawn'
    BY <1>1, <2>1 DEF BatchesDrawn
  <2> QED
    BY <1>1, <2>2 DEF PoolHeld, IterAgrees
<1>4. Tally'
  BY <1>1, <1>a DEF Tally, TrainedOfVersion, NotPut, NotReleased
<1>5. VersionsAgree' /\ Carried'
  BY DEF VersionsAgree, Carried, Brought
<1>6. SamplesAgree' /\ InStep'
  BY <1>a DEF SamplesAgree, Fresh, InStep, OneVersion, VersionOfBatch
<1> QED
  BY <1>2, <1>3, <1>4, <1>5, <1>6

(* Nothing is under way when a batch begins with hccl and staleness 0.     *)
LEMMA EmptyWhenBegun ==
    ASSUME IInv, staleness = 0, fit \in {"sync", "update", "generate"}
    PROVE  /\ InFlight = {} /\ current_version = LoadedStep + batch
           /\ train = "begin" /\ mini_batch_iter = 0
<1> USE DEF IInv
<1>1. /\ qsize \in Nat /\ qsize = 0 /\ TrainBatchSize \in Nat /\ MiniBatchSize \in Nat
      /\ NotPut = 0 /\ batch * TrainBatchSize \in Nat /\ batch \in Nat
  BY SizesAreNumbers, DrawnPrompts DEF TypeOK, BatchesDrawn, Capacity, NotPut
<1>2. Cardinality(InFlight) = 0 /\ NotReleased = 0
  BY <1>1, InFlightCounted, SizesAreNumbers DEF Tally, NotReleased
<1>3. InFlight = {}
  BY <1>2, InFlightCounted
<1>4. train = "begin"
  <2>1. train # "train"
    <3>1. At("training") = {}
      BY <1>3 DEF InFlight, At
    <3> QED
      BY <3>1, FS_EmptySet, SizesAreNumbers DEF IterAgrees, kSubset
  <2> QED
    BY <1>2, <2>1, SizesAreNumbers DEF NotReleased, TypeOK
<1> DEFINE v == current_version - LoadedStep
<1>5. /\ v \in Int /\ mini_batch_iter \in Nat /\ mini_batch_iter < OptimizerSteps
      /\ current_version \in Int /\ LoadedStep \in Nat
  BY <1>4, PipelineAssumption DEF TypeOK, Versions, IterAgrees
<1>6. TrainBatchSize * v + MiniBatchSize * mini_batch_iter = batch * TrainBatchSize
  <2>1. Cardinality(At("trained")) = batch * TrainBatchSize
    BY <1>1, <1>2, InFlightCounted
  <2>2. TrainedOfVersion = MiniBatchSize * mini_batch_iter
    BY <1>4 DEF TrainedOfVersion
  <2> QED
    BY <2>1, <2>2 DEF Tally
<1> HIDE DEF v
<1>7. /\ MiniBatchSize * mini_batch_iter < TrainBatchSize
      /\ MiniBatchSize * mini_batch_iter \in Nat
  <2>1. MiniBatchSize * (mini_batch_iter + 1) <= MiniBatchSize * OptimizerSteps
    BY <1>5, SizesAreNumbers, ProductIsMonotone
  <2> QED
    BY <1>5, <2>1, SizesAreNumbers, ProductIsMonotone
<1>8. v = batch
  <2>1. TrainBatchSize * v <= TrainBatchSize * batch
    BY <1>1, <1>5, <1>6, <1>7, SizesAreNumbers, ProductIsMonotone
  <2>2. TrainBatchSize * batch < TrainBatchSize * (v + 1)
    BY <1>1, <1>5, <1>6, <1>7, SizesAreNumbers, ProductIsMonotone
  <2>3. v <= batch
    BY <1>1, <1>5, <2>1, SizesAreNumbers, ProductIsMonotone
  <2>4. batch < v + 1
    BY <1>1, <1>5, <2>2, SizesAreNumbers, ProductIsMonotone
  <2> QED
    BY <1>1, <1>5, <2>3, <2>4
<1>9. mini_batch_iter = 0
  <2>1. MiniBatchSize * mini_batch_iter = 0
    BY <1>1, <1>6, <1>7, <1>8, SizesAreNumbers, ProductIsMonotone
  <2> QED
    BY <1>5, <2>1, SizesAreNumbers
<1> QED
  BY <1>3, <1>4, <1>5, <1>8, <1>9 DEF v

LEMMA SyncWeightsKeeps == ASSUME IInv, SyncWeights PROVE IInv'
<1>1. \A s : At(s)' = At(s)
  BY StagesUnchanged DEF SyncWeights, promptVars
<1> USE DEF IInv
<1>2. UNCHANGED <<config, batch, is_last_step, qsize, stage, promptVars, rollout_version,
                  rollout_paused, fwd_version, fwd_paused, trainVars, versionVars>>
  BY DEF SyncWeights
<1> USE DEF config, promptVars, sampleVars, trainVars, versionVars
<1>3. /\ fit = "sync" /\ fit' \in {"failed", "generate", "update"}
      /\ fit' # "update" => UNCHANGED <<global_steps, model_version, updates>>
      /\ fit' = "generate" => current_version <= model_version
      /\ fit' = "update" =>
            /\ current_version > model_version
            /\ global_steps' = global_steps + 1
            /\ model_version' = current_version
            /\ updates' = updates \cup FirstUpdates(current_version)
  BY DEF SyncWeights
<1>4. /\ model_version \in Int /\ current_version \in Int /\ \A u \in updates : u.version \in Int
      /\ rollout_version \in Int /\ fwd_version \in Int /\ LoadedStep \in Nat
      /\ batch \in Nat
  BY PipelineAssumption DEF TypeOK, Versions
<1>5. ASSUME NEW u \in FirstUpdates(current_version)
      PROVE  /\ u.worker \in {"train", "rollout", "fwd"} /\ u.version = current_version
             /\ u.phase \in {"load", "pause"}
             /\ u.worker = "train" => u = Update("train", current_version, "load")
                                      /\ u.phase = "load"
  BY DEF FirstUpdates, Update
<1>6. TypeOK'
  <2>1. CASE fit' = "update"
    <3>1. \A u \in updates' : u \in updates \/ u \in FirstUpdates(current_version)
      BY <1>3, <2>1
    <3>2. \A u \in updates' : u.worker \in {"train", "rollout", "fwd"}
                              /\ u.version \in Versions /\ u.phase \in {"pause", "load", "resume"}
      BY <1>5, <3>1 DEF TypeOK
    <3> QED
      BY <1>2, <1>3, <2>1, <3>2 DEF TypeOK, Capacity
  <2>2. CASE fit' # "update"
    BY <1>2, <1>3, <2>2 DEF TypeOK, Capacity
  <2> QED
    BY <2>1, <2>2
<1>7. BatchesDrawn' /\ PoolHeld' /\ IterAgrees'
  BY <1>1, <1>2, <1>3 DEF BatchesDrawn, PoolHeld, IterAgrees, Capacity
<1>8. Tally'
  BY <1>1, <1>2, <1>3 DEF Tally, TrainedOfVersion, NotPut, NotReleased
<1>9. VersionsAgree' /\ Carried'
  <2>1. CASE fit' = "update"
    <3>1. \A u \in updates' : u \in updates \/ u \in FirstUpdates(current_version)
      BY <1>3, <2>1
    <3>2. \A u \in updates : u.worker # "train"
      BY <1>3 DEF VersionsAgree
    <3>3. VersionsAgree'
      BY <1>2, <1>3, <1>4, <1>5, <2>1, <3>1, <3>2 DEF VersionsAgree
    <3>4. Carried'
      <4> SUFFICES ASSUME backend = "hccl" PROVE Carried'
        BY <1>2 DEF Carried
      <4>1. updates = {}
        BY <1>3 DEF Carried
      <4>2. \A w \in {"rollout", "fwd"} : Update(w, current_version, "pause") \in updates'
        BY <1>3, <2>1 DEF FirstUpdates
      <4>3. \A w \in {"rollout", "fwd"} : \E u \in updates' : u.worker = w /\ u.phase # "resume"
        BY <4>2 DEF Update
      <4> QED
        BY <1>3, <1>5, <2>1, <3>1, <4>1, <4>3 DEF Carried, Brought
    <3> QED
      BY <3>3, <3>4
  <2>2. CASE fit' # "update"
    BY <1>2, <1>3, <1>4, <2>2 DEF VersionsAgree, Carried, Brought
  <2> QED
    BY <2>1, <2>2
<1>10. SamplesAgree'
  <2>1. model_version <= model_version' /\ model_version' \in Int
    BY <1>3, <1>4
  <2>2. \A p \in Prompts : /\ \A i \in Samples : asked[p][i] \in Int
                           /\ version[p] \in Int
    BY PipelineAssumption, SMTT(30) DEF TypeOK, Versions, None
  <2> QED
    BY <1>2, <1>4, <2>1, <2>2 DEF SamplesAgree, Fresh
<1>11. InStep'
  <2> SUFFICES ASSUME backend = "hccl", staleness = 0 PROVE InStep'
    BY <1>2 DEF InStep
  <2>1. InFlight = {} /\ current_version = LoadedStep + batch
    BY <1>3, EmptyWhenBegun
  <2>2. model_version' = VersionOfBatch'
    BY <1>2, <1>3, <1>4, <2>1 DEF InStep, VersionOfBatch, VersionsAgree
  <2>3. ASSUME NEW p \in Prompts PROVE OneVersion(p)'
    <3>1. stage[p] \in {"data", "trained"}
      BY <2>1 DEF InFlight, At
    <3> QED
      BY <1>2, <3>1 DEF OneVersion, SamplesAgree, NoVersions
  <2> QED
    BY <2>2, <2>3 DEF InStep
<1> QED
  BY <1>6, <1>7, <1>8, <1>9, <1>10, <1>11

LEMMA GenerateSequencesKeeps == ASSUME IInv, GenerateSequences PROVE IInv'
<1> USE DEF IInv
<1>1. /\ fit = "generate" /\ fit' = "put_tokens" /\ batch' = batch + 1
      /\ prompt_pool' = prompt_pool
                          \o [k \in 1 .. TrainBatchSize |-> batch * TrainBatchSize + k]
      /\ stage' = [p \in Prompts |-> IF p \in BatchOf(batch) THEN "pool" ELSE stage[p]]
      /\ UNCHANGED <<config, is_last_step, global_steps, model_version, qsize, asked,
                     decoded, version, scored, weightVars, trainVars, versionVars>>
  BY DEF GenerateSequences
<1> USE DEF config, weightVars, trainVars, versionVars
<1>2. /\ batch \in Nat /\ batch < NumBatches /\ NumBatches \in Nat
      /\ TrainBatchSize \in Nat /\ TrainBatchSize > 0 /\ MiniBatchSize \in Nat
      /\ batch * TrainBatchSize \in Nat
      /\ (batch + 1) * TrainBatchSize = batch * TrainBatchSize + TrainBatchSize
      /\ (batch + 1) * TrainBatchSize <= NumBatches * TrainBatchSize
      /\ NumBatches * TrainBatchSize \in Nat
  <2>1. batch \in Nat /\ batch < NumBatches /\ NumBatches \in Nat
    BY <1>1, PipelineAssumption DEF TypeOK, BatchesDrawn
  <2> QED
    BY <2>1, SizesAreNumbers, ProductIsMonotone
<1>3. /\ BatchOf(batch) \subseteq Prompts /\ BatchOf(batch) \subseteq At("data")
      /\ \A p \in Prompts : p \in Nat
  <2>1. BatchOf(batch) = batch * TrainBatchSize + 1 .. batch * TrainBatchSize + TrainBatchSize
    BY <1>2 DEF BatchOf
  <2>2. BatchOf(batch) \subseteq Prompts
    BY <1>2, <2>1 DEF Prompts
  <2>3. \A p \in BatchOf(batch) : p > batch * TrainBatchSize
    BY <1>2, <2>1
  <2> QED
    BY <2>2, <2>3, PromptsAreFinite DEF BatchesDrawn
<1> DEFINE drawn == [k \in 1 .. TrainBatchSize |-> batch * TrainBatchSize + k]
<1>4. /\ drawn \in Seq(Prompts) /\ Len(drawn) = TrainBatchSize
      /\ \A k \in 1 .. TrainBatchSize : drawn[k] = batch * TrainBatchSize + k
                                        /\ drawn[k] \in BatchOf(batch)
  BY <1>2, <1>3 DEF BatchOf
<1>5. /\ prompt_pool \in Seq(Prompts) /\ Len(prompt_pool) \in Nat
      /\ prompt_pool' = prompt_pool \o drawn
  BY <1>1 DEF TypeOK
<1> HIDE DEF drawn
<1>6. /\ prompt_pool' \in Seq(Prompts)
      /\ Len(prompt_pool') = Len(prompt_pool) + TrainBatchSize
      /\ \A k \in 1 .. Len(prompt_pool) : prompt_pool'[k] = prompt_pool[k]
      /\ \A k \in Len(prompt_pool) + 1 .. Len(prompt_pool') :
            prompt_pool'[k] = drawn[k - Len(prompt_pool)]
  <2>1. /\ prompt_pool \o drawn \in Seq(Prompts)
        /\ Len(prompt_pool \o drawn) = Len(prompt_pool) + TrainBatchSize
    BY <1>2, <1>4, <1>5, ConcatProperties
  <2>2. \A k \in 1 .. Len(prompt_pool) + TrainBatchSize : (prompt_pool \o drawn)[k] =
           IF k <= Len(prompt_pool) THEN prompt_pool[k] ELSE drawn[k - Len(prompt_pool)]
    BY <1>4, <1>5, ConcatProperties
  <2> QED
    BY <1>2, <1>5, <2>1, <2>2
<1>7. \A p \in Prompts : /\ p \in BatchOf(batch) => stage[p] = "data" /\ stage'[p] = "pool"
                         /\ p \notin BatchOf(batch) => stage'[p] = stage[p]
  BY <1>1, <1>3 DEF At
<1>8. /\ At("data")' = At("data") \ BatchOf(batch)
      /\ At("trained")' = At("trained") /\ At("training")' = At("training")
  BY <1>7 DEF At
<1>9. TypeOK'
  <2>1. stage' \in [Prompts -> {"data", "pool", "rollout", "stored", "usable", "training",
                                "trained"}]
    BY <1>1 DEF TypeOK
  <2>2. batch' \in 0 .. NumBatches
    BY <1>1, <1>2
  <2> QED
    BY <1>1, <1>6, <2>1, <2>2 DEF TypeOK, Capacity
<1>10. BatchesDrawn'
  <2>1. At("data")' = {p \in Prompts : p > batch' * TrainBatchSize}
    BY <1>1, <1>2, <1>3, <1>8 DEF BatchesDrawn, BatchOf
  <2> QED
    BY <1>1, <1>2, <2>1 DEF BatchesDrawn, Capacity
<1>11. PoolHeld'
  <2>1. \A k \in 1 .. Len(prompt_pool) : prompt_pool[k] \in Prompts \ BatchOf(batch)
    BY <1>5, <1>7 DEF PoolHeld
  <2>2. ASSUME NEW k \in 1 .. Len(prompt_pool')
        PROVE  /\ prompt_pool'[k] \in Prompts /\ stage'[prompt_pool'[k]] = "pool"
               /\ k > Len(prompt_pool) <=> prompt_pool'[k] \in BatchOf(batch)
    <3>1. CASE k \in 1 .. Len(prompt_pool)
      BY <1>2, <1>5, <1>6, <1>7, <2>1, <3>1 DEF PoolHeld
    <3>2. CASE k \in Len(prompt_pool) + 1 .. Len(prompt_pool')
      <4>1. k - Len(prompt_pool) \in 1 .. TrainBatchSize
        BY <1>2, <1>5, <1>6, <3>2
      <4> QED
        BY <1>3, <1>4, <1>5, <1>6, <1>7, <3>2, <4>1
    <3> QED
      BY <1>2, <1>5, <1>6, <3>1, <3>2
  <2>3. ASSUME NEW j \in 1 .. Len(prompt_pool'), NEW k \in 1 .. Len(prompt_pool'),
               prompt_pool'[j] = prompt_pool'[k]
        PROVE  j = k
    <3>1. CASE j <= Len(prompt_pool) /\ k <= Len(prompt_pool)
      BY <1>5, <1>6, <2>3, <3>1 DEF PoolHeld
    <3>2. CASE j > Len(prompt_pool) /\ k > Len(prompt_pool)
      <4>1. /\ j - Len(prompt_pool) \in 1 .. TrainBatchSize
            /\ k - Len(prompt_pool) \in 1 .. TrainBatchSize
            /\ drawn[j - Len(prompt_pool)] = drawn[k - Len(prompt_pool)]
        BY <1>2, <1>5, <1>6, <2>3, <3>2
      <4> QED
        BY <1>2, <1>4, <1>5, <4>1
    <3> QED
      BY <1>5, <2>2, <2>3, <3>1, <3>2
  <2> QED
    BY <2>2, <2>3 DEF PoolHeld
<1>12. IterAgrees'
  BY <1>1, <1>8 DEF IterAgrees
<1>13. Tally'
  <2>1. Cardinality(At("trained")) \in Nat /\ qsize \in Nat
    BY InFlightCounted DEF TypeOK
  <2> QED
    BY <1>1, <1>2, <1>8, <2>1 DEF Tally, TrainedOfVersion, NotPut, NotReleased
<1>14. VersionsAgree' /\ Carried'
  BY <1>1 DEF VersionsAgree, Carried, Brought
<1>15. SamplesAgree'
  BY <1>1, <1>7 DEF SamplesAgree, Fresh
<1>16. InStep'
  <2> SUFFICES ASSUME backend = "hccl", staleness = 0 PROVE InStep'
    BY <1>1 DEF InStep
  <2>1. LoadedStep \in Nat
    BY PipelineAssumption
  <2>2. model_version' = VersionOfBatch'
    BY <1>1, <1>2, <2>1 DEF InStep, VersionOfBatch
  <2>3. \A p \in Prompts : OneVersion(p)'
    BY <1>1, <1>7 DEF InStep, OneVersion
  <2> QED
    BY <2>2, <2>3 DEF InStep
<1> QED
  BY <1>9, <1>10, <1>11, <1>12, <1>13, <1>14, <1>15, <1>16

LEMMA DriverKeeps == ASSUME IInv, Driver PROVE IInv'
BY CheckHealthKeeps, WaitForCapacityKeeps, SyncWeightsKeeps, UpdatesSubmittedKeeps,
   GenerateSequencesKeeps, PutTokensKeeps, ShutdownKeeps DEF Driver

(* A transfer only changes weights and versions.                           *)
LEMMA TransferKeeps == ASSUME IInv, Transfer PROVE IInv'
<1>1. UNCHANGED <<config, driverVars, qsize, stage, promptVars, trainVars>>
  BY DEF Transfer
<1>2. \A s : At(s)' = At(s)
  BY <1>1, StagesUnchanged
<1>3. PICK u \in updates : \/ PauseWorker(u) \/ LoadRollout(u) \/ LoadForward(u)
                           \/ SendWeights(u) \/ ResumeRollout(u)
  BY DEF Transfer
<1> USE DEF config, driverVars, promptVars, sampleVars, trainVars
<1>4. /\ TypeOK /\ BatchesDrawn /\ PoolHeld /\ IterAgrees /\ Tally
      /\ VersionsAgree /\ Carried /\ SamplesAgree /\ InStep
  BY DEF IInv
<1>5. /\ u.worker \in {"train", "rollout", "fwd"} /\ u.version \in Versions
      /\ u.phase \in {"pause", "load", "resume"} /\ u.version <= model_version
      /\ u.worker = "train" => u.version = current_version /\ u.version = model_version
  BY <1>4 DEF TypeOK, VersionsAgree
(* An update goes on or ends; its version stays. *)
<1>6. \A x \in updates' :
         \/ x \in updates
         \/ x.worker = u.worker /\ x.version = u.version /\ x.phase \in {"load", "resume"}
            /\ u.worker # "train"
  <2>1. CASE SendWeights(u) \/ ResumeRollout(u) \/ LoadForward(u)
    BY <2>1 DEF SendWeights, ResumeRollout, LoadForward
  <2>2. CASE PauseWorker(u) \/ LoadRollout(u)
    <3>1. u.worker # "train"
      BY <1>4, <2>2 DEF PauseWorker, LoadRollout, VersionsAgree
    <3>2. PICK p \in {"load", "resume"} :
             updates' = (updates \ {u}) \cup {Update(u.worker, u.version, p)}
      BY <2>2 DEF PauseWorker, LoadRollout, Advance
    <3> QED
      BY <3>1, <3>2 DEF Update
  <2> QED
    BY <1>3, <2>1, <2>2
<1>7. /\ current_version' = current_version
      /\ \/ weight_updated' = weight_updated
         \/ SendWeights(u) /\ weight_updated' = TRUE
      /\ rollout_version' \in {rollout_version, u.version}
      /\ fwd_version' \in {fwd_version, u.version}
      /\ rollout_paused' \in BOOLEAN /\ fwd_paused' \in BOOLEAN
  <2>1. rollout_paused \in BOOLEAN /\ fwd_paused \in BOOLEAN
    BY <1>4 DEF TypeOK
  <2> QED
    BY <1>3, <1>5, <2>1 DEF PauseWorker, LoadRollout, LoadForward, SendWeights, ResumeRollout,
                            versionVars
<1>8. TypeOK'
  BY <1>1, <1>4, <1>5, <1>6, <1>7, ZenonT(60) DEF TypeOK, Capacity
<1>9. BatchesDrawn' /\ PoolHeld' /\ IterAgrees'
  BY <1>1, <1>2, <1>4 DEF BatchesDrawn, PoolHeld, IterAgrees, Capacity
<1>10. Tally'
  BY <1>1, <1>2, <1>4, <1>7 DEF Tally, TrainedOfVersion, NotPut, NotReleased
<1>11. VersionsAgree'
  <2>1. \A x \in updates' : x.worker = "train" => x \in updates
    BY <1>6
  <2>2. SendWeights(u) => \A x \in updates' : x.worker # "train"
    BY <1>4, <2>1 DEF VersionsAgree, SendWeights
  <2>3. SendWeights(u) => current_version = model_version
    BY <1>5 DEF SendWeights
  <2>4. \A x \in updates' : x.version <= model_version
    BY <1>4, <1>5, <1>6 DEF VersionsAgree
  <2>5. train = "advance" => weight_updated' = weight_updated
    BY <1>4, <1>7 DEF VersionsAgree, SendWeights
  <2>6. ASSUME ~SendWeights(u) PROVE VersionsAgree'
    BY <1>1, <1>4, <1>5, <1>7, <2>1, <2>4, <2>6 DEF VersionsAgree
  <2>7. ASSUME SendWeights(u) PROVE VersionsAgree'
    <3>1. weight_updated' = TRUE /\ train # "advance"
      BY <1>4, <2>7 DEF SendWeights, VersionsAgree
    <3> QED
      BY <1>1, <1>4, <1>5, <1>7, <2>2, <2>3, <2>4, <2>7, <3>1 DEF VersionsAgree
  <2> QED
    BY <2>6, <2>7
<1>12. Carried'
  <2> SUFFICES ASSUME backend = "hccl" PROVE Carried'
    BY <1>1 DEF Carried
  <2>1. \A x \in updates' : x.version = model_version
    BY <1>4, <1>6 DEF Carried
  <2>2. fit = "update"
    BY <1>4 DEF Carried
  <2>3. ASSUME NEW w \in {"rollout", "fwd"}, NEW v, NEW v1, Brought(w, v),
               v1 = v \/ v1 = u.version,
               v1 = v => \/ u.worker # w \/ u.phase = "resume"
                         \/ PauseWorker(u)
        PROVE  v1 = model_version' \/ \E y \in updates' : y.worker = w /\ y.phase # "resume"
    <3>1. v1 = u.version => v1 = model_version'
      BY <1>1, <1>4 DEF Carried
    <3>2. ASSUME v1 = v, NEW x \in updates, x.worker = w, x.phase # "resume"
          PROVE  \E y \in updates' : y.worker = w /\ y.phase # "resume"
      <4>1. CASE x # u
        BY <1>3, <3>2, <4>1 DEF PauseWorker, LoadRollout, LoadForward, SendWeights,
                                ResumeRollout, Advance
      <4>2. CASE x = u
        <5>1. Update(u.worker, u.version, "load") \in updates'
          BY <2>3, <3>2, <4>2 DEF PauseWorker, Advance
        <5> QED
          BY <3>2, <4>2, <5>1 DEF Update
      <4> QED
        BY <4>1, <4>2
    <3> QED
      BY <1>1, <2>3, <3>1, <3>2 DEF Brought
  <2>4. Brought("rollout", rollout_version)'
    <3>1. \/ rollout_version' = u.version
          \/ rollout_version' = rollout_version
             /\ (u.worker # "rollout" \/ u.phase = "resume" \/ PauseWorker(u))
      BY <1>3 DEF PauseWorker, LoadRollout, LoadForward, SendWeights, ResumeRollout
    <3> QED
      BY <1>4, <2>3, <3>1 DEF Carried, Brought
  <2>5. Brought("fwd", fwd_version)'
    <3>1. \/ fwd_version' = u.version
          \/ fwd_version' = fwd_version
             /\ (u.worker # "fwd" \/ u.phase = "resume" \/ PauseWorker(u))
      BY <1>3 DEF PauseWorker, LoadRollout, LoadForward, SendWeights, ResumeRollout
    <3> QED
      BY <1>4, <2>3, <3>1 DEF Carried, Brought
  <2> QED
    BY <1>1, <2>1, <2>2, <2>4, <2>5 DEF Carried
<1>13. SamplesAgree' /\ InStep'
  BY <1>1, <1>4, <1>7 DEF SamplesAgree, Fresh, InStep, OneVersion, VersionOfBatch
<1> QED
  BY <1>8, <1>9, <1>10, <1>11, <1>12, <1>13 DEF IInv

(* What the parts of the invariant need that the steps of prompts respect. *)
Elsewhere == <<config, driverVars, qsize, weightVars, trainVars, versionVars>>

LEMMA PromptStepKeeps ==
    ASSUME IInv, UNCHANGED Elsewhere, TypeOK', PoolHeld', SamplesAgree',
           backend = "hccl" /\ staleness = 0 => \A p \in Prompts : OneVersion(p)',
           At("data")' = At("data"), At("trained")' = At("trained"),
           At("training")' = At("training")
    PROVE  IInv'
<1> USE DEF Elsewhere, config, driverVars, weightVars, trainVars, versionVars, IInv
<1>1. BatchesDrawn' /\ IterAgrees'
  BY DEF BatchesDrawn, IterAgrees, Capacity
<1>2. Tally'
  BY DEF Tally, TrainedOfVersion, NotPut, NotReleased
<1>3. VersionsAgree' /\ Carried'
  BY DEF VersionsAgree, Carried, Brought
<1>4. InStep'
  BY DEF InStep, VersionOfBatch
<1> QED
  BY <1>1, <1>2, <1>3, <1>4

LEMMA PullPromptKeeps == ASSUME IInv, UNCHANGED Elsewhere, PullPrompt PROVE IInv'
<1> USE DEF Elsewhere, config, driverVars, weightVars, trainVars, versionVars, IInv
<1> DEFINE h == Head(prompt_pool)
<1>1. /\ prompt_pool \in Seq(Prompts) /\ prompt_pool # <<>>
      /\ stage' = [stage EXCEPT ![h] = "rollout"]
      /\ prompt_pool' = Tail(prompt_pool)
      /\ UNCHANGED <<asked, decoded, version, scored>>
  BY DEF PullPrompt, TypeOK
<1>2. /\ h = prompt_pool[1] /\ h \in Prompts /\ Len(prompt_pool) \in Nat
      /\ Len(prompt_pool) > 0
      /\ prompt_pool' \in Seq(Prompts) /\ Len(prompt_pool') = Len(prompt_pool) - 1
      /\ \A k \in 1 .. Len(prompt_pool') : prompt_pool'[k] = prompt_pool[k + 1]
  BY <1>1, HeadTailProperties
<1>3. stage[h] = "pool"
  BY <1>2 DEF PoolHeld
<1> HIDE DEF h
<1>4. \A p \in Prompts : stage'[p] = IF p = h THEN "rollout" ELSE stage[p]
  BY <1>1, <1>2 DEF TypeOK
<1>5. TypeOK'
  BY <1>1, <1>2 DEF TypeOK, Capacity
<1>6. PoolHeld'
  <2>1. \A k \in 1 .. Len(prompt_pool') :
           /\ k + 1 \in 1 .. Len(prompt_pool) /\ k + 1 # 1
           /\ prompt_pool[k + 1] \in Prompts
    BY <1>1, <1>2
  <2>2. \A k \in 1 .. Len(prompt_pool') : prompt_pool[k + 1] # h
    BY <1>2, <2>1 DEF PoolHeld
  <2>3. ASSUME NEW k \in 1 .. Len(prompt_pool') PROVE stage'[prompt_pool'[k]] = "pool"
    BY <1>2, <1>4, <2>1, <2>2 DEF PoolHeld
  <2>4. ASSUME NEW j \in 1 .. Len(prompt_pool'), NEW k \in 1 .. Len(prompt_pool'),
               prompt_pool'[j] = prompt_pool'[k]
        PROVE  j = k
    <3>1. prompt_pool[j + 1] = prompt_pool[k + 1]
      BY <1>2, <2>4
    <3>2. j + 1 = k + 1
      BY <2>1, <3>1 DEF PoolHeld
    <3> QED
      BY <1>2, <3>2
  <2> QED
    BY <2>3, <2>4 DEF PoolHeld
<1>7. SamplesAgree'
  BY <1>1, <1>3, <1>4 DEF SamplesAgree, Fresh
<1>8. backend = "hccl" /\ staleness = 0 => \A p \in Prompts : OneVersion(p)'
  BY <1>1, <1>3, <1>4 DEF InStep, OneVersion
<1>9. /\ At("data")' = At("data") /\ At("trained")' = At("trained")
      /\ At("training")' = At("training")
  BY <1>3, <1>4 DEF At
<1> QED
  BY <1>5, <1>6, <1>7, <1>8, <1>9, PromptStepKeeps

LEMMA AskServerKeeps ==
    ASSUME IInv, UNCHANGED Elsewhere, NEW p \in Prompts, NEW i \in Samples, AskServer(p, i)
    PROVE  IInv'
<1> USE DEF Elsewhere, config, driverVars, weightVars, trainVars, versionVars, IInv
<1>1. /\ stage[p] = "rollout"
      /\ asked' = [asked EXCEPT ![p][i] = rollout_version]
      /\ UNCHANGED <<stage, prompt_pool, decoded, version, scored>>
  BY DEF AskServer
<1>2. \A q \in Prompts, j \in Samples :
         asked'[q][j] = IF q = p /\ j = i THEN rollout_version ELSE asked[q][j]
  BY <1>1 DEF TypeOK
<1>3. rollout_version # None /\ rollout_version <= model_version
  BY PipelineAssumption DEF TypeOK, Versions, None, VersionsAgree
<1>4. TypeOK'
  BY <1>1 DEF TypeOK, Capacity
<1>5. PoolHeld'
  BY <1>1 DEF PoolHeld
<1>6. SamplesAgree'
  <2>1. \A q \in Prompts : q # p => asked'[q] = asked[q]
    BY <1>1 DEF TypeOK
  <2> QED
    BY <1>1, <1>2, <1>3, <2>1 DEF SamplesAgree, Fresh
<1>7. backend = "hccl" /\ staleness = 0 => \A q \in Prompts : OneVersion(q)'
  <2> SUFFICES ASSUME backend = "hccl", staleness = 0 PROVE \A q \in Prompts : OneVersion(q)'
    OBVIOUS
  <2>1. rollout_version = model_version
    <3>1. p \in InFlight
      BY <1>1 DEF InFlight, At
    <3>2. fit # "update"
      BY <3>1, EmptyWhenBegun
    <3> QED
      BY <3>2 DEF Carried, Brought
  <2> QED
    BY <1>1, <1>2, <2>1 DEF InStep, OneVersion
<1>8. /\ At("data")' = At("data") /\ At("trained")' = At("trained")
      /\ At("training")' = At("training")
  BY <1>1 DEF At
<1> QED
  BY <1>4, <1>5, <1>6, <1>7, <1>8, PromptStepKeeps

LEMMA DecodeKeeps ==
    ASSUME IInv, UNCHANGED Elsewhere, NEW p \in Prompts, NEW i \in Samples, Decode(p, i)
    PROVE  IInv'
<1> USE DEF Elsewhere, config, driverVars, weightVars, trainVars, versionVars, IInv
<1>1. /\ stage[p] = "rollout" /\ asked[p][i] # None
      /\ decoded' = [decoded EXCEPT ![p][i] = rollout_version]
      /\ UNCHANGED <<stage, prompt_pool, asked, version, scored>>
  BY DEF Decode
<1>2. \A q \in Prompts, j \in Samples :
         decoded'[q][j] = IF q = p /\ j = i THEN rollout_version ELSE decoded[q][j]
  BY <1>1 DEF TypeOK
<1>4. TypeOK'
  BY <1>1 DEF TypeOK, Capacity
<1>5. PoolHeld'
  BY <1>1 DEF PoolHeld
<1>6. SamplesAgree'
  <2>1. \A q \in Prompts : q # p => decoded'[q] = decoded[q]
    BY <1>1 DEF TypeOK
  <2> QED
    BY <1>1, <1>2, <2>1 DEF SamplesAgree, Fresh
<1>7. backend = "hccl" /\ staleness = 0 => \A q \in Prompts : OneVersion(q)'
  <2> SUFFICES ASSUME backend = "hccl", staleness = 0 PROVE \A q \in Prompts : OneVersion(q)'
    OBVIOUS
  <2>1. rollout_version = model_version
    <3>1. p \in InFlight
      BY <1>1 DEF InFlight, At
    <3>2. fit # "update"
      BY <3>1, EmptyWhenBegun
    <3> QED
      BY <3>2 DEF Carried, Brought
  <2> QED
    BY <1>1, <1>2, <2>1 DEF InStep, OneVersion
<1>8. /\ At("data")' = At("data") /\ At("trained")' = At("trained")
      /\ At("training")' = At("training")
  BY <1>1 DEF At
<1> QED
  BY <1>4, <1>5, <1>6, <1>7, <1>8, PromptStepKeeps

LEMMA PutBatchKeeps ==
    ASSUME IInv, UNCHANGED Elsewhere, NEW p \in Prompts, PutBatch(p)
    PROVE  IInv'
<1> USE DEF Elsewhere, config, driverVars, weightVars, trainVars, versionVars, IInv
<1>1. /\ stage[p] = "rollout" /\ \A i \in Samples : decoded[p][i] # None
      /\ stage' = [stage EXCEPT ![p] = "stored"]
      /\ version' = [version EXCEPT ![p] = asked[p][1]]
      /\ UNCHANGED <<prompt_pool, asked, decoded, scored>>
  BY DEF PutBatch
<1>2. /\ \A q \in Prompts : stage'[q] = IF q = p THEN "stored" ELSE stage[q]
      /\ \A q \in Prompts : version'[q] = IF q = p THEN asked[p][1] ELSE version[q]
  BY <1>1 DEF TypeOK
<1>3. /\ 1 \in Samples /\ asked[p][1] \in Versions \cup {None} /\ asked[p][1] # None
      /\ asked[p][1] <= model_version
  <2>1. 1 \in Samples
    BY PipelineAssumption DEF Samples
  <2>2. asked[p][1] \in Versions \cup {None}
    BY <2>1 DEF TypeOK
  <2> QED
    BY <1>1, <2>1, <2>2 DEF SamplesAgree
<1>4. TypeOK'
  BY <1>1, <1>3 DEF TypeOK, Capacity
<1>5. PoolHeld'
  BY <1>1, <1>2, ElementOfSeq DEF PoolHeld, TypeOK
<1>6. SamplesAgree'
  <2>1. asked[p][1] \in LoadedStep .. model_version
    BY <1>3, PipelineAssumption DEF Versions, TypeOK
  <2> QED
    BY <1>1, <1>2, <2>1 DEF SamplesAgree, Fresh
<1>7. backend = "hccl" /\ staleness = 0 => \A q \in Prompts : OneVersion(q)'
  BY <1>1, <1>2, <1>3 DEF InStep, OneVersion
<1>8. /\ At("data")' = At("data") /\ At("trained")' = At("trained")
      /\ At("training")' = At("training")
  BY <1>1, <1>2 DEF At
<1> QED
  BY <1>4, <1>5, <1>6, <1>7, <1>8, PromptStepKeeps

LEMMA ComputeLogProbKeeps ==
    ASSUME IInv, UNCHANGED Elsewhere, NEW p \in Prompts, ComputeLogProb(p)
    PROVE  IInv'
<1> USE DEF Elsewhere, config, driverVars, weightVars, trainVars, versionVars, IInv
<1>1. /\ stage[p] = "stored"
      /\ stage' = [stage EXCEPT ![p] = "usable"]
      /\ scored' = [scored EXCEPT ![p] = fwd_version]
      /\ UNCHANGED <<prompt_pool, asked, decoded, version>>
  BY DEF ComputeLogProb
<1>2. /\ \A q \in Prompts : stage'[q] = IF q = p THEN "usable" ELSE stage[q]
      /\ \A q \in Prompts : scored'[q] = IF q = p THEN fwd_version ELSE scored[q]
  BY <1>1 DEF TypeOK
<1>4. TypeOK'
  BY <1>1 DEF TypeOK, Capacity
<1>5. PoolHeld'
  BY <1>1, <1>2, ElementOfSeq DEF PoolHeld, TypeOK
<1>6. SamplesAgree'
  BY <1>1, <1>2 DEF SamplesAgree, Fresh
<1>7. backend = "hccl" /\ staleness = 0 => \A q \in Prompts : OneVersion(q)'
  <2> SUFFICES ASSUME backend = "hccl", staleness = 0 PROVE \A q \in Prompts : OneVersion(q)'
    OBVIOUS
  <2>1. fwd_version = model_version
    <3>1. p \in InFlight
      BY <1>1 DEF InFlight, At
    <3>2. fit # "update"
      BY <3>1, EmptyWhenBegun
    <3> QED
      BY <3>2 DEF Carried, Brought
  <2> QED
    BY <1>1, <1>2, <2>1 DEF InStep, OneVersion
<1>8. /\ At("data")' = At("data") /\ At("trained")' = At("trained")
      /\ At("training")' = At("training")
  BY <1>1, <1>2 DEF At
<1> QED
  BY <1>4, <1>5, <1>6, <1>7, <1>8, PromptStepKeeps

(* The rollouts and the forward worker.                                    *)
LEMMA GenerationKeeps == ASSUME IInv, Generation PROVE IInv'
<1>1. UNCHANGED Elsewhere
  BY DEF Generation, Elsewhere
<1>2. CASE PullPrompt
  BY <1>1, <1>2, PullPromptKeeps
<1>3. ASSUME NEW p \in Prompts, NEW i \in Samples, AskServer(p, i) PROVE IInv'
  BY <1>1, <1>3, AskServerKeeps
<1>4. ASSUME NEW p \in Prompts, NEW i \in Samples, Decode(p, i) PROVE IInv'
  BY <1>1, <1>4, DecodeKeeps
<1>5. ASSUME NEW p \in Prompts, PutBatch(p) PROVE IInv'
  BY <1>1, <1>5, PutBatchKeeps
<1>6. ASSUME NEW p \in Prompts, ComputeLogProb(p) PROVE IInv'
  BY <1>1, <1>6, ComputeLogProbKeeps
<1> QED
  BY <1>2, <1>3, <1>4, <1>5, <1>6 DEF Generation

(* The trainer.                                                            *)
LEMMA FetchMiniBatchKeeps ==
    ASSUME IInv, UNCHANGED <<config, driverVars, prompt_pool, weightVars>>, FetchMiniBatch
    PROVE  IInv'
<1> USE DEF config, driverVars, weightVars, sampleVars, versionVars, IInv
<1>1. PICK taken \in kSubset(MiniBatchSize, Usable) :
         stage' = [p \in Prompts |-> IF p \in taken THEN "training" ELSE stage[p]]
  BY DEF FetchMiniBatch
<1>2. /\ train = "begin" /\ train' = "train"
      /\ mini_batch_iter = 0 => weight_updated
      /\ UNCHANGED <<qsize, sampleVars, mini_batch_iter, versionVars>>
  BY DEF FetchMiniBatch
<1>3. /\ taken \subseteq Prompts /\ Cardinality(taken) = MiniBatchSize
      /\ \A p \in taken : stage[p] = "usable" /\ Fresh(p)
  BY <1>1 DEF kSubset, Usable, At
<1>4. /\ \A p \in Prompts : stage'[p] = IF p \in taken THEN "training" ELSE stage[p]
      /\ At("training") = {}
  BY <1>1, <1>2 DEF IterAgrees
<1>5. /\ At("data")' = At("data") /\ At("trained")' = At("trained")
      /\ At("training")' = taken
  BY <1>3, <1>4 DEF At
<1>6. TypeOK'
  BY <1>1, <1>2 DEF TypeOK, Capacity
<1>7. BatchesDrawn' /\ PoolHeld'
  <2>1. \A k \in 1 .. Len(prompt_pool) : prompt_pool[k] \in Prompts
    BY ElementOfSeq DEF TypeOK
  <2> QED
    BY <1>2, <1>3, <1>4, <1>5, <2>1 DEF BatchesDrawn, PoolHeld, Capacity
<1>8. IterAgrees'
  BY <1>2, <1>3, <1>5 DEF IterAgrees, kSubset
<1>9. Tally'
  BY <1>2, <1>5 DEF Tally, TrainedOfVersion, NotPut, NotReleased
<1>10. VersionsAgree' /\ Carried'
  BY <1>2 DEF VersionsAgree, Carried, Brought
<1>11. SamplesAgree'
  BY <1>2, <1>3, <1>4 DEF SamplesAgree, Fresh
<1>12. InStep'
  BY <1>2, <1>3, <1>4 DEF InStep, OneVersion, VersionOfBatch
<1> QED
  BY <1>6, <1>7, <1>8, <1>9, <1>10, <1>11, <1>12

LEMMA ProcessBatchKeeps ==
    ASSUME IInv, UNCHANGED <<config, driverVars, prompt_pool, weightVars>>, ProcessBatch
    PROVE  IInv'
<1> USE DEF config, driverVars, weightVars, versionVars, IInv
<1>1. /\ train = "train" /\ mini_batch_iter' = mini_batch_iter + 1
      /\ stage' = Without(stage, "trained")
      /\ asked' = Without(asked, NoVersions) /\ decoded' = Without(decoded, NoVersions)
      /\ version' = Without(version, None) /\ scored' = Without(scored, None)
      /\ train' = IF mini_batch_iter' = OptimizerSteps THEN "await" ELSE "release"
      /\ UNCHANGED <<qsize, versionVars>>
  BY DEF ProcessBatch
<1>2. \A p \in Prompts :
         /\ p \in At("training") =>
               /\ stage[p] = "training" /\ stage'[p] = "trained"
               /\ asked'[p] = NoVersions /\ decoded'[p] = NoVersions
         /\ p \notin At("training") =>
               /\ stage'[p] = stage[p] /\ stage[p] # "training"
               /\ asked'[p] = asked[p] /\ decoded'[p] = decoded[p]
               /\ version'[p] = version[p] /\ scored'[p] = scored[p]
  BY <1>1 DEF Without, At
<1>3. /\ At("training") \subseteq Prompts /\ Cardinality(At("training")) = MiniBatchSize
  BY <1>1 DEF IterAgrees, kSubset
<1>4. /\ At("data")' = At("data") /\ At("training")' = {}
      /\ At("trained")' = At("trained") \cup At("training")
      /\ At("trained") \cap At("training") = {}
  BY <1>2 DEF At
<1>5. /\ mini_batch_iter \in Nat /\ mini_batch_iter < OptimizerSteps /\ OptimizerSteps \in Nat
  BY <1>1, SizesAreNumbers DEF TypeOK, IterAgrees
<1>6. /\ Cardinality(At("trained")') = Cardinality(At("trained")) + MiniBatchSize
      /\ Cardinality(At("trained")) \in Nat
  <2>1. IsFiniteSet(At("trained")) /\ IsFiniteSet(At("training"))
        /\ Cardinality(At("trained")) \in Nat
    BY PromptsAreFinite DEF At
  <2>2. Cardinality(At("trained") \cup At("training")) =
           Cardinality(At("trained")) + Cardinality(At("training")) - Cardinality({})
    BY <1>4, <2>1, FS_Union
  <2>3. Cardinality({}) = 0
    BY FS_EmptySet
  <2>4. Cardinality(At("trained") \cup At("training")) =
           Cardinality(At("trained")) + MiniBatchSize
    <3> HIDE DEF IInv
    <3>1. MiniBatchSize \in Nat
      BY SizesAreNumbers
    <3> QED
      BY <1>3, <2>1, <2>2, <2>3, <3>1
  <2>5. Cardinality(At("trained")') = Cardinality(At("trained") \cup At("training"))
    <3> HIDE DEF IInv
    <3> QED
      BY <1>4
  <2> QED
    BY <2>1, <2>4, <2>5
<1>7. TypeOK'
  <2>1. stage' \in [Prompts -> {"data", "pool", "rollout", "stored", "usable", "training",
                                "trained"}]
    BY <1>1 DEF Without, TypeOK
  <2>2. /\ asked' \in [Prompts -> [Samples -> Versions \cup {None}]]
        /\ decoded' \in [Prompts -> [Samples -> Versions \cup {None}]]
    <3>1. NoVersions \in [Samples -> Versions \cup {None}]
      BY DEF NoVersions
    <3> QED
      BY <1>1, <3>1 DEF Without, TypeOK
  <2>3. /\ version' \in [Prompts -> Versions \cup {None}]
        /\ scored' \in [Prompts -> Versions \cup {None}]
    BY <1>1 DEF Without, TypeOK
  <2>4. mini_batch_iter' \in 0 .. OptimizerSteps
        /\ train' \in {"await", "release"}
    BY <1>1, <1>5
  <2> QED
    BY <1>1, <2>1, <2>2, <2>3, <2>4 DEF TypeOK, Capacity
<1>8. BatchesDrawn' /\ PoolHeld'
  <2>1. \A k \in 1 .. Len(prompt_pool) : prompt_pool[k] \in Prompts
    BY ElementOfSeq DEF TypeOK
  <2> QED
    BY <1>1, <1>2, <1>4, <2>1 DEF BatchesDrawn, PoolHeld, Capacity
<1>9. IterAgrees'
  BY <1>1, <1>4, <1>5 DEF IterAgrees
<1>10. Tally'
  <2>1. TrainedOfVersion' = TrainedOfVersion + MiniBatchSize
        /\ TrainedOfVersion \in Nat
    BY <1>1, <1>5, SizesAreNumbers, ProductIsMonotone DEF TrainedOfVersion
  <2>2. NotReleased = 0 /\ NotReleased' = MiniBatchSize /\ NotPut' = NotPut
    BY <1>1 DEF NotReleased, NotPut
  <2>3. /\ TrainBatchSize * (current_version - LoadedStep) \in Int
        /\ batch * TrainBatchSize \in Int /\ NotPut \in Int /\ MiniBatchSize \in Int
    BY DrawnPrompts, PipelineAssumption, SizesAreNumbers DEF TypeOK, Versions, NotPut
  <2> QED
    BY <1>1, <1>6, <2>1, <2>2, <2>3 DEF Tally
<1>11. VersionsAgree' /\ Carried'
  BY <1>1, <1>5 DEF VersionsAgree, Carried, Brought
<1>12. SamplesAgree'
  <2>1. \A p \in Prompts, i \in Samples : p \in At("training") =>
           asked'[p][i] = None /\ decoded'[p][i] = None
    BY <1>2 DEF NoVersions
  <2>2. None <= model_version
    BY PipelineAssumption DEF TypeOK, Versions, None
  <2> QED
    BY <1>1, <1>2, <2>1, <2>2 DEF SamplesAgree, Fresh
<1>13. InStep'
  <2>1. \A p \in Prompts, i \in Samples : p \in At("training") =>
           asked'[p][i] = None /\ decoded'[p][i] = None
    BY <1>2 DEF NoVersions
  <2> QED
    BY <1>1, <1>2, <2>1 DEF InStep, OneVersion, VersionOfBatch
<1> QED
  BY <1>7, <1>8, <1>9, <1>10, <1>11, <1>12, <1>13

(* The steps of on_process_end leave the prompts alone.                    *)
LEMMA EndOfVersionKeeps ==
    ASSUME IInv, UNCHANGED <<config, driverVars, prompt_pool, weightVars>>,
           AwaitWeights \/ AdvanceVersion \/ ResetIter \/ ReleaseFlowControl
    PROVE  IInv'
<1> USE DEF config, driverVars, weightVars, sampleVars, versionVars, IInv
<1>1. /\ UNCHANGED <<stage, sampleVars>>
      /\ train \in {"await", "advance", "reset", "release"}
  BY DEF AwaitWeights, AdvanceVersion, ResetIter, ReleaseFlowControl
<1>2. \A s : At(s)' = At(s)
  BY <1>1, StagesUnchanged
<1>3. /\ qsize \in Nat /\ TrainBatchSize \in Nat /\ MiniBatchSize \in Nat /\ MiniBatchSize > 0
      /\ OptimizerSteps \in Nat /\ OptimizerSteps > 0
      /\ current_version \in Int /\ model_version \in Int /\ LoadedStep \in Int
      /\ MiniBatchSize * 0 = 0
      /\ TrainBatchSize * (current_version - LoadedStep) \in Int
      /\ batch * TrainBatchSize \in Nat /\ Cardinality(At("trained")) \in Nat
      /\ qsize <= Capacity /\ Capacity \in Int /\ batch \in Nat
  BY SizesAreNumbers, DrawnPrompts, InFlightCounted, PipelineAssumption
     DEF TypeOK, Versions, Capacity
<1>4. TypeOK'
  <2>1. CASE AwaitWeights \/ ResetIter
    <3>1. /\ mini_batch_iter' \in 0 .. OptimizerSteps /\ weight_updated' \in BOOLEAN
          /\ train' \in {"advance", "release"}
          /\ UNCHANGED <<qsize, current_version>>
      <4>1. mini_batch_iter \in 0 .. OptimizerSteps /\ weight_updated \in BOOLEAN
        BY DEF TypeOK
      <4> HIDE DEF IInv
      <4>2. CASE AwaitWeights
        BY <4>1, <4>2 DEF AwaitWeights
      <4>3. CASE ResetIter
        BY <1>3, <4>1, <4>3 DEF ResetIter
      <4> QED
        BY <2>1, <4>2, <4>3
    <3> QED
      BY <1>1, <3>1 DEF TypeOK, Capacity
  <2>2. CASE ReleaseFlowControl
    <3>1. qsize' \in 0 .. Capacity /\ train' \in {"begin", "failed"}
      BY <1>3, <2>2 DEF ReleaseFlowControl
    <3> QED
      BY <1>1, <2>2, <3>1 DEF ReleaseFlowControl, TypeOK, Capacity
  <2>3. CASE AdvanceVersion
    <3>1. current_version' \in Versions
      BY <1>3, <2>3, VersionBounded, PipelineAssumption DEF AdvanceVersion, TypeOK, Versions
    <3> QED
      BY <1>1, <2>3, <3>1 DEF AdvanceVersion, TypeOK, Capacity
  <2> QED
    BY <2>1, <2>2, <2>3
<1>5. BatchesDrawn' /\ PoolHeld'
  <2>1. qsize' <= qsize /\ qsize' \in Int
    BY <1>3 DEF AwaitWeights, AdvanceVersion, ResetIter, ReleaseFlowControl
  <2>2. Capacity' = Capacity
    BY DEF Capacity
  <2>3. PoolHeld'
    BY <1>1 DEF PoolHeld
  <2>4. fit \in {"sync", "update", "generate", "put_tokens"} =>
           qsize' + TrainBatchSize <= Capacity'
    <3>1. fit \in {"sync", "update", "generate", "put_tokens"} =>
             qsize + TrainBatchSize <= Capacity
      BY DEF BatchesDrawn
    <3>2. qsize \in Int /\ TrainBatchSize \in Int /\ Capacity \in Int
      BY SizesAreNumbers, PipelineAssumption DEF TypeOK, Capacity
    <3> SUFFICES ASSUME fit \in {"sync", "update", "generate", "put_tokens"}
                 PROVE  qsize' + TrainBatchSize <= Capacity
      BY <2>2
    <3> HIDE DEF IInv
    <3>3. qsize + TrainBatchSize <= Capacity
      BY <3>1
    <3> QED
      BY <2>1, <3>2, <3>3, SumIsMonotone
  <2> QED
    BY <1>2, <2>3, <2>4 DEF BatchesDrawn
<1>6. IterAgrees'
  BY <1>1, <1>2, <1>3 DEF IterAgrees, AwaitWeights, AdvanceVersion, ResetIter, ReleaseFlowControl
<1>7. Tally'
  <2>1. CASE AwaitWeights \/ ReleaseFlowControl \/ ResetIter
    BY <1>1, <1>2, <1>3, <2>1 DEF Tally, TrainedOfVersion, NotPut, NotReleased, AwaitWeights,
       ReleaseFlowControl, ResetIter
  <2>2. CASE AdvanceVersion
    <3>1. current_version' - LoadedStep = (current_version - LoadedStep) + 1
      BY <1>3, <2>2 DEF AdvanceVersion
    <3>2. TrainedOfVersion = TrainBatchSize /\ TrainedOfVersion' = 0
      BY <2>2, SizesAreNumbers DEF AdvanceVersion, IterAgrees, TrainedOfVersion
    <3>3. TrainBatchSize * (current_version' - LoadedStep) =
             TrainBatchSize * (current_version - LoadedStep) + TrainBatchSize
      BY <1>3, <3>1, SizesAreNumbers, ProductIsMonotone
    <3> QED
      BY <1>2, <1>3, <2>2, <3>2, <3>3 DEF AdvanceVersion, Tally, NotPut, NotReleased
  <2> QED
    BY <2>1, <2>2
<1>8. VersionsAgree' /\ Carried'
  <2>1. Carried'
    BY DEF Carried, Brought
  <2>2. VersionsAgree'
    BY <1>1, <1>3 DEF VersionsAgree, IterAgrees, AwaitWeights, AdvanceVersion, ResetIter,
       ReleaseFlowControl
  <2> QED
    BY <2>1, <2>2
<1>9. SamplesAgree'
  <2>1. At("training") = {}
    BY <1>1 DEF IterAgrees
  <2> QED
    BY <1>1, <2>1 DEF SamplesAgree, At
<1>10. InStep'
  BY <1>1 DEF InStep, OneVersion, VersionOfBatch
<1> QED
  BY <1>4, <1>5, <1>6, <1>7, <1>8, <1>9, <1>10

LEMMA TrainingKeeps == ASSUME IInv, Training PROVE IInv'
BY FetchMiniBatchKeeps, ProcessBatchKeeps, EndOfVersionKeeps DEF Training

LEMMA StutterKeeps == ASSUME IInv, UNCHANGED vars PROVE IInv'
<1> USE DEF vars, config, driverVars, sampleVars, promptVars, weightVars, trainVars, versionVars
<1>1. \A s : At(s)' = At(s)
  BY StagesUnchanged
<1> QED
  BY <1>1 DEF IInv, TypeOK, Capacity, BatchesDrawn, PoolHeld, IterAgrees, Tally,
     TrainedOfVersion, NotPut, NotReleased, VersionsAgree, Carried, Brought, SamplesAgree,
     Fresh, InStep, OneVersion, VersionOfBatch

LEMMA InvariantHolds == Spec => []IInv
<1>1. Init => IInv
  BY InitIInv
<1>2. IInv /\ [Next]_vars => IInv'
  BY DriverKeeps, TransferKeeps, GenerationKeeps, TrainingKeeps, StutterKeeps DEF Next
<1> QED
  BY <1>1, <1>2, PTL DEF Spec

-----------------------------------------------------------------------------
(* Theorems *)

(* Every count, version and stage keeps to its range: the queue never has  *)
(* more tokens than its capacity, and there are no more versions than      *)
(* batches (fit, _release_flow_control, on_process_end).                   *)
THEOREM TypeCorrect == Spec => []TypeOK
<1>1. IInv => TypeOK
  BY DEF IInv
<1> QED
  BY <1>1, InvariantHolds, PTL

(* Never more than (staleness + 1) batches are between the dataloader and  *)
(* the end of their training, for any sizes and both back ends.            *)
THEOREM InFlightAlwaysBounded == Spec => []InFlightBounded
<1>1. IInv => InFlightBounded
  BY BoundFromTally DEF IInv
<1> QED
  BY <1>1, InvariantHolds, PTL

(* What is trained was generated at most staleness versions before, and    *)
(* with hccl and staleness 0 by the version that is trained.               *)
THEOREM LagAlwaysBounded == Spec => []LagBounded
<1>1. IInv => LagBounded
  <2> SUFFICES ASSUME IInv, NEW p \in At("training")
               PROVE  /\ backend = "hccl" \/ staleness # 0 =>
                            current_version - version[p] \in 0 .. staleness
                      /\ backend = "hccl" /\ staleness = 0 =>
                            scored[p] = current_version
                            /\ \A i \in Samples : decoded[p][i] = current_version
    BY DEF LagBounded, RecordedLagBounded, OnPolicy
  <2> USE DEF IInv
  <2>1. /\ p \in Prompts /\ stage[p] = "training" /\ Fresh(p)
        /\ version[p] \in LoadedStep .. model_version
    BY DEF At, SamplesAgree
  <2>2. current_version = model_version
    BY DEF IterAgrees, VersionsAgree
  <2>3. staleness \in Nat /\ LoadedStep \in Nat /\ model_version \in Nat
    BY PipelineAssumption DEF TypeOK, Versions
  <2>4. CASE staleness # 0
    <3>1. current_version - version[p] \in 0 .. staleness
      BY <2>1, <2>2, <2>3, <2>4 DEF Fresh
    <3> QED
      BY <2>4, <3>1
  <2>5. CASE backend = "hccl" /\ staleness = 0
    BY <2>1, <2>2, <2>3, <2>5 DEF InStep, OneVersion
  <2> QED
    BY <2>4, <2>5
<1> QED
  BY <1>1, InvariantHolds, PTL

(* No transfer brings the trainer a version below the one it has.          *)
THEOREM VersionNeverTakenBack == Spec => NeverTakenBack
<1>1. IInv /\ [Next]_vars => [current_version' >= current_version]_vars
  <2> SUFFICES ASSUME IInv, Next PROVE current_version' >= current_version
    OBVIOUS
  <2>1. current_version \in Int
    BY PipelineAssumption DEF IInv, TypeOK, Versions
  <2>2. CASE Driver
    BY <2>1, <2>2 DEF Driver, CheckHealth, WaitForCapacity, SyncWeights, UpdatesSubmitted,
       GenerateSequences, PutTokens, Shutdown, versionVars
  <2>3. CASE Transfer
    BY <2>1, <2>3 DEF Transfer, PauseWorker, LoadRollout, LoadForward, SendWeights,
       ResumeRollout, versionVars, IInv, VersionsAgree
  <2>4. CASE Generation
    BY <2>1, <2>4 DEF Generation, versionVars
  <2>5. CASE Training
    BY <2>1, <2>5 DEF Training, FetchMiniBatch, ProcessBatch, AwaitWeights, AdvanceVersion,
       ResetIter, ReleaseFlowControl, versionVars
  <2> QED
    BY <2>2, <2>3, <2>4, <2>5 DEF Next
<1> QED
  BY <1>1, InvariantHolds, PTL DEF Spec, NeverTakenBack
=============================================================================
