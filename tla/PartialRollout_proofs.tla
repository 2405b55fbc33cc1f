----------------------- MODULE PartialRollout_proofs -----------------------
(***************************************************************************)
(* Proofs about PartialRollout, for any batch size, number of batches,     *)
(* epochs, trajectories and workers. Every prompt that was drawn is in     *)
(* one place of the manager, and every ongoing prompt in one place of the  *)
(* workers: most of what the module states follows from that and from      *)
(* counting the trajectories of a worker and the prompts of a step.        *)
(***************************************************************************)
EXTENDS PartialRollout, FiniteSetTheorems, TLAPS

USE PartialRolloutAssumption

-----------------------------------------------------------------------------
(* Sequences of prompts *)

Distinct(s) == \A i, j \in DOMAIN s : s[i] = s[j] => i = j

(* Appending joins the elements.                                           *)
LEMMA RangeOfConcat ==
    ASSUME NEW S, NEW s \in Seq(S), NEW t \in Seq(S)
    PROVE  /\ s \o t \in Seq(S)
           /\ Len(s \o t) = Len(s) + Len(t)
           /\ RangeOf(s \o t) = RangeOf(s) \cup RangeOf(t)
           /\ Distinct(s) /\ Distinct(t) /\ RangeOf(s) \cap RangeOf(t) = {} => Distinct(s \o t)
<1>1. /\ s \o t \in Seq(S) /\ Len(s \o t) = Len(s) + Len(t)
      /\ \A i \in 1 .. Len(s) : (s \o t)[i] = s[i]
      /\ \A i \in 1 .. Len(t) : (s \o t)[Len(s) + i] = t[i]
      /\ DOMAIN (s \o t) = 1 .. Len(s) + Len(t)
      /\ DOMAIN s = 1 .. Len(s) /\ DOMAIN t = 1 .. Len(t)
      /\ Len(s) \in Nat /\ Len(t) \in Nat
    OBVIOUS
<1>2. ASSUME NEW i \in DOMAIN (s \o t)
      PROVE  \/ i \in DOMAIN s /\ (s \o t)[i] = s[i]
             \/ i - Len(s) \in DOMAIN t /\ (s \o t)[i] = t[i - Len(s)]
    <2>1. CASE i <= Len(s)
        BY <2>1, <1>1
    <2>2. CASE i > Len(s)
        <3>1. i - Len(s) \in 1 .. Len(t) /\ i = Len(s) + (i - Len(s))
            BY <2>2, <1>1
        <3> QED
            BY <3>1, <1>1
    <2> QED
        BY <2>1, <2>2, <1>1
<1>3. RangeOf(s \o t) \subseteq RangeOf(s) \cup RangeOf(t)
    BY <1>2 DEF RangeOf
<1>4. RangeOf(s) \subseteq RangeOf(s \o t)
    BY <1>1 DEF RangeOf
<1>5. RangeOf(t) \subseteq RangeOf(s \o t)
    <2> SUFFICES ASSUME NEW i \in DOMAIN t PROVE t[i] \in RangeOf(s \o t)
        BY DEF RangeOf
    <2>1. Len(s) + i \in DOMAIN (s \o t) /\ (s \o t)[Len(s) + i] = t[i]
        BY <1>1
    <2> QED
        BY <2>1 DEF RangeOf
<1>6. ASSUME Distinct(s), Distinct(t), RangeOf(s) \cap RangeOf(t) = {}
      PROVE  Distinct(s \o t)
    <2> SUFFICES ASSUME NEW i \in DOMAIN (s \o t), NEW j \in DOMAIN (s \o t),
                        (s \o t)[i] = (s \o t)[j]
                 PROVE  i = j
        BY DEF Distinct
    <2>1. i \in Int /\ j \in Int /\ Len(s) \in Int
        BY <1>1
    <2>2. CASE i \in DOMAIN s /\ (s \o t)[i] = s[i] /\ j \in DOMAIN s /\ (s \o t)[j] = s[j]
        BY <2>2, <1>6 DEF Distinct
    <2>3. CASE /\ i - Len(s) \in DOMAIN t /\ (s \o t)[i] = t[i - Len(s)]
               /\ j - Len(s) \in DOMAIN t /\ (s \o t)[j] = t[j - Len(s)]
        <3>1. i - Len(s) = j - Len(s)
            BY <2>3, <1>6 DEF Distinct
        <3> QED
            BY <3>1, <2>1
    <2>4. CASE \/ /\ i \in DOMAIN s /\ (s \o t)[i] = s[i]
                  /\ j - Len(s) \in DOMAIN t /\ (s \o t)[j] = t[j - Len(s)]
               \/ /\ j \in DOMAIN s /\ (s \o t)[j] = s[j]
                  /\ i - Len(s) \in DOMAIN t /\ (s \o t)[i] = t[i - Len(s)]
        <3>1. (s \o t)[i] \in RangeOf(s) /\ (s \o t)[i] \in RangeOf(t)
            BY <2>4, SMTT(30) DEF RangeOf
        <3> QED
            BY <3>1, <1>6
    <2> QED
        BY <2>2, <2>3, <2>4, <1>2
<1> QED
    BY <1>1, <1>3, <1>4, <1>5, <1>6

(* Taking from the front splits the elements.                              *)
LEMMA RangeOfSplit ==
    ASSUME NEW S, NEW s \in Seq(S), NEW n \in 0 .. Len(s)
    PROVE  LET front == SubSeq(s, 1, n)
               rest == SubSeq(s, n + 1, Len(s))
           IN  /\ front \in Seq(S) /\ rest \in Seq(S)
               /\ Len(front) = n /\ Len(rest) = Len(s) - n
               /\ RangeOf(front) \cup RangeOf(rest) = RangeOf(s)
               /\ Distinct(s) => /\ Distinct(front) /\ Distinct(rest)
                                 /\ RangeOf(front) \cap RangeOf(rest) = {}
<1> DEFINE front == SubSeq(s, 1, n)
           rest == SubSeq(s, n + 1, Len(s))
<1>1. /\ front \in Seq(S) /\ Len(front) = n
      /\ \A i \in 1 .. n : front[i] = s[i]
      /\ DOMAIN front = 1 .. n /\ DOMAIN s = 1 .. Len(s) /\ Len(s) \in Nat
    OBVIOUS
<1>2. /\ rest \in Seq(S) /\ Len(rest) = Len(s) - n
      /\ \A i \in 1 .. Len(s) - n : rest[i] = s[n + i]
      /\ DOMAIN rest = 1 .. Len(s) - n
    OBVIOUS
<1> HIDE DEF front, rest
<1>3. RangeOf(front) \subseteq RangeOf(s)
    BY <1>1 DEF RangeOf
<1>8. \A i \in DOMAIN rest : n + i \in DOMAIN s /\ rest[i] = s[n + i]
    BY <1>1, <1>2
<1>4. RangeOf(rest) \subseteq RangeOf(s)
    <2> SUFFICES ASSUME NEW i \in DOMAIN rest PROVE rest[i] \in RangeOf(s)
        BY DEF RangeOf
    <2> QED
        BY <1>8 DEF RangeOf
<1>5. RangeOf(s) \subseteq RangeOf(front) \cup RangeOf(rest)
    <2> SUFFICES ASSUME NEW i \in DOMAIN s PROVE s[i] \in RangeOf(front) \cup RangeOf(rest)
        BY DEF RangeOf
    <2>1. CASE i <= n
        BY <2>1, <1>1 DEF RangeOf
    <2>2. CASE i > n
        <3>1. i - n \in DOMAIN rest /\ rest[i - n] = s[n + (i - n)] /\ n + (i - n) = i
            BY <2>2, <1>1, <1>2
        <3> QED
            BY <3>1 DEF RangeOf
    <2> QED
        BY <2>1, <2>2, <1>1
<1>6. ASSUME Distinct(s)
      PROVE  /\ Distinct(front) /\ Distinct(rest)
             /\ RangeOf(front) \cap RangeOf(rest) = {}
    <2>1. Distinct(front)
        BY <1>1, <1>6 DEF Distinct
    <2>2. Distinct(rest)
        <3> SUFFICES ASSUME NEW i \in DOMAIN rest, NEW j \in DOMAIN rest, rest[i] = rest[j]
                     PROVE  i = j
            BY DEF Distinct
        <3>1. n + i \in DOMAIN s /\ n + j \in DOMAIN s /\ s[n + i] = s[n + j]
            BY <1>8
        <3>2. n + i = n + j
            BY <3>1, <1>6 DEF Distinct
        <3> QED
            BY <3>2, <1>1, <1>2
    <2>3. ASSUME NEW i \in DOMAIN front, NEW j \in DOMAIN rest, front[i] = rest[j]
          PROVE  FALSE
        <3>1. i \in DOMAIN s /\ n + j \in DOMAIN s /\ s[i] = s[n + j] /\ i < n + j
            BY <2>3, <1>1, <1>2, <1>8
        <3> QED
            BY <3>1, <1>6 DEF Distinct
    <2> QED
        BY <2>1, <2>2, <2>3 DEF RangeOf
<1> QED
    BY <1>1, <1>2, <1>3, <1>4, <1>5, <1>6 DEF front, rest

(* A sequence without repetitions has as many elements as it is long.      *)
LEMMA RangeOfDistinct ==
    ASSUME NEW S, NEW s \in Seq(S)
    PROVE  /\ RangeOf(s) \subseteq S
           /\ IsFiniteSet(RangeOf(s))
           /\ Distinct(s) => Cardinality(RangeOf(s)) = Len(s)
           /\ Cardinality(RangeOf(s)) = Len(s) => Distinct(s)
           /\ s = <<>> <=> RangeOf(s) = {}
<1>1. /\ Len(s) \in Nat /\ DOMAIN s = 1 .. Len(s) /\ \A i \in 1 .. Len(s) : s[i] \in S
      /\ s \in [1 .. Len(s) -> RangeOf(s)]
    BY DEF RangeOf
<1>2. s \in Surjection(1 .. Len(s), RangeOf(s))
    BY <1>1 DEF Surjection, RangeOf
<1>3. IsFiniteSet(1 .. Len(s)) /\ Cardinality(1 .. Len(s)) = Len(s)
    <2>1. 1 \in Int /\ Len(s) \in Int
        BY <1>1
    <2>2. /\ IsFiniteSet(1 .. Len(s))
          /\ Cardinality(1 .. Len(s)) = IF 1 > Len(s) THEN 0 ELSE Len(s) - 1 + 1
        BY <2>1, FS_Interval
    <2> QED
        BY <2>2, <1>1
<1>4. /\ IsFiniteSet(RangeOf(s))
      /\ Cardinality(RangeOf(s)) = Len(s) <=> s \in Injection(1 .. Len(s), RangeOf(s))
    BY <1>2, <1>3, FS_Surjection
<1>5. s \in Injection(1 .. Len(s), RangeOf(s)) <=> Distinct(s)
    BY <1>1 DEF Injection, IsInjective, Distinct
<1>6. RangeOf(s) \subseteq S
    BY <1>1 DEF RangeOf
<1>7. s = <<>> <=> RangeOf(s) = {}
    <2>1. s # <<>> => 1 \in DOMAIN s
        BY <1>1
    <2>2. s = <<>> => DOMAIN s = {}
        OBVIOUS
    <2> QED
        BY <2>1, <2>2 DEF RangeOf
<1> QED
    BY <1>4, <1>5, <1>6, <1>7, Zenon

-----------------------------------------------------------------------------
(* The constants *)

LEMMA Sizes ==
    /\ TotalSteps \in Nat /\ TotalSteps >= 1
    /\ IsFiniteSet(Prompts) /\ Prompts \subseteq Nat
    /\ Cardinality(Workers) \in Nat /\ Cardinality(Workers) >= 1
    /\ MaxInflightTraj \in Nat
    /\ MaxInflightTraj \div N \in 0 .. MaxInflightTraj
    /\ N * (MaxInflightTraj \div N) <= MaxInflightTraj
<1>1. TotalSteps \in Nat /\ TotalSteps >= 1
    BY DEF TotalSteps
<1>2. TotalSteps * BatchSize \in Int
    BY <1>1
<1>3. IsFiniteSet(Prompts) /\ Prompts \subseteq Nat
    BY <1>2, FS_Interval DEF Prompts
<1>4. Cardinality(Workers) \in Nat /\ Cardinality(Workers) >= 1
    <2>1. Cardinality(Workers) \in Nat
        BY FS_CardinalityType
    <2>2. Cardinality(Workers) # 0
        BY FS_EmptySet
    <2> QED
        BY <2>1, <2>2
<1>5. MaxInflightTraj \in Nat
    <2> DEFINE perWorker == (BatchSize + Cardinality(Workers) - 1) \div Cardinality(Workers)
    <2>1. perWorker \in Nat
        BY <1>4
    <2>2. N * perWorker \in Nat
        BY <2>1
    <2> QED
        BY <2>2 DEF MaxInflightTraj
<1>6. /\ MaxInflightTraj \div N \in Nat
      /\ MaxInflightTraj = N * (MaxInflightTraj \div N) + (MaxInflightTraj % N)
      /\ MaxInflightTraj % N \in Nat
    BY <1>5
<1>7. N * (MaxInflightTraj \div N) >= MaxInflightTraj \div N
    BY <1>6
<1> QED
    BY <1>1, <1>3, <1>4, <1>5, <1>6, <1>7

(* The prompts asked for fit into what is left of the budget.              *)
LEMMA SlotsFit ==
    ASSUME NEW traj \in 0 .. MaxInflightTraj
    PROVE  Slots(traj) \in 0 .. MaxInflightTraj /\ traj + N * Slots(traj) <= MaxInflightTraj
<1>1. MaxInflightTraj \in Nat /\ traj \in Nat /\ MaxInflightTraj - traj \in Nat
    BY Sizes
<1>2. CASE traj + N <= MaxInflightTraj
    <2> DEFINE left == MaxInflightTraj - traj
    <2>1. /\ left \div N \in Nat /\ left % N \in Nat
          /\ left = N * (left \div N) + (left % N)
        BY <1>1
    <2>2. N * (left \div N) >= left \div N
        <3>1. \A x \in Nat : N * x >= x
            OBVIOUS
        <3> QED
            BY <2>1, <3>1
    <2>3. Slots(traj) = left \div N
        BY <1>2 DEF Slots
    <2> QED
        BY <1>1, <2>1, <2>2, <2>3
<1>3. CASE ~(traj + N <= MaxInflightTraj)
    BY <1>1, <1>3 DEF Slots
<1> QED
    BY <1>2, <1>3

(* A batch of the dataloader is the next prompts.                          *)
LEMMA BatchPrompts ==
    ASSUME NEW b \in Nat, b < TotalSteps
    PROVE  LET batch == [i \in 1 .. BatchSize |-> b * BatchSize + i]
           IN  /\ batch \in Seq(Prompts) /\ Len(batch) = BatchSize
               /\ RangeOf(batch) = b * BatchSize + 1 .. (b + 1) * BatchSize
               /\ Distinct(batch)
               /\ b * BatchSize \in Nat /\ (b + 1) * BatchSize = b * BatchSize + BatchSize
               /\ (b + 1) * BatchSize <= TotalSteps * BatchSize
<1> DEFINE batch == [i \in 1 .. BatchSize |-> b * BatchSize + i]
<1>1. /\ b * BatchSize \in Nat /\ (b + 1) * BatchSize = b * BatchSize + BatchSize
      /\ TotalSteps * BatchSize \in Nat /\ TotalSteps \in Nat
    BY Sizes
<1>2. (b + 1) * BatchSize <= TotalSteps * BatchSize
    BY Sizes
<1>3. \A i \in 1 .. BatchSize : b * BatchSize + i \in Prompts
    BY <1>1, <1>2 DEF Prompts
<1>4. batch \in Seq(Prompts) /\ Len(batch) = BatchSize
    BY <1>3
<1>5. RangeOf(batch) = b * BatchSize + 1 .. (b + 1) * BatchSize
    <2>1. ASSUME NEW p \in b * BatchSize + 1 .. (b + 1) * BatchSize
          PROVE  p \in RangeOf(batch)
        <3>1. p - b * BatchSize \in 1 .. BatchSize /\ p = b * BatchSize + (p - b * BatchSize)
            BY <1>1
        <3> QED
            BY <3>1 DEF RangeOf
    <2>2. RangeOf(batch) \subseteq b * BatchSize + 1 .. (b + 1) * BatchSize
        BY <1>1 DEF RangeOf
    <2> QED
        BY <2>1, <2>2
<1>6. Distinct(batch)
    BY <1>1 DEF Distinct
<1> QED
    BY <1>1, <1>2, <1>4, <1>5, <1>6

(* The batches up to the end of the epoch of a step.                       *)
EndOf(step) == ((step - 1) \div BatchesPerEpoch + 1) * BatchesPerEpoch

LEMMA EndOfEpoch ==
    ASSUME NEW step \in Nat \ {0}
    PROVE  /\ EndOf(step) \in Nat /\ step <= EndOf(step)
           /\ EndOf(step) <= EndOf(step + 1)
           /\ step <= TotalSteps => EndOf(step) <= TotalSteps
<1> DEFINE e == (step - 1) \div BatchesPerEpoch
           f == step \div BatchesPerEpoch
<1>1. /\ e \in Nat /\ (step - 1) % BatchesPerEpoch \in 0 .. BatchesPerEpoch - 1
      /\ step - 1 = BatchesPerEpoch * e + ((step - 1) % BatchesPerEpoch)
    OBVIOUS
<1>2. /\ f \in Nat /\ step % BatchesPerEpoch \in 0 .. BatchesPerEpoch - 1
      /\ step = BatchesPerEpoch * f + (step % BatchesPerEpoch)
    OBVIOUS
<1>3. EndOf(step) = BatchesPerEpoch * e + BatchesPerEpoch /\ EndOf(step) \in Nat
    BY <1>1 DEF EndOf
<1>4. EndOf(step + 1) = BatchesPerEpoch * f + BatchesPerEpoch
    BY <1>2 DEF EndOf
<1>5. e <= f
    <2>1. SUFFICES ASSUME f + 1 <= e PROVE FALSE
        BY <1>1, <1>2
    <2>2. BatchesPerEpoch * (f + 1) <= BatchesPerEpoch * e
        BY <2>1, <1>1, <1>2
    <2>3. BatchesPerEpoch * (f + 1) = BatchesPerEpoch * f + BatchesPerEpoch
        BY <1>2
    <2> QED
        BY <2>2, <2>3, <1>1, <1>2
<1>6. BatchesPerEpoch * e <= BatchesPerEpoch * f
    BY <1>5, <1>1, <1>2
<1>7. ASSUME step <= TotalSteps PROVE EndOf(step) <= TotalSteps
    <2>1. e < Epochs
        <3>1. SUFFICES ASSUME Epochs <= e PROVE FALSE
            BY <1>1
        <3>2. BatchesPerEpoch * Epochs <= BatchesPerEpoch * e
            BY <3>1, <1>1
        <3>3. TotalSteps = BatchesPerEpoch * Epochs
            BY DEF TotalSteps
        <3> QED
            BY <3>2, <3>3, <1>1, <1>7
    <2>2. BatchesPerEpoch * (e + 1) <= BatchesPerEpoch * Epochs
        BY <2>1, <1>1
    <2>3. BatchesPerEpoch * (e + 1) = BatchesPerEpoch * e + BatchesPerEpoch
        BY <1>1
    <2> QED
        BY <2>2, <2>3, <1>3 DEF TotalSteps
<1> QED
    BY <1>1, <1>3, <1>4, <1>6, <1>7

-----------------------------------------------------------------------------
(* The invariant *)

(* Every prompt of the batches drawn is in one place of the manager.       *)
Queues ==
    /\ Distinct(pending_queue) /\ Distinct(done_queue)
    /\ RangeOf(pending_queue) \cap ongoing_set = {}
    /\ RangeOf(pending_queue) \cap RangeOf(done_queue) = {}
    /\ ongoing_set \cap RangeOf(done_queue) = {}
    /\ trained \cap (RangeOf(pending_queue) \cup ongoing_set \cup RangeOf(done_queue)) = {}
    /\ Owned \subseteq 1 .. drawn * BatchSize
    /\ restarts = 0 => 1 .. drawn * BatchSize \subseteq Owned

(* Every ongoing prompt is in one place of one worker, or in one push.     *)
With(w) == RangeOf(pulled[w]) \cup running[w]
Held ==
    /\ \A w \in Workers :
        /\ Distinct(pulled[w]) /\ RangeOf(pulled[w]) \cap running[w] = {}
        /\ With(w) \subseteq ongoing_set
        /\ pull_task[w] > 0 => pulled[w] = <<>>
    /\ \A w, u \in Workers : w # u => With(w) \cap With(u) = {}
    /\ \A m \in pushes :
        /\ m \subseteq ongoing_set
        /\ \A w \in Workers : m \cap With(w) = {}
        /\ \A k \in pushes : m # k => m \cap k = {}
    /\ \A p \in ongoing_set : (\E w \in Workers : p \in With(w)) \/ (\E m \in pushes : p \in m)

(* A worker counts the trajectories of its tasks that have not ended.      *)
Outstanding(w) == {t \in running[w] \X (1 .. N) : t[2] <= waiting[t[1]] + generating[t[1]]}
Trajectories ==
    /\ \A p \in Prompts : waiting[p] + generating[p] <= N
    /\ \A p \in Prompts : (\A w \in Workers : p \notin running[w]) =>
                          waiting[p] = 0 /\ generating[p] = 0
    /\ \A w \in Workers : inflight_traj[w] = Cardinality(Outstanding(w))

(* Between cancel and the end of a step the gate is closed.                *)
Gate ==
    /\ fit \in {"abort", "train"} => ~resume_event
    /\ fit = "train" => \A p \in Prompts : generating[p] = 0

(* A step has taken one batch more than the step before.                   *)
Taken == IF fit \in {"cancel", "abort", "train"} THEN global_steps ELSE global_steps - 1
Steps ==
    /\ fit # "done" => global_steps <= TotalSteps
    /\ Cardinality(trained) = Taken * BatchSize
    /\ drawn <= EndOf(global_steps)
    /\ Cardinality(saved.trained) = saved.step * BatchSize
    /\ saved.trained \subseteq 1 .. saved.drawn * BatchSize
    /\ saved.drawn <= EndOf(saved.step + 1)

IInv == TypeOK /\ Queues /\ Held /\ Trajectories /\ EventsAgree /\ BudgetKept /\ Gate /\ Steps

queueVars == <<pending_queue, ongoing_set, done_queue, trained, drawn, restarts>>
holdVars == <<ongoing_set, pulled, running, pushes, pull_task>>
trajectoryVars == <<running, waiting, generating, inflight_traj>>
eventVars == <<pending_queue, done_queue, batch_ready, prompts_pending>>
budgetVars == <<inflight_traj, pulled, pull_task>>
gateVars == <<fit, resume_event, generating>>
stepVars == <<fit, global_steps, drawn, trained, saved>>

(* A part of the invariant is kept by what does not touch its variables.   *)
LEMMA Untouched ==
    /\ Queues /\ UNCHANGED queueVars => Queues'
    /\ Held /\ UNCHANGED holdVars => Held'
    /\ Trajectories /\ UNCHANGED trajectoryVars => Trajectories'
    /\ EventsAgree /\ UNCHANGED eventVars => EventsAgree'
    /\ BudgetKept /\ UNCHANGED budgetVars => BudgetKept'
    /\ Gate /\ UNCHANGED gateVars => Gate'
    /\ Steps /\ UNCHANGED stepVars => Steps'
<1>1. Queues /\ UNCHANGED queueVars => Queues'
    BY DEF Queues, Owned, queueVars
<1>2. Held /\ UNCHANGED holdVars => Held'
    BY ZenonT(60) DEF Held, With, holdVars
<1>3. Trajectories /\ UNCHANGED trajectoryVars => Trajectories'
    BY DEF Trajectories, Outstanding, trajectoryVars
<1>4. EventsAgree /\ UNCHANGED eventVars => EventsAgree'
    BY DEF EventsAgree, eventVars
<1>5. BudgetKept /\ UNCHANGED budgetVars => BudgetKept'
    BY DEF BudgetKept, budgetVars
<1>6. Gate /\ UNCHANGED gateVars => Gate'
    BY DEF Gate, gateVars
<1>7. Steps /\ UNCHANGED stepVars => Steps'
    BY DEF Steps, Taken, stepVars
<1> QED
    BY <1>1, <1>2, <1>3, <1>4, <1>5, <1>6, <1>7

(* With nothing drawn since a checkpoint, nothing is in flight.            *)
Idle ==
    /\ pending_queue = <<>> /\ ongoing_set = {} /\ done_queue = <<>>
    /\ batch_ready = FALSE /\ prompts_pending = FALSE
    /\ pull_task = [w \in Workers |-> MaxInflightTraj \div N]
    /\ blocked = {} /\ pulled = [w \in Workers |-> <<>>] /\ pushes = {}
    /\ inflight_traj = [w \in Workers |-> 0]
    /\ slot_event = [w \in Workers |-> FALSE]
    /\ running = [w \in Workers |-> {}]
    /\ waiting = [p \in Prompts |-> 0] /\ generating = [p \in Prompts |-> 0]
    /\ resume_event = TRUE

IdleState ==
    /\ Distinct(pending_queue) /\ Distinct(done_queue)
    /\ RangeOf(pending_queue) = {} /\ RangeOf(done_queue) = {}
    /\ Held /\ Trajectories /\ EventsAgree /\ BudgetKept
    /\ pending_queue \in Seq(Prompts) /\ done_queue \in Seq(Prompts)
    /\ pulled \in [Workers -> Seq(Prompts)]
    /\ pull_task \in [Workers -> 0 .. MaxInflightTraj]
    /\ inflight_traj \in [Workers -> 0 .. MaxInflightTraj]
    /\ running \in [Workers -> SUBSET Prompts]
    /\ waiting \in [Prompts -> 0 .. N] /\ generating \in [Prompts -> 0 .. N]

LEMMA IdleParts == Idle => IdleState
<1> SUFFICES ASSUME Idle PROVE IdleState
    OBVIOUS
<1>1. /\ Distinct(<<>>) /\ RangeOf(<<>>) = {} /\ Len(<<>>) = 0 /\ <<>> \in Seq(Prompts)
    BY DEF Distinct, RangeOf
<1>2. \A w \in Workers : pulled[w] = <<>> /\ running[w] = {} /\ inflight_traj[w] = 0
                         /\ pull_task[w] = MaxInflightTraj \div N
    BY DEF Idle
<1>3. Held
    BY <1>1, <1>2 DEF Held, With, Idle
<1>4. Trajectories
    <2>1. \A w \in Workers : Outstanding(w) = {}
        BY <1>2 DEF Outstanding
    <2>2. Cardinality({}) = 0
        BY FS_EmptySet
    <2>3. \A p \in Prompts : waiting[p] = 0 /\ generating[p] = 0
        BY DEF Idle
    <2>4. \A p \in Prompts : waiting[p] + generating[p] <= N
        BY <2>3
    <2>5. \A w \in Workers : inflight_traj[w] = Cardinality(Outstanding(w))
        BY <1>2, <2>1, <2>2
    <2> QED
        BY <2>3, <2>4, <2>5 DEF Trajectories
<1>5. EventsAgree
    BY <1>1 DEF EventsAgree, Idle
<1>6. BudgetKept
    <2>1. 0 + N * (0 + (MaxInflightTraj \div N)) <= MaxInflightTraj
        BY Sizes
    <2> QED
        BY <1>1, <1>2, <2>1 DEF BudgetKept
<1>7. /\ pulled \in [Workers -> Seq(Prompts)]
      /\ pull_task \in [Workers -> 0 .. MaxInflightTraj]
      /\ inflight_traj \in [Workers -> 0 .. MaxInflightTraj]
      /\ running \in [Workers -> SUBSET Prompts]
      /\ waiting \in [Prompts -> 0 .. N] /\ generating \in [Prompts -> 0 .. N]
    BY <1>1, Sizes DEF Idle
<1> QED
    BY <1>1, <1>3, <1>4, <1>5, <1>6, <1>7 DEF Idle, IdleState

LEMMA IdleNext == Idle' => IdleState'
<1> QED
    BY IdleParts, PTL

LEMMA InitHolds == Init => IInv
<1> SUFFICES ASSUME Init PROVE IInv
    OBVIOUS
<1>1. Idle
    BY DEF Init, Idle
<1>2. Cardinality({}) = 0
    BY FS_EmptySet
<1>3. TypeOK
    <2>1. saved \in [step : 0 .. TotalSteps, drawn : 0 .. TotalSteps, trained : SUBSET Prompts]
        BY Sizes DEF Init
    <2>2. /\ fit \in {"feed", "prime", "pull", "cancel", "abort", "train", "done"}
          /\ global_steps \in 1 .. TotalSteps + 1 /\ drawn \in 0 .. TotalSteps
          /\ trained \subseteq Prompts /\ restarts \in 0 .. MaxRestarts /\ mid_epoch \in BOOLEAN
        <3>1. /\ fit = "feed" /\ global_steps = 1 /\ drawn = 0 /\ trained = {} /\ restarts = 0
              /\ mid_epoch = FALSE
            BY DEF Init
        <3>2. global_steps \in 1 .. TotalSteps + 1 /\ drawn \in 0 .. TotalSteps
            BY <3>1, Sizes
        <3>3. restarts \in 0 .. MaxRestarts
            BY <3>1
        <3> QED
            BY <3>1, <3>2, <3>3, Zenon
    <2>3. /\ ongoing_set \subseteq Prompts /\ batch_ready \in BOOLEAN
          /\ prompts_pending \in BOOLEAN /\ blocked \subseteq Workers
          /\ pushes \subseteq SUBSET Prompts /\ resume_event \in BOOLEAN
          /\ slot_event \in [Workers -> BOOLEAN]
        BY DEF Init
    <2>4. /\ pending_queue \in Seq(Prompts) /\ done_queue \in Seq(Prompts)
          /\ pulled \in [Workers -> Seq(Prompts)]
          /\ pull_task \in [Workers -> 0 .. MaxInflightTraj]
          /\ inflight_traj \in [Workers -> 0 .. MaxInflightTraj]
          /\ running \in [Workers -> SUBSET Prompts]
          /\ waiting \in [Prompts -> 0 .. N] /\ generating \in [Prompts -> 0 .. N]
        BY <1>1, IdleParts DEF IdleState
    <2> QED
        BY <2>1, <2>2, <2>3, <2>4, Zenon DEF TypeOK
<1>4. Owned = {} /\ 1 .. drawn * BatchSize = {}
    BY <1>1, IdleParts DEF IdleState, Owned, Init
<1>5. Queues
    BY <1>1, <1>4, IdleParts DEF IdleState, Queues, Init
<1>6. Gate
    BY DEF Init, Gate
<1>7. Steps
    <2>1. 0 <= EndOf(1)
        BY EndOfEpoch
    <2> QED
        BY <1>2, <2>1, Sizes DEF Steps, Taken, Init
<1> QED
    BY <1>1, <1>3, <1>5, <1>6, <1>7, IdleParts DEF IdleState, IInv

-----------------------------------------------------------------------------
(* The trainer's steps *)

(* The prompts of the batches drawn, and how many there are.               *)
LEMMA FirstPrompts ==
    ASSUME NEW n \in 0 .. TotalSteps
    PROVE  /\ n * BatchSize \in Nat
           /\ 1 .. n * BatchSize \subseteq Prompts
           /\ IsFiniteSet(1 .. n * BatchSize)
           /\ Cardinality(1 .. n * BatchSize) = n * BatchSize
<1>1. n \in Nat /\ n * BatchSize \in Nat /\ TotalSteps * BatchSize \in Nat
    BY Sizes
<1>2. n * BatchSize <= TotalSteps * BatchSize
    BY Sizes
<1>3. 1 .. n * BatchSize \subseteq Prompts
    BY <1>1, <1>2 DEF Prompts
<1>4. 1 \in Int /\ n * BatchSize \in Int
    BY <1>1
<1>5. /\ IsFiniteSet(1 .. n * BatchSize)
      /\ Cardinality(1 .. n * BatchSize)
            = IF 1 > n * BatchSize THEN 0 ELSE n * BatchSize - 1 + 1
    BY <1>4, FS_Interval
<1>6. Cardinality(1 .. n * BatchSize) = n * BatchSize
    BY <1>1, <1>5
<1> QED
    BY <1>1, <1>3, <1>5, <1>6

(* No step takes more prompts than were drawn; the last step of an epoch   *)
(* has taken them all.                                                     *)
LEMMA TakenWereDrawn ==
    ASSUME TypeOK, Queues, Steps, Taken \in Nat
    PROVE  /\ Taken <= drawn
           /\ IsFiniteSet(trained) /\ Cardinality(trained) \in Nat
           /\ Taken = drawn => trained = 1 .. drawn * BatchSize
<1>1. /\ drawn * BatchSize \in Nat /\ IsFiniteSet(1 .. drawn * BatchSize)
      /\ Cardinality(1 .. drawn * BatchSize) = drawn * BatchSize /\ drawn \in Nat
    BY FirstPrompts DEF TypeOK
<1>2. trained \subseteq 1 .. drawn * BatchSize
    BY DEF Queues, Owned
<1>3. /\ IsFiniteSet(trained) /\ Cardinality(trained) <= drawn * BatchSize
      /\ Cardinality(trained) = drawn * BatchSize => trained = 1 .. drawn * BatchSize
    BY <1>1, <1>2, FS_Subset
<1>4. Taken * BatchSize <= drawn * BatchSize
    BY <1>3 DEF Steps
<1>5. Taken <= drawn
    <2>1. SUFFICES ASSUME drawn + 1 <= Taken PROVE FALSE
        BY <1>1
    <2>2. (drawn + 1) * BatchSize <= Taken * BatchSize
        BY <2>1, <1>1
    <2>3. (drawn + 1) * BatchSize = drawn * BatchSize + BatchSize
        BY <1>1
    <2> QED
        BY <2>2, <2>3, <1>1, <1>4
<1>6. Cardinality(trained) \in Nat
    BY <1>3, FS_CardinalityType
<1> QED
    BY <1>3, <1>5, <1>6 DEF Steps

LEMMA StepRange ==
    ASSUME IInv
    PROVE  /\ global_steps \in Nat \ {0} /\ drawn \in 0 .. TotalSteps
           /\ EpochEnd = EndOf(global_steps) /\ EndOf(global_steps) \in Nat
           /\ drawn <= EndOf(global_steps) /\ global_steps <= EndOf(global_steps)
           /\ EndOf(global_steps) <= EndOf(global_steps + 1)
           /\ fit # "done" => global_steps <= TotalSteps /\ EndOf(global_steps) <= TotalSteps
<1>1. /\ global_steps \in Nat \ {0} /\ drawn \in 0 .. TotalSteps
      /\ fit # "done" => global_steps <= TotalSteps
      /\ drawn <= EndOf(global_steps)
    BY Sizes DEF IInv, TypeOK, Steps
<1>2. EpochEnd = EndOf(global_steps)
    BY DEF EpochEnd, Epoch, EndOf
<1> QED
    BY <1>1, <1>2, EndOfEpoch

LEMMA PushBatchKeeps == IInv /\ PushBatch => IInv'
<1> SUFFICES ASSUME IInv, PushBatch PROVE IInv'
    OBVIOUS
<1> DEFINE batch == [i \in 1 .. BatchSize |-> drawn * BatchSize + i]
<1>1. drawn \in Nat /\ drawn < TotalSteps /\ drawn' = drawn + 1 /\ drawn < EndOf(global_steps)
    BY StepRange, Sizes DEF PushBatch
<1>2. /\ batch \in Seq(Prompts) /\ Len(batch) = BatchSize /\ Distinct(batch)
      /\ RangeOf(batch) = drawn * BatchSize + 1 .. (drawn + 1) * BatchSize
      /\ drawn * BatchSize \in Nat /\ (drawn + 1) * BatchSize = drawn * BatchSize + BatchSize
    BY <1>1, BatchPrompts
<1>3. pending_queue' = pending_queue \o batch
    BY DEF PushBatch
<1> HIDE DEF batch
<1>4. /\ pending_queue \in Seq(Prompts) /\ Owned \subseteq 1 .. drawn * BatchSize
      /\ Distinct(pending_queue)
    BY DEF IInv, TypeOK, Queues
<1>5. Owned \cap RangeOf(batch) = {}
    BY <1>2, <1>4
<1>6. /\ pending_queue' \in Seq(Prompts)
      /\ RangeOf(pending_queue') = RangeOf(pending_queue) \cup RangeOf(batch)
      /\ Distinct(pending_queue') /\ Len(pending_queue') = Len(pending_queue) + BatchSize
    <2>1. RangeOf(pending_queue) \cap RangeOf(batch) = {}
        BY <1>5 DEF Owned
    <2>2. /\ pending_queue \o batch \in Seq(Prompts)
          /\ RangeOf(pending_queue \o batch) = RangeOf(pending_queue) \cup RangeOf(batch)
          /\ Distinct(pending_queue \o batch)
          /\ Len(pending_queue \o batch) = Len(pending_queue) + Len(batch)
        BY ONLY <2>1, <1>2, <1>4, RangeOfConcat, SMTT(30)
    <2> QED
        BY ONLY <2>2, <1>2, <1>3
<1>7. TypeOK'
    <2>1. fit' \in {"feed", "prime"} /\ prompts_pending' \in BOOLEAN
        BY DEF PushBatch
    <2>2. drawn' \in 0 .. TotalSteps
        BY <1>1, Sizes
    <2> QED
        BY <2>1, <2>2, <1>6 DEF PushBatch, IInv, TypeOK, runVars, workerVars, serverVars
<1>8. Queues'
    <2>1. /\ done_queue' = done_queue /\ ongoing_set' = ongoing_set /\ trained' = trained
          /\ restarts' = restarts
        BY DEF PushBatch, runVars
    <2>2. Owned' = Owned \cup RangeOf(batch)
        BY <1>6, <2>1 DEF Owned
    <2>3. 1 .. drawn' * BatchSize = (1 .. drawn * BatchSize) \cup RangeOf(batch)
        BY <1>1, <1>2
    <2> QED
        BY <2>1, <2>2, <2>3, <1>4, <1>5, <1>6 DEF IInv, Queues, Owned
<1>9. EventsAgree'
    <2>1. pending_queue' # <<>>
        BY <1>6, RangeOfDistinct
    <2> QED
        BY <2>1 DEF EventsAgree, PushBatch, IInv
<1>10. Held' /\ Trajectories' /\ BudgetKept'
    BY Untouched DEF IInv, PushBatch, holdVars, trajectoryVars, budgetVars, workerVars, serverVars
<1>11. Gate' /\ Steps'
    <2>1. /\ fit = "feed" /\ fit' \in {"feed", "prime"}
          /\ UNCHANGED <<global_steps, trained, saved>>
        BY DEF PushBatch, runVars
    <2>2. drawn' <= EndOf(global_steps)
        BY <1>1, StepRange
    <2> QED
        BY <2>1, <2>2 DEF IInv, Gate, Steps, Taken
<1> QED
    BY <1>7, <1>8, <1>9, <1>10, <1>11 DEF IInv

(* The steps of the trainer that only move it on, or the gate.             *)
LEMMA TurnsKeep == IInv /\ (LoaderExhausted \/ Resume \/ Cancel \/ Cancelled) => IInv'
<1> SUFFICES ASSUME IInv, LoaderExhausted \/ Resume \/ Cancel \/ Cancelled PROVE IInv'
    OBVIOUS
<1>1. /\ UNCHANGED <<global_steps, drawn, trained, runVars, managerVars, workerVars, serverVars>>
      /\ \/ fit = "feed" /\ fit' = "prime" /\ resume_event' = resume_event
         \/ fit = "prime" /\ fit' = "pull" /\ resume_event' = TRUE
         \/ fit = "cancel" /\ fit' = "abort" /\ resume_event' = FALSE
         \/ /\ fit = "abort" /\ fit' = "train" /\ resume_event' = resume_event
            /\ \A p \in Prompts : generating[p] = 0
    BY DEF LoaderExhausted, Resume, Cancel, Cancelled
<1>2. TypeOK'
    <2>1. fit' \in {"prime", "pull", "abort", "train"} /\ resume_event' \in BOOLEAN
        BY <1>1 DEF IInv, TypeOK
    <2> QED
        BY <2>1, <1>1 DEF IInv, TypeOK, runVars, managerVars, workerVars, serverVars
<1>3. Queues' /\ Held' /\ Trajectories' /\ EventsAgree' /\ BudgetKept'
    BY <1>1, Untouched DEF IInv, queueVars, holdVars, trajectoryVars, eventVars, budgetVars,
       runVars, managerVars, workerVars, serverVars
<1>4. Gate' /\ Steps'
    BY <1>1 DEF IInv, Gate, Steps, Taken, runVars, serverVars
<1> QED
    BY <1>2, <1>3, <1>4 DEF IInv

LEMMA PullBatchKeeps ==
    ASSUME IInv, PullBatch
    PROVE  /\ IInv'
           /\ \E prompts \in SUBSET (1 .. drawn * BatchSize \ trained) :
                /\ Cardinality(prompts) = BatchSize
                /\ trained' = trained \cup prompts
<1> DEFINE front == SubSeq(done_queue, 1, BatchSize)
           rest == SubSeq(done_queue, BatchSize + 1, Len(done_queue))
<1>1. /\ fit = "pull" /\ fit' = "cancel" /\ Len(done_queue) >= BatchSize
      /\ trained' = trained \cup RangeOf(front) /\ done_queue' = rest
      /\ batch_ready' = (Len(done_queue') >= BatchSize)
      /\ UNCHANGED <<global_steps, drawn, runVars, pending_queue, ongoing_set,
                     prompts_pending, workerVars, serverVars, resume_event>>
    BY DEF PullBatch, IInv, EventsAgree
<1>2. done_queue \in Seq(Prompts) /\ Distinct(done_queue) /\ BatchSize \in 0 .. Len(done_queue)
    BY <1>1 DEF IInv, TypeOK, Queues
<1>3. /\ front \in Seq(Prompts) /\ rest \in Seq(Prompts) /\ Len(front) = BatchSize
      /\ RangeOf(front) \cup RangeOf(rest) = RangeOf(done_queue)
      /\ RangeOf(front) \cap RangeOf(rest) = {}
      /\ Distinct(front) /\ Distinct(rest)
    BY <1>2, RangeOfSplit
<1> HIDE DEF front, rest
<1>4. /\ IsFiniteSet(RangeOf(front)) /\ Cardinality(RangeOf(front)) = BatchSize
      /\ RangeOf(front) \subseteq Prompts
    BY <1>3, RangeOfDistinct
<1>5. RangeOf(front) \subseteq 1 .. drawn * BatchSize /\ RangeOf(front) \cap trained = {}
    BY <1>3 DEF IInv, Queues, Owned
<1>6. Taken \in Nat /\ global_steps \in Nat /\ Taken = global_steps - 1 /\ Taken' = global_steps
    BY <1>1, StepRange DEF Taken
<1>7. IsFiniteSet(trained) /\ Cardinality(trained) = Taken * BatchSize
    BY <1>6, TakenWereDrawn DEF IInv, Steps
<1>8. Cardinality(trained') = Taken' * BatchSize
    <2>1. trained \cap RangeOf(front) = {}
        BY <1>5
    <2>2. Cardinality(trained \cup RangeOf(front)) = Taken * BatchSize + BatchSize - 0
        BY <2>1, <1>4, <1>7, FS_Union, FS_EmptySet
    <2>3. (global_steps - 1) * BatchSize + BatchSize = global_steps * BatchSize
        BY <1>6
    <2>4. Taken * BatchSize + BatchSize - 0 = global_steps * BatchSize
        BY <2>3, <1>6
    <2> QED
        BY <2>2, <2>4, <1>1, <1>6
<1>9. TypeOK'
    <2>1. trained' \subseteq Prompts /\ done_queue' \in Seq(Prompts) /\ batch_ready' \in BOOLEAN
          /\ fit' \in {"cancel"}
        BY <1>1, <1>3, <1>4 DEF IInv, TypeOK
    <2> QED
        BY <2>1, <1>1 DEF IInv, TypeOK, runVars, workerVars, serverVars
<1>10. Queues'
    <2>1. Owned' = Owned
        BY <1>1, <1>3 DEF Owned
    <2> QED
        BY <2>1, <1>1, <1>3 DEF IInv, Queues, runVars
<1>11. Held' /\ Trajectories' /\ BudgetKept'
    BY <1>1, Untouched DEF IInv, holdVars, trajectoryVars, budgetVars, workerVars, serverVars
<1>12. EventsAgree' /\ Gate'
    BY <1>1 DEF IInv, EventsAgree, Gate
<1>13. Steps'
    BY <1>1, <1>8 DEF IInv, Steps, runVars
<1>14. IInv'
    BY <1>9, <1>10, <1>11, <1>12, <1>13 DEF IInv
<1> QED
    BY <1>1, <1>4, <1>5, <1>14

LEMMA FinishStepKeeps ==
    ASSUME IInv, FinishStep
    PROVE  IInv' /\ drawn' = drawn
<1>1. /\ fit = "train" /\ global_steps \in 1 .. TotalSteps /\ TotalSteps \in Nat
      /\ global_steps' = global_steps + 1
      /\ fit' = IF global_steps = TotalSteps THEN "done" ELSE "feed"
      /\ saved' = IF global_steps \in SaveSteps
                  THEN [step |-> global_steps, drawn |-> drawn, trained |-> trained]
                  ELSE saved
      /\ drawn' = IF global_steps = EpochEnd THEN EpochEnd ELSE drawn
      /\ UNCHANGED <<trained, restarts, mid_epoch, managerVars, workerVars, serverVars>>
    BY StepRange, Sizes DEF FinishStep
<1>2. Taken = global_steps /\ Taken' = global_steps' - 1 /\ Taken' = Taken /\ Taken \in Nat
    BY <1>1 DEF Taken
<1>3. drawn' = drawn
    <2>1. Taken <= drawn
        BY <1>2, TakenWereDrawn DEF IInv
    <2> QED
        BY <2>1, <1>1, <1>2, StepRange
<1>4. saved' \in [step : 0 .. TotalSteps, drawn : 0 .. TotalSteps, trained : SUBSET Prompts]
    <2>1. drawn \in 0 .. TotalSteps /\ trained \in SUBSET Prompts /\ global_steps \in 0 .. TotalSteps
        BY <1>1, StepRange DEF IInv, TypeOK
    <2>2. saved \in [step : 0 .. TotalSteps, drawn : 0 .. TotalSteps, trained : SUBSET Prompts]
        BY DEF IInv, TypeOK
    <2> QED
        BY <2>1, <2>2, <1>1
<1>5. TypeOK'
    <2>1. fit' \in {"feed", "done"} /\ global_steps' \in 1 .. TotalSteps + 1
          /\ drawn' \in 0 .. TotalSteps /\ resume_event' \in BOOLEAN
        BY <1>1, <1>3, StepRange DEF FinishStep, IInv, TypeOK
    <2> QED
        BY <2>1, <1>1, <1>4 DEF IInv, TypeOK, managerVars, workerVars, serverVars
<1>6. Queues' /\ Held' /\ Trajectories' /\ EventsAgree' /\ BudgetKept'
    BY <1>1, <1>3, Untouched DEF IInv, queueVars, holdVars, trajectoryVars, eventVars,
       budgetVars, managerVars, workerVars, serverVars
<1>7. Gate'
    BY <1>1 DEF Gate
<1>8. Steps'
    <2>1. /\ fit' # "done" => global_steps' <= TotalSteps
          /\ Cardinality(trained') = Taken' * BatchSize
          /\ drawn' <= EndOf(global_steps')
        <3>1. fit' # "done" => global_steps' <= TotalSteps
            BY <1>1
        <3>2. Cardinality(trained') = Taken' * BatchSize
            BY <1>1, <1>2, Zenon DEF IInv, Steps
        <3>3. drawn' <= EndOf(global_steps')
            <4>1. EndOf(global_steps) \in Nat /\ EndOf(global_steps + 1) \in Nat
                BY <1>1, EndOfEpoch
            <4> QED
                BY <4>1, <1>1, <1>3, StepRange
        <3> QED
            BY <3>1, <3>2, <3>3
    <2>2. /\ Cardinality(saved.trained) = saved.step * BatchSize
          /\ saved.trained \subseteq 1 .. saved.drawn * BatchSize
          /\ saved.drawn <= EndOf(saved.step + 1)
        BY DEF IInv, Steps
    <2>3. /\ Cardinality(trained) = global_steps * BatchSize
          /\ trained \subseteq 1 .. drawn * BatchSize
          /\ drawn <= EndOf(global_steps + 1)
        <3>1. Cardinality(trained) = global_steps * BatchSize
            BY <1>2, Zenon DEF IInv, Steps
        <3>2. trained \subseteq 1 .. drawn * BatchSize
            BY DEF IInv, Queues, Owned
        <3>3. drawn <= EndOf(global_steps + 1)
            <4>1. EndOf(global_steps) \in Nat /\ EndOf(global_steps + 1) \in Nat
                BY <1>1, EndOfEpoch
            <4> QED
                BY <4>1, StepRange
        <3> QED
            BY <3>1, <3>2, <3>3
    <2>4. /\ Cardinality(saved'.trained) = saved'.step * BatchSize
          /\ saved'.trained \subseteq 1 .. saved'.drawn * BatchSize
          /\ saved'.drawn <= EndOf(saved'.step + 1)
        <3>1. CASE global_steps \in SaveSteps
            BY <3>1, <2>3, <1>1
        <3>2. CASE global_steps \notin SaveSteps
            BY <3>2, <2>2, <1>1
        <3> QED
            BY <3>1, <3>2
    <2> QED
        BY <2>1, <2>4 DEF Steps
<1> QED
    BY <1>3, <1>5, <1>6, <1>7, <1>8 DEF IInv

-----------------------------------------------------------------------------
(* The steps of the workers and the manager *)

LEMMA AwaitPromptsKeeps ==
    ASSUME IInv, NEW w \in Workers, AwaitPrompts(w)
    PROVE  IInv'
<1>1. /\ blocked' = blocked \cup {w}
      /\ UNCHANGED <<trainerVars, managerVars, pull_task, pulled, pushes, inflight_traj,
                     slot_event, running, serverVars, resume_event>>
    BY DEF AwaitPrompts
<1>2. TypeOK'
    BY <1>1 DEF IInv, TypeOK, trainerVars, runVars, managerVars, serverVars
<1>3. /\ Queues' /\ Held' /\ Trajectories' /\ EventsAgree' /\ BudgetKept' /\ Gate' /\ Steps'
    BY <1>1, Untouched DEF IInv, queueVars, holdVars, trajectoryVars, eventVars, budgetVars,
       gateVars, stepVars, trainerVars, runVars, managerVars, serverVars
<1> QED
    BY <1>2, <1>3 DEF IInv

(* The prompts pulled leave the queue for the worker, that had none.       *)
LEMMA PullPromptsKeeps ==
    ASSUME IInv, NEW w \in Workers, PullPrompts(w)
    PROVE  IInv'
<1> DEFINE n == Least(pull_task[w], Len(pending_queue))
           front == SubSeq(pending_queue, 1, n)
           rest == SubSeq(pending_queue, n + 1, Len(pending_queue))
<1>1. /\ pull_task[w] > 0 /\ pending_queue # <<>>
      /\ pulled' = [pulled EXCEPT ![w] = front]
      /\ pending_queue' = rest /\ ongoing_set' = ongoing_set \cup RangeOf(front)
      /\ prompts_pending' = (pending_queue' # <<>>)
      /\ pull_task' = [pull_task EXCEPT ![w] = 0]
      /\ blocked' = blocked \ {w}
      /\ UNCHANGED <<trainerVars, done_queue, batch_ready, pushes, inflight_traj,
                     slot_event, running, serverVars, resume_event>>
    BY DEF PullPrompts
<1>2. /\ pending_queue \in Seq(Prompts) /\ Distinct(pending_queue)
      /\ pull_task \in [Workers -> 0 .. MaxInflightTraj]
      /\ pulled \in [Workers -> Seq(Prompts)]
      /\ inflight_traj \in [Workers -> 0 .. MaxInflightTraj]
      /\ pulled[w] = <<>> /\ MaxInflightTraj \in Nat
    BY <1>1, Sizes DEF IInv, TypeOK, Queues, Held
<1>3. n \in 0 .. Len(pending_queue) /\ n <= pull_task[w] /\ pull_task[w] \in Nat
    BY <1>2 DEF Least
<1> HIDE DEF n
<1>4. /\ front \in Seq(Prompts) /\ rest \in Seq(Prompts) /\ Len(front) = n
      /\ RangeOf(front) \cup RangeOf(rest) = RangeOf(pending_queue)
      /\ RangeOf(front) \cap RangeOf(rest) = {}
      /\ Distinct(front) /\ Distinct(rest)
    BY <1>2, <1>3, RangeOfSplit
<1> HIDE DEF front, rest
<1>5. RangeOf(front) \subseteq Prompts
    BY <1>4, RangeOfDistinct
<1>6. TypeOK'
    <2>1. /\ pulled' \in [Workers -> Seq(Prompts)]
          /\ pull_task' \in [Workers -> 0 .. MaxInflightTraj]
          /\ pending_queue' \in Seq(Prompts) /\ ongoing_set' \subseteq Prompts
          /\ prompts_pending' \in BOOLEAN /\ blocked' \subseteq Workers
        <3>1. pulled' \in [Workers -> Seq(Prompts)]
            BY <1>1, <1>2, <1>4
        <3>2. pull_task' \in [Workers -> 0 .. MaxInflightTraj]
            BY <1>1, <1>2
        <3>3. pending_queue' \in Seq(Prompts) /\ ongoing_set' \subseteq Prompts
            BY <1>1, <1>4, <1>5 DEF IInv, TypeOK
        <3>4. prompts_pending' \in BOOLEAN
            BY <1>1
        <3>5. blocked' \subseteq Workers
            BY <1>1 DEF IInv, TypeOK
        <3> QED
            BY <3>1, <3>2, <3>3, <3>4, <3>5
    <2> QED
        BY <2>1, <1>1 DEF IInv, TypeOK, trainerVars, runVars, serverVars
<1>7. Queues'
    <2>1. /\ RangeOf(pending_queue') = RangeOf(rest)
          /\ ongoing_set' = ongoing_set \cup RangeOf(front)
          /\ UNCHANGED <<done_queue, trained, drawn, restarts>>
        BY <1>1 DEF trainerVars, runVars
    <2>2. Owned' = Owned
        BY <2>1, <1>4 DEF Owned
    <2> QED
        BY <2>1, <2>2, <1>1, <1>4 DEF IInv, Queues
<1>8. Held'
    <2>1. RangeOf(<<>>) = {}
        BY DEF RangeOf
    <2>2. /\ \A u \in Workers : u # w => pulled'[u] = pulled[u] /\ pull_task'[u] = pull_task[u]
          /\ pulled'[w] = front /\ pull_task'[w] = 0
          /\ UNCHANGED <<running, pushes>>
        BY <1>1, <1>2
    <2>3. /\ \A u \in Workers : u # w => With(u)' = With(u)
          /\ With(w)' = RangeOf(front) \cup With(w) /\ running[w] = With(w)
        BY <2>1, <2>2, <1>2 DEF With
    <2>4. RangeOf(front) \cap ongoing_set = {}
        BY <1>4 DEF IInv, Queues
    <2>5. /\ \A u \in Workers : With(u) \subseteq ongoing_set
          /\ \A u, v \in Workers : u # v => With(u) \cap With(v) = {}
          /\ \A u \in Workers : /\ Distinct(pulled[u]) /\ RangeOf(pulled[u]) \cap running[u] = {}
                                /\ pull_task[u] > 0 => pulled[u] = <<>>
        BY DEF IInv, Held
    <2>6. \A u \in Workers : /\ Distinct(pulled'[u])
                             /\ RangeOf(pulled'[u]) \cap running'[u] = {}
                             /\ With(u)' \subseteq ongoing_set'
                             /\ pull_task'[u] > 0 => pulled'[u] = <<>>
        <3> SUFFICES ASSUME NEW u \in Workers
                     PROVE  /\ Distinct(pulled'[u])
                            /\ RangeOf(pulled'[u]) \cap running'[u] = {}
                            /\ With(u)' \subseteq ongoing_set'
                            /\ pull_task'[u] > 0 => pulled'[u] = <<>>
            OBVIOUS
        <3>1. CASE u = w
            BY <3>1, <2>2, <2>3, <2>4, <2>5, <1>1, <1>4
        <3>2. CASE u # w
            BY <3>2, <2>2, <2>3, <2>5, <1>1
        <3> QED
            BY <3>1, <3>2
    <2>7. \A u, v \in Workers : u # v => With(u)' \cap With(v)' = {}
        <3> SUFFICES ASSUME NEW u \in Workers, NEW v \in Workers, u # v
                     PROVE  With(u)' \cap With(v)' = {}
            OBVIOUS
        <3>1. CASE u = w
            BY <3>1, <2>3, <2>4, <2>5
        <3>2. CASE v = w
            BY <3>2, <2>3, <2>4, <2>5
        <3> QED
            BY <3>1, <3>2, <2>3, <2>5
    <2>8. \A m \in pushes' :
            /\ m \subseteq ongoing_set'
            /\ \A u \in Workers : m \cap With(u)' = {}
            /\ \A k \in pushes' : m # k => m \cap k = {}
        <3> SUFFICES ASSUME NEW m \in pushes
                     PROVE  /\ m \subseteq ongoing_set'
                            /\ \A u \in Workers : m \cap With(u)' = {}
                            /\ \A k \in pushes : m # k => m \cap k = {}
            BY <2>2
        <3>1. /\ m \subseteq ongoing_set /\ \A u \in Workers : m \cap With(u) = {}
              /\ \A k \in pushes : m # k => m \cap k = {}
            BY DEF IInv, Held
        <3>2. ASSUME NEW u \in Workers PROVE m \cap With(u)' = {}
            <4>1. CASE u = w
                BY <4>1, <3>1, <2>3, <2>4
            <4> QED
                BY <4>1, <3>1, <2>3
        <3> QED
            BY <3>1, <3>2, <1>1
    <2>9. \A p \in ongoing_set' : \/ \E u \in Workers : p \in With(u)'
                                  \/ \E m \in pushes' : p \in m
        <3> SUFFICES ASSUME NEW p \in ongoing_set'
                     PROVE  \/ \E u \in Workers : p \in With(u)'
                            \/ \E m \in pushes' : p \in m
            OBVIOUS
        <3>1. CASE p \in RangeOf(front)
            BY <3>1, <2>3
        <3>2. CASE p \in ongoing_set
            <4>1. (\E u \in Workers : p \in With(u)) \/ (\E m \in pushes : p \in m)
                BY <3>2 DEF IInv, Held
            <4>2. \A u \in Workers : With(u) \subseteq With(u)'
                BY <2>3
            <4> QED
                BY <4>1, <4>2, <2>2
        <3> QED
            BY <3>1, <3>2, <1>1
    <2> QED
        BY <2>6, <2>7, <2>8, <2>9 DEF Held
<1>9. Trajectories' /\ Gate' /\ Steps'
    BY <1>1, Untouched DEF IInv, trajectoryVars, gateVars, stepVars, trainerVars, runVars,
       serverVars
<1>10. EventsAgree'
    BY <1>1 DEF IInv, EventsAgree
<1>11. BudgetKept'
    <2> SUFFICES ASSUME NEW u \in Workers
                 PROVE  inflight_traj'[u] + N * (Len(pulled'[u]) + pull_task'[u]) <= MaxInflightTraj
        BY DEF BudgetKept
    <2>1. inflight_traj[u] + N * (Len(pulled[u]) + pull_task[u]) <= MaxInflightTraj
        BY DEF IInv, BudgetKept
    <2>2. CASE u = w
        <3>1. N * (n + 0) <= N * (0 + pull_task[w])
            BY <1>3
        <3>2. /\ inflight_traj'[u] = inflight_traj[w] /\ Len(pulled'[u]) = n
              /\ pull_task'[u] = 0 /\ Len(pulled[w]) = 0
            BY <2>2, <1>1, <1>2, <1>4
        <3>3. inflight_traj[w] \in Int /\ N * (n + 0) \in Int /\ N * (0 + pull_task[w]) \in Int
            BY <1>2, <1>3
        <3> QED
            BY <2>1, <2>2, <3>1, <3>2, <3>3, <1>2
    <2>3. CASE u # w
        BY <2>1, <2>3, <1>1, <1>2
    <2> QED
        BY <2>2, <2>3
<1> QED
    BY <1>6, <1>7, <1>8, <1>9, <1>10, <1>11 DEF IInv

(* The trajectories a worker has to end are finitely many.                 *)
LEMMA OutstandingFinite ==
    ASSUME TypeOK, NEW w \in Workers
    PROVE  IsFiniteSet(Outstanding(w)) /\ Cardinality(Outstanding(w)) \in Nat
<1>1. IsFiniteSet(1 .. N) /\ IsFiniteSet(Prompts)
    BY Sizes, FS_Interval
<1>2. running[w] \subseteq Prompts
    BY DEF TypeOK
<1>3. IsFiniteSet(running[w])
    BY <1>1, <1>2, FS_Subset
<1>4. IsFiniteSet(running[w] \X (1 .. N))
    BY <1>1, <1>3, FS_Product
<1>5. Outstanding(w) \subseteq running[w] \X (1 .. N)
    BY DEF Outstanding
<1>6. IsFiniteSet(Outstanding(w))
    BY <1>4, <1>5, FS_Subset
<1> QED
    BY <1>6, FS_CardinalityType

(* The prompts that have arrived become tasks, all of whose trajectories   *)
(* are still to end; the tasks that have ended go into a push.             *)
LEMMA RunContinuousKeeps ==
    ASSUME IInv, NEW w \in Workers, NEW done \in SUBSET Finished(w), RunContinuous(w, done)
    PROVE  IInv'
<1> DEFINE arrived == RangeOf(pulled[w])
           traj == inflight_traj[w] + N * Len(pulled[w])
<1>1. /\ slot_event' = [slot_event EXCEPT ![w] = FALSE]
      /\ inflight_traj' = [inflight_traj EXCEPT ![w] = traj]
      /\ running' = [running EXCEPT ![w] = (@ \cup arrived) \ done]
      /\ waiting' = [p \in Prompts |-> IF p \in arrived THEN N ELSE waiting[p]]
      /\ pulled' = [pulled EXCEPT ![w] = <<>>]
      /\ pushes' = IF done = {} THEN pushes ELSE pushes \cup {done}
      /\ pull_task' = [pull_task EXCEPT ![w] = IF pull_task[w] = 0 THEN Slots(traj) ELSE @]
      /\ UNCHANGED <<trainerVars, managerVars, blocked, generating, resume_event>>
    BY DEF RunContinuous
<1>2. /\ pulled \in [Workers -> Seq(Prompts)] /\ running \in [Workers -> SUBSET Prompts]
      /\ inflight_traj \in [Workers -> 0 .. MaxInflightTraj]
      /\ pull_task \in [Workers -> 0 .. MaxInflightTraj]
      /\ slot_event \in [Workers -> BOOLEAN] /\ pushes \subseteq SUBSET Prompts
      /\ waiting \in [Prompts -> 0 .. N] /\ generating \in [Prompts -> 0 .. N]
    BY DEF IInv, TypeOK
<1>3. /\ arrived \subseteq Prompts /\ IsFiniteSet(arrived)
      /\ Cardinality(arrived) = Len(pulled[w]) /\ Len(pulled[w]) \in Nat
    <2>1. pulled[w] \in Seq(Prompts) /\ Distinct(pulled[w])
        BY <1>2 DEF IInv, Held
    <2> QED
        BY <2>1, RangeOfDistinct
<1>4. /\ done \subseteq running[w] /\ arrived \cap running[w] = {}
      /\ \A p \in done : p \in Prompts /\ waiting[p] = 0 /\ generating[p] = 0
    BY <1>2 DEF Finished, IInv, Held
<1>5. /\ traj \in 0 .. MaxInflightTraj
      /\ pull_task[w] # 0 => traj = inflight_traj[w] /\ pulled[w] = <<>>
    <2>1. inflight_traj[w] + N * (Len(pulled[w]) + pull_task[w]) <= MaxInflightTraj
        BY DEF IInv, BudgetKept
    <2>2. /\ inflight_traj[w] \in Nat /\ pull_task[w] \in Nat /\ MaxInflightTraj \in Nat
        BY <1>2, Sizes
    <2>3. /\ N * (Len(pulled[w]) + pull_task[w]) = N * Len(pulled[w]) + N * pull_task[w]
          /\ N * pull_task[w] \in Nat /\ N * Len(pulled[w]) \in Nat
        BY <2>2, <1>3
    <2>4. traj \in 0 .. MaxInflightTraj
        <3>1. inflight_traj[w] + (N * Len(pulled[w]) + N * pull_task[w]) <= MaxInflightTraj
            BY <2>1, <2>3
        <3>2. \A a, b, c, m \in Nat : a + (b + c) <= m => a + b \in 0 .. m
            OBVIOUS
        <3> QED
            BY ONLY <3>1, <3>2, <2>2, <2>3
    <2>5. ASSUME pull_task[w] # 0 PROVE traj = inflight_traj[w] /\ pulled[w] = <<>>
        <3>1. pulled[w] = <<>>
            BY <2>2, <2>5 DEF IInv, Held
        <3>2. N * 0 = 0 /\ Len(<<>>) = 0
            OBVIOUS
        <3> QED
            BY <3>1, <3>2, <2>2
    <2> QED
        BY <2>4, <2>5
<1> HIDE DEF traj
<1>6. Slots(traj) \in 0 .. MaxInflightTraj /\ traj + N * Slots(traj) <= MaxInflightTraj
    BY <1>5, SlotsFit
<1>7. /\ inflight_traj'[w] = traj /\ running'[w] = (running[w] \cup arrived) \ done
      /\ pulled'[w] = <<>>
      /\ pull_task'[w] = IF pull_task[w] = 0 THEN Slots(traj) ELSE pull_task[w]
      /\ \A u \in Workers : u # w =>
            /\ inflight_traj'[u] = inflight_traj[u] /\ running'[u] = running[u]
            /\ pulled'[u] = pulled[u] /\ pull_task'[u] = pull_task[u]
    BY <1>1, <1>2
<1>8. TypeOK'
    <2>1. <<>> \in Seq(Prompts)
        OBVIOUS
    <2>2. pulled' \in [Workers -> Seq(Prompts)]
        BY <1>1, <1>2, <2>1
    <2>3. inflight_traj' \in [Workers -> 0 .. MaxInflightTraj]
        BY <1>1, <1>2, <1>5
    <2>4. pull_task' \in [Workers -> 0 .. MaxInflightTraj]
        BY <1>1, <1>2, <1>6
    <2>5. running' \in [Workers -> SUBSET Prompts]
        BY <1>1, <1>2, <1>3
    <2>6. waiting' \in [Prompts -> 0 .. N]
        BY <1>1, <1>2
    <2>7. slot_event' \in [Workers -> BOOLEAN]
        BY <1>1, <1>2
    <2>8. pushes' \subseteq SUBSET Prompts
        BY <1>1, <1>2, <1>4
    <2> QED
        BY <1>1, <2>2, <2>3, <2>4, <2>5, <2>6, <2>7, <2>8
        DEF IInv, TypeOK, trainerVars, runVars, managerVars
<1>9. Queues' /\ EventsAgree' /\ Gate' /\ Steps'
    BY <1>1, Untouched DEF IInv, queueVars, eventVars, gateVars, stepVars, trainerVars, runVars,
       managerVars
<1>10. Held'
    <2>1. RangeOf(<<>>) = {} /\ Distinct(<<>>)
        BY DEF RangeOf, Distinct
    <2>2. /\ \A u \in Workers : u # w => With(u)' = With(u)
          /\ With(w)' = With(w) \ done /\ done \subseteq With(w)
        BY <1>4, <1>7, <2>1 DEF With
    <2>3. /\ \A u \in Workers : With(u) \subseteq ongoing_set
          /\ \A u, v \in Workers : u # v => With(u) \cap With(v) = {}
          /\ \A u \in Workers : /\ Distinct(pulled[u]) /\ RangeOf(pulled[u]) \cap running[u] = {}
                                /\ pull_task[u] > 0 => pulled[u] = <<>>
        BY DEF IInv, Held
    <2>4. ongoing_set' = ongoing_set
        BY <1>1 DEF managerVars
    <2>5. \A u \in Workers : With(u)' \subseteq With(u)
        BY <2>2
    <2>6. \A u \in Workers : /\ Distinct(pulled'[u])
                             /\ RangeOf(pulled'[u]) \cap running'[u] = {}
                             /\ With(u)' \subseteq ongoing_set'
                             /\ pull_task'[u] > 0 => pulled'[u] = <<>>
        <3> SUFFICES ASSUME NEW u \in Workers
                     PROVE  /\ Distinct(pulled'[u])
                            /\ RangeOf(pulled'[u]) \cap running'[u] = {}
                            /\ With(u)' \subseteq ongoing_set'
                            /\ pull_task'[u] > 0 => pulled'[u] = <<>>
            OBVIOUS
        <3>1. CASE u = w
            BY <3>1, <1>7, <2>1, <2>3, <2>4, <2>5
        <3>2. CASE u # w
            BY <3>2, <1>7, <2>3, <2>4, <2>5
        <3> QED
            BY <3>1, <3>2
    <2>7. \A u, v \in Workers : u # v => With(u)' \cap With(v)' = {}
        BY <2>3, <2>5
    <2>8. \A m \in pushes : /\ m \subseteq ongoing_set /\ \A u \in Workers : m \cap With(u) = {}
                            /\ \A k \in pushes : m # k => m \cap k = {}
        BY DEF IInv, Held
    <2>9. \A m \in pushes' : /\ m \subseteq ongoing_set'
                             /\ \A u \in Workers : m \cap With(u)' = {}
                             /\ \A k \in pushes' : m # k => m \cap k = {}
        <3>1. pushes' \subseteq pushes \cup {done}
            BY <1>1
        <3>2. /\ done \subseteq ongoing_set
              /\ \A u \in Workers : done \cap With(u)' = {}
              /\ \A k \in pushes : done \cap k = {}
            BY <2>2, <2>3, <2>8
        <3> SUFFICES ASSUME NEW m \in pushes \cup {done}
                     PROVE  /\ m \subseteq ongoing_set
                            /\ \A u \in Workers : m \cap With(u)' = {}
                            /\ \A k \in pushes \cup {done} : m # k => m \cap k = {}
            BY <3>1, <2>4
        <3>3. CASE m = done
            BY <3>2, <3>3
        <3>4. CASE m \in pushes
            BY <3>2, <3>4, <2>5, <2>8
        <3> QED
            BY <3>3, <3>4
    <2>10. \A p \in ongoing_set' : \/ \E u \in Workers : p \in With(u)'
                                   \/ \E m \in pushes' : p \in m
        <3> SUFFICES ASSUME NEW p \in ongoing_set
                     PROVE  \/ \E u \in Workers : p \in With(u)'
                            \/ \E m \in pushes' : p \in m
            BY <2>4
        <3>1. pushes \subseteq pushes'
            BY <1>1
        <3>2. CASE p \in done
            <4>1. done \in pushes'
                BY <3>2, <1>1
            <4> QED
                BY <3>2, <4>1
        <3>3. CASE p \notin done
            <4>1. (\E u \in Workers : p \in With(u)) \/ (\E m \in pushes : p \in m)
                BY DEF IInv, Held
            <4>2. ASSUME NEW u \in Workers, p \in With(u) PROVE p \in With(u)'
                BY <4>2, <3>3, <2>2
            <4> QED
                BY <4>1, <4>2, <3>1
        <3> QED
            BY <3>2, <3>3
    <2> QED
        BY <2>6, <2>7, <2>9, <2>10 DEF Held
<1>11. Trajectories'
    <2>1. \A p \in Prompts : waiting'[p] = (IF p \in arrived THEN N ELSE waiting[p])
                             /\ generating'[p] = generating[p]
        BY <1>1
    <2>2. \A p \in arrived : \A u \in Workers : p \notin running[u]
        BY <1>4 DEF IInv, Held, With
    <2>3. \A p \in arrived : generating[p] = 0
        BY <1>3, <2>2 DEF IInv, Trajectories
    <2>4. \A p \in Prompts : waiting'[p] + generating'[p] <= N
        <3> SUFFICES ASSUME NEW p \in Prompts PROVE waiting'[p] + generating'[p] <= N
            OBVIOUS
        <3>1. CASE p \in arrived
            BY <3>1, <2>1, <2>3
        <3>2. CASE p \notin arrived
            BY <3>2, <2>1 DEF IInv, Trajectories
        <3> QED
            BY <3>1, <3>2
    <2>5. ASSUME NEW p \in Prompts, \A u \in Workers : p \notin running'[u]
          PROVE  waiting'[p] = 0 /\ generating'[p] = 0
        <3>1. p \notin arrived
            BY <2>5, <1>4, <1>7
        <3>2. CASE p \in done
            BY <3>1, <3>2, <2>1, <1>4
        <3>3. CASE p \notin done
            <4>1. \A u \in Workers : p \notin running[u]
                BY <3>3, <2>5, <1>7
            <4> QED
                BY <4>1, <3>1, <2>1 DEF IInv, Trajectories
        <3> QED
            BY <3>2, <3>3
    <2>6. ASSUME NEW u \in Workers PROVE inflight_traj'[u] = Cardinality(Outstanding(u)')
        <3>1. CASE u # w
            <4>1. running'[u] = running[u] /\ running[u] \subseteq Prompts
                BY <3>1, <1>2, <1>7
            <4>2. \A p \in running[u] : waiting'[p] = waiting[p] /\ generating'[p] = generating[p]
                BY <4>1, <2>1, <2>2
            <4>3. Outstanding(u)' = Outstanding(u)
                BY <4>1, <4>2 DEF Outstanding
            <4> QED
                BY <4>3, <3>1, <1>7 DEF IInv, Trajectories
        <3>2. CASE u = w
            <4>1. Outstanding(w)' = Outstanding(w) \cup (arrived \X (1 .. N))
                <5>1. \A t \in arrived \X (1 .. N) : waiting'[t[1]] = N /\ generating'[t[1]] = 0
                    BY <1>3, <2>1, <2>3
                <5>2. \A t \in running[w] \X (1 .. N) :
                        waiting'[t[1]] = waiting[t[1]] /\ generating'[t[1]] = generating[t[1]]
                    BY <1>2, <1>4, <2>1
                <5>3. \A t \in done \X (1 .. N) : ~(t[2] <= waiting[t[1]] + generating[t[1]])
                    BY <1>4
                <5>4. Outstanding(w)' = {t \in ((running[w] \cup arrived) \ done) \X (1 .. N) :
                                            t[2] <= waiting'[t[1]] + generating'[t[1]]}
                    BY <1>7 DEF Outstanding
                <5>5. Outstanding(w)' \subseteq Outstanding(w) \cup (arrived \X (1 .. N))
                    BY <5>2, <5>4 DEF Outstanding
                <5>6. Outstanding(w) \subseteq Outstanding(w)'
                    BY <5>2, <5>3, <5>4 DEF Outstanding
                <5>7. arrived \X (1 .. N) \subseteq Outstanding(w)'
                    BY <5>1, <5>4, <1>4
                <5> QED
                    BY <5>5, <5>6, <5>7
            <4>2. Outstanding(w) \cap (arrived \X (1 .. N)) = {}
                BY <1>4 DEF Outstanding
            <4>3. /\ IsFiniteSet(1 .. N) /\ Cardinality(1 .. N) = N
                <5>1. /\ IsFiniteSet(1 .. N)
                      /\ Cardinality(1 .. N) = IF 1 > N THEN 0 ELSE N - 1 + 1
                    BY FS_Interval
                <5> QED
                    BY <5>1
            <4>4. /\ IsFiniteSet(arrived \X (1 .. N))
                  /\ Cardinality(arrived \X (1 .. N)) = Len(pulled[w]) * N
                BY <1>3, <4>3, FS_Product, ZenonT(60)
            <4>5. /\ IsFiniteSet(Outstanding(w)) /\ Cardinality(Outstanding(w)) \in Nat
                  /\ inflight_traj[w] = Cardinality(Outstanding(w))
                BY OutstandingFinite DEF IInv, Trajectories
            <4>6. /\ Cardinality(Outstanding(w) \cup (arrived \X (1 .. N)))
                        = Cardinality(Outstanding(w)) + Cardinality(arrived \X (1 .. N))
                          - Cardinality(Outstanding(w) \cap (arrived \X (1 .. N)))
                BY <4>4, <4>5, FS_Union
            <4>7. Cardinality({}) = 0
                BY FS_EmptySet
            <4>8. Cardinality(Outstanding(w)') = inflight_traj[w] + Len(pulled[w]) * N - 0
                BY <4>1, <4>2, <4>4, <4>5, <4>6, <4>7
            <4>9. traj = inflight_traj[w] + N * Len(pulled[w])
                BY DEF traj
            <4>10. N * Len(pulled[w]) = Len(pulled[w]) * N /\ N * Len(pulled[w]) \in Nat
                BY <1>3
            <4> QED
                BY <3>2, <4>5, <4>8, <4>9, <4>10, <1>7
        <3> QED
            BY <3>1, <3>2
    <2> QED
        BY <2>4, <2>5, <2>6 DEF Trajectories
<1>12. BudgetKept'
    <2> SUFFICES ASSUME NEW u \in Workers
                 PROVE  inflight_traj'[u] + N * (Len(pulled'[u]) + pull_task'[u]) <= MaxInflightTraj
        BY DEF BudgetKept
    <2>1. inflight_traj[u] + N * (Len(pulled[u]) + pull_task[u]) <= MaxInflightTraj
        BY DEF IInv, BudgetKept
    <2>2. CASE u # w
        BY <2>1, <2>2, <1>7
    <2>3. CASE u = w /\ pull_task[w] # 0
        BY <2>1, <2>3, <1>5, <1>7
    <2>4. CASE u = w /\ pull_task[w] = 0
        <3>1. inflight_traj'[u] = traj /\ Len(pulled'[u]) = 0 /\ pull_task'[u] = Slots(traj)
            BY <2>4, <1>7
        <3>2. 0 + Slots(traj) = Slots(traj)
            BY <1>6
        <3> QED
            BY <3>1, <3>2, <1>6
    <2> QED
        BY <2>2, <2>3, <2>4
<1> QED
    BY <1>8, <1>9, <1>10, <1>11, <1>12 DEF IInv

(* A push comes back in some order, and each of its prompts once.          *)
LEMMA PushPromptsKeeps ==
    ASSUME IInv, NEW prompts \in pushes, PushPrompts(prompts)
    PROVE  IInv'
<1>1. PICK order \in [1 .. Cardinality(prompts) -> prompts] :
        RangeOf(order) = prompts /\ done_queue' = done_queue \o order
    BY DEF PushPrompts
<1>2. /\ ongoing_set' = ongoing_set \ prompts
      /\ batch_ready' = (batch_ready \/ Len(done_queue') >= BatchSize)
      /\ pushes' = pushes \ {prompts}
      /\ UNCHANGED <<trainerVars, pending_queue, prompts_pending, pull_task, blocked, pulled,
                     inflight_traj, slot_event, running, serverVars, resume_event>>
    BY DEF PushPrompts
<1>3. /\ prompts \subseteq Prompts /\ prompts \subseteq ongoing_set
      /\ done_queue \in Seq(Prompts) /\ Distinct(done_queue)
      /\ RangeOf(done_queue) \cap prompts = {}
      /\ \A w \in Workers : prompts \cap With(w) = {}
      /\ \A k \in pushes : k # prompts => k \cap prompts = {}
    BY DEF IInv, TypeOK, Queues, Held
<1>4. Cardinality(prompts) \in Nat
    BY <1>3, Sizes, FS_Subset, FS_CardinalityType
<1>5. order \in Seq(Prompts) /\ Len(order) = Cardinality(prompts)
    BY <1>3, <1>4
<1>6. Distinct(order)
    BY <1>1, <1>5, RangeOfDistinct
<1>7. /\ done_queue \o order \in Seq(Prompts)
      /\ RangeOf(done_queue \o order) = RangeOf(done_queue) \cup RangeOf(order)
      /\ Distinct(done_queue \o order)
      /\ Len(done_queue \o order) = Len(done_queue) + Len(order)
    <2>1. RangeOf(done_queue) \cap RangeOf(order) = {}
        BY <1>1, <1>3
    <2> QED
        BY ONLY <2>1, <1>3, <1>5, <1>6, RangeOfConcat
<1>8. /\ done_queue' \in Seq(Prompts) /\ Distinct(done_queue')
      /\ RangeOf(done_queue') = RangeOf(done_queue) \cup prompts
      /\ Len(done_queue') >= Len(done_queue) /\ Len(done_queue) \in Nat
    <2>1. Len(done_queue) \in Nat
        BY <1>3
    <2>2. Len(done_queue \o order) >= Len(done_queue)
        BY <2>1, <1>4, <1>5, <1>7
    <2> QED
        BY ONLY <2>1, <2>2, <1>1, <1>7
<1>9. TypeOK'
    <2>1. batch_ready' \in BOOLEAN
        BY <1>2
    <2>2. ongoing_set' \subseteq Prompts /\ pushes' \subseteq SUBSET Prompts
        BY <1>2 DEF IInv, TypeOK
    <2>3. done_queue' \in Seq(Prompts)
        BY <1>8
    <2> QED
        BY <2>1, <2>2, <2>3, <1>2 DEF IInv, TypeOK, trainerVars, runVars, serverVars
<1>10. Queues'
    <2>1. Owned' = Owned
        BY <1>2, <1>3, <1>8 DEF Owned, trainerVars
    <2>2. UNCHANGED <<pending_queue, trained, drawn, restarts>>
        BY <1>2 DEF trainerVars, runVars
    <2>3. \A p \in RangeOf(done_queue') : p \in RangeOf(done_queue) \/ p \in ongoing_set
        BY <1>3, <1>8
    <2> QED
        BY <2>1, <2>2, <2>3, <1>2, <1>8 DEF IInv, Queues
<1>11. Held'
    <2>1. UNCHANGED <<pulled, running, pull_task>> /\ \A w \in Workers : With(w)' = With(w)
        BY <1>2 DEF With
    <2>2. \A p \in ongoing_set' : \/ \E w \in Workers : p \in With(w)
                                  \/ \E m \in pushes' : p \in m
        <3> SUFFICES ASSUME NEW p \in ongoing_set'
                     PROVE  (\E w \in Workers : p \in With(w)) \/ (\E m \in pushes' : p \in m)
            OBVIOUS
        <3>1. p \in ongoing_set /\ p \notin prompts
            BY <1>2
        <3>2. (\E w \in Workers : p \in With(w)) \/ (\E m \in pushes : p \in m)
            BY <3>1 DEF IInv, Held
        <3> QED
            BY <3>1, <3>2, <1>2
    <2>3. \A m \in pushes' : /\ m \subseteq ongoing_set' /\ m \in pushes
        BY <1>2, <1>3 DEF IInv, Held
    <2>4. \A w \in Workers : With(w) \subseteq ongoing_set'
        BY <1>2, <1>3 DEF IInv, Held
    <2> QED
        BY <2>1, <2>2, <2>3, <2>4 DEF IInv, Held
<1>12. Trajectories' /\ BudgetKept' /\ Gate' /\ Steps'
    BY <1>2, Untouched DEF IInv, trajectoryVars, budgetVars, gateVars, stepVars, trainerVars,
       runVars, serverVars
<1>13. EventsAgree'
    <2>1. Len(done_queue) >= BatchSize => Len(done_queue') >= BatchSize
        <3>1. Len(done_queue') \in Nat
            BY <1>8
        <3> QED
            BY <3>1, <1>8
    <2> QED
        BY <2>1, <1>2 DEF IInv, EventsAgree
<1> QED
    BY <1>9, <1>10, <1>11, <1>12, <1>13 DEF IInv

(* One trajectory less is under way, and one less is counted.              *)
LEMMA TrajectoryDoneKeeps ==
    ASSUME IInv, NEW w \in Workers, NEW p \in running[w], TrajectoryDone(w, p)
    PROVE  IInv'
<1>1. /\ generating[p] > 0
      /\ generating' = [generating EXCEPT ![p] = @ - 1]
      /\ inflight_traj' = [inflight_traj EXCEPT ![w] = @ - 1]
      /\ slot_event' = [slot_event EXCEPT ![w] = TRUE]
      /\ UNCHANGED <<trainerVars, managerVars, pull_task, blocked, pulled, pushes, running,
                     waiting, resume_event>>
    BY DEF TrajectoryDone
<1>2. /\ running \in [Workers -> SUBSET Prompts] /\ p \in Prompts
      /\ inflight_traj \in [Workers -> 0 .. MaxInflightTraj] /\ MaxInflightTraj \in Nat
      /\ slot_event \in [Workers -> BOOLEAN]
      /\ waiting \in [Prompts -> 0 .. N] /\ generating \in [Prompts -> 0 .. N]
      /\ waiting[p] + generating[p] <= N
    BY Sizes DEF IInv, TypeOK, Trajectories
<1>3. /\ generating'[p] = generating[p] - 1
      /\ \A q \in Prompts : q # p => generating'[q] = generating[q]
      /\ inflight_traj'[w] = inflight_traj[w] - 1
      /\ \A u \in Workers : u # w => inflight_traj'[u] = inflight_traj[u]
    BY <1>1, <1>2
<1>4. \A u \in Workers : u # w => p \notin running[u]
    BY DEF IInv, Held, With
<1>5. Outstanding(w)' = Outstanding(w) \ {<<p, waiting[p] + generating[p]>>}
    <2>1. \A t \in running[w] \X (1 .. N) :
            t[2] <= waiting[t[1]] + generating'[t[1]]
            <=> t[2] <= waiting[t[1]] + generating[t[1]]
                /\ t # <<p, waiting[p] + generating[p]>>
        <3> SUFFICES ASSUME NEW q \in running[w], NEW k \in 1 .. N
                     PROVE  k <= waiting[q] + generating'[q]
                            <=> k <= waiting[q] + generating[q]
                                /\ ~(q = p /\ k = waiting[p] + generating[p])
            OBVIOUS
        <3>1. CASE q = p
            BY <3>1, <1>1, <1>2, <1>3
        <3>2. CASE q # p
            BY <3>2, <1>2, <1>3
        <3> QED
            BY <3>1, <3>2
    <2> QED
        BY <2>1, <1>1 DEF Outstanding
<1>6. <<p, waiting[p] + generating[p]>> \in Outstanding(w)
    <2>1. waiting[p] + generating[p] \in 1 .. N
        BY <1>1, <1>2
    <2> QED
        BY <2>1 DEF Outstanding
<1>7. /\ inflight_traj'[w] = Cardinality(Outstanding(w)') /\ inflight_traj[w] >= 1
      /\ Cardinality(Outstanding(w)) \in Nat
    <2>1. IsFiniteSet(Outstanding(w)) /\ Cardinality(Outstanding(w)) \in Nat
        BY OutstandingFinite DEF IInv
    <2>2. Cardinality(Outstanding(w) \ {<<p, waiting[p] + generating[p]>>})
            = Cardinality(Outstanding(w)) - 1
        <3>1. \A t \in Outstanding(w) :
                Cardinality(Outstanding(w) \ {t}) = Cardinality(Outstanding(w)) - 1
            BY <2>1, FS_RemoveElement
        <3> QED
            BY <3>1, <1>6
    <2>3. Cardinality(Outstanding(w)) # 0
        BY <2>1, <1>6, FS_EmptySet
    <2>4. inflight_traj[w] = Cardinality(Outstanding(w))
        BY DEF IInv, Trajectories
    <2> QED
        BY <2>1, <2>2, <2>3, <2>4, <1>3, <1>5
<1>8. TypeOK'
    <2>1. generating' \in [Prompts -> 0 .. N]
        BY <1>1, <1>2
    <2>2. inflight_traj' \in [Workers -> 0 .. MaxInflightTraj]
        <3>1. inflight_traj[w] - 1 \in 0 .. MaxInflightTraj
            BY <1>2, <1>7
        <3> QED
            BY <3>1, <1>1, <1>2
    <2>3. slot_event' \in [Workers -> BOOLEAN]
        BY <1>1, <1>2
    <2> QED
        BY <2>1, <2>2, <2>3, <1>1 DEF IInv, TypeOK, trainerVars, runVars, managerVars
<1>9. Queues' /\ Held' /\ EventsAgree' /\ Steps'
    BY <1>1, Untouched DEF IInv, queueVars, holdVars, eventVars, stepVars, trainerVars, runVars,
       managerVars
<1>10. Trajectories'
    <2>1. \A q \in Prompts : waiting'[q] + generating'[q] <= N
        <3> SUFFICES ASSUME NEW q \in Prompts PROVE waiting'[q] + generating'[q] <= N
            OBVIOUS
        <3>1. waiting[q] + generating[q] <= N
            BY DEF IInv, Trajectories
        <3>2. generating'[q] <= generating[q] /\ waiting'[q] = waiting[q] /\ generating'[q] \in Int
            BY <1>1, <1>2, <1>3
        <3> QED
            BY <3>1, <3>2, <1>2
    <2>2. \A q \in Prompts : (\A u \in Workers : q \notin running'[u]) =>
                             waiting'[q] = 0 /\ generating'[q] = 0
        <3>1. running' = running /\ waiting' = waiting
            BY <1>1
        <3>2. \A q \in Prompts : (\A u \in Workers : q \notin running[u]) => q # p
            OBVIOUS
        <3> QED
            BY <3>1, <3>2, <1>3 DEF IInv, Trajectories
    <2>3. ASSUME NEW u \in Workers PROVE inflight_traj'[u] = Cardinality(Outstanding(u)')
        <3>1. CASE u = w
            BY <3>1, <1>7
        <3>2. CASE u # w
            <4>1. \A q \in running[u] : generating'[q] = generating[q]
                BY <3>2, <1>2, <1>3, <1>4
            <4>2. Outstanding(u)' = Outstanding(u)
                BY <4>1, <1>1 DEF Outstanding
            <4> QED
                BY <3>2, <4>2, <1>3 DEF IInv, Trajectories
        <3> QED
            BY <3>1, <3>2
    <2> QED
        BY <2>1, <2>2, <2>3 DEF Trajectories
<1>11. BudgetKept'
    <2> SUFFICES ASSUME NEW u \in Workers
                 PROVE  inflight_traj'[u] + N * (Len(pulled[u]) + pull_task[u]) <= MaxInflightTraj
        BY <1>1 DEF BudgetKept
    <2>1. inflight_traj[u] + N * (Len(pulled[u]) + pull_task[u]) <= MaxInflightTraj
        BY DEF IInv, BudgetKept
    <2>2. pulled[u] \in Seq(Prompts) /\ pull_task[u] \in Nat
        BY Sizes DEF IInv, TypeOK
    <2>3. N * (Len(pulled[u]) + pull_task[u]) \in Nat
        BY <2>2
    <2>4. inflight_traj'[u] <= inflight_traj[u] /\ inflight_traj'[u] \in Int
        BY <1>2, <1>3
    <2> QED
        BY <2>1, <2>3, <2>4, <1>2
<1>12. Gate'
    <2>1. UNCHANGED <<fit, resume_event>>
        BY <1>1 DEF trainerVars
    <2>2. fit = "train" => generating[p] = 0
        BY <1>2 DEF IInv, Gate
    <2> QED
        BY <2>1, <2>2, <1>1, <1>2 DEF IInv, Gate
<1> QED
    BY <1>8, <1>9, <1>10, <1>11, <1>12 DEF IInv

(* A request enters the engine, or comes back aborted.                     *)
LEMMA RequestsKeep ==
    ASSUME IInv, NEW p \in Prompts, Generate(p) \/ Abort(p)
    PROVE  IInv'
<1>1. UNCHANGED <<trainerVars, managerVars, workerVars, resume_event>>
    BY DEF Generate, Abort
<1>2. /\ waiting \in [Prompts -> 0 .. N] /\ generating \in [Prompts -> 0 .. N]
      /\ \A q \in Prompts : waiting[q] + generating[q] <= N
    BY DEF IInv, TypeOK, Trajectories
<1>3. /\ waiting' \in [Prompts -> 0 .. N] /\ generating' \in [Prompts -> 0 .. N]
      /\ \A q \in Prompts : waiting'[q] + generating'[q] = waiting[q] + generating[q]
      /\ waiting[p] > 0 \/ generating[p] > 0
      /\ \A q \in Prompts : q # p => waiting'[q] = waiting[q] /\ generating'[q] = generating[q]
    <2>1. CASE Generate(p)
        <3>1. /\ waiting[p] > 0 /\ waiting' = [waiting EXCEPT ![p] = @ - 1]
              /\ generating' = [generating EXCEPT ![p] = @ + 1]
            BY <2>1 DEF Generate
        <3>2. waiting[p] - 1 \in 0 .. N /\ generating[p] + 1 \in 0 .. N
            BY <3>1, <1>2
        <3> QED
            BY <3>1, <3>2, <1>2
    <2>2. CASE Abort(p)
        <3>1. /\ generating[p] > 0 /\ generating' = [generating EXCEPT ![p] = @ - 1]
              /\ waiting' = [waiting EXCEPT ![p] = @ + 1]
            BY <2>2 DEF Abort
        <3>2. generating[p] - 1 \in 0 .. N /\ waiting[p] + 1 \in 0 .. N
            BY <3>1, <1>2
        <3> QED
            BY <3>1, <3>2, <1>2
    <2> QED
        BY <2>1, <2>2
<1>4. TypeOK'
    BY <1>1, <1>3 DEF IInv, TypeOK, trainerVars, runVars, managerVars, workerVars
<1>5. Queues' /\ Held' /\ EventsAgree' /\ BudgetKept' /\ Steps'
    BY <1>1, Untouched DEF IInv, queueVars, holdVars, eventVars, budgetVars, stepVars,
       trainerVars, runVars, managerVars, workerVars
<1>6. Trajectories'
    <2>1. running' = running /\ inflight_traj' = inflight_traj
        BY <1>1 DEF workerVars
    <2>2. \A q \in Prompts : (\A u \in Workers : q \notin running[u]) => q # p
        BY <1>3 DEF IInv, Trajectories
    <2>3. \A u \in Workers : Outstanding(u)' = Outstanding(u)
        <3> SUFFICES ASSUME NEW u \in Workers PROVE Outstanding(u)' = Outstanding(u)
            OBVIOUS
        <3>1. running[u] \subseteq Prompts
            BY DEF IInv, TypeOK
        <3> QED
            BY <3>1, <2>1, <1>3 DEF Outstanding
    <2> QED
        BY <2>1, <2>2, <2>3, <1>2, <1>3 DEF IInv, Trajectories
<1>7. Gate'
    <2>1. UNCHANGED <<fit, resume_event>>
        BY <1>1 DEF trainerVars
    <2>2. fit # "train"
        <3>1. CASE Generate(p)
            BY <3>1 DEF Generate, IInv, Gate
        <3>2. CASE Abort(p)
            BY <3>2 DEF Abort
        <3> QED
            BY <3>1, <3>2
    <2> QED
        BY <2>1, <2>2 DEF IInv, Gate
<1> QED
    BY <1>4, <1>5, <1>6, <1>7 DEF IInv

-----------------------------------------------------------------------------
(* The run started again *)

LEMMA RestartKeeps == IInv /\ Restart => IInv'
<1> SUFFICES ASSUME IInv, Restart PROVE IInv'
    OBVIOUS
<1>1. Idle' /\ UNCHANGED saved
    BY DEF Restart, Idle
<1>2. /\ restarts < MaxRestarts /\ restarts' = restarts + 1
      /\ mid_epoch' = (saved.step % BatchesPerEpoch # 0)
      /\ fit' = IF saved.step = TotalSteps THEN "done" ELSE "feed"
      /\ global_steps' = saved.step + 1 /\ drawn' = saved.drawn /\ trained' = saved.trained
    BY DEF Restart
<1>3. /\ saved.step \in 0 .. TotalSteps /\ saved.drawn \in 0 .. TotalSteps
      /\ saved.trained \subseteq Prompts /\ TotalSteps \in Nat
      /\ saved \in [step : 0 .. TotalSteps, drawn : 0 .. TotalSteps, trained : SUBSET Prompts]
    BY Sizes DEF IInv, TypeOK
<1>4. /\ Distinct(pending_queue') /\ Distinct(done_queue')
      /\ RangeOf(pending_queue') = {} /\ RangeOf(done_queue') = {} /\ ongoing_set' = {}
      /\ Held' /\ Trajectories' /\ EventsAgree' /\ BudgetKept'
      /\ pending_queue' \in Seq(Prompts) /\ done_queue' \in Seq(Prompts)
      /\ pulled' \in [Workers -> Seq(Prompts)]
      /\ pull_task' \in [Workers -> 0 .. MaxInflightTraj]
      /\ inflight_traj' \in [Workers -> 0 .. MaxInflightTraj]
      /\ running' \in [Workers -> SUBSET Prompts]
      /\ waiting' \in [Prompts -> 0 .. N] /\ generating' \in [Prompts -> 0 .. N]
    BY <1>1, IdleNext DEF IdleState, Idle
<1>5. TypeOK'
    <2>1. fit' \in {"feed", "done"} /\ mid_epoch' \in BOOLEAN
        BY <1>2
    <2>2. global_steps' \in 1 .. TotalSteps + 1 /\ drawn' \in 0 .. TotalSteps
          /\ trained' \subseteq Prompts
        BY <1>2, <1>3
    <2>3. restarts' \in 0 .. MaxRestarts
        BY <1>2 DEF IInv, TypeOK
    <2>4. /\ batch_ready' \in BOOLEAN /\ prompts_pending' \in BOOLEAN
          /\ blocked' \subseteq Workers /\ pushes' \subseteq SUBSET Prompts
          /\ resume_event' \in BOOLEAN /\ ongoing_set' \subseteq Prompts
          /\ slot_event' \in [Workers -> BOOLEAN]
        BY <1>1 DEF Idle
    <2>5. saved' \in [step : 0 .. TotalSteps, drawn : 0 .. TotalSteps, trained : SUBSET Prompts]
        BY <1>1, <1>3
    <2> QED
        BY <2>1, <2>2, <2>3, <2>4, <2>5, <1>4 DEF TypeOK
<1>6. Queues'
    <2>1. Owned' = saved.trained
        BY <1>2, <1>4 DEF Owned
    <2>2. restarts' # 0
        BY <1>2 DEF IInv, TypeOK
    <2>3. saved.trained \subseteq 1 .. saved.drawn * BatchSize
        BY DEF IInv, Steps
    <2> QED
        BY <2>1, <2>2, <2>3, <1>2, <1>4 DEF Queues
<1>7. Gate'
    BY <1>2 DEF Gate
<1>8. Steps'
    <2>1. /\ Cardinality(saved.trained) = saved.step * BatchSize
          /\ saved.trained \subseteq 1 .. saved.drawn * BatchSize
          /\ saved.drawn <= EndOf(saved.step + 1)
        BY DEF IInv, Steps
    <2>2. Taken' = saved.step
        BY <1>2, <1>3 DEF Taken
    <2>3. fit' # "done" => global_steps' <= TotalSteps
        BY <1>2, <1>3
    <2> QED
        BY <2>1, <2>2, <2>3, <1>1, <1>2 DEF Steps
<1> QED
    BY <1>4, <1>5, <1>6, <1>7, <1>8 DEF IInv

LEMMA StepKeeps == IInv /\ [Next]_vars => IInv'
<1> SUFFICES ASSUME IInv, [Next]_vars PROVE IInv'
    OBVIOUS
<1>1. CASE Trainer
    BY <1>1, PushBatchKeeps, TurnsKeep, PullBatchKeeps, FinishStepKeeps DEF Trainer
<1>2. CASE \E w \in Workers : Worker(w)
    <2> SUFFICES ASSUME NEW w \in Workers, Worker(w) PROVE IInv'
        BY <1>2
    <2> QED
        BY AwaitPromptsKeeps, PullPromptsKeeps, RunContinuousKeeps, TrajectoryDoneKeeps DEF Worker
<1>3. CASE \E prompts \in pushes : PushPrompts(prompts)
    BY <1>3, PushPromptsKeeps
<1>4. CASE \E p \in Prompts : Generate(p) \/ Abort(p)
    BY <1>4, RequestsKeep
<1>5. CASE Restart
    BY <1>5, RestartKeeps
<1>6. CASE UNCHANGED vars
    <2>1. TypeOK'
        BY <1>6 DEF IInv, TypeOK, vars, trainerVars, runVars, managerVars, workerVars, serverVars
    <2>2. /\ Queues' /\ Held' /\ Trajectories' /\ EventsAgree' /\ BudgetKept' /\ Gate' /\ Steps'
        BY <1>6, Untouched DEF IInv, vars, trainerVars, runVars, managerVars, workerVars,
           serverVars, queueVars, holdVars, trajectoryVars, eventVars, budgetVars, gateVars,
           stepVars
    <2> QED
        BY <2>1, <2>2 DEF IInv
<1> QED
    BY <1>1, <1>2, <1>3, <1>4, <1>5, <1>6 DEF Next, Step

LEMMA Invariant == Spec => []IInv
<1> QED
    BY InitHolds, StepKeeps, PTL DEF Spec

-----------------------------------------------------------------------------
(* Every variable keeps its type: no more prompts are drawn than there     *)
(* are, and no worker counts fewer trajectories than none.                 *)
THEOREM TypeCorrect == Spec => []TypeOK
<1>1. IInv => TypeOK
    BY DEF IInv
<1> QED
    BY <1>1, Invariant, PTL

(* The events of the manager say what its queues hold, and no worker goes  *)
(* beyond its budget of trajectories (pull_batch, push_prompts, push_batch, *)
(* pull_prompts, run_continuous).                                          *)
THEOREM CountsAlwaysAgree == Spec => []CountsAgree
<1>1. IInv => CountsAgree
    BY DEF IInv, CountsAgree
<1> QED
    BY <1>1, Invariant, PTL

(* The engines are empty, and stay so, during every update (cancel).       *)
THEOREM QuietUpdates == Spec => []EngineQuiet
<1>1. IInv => EngineQuiet
    BY DEF IInv, Gate, EngineQuiet
<1> QED
    BY <1>1, Invariant, PTL

(* Prompts in disjoint places are counted place by place.                  *)
LEMMA DisjointAdd ==
    ASSUME NEW S, NEW T, IsFiniteSet(S), IsFiniteSet(T), S \cap T = {}
    PROVE  IsFiniteSet(S \cup T) /\ Cardinality(S \cup T) = Cardinality(S) + Cardinality(T)
<1>1. Cardinality(S) \in Nat /\ Cardinality(T) \in Nat
    BY FS_CardinalityType
<1>2. /\ IsFiniteSet(S \cup T)
      /\ Cardinality(S \cup T) = Cardinality(S) + Cardinality(T) - Cardinality(S \cap T)
    BY FS_Union
<1>3. Cardinality(S \cap T) = 0
    BY FS_EmptySet
<1> QED
    BY <1>1, <1>2, <1>3

LEMMA CountsAdd ==
    ASSUME NEW A, NEW B, NEW C, NEW D,
           IsFiniteSet(A), IsFiniteSet(B), IsFiniteSet(C), IsFiniteSet(D),
           A \cap B = {}, A \cap C = {}, B \cap C = {}, D \cap (A \cup B \cup C) = {}
    PROVE  Cardinality(A \cup B \cup C \cup D)
            = Cardinality(A) + Cardinality(B) + Cardinality(C) + Cardinality(D)
<1>1. IsFiniteSet(A \cup B) /\ Cardinality(A \cup B) = Cardinality(A) + Cardinality(B)
    BY DisjointAdd
<1>2. (A \cup B) \cap C = {} /\ (A \cup B \cup C) \cap D = {}
    OBVIOUS
<1>3. /\ IsFiniteSet(A \cup B \cup C)
      /\ Cardinality(A \cup B \cup C) = Cardinality(A) + Cardinality(B) + Cardinality(C)
    BY <1>1, <1>2, DisjointAdd
<1>4. Cardinality(A \cup B \cup C \cup D) = Cardinality(A \cup B \cup C) + Cardinality(D)
    BY <1>2, <1>3, DisjointAdd
<1> QED
    BY <1>3, <1>4

(* An epoch ends with all its prompts trained and none in flight.          *)
THEOREM EpochsAreTrained == Spec => []EpochTrained
<1>1. IInv => EpochTrained
    <2> SUFFICES ASSUME IInv, fit \in {"feed", "done"}, drawn = global_steps - 1
                 PROVE  trained = 1 .. drawn * BatchSize /\ InFlight = 0
        BY DEF EpochTrained
    <2>1. Taken = drawn /\ Taken \in Nat
        BY StepRange DEF Taken
    <2>2. trained = 1 .. drawn * BatchSize
        BY <2>1, TakenWereDrawn DEF IInv
    <2>3. RangeOf(pending_queue) = {} /\ ongoing_set = {} /\ RangeOf(done_queue) = {}
        BY <2>2 DEF IInv, Queues, Owned
    <2>4. pending_queue = <<>> /\ done_queue = <<>>
        BY <2>3, RangeOfDistinct DEF IInv, TypeOK
    <2>5. InFlight = 0
        BY <2>3, <2>4, FS_EmptySet DEF InFlight
    <2> QED
        BY <2>2, <2>5
<1> QED
    BY <1>1, Invariant, PTL

(* A prompt is in one place only, and with one worker while it is ongoing: *)
(* none is handed out twice, lost or trained twice.                        *)
THEOREM OwnedAlwaysOnce == Spec => []OwnedOnce
<1>1. IInv => OwnedOnce
    <2> SUFFICES ASSUME IInv PROVE OwnedOnce
        OBVIOUS
    <2>1. /\ pending_queue \in Seq(Prompts) /\ done_queue \in Seq(Prompts)
          /\ ongoing_set \subseteq Prompts /\ trained \subseteq Prompts
        BY DEF IInv, TypeOK
    <2>2. /\ IsFiniteSet(ongoing_set) /\ IsFiniteSet(trained)
          /\ IsFiniteSet(RangeOf(pending_queue)) /\ IsFiniteSet(RangeOf(done_queue))
        BY <2>1, Sizes, FS_Subset, RangeOfDistinct
    <2>3. /\ Cardinality(RangeOf(pending_queue)) = Len(pending_queue)
          /\ Cardinality(RangeOf(done_queue)) = Len(done_queue)
        BY <2>1, RangeOfDistinct DEF IInv, Queues
    <2>4. Cardinality(Owned) = Cardinality(RangeOf(pending_queue)) + Cardinality(ongoing_set)
                               + Cardinality(RangeOf(done_queue)) + Cardinality(trained)
        BY <2>2, CountsAdd DEF IInv, Queues, Owned
    <2>5. Cardinality(Owned) = InFlight + Cardinality(trained)
        BY <2>3, <2>4 DEF InFlight
    <2>6. restarts = 0 => Owned = 1 .. drawn * BatchSize
        BY DEF IInv, Queues
    <2>7. ASSUME NEW p \in Prompts PROVE Holders(p) = IF p \in ongoing_set THEN 1 ELSE 0
        <3> DEFINE asked == {w \in Workers : p \in RangeOf(pulled[w])}
                   tasks == {w \in Workers : p \in running[w]}
                   back == {m \in pushes : p \in m}
        <3>1. Cardinality({}) = 0 /\ \A x : Cardinality({x}) = 1
            BY FS_EmptySet, FS_Singleton
        <3>2. Holders(p) = Cardinality(asked) + Cardinality(tasks) + Cardinality(back)
            BY DEF Holders
        <3> HIDE DEF asked, tasks, back
        <3>3. /\ \A w \in Workers : With(w) \subseteq ongoing_set
              /\ \A w \in Workers : RangeOf(pulled[w]) \cap running[w] = {}
              /\ \A w, u \in Workers : w # u => With(w) \cap With(u) = {}
              /\ \A m \in pushes : /\ m \subseteq ongoing_set
                                   /\ \A w \in Workers : m \cap With(w) = {}
                                   /\ \A k \in pushes : m # k => m \cap k = {}
              /\ p \in ongoing_set => (\E w \in Workers : p \in With(w)) \/ (\E m \in pushes : p \in m)
            BY DEF IInv, Held
        <3>4. CASE p \notin ongoing_set
            <4>1. asked = {} /\ tasks = {} /\ back = {}
                BY <3>3, <3>4 DEF With, asked, tasks, back
            <4> QED
                BY <3>1, <3>2, <3>4, <4>1
        <3>5. ASSUME NEW w \in Workers, p \in RangeOf(pulled[w])
              PROVE  Holders(p) = 1 /\ p \in ongoing_set
            <4>1. asked = {w} /\ tasks = {} /\ back = {} /\ p \in ongoing_set
                BY <3>3, <3>5 DEF With, asked, tasks, back
            <4> QED
                BY <3>1, <3>2, <4>1
        <3>6. ASSUME NEW w \in Workers, p \in running[w]
              PROVE  Holders(p) = 1 /\ p \in ongoing_set
            <4>1. asked = {} /\ tasks = {w} /\ back = {} /\ p \in ongoing_set
                BY <3>3, <3>6 DEF With, asked, tasks, back
            <4> QED
                BY <3>1, <3>2, <4>1
        <3>7. ASSUME NEW m \in pushes, p \in m
              PROVE  Holders(p) = 1 /\ p \in ongoing_set
            <4>1. asked = {} /\ tasks = {} /\ back = {m} /\ p \in ongoing_set
                BY <3>3, <3>7 DEF With, asked, tasks, back
            <4> QED
                BY <3>1, <3>2, <4>1
        <3>8. CASE p \in ongoing_set
            <4>1. \/ \E w \in Workers : p \in RangeOf(pulled[w])
                  \/ \E w \in Workers : p \in running[w]
                  \/ \E m \in pushes : p \in m
                BY <3>3, <3>8 DEF With
            <4> QED
                BY <4>1, <3>5, <3>6, <3>7
        <3> QED
            BY <3>4, <3>8
    <2> QED
        BY <2>5, <2>6, <2>7 DEF OwnedOnce
<1> QED
    BY <1>1, Invariant, PTL

(* Whatever workers, servers and manager do in between, the run trains     *)
(* whole batches of prompts drawn, each prompt once, and goes on from its  *)
(* checkpoint: it implements PromptBatches.                                *)
THEOREM ImplementsPromptBatches == Spec => TrainsBatches
<1>1. Init => Data!Init
    BY DEF Init, Data!Init
<1>2. IInv /\ [Next]_vars => [Data!Next]_Data!vars
    <2> SUFFICES ASSUME IInv, [Next]_vars PROVE [Data!Next]_Data!vars
        OBVIOUS
    <2>1. ASSUME UNCHANGED <<drawn, trained, saved>> PROVE UNCHANGED Data!vars
        BY <2>1 DEF Data!vars
    <2>2. CASE PushBatch
        <3>1. drawn < TotalSteps /\ drawn' = drawn + 1 /\ UNCHANGED <<trained, saved>>
            BY <2>2, StepRange, Sizes DEF PushBatch, runVars
        <3> QED
            BY <3>1 DEF Data!Next, Data!Draw
    <2>3. CASE PullBatch
        <3>1. UNCHANGED <<drawn, saved>>
            BY <2>3 DEF PullBatch, runVars
        <3>2. \E prompts \in SUBSET (1 .. drawn * BatchSize \ trained) :
                /\ Cardinality(prompts) = BatchSize
                /\ trained' = trained \cup prompts
            BY <2>3, PullBatchKeeps
        <3>3. \A S : Data!Cardinality(S) = Cardinality(S)
            BY DEF Data!Cardinality, Cardinality
        <3>4. Data!Train
            BY <3>1, <3>2, <3>3 DEF Data!Train
        <3> QED
            BY <3>4 DEF Data!Next
    <2>4. CASE FinishStep
        <3>1. UNCHANGED <<drawn, trained>>
            BY <2>4, FinishStepKeeps DEF FinishStep
        <3>2. CASE global_steps \in SaveSteps
            <4>1. saved'.drawn = drawn /\ saved'.trained = trained
                BY <2>4, <3>2 DEF FinishStep
            <4> QED
                BY <3>1, <4>1 DEF Data!Next, Data!Save
        <3>3. CASE global_steps \notin SaveSteps
            BY <2>1, <2>4, <3>1, <3>3 DEF FinishStep
        <3> QED
            BY <3>2, <3>3
    <2>5. CASE LoaderExhausted \/ Resume \/ Cancel \/ Cancelled
        BY <2>1, <2>5 DEF LoaderExhausted, Resume, Cancel, Cancelled, runVars
    <2>6. CASE \E w \in Workers : Worker(w)
        BY <2>1, <2>6 DEF Worker, AwaitPrompts, PullPrompts, RunContinuous, TrajectoryDone,
           trainerVars, runVars
    <2>7. CASE \E prompts \in pushes : PushPrompts(prompts)
        BY <2>1, <2>7 DEF PushPrompts, trainerVars, runVars
    <2>8. CASE \E p \in Prompts : Generate(p) \/ Abort(p)
        BY <2>1, <2>8 DEF Generate, Abort, trainerVars, runVars
    <2>9. CASE Restart
        BY <2>9 DEF Restart, Data!Next, Data!Die
    <2>10. CASE UNCHANGED vars
        BY <2>1, <2>10 DEF vars, trainerVars, runVars
    <2> QED
        BY <2>2, <2>3, <2>4, <2>5, <2>6, <2>7, <2>8, <2>9, <2>10 DEF Next, Step, Trainer
<1> QED
    BY <1>1, <1>2, Invariant, PTL DEF Spec, TrainsBatches, Data!Spec
=============================================================================
