----------------------------- MODULE FlexFetch -----------------------------
(***************************************************************************)
(* The flexfetch checkpoint engine of src/async_flow. The driver has every *)
(* rank of the trainer write a version of the weights into its host cache, *)
(* which keeps the last few versions in buffers used in turn, and submits  *)
(* the update of every rollout replica and of the forward worker to an     *)
(* event loop of their own; it waits for none of them. An update pauses    *)
(* its worker, asks rank after rank where the version is, reads it from    *)
(* there and lets the worker go on.                                        *)
(*                                                                         *)
(* Workers only read the caches and do not meet each other, so that there  *)
(* is one here: a replica or the forward worker, of one process or of      *)
(* several. Only the first of several asks and reads, and sends the others *)
(* what it read: they act as one, until one of them waits for ever for     *)
(* what another does not send. A shard is the part of the weights that one *)
(* rank of the trainer keeps, in one bucket. The drain of requests that    *)
(* ends a pause is time that passes before the process group is built. A   *)
(* version is the training step it was made by.                            *)
(***************************************************************************)
EXTENDS Integers, Sequences

CONSTANTS
    NumShards,    \* ranks of the trainer
    CacheSize,    \* ckpt_max_num
    FirstVersion, \* version sent when the run begins, that of the checkpoint
    LastVersion   \* bound: versions sent

ASSUME FlexFetchAssumption ==
    /\ NumShards \in Nat \ {0} /\ CacheSize \in Nat /\ CacheSize >= 2
    /\ FirstVersion \in Nat /\ LastVersion \in Nat /\ FirstVersion <= LastVersion

Shards == 1 .. NumShards
Slots == 0 .. CacheSize - 1
Versions == FirstVersion .. LastVersion
Initial == FirstVersion - 1    \* the weights a worker is created with
Nobody == -1
Torn == -2                     \* a buffer being written
Contents == Versions \cup {Initial, Torn}

VARIABLES
    next_version,   \* the version to be sent next
    write,          \* how far each rank is with it
    weights_cache,  \* versions in the cache of each rank, oldest first
    buffers,        \* shared_bucket_buffers of each rank: what each slot holds
    raised,         \* send_weights has raised, and the driver with it
    kind, several,  \* what the worker is, and whether it has several processes
    stage,          \* of its update to each version
    shard,          \* that each asks or reads next
    paused,
    weights,        \* in the engine of a replica, in _state_dict of the forward worker
    event_loop,     \* the forward worker's: the update whose call it executes
    loop,           \* where the forward worker's loop is; it has the lock unless "out"
    model,          \* weights of the forward worker's model
    pending_version,
    active_version,
    overlapped,     \* history: two updates were under way at once
    misread         \* history: reads that gave something else than the version

trainer == <<next_version, write, weights_cache, buffers, raised>>
update == <<stage, shard, paused, event_loop>>
forward == <<loop, model, active_version>>
history == <<overlapped, misread>>
worker == <<kind, several>>
vars == <<trainer, worker, update, weights, forward, pending_version, history>>

Init ==
    /\ next_version = FirstVersion /\ write = [s \in Shards |-> "wait"]
    /\ weights_cache = [s \in Shards |-> <<>>] /\ buffers = [s \in Shards |-> <<>>]
    /\ raised = FALSE
    /\ kind \in {"replica", "forward"} /\ several \in BOOLEAN
    /\ stage = [v \in Versions |-> "none"] /\ shard = [v \in Versions |-> 1]
    /\ paused = FALSE
    /\ weights = [s \in Shards |-> Initial]
    /\ event_loop = Nobody
    /\ loop = "out" /\ model = [s \in Shards |-> Initial]
    /\ pending_version = Initial /\ active_version = Initial
    /\ overlapped = FALSE /\ misread = {}

CachedBy(s) == {weights_cache[s][i] : i \in DOMAIN weights_cache[s]}

-----------------------------------------------------------------------------
(* The trainer's ranks and the driver *)

(* Versions share a buffer in turn (get_versioned_sub_buffer).             *)
Slot(v) == v % CacheSize

(* Mutant: makes room when the cache is too full already. *)
EvictLate(cached) == IF Len(cached) > CacheSize THEN Tail(cached) ELSE cached
Evict(cached) == IF Len(cached) >= CacheSize THEN Tail(cached) ELSE cached

(* The buffers are created for version 0.                                  *)
BeginWrite(s) ==
    LET v == next_version
        held == IF v = 0 THEN [i \in Slots |-> Torn] ELSE buffers[s]
    IN  /\ v <= LastVersion /\ ~raised /\ write[s] = "wait"
        /\ weights_cache' = [weights_cache EXCEPT ![s] = Append(Evict(@), v)]
        /\ raised' = (held = <<>>)
        /\ buffers' = [buffers EXCEPT ![s] =
                          IF raised' THEN @ ELSE [held EXCEPT ![Slot(v)] = Torn]]
        /\ write' = [write EXCEPT ![s] = IF raised' THEN "wait" ELSE "copy"]
        /\ UNCHANGED <<next_version, worker, update, weights, forward, pending_version, history>>

EndWrite(s) ==
    /\ write[s] = "copy"
    /\ buffers' = [buffers EXCEPT ![s][Slot(next_version)] = next_version]
    /\ write' = [write EXCEPT ![s] = "written"]
    /\ UNCHANGED <<next_version, weights_cache, raised, worker, update, weights, forward,
                   pending_version, history>>

UnderWay == {v \in Versions : stage[v] \notin {"none", "done", "failed"}}

(* When all ranks have written, the update is submitted.                   *)
Submit ==
    LET v == next_version
    IN  /\ \A s \in Shards : write[s] = "written"
        /\ next_version' = v + 1
        /\ write' = [s \in Shards |-> "wait"]
        /\ stage' = [stage EXCEPT ![v] = "pause"]
        /\ overlapped' = (overlapped \/ UnderWay # {})
        /\ UNCHANGED <<weights_cache, buffers, raised, worker, shard, paused, event_loop,
                       weights, forward, pending_version, misread>>

-----------------------------------------------------------------------------
(* The update of the worker. The calls of pause arrive in order.           *)

(* A process waits for ever: what needs all processes never ends.          *)
Stuck == \E v \in Versions : stage[v] = "stuck"

MayPause(v) == stage[v] = "pause" /\ \A u \in Versions : u < v => stage[u] # "pause"

PauseReplica(v) ==
    /\ kind = "replica" /\ MayPause(v)
    /\ paused' = TRUE
    /\ stage' = [stage EXCEPT ![v] = "build"]
    /\ UNCHANGED <<trainer, worker, shard, event_loop, weights, forward, pending_version,
                   history>>

(* pause() of the forward worker waits on the event loop for the lock.     *)
CallPause(v) ==
    /\ kind = "forward" /\ MayPause(v) /\ event_loop = Nobody /\ ~Stuck
    /\ event_loop' = v
    /\ stage' = [stage EXCEPT ![v] = "lock"]
    /\ UNCHANGED <<trainer, worker, shard, paused, weights, forward, pending_version, history>>

(* Mutant: pauses without the lock. *)
PauseAnyway(v) ==
    /\ stage[v] = "lock"
    /\ paused' = TRUE /\ event_loop' = Nobody
    /\ stage' = [stage EXCEPT ![v] = "build"]
    /\ UNCHANGED <<trainer, worker, shard, weights, forward, pending_version, history>>

PauseForward(v) ==
    /\ stage[v] = "lock" /\ loop = "out"
    /\ paused' = TRUE /\ event_loop' = Nobody
    /\ stage' = [stage EXCEPT ![v] = "build"]
    /\ UNCHANGED <<trainer, worker, shard, weights, forward, pending_version, history>>

(* The other processes take a new socket for what they are sent, also for  *)
(* an update of a replica that they still receive: it may be lost.         *)
BuildProcessGroup(v) ==
    /\ stage[v] = "build" /\ ~Stuck
    /\ kind = "forward" => event_loop = Nobody
    /\ \/ stage' = [stage EXCEPT ![v] = "ask"]
       \/ /\ kind = "replica" /\ several
          /\ \E u \in Versions :
                stage[u] \in {"ask", "read"} /\ stage' = [stage EXCEPT ![u] = "stuck", ![v] = "stuck"]
    /\ UNCHANGED <<trainer, worker, shard, paused, event_loop, weights, forward,
                   pending_version, history>>

(* The address of the version, or KeyError: the update ends, logged, but   *)
(* the other processes go on waiting for the first. The forward worker's   *)
(* update_weights has its event loop from here to the end.                 *)
Ask(v) ==
    LET found == v \in CachedBy(shard[v])
    IN  /\ stage[v] = "ask"
        /\ kind = "forward" => event_loop \in {v, Nobody}
        /\ stage' = [stage EXCEPT ![v] = IF found THEN "read" ELSE IF several THEN "stuck"
                                         ELSE "failed"]
        /\ event_loop' = IF found /\ kind = "forward" THEN v ELSE Nobody
        /\ UNCHANGED <<trainer, worker, shard, paused, weights, forward, pending_version,
                       history>>

(* Mutant: goes on after the last rank. *)
ReadPast(v) ==
    LET s == shard[v]
        content == buffers[s][Slot(v)]
    IN  /\ stage[v] = "read"
        /\ weights' = [weights EXCEPT ![s] = content]
        /\ misread' = IF content = v THEN misread ELSE misread \cup {<<v, s>>}
        /\ shard' = [shard EXCEPT ![v] = s + 1]
        /\ stage' = [stage EXCEPT ![v] = IF s >= NumShards THEN "resume" ELSE "ask"]
        /\ UNCHANGED <<trainer, worker, paused, event_loop, forward, pending_version, overlapped>>

(* What is there now is read, and loaded.                                  *)
Read(v) ==
    LET s == shard[v]
        content == buffers[s][Slot(v)]
    IN  /\ stage[v] = "read"
        /\ weights' = [weights EXCEPT ![s] = content]
        /\ misread' = IF content = v THEN misread ELSE misread \cup {<<v, s>>}
        /\ shard' = [shard EXCEPT ![v] = IF s = NumShards THEN s ELSE s + 1]
        /\ stage' = [stage EXCEPT ![v] = IF s = NumShards THEN "resume" ELSE "ask"]
        /\ UNCHANGED <<trainer, worker, paused, event_loop, forward, pending_version, overlapped>>

(* Mutant: leaves the replica paused for the version after. *)
ResumeNewest(v) ==
    /\ kind = "replica" /\ stage[v] = "resume" /\ ~Stuck
    /\ paused' = (v + 1 < next_version)
    /\ stage' = [stage EXCEPT ![v] = "done"]
    /\ UNCHANGED <<trainer, worker, shard, event_loop, weights, forward, pending_version,
                   history>>

ResumeReplica(v) ==
    /\ kind = "replica" /\ stage[v] = "resume" /\ ~Stuck
    /\ paused' = FALSE
    /\ stage' = [stage EXCEPT ![v] = "done"]
    /\ UNCHANGED <<trainer, worker, shard, event_loop, weights, forward, pending_version,
                   history>>

ResumeForward(v) ==
    /\ kind = "forward" /\ stage[v] = "resume" /\ ~Stuck
    /\ pending_version' = v
    /\ paused' = FALSE /\ event_loop' = Nobody
    /\ stage' = [stage EXCEPT ![v] = "done"]
    /\ UNCHANGED <<trainer, worker, shard, weights, forward, history>>

-----------------------------------------------------------------------------
(* The loop of the forward worker *)

TakeLock ==
    /\ kind = "forward" /\ loop = "out"
    /\ loop' = "begin"
    /\ UNCHANGED <<trainer, worker, update, weights, model, active_version, pending_version,
                   history>>

(* on_process_begin waits, with the lock, while the worker is paused; then *)
(* there may be nothing to do.                                             *)
FetchBatch ==
    /\ loop = "begin" /\ ~paused
    /\ loop' \in {"out", "batch"}
    /\ UNCHANGED <<trainer, worker, update, weights, model, active_version, pending_version,
                   history>>

(* Only the tensors that _state_dict has are loaded (strict=False).        *)
LoadModel ==
    /\ loop = "batch"
    /\ IF active_version = pending_version THEN loop' = "compute" /\ UNCHANGED model
       ELSE /\ loop' = "clear"
            /\ model' = [s \in Shards |-> IF weights[s] = Initial THEN model[s] ELSE weights[s]]
    /\ UNCHANGED <<trainer, worker, update, weights, active_version, pending_version, history>>

ClearStateDict ==
    /\ loop = "clear"
    /\ active_version' = pending_version
    /\ weights' = [s \in Shards |-> Initial]
    /\ loop' = "compute"
    /\ UNCHANGED <<trainer, worker, update, model, pending_version, history>>

Compute ==
    /\ loop = "compute"
    /\ loop' = "out"
    /\ UNCHANGED <<trainer, worker, update, weights, model, active_version, pending_version,
                   history>>

-----------------------------------------------------------------------------
Trainer == (\E s \in Shards : BeginWrite(s) \/ EndWrite(s)) \/ Submit

Update(v) ==
    \/ PauseReplica(v) \/ ResumeReplica(v)
    \/ CallPause(v) \/ PauseForward(v) \/ ResumeForward(v)
    \/ BuildProcessGroup(v) \/ Ask(v) \/ Read(v)

Loop == TakeLock \/ FetchBatch \/ LoadModel \/ ClearStateDict \/ Compute

Next == Trainer \/ (\E v \in Versions : Update(v)) \/ Loop

Spec == Init /\ [][Next]_vars

(* The loop sleeps without the lock between two batches, so that pause()   *)
(* gets it if the loop goes on. Everything else runs when it can.          *)
FairSpec == Spec /\ (\A v \in Versions : SF_vars(Update(v))) /\ WF_vars(Loop)

-----------------------------------------------------------------------------
(* Properties *)

TypeOK ==
    /\ next_version \in FirstVersion .. LastVersion + 1
    /\ write \in [Shards -> {"wait", "copy", "written"}]
    /\ weights_cache \in [Shards -> Seq(Versions)]
    /\ buffers \in [Shards -> {<<>>} \cup [Slots -> Contents]]
    /\ raised \in BOOLEAN /\ kind \in {"replica", "forward"} /\ several \in BOOLEAN
    /\ stage \in [Versions -> {"none", "pause", "lock", "build", "ask", "read", "resume",
                               "done", "failed", "stuck"}]
    /\ shard \in [Versions -> Shards]
    /\ paused \in BOOLEAN
    /\ weights \in [Shards -> Contents]
    /\ event_loop \in Versions \cup {Nobody}
    /\ loop \in {"out", "begin", "batch", "clear", "compute"}
    /\ model \in [Shards -> Contents]
    /\ pending_version \in Versions \cup {Initial}
    /\ active_version \in Versions \cup {Initial}
    /\ overlapped \in BOOLEAN /\ misread \subseteq Versions \X Shards

(* Every version in a rank's cache is whole in its buffer, except the one  *)
(* being written: what FIFO eviction drops is just what the next version   *)
(* is written over (send_weights, get_versioned_sub_buffer).               *)
CacheIntact ==
    \A s \in Shards : \A v \in CachedBy(s) :
        v # next_version \/ write[s] = "written" => buffers[s][Slot(v)] = v

(* An update that asked for a version reads that version, or the cache has *)
(* dropped it between the question and the read (receive_weights).         *)
ReadOrEvicted == \A m \in misread : m[1] \notin CachedBy(m[2])

(* Buffers are used again while readers are slow, and nobody takes the      *)
(* bytes of one version for another: what a cache lists is whole, and a     *)
(* reader whose bytes were overwritten finds its version dropped.           *)
CacheKept == CacheIntact /\ ReadOrEvicted

(* The version of the last update that came to its end.                    *)
Newest ==
    LET done == {v \in Versions : stage[v] = "done"}
    IN  IF done = {} THEN Initial ELSE CHOOSE v \in done : \A u \in done : u <= v

Whole(content, v) == \A s \in Shards : content[s] = v

(* As long as its updates do not overlap, a replica that takes requests    *)
(* and a forward worker that computes have the weights of one version, the *)
(* newest that was sent to them (update_weights_rollout_fwd).              *)
WholeUnlessOverlapped ==
    ~overlapped =>
        /\ kind = "replica" /\ ~paused => Whole(weights, Newest)
        /\ loop = "compute" => active_version = Newest /\ Whole(model, active_version)

(* pause() has the forward worker's event loop and waits for the lock, which *)
(* the loop has while it waits for the end of an update.                   *)
LoopWaits == loop = "begin" /\ paused /\ \E v \in Versions : stage[v] = "lock"

(* A worker serves again in the end, whatever versions were dropped before  *)
(* it read them and whatever updates overlap, but for two ways to wait for  *)
(* ever: processes that wait for what the first of them does not send, and  *)
(* the forward worker's loop and event loop, one for the other.             *)
ServesAgain == <>[](paused => Stuck \/ LoopWaits)
=============================================================================
