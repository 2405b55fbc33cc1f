------------------------ MODULE TransferQueueManager ------------------------
(***************************************************************************)
(* The metadata service of AsyncFlow's TransferQueue, for one topic: the   *)
(* TopicMeta record and the handlers of TransferQueueManager               *)
(* (src/async_flow/utils/transfer_queue/tq_mgr.py), driven by the calls    *)
(* its clients make: a rollout puts samples by prompt uuid, the shards     *)
(* report what they stored, consumers fetch and write their outputs back,  *)
(* one consumer deletes what it has used.                                  *)
(*                                                                         *)
(* The manager is a Ray actor with 100 threads, so handlers interleave.    *)
(* A handler that holds a lock from its first read to its last write is    *)
(* one action; allocation (which calls the shards while it holds the index *)
(* lock) and deletion (which takes no lock and calls the shards half way)  *)
(* are split where another handler can run in between.                     *)
(*                                                                         *)
(* A handler that raises ends its caller's operation; RoutingAgrees        *)
(* states when the routing cannot be the reason.                           *)
(***************************************************************************)
EXTENDS Integers, Sequences, FiniteSets, FiniteSetsExt, SequencesExt

CONSTANTS
    NumShards,     \* nums_tq_data
    NSamples,      \* n_samples_per_prompt
    Uuids,         \* prompts
    Batches,       \* sequences of uuids a single put may carry
    Columns,       \* experience_columns
    PutColumns,    \* the columns a rollout writes
    Consumers,     \* experience_consumers
    Trainer,       \* the consumer that deletes what it has used
    Requires,      \* [Consumers -> SUBSET Columns]: columns a fetch asks for
    Produces,      \* [Consumers -> SUBSET Columns]: columns it writes back
    Grouped,       \* [Consumers -> BOOLEAN]: get_n_samples
    Counts,        \* [Consumers -> Nat]: experience_count of a fetch
    Staleness,     \* allowed_staleness of the Trainer's fetches
    Versions,      \* model versions of the samples
    Latest,        \* latest_version of the Trainer's fetches
    StatusQueries, \* index sets of get_data_consumed_set ({} is None)
    Preemptive,    \* may threads switch inside the loop over the uuids?
    MaxGroups      \* bound on the groups of a run

ASSUME SizeAssumption ==
    /\ NumShards \in Nat \ {0}
    /\ NSamples \in Nat \ {0}
    /\ MaxGroups \in Nat
    /\ Staleness \in Nat
    /\ Versions \subseteq Nat
    /\ Latest \subseteq Nat

ASSUME CallerAssumption ==
    /\ Batches \subseteq Seq(Uuids)
    /\ StatusQueries \subseteq SUBSET (0 .. MaxGroups * NSamples - 1)
    /\ PutColumns \subseteq Columns
    /\ Preemptive \in BOOLEAN

ASSUME StageAssumption ==
    /\ Trainer \in Consumers
    /\ Requires \in [Consumers -> (SUBSET Columns) \ {{}}]
    /\ Produces \in [Consumers -> SUBSET Columns]
    /\ Grouped \in [Consumers -> BOOLEAN]
    /\ Counts \in [Consumers -> Nat \ {0}]

VARIABLES
    experience_ready,     \* [Columns -> set of indexes]
    experience_consumed,  \* [Consumers -> set of indexes]
    max_cur_index,
    global_idx_to_shard,  \* partial function from indexes to shards
    group_ids_per_shard,  \* [Shards -> set of groups]
    group_index_sets,     \* partial function from groups to index sets
    uuid_to_group,        \* partial function from uuids to groups
    versions_to_indexes,  \* [Versions -> set of indexes]
    allocation,           \* the allocation that holds assign_new_index_lock
    puts,                 \* puts of a rollout under way
    writes,               \* columns stored by a shard, not reported yet
    jobs,                 \* batches handed to a consumer, not finished
    pruning,              \* deletions between their two halves
    issued,               \* history: samples of a prompt sent so far
    owner,                \* history: uuid of every index ever allocated
    deleted,              \* history: indexes the Trainer deleted
    deliveries            \* history: how often a consumer received an index

meta == <<experience_ready, experience_consumed, max_cur_index,
          global_idx_to_shard, group_ids_per_shard, group_index_sets,
          uuid_to_group, versions_to_indexes>>
calls == <<allocation, puts, writes, jobs, pruning>>
history == <<issued, owner, deleted, deliveries>>
vars == <<meta, calls, history>>

Shards == 0 .. NumShards - 1
Groups == 0 .. MaxGroups - 1
Indexes == 0 .. MaxGroups * NSamples - 1
Group(i) == i \div NSamples
Members(g) == g * NSamples .. g * NSamples + NSamples - 1

Idle == [phase |-> "idle"]

(* The loop over the uuids makes no call: unless threads may be preempted  *)
(* anywhere, no other handler runs before it is over.                      *)
OthersMayRun == Preemptive \/ allocation.phase # "indexes"

Init ==
    /\ experience_ready = [col \in Columns |-> {}]
    /\ experience_consumed = [c \in Consumers |-> {}]
    /\ max_cur_index = -1
    /\ global_idx_to_shard = <<>>
    /\ group_ids_per_shard = [s \in Shards |-> {}]
    /\ group_index_sets = <<>>
    /\ uuid_to_group = <<>>
    /\ versions_to_indexes = [v \in Versions |-> {}]
    /\ allocation = Idle
    /\ puts = {}
    /\ writes = {}
    /\ jobs = {}
    /\ pruning = {}
    /\ issued = [u \in Uuids |-> 0]
    /\ owner = <<>>
    /\ deleted = {}
    /\ deliveries = [c \in Consumers |-> [i \in Indexes |-> 0]]

-----------------------------------------------------------------------------
(* Allocation of groups and indexes *)

(* A table with some entries set. *)
Merge(new, old) ==
    [x \in DOMAIN new \cup DOMAIN old |-> IF x \in DOMAIN new THEN new[x] ELSE old[x]]

(* Mutant: the number of groups instead of the largest one. *)
CountedGroups == Cardinality(DOMAIN group_index_sets) - 1

cur_max_group_id == IF max_cur_index < 0 THEN -1 ELSE Group(max_cur_index)

(***************************************************************************)
(* get_allocation_for_new_groups: every shard is brought up to the average *)
(* number of groups, from the lowest shard on, with consecutive new ids.   *)
(* A shard above the average gets none, so the others may together get     *)
(* more than n.                                                            *)
(***************************************************************************)
needed_counts(n) ==
    LET owned == {sg \in Shards \X Groups : sg[2] \in group_ids_per_shard[sg[1]]}
        total == Cardinality(owned) + n
        target(s) == total \div NumShards
                     + (IF s < total % NumShards THEN 1 ELSE 0)
    IN  [s \in Shards |-> target(s) - Cardinality(group_ids_per_shard[s])]

(* How many ids the shards before s take. *)
TakenBefore(s, needed) ==
    Cardinality(UNION {{t} \X (1 .. needed[t]) : t \in 0 .. s - 1})

(* Mutant: the next id is the number of groups, deleted ones not counted. *)
StartAtCount(n) ==
    LET needed == needed_counts(n)
        groups == UNION {group_ids_per_shard[s] : s \in Shards}
        start(s) == Cardinality(groups) + TakenBefore(s, needed)
    IN  [s \in Shards |-> start(s) .. start(s) + needed[s] - 1]

new_group_ids_per_shard(n) ==
    LET needed == needed_counts(n)
        start(s) == cur_max_group_id + 1 + TakenBefore(s, needed)
    IN  [s \in Shards |-> start(s) .. start(s) + needed[s] - 1]

ShardsOf(ids) ==
    LET idxs == UNION {Members(g) : g \in UNION {ids[s] : s \in Shards}}
    IN  [i \in idxs |-> CHOOSE s \in Shards : Group(i) \in ids[s]]

Occurrences(u, batch) == Cardinality({k \in DOMAIN batch : batch[k] = u})

(* dict.fromkeys: the uuids without a group, in order of first appearance. *)
NewUuids(batch) ==
    LET first(k) == \A j \in 1 .. k - 1 : batch[j] # batch[k]
        ks == {k \in DOMAIN batch :
                 batch[k] \notin DOMAIN uuid_to_group /\ first(k)}
    IN  [u \in {batch[k] : k \in ks} |->
            Cardinality({j \in ks : \E k \in ks : batch[k] = u /\ j < k})]

(***************************************************************************)
(* _allocate_by_uuid up to the RPC that tells the shards which groups they *)
(* own. A rollout produces NSamples samples of a prompt; the groups stay   *)
(* below the bound.                                                        *)
(***************************************************************************)
AllocateGroups(batch) ==
    LET new == NewUuids(batch)
        ids == new_group_ids_per_shard(Cardinality(DOMAIN new))
    IN  /\ allocation = Idle
        /\ \A u \in Uuids : issued[u] + Occurrences(u, batch) <= NSamples
        /\ issued' = [u \in Uuids |-> issued[u] + Occurrences(u, batch)]
        /\ \A u \in DOMAIN new : cur_max_group_id + 1 + new[u] \in Groups
        /\ IF DOMAIN new = {}
           THEN UNCHANGED <<global_idx_to_shard, group_ids_per_shard>>
           ELSE /\ \A s \in Shards : ids[s] \subseteq Groups
                /\ global_idx_to_shard' = Merge(ShardsOf(ids), global_idx_to_shard)
                /\ group_ids_per_shard' =
                     [s \in Shards |-> group_ids_per_shard[s] \cup ids[s]]
        /\ allocation' = [phase |-> "groups", new |-> new, uuids |-> batch]
        /\ UNCHANGED <<experience_ready, experience_consumed, max_cur_index,
                       group_index_sets, uuid_to_group, versions_to_indexes,
                       puts, writes, jobs, pruning, owner, deleted,
                       deliveries>>

(* The new uuids get the groups that follow the largest one in use. *)
AssignGroups ==
    LET new == allocation.new
        group(u) == cur_max_group_id + 1 + new[u]
    IN  /\ allocation.phase = "groups"
        /\ uuid_to_group' = Merge([u \in DOMAIN new |-> group(u)], uuid_to_group)
        /\ group_index_sets' =
             Merge([g \in {group(u) : u \in DOMAIN new} |-> {}], group_index_sets)
        /\ allocation' = [phase |-> "indexes", uuids |-> allocation.uuids,
                          allocated |-> <<>>, todo |-> allocation.uuids]
        /\ UNCHANGED <<experience_ready, experience_consumed, max_cur_index,
                       global_idx_to_shard, group_ids_per_shard,
                       versions_to_indexes, puts, writes, jobs, pruning, history>>

(* Mutant: the offset is counted from one. *)
NextIndexOffByOne(g) == g * NSamples + Cardinality(group_index_sets[g]) + 1

NextIndex(g) == g * NSamples + Cardinality(group_index_sets[g])

(* One turn of the loop over the uuids of the batch: the next index of the *)
(* prompt's group is the number of indexes the group has; a full group is  *)
(* skipped, a uuid or group that is gone from the maps is a KeyError.      *)
AllocateIndex ==
    /\ allocation.phase = "indexes"
    /\ allocation.todo # <<>>
    /\ LET u == Head(allocation.todo)
           g == uuid_to_group[u]
           full == Cardinality(group_index_sets[g]) >= NSamples
           index == NextIndex(g)
       IN  IF ~ (u \in DOMAIN uuid_to_group /\ g \in DOMAIN group_index_sets)
           THEN /\ allocation' = Idle
                /\ UNCHANGED <<group_index_sets, owner>>
           ELSE IF full
           THEN /\ allocation' = [allocation EXCEPT !.todo = Tail(@)]
                /\ UNCHANGED <<group_index_sets, owner>>
           ELSE /\ group_index_sets' = [group_index_sets EXCEPT ![g] = @ \cup {index}]
                /\ allocation' = [allocation EXCEPT
                                    !.allocated = Append(@, index),
                                    !.todo = Tail(@)]
                /\ owner' = Merge([i \in {index} |-> u], owner)
    /\ UNCHANGED <<experience_ready, experience_consumed, max_cur_index,
                   global_idx_to_shard, group_ids_per_shard, uuid_to_group,
                   versions_to_indexes, puts, writes, jobs, pruning, issued,
                   deleted, deliveries>>

(* Mutant: the largest index is forgotten. *)
LargestUnchanged(idxs) == max_cur_index

LargestIndex(idxs) == Max(idxs \cup {max_cur_index})

(* The allocation returns. put_experience_async raises when a full group   *)
(* left it with fewer indexes than samples, and otherwise goes on.         *)
FinishAllocation(version) ==
    /\ allocation.phase = "indexes"
    /\ allocation.todo = <<>>
    /\ LET idxs == Range(allocation.allocated)
       IN  /\ max_cur_index' = LargestIndex(idxs)
           /\ puts' = IF Len(allocation.allocated) = Len(allocation.uuids)
                      THEN puts \cup {[idxs |-> idxs, version |-> version,
                                       phase |-> "route"]}
                      ELSE puts
    /\ allocation' = Idle
    /\ UNCHANGED <<experience_ready, experience_consumed, global_idx_to_shard,
                   group_ids_per_shard, group_index_sets, uuid_to_group,
                   versions_to_indexes, writes, jobs, pruning, history>>

-----------------------------------------------------------------------------
(* Storing and reporting *)

Routed(idxs) == idxs \subseteq DOMAIN global_idx_to_shard

(* get_targets_for_put: one request per shard that owns some of the indexes. *)
WritesFor(idxs, cols) ==
    {[idxs |-> {i \in idxs : global_idx_to_shard[i] = s}, cols |-> cols] :
        s \in {global_idx_to_shard[i] : i \in idxs}}

(* The rollout's put reaches the shards, which store the columns. When the *)
(* routing fails the client logs it and returns: the samples are dropped.  *)
RoutePut(p) ==
    /\ OthersMayRun
    /\ p \in puts
    /\ p.phase = "route"
    /\ IF Routed(p.idxs)
       THEN /\ writes' = writes \cup WritesFor(p.idxs, PutColumns)
            /\ puts' = (puts \ {p}) \cup {[p EXCEPT !.phase = "sent"]}
       ELSE /\ puts' = puts \ {p}
            /\ UNCHANGED writes
    /\ UNCHANGED <<meta, allocation, jobs, pruning, history>>

(* A shard reports what it stored; nothing checks that it is still routed. *)
update_data_status(w) ==
    /\ OthersMayRun
    /\ w \in writes
    /\ experience_ready' = [col \in Columns |->
          IF col \in w.cols THEN experience_ready[col] \cup w.idxs
                            ELSE experience_ready[col]]
    /\ writes' = writes \ {w}
    /\ UNCHANGED <<experience_consumed, max_cur_index, global_idx_to_shard,
                   group_ids_per_shard, group_index_sets, uuid_to_group,
                   versions_to_indexes, allocation, puts, jobs, pruning, history>>

(* When every shard has acknowledged the put, the client records the       *)
(* version: each index leaves the version it was in.                       *)
record_versions(p) ==
    /\ OthersMayRun
    /\ p \in puts
    /\ p.phase = "sent"
    /\ \A w \in writes : ~(w.cols = PutColumns /\ w.idxs \subseteq p.idxs)
    /\ versions_to_indexes' = [v \in Versions |->
          IF v = p.version THEN versions_to_indexes[v] \cup p.idxs
                           ELSE versions_to_indexes[v] \ p.idxs]
    /\ puts' = puts \ {p}
    /\ UNCHANGED <<experience_ready, experience_consumed, max_cur_index,
                   global_idx_to_shard, group_ids_per_shard, group_index_sets,
                   uuid_to_group, allocation, writes, jobs, pruning, history>>

-----------------------------------------------------------------------------
(* Fetching *)

ReadyFor(c) == {i \in Indexes : \A col \in Requires[c] : i \in experience_ready[col]}

(* The sliding window of versions; either argument 0 switches it off. *)
Fresh(latest, allowed) ==
    IF latest # 0 /\ allowed # 0
    THEN UNION {versions_to_indexes[v] : v \in Versions \cap (latest - allowed .. latest)}
    ELSE Indexes

Usable(c, latest) ==
    (ReadyFor(c) \ experience_consumed[c])
        \cap Fresh(latest, IF c = Trainer THEN Staleness ELSE 0)

Smallest(S, k) == {i \in S : Cardinality({j \in S : j < i}) < k}

(* _sample_ready_index *)
SampleIndexes(usable, count) == Smallest(usable, count)

(* _sample_ready_index_n_samples: whole groups only. *)
SampleGroups(usable, count) ==
    LET whole == {g \in Groups : Members(g) \subseteq usable}
    IN  UNION {Members(g) : g \in Smallest(whole, count \div NSamples)}

Sample(c, latest) ==
    IF Grouped[c] THEN SampleGroups(Usable(c, latest), Counts[c])
                  ELSE SampleIndexes(Usable(c, latest), Counts[c])

(* Mutant: consumption is left to the end of the batch. *)
MarkNothing(c, chosen) == UNCHANGED experience_consumed

(* Mark what was chosen as consumed, under the consumer's sampling lock. *)
MarkConsumed(c, chosen) ==
    experience_consumed' = [experience_consumed EXCEPT ![c] = @ \cup chosen]

(* The indexes are marked before the check that all of them have a shard.  *)
allocate_shard_and_indexes(c, latest) ==
    LET chosen == Sample(c, latest)
    IN  /\ OthersMayRun
        /\ Cardinality(chosen) = Counts[c]
        /\ MarkConsumed(c, chosen)
        /\ IF Routed(chosen)
           THEN /\ jobs' = jobs \cup {[consumer |-> c, idxs |-> chosen]}
                /\ deliveries' = [deliveries EXCEPT ![c] =
                      [i \in Indexes |-> IF i \in chosen THEN @[i] + 1 ELSE @[i]]]
           ELSE UNCHANGED <<jobs, deliveries>>
        /\ UNCHANGED <<experience_ready, max_cur_index, global_idx_to_shard,
                       group_ids_per_shard, group_index_sets, uuid_to_group,
                       versions_to_indexes, allocation, puts, writes, pruning,
                       issued, owner, deleted>>

(* A consumer writes its output columns for the batch it was given. *)
WriteBack(j) ==
    /\ OthersMayRun
    /\ j \in jobs
    /\ j.consumer # Trainer
    /\ writes' = IF Routed(j.idxs)
                 THEN writes \cup WritesFor(j.idxs, Produces[j.consumer])
                 ELSE writes
    /\ jobs' = jobs \ {j}
    /\ UNCHANGED <<meta, allocation, puts, pruning, history>>

(* get_data_consumed_set intersects the live set with the indexes asked    *)
(* about, in place.                                                        *)
get_data_consumed_set(c, idxs) ==
    /\ OthersMayRun
    /\ experience_consumed' =
         IF idxs = {} THEN experience_consumed
                      ELSE [experience_consumed EXCEPT ![c] = @ \cap idxs]
    /\ UNCHANGED <<experience_ready, max_cur_index, global_idx_to_shard,
                   group_ids_per_shard, group_index_sets, uuid_to_group,
                   versions_to_indexes, calls, history>>

-----------------------------------------------------------------------------
(* Deleting *)

ResetStatus(idxs) ==
    /\ experience_ready' = [col \in Columns |-> experience_ready[col] \ idxs]
    /\ experience_consumed' = [c \in Consumers |-> experience_consumed[c] \ idxs]

(* delete_experience(indexes) and _prune_topic_by_indexes up to the RPC    *)
(* that makes the shards drop the data.                                    *)
StartPrune(j) ==
    /\ OthersMayRun
    /\ j \in jobs
    /\ j.consumer = Trainer
    /\ Routed(j.idxs)
    /\ ResetStatus(j.idxs)
    /\ global_idx_to_shard' = Restrict(global_idx_to_shard,
                                       DOMAIN global_idx_to_shard \ j.idxs)
    /\ pruning' = pruning \cup
         {[idxs |-> j.idxs,
           groups |-> {<<Group(i), global_idx_to_shard[i]>> : i \in j.idxs}]}
    /\ jobs' = jobs \ {j}
    /\ deleted' = deleted \cup j.idxs
    /\ UNCHANGED <<max_cur_index, group_ids_per_shard, group_index_sets,
                   uuid_to_group, versions_to_indexes, allocation, puts, writes,
                   issued, owner, deliveries>>

(* The groups of a deletion none of whose members is routed any more. *)
EmptiedBy(r) ==
    {gs \in r.groups : Members(gs[1]) \cap DOMAIN global_idx_to_shard = {}}

(* The reverse map is cleaned by "group_id == group_id", where both names  *)
(* are the comprehension's own: when a group goes, every uuid goes.        *)
CleanUuids(emptied) ==
    uuid_to_group' = IF emptied = {} THEN uuid_to_group ELSE <<>>

(* The bookkeeping after the shards have dropped the data. *)
FinishPrune(r) ==
    LET emptied == EmptiedBy(r)
        gone == {gs[1] : gs \in emptied}
    IN  /\ OthersMayRun
        /\ r \in pruning
        /\ group_ids_per_shard' = [s \in Shards |->
              group_ids_per_shard[s] \ {gs[1] : gs \in {x \in emptied : x[2] = s}}]
        /\ group_index_sets' = [g \in DOMAIN group_index_sets \ gone |->
              group_index_sets[g] \ r.idxs]
        /\ CleanUuids(emptied)
        /\ versions_to_indexes' =
              [v \in Versions |-> versions_to_indexes[v] \ r.idxs]
        /\ pruning' = pruning \ {r}
        /\ UNCHANGED <<experience_ready, experience_consumed, max_cur_index,
                       global_idx_to_shard, allocation, puts, writes, jobs,
                       history>>

-----------------------------------------------------------------------------

Next ==
    \/ \E batch \in Batches : AllocateGroups(batch)
    \/ AssignGroups
    \/ AllocateIndex
    \/ \E v \in Versions : FinishAllocation(v)
    \/ \E p \in puts : RoutePut(p)
    \/ \E w \in writes : update_data_status(w)
    \/ \E p \in puts : record_versions(p)
    \/ \E c \in Consumers, v \in Latest : allocate_shard_and_indexes(c, v)
    \/ \E j \in jobs : WriteBack(j)
    \/ \E c \in Consumers, idxs \in StatusQueries : get_data_consumed_set(c, idxs)
    \/ \E j \in jobs : StartPrune(j)
    \/ \E r \in pruning : FinishPrune(r)

Spec == Init /\ [][Next]_vars

-----------------------------------------------------------------------------
(* Properties *)

MetaType ==
    /\ experience_ready \in [Columns -> SUBSET Indexes]
    /\ experience_consumed \in [Consumers -> SUBSET Indexes]
    /\ max_cur_index \in Indexes \cup {-1}
    /\ DOMAIN global_idx_to_shard \subseteq Indexes
    /\ \A i \in DOMAIN global_idx_to_shard : global_idx_to_shard[i] \in Shards
    /\ group_ids_per_shard \in [Shards -> SUBSET Groups]
    /\ DOMAIN group_index_sets \subseteq Groups
    /\ \A g \in DOMAIN group_index_sets : group_index_sets[g] \subseteq Members(g)
    /\ DOMAIN uuid_to_group \subseteq Uuids
    /\ \A u \in DOMAIN uuid_to_group : uuid_to_group[u] \in Groups
    /\ versions_to_indexes \in [Versions -> SUBSET Indexes]

AllocationType ==
    \/ allocation = Idle
    \/ /\ allocation.phase = "groups"
       /\ allocation.uuids \in Seq(Uuids)
       /\ DOMAIN allocation.new \subseteq Uuids
       /\ \A u \in DOMAIN allocation.new :
             cur_max_group_id + 1 + allocation.new[u] \in Groups
    \/ allocation \in [phase : {"indexes"}, uuids : Seq(Uuids),
                      allocated : Seq(Indexes), todo : Seq(Uuids)]

CallsType ==
    /\ puts \subseteq [idxs : SUBSET Indexes, version : Versions,
                       phase : {"route", "sent"}]
    /\ writes \subseteq [idxs : SUBSET Indexes, cols : SUBSET Columns]
    /\ jobs \subseteq [consumer : Consumers, idxs : SUBSET Indexes]
    /\ \A r \in pruning : r.idxs \subseteq Indexes /\ r.groups \subseteq Groups \X Shards

HistoryType ==
    /\ issued \in [Uuids -> 0 .. NSamples]
    /\ deleted \subseteq Indexes
    /\ DOMAIN owner \subseteq Indexes
    /\ \A i \in DOMAIN owner : owner[i] \in Uuids
    /\ deliveries \in [Consumers -> [Indexes -> Nat]]

(* Every table stays within its keys: a group's index set within the       *)
(* group, shards among the shards, indexes below the bound.                *)
TypeOK == MetaType /\ AllocationType /\ CallsType /\ HistoryType

(* A consumer never receives an index twice, however its fetches, the      *)
(* shards' reports and the Trainer's deletions interleave                  *)
(* (experience_consumed, _prune_topic_by_indexes).                         *)
AtMostOnce == \A c \in Consumers, i \in Indexes : deliveries[c][i] <= 1

(* Whatever is stored, reported, handed out or deleted was allocated by an *)
(* allocation that has finished (max_cur_index only grows).                *)
AllocatedOnly ==
    LET Allocated(idxs) == \A i \in idxs : i <= max_cur_index
    IN  /\ \A p \in puts : Allocated(p.idxs)
        /\ \A w \in writes : Allocated(w.idxs)
        /\ \A col \in Columns : Allocated(experience_ready[col])
        /\ \A j \in jobs : Allocated(j.idxs)
        /\ Allocated(deleted)

DeletedIsUnrouted == deleted \cap DOMAIN global_idx_to_shard = {}

(* What a consumer has received it has consumed, until it is deleted.      *)
DeliveredOnce ==
    \A c \in Consumers, i \in Indexes :
        \/ deliveries[c][i] = 0
        \/ deliveries[c][i] = 1 /\ i \in experience_consumed[c] \cup deleted

(* The inductive invariant behind AtMostOnce: a deleted index is never     *)
(* routed again, and an index without a shard is never delivered.          *)
DeliveryInv == TypeOK /\ AllocatedOnly /\ DeletedIsUnrouted /\ DeliveredOnce

(* Every index a client was given has a shard until it is deleted, so that *)
(* no put, fetch or deletion of it fails (get_allocation_for_new_groups    *)
(* follows the number of groups, _allocate_by_uuid the largest index).     *)
RoutedUntilDeleted ==
    \A i \in DOMAIN owner : i \in DOMAIN global_idx_to_shard \cup deleted

(* A late report, or what a consumer has seen, never outlives the index    *)
(* (update_data_status does not look at the routing).                      *)
NothingRevived ==
    /\ \A col \in Columns : Routed(experience_ready[col])
    /\ \A c \in Consumers : Routed(experience_consumed[c])

(* A group holds the samples of one prompt and all of them, which is what  *)
(* get_n_samples fetches rely on (idx // n_samples_per_prompt).            *)
GroupIsOnePrompt ==
    \A i, j \in DOMAIN owner : owner[i] = owner[j] <=> Group(i) = Group(j)

(* A shard refuses rows of groups it does not own: it owns those of every  *)
(* index routed to it, although deletions and allocations keep the two     *)
(* tables apart (group_ids_per_shard, global_idx_to_shard).                *)
OwnersAgree ==
    \A i \in DOMAIN global_idx_to_shard :
        Group(i) \in group_ids_per_shard[global_idx_to_shard[i]]

(* The tables stay in step although deletions have two phases and shards   *)
(* report late: an index that a client has is routed until it is deleted,  *)
(* to the shard that counts its group, and nothing is left of it then.     *)
RoutingAgrees == RoutedUntilDeleted /\ NothingRevived /\ OwnersAgree

(* An allocation never hands out an index that was handed out before,      *)
(* deleted or not (max_cur_index, group_index_sets).                       *)
NoIndexReused ==
    [][(allocation.phase = "indexes" /\ allocation'.phase = "indexes") =>
         (Range(allocation'.allocated) \ Range(allocation.allocated))
            \cap DOMAIN owner = {}]_vars

(* To the workers all this is a SampleQueue: whatever interleaves, prompts *)
(* get new samples, columns arrive for samples that are still there, each  *)
(* sample is taken once, whole prompts where they are asked for, and only  *)
(* what the trainer took is deleted (_allocate_by_uuid,                    *)
(* update_data_status, allocate_shard_and_indexes, delete_experience).     *)
Queue == INSTANCE SampleQueue WITH
            Samples <- Indexes, Prompts <- Uuids,
            written <- experience_ready, received <- deliveries
ImplementsQueue == Queue!Spec
=============================================================================
