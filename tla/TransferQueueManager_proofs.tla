--------------------- MODULE TransferQueueManager_proofs ---------------------
(* Theorems of TransferQueueManager for every value of its constants. *)
EXTENDS TransferQueueManager, FiniteSetTheorems, WellFoundedInduction, TLAPS

(* The groups partition the indexes: a group's members are indexes of that *)
(* group (idx // n_samples_per_prompt).                                    *)
LEMMA MembersOfGroup ==
    ASSUME NEW g \in Groups
    PROVE  /\ Members(g) \subseteq Indexes
           /\ \A i \in Members(g) : Group(i) = g
<1>1. g \in Nat /\ g + 1 <= MaxGroups /\ MaxGroups \in Nat
  BY SizeAssumption DEF Groups
<1>2. NSamples \in Nat /\ NSamples >= 1
  BY SizeAssumption
<1>3. (g + 1) * NSamples <= MaxGroups * NSamples
  BY <1>1, <1>2
<1>4. g * NSamples \in Nat /\ (g + 1) * NSamples = g * NSamples + NSamples
  BY <1>1, <1>2
<1>5. Members(g) \subseteq Indexes
  BY <1>1, <1>2, <1>3, <1>4 DEF Members, Indexes
<1>6. ASSUME NEW i \in Members(g) PROVE Group(i) = g
  BY <1>1, <1>2, <1>4 DEF Members, Group
<1> QED
  BY <1>5, <1>6

LEMMA GroupOfIndex ==
    ASSUME NEW i \in Indexes
    PROVE  Group(i) \in Groups /\ i \in Members(Group(i))
<1>1. i \in Nat /\ i < MaxGroups * NSamples /\ NSamples \in Nat /\ NSamples >= 1
      /\ MaxGroups \in Nat
  BY SizeAssumption DEF Indexes
<1>2. i \div NSamples \in Nat /\ i % NSamples \in 0 .. NSamples - 1
      /\ i = (i \div NSamples) * NSamples + (i % NSamples)
  BY <1>1
<1>3. i \div NSamples < MaxGroups
  <2>1. SUFFICES ASSUME i \div NSamples >= MaxGroups PROVE FALSE
    BY <1>1, <1>2
  <2>2. (i \div NSamples) * NSamples >= MaxGroups * NSamples
    BY <2>1, <1>1, <1>2
  <2> QED
    BY <2>2, <1>1, <1>2
<1> QED
  BY <1>1, <1>2, <1>3 DEF Group, Groups, Members

LEMMA IndexesFinite ==
    /\ IsFiniteSet(Indexes)
    /\ IsFiniteSet(Groups)
    /\ IsFiniteSet(Shards)
    /\ \A S : S \subseteq Indexes => Cardinality(S) \in Nat
<1>1. MaxGroups * NSamples - 1 \in Int /\ MaxGroups - 1 \in Int /\ NumShards - 1 \in Int
  BY SizeAssumption
<1>2. IsFiniteSet(Indexes) /\ IsFiniteSet(Groups) /\ IsFiniteSet(Shards)
  BY <1>1, FS_Interval DEF Indexes, Groups, Shards
<1>3. ASSUME NEW S, S \subseteq Indexes PROVE Cardinality(S) \in Nat
  BY <1>2, <1>3, FS_Subset, FS_CardinalityType
<1> QED
  BY <1>2, <1>3

(* max() of the indexes of an allocation and the largest index so far.     *)
LEMMA LargestIndexIsMax ==
    ASSUME NEW idxs \in SUBSET Indexes, max_cur_index \in Indexes \cup {-1}
    PROVE  /\ LargestIndex(idxs) \in Indexes \cup {-1}
           /\ LargestIndex(idxs) >= max_cur_index
           /\ \A i \in idxs : LargestIndex(idxs) >= i
<1> DEFINE S == idxs \cup {max_cur_index}
           B == MaxGroups * NSamples
           T == {n \in Nat : B - n \in S}
           R == {ss \in Nat \X Nat : ss[1] < ss[2]}
<1>1. B \in Nat /\ S \subseteq -1 .. B - 1 /\ max_cur_index \in S
  BY SizeAssumption DEF Indexes
<1>2. T \subseteq Nat /\ T # {}
  <2>1. B - max_cur_index \in Nat /\ B - (B - max_cur_index) = max_cur_index
    BY <1>1
  <2>2. B - max_cur_index \in T
    BY <1>1, <2>1
  <2> QED
    BY <2>2
<1>3. IsWellFoundedOn(R, Nat)
  BY NatLessThanWellFounded DEF OpToRel
<1>4. PICK n \in T : \A k \in T : ~ (k < n)
  <2> HIDE DEF R, T
  <2>1. PICK n \in T : \A k \in T : <<k, n>> \notin R
    BY <1>2, <1>3, WFMin
  <2> QED
    BY <1>2, <2>1 DEF R
<1>5. B - n \in S /\ \A i \in S : B - n >= i
  BY <1>1, <1>4
<1>6. Max(S) \in S /\ \A i \in S : Max(S) >= i
  BY <1>5 DEF Max
<1> QED
  BY <1>6 DEF LargestIndex

LEMMA LargestGroup ==
    ASSUME max_cur_index \in Indexes \cup {-1}
    PROVE  /\ cur_max_group_id \in Groups \cup {-1}
           /\ \A i \in Indexes : Group(i) > cur_max_group_id => i > max_cur_index
<1>1. CASE max_cur_index = -1
  BY <1>1 DEF cur_max_group_id, Indexes
<1>2. CASE max_cur_index \in Indexes
  <2>1. max_cur_index \in Nat /\ cur_max_group_id = Group(max_cur_index)
    BY <1>2 DEF Indexes, cur_max_group_id
  <2>2. cur_max_group_id \in Groups /\ max_cur_index \in Members(cur_max_group_id)
    BY <1>2, <2>1, GroupOfIndex
  <2>3. ASSUME NEW i \in Indexes, Group(i) > cur_max_group_id
        PROVE  i > max_cur_index
    <3>1. Group(i) \in Groups /\ i \in Members(Group(i))
      BY GroupOfIndex
    <3>2. Group(i) * NSamples >= (cur_max_group_id + 1) * NSamples
      BY <2>2, <2>3, <3>1, SizeAssumption DEF Groups
    <3> HIDE DEF Group
    <3>3. /\ i >= Group(i) * NSamples
          /\ max_cur_index <= cur_max_group_id * NSamples + NSamples - 1
      BY <2>2, <3>1, SizeAssumption DEF Members, Groups
    <3> QED
      BY <2>2, <3>1, <3>2, <3>3, SizeAssumption DEF Groups, Members
  <2> QED
    BY <2>2, <2>3
<1> QED
  BY <1>1, <1>2

(* get_allocation_for_new_groups only hands out ids above the largest one. *)
LEMMA NewIdsAreLarger ==
    ASSUME MetaType, NEW n \in Nat
    PROVE  /\ DOMAIN new_group_ids_per_shard(n) = Shards
           /\ \A s \in Shards : \A g \in new_group_ids_per_shard(n)[s] :
                 g \in Int /\ g > cur_max_group_id
<1> DEFINE needed == needed_counts(n)
           start(s) == cur_max_group_id + 1 + TakenBefore(s, needed)
<1>1. cur_max_group_id \in Int
  BY LargestGroup DEF MetaType, Groups
<1>2. ASSUME NEW s \in Shards PROVE needed[s] \in Int
  <2> DEFINE owned == {sg \in Shards \X Groups : sg[2] \in group_ids_per_shard[sg[1]]}
  <2>1. Cardinality(owned) \in Nat
    BY IndexesFinite, FS_Product, FS_Subset, FS_CardinalityType
  <2>2. Cardinality(group_ids_per_shard[s]) \in Nat
    BY IndexesFinite, FS_Subset, FS_CardinalityType DEF MetaType
  <2> HIDE DEF owned
  <2> DEFINE total == Cardinality(owned) + n
             target == total \div NumShards + (IF s < total % NumShards THEN 1 ELSE 0)
  <2>3. total \in Nat /\ NumShards \in Nat /\ NumShards > 0
    BY <2>1, SizeAssumption
  <2>4. target \in Int
    BY <2>3
  <2>5. needed[s] = target - Cardinality(group_ids_per_shard[s])
    BY DEF needed_counts, owned
  <2> QED
    BY <2>2, <2>4, <2>5
<1>3. ASSUME NEW s \in Shards PROVE TakenBefore(s, needed) \in Nat
  <2> HIDE DEF needed
  <2> DEFINE slots == {{t} \X (1 .. needed[t]) : t \in 0 .. s - 1}
             T == 0 .. s - 1
             f == [t \in T |-> {t} \X (1 .. needed[t])]
  <2>1. T \subseteq Shards /\ IsFiniteSet(T)
    BY IndexesFinite, FS_Subset, SizeAssumption DEF Shards
  <2>2. IsFiniteSet(slots)
    <3>1. f \in [T -> slots] /\ \A x \in slots : \E t \in T : f[t] = x
      OBVIOUS
    <3>2. f \in Surjection(T, slots)
      BY <3>1 DEF Surjection
    <3> HIDE DEF slots, f, T
    <3> QED
      BY <2>1, <3>2, FS_Surjection
  <2>3. \A t \in T : IsFiniteSet({t} \X (1 .. needed[t]))
    <3> TAKE t \in T
    <3>1. needed[t] \in Int
      BY <1>2, <2>1
    <3>2. IsFiniteSet(1 .. needed[t])
      BY <3>1, FS_Interval
    <3>3. IsFiniteSet({t})
      BY FS_Singleton
    <3> QED
      BY <3>2, <3>3, FS_Product
  <2>4. \A x \in slots : IsFiniteSet(x)
    BY <2>3
  <2> HIDE DEF slots
  <2>5. Cardinality(UNION slots) \in Nat
    BY <2>2, <2>4, FS_UNION, FS_CardinalityType
  <2> QED
    BY <2>5 DEF TakenBefore, slots
<1>4. ASSUME NEW s \in Shards, NEW g \in new_group_ids_per_shard(n)[s]
      PROVE  g \in Int /\ g > cur_max_group_id
  <2>1. g \in start(s) .. start(s) + needed[s] - 1
    BY <1>4 DEF new_group_ids_per_shard
  <2> HIDE DEF needed
  <2> QED
    BY <1>1, <1>2, <1>3, <2>1
<1>5. DOMAIN new_group_ids_per_shard(n) = Shards
  BY DEF new_group_ids_per_shard
<1> QED
  BY <1>4, <1>5

(* Every index of the new groups is routed to the shard its group is given *)
(* to.                                                                     *)
LEMMA ShardsOfNewIds ==
    ASSUME NEW ids, \A s \in Shards : ids[s] \subseteq Groups
    PROVE  /\ DOMAIN ShardsOf(ids) \subseteq Indexes
           /\ \A i \in DOMAIN ShardsOf(ids) :
                 /\ ShardsOf(ids)[i] \in Shards
                 /\ Group(i) \in ids[ShardsOf(ids)[i]]
<1> DEFINE idxs == UNION {Members(g) : g \in UNION {ids[s] : s \in Shards}}
<1>1. DOMAIN ShardsOf(ids) = idxs
  BY DEF ShardsOf
<1>2. ASSUME NEW i \in idxs
      PROVE  i \in Indexes /\ \E s \in Shards : Group(i) \in ids[s]
  <2>1. PICK s \in Shards : \E g \in ids[s] : i \in Members(g)
    BY <1>2
  <2> QED
    BY <2>1, MembersOfGroup
<1>3. ASSUME NEW i \in idxs
      PROVE  /\ ShardsOf(ids)[i] \in Shards
             /\ Group(i) \in ids[ShardsOf(ids)[i]]
  <2>1. ShardsOf(ids)[i] = CHOOSE s \in Shards : Group(i) \in ids[s]
    BY DEF ShardsOf
  <2> QED
    BY <1>2, <2>1
<1> QED
  BY <1>1, <1>2, <1>3

LEMMA NewUuidsAreUuids ==
    ASSUME NEW batch \in Batches
    PROVE  /\ batch \in Seq(Uuids)
           /\ DOMAIN NewUuids(batch) \subseteq Uuids
           /\ Cardinality(DOMAIN NewUuids(batch)) \in Nat
           /\ \A u \in Uuids : Occurrences(u, batch) \in Nat
<1>1. batch \in Seq(Uuids)
  BY CallerAssumption
<1>2. \A k \in DOMAIN batch : batch[k] \in Uuids
  BY <1>1
<1>3. DOMAIN batch = 1 .. Len(batch) /\ Len(batch) \in Nat
  BY <1>1
<1>4. IsFiniteSet(DOMAIN batch)
  BY <1>3, FS_Interval
<1>5. DOMAIN NewUuids(batch) \subseteq {batch[k] : k \in DOMAIN batch}
  BY DEF NewUuids
<1>6. IsFiniteSet({batch[k] : k \in DOMAIN batch})
  <2> DEFINE image == {batch[k] : k \in DOMAIN batch}
             f == [k \in DOMAIN batch |-> batch[k]]
  <2>1. f \in [DOMAIN batch -> image] /\ \A x \in image : \E k \in DOMAIN batch : f[k] = x
    OBVIOUS
  <2>2. f \in Surjection(DOMAIN batch, image)
    BY <2>1 DEF Surjection
  <2> HIDE DEF image, f
  <2>3. IsFiniteSet(image)
    BY <1>4, <2>2, FS_Surjection
  <2> QED
    BY <2>3 DEF image
<1>7. Cardinality(DOMAIN NewUuids(batch)) \in Nat
  BY <1>5, <1>6, FS_Subset, FS_CardinalityType
<1>8. ASSUME NEW u \in Uuids PROVE Occurrences(u, batch) \in Nat
  <2>1. {k \in DOMAIN batch : batch[k] = u} \subseteq DOMAIN batch
    OBVIOUS
  <2>2. IsFiniteSet({k \in DOMAIN batch : batch[k] = u})
    BY <1>4, <2>1, FS_Subset
  <2> QED
    BY <2>2, FS_CardinalityType DEF Occurrences
<1> QED
  BY <1>1, <1>2, <1>5, <1>7, <1>8

(* Both sampling functions choose among the usable indexes.                *)
LEMMA SampleIsUsable ==
    ASSUME NEW c \in Consumers, NEW latest
    PROVE  /\ Sample(c, latest) \subseteq Usable(c, latest)
           /\ Usable(c, latest) \subseteq Indexes \ experience_consumed[c]
<1>1. \A S, k : Smallest(S, k) \subseteq S
  BY DEF Smallest
<1>2. \A S, n : SampleIndexes(S, n) \subseteq S
  BY <1>1 DEF SampleIndexes
<1>3. \A S, n : SampleGroups(S, n) \subseteq S
  BY <1>1 DEF SampleGroups
<1>4. Usable(c, latest) \subseteq Indexes \ experience_consumed[c]
  BY DEF Usable, ReadyFor
<1> QED
  BY <1>2, <1>3, <1>4 DEF Sample

LEMMA SplitWrites ==
    ASSUME NEW idxs, NEW cols, Routed(idxs), MetaType, cols \subseteq Columns
    PROVE  /\ \A w \in WritesFor(idxs, cols) : w.idxs \subseteq idxs
           /\ WritesFor(idxs, cols) \subseteq [idxs : SUBSET Indexes, cols : SUBSET Columns]
BY DEF Routed, WritesFor, MetaType

LEMMA InitTypeOK == Init => TypeOK
<1> SUFFICES ASSUME Init PROVE TypeOK
  OBVIOUS
<1> USE DEF Init
<1>1. MetaType
  BY DEF MetaType
<1>2. AllocationType /\ CallsType
  BY DEF AllocationType, CallsType
<1>3. HistoryType
  BY SizeAssumption DEF HistoryType
<1> QED
  BY <1>1, <1>2, <1>3 DEF TypeOK

LEMMA AllocateGroupsTypeOK ==
    ASSUME TypeOK, NEW batch \in Batches, AllocateGroups(batch)
    PROVE  TypeOK'
<1> DEFINE new == NewUuids(batch)
           ids == new_group_ids_per_shard(Cardinality(DOMAIN new))
<1>1. MetaType /\ CallsType /\ HistoryType
  BY DEF TypeOK
<1>2. /\ batch \in Seq(Uuids) /\ DOMAIN new \subseteq Uuids
      /\ \A u \in Uuids : Occurrences(u, batch) \in Nat
  BY NewUuidsAreUuids
<1>3. MetaType'
  <2>1. CASE DOMAIN new = {}
    BY <1>1, <2>1 DEF AllocateGroups, MetaType
  <2>2. CASE DOMAIN new # {}
    <3>1. /\ \A s \in Shards : ids[s] \subseteq Groups
          /\ global_idx_to_shard' = Merge(ShardsOf(ids), global_idx_to_shard)
          /\ group_ids_per_shard' =
               [s \in Shards |-> group_ids_per_shard[s] \cup ids[s]]
      BY <2>2 DEF AllocateGroups
    <3> HIDE DEF ids
    <3>2. /\ DOMAIN ShardsOf(ids) \subseteq Indexes
          /\ \A i \in DOMAIN ShardsOf(ids) : ShardsOf(ids)[i] \in Shards
      BY <3>1, ShardsOfNewIds
    <3>3. /\ DOMAIN global_idx_to_shard' \subseteq Indexes
          /\ \A i \in DOMAIN global_idx_to_shard' : global_idx_to_shard'[i] \in Shards
      BY <1>1, <3>1, <3>2 DEF MetaType, Merge
    <3>4. group_ids_per_shard' \in [Shards -> SUBSET Groups]
      BY <1>1, <3>1 DEF MetaType
    <3> QED
      BY <1>1, <3>3, <3>4 DEF AllocateGroups, MetaType
  <2> QED
    BY <2>1, <2>2
<1>4. AllocationType'
  BY <1>2 DEF AllocateGroups, AllocationType, cur_max_group_id
<1>5. CallsType' 
  BY <1>1 DEF AllocateGroups, CallsType
<1>6. HistoryType'
  <2>1. issued' \in [Uuids -> 0 .. NSamples]
    <3>1. \A u \in Uuids : /\ issued[u] \in Nat
                           /\ issued[u] + Occurrences(u, batch) <= NSamples
      BY <1>1 DEF AllocateGroups, HistoryType
    <3>2. issued' = [u \in Uuids |-> issued[u] + Occurrences(u, batch)]
      BY DEF AllocateGroups
    <3> QED
      BY <1>2, <3>1, <3>2, SizeAssumption
  <2> QED
    BY <1>1, <2>1 DEF AllocateGroups, HistoryType
<1> QED
  BY <1>3, <1>4, <1>5, <1>6 DEF TypeOK

LEMMA AllocationStepsTypeOK ==
    ASSUME TypeOK, AssignGroups \/ AllocateIndex \/ \E v \in Versions : FinishAllocation(v)
    PROVE  TypeOK'
<1>1. MetaType /\ AllocationType /\ CallsType /\ HistoryType
  BY DEF TypeOK
<1>2. CASE AssignGroups
  <2> DEFINE new == allocation.new
             group(u) == cur_max_group_id + 1 + new[u]
  <2>1. /\ allocation.uuids \in Seq(Uuids) /\ DOMAIN new \subseteq Uuids
        /\ \A u \in DOMAIN new : group(u) \in Groups
    BY <1>1, <1>2 DEF AllocationType, AssignGroups, Idle
  <2>2. /\ uuid_to_group' = Merge([u \in DOMAIN new |-> group(u)], uuid_to_group)
        /\ group_index_sets' = Merge([g \in {group(u) : u \in DOMAIN new} |-> {}], group_index_sets)
    BY <1>2 DEF AssignGroups
  <2> HIDE DEF group, new
  <2>3. /\ DOMAIN uuid_to_group' \subseteq Uuids
        /\ \A u \in DOMAIN uuid_to_group' : uuid_to_group'[u] \in Groups
    BY <1>1, <2>1, <2>2 DEF MetaType, Merge
  <2>4. /\ DOMAIN group_index_sets' \subseteq Groups
        /\ \A g \in DOMAIN group_index_sets' : group_index_sets'[g] \subseteq Members(g)
    BY <1>1, <2>1, <2>2 DEF MetaType, Merge
  <2>5. MetaType'
    BY <1>1, <1>2, <2>3, <2>4 DEF AssignGroups, MetaType
  <2>6. AllocationType'
    BY <1>2, <2>1 DEF AssignGroups, AllocationType
  <2>7. CallsType' /\ HistoryType'
    BY <1>1, <1>2 DEF AssignGroups, CallsType, HistoryType, history
  <2> QED
    BY <2>5, <2>6, <2>7 DEF TypeOK
<1>3. CASE AllocateIndex
  <2> DEFINE u == Head(allocation.todo)
             g == uuid_to_group[u]
             index == NextIndex(g)
  <2>1. /\ allocation \in [phase : {"indexes"}, uuids : Seq(Uuids),
                            allocated : Seq(Indexes), todo : Seq(Uuids)]
        /\ allocation.uuids \in Seq(Uuids)
        /\ allocation.todo \in Seq(Uuids) /\ allocation.todo # <<>>
        /\ allocation.allocated \in Seq(Indexes)
    BY <1>1, <1>3 DEF AllocationType, AllocateIndex, Idle
  <2>2. u \in Uuids /\ Tail(allocation.todo) \in Seq(Uuids)
    BY <2>1
  <2>3. CASE ~ (u \in DOMAIN uuid_to_group /\ g \in DOMAIN group_index_sets)
    BY <1>1, <1>3, <2>3
       DEF AllocateIndex, TypeOK, MetaType, AllocationType, CallsType, HistoryType
  <2>4. CASE /\ u \in DOMAIN uuid_to_group /\ g \in DOMAIN group_index_sets
             /\ Cardinality(group_index_sets[g]) >= NSamples
    <3>1. /\ allocation' = [allocation EXCEPT !.todo = Tail(@)]
          /\ UNCHANGED <<group_index_sets, owner>>
      BY <1>3, <2>4 DEF AllocateIndex
    <3>2. AllocationType'
      BY <1>1, <1>3, <2>1, <2>2, <3>1 DEF AllocateIndex, AllocationType, Idle
    <3>3. MetaType' /\ CallsType' /\ HistoryType'
      BY <1>1, <1>3, <3>1 DEF AllocateIndex, MetaType, CallsType, HistoryType
    <3> QED
      BY <3>2, <3>3 DEF TypeOK
  <2>5. CASE /\ u \in DOMAIN uuid_to_group /\ g \in DOMAIN group_index_sets
             /\ ~ (Cardinality(group_index_sets[g]) >= NSamples)
    <3>1. /\ group_index_sets' = [group_index_sets EXCEPT ![g] = @ \cup {index}]
          /\ allocation' = [allocation EXCEPT !.allocated = Append(@, index),
                                              !.todo = Tail(@)]
          /\ owner' = Merge([i \in {index} |-> u], owner)
      BY <1>3, <2>5 DEF AllocateIndex
    <3>2. index \in Members(g) /\ g \in Groups
      <4>1. g \in Groups /\ group_index_sets[g] \subseteq Members(g)
        BY <1>1, <2>5 DEF MetaType
      <4>2. Cardinality(group_index_sets[g]) \in Nat
        BY <4>1, MembersOfGroup, IndexesFinite
      <4> HIDE DEF g
      <4> QED
        BY <2>5, <4>1, <4>2, SizeAssumption DEF NextIndex, Members, Groups
    <3>3. index \in Indexes
      BY <3>2, MembersOfGroup
    <3> HIDE DEF index, g, u
    <3>4. MetaType'
      BY <1>1, <1>3, <3>1, <3>2 DEF AllocateIndex, MetaType
    <3>5. AllocationType'
      <4>1. Append(allocation.allocated, index) \in Seq(Indexes)
        BY <2>1, <3>3
      <4>2. PICK a \in Seq(Indexes), t \in Seq(Uuids) :
              allocation' = [allocation EXCEPT !.allocated = a, !.todo = t]
        BY <2>2, <3>1, <4>1
      <4> QED
        BY <2>1, <4>2 DEF AllocationType
    <3>6. CallsType'
      BY <1>1, <1>3 DEF AllocateIndex, CallsType
    <3>7. HistoryType'
      BY <1>1, <1>3, <2>2, <3>1, <3>3 DEF AllocateIndex, HistoryType, Merge
    <3> QED
      BY <3>4, <3>5, <3>6, <3>7 DEF TypeOK
  <2> QED
    BY <2>3, <2>4, <2>5
<1>4. ASSUME NEW v \in Versions, FinishAllocation(v) PROVE TypeOK'
  <2> DEFINE idxs == Range(allocation.allocated)
  <2>1. allocation.allocated \in Seq(Indexes)
    BY <1>1, <1>4 DEF AllocationType, FinishAllocation, Idle
  <2>2. idxs \subseteq Indexes
    BY <2>1 DEF Range
  <2> HIDE DEF idxs
  <2>3. LargestIndex(idxs) \in Indexes \cup {-1}
    BY <1>1, <2>2, LargestIndexIsMax DEF MetaType
  <2>4. MetaType'
    BY <1>1, <1>4, <2>3 DEF FinishAllocation, MetaType, idxs
  <2>5. AllocationType'
    BY <1>4 DEF FinishAllocation, AllocationType
  <2>6. CallsType'
    BY <1>1, <1>4, <2>2 DEF FinishAllocation, CallsType, idxs
  <2>7. HistoryType'
    BY <1>1, <1>4 DEF FinishAllocation, HistoryType, history
  <2> QED
    BY <2>4, <2>5, <2>6, <2>7 DEF TypeOK
<1> QED
  BY <1>2, <1>3, <1>4

LEMMA PutStepsTypeOK ==
    ASSUME TypeOK,
           \/ \E p \in puts : RoutePut(p) \/ record_versions(p)
           \/ \E w \in writes : update_data_status(w)
    PROVE  TypeOK'
<1>1. MetaType /\ AllocationType /\ CallsType /\ HistoryType
  BY DEF TypeOK
<1>2. ASSUME NEW p \in puts, RoutePut(p) PROVE TypeOK'
  <2>1. p \in [idxs : SUBSET Indexes, version : Versions, phase : {"route", "sent"}]
    BY <1>1 DEF CallsType
  <2>2. MetaType' /\ AllocationType' /\ HistoryType'
    BY <1>1, <1>2 DEF RoutePut, MetaType, AllocationType, HistoryType, meta, history,
                      cur_max_group_id
  <2>3. CASE Routed(p.idxs)
    <3>1. WritesFor(p.idxs, PutColumns)
             \subseteq [idxs : SUBSET Indexes, cols : SUBSET Columns]
      BY <1>1, <2>3, SplitWrites, CallerAssumption
    <3> QED
      BY <1>1, <1>2, <2>1, <2>2, <2>3, <3>1 DEF RoutePut, CallsType, TypeOK
  <2>4. CASE ~ Routed(p.idxs)
    BY <1>1, <1>2, <2>2, <2>4 DEF RoutePut, CallsType, TypeOK
  <2> QED
    BY <2>3, <2>4
<1>3. ASSUME NEW p \in puts, record_versions(p) PROVE TypeOK'
  <2>1. p.idxs \subseteq Indexes
    BY <1>1 DEF CallsType
  <2>2. MetaType'
    BY <1>1, <1>3, <2>1 DEF record_versions, MetaType
  <2>3. AllocationType' /\ CallsType' /\ HistoryType'
    BY <1>1, <1>3 DEF record_versions, AllocationType, CallsType, HistoryType, history,
                      cur_max_group_id
  <2> QED
    BY <2>2, <2>3 DEF TypeOK
<1>4. ASSUME NEW w \in writes, update_data_status(w) PROVE TypeOK'
  <2>1. w.idxs \subseteq Indexes
    BY <1>1 DEF CallsType
  <2>2. MetaType'
    BY <1>1, <1>4, <2>1 DEF update_data_status, MetaType
  <2>3. AllocationType' /\ CallsType' /\ HistoryType'
    BY <1>1, <1>4 DEF update_data_status, AllocationType, CallsType, HistoryType, history,
                      cur_max_group_id
  <2> QED
    BY <2>2, <2>3 DEF TypeOK
<1> QED
  BY <1>2, <1>3, <1>4

LEMMA FetchStepsTypeOK ==
    ASSUME TypeOK, NEW c \in Consumers, NEW latest,
           allocate_shard_and_indexes(c, latest)
    PROVE  TypeOK'
<1> DEFINE chosen == Sample(c, latest)
<1>1. MetaType /\ AllocationType /\ CallsType /\ HistoryType
  BY DEF TypeOK
<1>2. chosen \subseteq Indexes
  BY SampleIsUsable
<1>3. /\ experience_consumed' = [experience_consumed EXCEPT ![c] = @ \cup chosen]
      /\ UNCHANGED <<experience_ready, max_cur_index, global_idx_to_shard,
                     group_ids_per_shard, group_index_sets, uuid_to_group,
                     versions_to_indexes, allocation, puts, writes, pruning,
                     issued, owner, deleted>>
      /\ \/ /\ jobs' = jobs \cup {[consumer |-> c, idxs |-> chosen]}
            /\ deliveries' = [deliveries EXCEPT ![c] =
                  [i \in Indexes |-> IF i \in chosen THEN @[i] + 1 ELSE @[i]]]
         \/ UNCHANGED <<jobs, deliveries>>
  BY DEF allocate_shard_and_indexes, MarkConsumed
<1> HIDE DEF chosen
<1>4. MetaType'
  BY <1>1, <1>2, <1>3 DEF MetaType
<1>5. AllocationType'
  BY <1>1, <1>3 DEF AllocationType, cur_max_group_id
<1>6. CallsType' /\ HistoryType'
  BY <1>1, <1>2, <1>3 DEF CallsType, HistoryType
<1> QED
  BY <1>4, <1>5, <1>6 DEF TypeOK

LEMMA WriteBackTypeOK ==
    ASSUME TypeOK, NEW j \in jobs, WriteBack(j)
    PROVE  TypeOK'
<1>1. MetaType /\ AllocationType /\ CallsType /\ HistoryType
  BY DEF TypeOK
<1>2. j.consumer \in Consumers /\ Produces[j.consumer] \subseteq Columns
  BY <1>1, StageAssumption DEF CallsType
<1>3. MetaType' /\ AllocationType' /\ HistoryType'
  BY <1>1 DEF WriteBack, MetaType, AllocationType, HistoryType, meta, history,
              cur_max_group_id
<1>4. CASE Routed(j.idxs)
  <2>1. WritesFor(j.idxs, Produces[j.consumer])
           \subseteq [idxs : SUBSET Indexes, cols : SUBSET Columns]
    BY <1>1, <1>2, <1>4, SplitWrites
  <2> QED
    BY <1>1, <1>3, <1>4, <2>1 DEF WriteBack, CallsType, TypeOK
<1>5. CASE ~ Routed(j.idxs)
  BY <1>1, <1>3, <1>5 DEF WriteBack, CallsType, TypeOK
<1> QED
  BY <1>4, <1>5

LEMMA ConsumedSetTypeOK ==
    ASSUME TypeOK, NEW c \in Consumers, NEW idxs, get_data_consumed_set(c, idxs)
    PROVE  TypeOK'
<1>1. MetaType /\ AllocationType /\ CallsType /\ HistoryType
  BY DEF TypeOK
<1>2. MetaType'
  BY <1>1 DEF get_data_consumed_set, MetaType
<1>3. AllocationType' /\ CallsType' /\ HistoryType'
  BY <1>1 DEF get_data_consumed_set, AllocationType, CallsType, HistoryType, calls,
              history, cur_max_group_id
<1> QED
  BY <1>2, <1>3 DEF TypeOK

LEMMA PruneStepsTypeOK ==
    ASSUME TypeOK, (\E j \in jobs : StartPrune(j)) \/ (\E r \in pruning : FinishPrune(r))
    PROVE  TypeOK'
<1>1. MetaType /\ AllocationType /\ CallsType /\ HistoryType
  BY DEF TypeOK
<1>2. ASSUME NEW j \in jobs, StartPrune(j) PROVE TypeOK'
  <2> DEFINE r == [idxs |-> j.idxs,
                   groups |-> {<<Group(i), global_idx_to_shard[i]>> : i \in j.idxs}]
  <2>1. j.idxs \subseteq Indexes /\ j.idxs \subseteq DOMAIN global_idx_to_shard
    BY <1>1, <1>2 DEF CallsType, StartPrune, Routed
  <2>2. r.idxs \subseteq Indexes /\ r.groups \subseteq Groups \X Shards
    BY <1>1, <2>1, GroupOfIndex DEF MetaType
  <2>3. pruning' = pruning \cup {r}
    BY <1>2 DEF StartPrune
  <2> HIDE DEF r
  <2>4. MetaType'
    BY <1>1, <1>2, <2>1 DEF StartPrune, ResetStatus, MetaType, Restrict
  <2>5. AllocationType' /\ HistoryType'
    BY <1>1, <1>2, <2>1 DEF StartPrune, AllocationType, HistoryType, cur_max_group_id
  <2>6. CallsType'
    BY <1>1, <1>2, <2>2, <2>3 DEF StartPrune, CallsType
  <2> QED
    BY <2>4, <2>5, <2>6 DEF TypeOK
<1>3. ASSUME NEW r \in pruning, FinishPrune(r) PROVE TypeOK'
  <2>1. /\ DOMAIN uuid_to_group' \subseteq Uuids
        /\ \A u \in DOMAIN uuid_to_group' : uuid_to_group'[u] \in Groups
    BY <1>1, <1>3 DEF FinishPrune, CleanUuids, MetaType
  <2>2. MetaType'
    BY <1>1, <1>3, <2>1 DEF FinishPrune, MetaType
  <2>3. AllocationType' /\ CallsType' /\ HistoryType'
    BY <1>1, <1>3 DEF FinishPrune, AllocationType, CallsType, HistoryType, history,
                      cur_max_group_id
  <2> QED
    BY <2>2, <2>3 DEF TypeOK
<1> QED
  BY <1>2, <1>3

(* Every table stays within its keys, whatever the numbers of shards,      *)
(* samples, prompts and consumers, and whatever the callers do.            *)
THEOREM TypeCorrect == Spec => []TypeOK
<1>1. Init => TypeOK
  BY InitTypeOK
<1>2. TypeOK /\ [Next]_vars => TypeOK'
  <2> SUFFICES ASSUME TypeOK, [Next]_vars PROVE TypeOK'
    OBVIOUS
  <2>1. ASSUME NEW batch \in Batches, AllocateGroups(batch) PROVE TypeOK'
    BY <2>1, AllocateGroupsTypeOK
  <2>2. CASE AssignGroups \/ AllocateIndex \/ \E v \in Versions : FinishAllocation(v)
    BY <2>2, AllocationStepsTypeOK
  <2>3. CASE \/ \E p \in puts : RoutePut(p) \/ record_versions(p)
             \/ \E w \in writes : update_data_status(w)
    BY <2>3, PutStepsTypeOK
  <2>4. ASSUME NEW c \in Consumers, NEW v \in Latest, allocate_shard_and_indexes(c, v)
        PROVE  TypeOK'
    BY <2>4, FetchStepsTypeOK
  <2>5. ASSUME NEW j \in jobs, WriteBack(j) PROVE TypeOK'
    BY <2>5, WriteBackTypeOK
  <2>6. ASSUME NEW c \in Consumers, NEW idxs \in StatusQueries,
               get_data_consumed_set(c, idxs)
        PROVE  TypeOK'
    BY <2>6, ConsumedSetTypeOK
  <2>7. CASE (\E j \in jobs : StartPrune(j)) \/ (\E r \in pruning : FinishPrune(r))
    BY <2>7, PruneStepsTypeOK
  <2>8. CASE UNCHANGED vars
    BY <2>8 DEF vars, meta, calls, history, TypeOK, MetaType, AllocationType, CallsType,
                HistoryType, cur_max_group_id
  <2> QED
    BY <2>1, <2>2, <2>3, <2>4, <2>5, <2>6, <2>7, <2>8 DEF Next
<1> QED
  BY <1>1, <1>2, PTL DEF Spec

-----------------------------------------------------------------------------
(* At most one delivery *)

(* What the deliveries and the groups rest on, whatever is asked about the *)
(* consumed sets.                                                          *)
Basics == TypeOK /\ AllocatedOnly /\ DeletedIsUnrouted

DeliveryKept == Basics' /\ (DeliveredOnce => DeliveredOnce')

LEMMA InitDelivery == Init => Basics /\ DeliveredOnce
BY InitTypeOK
   DEF Init, Basics, AllocatedOnly, DeletedIsUnrouted, DeliveredOnce

LEMMA AllocationKeepsDelivery ==
    ASSUME Basics, TypeOK',
           \/ \E batch \in Batches : AllocateGroups(batch)
           \/ AssignGroups
           \/ AllocateIndex
           \/ \E v \in Versions : FinishAllocation(v)
    PROVE  DeliveryKept
<1>1. TypeOK /\ AllocatedOnly /\ DeletedIsUnrouted
  BY DEF Basics
<1>2. ASSUME NEW batch \in Batches, AllocateGroups(batch) PROVE DeliveryKept
  <2> DEFINE new == NewUuids(batch)
             ids == new_group_ids_per_shard(Cardinality(DOMAIN new))
  <2>1. AllocatedOnly' /\ (DeliveredOnce => DeliveredOnce')
    BY <1>1, <1>2 DEF AllocateGroups, AllocatedOnly, DeliveredOnce
  <2>2. CASE DOMAIN new = {}
    BY <1>1, <1>2, <2>1, <2>2 DEF AllocateGroups, DeletedIsUnrouted, Basics, DeliveryKept
  <2>3. CASE DOMAIN new # {}
    <3>1. /\ \A s \in Shards : ids[s] \subseteq Groups
          /\ global_idx_to_shard' = Merge(ShardsOf(ids), global_idx_to_shard)
          /\ deleted' = deleted
      BY <1>2, <2>3 DEF AllocateGroups
    <3>2. \A s \in Shards : \A g \in ids[s] : g \in Int /\ g > cur_max_group_id
      BY <1>1, NewUuidsAreUuids, NewIdsAreLarger DEF TypeOK
    <3> HIDE DEF ids
    <3>3. ASSUME NEW i \in DOMAIN ShardsOf(ids) PROVE i \notin deleted
      <4>1. i \in Indexes /\ Group(i) > cur_max_group_id
        BY <3>1, <3>2, ShardsOfNewIds
      <4>2. i > max_cur_index /\ max_cur_index \in Int /\ i \in Int
        BY <1>1, <4>1, LargestGroup, SizeAssumption DEF TypeOK, MetaType, Indexes
      <4> QED
        BY <1>1, <4>2 DEF AllocatedOnly
    <3> QED
      BY <1>1, <2>1, <3>1, <3>3 DEF DeletedIsUnrouted, Basics, DeliveryKept, Merge
  <2> QED
    BY <2>1, <2>2, <2>3 DEF Basics, DeliveryKept
<1>3. CASE AssignGroups
  BY <1>1, <1>3 DEF AssignGroups, history, Basics, DeliveryKept, AllocatedOnly, DeletedIsUnrouted,
                    DeliveredOnce
<1>4. CASE AllocateIndex
  BY <1>1, <1>4 DEF AllocateIndex, Basics, DeliveryKept, AllocatedOnly, DeletedIsUnrouted,
                    DeliveredOnce
<1>5. ASSUME NEW v \in Versions, FinishAllocation(v) PROVE DeliveryKept
  <2> DEFINE idxs == Range(allocation.allocated)
  <2>1. allocation.allocated \in Seq(Indexes)
    BY <1>1, <1>5 DEF TypeOK, AllocationType, FinishAllocation, Idle
  <2>2. idxs \subseteq Indexes
    BY <2>1 DEF Range
  <2> HIDE DEF idxs
  <2>3. /\ max_cur_index' \in Int /\ max_cur_index \in Int
        /\ max_cur_index' >= max_cur_index
        /\ \A i \in idxs : i <= max_cur_index'
    BY <1>1, <1>5, <2>2, LargestIndexIsMax, SizeAssumption
       DEF FinishAllocation, TypeOK, MetaType, Indexes, idxs
  <2>4. \A i \in Indexes : i \in Int /\ (i <= max_cur_index => i <= max_cur_index')
    BY <2>3, SizeAssumption DEF Indexes
  <2>5. \A p \in puts' : p \in puts \/ p.idxs = idxs
    BY <1>5 DEF FinishAllocation, idxs
  <2>6. AllocatedOnly'
    <3>1. \A p \in puts' : \A i \in p.idxs : i <= max_cur_index'
      BY <1>1, <2>3, <2>4, <2>5 DEF AllocatedOnly, TypeOK, CallsType
    <3>2. UNCHANGED <<writes, experience_ready, jobs, deleted>>
      BY <1>5 DEF FinishAllocation, history
    <3>3. \A w \in writes' : \A i \in w.idxs : i <= max_cur_index'
      BY <1>1, <2>4, <3>2 DEF AllocatedOnly, TypeOK, CallsType
    <3>4. \A j \in jobs' : \A i \in j.idxs : i <= max_cur_index'
      BY <1>1, <2>4, <3>2 DEF AllocatedOnly, TypeOK, CallsType
    <3>5. \A col \in Columns : \A i \in experience_ready'[col] : i <= max_cur_index'
      BY <1>1, <2>4, <3>2 DEF AllocatedOnly, TypeOK, MetaType
    <3>6. \A i \in deleted' : i <= max_cur_index'
      BY <1>1, <2>4, <3>2 DEF AllocatedOnly, TypeOK, HistoryType
    <3> QED
      BY <3>1, <3>3, <3>4, <3>5, <3>6 DEF AllocatedOnly
  <2>7. DeletedIsUnrouted' /\ (DeliveredOnce => DeliveredOnce')
    BY <1>1, <1>5 DEF FinishAllocation, history, DeletedIsUnrouted, DeliveredOnce
  <2> QED
    BY <2>6, <2>7 DEF Basics, DeliveryKept
<1> QED
  BY <1>2, <1>3, <1>4, <1>5

LEMMA PutKeepsDelivery ==
    ASSUME Basics, TypeOK',
           \/ \E p \in puts : RoutePut(p) \/ record_versions(p)
           \/ \E w \in writes : update_data_status(w)
           \/ \E j \in jobs : WriteBack(j)
    PROVE  DeliveryKept
<1>1. TypeOK /\ AllocatedOnly /\ DeletedIsUnrouted
  BY DEF Basics
<1>2. ASSUME NEW p \in puts, RoutePut(p) PROVE DeliveryKept
  <2>1. \A w \in writes' : w \in writes \/ w.idxs \subseteq p.idxs
    BY <1>1, <1>2, SplitWrites, CallerAssumption DEF RoutePut, TypeOK
  <2>2. \A q \in puts' : q \in puts \/ q.idxs = p.idxs
    BY <1>1, <1>2 DEF RoutePut, TypeOK, CallsType
  <2> QED
    BY <1>1, <1>2, <2>1, <2>2 DEF RoutePut, meta, history, Basics, DeliveryKept, AllocatedOnly,
       DeletedIsUnrouted, DeliveredOnce
<1>3. ASSUME NEW p \in puts, record_versions(p) PROVE DeliveryKept
  BY <1>1, <1>3 DEF record_versions, history, Basics, DeliveryKept, AllocatedOnly,
     DeletedIsUnrouted, DeliveredOnce
<1>4. ASSUME NEW w \in writes, update_data_status(w) PROVE DeliveryKept
  <2>1. \A col \in Columns : \A i \in experience_ready'[col] : i <= max_cur_index
    BY <1>1, <1>4 DEF update_data_status, AllocatedOnly
  <2> QED
    BY <1>1, <1>4, <2>1 DEF update_data_status, history, Basics, DeliveryKept, AllocatedOnly,
       DeletedIsUnrouted, DeliveredOnce
<1>5. ASSUME NEW j \in jobs, WriteBack(j) PROVE DeliveryKept
  <2>1. Produces[j.consumer] \subseteq Columns
    BY <1>1, StageAssumption DEF TypeOK, CallsType
  <2>2. \A w \in writes' : w \in writes \/ w.idxs \subseteq j.idxs
    BY <1>1, <1>5, <2>1, SplitWrites DEF WriteBack, TypeOK
  <2> QED
    BY <1>1, <1>5, <2>2 DEF WriteBack, meta, history, Basics, DeliveryKept, AllocatedOnly,
       DeletedIsUnrouted, DeliveredOnce
<1> QED
  BY <1>2, <1>3, <1>4, <1>5

LEMMA FetchKeepsDelivery ==
    ASSUME Basics, TypeOK', NEW c \in Consumers, NEW latest,
           allocate_shard_and_indexes(c, latest)
    PROVE  DeliveryKept
<1> DEFINE chosen == Sample(c, latest)
<1>1. TypeOK /\ AllocatedOnly /\ DeletedIsUnrouted
  BY DEF Basics
<1>2. chosen \subseteq Indexes \ experience_consumed[c]
  BY SampleIsUsable
<1>3. \A i \in chosen : i <= max_cur_index
  <2>1. PICK col \in Columns : col \in Requires[c]
    BY StageAssumption
  <2>2. chosen \subseteq experience_ready[col]
    BY <2>1, SampleIsUsable DEF Usable, ReadyFor
  <2> QED
    BY <1>1, <2>1, <2>2 DEF AllocatedOnly
<1>4. experience_consumed' = [experience_consumed EXCEPT ![c] = @ \cup chosen]
  BY DEF allocate_shard_and_indexes, MarkConsumed
<1>5. UNCHANGED <<experience_ready, max_cur_index, global_idx_to_shard, puts, writes,
                  deleted>>
  BY DEF allocate_shard_and_indexes
<1>6. CASE Routed(chosen)
  <2>1. /\ jobs' = jobs \cup {[consumer |-> c, idxs |-> chosen]}
        /\ deliveries' = [deliveries EXCEPT ![c] =
              [i \in Indexes |-> IF i \in chosen THEN @[i] + 1 ELSE @[i]]]
    BY <1>6 DEF allocate_shard_and_indexes
  <2>2. chosen \cap deleted = {}
    BY <1>1, <1>6 DEF Routed, DeletedIsUnrouted
  <2> HIDE DEF chosen
  <2>3. AllocatedOnly'
    BY <1>1, <1>3, <1>5, <2>1 DEF AllocatedOnly
  <2>4. ASSUME DeliveredOnce, NEW d \in Consumers, NEW i \in Indexes
        PROVE  \/ deliveries'[d][i] = 0
               \/ /\ deliveries'[d][i] = 1
                  /\ i \in experience_consumed'[d] \cup deleted'
    <3>1. CASE d = c /\ i \in chosen
      <4>1. deliveries[c][i] = 0
        BY <1>2, <2>2, <2>4, <3>1 DEF DeliveredOnce
      <4>2. deliveries'[c][i] = 1 /\ i \in experience_consumed'[c]
        BY <1>1, <1>4, <2>1, <3>1, <4>1 DEF TypeOK, MetaType, HistoryType
      <4> QED
        BY <3>1, <4>2
    <3>2. CASE ~ (d = c /\ i \in chosen)
      <4>1. deliveries'[d][i] = deliveries[d][i]
        BY <1>1, <2>1, <3>2 DEF TypeOK, HistoryType
      <4>2. experience_consumed[d] \subseteq experience_consumed'[d]
        BY <1>1, <1>4 DEF TypeOK, MetaType
      <4> QED
        BY <1>1, <1>5, <2>4, <4>1, <4>2 DEF DeliveredOnce
    <3> QED
      BY <3>1, <3>2
  <2> QED
    BY <1>1, <1>5, <2>3, <2>4 DEF Basics, DeliveryKept, DeletedIsUnrouted, DeliveredOnce
<1>7. CASE ~ Routed(chosen)
  <2>1. UNCHANGED <<jobs, deliveries>>
    BY <1>7 DEF allocate_shard_and_indexes
  <2> HIDE DEF chosen
  <2>2. \A d \in Consumers : experience_consumed[d] \subseteq experience_consumed'[d]
    BY <1>1, <1>4 DEF TypeOK, MetaType
  <2>3. DeliveredOnce => DeliveredOnce'
    BY <1>1, <1>5, <2>1, <2>2 DEF DeliveredOnce
  <2> QED
    BY <1>1, <1>5, <2>1, <2>3 DEF Basics, DeliveryKept, AllocatedOnly, DeletedIsUnrouted
<1> QED
  BY <1>6, <1>7

LEMMA PruneKeepsDelivery ==
    ASSUME Basics, TypeOK',
           (\E j \in jobs : StartPrune(j)) \/ (\E r \in pruning : FinishPrune(r))
    PROVE  DeliveryKept
<1>1. TypeOK /\ AllocatedOnly /\ DeletedIsUnrouted
  BY DEF Basics
<1>2. ASSUME NEW j \in jobs, StartPrune(j) PROVE DeliveryKept
  <2>1. AllocatedOnly'
    BY <1>1, <1>2 DEF StartPrune, ResetStatus, AllocatedOnly
  <2>2. DeletedIsUnrouted'
    BY <1>1, <1>2 DEF StartPrune, DeletedIsUnrouted, Restrict
  <2>3. \A c \in Consumers : experience_consumed[c] \subseteq experience_consumed'[c] \cup deleted'
    BY <1>1, <1>2 DEF StartPrune, ResetStatus, TypeOK, MetaType
  <2>4. DeliveredOnce => DeliveredOnce'
    BY <1>1, <1>2, <2>3 DEF StartPrune, DeliveredOnce
  <2> QED
    BY <2>1, <2>2, <2>4 DEF Basics, DeliveryKept
<1>3. ASSUME NEW r \in pruning, FinishPrune(r) PROVE DeliveryKept
  BY <1>1, <1>3 DEF FinishPrune, history, Basics, DeliveryKept, AllocatedOnly, DeletedIsUnrouted,
     DeliveredOnce
<1> QED
  BY <1>2, <1>3

LEMMA StepKeepsDelivery ==
    ASSUME Basics, TypeOK', [Next]_vars
    PROVE  Basics' /\ (StatusQueries \subseteq {{}} => DeliveryKept)
<1>1. CASE \/ \E batch \in Batches : AllocateGroups(batch)
           \/ AssignGroups
           \/ AllocateIndex
           \/ \E v \in Versions : FinishAllocation(v)
  BY <1>1, AllocationKeepsDelivery DEF DeliveryKept
<1>2. CASE \/ \E p \in puts : RoutePut(p) \/ record_versions(p)
           \/ \E w \in writes : update_data_status(w)
           \/ \E j \in jobs : WriteBack(j)
  BY <1>2, PutKeepsDelivery DEF DeliveryKept
<1>3. ASSUME NEW c \in Consumers, NEW v \in Latest, allocate_shard_and_indexes(c, v)
      PROVE  DeliveryKept
  BY <1>3, FetchKeepsDelivery
<1>4. ASSUME NEW c \in Consumers, NEW idxs \in StatusQueries,
             get_data_consumed_set(c, idxs)
      PROVE  Basics' /\ (StatusQueries \subseteq {{}} => DeliveryKept)
  <2>1. Basics'
    BY <1>4 DEF get_data_consumed_set, calls, history, Basics, AllocatedOnly, DeletedIsUnrouted
  <2>2. ASSUME StatusQueries \subseteq {{}} PROVE experience_consumed' = experience_consumed
    BY <1>4, <2>2 DEF get_data_consumed_set
  <2>3. ASSUME StatusQueries \subseteq {{}} PROVE DeliveredOnce => DeliveredOnce'
    BY <1>4, <2>2, <2>3 DEF get_data_consumed_set, history, DeliveredOnce
  <2> QED
    BY <2>1, <2>3 DEF DeliveryKept
<1>5. CASE (\E j \in jobs : StartPrune(j)) \/ (\E r \in pruning : FinishPrune(r))
  BY <1>5, PruneKeepsDelivery DEF DeliveryKept
<1>6. CASE UNCHANGED vars
  BY <1>6 DEF vars, meta, calls, history, Basics, AllocatedOnly, DeletedIsUnrouted,
     DeliveredOnce, DeliveryKept
<1> QED
  BY <1>1, <1>2, <1>3, <1>4, <1>5, <1>6 DEF Next, DeliveryKept

LEMMA BasicsHold == Spec => []Basics
<1>1. Init => Basics
  BY InitDelivery
<1>2. Basics /\ TypeOK' /\ [Next]_vars => Basics'
  BY StepKeepsDelivery
<1> QED
  BY <1>1, <1>2, TypeCorrect, PTL DEF Spec

(* A consumer never receives an index twice, for any number of shards,     *)
(* samples, consumers and stages and any interleaving, threads preempted   *)
(* or not, as long as no status query names indexes.                       *)
THEOREM DeliveredAtMostOnce ==
    ASSUME StatusQueries \subseteq {{}}
    PROVE  Spec => []AtMostOnce
<1>1. Init => DeliveryInv
  BY InitDelivery DEF DeliveryInv, Basics
<1>2. DeliveryInv /\ TypeOK' /\ [Next]_vars => DeliveryInv'
  BY StepKeepsDelivery DEF DeliveryInv, Basics, DeliveryKept
<1>3. DeliveryInv => AtMostOnce
  BY DEF DeliveryInv, DeliveredOnce, AtMostOnce
<1> QED
  BY <1>1, <1>2, <1>3, TypeCorrect, PTL DEF Spec

-----------------------------------------------------------------------------
(* Counting uuids and groups *)

(* Every set of positive positions has a first one.                        *)
LEMMA LeastPosition ==
    ASSUME NEW S \in SUBSET Nat, S # {}
    PROVE  \E n \in S : \A k \in S : n <= k
<1> DEFINE R == {ss \in Nat \X Nat : ss[1] < ss[2]}
<1>1. IsWellFoundedOn(R, Nat)
  BY NatLessThanWellFounded DEF OpToRel
<1>2. PICK n \in S : \A k \in S : ~ (k < n)
  <2> HIDE DEF R
  <2>1. PICK n \in S : \A k \in S : <<k, n>> \notin R
    BY <1>1, WFMin
  <2> QED
    BY <2>1 DEF R
<1> QED
  BY <1>2

(* Taking the first uuid of a list leaves one occurrence of it less.       *)
LEMMA OccurrencesOfTail ==
    ASSUME NEW S, NEW s \in Seq(S), s # <<>>
    PROVE  \A u : Occurrences(u, s) =
              Occurrences(u, Tail(s)) + (IF Head(s) = u THEN 1 ELSE 0)
<1> SUFFICES ASSUME NEW u
             PROVE  Occurrences(u, s) = Occurrences(u, Tail(s)) + (IF Head(s) = u THEN 1 ELSE 0)
  OBVIOUS
<1> DEFINE K == {k \in DOMAIN s : s[k] = u}
           T == {k \in DOMAIN Tail(s) : Tail(s)[k] = u}
           f == [k \in T |-> k + 1]
<1>0. s \in Seq(S) /\ s # <<>>
  OBVIOUS
<1>1. /\ DOMAIN s = 1 .. Len(s) /\ Len(s) \in Nat /\ Len(s) >= 1
      /\ DOMAIN Tail(s) = 1 .. Len(s) - 1
      /\ \A k \in 1 .. Len(s) - 1 : Tail(s)[k] = s[k + 1]
      /\ Head(s) = s[1]
  BY <1>0
<1>2. IsFiniteSet(K) /\ IsFiniteSet(T)
  <2>1. IsFiniteSet(DOMAIN s) /\ IsFiniteSet(DOMAIN Tail(s))
    BY <1>1, FS_Interval
  <2>2. K \subseteq DOMAIN s /\ T \subseteq DOMAIN Tail(s)
    OBVIOUS
  <2> HIDE DEF K, T
  <2> QED
    BY <2>1, <2>2, FS_Subset
<1>3. f \in Bijection(T, K \ {1})
  <2>1. f \in [T -> K \ {1}]
    BY <1>1
  <2>2. \A a, b \in T : f[a] = f[b] => a = b
    BY <1>1
  <2>3. ASSUME NEW k \in K \ {1} PROVE \E a \in T : f[a] = k
    <3>1. k - 1 \in T /\ f[k - 1] = k
      BY <1>1
    <3> QED
      BY <3>1
  <2> HIDE DEF f, T, K
  <2> QED
    BY <2>1, <2>2, <2>3 DEF Bijection, Injection, Surjection, IsInjective
<1>4. Cardinality(T) = Cardinality(K \ {1})
  <2> HIDE DEF f, T, K
  <2>1. ExistsBijection(T, K \ {1})
    BY <1>3 DEF ExistsBijection
  <2> QED
    BY <1>2, <2>1, FS_Bijection
<1>5. Cardinality(K \ {1}) = IF 1 \in K THEN Cardinality(K) - 1 ELSE Cardinality(K)
  BY <1>2, FS_RemoveElement
<1>6. 1 \in K <=> Head(s) = u
  BY <1>1
<1>7. Cardinality(K) \in Nat /\ Cardinality(T) \in Nat
  BY <1>2, FS_CardinalityType
<1> QED
  <2> HIDE DEF f, T, K
  <2>1. Cardinality(K) = Cardinality(T) + (IF Head(s) = u THEN 1 ELSE 0)
    BY <1>4, <1>5, <1>6, <1>7
  <2> QED
    BY <2>1 DEF K, T, Occurrences

LEMMA OccurrencesCount ==
    ASSUME NEW S, NEW s \in Seq(S), NEW u
    PROVE  /\ Occurrences(u, s) \in Nat
           /\ Occurrences(u, s) = 0 <=> \A k \in DOMAIN s : s[k] # u
           /\ Occurrences(u, s) <= Len(s)
<1> DEFINE K == {k \in DOMAIN s : s[k] = u}
<1>1. DOMAIN s = 1 .. Len(s) /\ Len(s) \in Nat
  OBVIOUS
<1>2. IsFiniteSet(DOMAIN s) /\ Cardinality(DOMAIN s) = Len(s)
  BY <1>1, FS_Interval
<1>3. IsFiniteSet(K) /\ Cardinality(K) \in Nat /\ Cardinality(K) <= Len(s)
  BY <1>2, FS_Subset, FS_CardinalityType
<1>4. Cardinality(K) = 0 <=> K = {}
  BY <1>3, FS_EmptySet
<1> QED
  BY <1>3, <1>4 DEF Occurrences

(***************************************************************************)
(* The uuids that a batch brings are numbered from 0 without a gap wide    *)
(* enough to leave the ids dealt for them.                                 *)
(***************************************************************************)
LEMMA NewUuidsAreNumbered ==
    ASSUME NEW batch \in Batches
    PROVE  LET new == NewUuids(batch)
           IN  /\ \A u \in Uuids : u \in DOMAIN new <=>
                     u \notin DOMAIN uuid_to_group /\ Occurrences(u, batch) # 0
               /\ \A u \in DOMAIN new : new[u] \in 0 .. Cardinality(DOMAIN new) - 1
               /\ \A u, v \in DOMAIN new : new[u] = new[v] => u = v
<1> DEFINE first(k) == \A j \in 1 .. k - 1 : batch[j] # batch[k]
           ks == {k \in DOMAIN batch : batch[k] \notin DOMAIN uuid_to_group /\ first(k)}
           D == {batch[k] : k \in ks}
           before(u) == {j \in ks : \E k \in ks : batch[k] = u /\ j < k}
           f == [k \in ks |-> batch[k]]
<1>1. batch \in Seq(Uuids) /\ DOMAIN batch = 1 .. Len(batch) /\ Len(batch) \in Nat
  BY CallerAssumption
<1>2. IsFiniteSet(ks) /\ ks \subseteq Nat
  <2>1. IsFiniteSet(DOMAIN batch)
    BY <1>1, FS_Interval
  <2>2. ks \subseteq DOMAIN batch
    OBVIOUS
  <2> HIDE DEF ks
  <2> QED
    BY <1>1, <2>1, <2>2, FS_Subset
<1>3. DOMAIN NewUuids(batch) = D /\ \A u \in D : NewUuids(batch)[u] = Cardinality(before(u))
  BY DEF NewUuids
<1>4. ASSUME NEW j \in ks, NEW k \in ks, batch[j] = batch[k] PROVE j = k
  BY <1>1, <1>4
<1>5. Cardinality(D) = Cardinality(ks)
  <2>1. f \in Bijection(ks, D)
    <3>1. f \in [ks -> D] /\ \A x \in D : \E k \in ks : f[k] = x
      OBVIOUS
    <3>2. \A j, k \in ks : f[j] = f[k] => j = k
      BY <1>4
    <3> HIDE DEF ks, D, f
    <3> QED
      BY <3>1, <3>2 DEF Bijection, Injection, Surjection, IsInjective
  <2> HIDE DEF ks, D, f
  <2>2. ExistsBijection(ks, D)
    BY <2>1 DEF ExistsBijection
  <2> QED
    BY <1>2, <2>2, FS_Bijection
<1>6. ASSUME NEW u \in Uuids, u \notin DOMAIN uuid_to_group, Occurrences(u, batch) # 0
      PROVE  u \in D
  <2> DEFINE K == {k \in DOMAIN batch : batch[k] = u}
  <2>1. K \in SUBSET Nat /\ K # {}
    BY <1>1, <1>6, OccurrencesCount
  <2>2. PICK n \in K : \A k \in K : n <= k
    <3> HIDE DEF K
    <3> QED
      BY <2>1, LeastPosition
  <2>3. n \in ks
    BY <1>1, <1>6, <2>2
  <2> QED
    BY <2>2, <2>3
<1>7. ASSUME NEW u \in D
      PROVE  u \notin DOMAIN uuid_to_group /\ Occurrences(u, batch) # 0
  <2>1. PICK k \in ks : u = batch[k]
    OBVIOUS
  <2>2. u \in Uuids /\ k \in DOMAIN batch
    BY <1>1, <2>1
  <2> QED
    BY <1>1, <2>1, <2>2, OccurrencesCount
<1>8. ASSUME NEW u \in D
      PROVE  \E k \in ks : batch[k] = u /\ before(u) = {j \in ks : j < k}
  BY <1>2, <1>4
<1> DEFINE below(k) == {j \in ks : j < k}
<1>9. ASSUME NEW k \in ks, NEW l \in ks, k < l
      PROVE  Cardinality(below(k)) < Cardinality(below(l))
  <2>1. below(k) \subseteq below(l) /\ k \in below(l) /\ k \notin below(k)
    BY <1>2, <1>9
  <2>2. IsFiniteSet(below(l)) /\ IsFiniteSet(below(k))
    BY <1>2, FS_Subset
  <2> HIDE DEF below
  <2> QED
    BY <2>1, <2>2, FS_Subset, FS_CardinalityType
<1>10. ASSUME NEW k \in ks PROVE Cardinality(below(k)) \in 0 .. Cardinality(ks) - 1
  <2>1. below(k) \subseteq ks /\ k \notin below(k)
    BY <1>2
  <2> HIDE DEF below, ks
  <2> QED
    BY <1>2, <2>1, FS_Subset, FS_CardinalityType
<1>11. ASSUME NEW u \in D, NEW v \in D, Cardinality(before(u)) = Cardinality(before(v))
       PROVE  u = v
  <2>1. PICK k \in ks : batch[k] = u /\ before(u) = below(k)
    BY <1>8
  <2>2. PICK l \in ks : batch[l] = v /\ before(v) = below(l)
    BY <1>8
  <2>3. Cardinality(below(k)) \in Int /\ Cardinality(below(l)) \in Int /\ k \in Int /\ l \in Int
    <3>1. Cardinality(ks) \in Nat
      BY <1>2, FS_CardinalityType
    <3> HIDE DEF below, ks
    <3> QED
      BY <1>2, <1>10, <3>1
  <2> HIDE DEF below, ks, D, before
  <2> QED
    BY <1>9, <1>11, <2>1, <2>2, <2>3
<1>12. ASSUME NEW u \in D PROVE Cardinality(before(u)) \in 0 .. Cardinality(D) - 1
  <2>1. PICK k \in ks : before(u) = below(k)
    BY <1>8
  <2> HIDE DEF below, ks, D, before
  <2> QED
    BY <1>5, <1>10, <2>1
<1>13. D \subseteq Uuids
  BY <1>1
<1> HIDE DEF D, before, ks, below, f
<1> QED
  BY <1>3, <1>6, <1>7, <1>11, <1>12, <1>13

SlotsBefore(s, needed) == UNION {{t} \X (1 .. needed[t]) : t \in 0 .. s - 1}

LEMMA SlotsAreFinite ==
    ASSUME NEW needed, \A t \in Shards : needed[t] \in Int, NEW s \in 0 .. NumShards
    PROVE  /\ IsFiniteSet(SlotsBefore(s, needed))
           /\ SlotsBefore(s, needed) = {x \in (0 .. s - 1) \X Nat : x[2] \in 1 .. needed[x[1]]}
           /\ TakenBefore(s, needed) = Cardinality(SlotsBefore(s, needed))
           /\ TakenBefore(s, needed) \in Nat
<1> DEFINE T == 0 .. s - 1
           slots == {{t} \X (1 .. needed[t]) : t \in T}
           f == [t \in T |-> {t} \X (1 .. needed[t])]
<1>1. T \subseteq Shards /\ IsFiniteSet(T)
  BY IndexesFinite, FS_Subset, SizeAssumption DEF Shards
<1>2. IsFiniteSet(slots)
  <2>1. f \in [T -> slots] /\ \A x \in slots : \E t \in T : f[t] = x
    OBVIOUS
  <2>2. f \in Surjection(T, slots)
    BY <2>1 DEF Surjection
  <2> HIDE DEF slots, f, T
  <2> QED
    BY <1>1, <2>2, FS_Surjection
<1>3. \A t \in T : IsFiniteSet({t} \X (1 .. needed[t]))
  <2> TAKE t \in T
  <2>1. needed[t] \in Int
    BY <1>1
  <2>2. IsFiniteSet(1 .. needed[t])
    <3>1. 1 \in Int
      OBVIOUS
    <3> HIDE DEF T
    <3> QED
      BY <2>1, <3>1, FS_Interval
  <2>3. IsFiniteSet({t})
    BY FS_Singleton
  <2> QED
    BY <2>2, <2>3, FS_Product
<1>4. \A x \in slots : IsFiniteSet(x)
  BY <1>3
<1>5. UNION slots = {x \in T \X Nat : x[2] \in 1 .. needed[x[1]]}
  BY <1>1
<1>6. IsFiniteSet(UNION slots)
  <2> HIDE DEF slots
  <2> QED
    BY <1>2, <1>4, FS_UNION
<1> QED
  <2>1. SlotsBefore(s, needed) = UNION slots /\ TakenBefore(s, needed) = Cardinality(UNION slots)
    BY DEF SlotsBefore, TakenBefore
  <2> HIDE DEF slots
  <2> QED
    BY <1>5, <1>6, <2>1, FS_CardinalityType

(* Each shard takes as many ids as it needs, none if it has too many.      *)
LEMMA TakenByShard ==
    ASSUME NEW needed, \A t \in Shards : needed[t] \in Int
    PROVE  /\ TakenBefore(0, needed) = 0
           /\ \A s \in Shards :
                TakenBefore(s + 1, needed) =
                  TakenBefore(s, needed) + (IF needed[s] > 0 THEN needed[s] ELSE 0)
<1>1. NumShards \in Nat /\ \A s \in Shards : s \in 0 .. NumShards /\ s + 1 \in 0 .. NumShards
  BY SizeAssumption DEF Shards
<1>2. TakenBefore(0, needed) = 0
  <2>1. 0 \in 0 .. NumShards
    BY <1>1
  <2>2. SlotsBefore(0, needed) = {}
    BY <2>1, SlotsAreFinite
  <2> QED
    BY <2>1, <2>2, SlotsAreFinite, FS_EmptySet
<1>3. ASSUME NEW s \in Shards
      PROVE  TakenBefore(s + 1, needed) =
               TakenBefore(s, needed) + (IF needed[s] > 0 THEN needed[s] ELSE 0)
  <2> DEFINE A == SlotsBefore(s, needed)
             B == {s} \X (1 .. needed[s])
             C == SlotsBefore(s + 1, needed)
  <2>1. needed[s] \in Int /\ s \in Nat /\ s \in 0 .. NumShards /\ s + 1 \in 0 .. NumShards
    BY <1>1 DEF Shards
  <2>2. /\ IsFiniteSet(A) /\ A = {x \in (0 .. s - 1) \X Nat : x[2] \in 1 .. needed[x[1]]}
        /\ TakenBefore(s, needed) = Cardinality(A) /\ Cardinality(A) \in Nat
    BY <2>1, SlotsAreFinite
  <2>3. /\ C = {x \in (0 .. s + 1 - 1) \X Nat : x[2] \in 1 .. needed[x[1]]}
        /\ TakenBefore(s + 1, needed) = Cardinality(C)
    BY <2>1, SlotsAreFinite
  <2> HIDE DEF A, C
  <2>4. IsFiniteSet(B) /\ Cardinality(B) = IF needed[s] > 0 THEN needed[s] ELSE 0
    <3>1. /\ IsFiniteSet(1 .. needed[s])
          /\ Cardinality(1 .. needed[s]) = IF needed[s] > 0 THEN needed[s] ELSE 0
      BY <2>1, FS_Interval, SMTT(30)
    <3>2. IsFiniteSet({s}) /\ Cardinality({s}) = 1
      BY FS_Singleton
    <3>3. IsFiniteSet(B) /\ Cardinality(B) = 1 * Cardinality(1 .. needed[s])
      BY <3>1, <3>2, FS_Product
    <3> QED
      BY <2>1, <3>1, <3>3
  <2>5. C = A \cup B
    <3>1. 0 .. s + 1 - 1 = (0 .. s - 1) \cup {s}
      BY <2>1
    <3> QED
      BY <2>1, <2>2, <2>3, <3>1
  <2>6. A \cap B = {}
    BY <2>1, <2>2
  <2> HIDE DEF B
  <2>7. Cardinality(A \cup B) = Cardinality(A) + Cardinality(B) - Cardinality(A \cap B)
    BY <2>2, <2>4, FS_Union
  <2>8. Cardinality(A \cap B) = 0
    BY <2>6, FS_EmptySet
  <2>9. Cardinality(B) \in Nat
    BY <2>4, FS_CardinalityType
  <2>10. Cardinality(C) = Cardinality(A) + Cardinality(B)
    BY <2>2, <2>5, <2>7, <2>8, <2>9
  <2> QED
    BY <2>2, <2>3, <2>4, <2>10
<1> QED
  BY <1>2, <1>3

(* Cell m of a row by row numbering lies within the share of its shard.    *)
LEMMA CellOfShare ==
    ASSUME NEW N \in Nat \ {0}, NEW total \in Nat, NEW m \in Nat, m < total
    PROVE  /\ m % N \in 0 .. N - 1
           /\ m \div N \in Nat
           /\ m = N * (m \div N) + (m % N)
           /\ m \div N + 1 <= total \div N + (IF m % N < total % N THEN 1 ELSE 0)
<1> DEFINE q == m \div N
           r == m % N
           Q == total \div N
           R == total % N
<1>1. q \in Int /\ r \in 0 .. N - 1 /\ m = N * q + r
  OBVIOUS
<1>2. Q \in Int /\ R \in 0 .. N - 1 /\ total = N * Q + R
  OBVIOUS
<1> HIDE DEF q, r, Q, R
<1>3. q >= 0
  <2>1. SUFFICES ASSUME q <= -1 PROVE FALSE
    BY <1>1
  <2>2. N * q <= N * (-1)
    BY <1>1, <2>1
  <2> QED
    BY <1>1, <2>2
<1>4. q <= Q
  <2>1. SUFFICES ASSUME q >= Q + 1 PROVE FALSE
    BY <1>1, <1>2
  <2>2. N * q >= N * (Q + 1)
    BY <1>1, <1>2, <2>1
  <2>3. N * (Q + 1) = N * Q + N
    BY <1>2
  <2> QED
    BY <1>1, <1>2, <2>2, <2>3
<1>5. CASE q = Q
  <2>1. r < R
    BY <1>1, <1>2, <1>5
  <2>2. q + 1 <= Q + (IF r < R THEN 1 ELSE 0)
    BY <1>1, <1>2, <1>5, <2>1
  <2>3. q \in Nat /\ r \in 0 .. N - 1 /\ m = N * q + r
    BY <1>1, <1>3
  <2> QED
    BY <2>2, <2>3 DEF q, r, Q, R
<1>6. CASE q # Q
  <2>1. q + 1 <= Q
    BY <1>1, <1>2, <1>4, <1>6
  <2>2. q + 1 <= Q + (IF r < R THEN 1 ELSE 0)
    BY <1>1, <1>2, <2>1
  <2>3. q \in Nat /\ r \in 0 .. N - 1 /\ m = N * q + r
    BY <1>1, <1>3
  <2> QED
    BY <2>2, <2>3 DEF q, r, Q, R
<1> QED
  BY <1>5, <1>6

(* What get_allocation_for_new_groups counts with.                         *)
LEMMA NeededByShards ==
    ASSUME MetaType, NEW n \in Nat
    PROVE  LET owned == {sg \in Shards \X Groups : sg[2] \in group_ids_per_shard[sg[1]]}
               total == Cardinality(owned) + n
           IN  /\ IsFiniteSet(owned) /\ Cardinality(owned) \in Nat
               /\ \A s \in Shards :
                    /\ needed_counts(n)[s] =
                         (total \div NumShards + (IF s < total % NumShards THEN 1 ELSE 0))
                           - Cardinality(group_ids_per_shard[s])
                    /\ needed_counts(n)[s] \in Int
                    /\ Cardinality(group_ids_per_shard[s]) \in Nat
                    /\ IsFiniteSet(group_ids_per_shard[s])
<1> DEFINE owned == {sg \in Shards \X Groups : sg[2] \in group_ids_per_shard[sg[1]]}
           total == Cardinality(owned) + n
           target(s) == total \div NumShards + (IF s < total % NumShards THEN 1 ELSE 0)
<1>1. IsFiniteSet(owned) /\ Cardinality(owned) \in Nat
  <2>1. IsFiniteSet(Shards \X Groups)
    BY IndexesFinite, FS_Product
  <2>2. owned \in SUBSET (Shards \X Groups)
    OBVIOUS
  <2> HIDE DEF owned
  <2> QED
    BY <2>1, <2>2, FS_Subset, FS_CardinalityType
<1>2. ASSUME NEW s \in Shards
      PROVE  /\ Cardinality(group_ids_per_shard[s]) \in Nat
             /\ IsFiniteSet(group_ids_per_shard[s])
  BY IndexesFinite, FS_Subset, FS_CardinalityType DEF MetaType
<1>3. \A s \in Shards : needed_counts(n)[s] = target(s) - Cardinality(group_ids_per_shard[s])
  BY DEF needed_counts
<1> HIDE DEF owned
<1>4. total \in Nat /\ NumShards \in Nat /\ NumShards > 0
  BY <1>1, SizeAssumption
<1>5. \A s \in Shards : target(s) \in Int
  BY <1>4
<1> HIDE DEF target
<1>6. \A s \in Shards : needed_counts(n)[s] \in Int
  BY <1>2, <1>3, <1>5
<1> QED
  BY <1>1, <1>2, <1>3, <1>6, Zenon DEF owned, target

(* All shards together are dealt at least as many groups as were asked.    *)
LEMMA EnoughIsDealt ==
    ASSUME MetaType, NEW n \in Nat
    PROVE  TakenBefore(NumShards, needed_counts(n)) >= n
<1> DEFINE owned == {sg \in Shards \X Groups : sg[2] \in group_ids_per_shard[sg[1]]}
           total == Cardinality(owned) + n
           target(s) == total \div NumShards + (IF s < total % NumShards THEN 1 ELSE 0)
           has(s) == Cardinality(group_ids_per_shard[s])
           needed == needed_counts(n)
           slots == SlotsBefore(NumShards, needed)
           sh(m) == m % NumShards
           row(m) == m \div NumShards
           M == 0 .. total - 1
           Low == {m \in M : row(m) + 1 <= has(sh(m))}
           High == {m \in M : row(m) + 1 > has(sh(m))}
<1>1. /\ IsFiniteSet(owned) /\ Cardinality(owned) \in Nat
      /\ \A s \in Shards : /\ needed[s] = target(s) - has(s)
                           /\ needed[s] \in Int /\ has(s) \in Nat
                           /\ IsFiniteSet(group_ids_per_shard[s])
  BY NeededByShards, Zenon
<1>2. NumShards \in Nat \ {0} /\ Shards = 0 .. NumShards - 1
  BY SizeAssumption DEF Shards
<1>3. /\ IsFiniteSet(slots) /\ Cardinality(slots) \in Nat
      /\ TakenBefore(NumShards, needed) = Cardinality(slots)
      /\ slots = {x \in Shards \X Nat : x[2] \in 1 .. needed[x[1]]}
  <2>1. NumShards \in 0 .. NumShards
    BY <1>2
  <2> HIDE DEF needed
  <2> QED
    BY <1>1, <1>2, <2>1, SlotsAreFinite
<1>4. total \in Nat
  <2> HIDE DEF owned
  <2> QED
    BY <1>1
<1> HIDE DEF owned, needed, slots, total
<1>5. ASSUME NEW m \in M
      PROVE  /\ sh(m) \in Shards /\ row(m) \in Nat /\ m = NumShards * row(m) + sh(m)
             /\ row(m) + 1 <= target(sh(m))
             /\ target(sh(m)) = needed[sh(m)] + has(sh(m))
  <2>1. m \in Nat /\ m < total
    BY <1>4
  <2>2. sh(m) \in Shards /\ row(m) \in Nat /\ m = NumShards * row(m) + sh(m)
        /\ row(m) + 1 <= target(sh(m))
    BY <1>2, <1>4, <2>1, CellOfShare
  <2>3. \A s \in Shards : target(s) \in Int
    BY <1>2, <1>4
  <2> HIDE DEF target, sh, row, has
  <2>4. target(sh(m)) = needed[sh(m)] + has(sh(m))
    BY <1>1, <2>2, <2>3
  <2> QED
    BY <2>2, <2>4
<1>6. \A s \in Shards : target(s) \in Int
  BY <1>2, <1>4
<1> HIDE DEF sh, row, target, has
<1>7. \A m, k \in M : sh(m) = sh(k) /\ row(m) = row(k) => m = k
  <2> SUFFICES ASSUME NEW m \in M, NEW k \in M, sh(m) = sh(k), row(m) = row(k) PROVE m = k
    OBVIOUS
  <2>1. m = NumShards * row(m) + sh(m)
    BY <1>5
  <2>2. k = NumShards * row(k) + sh(k)
    BY <1>5
  <2> QED
    BY <2>1, <2>2
<1>8. IsFiniteSet(M) /\ Cardinality(M) = total /\ Low \in SUBSET M /\ High \in SUBSET M
  BY <1>4, FS_Interval
<1>9. IsFiniteSet(Low) /\ IsFiniteSet(High) /\ Cardinality(Low) \in Nat /\ Cardinality(High) \in Nat
  <2> HIDE DEF Low, High, M
  <2> QED
    BY <1>8, FS_Subset, FS_CardinalityType
<1>10. total = Cardinality(Low) + Cardinality(High)
  <2>1. \A m \in M : row(m) + 1 \in Nat /\ has(sh(m)) \in Nat
    BY <1>1, <1>5 
  <2>2. Low \cup High = M /\ Low \cap High = {}
    BY <2>1
  <2> HIDE DEF Low, High, M
  <2>3. Cardinality(Low \cup High) = Cardinality(Low) + Cardinality(High) - Cardinality(Low \cap High)
    BY <1>9, FS_Union
  <2>4. Cardinality(Low \cap High) = 0
    BY <2>2, FS_EmptySet
  <2> QED
    BY <1>8, <1>9, <2>2, <2>3, <2>4
<1>11. Cardinality(Low) <= Cardinality(owned)
  <2> DEFINE b == [s \in Shards |-> CHOOSE b \in Bijection(1 .. has(s), group_ids_per_shard[s]) : TRUE]
             f == [m \in Low |-> <<sh(m), b[sh(m)][row(m) + 1]>>]
  <2>1. ASSUME NEW s \in Shards
        PROVE  b[s] \in Bijection(1 .. has(s), group_ids_per_shard[s])
    <3>1. \E x \in Bijection(1 .. has(s), group_ids_per_shard[s]) : TRUE
      BY <1>1, FS_CardinalityType DEF ExistsBijection, has
    <3> QED
      BY <3>1
  <2>2. ASSUME NEW s \in Shards
        PROVE  /\ \A k \in 1 .. has(s) : b[s][k] \in group_ids_per_shard[s]
               /\ \A k, l \in 1 .. has(s) : b[s][k] = b[s][l] => k = l
    <3> HIDE DEF b
    <3> QED
      BY <2>1 DEF Bijection, Injection, IsInjective
  <2>3. ASSUME NEW m \in Low PROVE m \in M /\ sh(m) \in Shards /\ row(m) + 1 \in 1 .. has(sh(m)) /\ row(m) \in Nat
    BY <1>1, <1>5
  <2>4. ASSUME NEW m \in Low PROVE <<sh(m), b[sh(m)][row(m) + 1]>> \in owned
    <3> HIDE DEF b, Low
    <3>1. group_ids_per_shard[sh(m)] \subseteq Groups
      BY <2>3 DEF MetaType
    <3> QED
      BY <2>2, <2>3, <3>1 DEF owned
  <2>5. ASSUME NEW m \in Low, NEW k \in Low, f[m] = f[k] PROVE m = k
    <3> HIDE DEF b
    <3>1. sh(m) = sh(k) /\ b[sh(m)][row(m) + 1] = b[sh(m)][row(k) + 1]
      BY <2>5
    <3> HIDE DEF Low
    <3>2. row(m) + 1 = row(k) + 1
      BY <2>2, <2>3, <3>1
    <3> QED
      BY <1>7, <2>3, <3>1, <3>2
  <2>6. f \in [Low -> owned]
    <3> HIDE DEF b, Low
    <3> QED
      BY <2>4
  <2>7. f \in Injection(Low, owned)
    <3> HIDE DEF f, Low
    <3> QED
      BY <2>5, <2>6 DEF Injection, IsInjective
  <2> HIDE DEF f, Low
  <2> QED
    BY <1>1, <2>7, FS_Injection
<1>12. Cardinality(High) <= Cardinality(slots)
  <2> DEFINE f == [m \in High |-> <<sh(m), row(m) + 1 - has(sh(m))>>]
  <2>1. ASSUME NEW m \in High
        PROVE  /\ m \in M /\ sh(m) \in Shards /\ row(m) \in Nat /\ has(sh(m)) \in Nat
               /\ row(m) + 1 > has(sh(m)) /\ needed[sh(m)] \in Int
               /\ row(m) + 1 - has(sh(m)) <= needed[sh(m)]
    <3>1. m \in M /\ row(m) + 1 > has(sh(m))
      OBVIOUS
    <3> HIDE DEF High, M
    <3> QED
      BY <1>1, <1>5, <1>6, <3>1
  <2>2. ASSUME NEW m \in High PROVE <<sh(m), row(m) + 1 - has(sh(m))>> \in slots
    <3> HIDE DEF High
    <3> QED
      BY <1>3, <2>1
  <2>3. ASSUME NEW m \in High, NEW k \in High, f[m] = f[k] PROVE m = k
    <3>1. sh(m) = sh(k) /\ row(m) + 1 - has(sh(m)) = row(k) + 1 - has(sh(m))
      BY <2>3
    <3> HIDE DEF High
    <3>2. row(m) = row(k)
      BY <2>1, <3>1
    <3> QED
      BY <1>7, <2>1, <3>1, <3>2
  <2>4. f \in [High -> slots]
    <3> HIDE DEF High
    <3> QED
      BY <2>2
  <2>5. f \in Injection(High, slots)
    <3> HIDE DEF f, High
    <3> QED
      BY <2>3, <2>4 DEF Injection, IsInjective
  <2> HIDE DEF f, High
  <2> QED
    BY <1>3, <2>5, FS_Injection
<1> QED
  <2> HIDE DEF Low, High
  <2>1. total = Cardinality(owned) + n
    BY DEF total
  <2>2. Cardinality(owned) + n <= Cardinality(owned) + Cardinality(slots)
    BY <1>1, <1>3, <1>9, <1>10, <1>11, <1>12, <2>1
  <2> QED
    BY <1>1, <1>3, <2>2 DEF needed

(* So the groups of all new uuids are dealt to some shard.                 *)
LEMMA NewGroupsAreDealt ==
    ASSUME MetaType, NEW n \in Nat, NEW k \in 0 .. n - 1
    PROVE  \E s \in Shards : cur_max_group_id + 1 + k \in new_group_ids_per_shard(n)[s]
<1> DEFINE needed == needed_counts(n)
           T(s) == TakenBefore(s, needed)
           past == {m \in 0 .. NumShards : T(m) > k}
<1>1. NumShards \in Nat \ {0} /\ Shards = 0 .. NumShards - 1
  BY SizeAssumption DEF Shards
<1>2. \A s \in Shards : needed[s] \in Int
  BY NeededByShards
<1>3. /\ T(0) = 0
      /\ \A s \in Shards : T(s + 1) = T(s) + (IF needed[s] > 0 THEN needed[s] ELSE 0)
  <2> HIDE DEF needed
  <2> QED
    BY <1>2, TakenByShard
<1>4. \A s \in 0 .. NumShards : T(s) \in Nat
  <2> HIDE DEF needed
  <2> QED
    BY <1>2, SlotsAreFinite
<1>5. T(NumShards) >= n
  BY EnoughIsDealt
<1> HIDE DEF needed, T
<1>6. past \in SUBSET Nat /\ NumShards \in past
  BY <1>1, <1>4, <1>5
<1>7. PICK m \in past : \A j \in past : m <= j
  <2> HIDE DEF past
  <2> QED
    BY <1>6, LeastPosition
<1>8. m \in 0 .. NumShards /\ T(m) > k
  OBVIOUS
<1>9. m # 0
  BY <1>3, <1>8
<1>10. m - 1 \in Shards /\ m - 1 \in 0 .. NumShards /\ m - 1 \notin past /\ (m - 1) + 1 = m
  <2>1. m \in Nat /\ m - 1 \in 0 .. NumShards /\ m - 1 \in Shards /\ (m - 1) + 1 = m
    BY <1>1, <1>8, <1>9
  <2>2. m - 1 \notin past
    <3> HIDE DEF past
    <3> QED
      BY <1>7, <2>1
  <2> QED
    BY <2>1, <2>2
<1>11. T(m - 1) <= k /\ T(m - 1) \in Nat /\ T(m) \in Nat
  BY <1>4, <1>8, <1>10
<1>12. T(m) = T(m - 1) + (IF needed[m - 1] > 0 THEN needed[m - 1] ELSE 0)
  BY <1>3, <1>10
<1>13. k < T(m - 1) + needed[m - 1] /\ needed[m - 1] \in Int
  BY <1>2, <1>8, <1>10, <1>11, <1>12
<1>14. cur_max_group_id \in Int
  BY LargestGroup DEF MetaType, Groups
<1>15. new_group_ids_per_shard(n)[m - 1] =
         cur_max_group_id + 1 + T(m - 1) .. cur_max_group_id + 1 + T(m - 1) + needed[m - 1] - 1
  BY <1>10 DEF new_group_ids_per_shard, needed, T
<1>16. cur_max_group_id + 1 + k \in
         cur_max_group_id + 1 + T(m - 1) .. cur_max_group_id + 1 + T(m - 1) + needed[m - 1] - 1
  BY <1>11, <1>13, <1>14
<1> QED
  BY <1>10, <1>15, <1>16

(* When the uuids get their groups, all indexes of those have a shard.     *)
LEMMA NewGroupsAreRouted ==
    ASSUME TypeOK, NEW batch \in Batches, AllocateGroups(batch),
           NEW u \in DOMAIN NewUuids(batch)
    PROVE  LET g == cur_max_group_id + 1 + NewUuids(batch)[u]
           IN  /\ g \in Groups
               /\ g > cur_max_group_id
               /\ Members(g) \subseteq DOMAIN global_idx_to_shard'
<1> DEFINE new == NewUuids(batch)
           n == Cardinality(DOMAIN new)
           ids == new_group_ids_per_shard(n)
           g == cur_max_group_id + 1 + new[u]
<1>1. MetaType /\ n \in Nat
  BY NewUuidsAreUuids DEF TypeOK
<1>2. new[u] \in 0 .. n - 1
  BY NewUuidsAreNumbered
<1>3. cur_max_group_id \in Int
  BY <1>1, LargestGroup DEF MetaType, Groups
<1>4. g \in Groups /\ DOMAIN new # {}
  BY DEF AllocateGroups
<1>5. /\ \A s \in Shards : ids[s] \subseteq Groups
      /\ global_idx_to_shard' = Merge(ShardsOf(ids), global_idx_to_shard)
  BY <1>4 DEF AllocateGroups
<1>6. PICK s \in Shards : g \in ids[s]
  <2> HIDE DEF new
  <2>1. \A k \in 0 .. n - 1 : \E s \in Shards : cur_max_group_id + 1 + k \in ids[s]
    BY <1>1, NewGroupsAreDealt
  <2> QED
    BY <1>2, <2>1
<1>7. Members(g) \subseteq DOMAIN ShardsOf(ids)
  <2> HIDE DEF g, ids
  <2> QED
    BY <1>6 DEF ShardsOf
<1>8. DOMAIN ShardsOf(ids) \subseteq DOMAIN global_idx_to_shard'
  <2> HIDE DEF ids
  <2> QED
    BY <1>5 DEF Merge
<1>9. g > cur_max_group_id
  BY <1>1, <1>2, <1>3
<1> QED
  BY <1>4, <1>7, <1>8, <1>9

-----------------------------------------------------------------------------
(* A group for every prompt *)

(* The agent loop puts all the samples of a prompt at once.                *)
PutWhole == \A batch \in Batches, u \in Uuids : Occurrences(u, batch) \in {0, NSamples}

Unused(u) == u \notin DOMAIN uuid_to_group /\ \A i \in DOMAIN owner : owner[i] # u

Below ==
    \A i \in DOMAIN owner :
        \/ i <= max_cur_index
        \/ allocation.phase = "indexes" /\ i \in Range(allocation.allocated)

(* The indexes that an allocation has found so far are new.                *)
Above ==
    allocation.phase = "indexes" =>
      \A i \in Range(allocation.allocated) : i > max_cur_index

SentWhole ==
    \A u \in Uuids : issued[u] \in {0, NSamples} /\ (issued[u] = 0 => Unused(u))

(* Between the two halves of an allocation: a uuid of the put is new, and  *)
(* the group it will get is above all others and has its shard.            *)
NewGroup(u) == cur_max_group_id + 1 + allocation.new[u]

Dealt ==
    allocation.phase = "groups" =>
      \A u \in Uuids :
        IF u \in DOMAIN allocation.new
        THEN /\ Occurrences(u, allocation.uuids) = NSamples
             /\ issued[u] = NSamples
             /\ Unused(u)
             /\ NewGroup(u) > cur_max_group_id
             /\ Routed(Members(NewGroup(u)))
             /\ \A v \in DOMAIN allocation.new : NewGroup(u) = NewGroup(v) => u = v
        ELSE Occurrences(u, allocation.uuids) = 0

(* In the loop: the group of a prompt has the indexes of the samples that  *)
(* the loop has passed, the first ones, and no other prompt has any.       *)
Passed(u) == NSamples - Occurrences(u, allocation.todo)

NumberedPrompt(u) ==
    LET g == uuid_to_group[u]
    IN  /\ u \in DOMAIN uuid_to_group
        /\ g \in DOMAIN group_index_sets
        /\ issued[u] = NSamples
        /\ g > cur_max_group_id
        /\ Routed(Members(g))
        /\ Passed(u) >= 0
        /\ group_index_sets[g] = g * NSamples .. g * NSamples + Passed(u) - 1
        /\ \A i \in DOMAIN owner : owner[i] = u <=> Group(i) = g
        /\ \A i \in Members(g) : i \in DOMAIN owner <=> i \in group_index_sets[g]

Prompts == {allocation.uuids[k] : k \in DOMAIN allocation.uuids}

Numbered ==
    allocation.phase = "indexes" =>
      /\ \A k \in DOMAIN allocation.todo : allocation.todo[k] \in Prompts
      /\ \A u \in Prompts : NumberedPrompt(u)
      /\ \A u, v \in Prompts : uuid_to_group[u] = uuid_to_group[v] => u = v

PromptInv ==
    /\ Below /\ Above
    /\ SentWhole /\ Dealt /\ Numbered
    /\ GroupIsOnePrompt /\ RoutedUntilDeleted

LEMMA AllocateGroupsKeepsPrompts ==
    ASSUME PutWhole, TypeOK, PromptInv, NEW batch \in Batches, AllocateGroups(batch)
    PROVE  PromptInv'
<1> DEFINE new == NewUuids(batch)
           ids == new_group_ids_per_shard(Cardinality(DOMAIN new))
<1>1. /\ Below /\ SentWhole /\ GroupIsOnePrompt /\ RoutedUntilDeleted
      /\ MetaType /\ HistoryType /\ NSamples \in Nat \ {0}
  BY SizeAssumption DEF PromptInv, TypeOK
<1>2. /\ allocation = Idle
      /\ \A u \in Uuids : issued[u] + Occurrences(u, batch) <= NSamples
      /\ issued' = [u \in Uuids |-> issued[u] + Occurrences(u, batch)]
      /\ allocation' = [phase |-> "groups", new |-> new, uuids |-> batch]
      /\ UNCHANGED <<max_cur_index, uuid_to_group, owner, deleted>>
  BY DEF AllocateGroups
<1>3. /\ \A u \in DOMAIN new : u \in Uuids
      /\ \A u \in Uuids : u \in DOMAIN new <=>
            u \notin DOMAIN uuid_to_group /\ Occurrences(u, batch) # 0
      /\ \A u, v \in DOMAIN new : new[u] = new[v] => u = v
      /\ \A u \in DOMAIN new : new[u] \in Int
  <2>1. /\ \A u \in DOMAIN new : new[u] \in 0 .. Cardinality(DOMAIN new) - 1
        /\ \A u \in Uuids : u \in DOMAIN new <=>
              u \notin DOMAIN uuid_to_group /\ Occurrences(u, batch) # 0
        /\ \A u, v \in DOMAIN new : new[u] = new[v] => u = v
    BY NewUuidsAreNumbered
  <2>2. DOMAIN new \subseteq Uuids
    BY NewUuidsAreUuids
  <2> HIDE DEF new
  <2> QED
    BY <2>1, <2>2
<1>4. \A u \in DOMAIN new : LET g == cur_max_group_id + 1 + new[u]
                            IN  /\ g > cur_max_group_id
                                /\ Members(g) \subseteq DOMAIN global_idx_to_shard'
  BY NewGroupsAreRouted
<1>5. \A u \in Uuids : Occurrences(u, batch) \in {0, NSamples}
  BY DEF PutWhole
<1>6. DOMAIN global_idx_to_shard \subseteq DOMAIN global_idx_to_shard'
  BY DEF AllocateGroups, Merge
<1> HIDE DEF new
<1>7. Below'
  BY <1>1, <1>2 DEF Below, Idle
<1>8. ASSUME NEW u \in Uuids
      PROVE  /\ issued'[u] \in {0, NSamples}
             /\ issued'[u] = 0 => Unused(u)
             /\ Occurrences(u, batch) = NSamples => issued'[u] = NSamples /\ Unused(u)
             /\ u \notin DOMAIN new => Occurrences(u, batch) = 0
  <2>1. issued[u] \in {0, NSamples} /\ (issued[u] = 0 => Unused(u))
    BY <1>1 DEF SentWhole
  <2>2. issued'[u] = issued[u] + Occurrences(u, batch) /\ issued'[u] <= NSamples
    BY <1>2
  <2>3. Occurrences(u, batch) \in {0, NSamples}
    BY <1>5
  <2>4. CASE issued[u] = 0
    BY <1>1, <1>3, <2>1, <2>2, <2>3, <2>4 DEF Unused
  <2>5. CASE issued[u] = NSamples
    BY <1>1, <1>3, <2>1, <2>2, <2>3, <2>5
  <2> QED
    BY <2>1, <2>4, <2>5
<1>9. \A u : Unused(u)' <=> Unused(u)
  BY <1>2 DEF Unused
<1>10. SentWhole'
  BY <1>8, <1>9 DEF SentWhole
<1>11. cur_max_group_id' = cur_max_group_id /\ cur_max_group_id \in Int
  BY <1>1, <1>2, LargestGroup DEF cur_max_group_id, MetaType, Groups
<1>12. Dealt'
  <2> SUFFICES ASSUME NEW u \in Uuids
      PROVE
        IF u \in DOMAIN allocation'.new
        THEN /\ Occurrences(u, allocation'.uuids) = NSamples
             /\ issued'[u] = NSamples
             /\ Unused(u)'
             /\ NewGroup(u)' > cur_max_group_id'
             /\ Routed(Members(NewGroup(u)))'
             /\ \A v \in DOMAIN allocation'.new : NewGroup(u)' = NewGroup(v)' => u = v
        ELSE Occurrences(u, allocation'.uuids) = 0
    BY <1>2 DEF Dealt
  <2>1. allocation'.new = new /\ allocation'.uuids = batch
    BY <1>2
  <2>2. \A v : NewGroup(v)' = cur_max_group_id + 1 + new[v]
    BY <1>11, <2>1 DEF NewGroup
  <2>3. CASE u \notin DOMAIN new
    BY <1>8, <2>1, <2>3
  <2>4. CASE u \in DOMAIN new
    <3>1. Occurrences(u, batch) = NSamples
      BY <1>3, <1>5, <2>4
    <3>2. issued'[u] = NSamples /\ Unused(u)'
      BY <1>8, <1>9, <3>1
    <3>3. NewGroup(u)' > cur_max_group_id'
      BY <1>4, <1>11, <2>2, <2>4
    <3>4. Routed(Members(NewGroup(u)))'
      BY <1>4, <2>2, <2>4 DEF Routed, Members
    <3>5. ASSUME NEW v \in DOMAIN new, NewGroup(u)' = NewGroup(v)' PROVE u = v
      BY <1>3, <1>11, <2>2, <2>4, <3>5
    <3> QED
      BY <2>1, <2>4, <3>1, <3>2, <3>3, <3>4, <3>5
  <2> QED
    BY <2>3, <2>4
<1>13. Numbered' /\ Above'
  BY <1>2 DEF Numbered, Above
<1>14. GroupIsOnePrompt' /\ RoutedUntilDeleted'
  BY <1>1, <1>2, <1>6 DEF GroupIsOnePrompt, RoutedUntilDeleted
<1> QED
  BY <1>7, <1>10, <1>12, <1>13, <1>14 DEF PromptInv

LEMMA AboveLargest ==
    ASSUME TypeOK, NEW i \in Indexes
    PROVE  /\ i \in Int /\ max_cur_index \in Int /\ cur_max_group_id \in Int
           /\ Group(i) \in Int
           /\ Group(i) > cur_max_group_id => i > max_cur_index
<1>1. MetaType
  BY DEF TypeOK
<1> QED
  BY <1>1, LargestGroup, GroupOfIndex, SizeAssumption DEF MetaType, Groups, Indexes

LEMMA AssignGroupsKeepsPrompts ==
    ASSUME TypeOK, PromptInv, AssignGroups
    PROVE  PromptInv'
<1> DEFINE new == allocation.new
           uuids == allocation.uuids
<1>1. /\ Below /\ SentWhole /\ Dealt /\ GroupIsOnePrompt /\ RoutedUntilDeleted
      /\ MetaType /\ HistoryType /\ NSamples \in Nat \ {0}
  BY SizeAssumption DEF PromptInv, TypeOK
<1>2. allocation.phase = "groups"
  BY DEF AssignGroups
<1>3. /\ uuids \in Seq(Uuids)
      /\ \A u \in DOMAIN new : u \in Uuids /\ NewGroup(u) \in Groups
  BY <1>2 DEF TypeOK, AllocationType, Idle, NewGroup
<1>4. /\ uuid_to_group' = Merge([u \in DOMAIN new |-> NewGroup(u)], uuid_to_group)
      /\ group_index_sets' = Merge([g \in {NewGroup(u) : u \in DOMAIN new} |-> {}], group_index_sets)
      /\ allocation' = [phase |-> "indexes", uuids |-> uuids, allocated |-> <<>>, todo |-> uuids]
      /\ UNCHANGED <<max_cur_index, global_idx_to_shard, issued, owner, deleted>>
  BY DEF AssignGroups, NewGroup, history
<1>5. \A u \in Uuids :
        IF u \in DOMAIN new
        THEN /\ Occurrences(u, uuids) = NSamples
             /\ issued[u] = NSamples
             /\ Unused(u)
             /\ NewGroup(u) > cur_max_group_id
             /\ Routed(Members(NewGroup(u)))
             /\ \A v \in DOMAIN new : NewGroup(u) = NewGroup(v) => u = v
        ELSE Occurrences(u, uuids) = 0
  BY <1>1, <1>2 DEF Dealt
<1> HIDE DEF new, uuids
<1>6. /\ DOMAIN uuid_to_group' = DOMAIN new \cup DOMAIN uuid_to_group
      /\ \A u \in DOMAIN new : uuid_to_group'[u] = NewGroup(u)
      /\ DOMAIN group_index_sets' = {NewGroup(u) : u \in DOMAIN new} \cup DOMAIN group_index_sets
      /\ \A u \in DOMAIN new : group_index_sets'[NewGroup(u)] = {}
  BY <1>4 DEF Merge
<1>7. Below' /\ Above'
  <2>1. Range(<<>>) = {}
    BY DEF Range
  <2> QED
    BY <1>1, <1>2, <1>4, <2>1 DEF Below, Above
<1>8. SentWhole'
  BY <1>1, <1>4, <1>5, <1>6 DEF SentWhole, Unused
<1>9. Prompts' \subseteq DOMAIN new
  <2>1. Prompts' = {uuids[k] : k \in DOMAIN uuids}
    BY <1>4 DEF Prompts
  <2>2. ASSUME NEW k \in DOMAIN uuids PROVE uuids[k] \in DOMAIN new
    <3>1. uuids[k] \in Uuids
      BY <1>3
    <3>2. Occurrences(uuids[k], uuids) # 0
      BY <1>3, OccurrencesCount
    <3> QED
      BY <1>5, <3>1, <3>2
  <2> QED
    BY <2>1, <2>2
<1>10. \A k \in DOMAIN allocation'.todo : allocation'.todo[k] \in Prompts'
  BY <1>4 DEF Prompts
<1>11. \A i \in DOMAIN owner : i \in Indexes /\ i <= max_cur_index
  BY <1>1, <1>2 DEF Below, HistoryType
<1>12. cur_max_group_id' = cur_max_group_id
  BY <1>4 DEF cur_max_group_id
<1>13. ASSUME NEW u \in DOMAIN new PROVE NumberedPrompt(u)'
  <2> DEFINE g == NewGroup(u)
  <2>1. /\ u \in Uuids /\ g \in Groups /\ Occurrences(u, uuids) = NSamples
        /\ issued[u] = NSamples /\ Unused(u) /\ g > cur_max_group_id
        /\ Routed(Members(g))
    BY <1>3, <1>5
  <2>2. uuid_to_group'[u] = g /\ u \in DOMAIN uuid_to_group'
        /\ g \in DOMAIN group_index_sets' /\ group_index_sets'[g] = {}
    BY <1>6
  <2>3. \A i \in Members(g) : i \in Indexes /\ Group(i) = g
    BY <2>1, MembersOfGroup
  <2> HIDE DEF g
  <2>4. Passed(u)' = 0
    BY <1>1, <1>4, <2>1 DEF Passed, Occurrences
  <2>5. ASSUME NEW i \in DOMAIN owner PROVE owner[i] # u /\ Group(i) # g
    BY <1>11, <2>1, AboveLargest DEF Unused
  <2>6. ASSUME NEW i \in Members(g) PROVE i \notin DOMAIN owner
    BY <2>3, <2>5
  <2>7. group_index_sets'[g] = g * NSamples .. g * NSamples + Passed(u)' - 1
    <3>1. g * NSamples \in Nat
      BY <1>1, <2>1 DEF Groups
    <3> QED
      BY <2>2, <2>4, <3>1
  <2>8. Members(g) \subseteq DOMAIN global_idx_to_shard'
    BY <1>4, <2>1 DEF Routed
  <2>9. \A i \in DOMAIN owner' : owner'[i] = u <=> Group(i) = g
    BY <1>4, <2>5
  <2>10. \A i \in Members(g) : i \in DOMAIN owner' <=> i \in group_index_sets'[g]
    BY <1>4, <2>2, <2>6
  <2>11. /\ issued'[u] = NSamples
         /\ g > cur_max_group_id'
         /\ Passed(u)' >= 0
    BY <1>4, <1>12, <2>1, <2>4
  <2> QED
    BY <2>2, <2>7, <2>8, <2>9, <2>10, <2>11 DEF NumberedPrompt, Routed, Members, Group
<1>14. \A u, v \in DOMAIN new : uuid_to_group'[u] = uuid_to_group'[v] => u = v
  BY <1>3, <1>5, <1>6
<1>15. Numbered'
  BY <1>9, <1>10, <1>13, <1>14 DEF Numbered
<1>16. Dealt' /\ GroupIsOnePrompt' /\ RoutedUntilDeleted'
  BY <1>1, <1>4 DEF Dealt, GroupIsOnePrompt, RoutedUntilDeleted
<1> QED
  BY <1>7, <1>8, <1>15, <1>16 DEF PromptInv

(* The next index of the prompt is free, belongs to its group and follows  *)
(* those the group has.                                                    *)
LEMMA NextIsFree ==
    ASSUME TypeOK, Numbered, allocation.phase = "indexes", allocation.todo # <<>>
    PROVE  LET u == Head(allocation.todo)
               g == uuid_to_group[u]
           IN  /\ u \in Prompts /\ u \in Uuids /\ g \in Groups
               /\ Passed(u) \in 0 .. NSamples - 1
               /\ NextIndex(g) = g * NSamples + Passed(u)
               /\ NextIndex(g) \in Members(g)
               /\ Cardinality(group_index_sets[g]) < NSamples
               /\ NextIndex(g) \notin DOMAIN owner
               /\ NextIndex(g) > max_cur_index
<1> DEFINE u == Head(allocation.todo)
           g == uuid_to_group[u]
           todo == allocation.todo
<1>1. /\ todo \in Seq(Uuids) /\ todo # <<>> /\ MetaType /\ NSamples \in Nat \ {0}
      /\ allocation.uuids \in Seq(Uuids)
  BY SizeAssumption DEF TypeOK, AllocationType, Idle
<1>2. 1 \in DOMAIN todo /\ u = todo[1] /\ u \in Uuids
  BY <1>1
<1>3. u \in Prompts
  BY <1>2 DEF Numbered
<1>4. NumberedPrompt(u)
  BY <1>3 DEF Numbered
<1> HIDE DEF u, todo
<1>5. /\ u \in DOMAIN uuid_to_group /\ g \in Groups /\ g \in Nat
      /\ g > cur_max_group_id
      /\ Passed(u) >= 0
      /\ group_index_sets[g] = g * NSamples .. g * NSamples + Passed(u) - 1
      /\ \A i \in Members(g) : i \in DOMAIN owner <=> i \in group_index_sets[g]
  BY <1>1, <1>4 DEF NumberedPrompt, MetaType, Groups
<1> HIDE DEF g
<1>6. Occurrences(u, todo) \in Nat /\ Occurrences(u, todo) # 0
  BY <1>1, <1>2, OccurrencesCount
<1>7. Passed(u) = NSamples - Occurrences(u, todo)
  BY DEF Passed, todo
<1>8. Passed(u) \in 0 .. NSamples - 1
  BY <1>1, <1>5, <1>6, <1>7
<1> DEFINE base == g * NSamples
<1>9. base \in Nat
  BY <1>1, <1>5
<1>10. Cardinality(group_index_sets[g]) = Passed(u)
  <2>1. group_index_sets[g] = base .. base + Passed(u) - 1
    BY <1>5
  <2> DEFINE last == base + Passed(u) - 1
  <2> HIDE DEF base
  <2>2. last \in Int /\ base \in Int
    BY <1>8, <1>9
  <2>3. Cardinality(base .. last) = IF base > last THEN 0 ELSE last - base + 1
    <3> HIDE DEF last
    <3> QED
      BY <2>2, FS_Interval
  <2> QED
    BY <1>8, <1>9, <2>1, <2>3
<1>11. NextIndex(g) = base + Passed(u)
  BY <1>10 DEF NextIndex
<1>12. NextIndex(g) \in Members(g)
  <2>1. Members(g) = base .. base + NSamples - 1
    BY DEF Members
  <2> HIDE DEF base
  <2> QED
    BY <1>1, <1>8, <1>9, <1>11, <2>1
<1>13. NextIndex(g) \notin group_index_sets[g]
  <2>1. group_index_sets[g] = base .. base + Passed(u) - 1
    BY <1>5
  <2> HIDE DEF base
  <2> QED
    BY <1>8, <1>9, <1>11, <2>1
<1>14. NextIndex(g) \notin DOMAIN owner
  BY <1>5, <1>12, <1>13
<1>15. NextIndex(g) > max_cur_index
  <2>1. NextIndex(g) \in Indexes /\ Group(NextIndex(g)) = g
    BY <1>5, <1>12, MembersOfGroup
  <2> QED
    BY <1>5, <2>1, AboveLargest
<1>16. Cardinality(group_index_sets[g]) < NSamples
  BY <1>1, <1>8, <1>10
<1>17. NextIndex(g) = g * NSamples + Passed(u)
  BY <1>11
<1> QED
  BY <1>2, <1>3, <1>5, <1>8, <1>12, <1>14, <1>15, <1>16, <1>17 DEF u, g

(* What a turn of the loop does when the put is whole: it never fails and  *)
(* never finds a group full.                                               *)
LEMMA LoopTurn ==
    ASSUME TypeOK, Numbered, AllocateIndex
    PROVE  LET u == Head(allocation.todo)
               g == uuid_to_group[u]
               index == NextIndex(g)
           IN  /\ group_index_sets' = [group_index_sets EXCEPT ![g] = @ \cup {index}]
               /\ allocation' = [allocation EXCEPT !.allocated = Append(@, index),
                                                   !.todo = Tail(@)]
               /\ owner' = Merge([i \in {index} |-> u], owner)
               /\ UNCHANGED <<max_cur_index, global_idx_to_shard, uuid_to_group, issued, deleted>>
<1>1. allocation.phase = "indexes" /\ allocation.todo # <<>>
  BY DEF AllocateIndex
<1> DEFINE u == Head(allocation.todo)
           g == uuid_to_group[u]
<1>2. u \in Prompts /\ Cardinality(group_index_sets[g]) < NSamples /\ g \in Groups
  BY <1>1, NextIsFree
<1>3. u \in DOMAIN uuid_to_group /\ g \in DOMAIN group_index_sets
  BY <1>1, <1>2 DEF Numbered, NumberedPrompt
<1>4. ~ (Cardinality(group_index_sets[g]) >= NSamples)
  <2>1. Cardinality(group_index_sets[g]) \in Nat
    <3>1. group_index_sets[g] \subseteq Members(g) /\ Members(g) \subseteq Indexes
      BY <1>2, <1>3, MembersOfGroup DEF TypeOK, MetaType
    <3> QED
      BY <3>1, IndexesFinite
  <2> QED
    BY <1>2, <2>1, SizeAssumption
<1> QED
  BY <1>3, <1>4 DEF AllocateIndex

LEMMA AllocateIndexKeepsPrompts ==
    ASSUME TypeOK, PromptInv, AllocateIndex
    PROVE  PromptInv'
<1> PICK todo, u, g, index :
         /\ todo = allocation.todo
         /\ u = Head(todo)
         /\ g = uuid_to_group[u]
         /\ index = NextIndex(g)
  OBVIOUS
<1>1. /\ Below /\ Above /\ SentWhole /\ Numbered /\ GroupIsOnePrompt /\ RoutedUntilDeleted
      /\ MetaType /\ HistoryType /\ NSamples \in Nat \ {0}
  BY SizeAssumption DEF PromptInv, TypeOK
<1>2. allocation.phase = "indexes" /\ todo # <<>>
  BY DEF AllocateIndex
<1>3. todo \in Seq(Uuids) /\ allocation.allocated \in Seq(Indexes)
  BY <1>2 DEF TypeOK, AllocationType, Idle
<1>4. /\ u \in Prompts /\ u \in Uuids /\ g \in Groups
      /\ Passed(u) \in 0 .. NSamples - 1
      /\ index = g * NSamples + Passed(u)
      /\ index \in Members(g) /\ index \notin DOMAIN owner /\ index > max_cur_index
  BY <1>1, <1>2, NextIsFree
<1>5. /\ group_index_sets' = [group_index_sets EXCEPT ![g] = @ \cup {index}]
      /\ allocation' = [allocation EXCEPT !.allocated = Append(@, index), !.todo = Tail(@)]
      /\ owner' = Merge([i \in {index} |-> u], owner)
      /\ UNCHANGED <<max_cur_index, global_idx_to_shard, uuid_to_group, issued, deleted>>
  BY <1>1, LoopTurn
<1>6. NumberedPrompt(u) /\ \A v \in Prompts : NumberedPrompt(v)
  BY <1>1, <1>2, <1>4 DEF Numbered
<1>7. index \in Indexes /\ Group(index) = g
  BY <1>4, MembersOfGroup
<1>8. \A v : Occurrences(v, todo) = Occurrences(v, Tail(todo)) + (IF u = v THEN 1 ELSE 0)
  BY <1>2, <1>3, OccurrencesOfTail
<1>9. \A v : Occurrences(v, todo) \in Nat /\ Occurrences(v, Tail(todo)) \in Nat
  <2>1. Tail(todo) \in Seq(Uuids)
    BY <1>2, <1>3
  <2> QED
    BY <1>3, <2>1, OccurrencesCount
<1>10. /\ allocation'.phase = allocation.phase /\ allocation'.uuids = allocation.uuids
       /\ allocation'.allocated = Append(allocation.allocated, index)
       /\ allocation'.todo = Tail(todo)
  BY <1>2, <1>5 DEF TypeOK, AllocationType, Idle
<1>11. /\ DOMAIN owner' = DOMAIN owner \cup {index}
       /\ owner'[index] = u
       /\ \A i \in DOMAIN owner : owner'[i] = owner[i]
  BY <1>4, <1>5 DEF Merge
<1>12. Below' /\ Above'
  <2> DEFINE s == allocation.allocated
  <2>1. Range(allocation'.allocated) = Range(allocation.allocated) \cup {index}
    <3>1. s \in Seq(Indexes)
      BY <1>3
    <3> HIDE DEF s
    <3>2. /\ DOMAIN Append(s, index) = DOMAIN s \cup {Len(s) + 1}
          /\ Append(s, index)[Len(s) + 1] = index
          /\ \A k \in DOMAIN s : Append(s, index)[k] = s[k]
      BY <1>7, <3>1
    <3>3. Range(Append(s, index)) = Range(s) \cup {index}
      BY <3>2 DEF Range
    <3> QED
      BY <1>10, <3>3 DEF s
  <2> QED
    BY <1>1, <1>2, <1>4, <1>5, <1>10, <1>11, <2>1 DEF Below, Above
<1>13. SentWhole'
  <2>1. issued[u] # 0
    BY <1>1, <1>6 DEF NumberedPrompt
  <2> QED
    BY <1>1, <1>5, <1>11, <2>1 DEF SentWhole, Unused
<1>14. Prompts' = Prompts /\ cur_max_group_id' = cur_max_group_id
  BY <1>5, <1>10 DEF Prompts, cur_max_group_id
<1>15. \A k \in DOMAIN allocation'.todo : allocation'.todo[k] \in Prompts'
  <2>1. \A k \in DOMAIN todo : todo[k] \in Prompts
    BY <1>1, <1>2 DEF Numbered
  <2>2. \A k \in DOMAIN Tail(todo) : k + 1 \in DOMAIN todo /\ Tail(todo)[k] = todo[k + 1]
    BY <1>2, <1>3
  <2> QED
    BY <1>10, <1>14, <2>1, <2>2
<1>16. \A v, w \in Prompts : uuid_to_group[v] = uuid_to_group[w] => v = w
  BY <1>1, <1>2 DEF Numbered
<1>17. \A i \in DOMAIN owner : owner[i] = u <=> Group(i) = g
  BY <1>6 DEF NumberedPrompt
<1>18. u \in DOMAIN uuid_to_group /\ g = uuid_to_group[u]
  BY <1>6 DEF NumberedPrompt
<1>19. /\ Passed(u)' = Passed(u) + 1
       /\ \A v : v # u => Passed(v)' = Passed(v)
  <2>1. \A v : Passed(v)' = NSamples - Occurrences(v, Tail(todo))
    BY <1>10 DEF Passed, Occurrences
  <2>2. \A v : Passed(v) = NSamples - Occurrences(v, todo)
    BY DEF Passed
  <2> QED
    BY <1>1, <1>8, <1>9, <2>1, <2>2
<1>20. NumberedPrompt(u)'
  <2>1. /\ u \in DOMAIN uuid_to_group /\ g \in DOMAIN group_index_sets
        /\ issued[u] = NSamples /\ g > cur_max_group_id
        /\ Members(g) \subseteq DOMAIN global_idx_to_shard
        /\ group_index_sets[g] = g * NSamples .. g * NSamples + Passed(u) - 1
        /\ \A i \in Members(g) : i \in DOMAIN owner <=> i \in group_index_sets[g]
    BY <1>6, <1>18 DEF NumberedPrompt, Routed
  <2>2. g * NSamples \in Nat
    BY <1>1, <1>4 DEF Groups
  <2>3. group_index_sets'[g] = group_index_sets[g] \cup {index}
    BY <1>5, <2>1
  <2>4. group_index_sets'[g] = g * NSamples .. g * NSamples + Passed(u)' - 1
    BY <1>4, <1>19, <2>1, <2>2, <2>3
  <2>5. g \in DOMAIN group_index_sets'
    BY <1>5, <2>1
  <2>6. \A i \in DOMAIN owner' : owner'[i] = u <=> Group(i) = g
    BY <1>7, <1>11, <1>17
  <2>7. \A i \in Members(g) : i \in DOMAIN owner' <=> i \in group_index_sets'[g]
    BY <1>11, <2>1, <2>3
  <2>8. Passed(u)' >= 0
    BY <1>1, <1>4, <1>19
  <2> QED
    BY <1>5, <1>14, <1>18, <2>1, <2>4, <2>5, <2>6, <2>7, <2>8
       DEF NumberedPrompt, Routed, Members, Group
<1>21. ASSUME NEW v \in Prompts, v # u PROVE NumberedPrompt(v)'
  <2> PICK h : h = uuid_to_group[v]
    OBVIOUS
  <2>1. /\ v \in DOMAIN uuid_to_group /\ h \in DOMAIN group_index_sets
        /\ issued[v] = NSamples /\ h > cur_max_group_id
        /\ Members(h) \subseteq DOMAIN global_idx_to_shard
        /\ Passed(v) >= 0
        /\ group_index_sets[h] = h * NSamples .. h * NSamples + Passed(v) - 1
        /\ \A i \in DOMAIN owner : owner[i] = v <=> Group(i) = h
        /\ \A i \in Members(h) : i \in DOMAIN owner <=> i \in group_index_sets[h]
    BY <1>6 DEF NumberedPrompt, Routed
  <2>2. h # g /\ h \in Groups
    BY <1>1, <1>4, <1>16, <1>21, <2>1 DEF MetaType
  <2>3. index \notin Members(h)
    BY <1>7, <2>2, MembersOfGroup
  <2>4. Passed(v)' = Passed(v)
    BY <1>19, <1>21
  <2>5. group_index_sets'[h] = group_index_sets[h] /\ h \in DOMAIN group_index_sets'
    BY <1>5, <2>1, <2>2
  <2>6. \A i \in DOMAIN owner' : owner'[i] = v <=> Group(i) = h
    BY <1>7, <1>11, <1>21, <2>1, <2>2
  <2>7. \A i \in Members(h) : i \in DOMAIN owner' <=> i \in group_index_sets'[h]
    BY <1>11, <2>1, <2>3, <2>5
  <2>8. uuid_to_group'[v] = h /\ cur_max_group_id' = cur_max_group_id
    BY <1>5, <1>14
  <2> QED
    BY <1>5, <2>1, <2>4, <2>5, <2>6, <2>7, <2>8
       DEF NumberedPrompt, Routed, Members, Group
<1>22. GroupIsOnePrompt'
  BY <1>1, <1>7, <1>11, <1>17 DEF GroupIsOnePrompt, Group
<1>23. RoutedUntilDeleted'
  <2>1. index \in DOMAIN global_idx_to_shard
    BY <1>4, <1>6, <1>18 DEF NumberedPrompt, Routed
  <2> QED
    BY <1>1, <1>5, <1>11, <2>1 DEF RoutedUntilDeleted
<1> QED
  <2>1. Numbered'
    BY <1>14, <1>15, <1>16, <1>5, <1>20, <1>21 DEF Numbered
  <2>2. Dealt'
    BY <1>2, <1>10 DEF Dealt
  <2> QED
    BY <1>12, <1>13, <1>22, <1>23, <2>1, <2>2 DEF PromptInv

LEMMA FinishAllocationKeepsPrompts ==
    ASSUME TypeOK, PromptInv, NEW v \in Versions, FinishAllocation(v)
    PROVE  PromptInv'
<1> PICK idxs : idxs = Range(allocation.allocated)
  OBVIOUS
<1>1. /\ Below /\ SentWhole /\ GroupIsOnePrompt /\ RoutedUntilDeleted
      /\ MetaType /\ HistoryType
  BY DEF PromptInv, TypeOK
<1>2. /\ max_cur_index' = LargestIndex(idxs)
      /\ allocation' = Idle
      /\ UNCHANGED <<global_idx_to_shard, uuid_to_group, issued, owner, deleted>>
  BY DEF FinishAllocation, history
<1>3. idxs \subseteq Indexes
  <2>1. allocation.allocated \in Seq(Indexes)
    BY DEF FinishAllocation, TypeOK, AllocationType, Idle
  <2> QED
    BY <2>1 DEF Range
<1>4. /\ max_cur_index' \in Int /\ max_cur_index \in Int
      /\ max_cur_index' >= max_cur_index
      /\ \A i \in idxs : max_cur_index' >= i
  BY <1>1, <1>2, <1>3, LargestIndexIsMax, SizeAssumption DEF MetaType, Indexes
<1>5. ASSUME NEW i \in DOMAIN owner PROVE i <= max_cur_index'
  <2>1. i \in Int
    BY <1>1, SizeAssumption DEF HistoryType, Indexes
  <2> QED
    BY <1>1, <1>4, <2>1 DEF Below
<1>6. Below'
  BY <1>2, <1>5 DEF Below
<1>7. SentWhole'
  BY <1>1, <1>2 DEF SentWhole, Unused
<1>8. Dealt' /\ Numbered' /\ Above'
  BY <1>2 DEF Dealt, Numbered, Above, Idle
<1>9. GroupIsOnePrompt' /\ RoutedUntilDeleted'
  BY <1>1, <1>2 DEF GroupIsOnePrompt, RoutedUntilDeleted
<1> QED
  BY <1>6, <1>7, <1>8, <1>9 DEF PromptInv

(* Handlers that leave the allocation, the routing and the groups alone.   *)
LEMMA OthersKeepPrompts ==
    ASSUME PromptInv,
           UNCHANGED <<max_cur_index, global_idx_to_shard, group_index_sets, uuid_to_group,
                       allocation, issued, owner, deleted>>
    PROVE  PromptInv'
<1>1. Below' /\ Above' /\ SentWhole' /\ GroupIsOnePrompt' /\ RoutedUntilDeleted'
  BY DEF PromptInv, Below, Above, SentWhole, Unused, GroupIsOnePrompt, RoutedUntilDeleted
<1>2. Dealt'
  BY DEF PromptInv, Dealt, Unused, NewGroup, Routed, Members, Occurrences, cur_max_group_id
<1>3. Prompts' = Prompts /\ cur_max_group_id' = cur_max_group_id /\ \A u : Passed(u)' = Passed(u)
  BY DEF Prompts, cur_max_group_id, Passed, Occurrences
<1>4. \A u : NumberedPrompt(u)' <=> NumberedPrompt(u)
  BY <1>3 DEF NumberedPrompt, Routed, Members, Group
<1>5. Numbered'
  BY <1>3, <1>4 DEF PromptInv, Numbered
<1> QED
  BY <1>1, <1>2, <1>5 DEF PromptInv

LEMMA PruneKeepsPrompts ==
    ASSUME Basics, PromptInv, ~ Preemptive,
           (\E j \in jobs : StartPrune(j)) \/ (\E r \in pruning : FinishPrune(r))
    PROVE  PromptInv'
<1>1. /\ Below /\ SentWhole /\ Dealt /\ GroupIsOnePrompt /\ RoutedUntilDeleted
      /\ TypeOK /\ MetaType /\ AllocationType /\ CallsType /\ HistoryType /\ AllocatedOnly
  BY DEF PromptInv, Basics, TypeOK
<1>2. /\ allocation.phase # "indexes"
      /\ UNCHANGED <<max_cur_index, allocation, issued, owner>>
  BY DEF StartPrune, FinishPrune, OthersMayRun, history
<1>3. Numbered' /\ Below' /\ Above' /\ GroupIsOnePrompt'
  BY <1>1, <1>2 DEF Numbered, Below, Above, GroupIsOnePrompt
<1>4. /\ DOMAIN uuid_to_group' \subseteq DOMAIN uuid_to_group
      /\ \A u : Unused(u) => Unused(u)'
  <2>1. \/ uuid_to_group' = uuid_to_group
        \/ uuid_to_group' = <<>>
    BY DEF StartPrune, FinishPrune, CleanUuids
  <2>2. DOMAIN <<>> = {}
    OBVIOUS
  <2>3. DOMAIN uuid_to_group' \subseteq DOMAIN uuid_to_group
    BY <2>1, <2>2
  <2> QED
    BY <1>2, <2>3 DEF Unused
<1>5. SentWhole'
  BY <1>1, <1>2, <1>4 DEF SentWhole
<1>6. cur_max_group_id' = cur_max_group_id /\ \A u : NewGroup(u)' = NewGroup(u)
  BY <1>2 DEF cur_max_group_id, NewGroup
<1>7. \E gone \in SUBSET Indexes :
        /\ \A i \in gone : i <= max_cur_index
        /\ DOMAIN global_idx_to_shard' = DOMAIN global_idx_to_shard \ gone
        /\ deleted' = deleted \cup gone
  <2>1. ASSUME NEW j \in jobs, StartPrune(j)
        PROVE  /\ j.idxs \in SUBSET Indexes
               /\ \A i \in j.idxs : i <= max_cur_index
               /\ DOMAIN global_idx_to_shard' = DOMAIN global_idx_to_shard \ j.idxs
               /\ deleted' = deleted \cup j.idxs
    BY <1>1, <2>1 DEF StartPrune, Restrict, CallsType, AllocatedOnly
  <2>2. ASSUME NEW r \in pruning, FinishPrune(r)
        PROVE  UNCHANGED <<global_idx_to_shard, deleted>>
    BY <2>2 DEF FinishPrune, history
  <2>3. CASE \E r \in pruning : FinishPrune(r)
    <3>1. /\ {} \in SUBSET Indexes
          /\ DOMAIN global_idx_to_shard' = DOMAIN global_idx_to_shard \ {}
          /\ deleted' = deleted \cup {}
      BY <2>2, <2>3
    <3> QED
      BY <3>1
  <2>4. CASE \E j \in jobs : StartPrune(j)
    BY <2>1, <2>4
  <2> QED
    BY <2>3, <2>4
<1>8. RoutedUntilDeleted'
  BY <1>1, <1>2, <1>7 DEF RoutedUntilDeleted
<1>9. ASSUME NEW u \in DOMAIN allocation.new, allocation.phase = "groups",
             NewGroup(u) > cur_max_group_id, Routed(Members(NewGroup(u)))
      PROVE  Members(NewGroup(u)) \subseteq DOMAIN global_idx_to_shard'
  <2>1. NewGroup(u) \in Groups
    BY <1>1, <1>9 DEF AllocationType, NewGroup, Idle
  <2>2. \A i \in Members(NewGroup(u)) : i \in Indexes /\ Group(i) = NewGroup(u)
    BY <2>1, MembersOfGroup
  <2>3. \A i \in Members(NewGroup(u)) :
          i > max_cur_index /\ i \in Int /\ max_cur_index \in Int
    BY <1>1, <1>9, <2>2, AboveLargest
  <2> QED
    BY <1>7, <1>9, <2>3 DEF Routed
<1>10. Dealt'
  <2> SUFFICES ASSUME allocation.phase = "groups", NEW u \in Uuids
      PROVE
        IF u \in DOMAIN allocation.new
        THEN /\ Occurrences(u, allocation.uuids) = NSamples
             /\ issued[u] = NSamples
             /\ Unused(u)'
             /\ NewGroup(u) > cur_max_group_id
             /\ Members(NewGroup(u)) \subseteq DOMAIN global_idx_to_shard'
             /\ \A v \in DOMAIN allocation.new : NewGroup(u) = NewGroup(v) => u = v
        ELSE Occurrences(u, allocation.uuids) = 0
    BY <1>2, <1>6 DEF Dealt, Routed, Members, Occurrences
  <2> QED
    BY <1>1, <1>4, <1>9 DEF Dealt
<1> QED
  BY <1>3, <1>5, <1>8, <1>10 DEF PromptInv

LEMMA StepKeepsPrompts ==
    ASSUME PutWhole, ~ Preemptive, Basics, PromptInv, [Next]_vars
    PROVE  PromptInv'
<1>1. TypeOK
  BY DEF Basics
<1>2. ASSUME NEW batch \in Batches, AllocateGroups(batch) PROVE PromptInv'
  BY <1>1, <1>2, AllocateGroupsKeepsPrompts
<1>3. CASE AssignGroups
  BY <1>1, <1>3, AssignGroupsKeepsPrompts
<1>4. CASE AllocateIndex
  BY <1>1, <1>4, AllocateIndexKeepsPrompts
<1>5. ASSUME NEW v \in Versions, FinishAllocation(v) PROVE PromptInv'
  BY <1>1, <1>5, FinishAllocationKeepsPrompts
<1>6. CASE \/ \E p \in puts : RoutePut(p) \/ record_versions(p)
           \/ \E w \in writes : update_data_status(w)
           \/ \E j \in jobs : WriteBack(j)
  BY <1>6, OthersKeepPrompts
     DEF RoutePut, record_versions, update_data_status, WriteBack, meta, history
<1>7. CASE \/ \E c \in Consumers, v \in Latest : allocate_shard_and_indexes(c, v)
           \/ \E c \in Consumers, idxs \in StatusQueries : get_data_consumed_set(c, idxs)
  BY <1>7, OthersKeepPrompts
     DEF allocate_shard_and_indexes, get_data_consumed_set, calls, history
<1>8. CASE (\E j \in jobs : StartPrune(j)) \/ (\E r \in pruning : FinishPrune(r))
  BY <1>8, PruneKeepsPrompts
<1>9. CASE UNCHANGED vars
  BY <1>9, OthersKeepPrompts DEF vars, meta, calls, history
<1> QED
  BY <1>2, <1>3, <1>4, <1>5, <1>6, <1>7, <1>8, <1>9 DEF Next

LEMMA PromptsHold ==
    ASSUME PutWhole, ~ Preemptive
    PROVE  Spec => []PromptInv
<1>1. Init => PromptInv
  <2> SUFFICES ASSUME Init PROVE PromptInv
    OBVIOUS
  <2> USE DEF Init
  <2>1. Below /\ Above /\ Dealt /\ Numbered /\ GroupIsOnePrompt /\ RoutedUntilDeleted
    BY DEF Below, Above, Dealt, Numbered, GroupIsOnePrompt, RoutedUntilDeleted, Idle
  <2>2. SentWhole
    BY DEF SentWhole, Unused
  <2> QED
    BY <2>1, <2>2 DEF PromptInv
<1>2. Basics /\ PromptInv /\ [Next]_vars => PromptInv'
  BY StepKeepsPrompts
<1> QED
  BY <1>1, <1>2, BasicsHold, PTL DEF Spec

(* A group holds samples of one prompt and all that were given an index,   *)
(* however puts, fetches and deletions interleave, if the samples of a     *)
(* prompt are put together and the loop over the uuids is not preempted.   *)
THEOREM OnePromptPerGroup ==
    ASSUME PutWhole, ~ Preemptive
    PROVE  Spec => []GroupIsOnePrompt
<1>1. PromptInv => GroupIsOnePrompt
  BY DEF PromptInv
<1> QED
  BY <1>1, PromptsHold, PTL

(* No index is allocated twice, not even after it was deleted.             *)
THEOREM IndexesAreFresh ==
    ASSUME PutWhole, ~ Preemptive
    PROVE  Spec => NoIndexReused
<1> DEFINE Fresh1 == allocation.phase = "indexes" /\ allocation'.phase = "indexes" =>
                       (Range(allocation'.allocated) \ Range(allocation.allocated))
                         \cap DOMAIN owner = {}
<1>1. Basics /\ PromptInv /\ [Next]_vars => [Fresh1]_vars
  <2> SUFFICES ASSUME Basics, PromptInv, Next, allocation.phase = "indexes",
                      allocation'.phase = "indexes"
               PROVE  (Range(allocation'.allocated) \ Range(allocation.allocated))
                         \cap DOMAIN owner = {}
    OBVIOUS
  <2>1. TypeOK /\ Numbered
    BY DEF Basics, PromptInv
  <2>2. AllocateIndex \/ allocation' = allocation
    <3>1. ASSUME NEW batch \in Batches, AllocateGroups(batch) PROVE FALSE
      BY <3>1 DEF AllocateGroups, Idle
    <3>2. CASE AssignGroups
      BY <3>2 DEF AssignGroups
    <3>3. ASSUME NEW v \in Versions, FinishAllocation(v) PROVE FALSE
      BY <3>3 DEF FinishAllocation, Idle
    <3>4. CASE \/ \E p \in puts : RoutePut(p) \/ record_versions(p)
               \/ \E w \in writes : update_data_status(w)
               \/ \E j \in jobs : WriteBack(j) \/ StartPrune(j)
               \/ \E r \in pruning : FinishPrune(r)
      BY <3>4 DEF RoutePut, update_data_status, record_versions, WriteBack, StartPrune, FinishPrune
    <3>5. CASE \/ \E c \in Consumers, v \in Latest : allocate_shard_and_indexes(c, v)
               \/ \E c \in Consumers, idxs \in StatusQueries : get_data_consumed_set(c, idxs)
      BY <3>5 DEF allocate_shard_and_indexes, get_data_consumed_set, calls
    <3> QED
      BY <3>1, <3>2, <3>3, <3>4, <3>5 DEF Next
  <2>3. CASE AllocateIndex
    <3> PICK index, s : index = NextIndex(uuid_to_group[Head(allocation.todo)])
                        /\ s = allocation.allocated
      OBVIOUS
    <3>1. index \notin DOMAIN owner
      BY <2>1, <2>3, NextIsFree DEF AllocateIndex
    <3>2. s \in Seq(Indexes) /\ allocation'.allocated = Append(s, index)
      <4>1. allocation \in [phase : {"indexes"}, uuids : Seq(Uuids),
                              allocated : Seq(Indexes), todo : Seq(Uuids)]
        BY <2>1 DEF TypeOK, AllocationType, Idle
      <4>2. PICK t : allocation' = [allocation EXCEPT !.allocated = Append(s, index), !.todo = t]
        BY <2>1, <2>3, LoopTurn
      <4> QED
        BY <4>1, <4>2
    <3>3. Range(Append(s, index)) \subseteq Range(s) \cup {index}
      BY <3>2 DEF Range
    <3> QED
      BY <3>1, <3>2, <3>3
  <2> QED
    BY <2>2, <2>3
<1> QED
  BY <1>1, BasicsHold, PromptsHold, PTL DEF Spec, NoIndexReused

-----------------------------------------------------------------------------
(* The routing *)

LEMMA OwnersStepAgree ==
    ASSUME TypeOK, OwnersAgree, [Next]_vars
    PROVE  OwnersAgree'
<1>1. MetaType
  BY DEF TypeOK
<1>2. ASSUME NEW batch \in Batches, AllocateGroups(batch) PROVE OwnersAgree'
  <2> DEFINE new == NewUuids(batch)
             ids == new_group_ids_per_shard(Cardinality(DOMAIN new))
  <2>1. CASE DOMAIN new = {}
    BY <1>2, <2>1 DEF AllocateGroups, OwnersAgree, Group
  <2>2. CASE DOMAIN new # {}
    <3>1. /\ \A s \in Shards : ids[s] \subseteq Groups
          /\ global_idx_to_shard' = Merge(ShardsOf(ids), global_idx_to_shard)
          /\ group_ids_per_shard' = [s \in Shards |-> group_ids_per_shard[s] \cup ids[s]]
      BY <1>2, <2>2 DEF AllocateGroups
    <3> HIDE DEF ids
    <3>2. \A i \in DOMAIN ShardsOf(ids) :
             /\ ShardsOf(ids)[i] \in Shards
             /\ Group(i) \in ids[ShardsOf(ids)[i]]
      BY <3>1, ShardsOfNewIds
    <3> QED
      BY <1>1, <3>1, <3>2 DEF OwnersAgree, Merge, MetaType, Group
  <2> QED
    BY <2>1, <2>2
<1>3. ASSUME NEW j \in jobs, StartPrune(j) PROVE OwnersAgree'
  BY <1>3 DEF StartPrune, OwnersAgree, Restrict, Group
<1>4. ASSUME NEW r \in pruning, FinishPrune(r) PROVE OwnersAgree'
  <2> SUFFICES ASSUME NEW i \in DOMAIN global_idx_to_shard
               PROVE  Group(i) \in group_ids_per_shard'[global_idx_to_shard[i]]
    BY <1>4 DEF FinishPrune, OwnersAgree, Group
  <2>1. i \in Members(Group(i)) /\ global_idx_to_shard[i] \in Shards
    BY <1>1, GroupOfIndex DEF MetaType
  <2>2. \A gs \in EmptiedBy(r) : gs[1] # Group(i)
    BY <2>1 DEF EmptiedBy
  <2>3. group_ids_per_shard' = [s \in Shards |->
          group_ids_per_shard[s] \ {gs[1] : gs \in {x \in EmptiedBy(r) : x[2] = s}}]
    BY <1>4 DEF FinishPrune
  <2> QED
    BY <2>1, <2>2, <2>3 DEF OwnersAgree
<1>5. CASE UNCHANGED <<global_idx_to_shard, group_ids_per_shard>>
  BY <1>5 DEF OwnersAgree, Group
<1>6. CASE \/ AssignGroups \/ AllocateIndex \/ (\E v \in Versions : FinishAllocation(v))
           \/ (\E p \in puts : RoutePut(p) \/ record_versions(p))
           \/ (\E w \in writes : update_data_status(w))
           \/ (\E j \in jobs : WriteBack(j))
  BY <1>5, <1>6 DEF AssignGroups, AllocateIndex, FinishAllocation, RoutePut, record_versions,
     update_data_status, WriteBack, meta
<1>7. CASE \/ \E c \in Consumers, v \in Latest : allocate_shard_and_indexes(c, v)
           \/ \E c \in Consumers, idxs \in StatusQueries : get_data_consumed_set(c, idxs)
           \/ UNCHANGED vars
  BY <1>5, <1>7 DEF allocate_shard_and_indexes, get_data_consumed_set, vars, meta
<1> QED
  BY <1>2, <1>3, <1>4, <1>6, <1>7 DEF Next

(* A shard owns the group of every index that is routed to it, however     *)
(* allocations and the two halves of deletions interleave.                 *)
THEOREM OwnersAlwaysAgree == Spec => []OwnersAgree
<1>1. Init => OwnersAgree
  <2>1. DOMAIN <<>> = {}
    OBVIOUS
  <2> QED
    BY <2>1 DEF Init, OwnersAgree
<1>2. TypeOK /\ OwnersAgree /\ [Next]_vars => OwnersAgree'
  BY OwnersStepAgree
<1> QED
  BY <1>1, <1>2, TypeCorrect, PTL DEF Spec

Others == Consumers \ {Trainer}

(* Columns the trainer waits for that only the rollout, or only the        *)
(* consumer c, writes (INPUT_COLUMNS of actor_train_worker.py, and         *)
(* OUTPUT_COLUMNS of the other workers: responses, old_logprobs,           *)
(* reference_logprobs, reward).                                            *)
MarksOfPut == {col \in PutColumns \cap Requires[Trainer] :
                  \A c \in Others : col \notin Produces[c]}

MarksOf(c) == {col \in Produces[c] \cap Requires[Trainer] :
                  /\ col \notin PutColumns
                  /\ \A d \in Others \ {c} : col \notin Produces[d]}

Marked == MarksOfPut # {} /\ \A c \in Others : Produces[c] = {} \/ MarksOf(c) # {}

Marks == MarksOfPut \cup UNION {MarksOf(c) : c \in Others}

Apart(S, T) == S \cap T = {}

(* A mark of an index is stored once: it is on its way in one put, one     *)
(* batch or one write, or it is ready.                                     *)
WritesOnce ==
    \A w \in writes :
      /\ \A x \in writes : \A col \in w.cols \cap x.cols \cap Marks :
            w = x \/ Apart(w.idxs, x.idxs)
      /\ \A col \in w.cols \cap Marks : Apart(w.idxs, experience_ready[col])

PutsOnce ==
    \A p \in puts : p.phase = "route" =>
      /\ \A q \in puts : q.phase = "route" => p = q \/ Apart(p.idxs, q.idxs)
      /\ \A w \in writes : \A col \in w.cols \cap MarksOfPut : Apart(p.idxs, w.idxs)
      /\ \A col \in MarksOfPut : Apart(p.idxs, experience_ready[col])

JobsOnce ==
    \A j \in jobs : j.consumer # Trainer =>
      /\ \A k \in jobs : k.consumer = j.consumer => j = k \/ Apart(j.idxs, k.idxs)
      /\ \A w \in writes : \A col \in w.cols \cap MarksOf(j.consumer) : Apart(j.idxs, w.idxs)
      /\ \A col \in MarksOf(j.consumer) : Apart(j.idxs, experience_ready[col])

(* What a consumer has not received has none of its marks.                 *)
OnlyDelivered ==
    \A c \in Others, i \in Indexes : deliveries[c][i] = 0 =>
      /\ \A j \in jobs : j.consumer = c => i \notin j.idxs
      /\ \A w \in writes : \A col \in w.cols \cap MarksOf(c) : i \notin w.idxs
      /\ \A col \in MarksOf(c) : i \notin experience_ready[col]

(* A write that changes anything carries a mark and is routed.             *)
WritesAreMarked == \A w \in writes : w.cols = {} \/ w.cols \cap Marks # {}

WritesRouted == \A w \in writes : w.cols # {} => Routed(w.idxs)

(* The trainer has what it waits for, as long as nobody deletes it.        *)
TrainerReady ==
    \A j \in jobs : j.consumer = Trainer =>
      \A col \in Requires[Trainer], i \in j.idxs :
          i \in DOMAIN global_idx_to_shard => i \in experience_ready[col]

RouteInv ==
    /\ WritesOnce /\ PutsOnce /\ JobsOnce /\ OnlyDelivered
    /\ WritesAreMarked /\ WritesRouted /\ TrainerReady /\ NothingRevived

LEMMA MarkColumns ==
    /\ Marks \subseteq Columns /\ Marks \subseteq Requires[Trainer]
    /\ MarksOfPut \subseteq Marks /\ MarksOfPut \subseteq PutColumns
    /\ \A c \in Others : /\ MarksOf(c) \subseteq Marks
                         /\ MarksOf(c) \subseteq Produces[c]
                         /\ Apart(MarksOf(c), PutColumns)
                         /\ Apart(MarksOfPut, Produces[c])
                         /\ \A d \in Others : c # d => Apart(MarksOf(c), Produces[d])
    /\ \A col \in Marks : col \in PutColumns => col \in MarksOfPut
    /\ \A col \in Marks, c \in Others : col \in Produces[c] => col \in MarksOf(c)
<1>1. Requires[Trainer] \subseteq Columns
  BY StageAssumption
<1> QED
  BY <1>1 DEF Marks, MarksOf, MarksOfPut, Apart

(* The requests of one put, or one write-back, share no index.             *)
LEMMA WritesForAreApart ==
    ASSUME NEW idxs, NEW cols
    PROVE  /\ \A w \in WritesFor(idxs, cols) : w.idxs \subseteq idxs /\ w.cols = cols
           /\ \A w, x \in WritesFor(idxs, cols) : w = x \/ Apart(w.idxs, x.idxs)
<1>1. ASSUME NEW w \in WritesFor(idxs, cols)
      PROVE  \E s : w = [idxs |-> {i \in idxs : global_idx_to_shard[i] = s}, cols |-> cols]
  BY DEF WritesFor
<1>2. \A w \in WritesFor(idxs, cols) : w.idxs \subseteq idxs /\ w.cols = cols
  BY <1>1
<1>3. ASSUME NEW w \in WritesFor(idxs, cols), NEW x \in WritesFor(idxs, cols), w # x
      PROVE  Apart(w.idxs, x.idxs)
  <2>1. PICK s : w = [idxs |-> {i \in idxs : global_idx_to_shard[i] = s}, cols |-> cols]
    BY <1>1
  <2>2. PICK t : x = [idxs |-> {i \in idxs : global_idx_to_shard[i] = t}, cols |-> cols]
    BY <1>1
  <2>3. s # t
    BY <1>3, <2>1, <2>2
  <2> QED
    BY <2>1, <2>2, <2>3 DEF Apart
<1> QED
  BY <1>2, <1>3

(* Steps that add no put to be routed, no write and no batch, and report   *)
(* nothing; what they route, they route for the first time.                *)
LEMMA QuietStepsKeepRoute ==
    ASSUME Basics, RouteInv,
           \A p \in puts' : p.phase = "route" => p \in puts,
           writes' \subseteq writes, jobs' \subseteq jobs,
           UNCHANGED <<experience_ready, experience_consumed, deliveries>>,
           DOMAIN global_idx_to_shard \subseteq DOMAIN global_idx_to_shard',
           \A i \in DOMAIN global_idx_to_shard' :
              i \in DOMAIN global_idx_to_shard \/ (i \in Int /\ i > max_cur_index)
    PROVE  RouteInv'
<1>1. /\ WritesOnce /\ PutsOnce /\ JobsOnce /\ OnlyDelivered
      /\ WritesAreMarked /\ WritesRouted /\ TrainerReady /\ NothingRevived
  BY DEF RouteInv
<1>2. WritesOnce' /\ WritesAreMarked'
  BY <1>1 DEF WritesOnce, WritesAreMarked
<1>3. PutsOnce'
  BY <1>1 DEF PutsOnce
<1>4. JobsOnce'
  BY <1>1 DEF JobsOnce
<1>5. OnlyDelivered'
  BY <1>1 DEF OnlyDelivered
<1>6. WritesRouted' /\ NothingRevived'
  BY <1>1 DEF WritesRouted, NothingRevived, Routed
<1>7. TrainerReady'
  <2>1. \A j \in jobs : \A i \in j.idxs : i <= max_cur_index /\ i \in Int /\ max_cur_index \in Int
    BY SizeAssumption DEF Basics, AllocatedOnly, TypeOK, CallsType, MetaType, Indexes
  <2> QED
    BY <1>1, <2>1 DEF TrainerReady
<1> QED
  BY <1>2, <1>3, <1>4, <1>5, <1>6, <1>7 DEF RouteInv

LEMMA AllocateGroupsKeepsRoute ==
    ASSUME Basics, RouteInv, NEW batch \in Batches, AllocateGroups(batch)
    PROVE  RouteInv'
<1> DEFINE new == NewUuids(batch)
           ids == new_group_ids_per_shard(Cardinality(DOMAIN new))
<1>1. TypeOK
  BY DEF Basics
<1>2. UNCHANGED <<experience_ready, experience_consumed, deliveries, puts, writes, jobs>>
  BY DEF AllocateGroups
<1>3. CASE DOMAIN new = {}
  <2>1. global_idx_to_shard' = global_idx_to_shard
    BY <1>3 DEF AllocateGroups
  <2> QED
    BY <1>2, <2>1, QuietStepsKeepRoute
<1>4. CASE DOMAIN new # {}
  <2>1. /\ \A s \in Shards : ids[s] \subseteq Groups
        /\ global_idx_to_shard' = Merge(ShardsOf(ids), global_idx_to_shard)
    BY <1>4 DEF AllocateGroups
  <2>2. \A s \in Shards : \A g \in ids[s] : g \in Int /\ g > cur_max_group_id
    BY <1>1, NewUuidsAreUuids, NewIdsAreLarger DEF TypeOK
  <2> HIDE DEF ids
  <2>3. \A i \in DOMAIN ShardsOf(ids) : i \in Int /\ i > max_cur_index
    BY <1>1, <2>1, <2>2, ShardsOfNewIds, AboveLargest
  <2>4. DOMAIN global_idx_to_shard' = DOMAIN ShardsOf(ids) \cup DOMAIN global_idx_to_shard
    BY <2>1 DEF Merge
  <2> QED
    BY <1>2, <2>3, <2>4, QuietStepsKeepRoute
<1> QED
  BY <1>3, <1>4

LEMMA FinishAllocationKeepsRoute ==
    ASSUME Basics, PromptInv, RouteInv, NEW v \in Versions, FinishAllocation(v)
    PROVE  RouteInv'
<1> PICK idxs : idxs = Range(allocation.allocated)
  OBVIOUS
<1>1. /\ WritesOnce /\ PutsOnce /\ JobsOnce /\ OnlyDelivered
      /\ WritesAreMarked /\ WritesRouted /\ TrainerReady /\ NothingRevived
  BY DEF RouteInv
<1>2. /\ UNCHANGED <<experience_ready, experience_consumed, deliveries, writes, jobs,
                     global_idx_to_shard>>
      /\ \A p \in puts' : p \in puts \/ p = [idxs |-> idxs, version |-> v, phase |-> "route"]
  BY DEF FinishAllocation, history
<1>3. \A i \in idxs : i > max_cur_index
  BY DEF PromptInv, Above, FinishAllocation
<1>4. \A i \in Indexes \cup idxs : i \in Int /\ max_cur_index \in Int
  <2>1. allocation.allocated \in Seq(Indexes)
    BY DEF FinishAllocation, Basics, TypeOK, AllocationType, Idle
  <2>2. idxs \subseteq Indexes
    BY <2>1 DEF Range
  <2> QED
    BY <2>2, SizeAssumption DEF Basics, TypeOK, MetaType, Indexes
<1>5. ASSUME NEW S, S \subseteq Indexes, \A i \in S : i <= max_cur_index
      PROVE  Apart(idxs, S) /\ Apart(S, idxs)
  BY <1>3, <1>4, <1>5 DEF Apart
<1>6. /\ \A q \in puts : Apart(idxs, q.idxs) /\ Apart(q.idxs, idxs)
      /\ \A w \in writes : Apart(idxs, w.idxs)
      /\ \A col \in Columns : Apart(idxs, experience_ready[col])
  BY <1>5 DEF Basics, TypeOK, CallsType, MetaType, AllocatedOnly
<1>7. PutsOnce'
  <2> SUFFICES ASSUME NEW p \in puts', p.phase = "route"
      PROVE  /\ \A q \in puts' : q.phase = "route" => p = q \/ Apart(p.idxs, q.idxs)
             /\ \A w \in writes : \A col \in w.cols \cap MarksOfPut : Apart(p.idxs, w.idxs)
             /\ \A col \in MarksOfPut : Apart(p.idxs, experience_ready[col])
    BY <1>2 DEF PutsOnce
  <2>1. MarksOfPut \subseteq Columns
    BY MarkColumns
  <2>2. CASE p \in puts
    BY <1>1, <1>2, <1>6, <2>2 DEF PutsOnce
  <2>3. CASE p = [idxs |-> idxs, version |-> v, phase |-> "route"]
    BY <1>2, <1>6, <2>1, <2>3
  <2> QED
    BY <1>2, <2>2, <2>3
<1>8. /\ WritesOnce' /\ JobsOnce' /\ OnlyDelivered'
      /\ WritesAreMarked' /\ WritesRouted' /\ TrainerReady' /\ NothingRevived'
  BY <1>1, <1>2 DEF WritesOnce, JobsOnce, OnlyDelivered, WritesAreMarked, WritesRouted,
     TrainerReady, NothingRevived, Routed
<1> QED
  BY <1>7, <1>8 DEF RouteInv

(* The requests of a put or of a batch written back: their marks are new.  *)
LEMMA NewWritesKeepRoute ==
    ASSUME Basics, RouteInv, NEW idxs \in SUBSET Indexes, NEW cols \in SUBSET Columns,
           Routed(idxs), cols = {} \/ cols \cap Marks # {},
           \A w \in writes : \A col \in w.cols \cap cols \cap Marks : Apart(idxs, w.idxs),
           \A col \in cols \cap Marks : Apart(idxs, experience_ready[col]),
           writes' = writes \cup WritesFor(idxs, cols),
           UNCHANGED <<experience_ready, global_idx_to_shard>>
    PROVE  WritesOnce' /\ WritesAreMarked' /\ WritesRouted'
<1> PICK new : new = WritesFor(idxs, cols)
  OBVIOUS
<1>1. /\ \A w \in new : w.idxs \subseteq idxs /\ w.cols = cols
      /\ \A w, x \in new : w = x \/ Apart(w.idxs, x.idxs)
  BY WritesForAreApart
<1>2. WritesOnce /\ WritesAreMarked /\ WritesRouted
  BY DEF RouteInv
<1>3. ASSUME NEW w \in writes', NEW x \in writes', NEW col \in w.cols \cap x.cols \cap Marks
      PROVE  w = x \/ Apart(w.idxs, x.idxs)
  <2>1. CASE w \in writes /\ x \in writes
    BY <1>2, <1>3, <2>1 DEF WritesOnce
  <2>2. CASE w \in new /\ x \in new
    BY <1>1, <2>2
  <2>3. CASE w \in new /\ x \in writes
    BY <1>1, <1>3, <2>3 DEF Apart
  <2>4. CASE w \in writes /\ x \in new
    BY <1>1, <1>3, <2>4 DEF Apart
  <2> QED
    BY <2>1, <2>2, <2>3, <2>4
<1>4. ASSUME NEW w \in writes', NEW col \in w.cols \cap Marks
      PROVE  Apart(w.idxs, experience_ready[col])
  <2>1. CASE w \in writes
    BY <1>2, <1>4, <2>1 DEF WritesOnce
  <2>2. CASE w \in new
    BY <1>1, <1>4, <2>2 DEF Apart
  <2> QED
    BY <2>1, <2>2
<1>5. WritesOnce'
  BY <1>3, <1>4 DEF WritesOnce
<1>6. WritesAreMarked' /\ WritesRouted'
  BY <1>1, <1>2 DEF WritesAreMarked, WritesRouted, Routed
<1> QED
  BY <1>5, <1>6

LEMMA RoutePutKeepsRoute ==
    ASSUME Marked, Basics, RouteInv, NEW p \in puts, RoutePut(p)
    PROVE  RouteInv'
<1> PICK new : new = WritesFor(p.idxs, PutColumns)
  OBVIOUS
<1>1. /\ WritesOnce /\ PutsOnce /\ JobsOnce /\ OnlyDelivered
      /\ WritesAreMarked /\ WritesRouted /\ TrainerReady /\ NothingRevived
  BY DEF RouteInv
<1>2. UNCHANGED <<experience_ready, experience_consumed, global_idx_to_shard, jobs,
                  deliveries>>
  BY DEF RoutePut, meta, history
<1>3. p.phase = "route" /\ p.idxs \in SUBSET Indexes
  BY DEF RoutePut, Basics, TypeOK, CallsType
<1>4. CASE ~ Routed(p.idxs)
  <2>1. puts' \subseteq puts /\ writes' = writes
    BY <1>4 DEF RoutePut
  <2> QED
    BY <1>2, <2>1, QuietStepsKeepRoute
<1>5. CASE Routed(p.idxs)
  <2>1. /\ writes' = writes \cup new
        /\ \A q \in puts' : q.phase = "route" => q \in puts /\ q # p
    BY <1>5 DEF RoutePut, Basics, TypeOK, CallsType
  <2>2. /\ \A w \in new : w.idxs \subseteq p.idxs /\ w.cols = PutColumns
        /\ PutColumns \in SUBSET Columns
    BY WritesForAreApart, CallerAssumption
  <2>3. WritesOnce' /\ WritesAreMarked' /\ WritesRouted'
    <3>1. \A col \in PutColumns \cap Marks : col \in MarksOfPut
      BY MarkColumns
    <3>2. PutColumns \cap Marks # {}
      BY MarkColumns DEF Marked
    <3>3. /\ \A w \in writes : \A col \in w.cols \cap PutColumns \cap Marks :
                Apart(p.idxs, w.idxs)
          /\ \A col \in PutColumns \cap Marks : Apart(p.idxs, experience_ready[col])
      BY <1>1, <1>3, <3>1 DEF PutsOnce
    <3> QED
      BY <1>2, <1>3, <1>5, <2>1, <2>2, <3>2, <3>3, NewWritesKeepRoute
  <2>4. PutsOnce'
    <3> SUFFICES ASSUME NEW q \in puts', q.phase = "route"
        PROVE  /\ \A r \in puts' : r.phase = "route" => q = r \/ Apart(q.idxs, r.idxs)
               /\ \A w \in writes' : \A col \in w.cols \cap MarksOfPut : Apart(q.idxs, w.idxs)
               /\ \A col \in MarksOfPut : Apart(q.idxs, experience_ready[col])
      BY <1>2 DEF PutsOnce
    <3>1. q \in puts /\ q # p
      BY <2>1
    <3>2. \A r \in puts' : r.phase = "route" => q = r \/ Apart(q.idxs, r.idxs)
      BY <1>1, <2>1, <3>1 DEF PutsOnce
    <3>3. \A w \in new : Apart(q.idxs, w.idxs)
      BY <1>1, <1>3, <2>2, <3>1 DEF PutsOnce, Apart
    <3> QED
      BY <1>1, <2>1, <3>1, <3>2, <3>3 DEF PutsOnce
  <2>5. \A c \in Others : \A w \in new : w.cols \cap MarksOf(c) = {}
    BY <2>2, MarkColumns DEF Apart
  <2>6. JobsOnce'
    <3>1. \A j \in jobs : j.consumer # Trainer => j.consumer \in Others
      BY DEF Basics, TypeOK, CallsType, Others
    <3> QED
      BY <1>1, <1>2, <2>1, <2>5, <3>1 DEF JobsOnce
  <2>7. OnlyDelivered'
    BY <1>1, <1>2, <2>1, <2>5 DEF OnlyDelivered
  <2>8. TrainerReady' /\ NothingRevived'
    BY <1>1, <1>2 DEF TrainerReady, NothingRevived, Routed
  <2> QED
    BY <2>3, <2>4, <2>6, <2>7, <2>8 DEF RouteInv
<1> QED
  BY <1>4, <1>5

LEMMA ReportKeepsRoute ==
    ASSUME Basics, RouteInv, NEW w \in writes, update_data_status(w)
    PROVE  RouteInv'
<1> DEFINE ready == [col \in Columns |-> IF col \in w.cols THEN experience_ready[col] \cup w.idxs
                                                           ELSE experience_ready[col]]
<1>1. /\ WritesOnce /\ PutsOnce /\ JobsOnce /\ OnlyDelivered
      /\ WritesAreMarked /\ WritesRouted /\ TrainerReady /\ NothingRevived
  BY DEF RouteInv
<1>2. /\ UNCHANGED <<experience_consumed, global_idx_to_shard, jobs, puts, deliveries>>
      /\ writes' = writes \ {w}
      /\ experience_ready' = ready
  BY DEF update_data_status, history
<1>3. /\ Marks \subseteq Columns /\ MarksOfPut \subseteq Marks /\ Requires[Trainer] \subseteq Columns
      /\ \A c \in Others : MarksOf(c) \subseteq Marks
  BY MarkColumns, StageAssumption
<1>4. \A col \in Columns : /\ experience_ready[col] \subseteq ready[col]
                           /\ ready[col] \subseteq experience_ready[col] \cup w.idxs
                           /\ col \notin w.cols => ready[col] = experience_ready[col]
  OBVIOUS
<1> HIDE DEF ready
<1>5. WritesOnce'
  <2>1. \A x \in writes' : \A col \in x.cols \cap Marks : Apart(x.idxs, ready[col])
    BY <1>1, <1>2, <1>3, <1>4 DEF WritesOnce, Apart
  <2> QED
    BY <1>1, <1>2, <2>1 DEF WritesOnce
<1>6. PutsOnce'
  <2>1. \A p \in puts : p.phase = "route" =>
          \A col \in MarksOfPut : Apart(p.idxs, ready[col])
    BY <1>1, <1>3, <1>4 DEF PutsOnce, Apart
  <2> QED
    BY <1>1, <1>2, <2>1 DEF PutsOnce
<1>7. JobsOnce'
  <2>1. \A j \in jobs : j.consumer # Trainer =>
          \A col \in MarksOf(j.consumer) : Apart(j.idxs, ready[col])
    <3>1. \A j \in jobs : j.consumer # Trainer => j.consumer \in Others
      BY DEF Basics, TypeOK, CallsType, Others
    <3> QED
      BY <1>1, <1>3, <1>4, <3>1 DEF JobsOnce, Apart
  <2> QED
    BY <1>1, <1>2, <2>1 DEF JobsOnce
<1>8. OnlyDelivered'
  <2>1. \A c \in Others, i \in Indexes : deliveries[c][i] = 0 =>
          \A col \in MarksOf(c) : i \notin ready[col]
    BY <1>1, <1>3, <1>4 DEF OnlyDelivered
  <2> QED
    BY <1>1, <1>2, <2>1 DEF OnlyDelivered
<1>9. WritesAreMarked' /\ WritesRouted'
  BY <1>1, <1>2 DEF WritesAreMarked, WritesRouted, Routed
<1>10. TrainerReady'
  BY <1>1, <1>2, <1>3, <1>4 DEF TrainerReady
<1>11. NothingRevived'
  <2>1. \A col \in Columns : Routed(ready[col])
    BY <1>1, <1>4 DEF NothingRevived, WritesRouted, Routed
  <2> QED
    BY <1>1, <1>2, <2>1 DEF NothingRevived, Routed
<1> QED
  BY <1>5, <1>6, <1>7, <1>8, <1>9, <1>10, <1>11 DEF RouteInv

LEMMA FetchKeepsRoute ==
    ASSUME Basics, DeliveredOnce, RouteInv, NEW c \in Consumers, NEW latest,
           allocate_shard_and_indexes(c, latest)
    PROVE  RouteInv'
<1> PICK chosen, job : /\ chosen = Sample(c, latest)
                       /\ job = [consumer |-> c, idxs |-> chosen]
  OBVIOUS
<1>1. /\ WritesOnce /\ PutsOnce /\ JobsOnce /\ OnlyDelivered
      /\ WritesAreMarked /\ WritesRouted /\ TrainerReady /\ NothingRevived
      /\ MetaType /\ HistoryType
  BY DEF RouteInv, Basics, TypeOK
<1>2. /\ chosen \subseteq Indexes \ experience_consumed[c]
      /\ \A col \in Requires[c] : chosen \subseteq experience_ready[col]
  BY SampleIsUsable DEF Usable, ReadyFor
<1>3. Routed(chosen)
  <2>1. PICK col \in Columns : col \in Requires[c]
    BY StageAssumption
  <2> QED
    BY <1>1, <1>2, <2>1 DEF NothingRevived, Routed
<1>4. /\ UNCHANGED <<experience_ready, global_idx_to_shard, puts, writes>>
      /\ experience_consumed' = [experience_consumed EXCEPT ![c] = @ \cup chosen]
      /\ jobs' = jobs \cup {job}
      /\ deliveries' = [deliveries EXCEPT ![c] =
            [i \in Indexes |-> IF i \in chosen THEN @[i] + 1 ELSE @[i]]]
  BY <1>3 DEF allocate_shard_and_indexes, MarkConsumed
<1>5. WritesOnce' /\ PutsOnce' /\ WritesAreMarked' /\ WritesRouted'
  BY <1>1, <1>4 DEF WritesOnce, PutsOnce, WritesAreMarked, WritesRouted, Routed
<1>6. NothingRevived'
  <2>1. \A d \in Consumers : experience_consumed'[d] \subseteq experience_consumed[d] \cup chosen
    BY <1>1, <1>4 DEF MetaType
  <2> QED
    BY <1>1, <1>3, <1>4, <2>1 DEF NothingRevived, Routed
<1>7. TrainerReady'
  BY <1>1, <1>2, <1>4 DEF TrainerReady
<1>8. ASSUME NEW i \in chosen PROVE deliveries[c][i] = 0
  <2>1. i \notin deleted /\ i \notin experience_consumed[c] /\ i \in Indexes
    BY <1>2, <1>3 DEF Routed, Basics, DeletedIsUnrouted
  <2> QED
    BY <2>1 DEF DeliveredOnce
<1>9. \A d \in Consumers, i \in Indexes :
         deliveries'[d][i] = 0 => deliveries[d][i] = 0 /\ (d = c => i \notin chosen)
  <2> SUFFICES ASSUME NEW d \in Consumers, NEW i \in Indexes, deliveries'[d][i] = 0
               PROVE  deliveries[d][i] = 0 /\ (d = c => i \notin chosen)
    OBVIOUS
  <2>1. CASE d = c
    <3>1. deliveries'[c][i] = IF i \in chosen THEN deliveries[c][i] + 1 ELSE deliveries[c][i]
      BY <1>1, <1>4 DEF HistoryType
    <3> QED
      BY <1>8, <2>1, <3>1
  <2>2. CASE d # c
    BY <1>1, <1>4, <2>2 DEF HistoryType
  <2> QED
    BY <2>1, <2>2
<1>10. OnlyDelivered'
  <2> SUFFICES ASSUME NEW d \in Others, NEW i \in Indexes, deliveries'[d][i] = 0
      PROVE  /\ \A j \in jobs' : j.consumer = d => i \notin j.idxs
             /\ \A w \in writes : \A col \in w.cols \cap MarksOf(d) : i \notin w.idxs
             /\ \A col \in MarksOf(d) : i \notin experience_ready[col]
    BY <1>4 DEF OnlyDelivered
  <2> QED
    BY <1>1, <1>4, <1>9 DEF OnlyDelivered, Others
<1>11. JobsOnce'
  <2>1. ASSUME c # Trainer
        PROVE  /\ \A k \in jobs : k.consumer = c => Apart(chosen, k.idxs) /\ Apart(k.idxs, chosen)
               /\ \A w \in writes : \A col \in w.cols \cap MarksOf(c) : Apart(chosen, w.idxs)
               /\ \A col \in MarksOf(c) : Apart(chosen, experience_ready[col])
    <3>1. c \in Others /\ chosen \subseteq Indexes
      BY <1>2, <2>1 DEF Others
    <3> QED
      BY <1>1, <1>8, <3>1 DEF OnlyDelivered, Apart
  <2> SUFFICES ASSUME NEW j \in jobs', j.consumer # Trainer
      PROVE  /\ \A k \in jobs' : k.consumer = j.consumer => j = k \/ Apart(j.idxs, k.idxs)
             /\ \A w \in writes : \A col \in w.cols \cap MarksOf(j.consumer) : Apart(j.idxs, w.idxs)
             /\ \A col \in MarksOf(j.consumer) : Apart(j.idxs, experience_ready[col])
    BY <1>4 DEF JobsOnce
  <2>2. CASE j \in jobs
    <3>1. \A k \in jobs' : k.consumer = j.consumer => j = k \/ Apart(j.idxs, k.idxs)
      BY <1>1, <1>4, <2>1, <2>2 DEF JobsOnce
    <3> QED
      BY <1>1, <2>2, <3>1 DEF JobsOnce
  <2>3. CASE j = job
    BY <1>4, <2>1, <2>3
  <2> QED
    BY <1>4, <2>2, <2>3
<1> QED
  BY <1>5, <1>6, <1>7, <1>10, <1>11 DEF RouteInv

LEMMA WriteBackKeepsRoute ==
    ASSUME Marked, Basics, RouteInv, NEW j \in jobs, WriteBack(j)
    PROVE  RouteInv'
<1> PICK c, new : c = j.consumer /\ new = WritesFor(j.idxs, Produces[c])
  OBVIOUS
<1>1. /\ WritesOnce /\ PutsOnce /\ JobsOnce /\ OnlyDelivered
      /\ WritesAreMarked /\ WritesRouted /\ TrainerReady /\ NothingRevived
  BY DEF RouteInv
<1>2. /\ UNCHANGED <<experience_ready, experience_consumed, global_idx_to_shard, puts,
                     deliveries>>
      /\ jobs' = jobs \ {j}
  BY DEF WriteBack, meta, history
<1>3. c \in Others /\ j.idxs \in SUBSET Indexes /\ Produces[c] \in SUBSET Columns
  BY StageAssumption DEF WriteBack, Basics, TypeOK, CallsType, Others
<1>4. CASE ~ Routed(j.idxs)
  <2>1. writes' = writes
    BY <1>4 DEF WriteBack
  <2> QED
    BY <1>2, <2>1, QuietStepsKeepRoute
<1>5. CASE Routed(j.idxs)
  <2>1. writes' = writes \cup new
    BY <1>5 DEF WriteBack
  <2>2. \A w \in new : w.idxs \subseteq j.idxs /\ w.cols = Produces[c]
    BY WritesForAreApart
  <2>3. /\ MarksOf(c) \subseteq Marks /\ MarksOf(c) \subseteq Produces[c]
        /\ Apart(MarksOfPut, Produces[c])
        /\ \A d \in Others \ {c} : Apart(MarksOf(d), Produces[c])
        /\ \A col \in Produces[c] \cap Marks : col \in MarksOf(c)
    BY <1>3, MarkColumns
  <2>4. WritesOnce' /\ WritesAreMarked' /\ WritesRouted'
    <3>1. Produces[c] = {} \/ Produces[c] \cap Marks # {}
      BY <1>3, <2>3 DEF Marked
    <3>2. /\ \A w \in writes : \A col \in w.cols \cap Produces[c] \cap Marks :
                Apart(j.idxs, w.idxs)
          /\ \A col \in Produces[c] \cap Marks : Apart(j.idxs, experience_ready[col])
      BY <1>1, <1>3, <2>3 DEF JobsOnce, Others
    <3> QED
      BY <1>2, <1>3, <1>5, <2>1, <3>1, <3>2, NewWritesKeepRoute
  <2>5. PutsOnce'
    <3>1. \A w \in new : w.cols \cap MarksOfPut = {}
      BY <2>2, <2>3 DEF Apart
    <3> QED
      BY <1>1, <1>2, <2>1, <3>1 DEF PutsOnce
  <2>6. JobsOnce'
    <3> SUFFICES ASSUME NEW k \in jobs', k.consumer # Trainer
        PROVE  /\ \A l \in jobs' : l.consumer = k.consumer => k = l \/ Apart(k.idxs, l.idxs)
               /\ \A w \in writes' : \A col \in w.cols \cap MarksOf(k.consumer) :
                     Apart(k.idxs, w.idxs)
               /\ \A col \in MarksOf(k.consumer) : Apart(k.idxs, experience_ready[col])
      BY <1>2 DEF JobsOnce
    <3>1. k \in jobs /\ k # j /\ k.consumer \in Others
      BY <1>2 DEF Basics, TypeOK, CallsType, Others
    <3>2. ASSUME NEW w \in new, NEW col \in w.cols \cap MarksOf(k.consumer)
          PROVE  Apart(k.idxs, w.idxs)
      <4>1. k.consumer = c
        BY <2>2, <2>3, <3>1, <3>2 DEF Apart
      <4>2. Apart(k.idxs, j.idxs)
        BY <1>1, <3>1, <4>1 DEF JobsOnce
      <4> QED
        BY <2>2, <4>2 DEF Apart
    <3> QED
      BY <1>1, <1>2, <2>1, <3>1, <3>2 DEF JobsOnce
  <2>7. OnlyDelivered'
    <3> SUFFICES ASSUME NEW d \in Others, NEW i \in Indexes, deliveries[d][i] = 0
        PROVE  /\ \A k \in jobs' : k.consumer = d => i \notin k.idxs
               /\ \A w \in writes' : \A col \in w.cols \cap MarksOf(d) : i \notin w.idxs
               /\ \A col \in MarksOf(d) : i \notin experience_ready[col]
      BY <1>2 DEF OnlyDelivered
    <3>1. ASSUME NEW w \in new, NEW col \in w.cols \cap MarksOf(d) PROVE i \notin w.idxs
      <4>1. d = c
        BY <2>2, <2>3, <3>1 DEF Apart
      <4>2. i \notin j.idxs
        BY <1>1, <4>1 DEF OnlyDelivered
      <4> QED
        BY <2>2, <4>2
    <3> QED
      BY <1>1, <1>2, <2>1, <3>1 DEF OnlyDelivered
  <2>8. TrainerReady' /\ NothingRevived'
    BY <1>1, <1>2 DEF TrainerReady, NothingRevived, Routed
  <2> QED
    BY <2>4, <2>5, <2>6, <2>7, <2>8 DEF RouteInv
<1> QED
  BY <1>4, <1>5

(* The trainer deletes what it has, all marks of which were ready: no      *)
(* write of them is under way.                                             *)
LEMMA StartPruneKeepsRoute ==
    ASSUME Basics, RouteInv, NEW j \in jobs, StartPrune(j)
    PROVE  RouteInv'
<1>1. /\ WritesOnce /\ PutsOnce /\ JobsOnce /\ OnlyDelivered
      /\ WritesAreMarked /\ WritesRouted /\ TrainerReady /\ NothingRevived
  BY DEF RouteInv
<1>2. /\ UNCHANGED <<writes, puts, deliveries>>
      /\ jobs' = jobs \ {j}
      /\ experience_ready' = [col \in Columns |-> experience_ready[col] \ j.idxs]
      /\ experience_consumed' = [c \in Consumers |-> experience_consumed[c] \ j.idxs]
      /\ DOMAIN global_idx_to_shard' = DOMAIN global_idx_to_shard \ j.idxs
  BY DEF StartPrune, ResetStatus, Restrict
<1>3. j.consumer = Trainer /\ Routed(j.idxs)
  BY DEF StartPrune
<1>4. /\ Marks \subseteq Columns /\ Marks \subseteq Requires[Trainer] /\ MarksOfPut \subseteq Marks
      /\ Requires[Trainer] \subseteq Columns
      /\ \A c \in Others : MarksOf(c) \subseteq Marks
  BY MarkColumns, StageAssumption
<1>5. WritesOnce' /\ WritesAreMarked'
  BY <1>1, <1>2, <1>4 DEF WritesOnce, WritesAreMarked, Apart
<1>6. PutsOnce'
  BY <1>1, <1>2, <1>4 DEF PutsOnce, Apart
<1>7. JobsOnce'
  <2>1. \A k \in jobs : k.consumer # Trainer => k.consumer \in Others
    BY DEF Basics, TypeOK, CallsType, Others
  <2> QED
    BY <1>1, <1>2, <1>4, <2>1 DEF JobsOnce, Apart
<1>8. OnlyDelivered'
  BY <1>1, <1>2, <1>4 DEF OnlyDelivered
<1>9. WritesRouted'
  <2> SUFFICES ASSUME NEW w \in writes, w.cols # {}
               PROVE  w.idxs \subseteq DOMAIN global_idx_to_shard \ j.idxs
    BY <1>2 DEF WritesRouted, Routed
  <2>1. PICK col \in w.cols : col \in Marks
    BY <1>1 DEF WritesAreMarked
  <2>2. j.idxs \subseteq experience_ready[col]
    BY <1>1, <1>3, <1>4, <2>1 DEF TrainerReady, Routed
  <2> QED
    BY <1>1, <2>1, <2>2 DEF WritesOnce, WritesRouted, Routed, Apart
<1>10. TrainerReady'
  BY <1>1, <1>2, <1>4 DEF TrainerReady
<1>11. NothingRevived'
  BY <1>1, <1>2 DEF NothingRevived, Routed
<1> QED
  BY <1>5, <1>6, <1>7, <1>8, <1>9, <1>10, <1>11 DEF RouteInv

LEMMA StepKeepsRoute ==
    ASSUME Marked, ~ Preemptive, StatusQueries \subseteq {{}},
           Basics, DeliveredOnce, PromptInv, RouteInv, [Next]_vars
    PROVE  RouteInv'
<1>1. ASSUME NEW batch \in Batches, AllocateGroups(batch) PROVE RouteInv'
  BY <1>1, AllocateGroupsKeepsRoute
<1>2. ASSUME NEW v \in Versions, FinishAllocation(v) PROVE RouteInv'
  BY <1>2, FinishAllocationKeepsRoute
<1>3. ASSUME NEW p \in puts, RoutePut(p) PROVE RouteInv'
  BY <1>3, RoutePutKeepsRoute
<1>4. ASSUME NEW w \in writes, update_data_status(w) PROVE RouteInv'
  BY <1>4, ReportKeepsRoute
<1>5. ASSUME NEW c \in Consumers, NEW v \in Latest, allocate_shard_and_indexes(c, v)
      PROVE  RouteInv'
  BY <1>5, FetchKeepsRoute
<1>6. ASSUME NEW j \in jobs, WriteBack(j) PROVE RouteInv'
  BY <1>6, WriteBackKeepsRoute
<1>7. ASSUME NEW j \in jobs, StartPrune(j) PROVE RouteInv'
  BY <1>7, StartPruneKeepsRoute
<1>8. CASE \/ AssignGroups \/ AllocateIndex
           \/ \E p \in puts : record_versions(p)
           \/ \E r \in pruning : FinishPrune(r)
           \/ UNCHANGED vars
  <2>1. /\ UNCHANGED <<experience_ready, experience_consumed, global_idx_to_shard, deliveries,
                       writes, jobs>>
        /\ puts' \subseteq puts
    BY <1>8 DEF AssignGroups, AllocateIndex, record_versions, FinishPrune, vars, meta, calls,
       history
  <2> QED
    BY <2>1, QuietStepsKeepRoute
<1>9. ASSUME NEW c \in Consumers, NEW idxs \in StatusQueries, get_data_consumed_set(c, idxs)
      PROVE  RouteInv'
  <2>1. UNCHANGED <<experience_ready, experience_consumed, global_idx_to_shard, deliveries,
                    writes, jobs, puts>>
    BY <1>9 DEF get_data_consumed_set, calls, history
  <2> QED
    BY <2>1, QuietStepsKeepRoute
<1> QED
  BY <1>1, <1>2, <1>3, <1>4, <1>5, <1>6, <1>7, <1>8, <1>9 DEF Next

LEMMA RoutesHold ==
    ASSUME PutWhole, ~ Preemptive, StatusQueries \subseteq {{}}, Marked
    PROVE  Spec => [](DeliveredOnce /\ RouteInv)
<1>1. Init => DeliveredOnce /\ RouteInv
  <2> SUFFICES ASSUME Init PROVE RouteInv
    BY InitDelivery
  <2> USE DEF Init
  <2>1. WritesOnce /\ PutsOnce /\ JobsOnce /\ WritesAreMarked /\ WritesRouted /\ TrainerReady
    BY DEF WritesOnce, PutsOnce, JobsOnce, WritesAreMarked, WritesRouted, TrainerReady
  <2>2. OnlyDelivered /\ NothingRevived
    BY MarkColumns DEF OnlyDelivered, NothingRevived, Routed
  <2> QED
    BY <2>1, <2>2 DEF RouteInv
<1>2. Basics /\ TypeOK' /\ PromptInv /\ DeliveredOnce /\ RouteInv /\ [Next]_vars
        => DeliveredOnce' /\ RouteInv'
  BY StepKeepsDelivery, StepKeepsRoute DEF DeliveryKept
<1> QED
  BY <1>1, <1>2, TypeCorrect, BasicsHold, PromptsHold, PTL DEF Spec

(* The tables stay in step for any number of shards, samples and consumers *)
(* and any interleaving, if the samples of a prompt are put together, the  *)
(* loop over the uuids is not preempted, no status query names indexes and *)
(* each stage writes a column of its own that the trainer waits for.       *)
THEOREM RoutingAlwaysAgrees ==
    ASSUME PutWhole, ~ Preemptive, StatusQueries \subseteq {{}}, Marked
    PROVE  Spec => []RoutingAgrees
<1>1. PromptInv /\ RouteInv /\ OwnersAgree => RoutingAgrees
  BY DEF PromptInv, RouteInv, RoutingAgrees
<1> QED
  BY <1>1, RoutesHold, PromptsHold, OwnersAlwaysAgree, PTL
-----------------------------------------------------------------------------
(* The queue the workers see *)

(* What is on its way or ready belongs to prompts.                         *)
OwnedCalls ==
    /\ allocation.phase = "indexes" => Range(allocation.allocated) \subseteq DOMAIN owner
    /\ \A p \in puts : p.idxs \subseteq DOMAIN owner
    /\ \A w \in writes : w.idxs \subseteq DOMAIN owner
    /\ \A j \in jobs : j.idxs \subseteq DOMAIN owner
    /\ \A col \in Columns : experience_ready[col] \subseteq DOMAIN owner

(* A batch was given to its consumer; a stage's columns are on their way   *)
(* to samples it was given.                                                *)
Given(c, idxs) == \A i \in idxs : deliveries[c][i] > 0

GivenCalls ==
    /\ \A j \in jobs : Given(j.consumer, j.idxs)
    /\ \A w \in writes : \/ w.cols = PutColumns
                         \/ \E c \in Consumers : w.cols = Produces[c] /\ Given(c, w.idxs)

QueueInv == OwnedCalls /\ GivenCalls

(* A fetch is of ready samples that its consumer has never been given.     *)
LEMMA FetchIsFirst ==
    ASSUME Basics, DeliveredOnce, RouteInv, NEW c \in Consumers, NEW latest,
           allocate_shard_and_indexes(c, latest)
    PROVE  LET chosen == Sample(c, latest)
           IN  /\ chosen \subseteq Indexes
               /\ \A col \in Requires[c] : chosen \subseteq experience_ready[col]
               /\ \A i \in chosen : deliveries[c][i] = 0
               /\ jobs' = jobs \cup {[consumer |-> c, idxs |-> chosen]}
               /\ deliveries' = [deliveries EXCEPT ![c] =
                     [i \in Indexes |-> IF i \in chosen THEN 1 ELSE @[i]]]
               /\ UNCHANGED <<puts, writes, allocation, experience_ready, owner, deleted>>
<1> PICK chosen : chosen = Sample(c, latest)
  OBVIOUS
<1>1. NothingRevived /\ MetaType /\ HistoryType
  BY DEF RouteInv, Basics, TypeOK
<1>2. /\ chosen \subseteq Indexes \ experience_consumed[c]
      /\ \A col \in Requires[c] : chosen \subseteq experience_ready[col]
  BY SampleIsUsable DEF Usable, ReadyFor
<1>3. Routed(chosen)
  <2>1. PICK col \in Columns : col \in Requires[c]
    BY StageAssumption
  <2> QED
    BY <1>1, <1>2, <2>1 DEF NothingRevived, Routed
<1>4. ASSUME NEW i \in chosen PROVE deliveries[c][i] = 0
  <2>1. i \notin deleted /\ i \notin experience_consumed[c] /\ i \in Indexes
    BY <1>2, <1>3 DEF Routed, Basics, DeletedIsUnrouted
  <2> QED
    BY <2>1 DEF DeliveredOnce
<1>5. /\ jobs' = jobs \cup {[consumer |-> c, idxs |-> chosen]}
      /\ deliveries' = [deliveries EXCEPT ![c] =
            [i \in Indexes |-> IF i \in chosen THEN @[i] + 1 ELSE @[i]]]
      /\ UNCHANGED <<puts, writes, allocation, experience_ready, owner, deleted>>
  BY <1>3 DEF allocate_shard_and_indexes
<1>6. [i \in Indexes |-> IF i \in chosen THEN deliveries[c][i] + 1 ELSE deliveries[c][i]]
      = [i \in Indexes |-> IF i \in chosen THEN 1 ELSE deliveries[c][i]]
  BY <1>4
<1>7. deliveries' = [deliveries EXCEPT ![c] =
            [i \in Indexes |-> IF i \in chosen THEN 1 ELSE @[i]]]
  BY <1>5, <1>6
<1> QED
  BY <1>2, <1>4, <1>5, <1>7

(* Steps that add no write, batch or put and give nothing out.             *)
LEMMA QuietStepsKeepQueue ==
    ASSUME QueueInv, puts' \subseteq puts, writes' \subseteq writes, jobs' \subseteq jobs,
           allocation'.phase = "indexes" => Range(allocation'.allocated) \subseteq DOMAIN owner',
           UNCHANGED deliveries, DOMAIN owner \subseteq DOMAIN owner',
           \A col \in Columns : experience_ready'[col] \subseteq experience_ready[col]
    PROVE  QueueInv'
<1>1. OwnedCalls'
  BY DEF QueueInv, OwnedCalls
<1>2. GivenCalls'
  BY DEF QueueInv, GivenCalls, Given
<1> QED
  BY <1>1, <1>2 DEF QueueInv

LEMMA AllocationKeepsQueue ==
    ASSUME TypeOK, PromptInv, QueueInv,
           \/ \E batch \in Batches : AllocateGroups(batch)
           \/ AssignGroups
           \/ AllocateIndex
           \/ \E v \in Versions : FinishAllocation(v)
    PROVE  QueueInv'
<1>1. ASSUME NEW batch \in Batches, AllocateGroups(batch) PROVE QueueInv'
  BY <1>1, QuietStepsKeepQueue DEF AllocateGroups
<1>2. CASE AssignGroups
  <2>1. allocation'.allocated = <<>>
    BY <1>2 DEF AssignGroups
  <2>2. Range(<<>>) = {}
    BY DEF Range
  <2> QED
    BY <1>2, <2>1, <2>2, QuietStepsKeepQueue DEF AssignGroups, history
<1>3. CASE AllocateIndex
  <2> PICK index, s : index = NextIndex(uuid_to_group[Head(allocation.todo)])
                      /\ s = allocation.allocated
    OBVIOUS
  <2>1. Numbered /\ allocation.phase = "indexes"
    BY <1>3 DEF PromptInv, AllocateIndex
  <2>2. allocation \in [phase : {"indexes"}, uuids : Seq(Uuids),
                          allocated : Seq(Indexes), todo : Seq(Uuids)]
    BY <2>1 DEF TypeOK, AllocationType, Idle
  <2>3. allocation'.allocated = Append(s, index) /\ DOMAIN owner' = DOMAIN owner \cup {index}
    <3>1. PICK t : allocation' = [allocation EXCEPT !.allocated = Append(s, index), !.todo = t]
      BY <1>3, <2>1, LoopTurn
    <3>2. PICK u : owner' = Merge([i \in {index} |-> u], owner)
      BY <1>3, <2>1, LoopTurn
    <3> QED
      BY <2>2, <3>1, <3>2 DEF Merge
  <2>4. Range(Append(s, index)) \subseteq Range(s) \cup {index}
    <3>1. s \in Seq(Indexes)
      BY <2>2
    <3> QED
      BY <3>1 DEF Range
  <2>5. Range(s) \subseteq DOMAIN owner
    BY <2>1 DEF QueueInv, OwnedCalls
  <2> QED
    BY <1>3, <2>3, <2>4, <2>5, QuietStepsKeepQueue DEF AllocateIndex
<1>4. ASSUME NEW v \in Versions, FinishAllocation(v) PROVE QueueInv'
  <2> PICK idxs : idxs = Range(allocation.allocated)
    OBVIOUS
  <2>1. /\ UNCHANGED <<writes, jobs, deliveries, owner, experience_ready>>
        /\ \A p \in puts' : p \in puts \/ p.idxs = idxs
        /\ allocation' = Idle
    BY <1>4 DEF FinishAllocation, history
  <2>2. idxs \subseteq DOMAIN owner
    BY <1>4 DEF FinishAllocation, QueueInv, OwnedCalls
  <2>3. OwnedCalls'
    BY <2>1, <2>2 DEF QueueInv, OwnedCalls, Idle
  <2>4. GivenCalls'
    BY <2>1 DEF QueueInv, GivenCalls, Given
  <2> QED
    BY <2>3, <2>4 DEF QueueInv
<1> QED
  BY <1>1, <1>2, <1>3, <1>4

(* The requests of a put, or of what a consumer writes back.               *)
LEMMA NewWritesKeepQueue ==
    ASSUME QueueInv, NEW idxs, NEW cols, idxs \subseteq DOMAIN owner,
           cols = PutColumns \/ \E c \in Consumers : cols = Produces[c] /\ Given(c, idxs),
           writes' = writes \cup WritesFor(idxs, cols),
           \A p \in puts' : \E q \in puts : p.idxs = q.idxs, jobs' \subseteq jobs,
           UNCHANGED <<allocation, experience_ready, owner, deliveries>>
    PROVE  QueueInv'
<1> PICK new : new = WritesFor(idxs, cols)
  OBVIOUS
<1>1. \A w \in new : w.idxs \subseteq idxs /\ w.cols = cols
  BY WritesForAreApart
<1>2. OwnedCalls'
  BY <1>1 DEF QueueInv, OwnedCalls
<1>3. GivenCalls'
  BY <1>1 DEF QueueInv, GivenCalls, Given
<1> QED
  BY <1>2, <1>3 DEF QueueInv

LEMMA FetchKeepsQueue ==
    ASSUME Basics, DeliveredOnce, RouteInv, QueueInv, NEW c \in Consumers, NEW latest,
           allocate_shard_and_indexes(c, latest)
    PROVE  QueueInv'
<1> PICK chosen : chosen = Sample(c, latest)
  OBVIOUS
<1>1. /\ chosen \subseteq Indexes
      /\ \A col \in Requires[c] : chosen \subseteq experience_ready[col]
      /\ jobs' = jobs \cup {[consumer |-> c, idxs |-> chosen]}
      /\ deliveries' = [deliveries EXCEPT ![c] =
            [i \in Indexes |-> IF i \in chosen THEN 1 ELSE @[i]]]
      /\ UNCHANGED <<puts, writes, allocation, experience_ready, owner, deleted>>
  BY FetchIsFirst
<1>2. deliveries \in [Consumers -> [Indexes -> Nat]]
  BY DEF Basics, TypeOK, HistoryType
<1>3. \A i \in chosen : deliveries'[c][i] = 1
  BY <1>1, <1>2
<1>4. ASSUME NEW d \in Consumers, NEW i \in Indexes, deliveries[d][i] > 0
      PROVE  deliveries'[d][i] > 0
  <2>1. CASE d = c
    BY <1>1, <1>2, <1>4, <2>1
  <2>2. CASE d # c
    BY <1>1, <1>2, <1>4, <2>2
  <2> QED
    BY <2>1, <2>2
<1>5. \A d \in Consumers, idxs \in SUBSET Indexes : Given(d, idxs) => Given(d, idxs)'
  BY <1>4 DEF Given
<1>6. chosen \subseteq DOMAIN owner
  <2>1. PICK col \in Columns : col \in Requires[c]
    BY StageAssumption
  <2> QED
    BY <1>1, <2>1 DEF QueueInv, OwnedCalls
<1>7. OwnedCalls'
  BY <1>1, <1>6 DEF QueueInv, OwnedCalls
<1>8. GivenCalls'
  <2>1. /\ \A j \in jobs : j.consumer \in Consumers /\ j.idxs \in SUBSET Indexes
        /\ \A w \in writes : w.idxs \in SUBSET Indexes
    BY DEF Basics, TypeOK, CallsType
  <2>2. Given(c, chosen)'
    BY <1>3 DEF Given
  <2>3. \A j \in jobs' : Given(j.consumer, j.idxs)'
    BY <1>1, <1>5, <2>1, <2>2 DEF QueueInv, GivenCalls
  <2>4. \A w \in writes' : \/ w.cols = PutColumns
                           \/ \E d \in Consumers : w.cols = Produces[d] /\ Given(d, w.idxs)'
    BY <1>1, <1>5, <2>1 DEF QueueInv, GivenCalls
  <2> QED
    BY <2>3, <2>4 DEF GivenCalls
<1> QED
  BY <1>7, <1>8 DEF QueueInv

LEMMA StepKeepsQueue ==
    ASSUME Basics, DeliveredOnce, PromptInv, RouteInv, QueueInv, [Next]_vars
    PROVE  QueueInv'
<1>1. CASE \/ \E batch \in Batches : AllocateGroups(batch)
           \/ AssignGroups
           \/ AllocateIndex
           \/ \E v \in Versions : FinishAllocation(v)
  BY <1>1, AllocationKeepsQueue DEF Basics
<1>2. OwnedCalls /\ GivenCalls
  BY DEF QueueInv
<1>3. ASSUME NEW p \in puts, RoutePut(p) PROVE QueueInv'
  <2>1. /\ UNCHANGED <<allocation, experience_ready, owner, deliveries, jobs>>
    BY <1>3 DEF RoutePut, meta, history
  <2>2. CASE Routed(p.idxs)
    <3>1. writes' = writes \cup WritesFor(p.idxs, PutColumns)
      BY <1>3, <2>2 DEF RoutePut
    <3>2. \A q \in puts' : \E r \in puts : q.idxs = r.idxs
      BY <1>3, <2>2 DEF RoutePut, Basics, TypeOK, CallsType
    <3>3. p.idxs \subseteq DOMAIN owner
      BY <1>2 DEF OwnedCalls
    <3> QED
      BY <2>1, <3>1, <3>2, <3>3, NewWritesKeepQueue
  <2>3. CASE ~ Routed(p.idxs)
    BY <1>2, <1>3, <2>1, <2>3, QuietStepsKeepQueue DEF RoutePut, OwnedCalls
  <2> QED
    BY <2>2, <2>3
<1>4. ASSUME NEW w \in writes, update_data_status(w) PROVE QueueInv'
  <2>1. /\ UNCHANGED <<allocation, puts, jobs, owner, deliveries>>
        /\ writes' \subseteq writes
        /\ \A col \in Columns : experience_ready'[col] \subseteq experience_ready[col] \cup w.idxs
    BY <1>4 DEF update_data_status, history
  <2>2. OwnedCalls'
    BY <1>2, <2>1 DEF OwnedCalls
  <2>3. GivenCalls'
    BY <1>2, <2>1 DEF GivenCalls, Given
  <2> QED
    BY <2>2, <2>3 DEF QueueInv
<1>5. ASSUME NEW c \in Consumers, NEW v \in Latest, allocate_shard_and_indexes(c, v)
      PROVE  QueueInv'
  BY <1>5, FetchKeepsQueue
<1>6. ASSUME NEW j \in jobs, WriteBack(j) PROVE QueueInv'
  <2>1. UNCHANGED <<allocation, experience_ready, owner, deliveries, puts>> /\ jobs' \subseteq jobs
    BY <1>6 DEF WriteBack, meta, history
  <2>2. CASE Routed(j.idxs)
    <3>1. writes' = writes \cup WritesFor(j.idxs, Produces[j.consumer])
      BY <1>6, <2>2 DEF WriteBack
    <3>2. j.idxs \subseteq DOMAIN owner /\ j.consumer \in Consumers /\ Given(j.consumer, j.idxs)
      BY <1>2 DEF OwnedCalls, GivenCalls, Basics, TypeOK, CallsType
    <3> QED
      BY <2>1, <3>1, <3>2, NewWritesKeepQueue
  <2>3. CASE ~ Routed(j.idxs)
    BY <1>2, <1>6, <2>1, <2>3, QuietStepsKeepQueue DEF WriteBack, OwnedCalls
  <2> QED
    BY <2>2, <2>3
<1>7. ASSUME NEW j \in jobs, StartPrune(j) PROVE QueueInv'
  <2>1. /\ UNCHANGED <<allocation, puts, writes, owner, deliveries>> /\ jobs' \subseteq jobs
        /\ \A col \in Columns : experience_ready'[col] \subseteq experience_ready[col]
    BY <1>7 DEF StartPrune, ResetStatus
  <2> QED
    BY <1>2, <2>1, QuietStepsKeepQueue DEF OwnedCalls
<1>8. CASE \/ \E p \in puts : record_versions(p)
           \/ \E r \in pruning : FinishPrune(r)
           \/ \E c \in Consumers, idxs \in StatusQueries : get_data_consumed_set(c, idxs)
           \/ UNCHANGED vars
  <2>1. /\ UNCHANGED <<allocation, experience_ready, deliveries, writes, jobs, owner>>
        /\ puts' \subseteq puts
    BY <1>8 DEF record_versions, FinishPrune, get_data_consumed_set, vars, meta, calls, history
  <2> QED
    BY <1>2, <2>1, QuietStepsKeepQueue DEF OwnedCalls
<1> QED
  BY <1>1, <1>3, <1>4, <1>5, <1>6, <1>7, <1>8 DEF Next

(* Samples of a group are chosen together.                                 *)
LEMMA GroupsAreWhole ==
    ASSUME NEW c \in Consumers, NEW latest, Grouped[c], NEW i \in Sample(c, latest)
    PROVE  Members(Group(i)) \subseteq Sample(c, latest)
<1>1. PICK usable, n : Sample(c, latest) = UNION {Members(g) : g \in
                          Smallest({g \in Groups : Members(g) \subseteq usable}, n)}
  BY DEF Sample, SampleGroups
<1>2. PICK g \in Groups : i \in Members(g) /\ Members(g) \subseteq Sample(c, latest)
  BY <1>1 DEF Smallest
<1>3. Group(i) = g
  BY <1>2, MembersOfGroup
<1> QED
  BY <1>2, <1>3

(* The samples of a prompt are those of its group that have been handed    *)
(* out; a prompt whose group is there has them all.                        *)
LEMMA PromptIsGroup ==
    ASSUME TypeOK, GroupIsOnePrompt, NEW i \in DOMAIN owner
    PROVE  /\ Queue!SamplesOf(owner[i]) = {j \in DOMAIN owner : Group(j) = Group(i)}
           /\ Queue!SamplesOf(owner[i]) \subseteq Members(Group(i))
<1>1. DOMAIN owner \subseteq Indexes
  BY DEF TypeOK, HistoryType
<1>2. \A j \in DOMAIN owner : owner[j] = owner[i] <=> Group(j) = Group(i)
  BY DEF GroupIsOnePrompt
<1>3. Queue!SamplesOf(owner[i]) = {j \in DOMAIN owner : Group(j) = Group(i)}
  BY <1>2 DEF Queue!SamplesOf
<1>4. \A j \in DOMAIN owner : j \in Members(Group(j))
  BY <1>1, GroupOfIndex
<1> QED
  BY <1>3, <1>4

LEMMA GroupSize ==
    ASSUME NEW g \in Groups
    PROVE  IsFiniteSet(Members(g)) /\ Cardinality(Members(g)) = NSamples
<1> DEFINE base == g * NSamples
           last == base + NSamples - 1
<1>1. NSamples \in Nat \ {0} /\ base \in Nat
  BY SizeAssumption DEF Groups
<1> HIDE DEF base
<1>2. base \in Int /\ last \in Int /\ ~ (base > last) /\ last - base + 1 = NSamples
  BY <1>1
<1>3. Members(g) = base .. last
  BY DEF Members, base
<1> HIDE DEF last
<1> QED
  BY <1>2, <1>3, FS_Interval

LEMMA SameSize == \A S : Queue!Cardinality(S) = Cardinality(S)
  BY DEF Queue!Cardinality, Cardinality

(* A turn of the loop gives the prompt a new sample.                       *)
LEMMA IndexIsAllotted ==
    ASSUME TypeOK, PromptInv, AllocateIndex
    PROVE  Queue!Next
<1> PICK u, g, index :
         /\ u = Head(allocation.todo)
         /\ g = uuid_to_group[u]
         /\ index = NextIndex(g)
  OBVIOUS
<1>1. Numbered /\ allocation.phase = "indexes" /\ allocation.todo # <<>>
  BY DEF PromptInv, AllocateIndex
<1>2. /\ u \in Prompts /\ u \in Uuids /\ g \in Groups
      /\ index \in Members(g) /\ index \notin DOMAIN owner
  BY <1>1, NextIsFree
<1>3. /\ owner' = Merge([i \in {index} |-> u], owner)
      /\ UNCHANGED <<experience_ready, deliveries, deleted>>
  BY <1>1, LoopTurn DEF AllocateIndex
<1>4. owner' = [j \in DOMAIN owner \cup {index} |-> IF j = index THEN u ELSE owner[j]]
  BY <1>3 DEF Merge
<1>5. index \in Indexes /\ Members(g) \subseteq Indexes
  BY <1>2, MembersOfGroup
<1>6. Queue!SamplesOf(u) \subseteq Members(g) \ {index}
  <2>1. NumberedPrompt(u)
    BY <1>1, <1>2 DEF Numbered
  <2>2. \A i \in DOMAIN owner : owner[i] = u <=> Group(i) = g
    BY <2>1 DEF NumberedPrompt
  <2>3. \A i \in DOMAIN owner : i \in Members(Group(i))
    BY GroupOfIndex DEF TypeOK, HistoryType
  <2> QED
    BY <1>2, <2>2, <2>3 DEF Queue!SamplesOf
<1>7. Cardinality(Queue!SamplesOf(u)) < NSamples
  <2> PICK S, M : S = Queue!SamplesOf(u) /\ M = Members(g)
    OBVIOUS
  <2>1. IsFiniteSet(M) /\ Cardinality(M) = NSamples /\ NSamples \in Nat \ {0}
    BY <1>2, GroupSize, SizeAssumption
  <2>2. IsFiniteSet(M \ {index}) /\ Cardinality(M \ {index}) = NSamples - 1
    BY <1>2, <2>1, FS_RemoveElement
  <2>3. IsFiniteSet(S) /\ Cardinality(S) <= NSamples - 1 /\ Cardinality(S) \in Nat
    BY <1>6, <2>2, FS_Subset, FS_CardinalityType
  <2> QED
    BY <2>1, <2>3
<1>8. Queue!Allot(u, index)
  BY <1>2, <1>3, <1>4, <1>7, SameSize DEF Queue!Allot
<1> QED
  BY <1>2, <1>5, <1>8 DEF Queue!Next

(* What a shard reports the rollout has put, or a stage has written.       *)
LEMMA ReportIsWrite ==
    ASSUME Basics, RouteInv, QueueInv, NEW w \in writes, update_data_status(w)
    PROVE  Queue!Next \/ UNCHANGED Queue!vars
<1>1. /\ experience_ready' = [col \in Columns |->
            IF col \in w.cols THEN experience_ready[col] \cup w.idxs ELSE experience_ready[col]]
      /\ UNCHANGED <<owner, deliveries, deleted>>
  BY DEF update_data_status, history
<1>2. CASE w.cols = {}
  <2>1. experience_ready' = experience_ready
    BY <1>1, <1>2 DEF Basics, TypeOK, MetaType
  <2> QED
    BY <1>1, <2>1 DEF Queue!vars
<1>3. CASE w.cols # {}
  <2>1. w.idxs \subseteq DOMAIN owner \ deleted /\ w.idxs \subseteq Indexes
    <3>1. w.idxs \subseteq DOMAIN global_idx_to_shard
      BY <1>3 DEF RouteInv, WritesRouted, Routed
    <3> QED
      BY <3>1 DEF QueueInv, OwnedCalls, Basics, DeletedIsUnrouted, TypeOK, CallsType
  <2>2. Queue!Write(w.idxs, w.cols)
    BY <1>1, <2>1 DEF Queue!Write
  <2>3. \/ w.cols = PutColumns
        \/ \E c \in Consumers : w.cols = Produces[c] /\ Given(c, w.idxs)
    BY DEF QueueInv, GivenCalls
  <2>4. ASSUME NEW c \in Consumers, w.cols = Produces[c], Given(c, w.idxs)
        PROVE  Queue!Next
    <3>1. w.idxs \subseteq Queue!Had(c)
      BY <2>1, <2>4 DEF Given, Queue!Had
    <3> QED
      BY <2>2, <2>4, <3>1 DEF Queue!Next
  <2>5. CASE w.cols = PutColumns
    BY <2>1, <2>2, <2>5 DEF Queue!Next
  <2> QED
    BY <2>3, <2>4, <2>5
<1> QED
  BY <1>2, <1>3

(* A fetch takes samples that are there, for the first time; whole prompts *)
(* where groups are asked for.                                             *)
LEMMA FetchIsTake ==
    ASSUME Basics, DeliveredOnce, GroupIsOnePrompt, RouteInv, QueueInv,
           NEW c \in Consumers, NEW latest, allocate_shard_and_indexes(c, latest)
    PROVE  Queue!Next
<1> PICK chosen : chosen = Sample(c, latest)
  OBVIOUS
<1>1. /\ chosen \subseteq Indexes
      /\ \A col \in Requires[c] : chosen \subseteq experience_ready[col]
      /\ \A i \in chosen : deliveries[c][i] = 0
      /\ deliveries' = [deliveries EXCEPT ![c] =
            [i \in Indexes |-> IF i \in chosen THEN 1 ELSE @[i]]]
      /\ UNCHANGED <<experience_ready, owner, deleted>>
  BY FetchIsFirst
<1>2. chosen \subseteq Queue!Available(c)
  BY <1>1 DEF Queue!Available, Queue!Had
<1>3. Cardinality(chosen) = Counts[c]
  BY DEF allocate_shard_and_indexes
<1>4. chosen \subseteq DOMAIN owner
  <2>1. PICK col \in Columns : col \in Requires[c]
    BY StageAssumption
  <2> QED
    BY <1>1, <2>1 DEF QueueInv, OwnedCalls
<1>5. ASSUME Grouped[c] PROVE Queue!WholePrompts(chosen)
  <2> SUFFICES ASSUME NEW i \in chosen
               PROVE  /\ Queue!SamplesOf(owner[i]) \subseteq chosen
                      /\ Cardinality(Queue!SamplesOf(owner[i])) = NSamples
    BY SameSize DEF Queue!WholePrompts
  <2>1. Members(Group(i)) \subseteq chosen /\ i \in Indexes /\ i \in DOMAIN owner
    BY <1>1, <1>4, <1>5, GroupsAreWhole
  <2>2. Group(i) \in Groups
    BY <2>1, GroupOfIndex
  <2>3. Queue!SamplesOf(owner[i]) = {j \in DOMAIN owner : Group(j) = Group(i)}
        /\ Queue!SamplesOf(owner[i]) \subseteq Members(Group(i))
    BY <2>1, PromptIsGroup DEF Basics
  <2>4. \A j \in Members(Group(i)) : j \in DOMAIN owner /\ Group(j) = Group(i)
    BY <1>4, <2>1, <2>2, MembersOfGroup
  <2>5. Queue!SamplesOf(owner[i]) = Members(Group(i))
    BY <2>3, <2>4
  <2> QED
    BY <2>1, <2>2, <2>5, GroupSize
<1>6. Queue!Take(c, chosen)
  BY <1>1, <1>3, <1>5, SameSize DEF Queue!Take
<1> QED
  BY <1>2, <1>6 DEF Queue!Next

(* The trainer deletes what it was given and has not deleted.              *)
LEMMA PruneIsDelete ==
    ASSUME Basics, QueueInv, NEW j \in jobs, StartPrune(j)
    PROVE  Queue!Next
<1>1. /\ experience_ready' = [col \in Columns |-> experience_ready[col] \ j.idxs]
      /\ deleted' = deleted \cup j.idxs
      /\ UNCHANGED <<owner, deliveries>>
  BY DEF StartPrune, ResetStatus
<1>2. j.idxs \subseteq Queue!Had(Trainer) \ deleted
  <2>1. j.idxs \subseteq Indexes /\ Given(Trainer, j.idxs)
    BY DEF StartPrune, QueueInv, GivenCalls, Basics, TypeOK, CallsType
  <2>2. j.idxs \cap deleted = {}
    BY DEF StartPrune, Routed, Basics, DeletedIsUnrouted
  <2> QED
    BY <2>1, <2>2 DEF Given, Queue!Had
<1>3. Queue!Delete(j.idxs)
  BY <1>1 DEF Queue!Delete
<1> QED
  BY <1>2, <1>3 DEF Queue!Next

LEMMA StepIsQueueStep ==
    ASSUME Basics, DeliveredOnce, PromptInv, RouteInv, QueueInv, [Next]_vars
    PROVE  [Queue!Next]_Queue!vars
<1>1. GroupIsOnePrompt /\ TypeOK
  BY DEF PromptInv, Basics
<1>2. ASSUME UNCHANGED <<owner, experience_ready, deliveries, deleted>>
      PROVE  UNCHANGED Queue!vars
  BY <1>2 DEF Queue!vars
<1>3. CASE AllocateIndex
  BY <1>1, <1>3, IndexIsAllotted
<1>4. ASSUME NEW w \in writes, update_data_status(w) PROVE [Queue!Next]_Queue!vars
  BY <1>4, ReportIsWrite
<1>5. ASSUME NEW c \in Consumers, NEW v \in Latest, allocate_shard_and_indexes(c, v)
      PROVE  Queue!Next
  BY <1>1, <1>5, FetchIsTake
<1>6. ASSUME NEW j \in jobs, StartPrune(j) PROVE Queue!Next
  BY <1>6, PruneIsDelete
<1>7. CASE \/ \E batch \in Batches : AllocateGroups(batch)
           \/ AssignGroups
           \/ \E v \in Versions : FinishAllocation(v)
           \/ \E p \in puts : RoutePut(p) \/ record_versions(p)
  BY <1>2, <1>7 DEF AllocateGroups, AssignGroups, FinishAllocation, RoutePut, record_versions,
     meta, history
<1>8. CASE \/ \E j \in jobs : WriteBack(j)
           \/ \E r \in pruning : FinishPrune(r)
           \/ \E c \in Consumers, idxs \in StatusQueries : get_data_consumed_set(c, idxs)
           \/ UNCHANGED vars
  BY <1>2, <1>8 DEF WriteBack, FinishPrune, get_data_consumed_set, vars, meta, history
<1> QED
  BY <1>3, <1>4, <1>5, <1>6, <1>7, <1>8 DEF Next

(* Handlers, shards, late reports and deletions in two halves add up to a  *)
(* SampleQueue, under the conditions of RoutingAlwaysAgrees and for any    *)
(* number of shards, samples and consumers.                                *)
THEOREM ImplementsSampleQueue ==
    ASSUME PutWhole, ~ Preemptive, StatusQueries \subseteq {{}}, Marked
    PROVE  Spec => ImplementsQueue
<1>1. Init => Queue!Init
  BY DEF Init, Queue!Init
<1>2. Init => QueueInv
  BY DEF Init, QueueInv, OwnedCalls, GivenCalls, Idle
<1>3. Basics /\ DeliveredOnce /\ PromptInv /\ RouteInv /\ QueueInv /\ [Next]_vars => QueueInv'
  BY StepKeepsQueue
<1>4. Basics /\ DeliveredOnce /\ PromptInv /\ RouteInv /\ QueueInv /\ [Next]_vars
        => [Queue!Next]_Queue!vars
  BY StepIsQueueStep
<1> QED
  BY <1>1, <1>2, <1>3, <1>4, BasicsHold, PromptsHold, RoutesHold, PTL
     DEF Spec, ImplementsQueue, Queue!Spec
=============================================================================
