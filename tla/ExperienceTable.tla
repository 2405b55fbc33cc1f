--------------------------- MODULE ExperienceTable ---------------------------
(***************************************************************************)
(* The storage of one TransferQueue shard for one topic                    *)
(* (src/async_flow/utils/transfer_queue/tq_structures.py). A put brings    *)
(* one frame per column; the entries of the column that live in the frame  *)
(* share a MemorySegment that counts them, and the frame is let go when    *)
(* the count is zero. A column shared by the samples of a prompt stores    *)
(* one value for all the indexes of the group.                             *)
(*                                                                         *)
(* A column is sent as raw tensors with a shape each; a dtype stands for   *)
(* the pair of dtype and encoding that a put declares for the column. The  *)
(* set owned_groups, which only the manager's bookkeeping calls fill, is   *)
(* left out.                                                               *)
(*                                                                         *)
(* A shard's tables are only touched from its event loop, and no method    *)
(* awaits: every operation is one action.                                  *)
(***************************************************************************)
EXTENDS Integers, FiniteSets, Sequences, SequencesExt

CONSTANTS
    NSamples,      \* n_samples_per_prompt
    MaxGroups,     \* bound on the groups of a run
    Segments,      \* names of the MemorySegments alive at a time
    Columns,       \* experience_columns
    SharedColumns, \* GROUP_SHARED_COLUMNS
    Dtypes,
    Orders         \* column orders (col_order) of the puts

None == "none"

ASSUME TableAssumption ==
    /\ NSamples \in Nat \ {0}
    /\ MaxGroups \in Nat
    /\ SharedColumns \subseteq Columns
    /\ None \notin Dtypes \cup Columns
    /\ Orders \subseteq Seq(Columns)

VARIABLES
    indices,     \* [Columns -> partial function from indexes to segments]
    ref_count,   \* [Columns -> partial function from segments to Nat]
    dtype,       \* [Columns -> partial function from segments to Dtypes]
    col_metas,   \* [Columns -> Dtypes \cup {None}]
    col_shapes   \* [Columns -> set of indexes]

vars == <<indices, ref_count, dtype, col_metas, col_shapes>>

Indexes == 0 .. MaxGroups * NSamples - 1
Group(i) == i \div NSamples
Members(g) == g * NSamples .. g * NSamples + NSamples - 1

Init ==
    /\ indices = [col \in Columns |-> <<>>]
    /\ ref_count = [col \in Columns |-> <<>>]
    /\ dtype = [col \in Columns |-> <<>>]
    /\ col_metas = [col \in Columns |-> None]
    /\ col_shapes = [col \in Columns |-> {}]

-----------------------------------------------------------------------------
(* Segments *)

(* The entries of a column, among idxs, that live in segment s. *)
EntriesIn(col, idxs, s) ==
    {i \in idxs \cap DOMAIN indices[col] : indices[col][i] = s}

(* Mutant: a put does not release what it overwrites. *)
KeepOverwritten(col, idxs, s) == ref_count[col][s]

(* MemorySegment.release, once for every entry that goes. *)
AfterRelease(col, idxs, s) ==
    ref_count[col][s] - Cardinality(EntriesIn(col, idxs, s))

(* Mutant: an empty segment keeps its frame. *)
HeldForEver(col, idxs) == DOMAIN ref_count[col]

(* Segments whose count is positive hold their frame; the others are free  *)
(* for the memory of later frames.                                         *)
Held(col, idxs) == {s \in DOMAIN ref_count[col] : AfterRelease(col, idxs, s) > 0}

Released(col, idxs) ==
    [s \in Held(col, idxs) |-> AfterRelease(col, idxs, s)]

-----------------------------------------------------------------------------
(* put_batch *)

(* What an entry of the column covers: the whole group of each index when  *)
(* the column is shared (ref_multiplier), the index itself otherwise.      *)
Covered(col, ids) ==
    IF col \in SharedColumns THEN UNION {Members(Group(i)) : i \in ids} ELSE ids

(* Mutant: a shared frame is counted once per value. *)
CountValues(col, ids) == Cardinality(ids)

initial_ref_count(col, ids) ==
    IF col \in SharedColumns THEN Cardinality(ids) * NSamples ELSE Cardinality(ids)

(* Mutant: any dtype is accepted. *)
AnyDtype(col, d) == TRUE

(* The dtype of a column is that of its first put. *)
Accepts(col, d) == col_metas[col] \in {None, d}

(* A frame whose size does not match its lengths is bad. The columns       *)
(* validated up to the first one refused leave their dtype behind, whether *)
(* the put is stored or not: the dtype is noted before the size is tested. *)
Noted(order, d, bad) ==
    {order[k] : k \in {k \in DOMAIN order :
        /\ \A j \in 1 .. k : Accepts(order[j], d[order[j]])
        /\ \A j \in 1 .. k - 1 : order[j] # bad}}

NoteDtypes(order, d, bad) ==
    col_metas' = [col \in Columns |->
                    IF col \in Noted(order, d, bad) THEN d[col] ELSE col_metas[col]]

Refused(order, d, bad) ==
    \E k \in DOMAIN order : ~ Accepts(order[k], d[order[k]]) \/ order[k] = bad

(* put_batch raises ValueError. *)
refuse_batch(order, d, bad) ==
    /\ Refused(order, d, bad)
    /\ NoteDtypes(order, d, bad)
    /\ UNCHANGED <<indices, ref_count, dtype, col_shapes>>

(* The client sends the first index of each group for a shared column, and *)
(* the shared columns in a put of their own.                               *)
IsRequest(ids, put) ==
    /\ ids # {}
    /\ \/ put \cap SharedColumns = {}
       \/ put \subseteq SharedColumns /\ \A i \in ids : i % NSamples = 0

(* Mutant: an entry that is there is kept. *)
KeepEntries(ids, put, new) ==
    indices' = [col \in Columns |->
        IF col \notin put THEN indices[col]
        ELSE [i \in DOMAIN indices[col] \cup Covered(col, ids) |->
                IF i \in DOMAIN indices[col] THEN indices[col][i] ELSE new]]

StoreEntries(ids, put, new) ==
    indices' = [col \in Columns |->
        IF col \notin put THEN indices[col]
        ELSE [i \in DOMAIN indices[col] \cup Covered(col, ids) |->
                IF i \in Covered(col, ids) THEN new ELSE indices[col][i]]]

StoreSegments(ids, put, d, new) ==
    /\ ref_count' = [col \in Columns |->
          IF col \notin put THEN ref_count[col]
          ELSE [s \in Held(col, Covered(col, ids)) \cup {new} |->
                  IF s = new THEN initial_ref_count(col, ids)
                  ELSE AfterRelease(col, Covered(col, ids), s)]]
    /\ dtype' = [col \in Columns |->
          IF col \notin put THEN dtype[col]
          ELSE [s \in Held(col, Covered(col, ids)) \cup {new} |->
                  IF s = new THEN d[col] ELSE dtype[col][s]]]

(* put_batch stores every column of the order; new names their segments. *)
put_batch(ids, order, d, new) ==
    LET put == ToSet(order)
    IN  /\ IsRequest(ids, put)
        /\ ~ Refused(order, d, None)
        /\ \A col \in put : new \notin Held(col, Covered(col, ids))
        /\ NoteDtypes(order, d, None)
        /\ StoreEntries(ids, put, new)
        /\ StoreSegments(ids, put, d, new)
        /\ col_shapes' = [col \in Columns |->
              IF col \notin put THEN col_shapes[col]
              ELSE col_shapes[col] \cup Covered(col, ids)]

-----------------------------------------------------------------------------
(* prune and clear *)

ForgetShapes(idxs) ==
    col_shapes' = [col \in Columns |-> col_shapes[col] \ idxs]

prune(idxs) ==
    /\ idxs # {}
    /\ indices' = [col \in Columns |->
         [i \in DOMAIN indices[col] \ idxs |-> indices[col][i]]]
    /\ ref_count' = [col \in Columns |-> Released(col, idxs)]
    /\ dtype' = [col \in Columns |-> [s \in Held(col, idxs) |-> dtype[col][s]]]
    /\ ForgetShapes(idxs)
    /\ UNCHANGED col_metas

clear ==
    /\ ref_count' = [col \in Columns |-> Released(col, Indexes)]
    /\ dtype' = [col \in Columns |-> [s \in Held(col, Indexes) |-> dtype[col][s]]]
    /\ indices' = [col \in Columns |-> <<>>]
    /\ col_metas' = [col \in Columns |-> None]
    /\ col_shapes' = [col \in Columns |-> {}]

Next ==
    \/ \E order \in Orders : \E d \in [ToSet(order) -> Dtypes] :
          \/ \E bad \in ToSet(order) \cup {None} : refuse_batch(order, d, bad)
          \/ \E ids \in SUBSET Indexes, new \in Segments : put_batch(ids, order, d, new)
    \/ \E idxs \in SUBSET Indexes : prune(idxs)
    \/ clear

Spec == Init /\ [][Next]_vars

-----------------------------------------------------------------------------
(* Properties *)

TypeOK ==
    /\ DOMAIN indices = Columns
    /\ \A col \in Columns :
          /\ DOMAIN indices[col] \subseteq Indexes
          /\ \A i \in DOMAIN indices[col] : indices[col][i] \in Segments
          /\ DOMAIN ref_count[col] \subseteq Segments
          /\ \A s \in DOMAIN ref_count[col] : ref_count[col][s] \in Nat \ {0}
          /\ DOMAIN dtype[col] = DOMAIN ref_count[col]
    /\ col_metas \in [Columns -> Dtypes \cup {None}]
    /\ col_shapes \in [Columns -> SUBSET Indexes]

(* A segment counts exactly the entries that live in it: a frame is        *)
(* neither let go under a reader nor kept after its last sample            *)
(* (MemorySegment.release over puts, overwrites, prunes and clear).        *)
RefCountsExact ==
    \A col \in Columns :
        /\ \A i \in DOMAIN indices[col] : indices[col][i] \in DOMAIN ref_count[col]
        /\ \A s \in DOMAIN ref_count[col] :
              ref_count[col][s] = Cardinality(EntriesIn(col, Indexes, s))

(* Every stored value is decoded as it was encoded: get_batch answers with *)
(* the column's dtype, not the segment's (col_metas), and with the shape   *)
(* it has for the index; no shape of a pruned sample waits for the next    *)
(* one with its index (col_shapes).                                        *)
DecodedAsEncoded ==
    \A col \in Columns :
        /\ col_shapes[col] = DOMAIN indices[col]
        /\ \A i \in DOMAIN indices[col] : dtype[col][indices[col][i]] = col_metas[col]

(* The samples of a group that are left share one copy of a shared value.  *)
OneCopyPerGroup ==
    \A col \in SharedColumns : \A i, j \in DOMAIN indices[col] :
        Group(i) = Group(j) => indices[col][i] = indices[col][j]
=============================================================================
