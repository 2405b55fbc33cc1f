------------------------- MODULE TransferQueueClient -------------------------
(***************************************************************************)
(* Putting rows into the TransferQueue and getting them out                *)
(* (src/async_flow/utils/transfer_queue/tq_client.py put_experience_async  *)
(* and get_experience_async, with the handlers they call in tq_mgr.py and  *)
(* tq_data.py). A put asks the manager which shared columns of its groups  *)
(* have been written, sends one message per shard, kind of column and      *)
(* segment of rows, and marks the shared columns when all are              *)
(* acknowledged; a shard stores a message and then tells the manager. The  *)
(* trainer fetches samples whose columns are ready and deletes them.       *)
(*                                                                         *)
(* What a row says is abstracted to whose it is: the value of an ordinary  *)
(* column is the index the row was put for, that of a shared column the    *)
(* group. Allocation, versions and status queries are modelled in          *)
(* TransferQueueManager, the shard's storage in ExperienceTable.           *)
(***************************************************************************)
EXTENDS Integers, FiniteSets, Sequences, FiniteSetsExt, SequencesExt

CONSTANTS
    NSamples,      \* n_samples_per_prompt
    Groups,        \* the groups the manager gives out
    Shards,
    ShardOf,       \* group_ids_per_shard
    SegmentSize,   \* NUM_SAMPLE_PER_SEGMENT
    SharedColumns, \* GROUP_SHARED_COLUMNS
    Columns,       \* experience_columns, all of which the trainer reads
    Puts,          \* the calls of put_experience
    Rows,          \* the index of each row of a put
    Carries,       \* the columns of a put
    Reads,         \* the columns the caller fetched before; none: a rollout
    Expanding      \* the puts with needs_expansion: one row for each group

ASSUME ClientAssumption ==
    /\ NSamples \in Nat \ {0}
    /\ Groups \subseteq Nat
    /\ ShardOf \in [Groups -> Shards]
    /\ SegmentSize \in Nat \ {0}
    /\ SharedColumns \subseteq Columns /\ Columns # {}
    /\ Carries \in [Puts -> (SUBSET Columns) \ {{}}]
    /\ Reads \in [Puts -> SUBSET Columns]
    /\ \A p \in Expanding : p \in Puts /\ Carries[p] \subseteq SharedColumns

Group(i) == i \div NSamples
Members(g) == g * NSamples .. g * NSamples + NSamples - 1
Indexes == UNION {Members(g) : g \in Groups}

ASSUME RowsAssumption ==
    \A p \in Puts : Rows[p] \in Seq(Indexes) /\ IsInjective(Rows[p])

VARIABLES
    pc,       \* where each put is
    todo,     \* the <<column, group>> pairs a put has yet to ask about or mark
    needs,    \* the pairs a put found unwritten
    unsent,   \* the <<shard, shared>> tasks of a put that have not run
    sent,     \* messages on their way to a shard
    stored,   \* messages stored, whose status the manager does not have
    written,  \* group_shared_col_written, as pairs
    routed,   \* global_idx_to_shard, as the set of its indexes
    ready,    \* experience_ready
    store,    \* the shards' tables: [Columns -> partial function from indexes]
    consumed, \* experience_consumed of the trainer
    trainer,  \* the trainer's call: phase, batch, shards yet to answer
    delivered,\* history: the samples the trainer got
    lost      \* history: the samples consumed without an answer

putVars == <<pc, todo, needs, unsent>>
managerVars == <<written, routed, ready, consumed>>
trainerVars == <<trainer, delivered, lost>>
vars == <<putVars, sent, stored, managerVars, store, trainerVars>>

Idle == [phase |-> "idle", batch |-> {}, waiting |-> {}]

Init ==
    /\ pc = [p \in Puts |-> "new"]
    /\ todo = [p \in Puts |-> {}]
    /\ needs = [p \in Puts |-> {}]
    /\ unsent = [p \in Puts |-> {}]
    /\ sent = {}
    /\ stored = {}
    /\ written = {}
    /\ routed = {}
    /\ ready = [c \in Columns |-> {}]
    /\ store = [c \in Columns |-> <<>>]
    /\ consumed = {}
    /\ trainer = Idle
    /\ delivered = {}
    /\ lost = {}

-----------------------------------------------------------------------------
(* put_experience: which columns to send *)

(* A rollout's put allocates its indexes: groups are opened in order, and  *)
(* the indexes of a group follow each other. A group whose samples have    *)
(* all been deleted is not continued: the manager would open another.      *)
Allocates(p) ==
    /\ Reads[p] = {}
    /\ \A i \in ToSet(Rows[p]), j \in Indexes \ ToSet(Rows[p]) :
          j < i /\ (Group(j) = Group(i) \/ j % NSamples = 0) => j \in routed \cup delivered
    /\ \A i \in ToSet(Rows[p]) :
          Members(Group(i)) \cap delivered # {} => Members(Group(i)) \cap routed # {}

(* A worker's put is for samples it has fetched.                           *)
HasFetched(p) ==
    /\ Reads[p] # {}
    /\ \A c \in Reads[p] : ToSet(Rows[p]) \subseteq ready[c] \cap routed

(* Mutant: indexes are taken for groups. *)
IndexesAsGroups(p) == ToSet(Rows[p])

(* unique_groups: with needs_expansion, the row numbers stand for groups.  *)
UniqueGroups(p) ==
    IF p \in Expanding THEN 0 .. Len(Rows[p]) \div NSamples - 1
    ELSE {Group(i) : i \in ToSet(Rows[p])}

StartPut(p) ==
    /\ pc[p] = "new"
    /\ Allocates(p) \/ HasFetched(p)
    /\ pc' = [pc EXCEPT ![p] = "ask"]
    /\ todo' = [todo EXCEPT ![p] = (Carries[p] \cap SharedColumns) \X UniqueGroups(p)]
    /\ routed' = routed \cup ToSet(Rows[p])
    /\ UNCHANGED <<needs, unsent, sent, stored, written, ready, consumed, store, trainerVars>>

(* is_column_written_in_group, one call for each column and group.         *)
AskWritten(p) ==
    /\ pc[p] = "ask"
    /\ \E pair \in todo[p] :
          /\ todo' = [todo EXCEPT ![p] = @ \ {pair}]
          /\ needs' = [needs EXCEPT ![p] = IF pair \in written THEN @ ELSE @ \cup {pair}]
    /\ UNCHANGED <<pc, unsent, sent, stored, managerVars, store, trainerVars>>

SharedToSend(p) == {pair[1] : pair \in needs[p]}
GroupsToMark(p) == {pair[2] : pair \in needs[p]}
Ascending(S) ==
    [k \in 1 .. Cardinality(S) |-> CHOOSE x \in S : Cardinality({y \in S : y < x}) = k - 1]

(* The indexes of each kind of message: the first of each group for the    *)
(* shared columns (shared_indexes), those of the rows for the others.      *)
Targets(p, shared) ==
    IF shared THEN [k \in DOMAIN Ascending(GroupsToMark(p)) |->
                      Ascending(GroupsToMark(p))[k] * NSamples]
    ELSE Rows[p]

ColumnsOf(p, shared) ==
    IF shared THEN SharedToSend(p) ELSE Carries[p] \ SharedColumns

(* The values of a column in the put's data_dict, row by row. A shared     *)
(* column has a row for each group that needs this column, taken from the  *)
(* first row of the group; with needs_expansion the row of that number.    *)
ColumnData(p, c) ==
    IF c \notin SharedColumns THEN Rows[p]
    ELSE LET groups == Ascending({pair[2] : pair \in {q \in needs[p] : q[1] = c}})
         IN  IF p \in Expanding
             THEN [k \in DOMAIN groups |-> Group(Rows[p][groups[k] * NSamples + 1])]
             ELSE groups

Tasks(p) ==
    {t \in Shards \X BOOLEAN :
        /\ ColumnsOf(p, t[2]) # {}
        /\ \E i \in ToSet(Targets(p, t[2])) : ShardOf[Group(i)] = t[1]}

(* get_targets_for_put raises for an index that has been deleted, and the  *)
(* put returns without a row sent.                                         *)
Routable(p) ==
    \A shared \in BOOLEAN :
        ColumnsOf(p, shared) # {} => ToSet(Targets(p, shared)) \subseteq routed

RoutePut(p) ==
    /\ pc[p] = "ask"
    /\ todo[p] = {}
    /\ IF Routable(p)
       THEN /\ pc' = [pc EXCEPT ![p] = "send"]
            /\ unsent' = [unsent EXCEPT ![p] = Tasks(p)]
       ELSE /\ pc' = [pc EXCEPT ![p] = "failed"]
            /\ UNCHANGED unsent
    /\ UNCHANGED <<todo, needs, sent, stored, managerVars, store, trainerVars>>

-----------------------------------------------------------------------------
(* put_experience: sending (_process_node_data) *)

(* The row numbers, from 1, of the items of a shard, in segments.          *)
Items(p, t) ==
    Ascending({k \in DOMAIN Targets(p, t[2]) : ShardOf[Group(Targets(p, t[2])[k])] = t[1]})

Segments(p, t) ==
    LET items == Items(p, t)
        starts == {a \in DOMAIN items : a % SegmentSize = 1 % SegmentSize}
    IN  {SubSeq(items, a, Min({a + SegmentSize - 1, Len(items)})) : a \in starts}

(* Mutant: every row of a segment is taken from its first one. *)
FirstRowOnly(seg, j) == seg[1]

(* The slice that the rows of a segment are taken from begins at the first *)
(* item and has as many rows as there are items.                           *)
SlicedRow(seg, j) == seg[1] + j - 1

InRange(p, t, seg) ==
    \A c \in ColumnsOf(p, t[2]) : SlicedRow(seg, Len(seg)) <= Len(ColumnData(p, c))

Message(p, t, seg) ==
    LET ids == {Targets(p, t[2])[seg[j]] : j \in DOMAIN seg}
        position(i) == CHOOSE j \in DOMAIN seg : Targets(p, t[2])[seg[j]] = i
    IN  [put |-> p, shared |-> t[2], ids |-> ids,
         value |-> [c \in ColumnsOf(p, t[2]) |->
                      [i \in ids |-> ColumnData(p, c)[SlicedRow(seg, position(i))]]]]

(* A slice beyond the data raises: the put fails, whatever its other tasks *)
(* have sent or may still send.                                            *)
SendTask(p) ==
    /\ pc[p] \in {"send", "failed"}
    /\ \E t \in unsent[p] :
          /\ unsent' = [unsent EXCEPT ![p] = @ \ {t}]
          /\ sent' = sent \cup {Message(p, t, seg) :
                                   seg \in {seg \in Segments(p, t) : InRange(p, t, seg)}}
          /\ pc' = IF \A seg \in Segments(p, t) : InRange(p, t, seg)
                   THEN pc ELSE [pc EXCEPT ![p] = "failed"]
    /\ UNCHANGED <<todo, needs, stored, managerVars, store, trainerVars>>

Acknowledged(p) ==
    /\ unsent[p] = {}
    /\ \A m \in sent \cup stored : m.put # p

ToMark(p) == SharedToSend(p) \X GroupsToMark(p)

StartMarks(p) ==
    /\ pc[p] = "send"
    /\ Acknowledged(p)
    /\ pc' = [pc EXCEPT ![p] = "mark"]
    /\ todo' = [todo EXCEPT ![p] = ToMark(p)]
    /\ UNCHANGED <<needs, unsent, sent, stored, managerVars, store, trainerVars>>

(* mark_column_written_in_group, one call for each group and column.       *)
MarkWritten(p) ==
    /\ pc[p] = "mark"
    /\ \E pair \in todo[p] :
          /\ todo' = [todo EXCEPT ![p] = @ \ {pair}]
          /\ written' = written \cup {pair}
    /\ UNCHANGED <<pc, needs, unsent, sent, stored, routed, ready, consumed, store, trainerVars>>

FinishPut(p) ==
    /\ pc[p] = "mark"
    /\ todo[p] = {}
    /\ pc' = [pc EXCEPT ![p] = "done"]
    /\ UNCHANGED <<todo, needs, unsent, sent, stored, managerVars, store, trainerVars>>

-----------------------------------------------------------------------------
(* The shards *)

(* Mutant: a shared value is stored for the first sample only. *)
CoverFirst(m) == m.ids

(* The indexes a message is stored for and reported for.                   *)
CoveredBy(m) ==
    IF m.shared THEN UNION {Members(Group(i)) : i \in m.ids} ELSE m.ids

ValueFor(m, c, i) ==
    IF m.shared THEN m.value[c][Group(i) * NSamples] ELSE m.value[c][i]

(* _handle_put, up to its first await.                                     *)
StoreMessage(m) ==
    /\ m \in sent
    /\ sent' = sent \ {m}
    /\ stored' = stored \cup {m}
    /\ store' = [c \in Columns |->
         IF c \notin DOMAIN m.value THEN store[c]
         ELSE [i \in DOMAIN store[c] \cup CoveredBy(m) |->
                 IF i \in CoveredBy(m) THEN ValueFor(m, c, i) ELSE store[c][i]]]
    /\ UNCHANGED <<putVars, managerVars, trainerVars>>

ReportedAt(m) == CoveredBy(m)

(* update_data_status and the acknowledgement.                             *)
ReportStatus(m) ==
    /\ m \in stored
    /\ stored' = stored \ {m}
    /\ ready' = [c \in Columns |->
         IF c \in DOMAIN m.value THEN ready[c] \cup ReportedAt(m) ELSE ready[c]]
    /\ UNCHANGED <<putVars, sent, written, routed, consumed, store, trainerVars>>

-----------------------------------------------------------------------------
(* The trainer: get_experience and delete_experience *)

(* Mutant: a sample waits for its whole group. *)
UsableGroups ==
    {i \in Indexes \ consumed :
        \A j \in Members(Group(i)) : \A c \in Columns : j \in ready[c]}

Usable == {i \in Indexes \ consumed : \A c \in Columns : i \in ready[c]}

(* Consumed first, fetched afterwards. The manager raises for a sample that *)
(* has been deleted, and the batch, consumed, is fetched by nobody.        *)
StartFetch(batch) ==
    /\ trainer.phase = "idle"
    /\ batch # {}
    /\ batch \subseteq Usable
    /\ consumed' = consumed \cup batch
    /\ IF batch \subseteq routed
       THEN /\ trainer' = [phase |-> "get", batch |-> batch,
                           waiting |-> {ShardOf[Group(i)] : i \in batch}]
            /\ UNCHANGED lost
       ELSE /\ lost' = lost \cup batch
            /\ UNCHANGED trainer
    /\ UNCHANGED <<putVars, sent, stored, written, routed, ready, store, delivered>>

On(s, batch) == {i \in batch : ShardOf[Group(i)] = s}

(* get_batch: a shard that misses a value answers with an error, and its   *)
(* samples are left out of the batch.                                      *)
GetFrom(s) ==
    /\ trainer.phase = "get"
    /\ s \in trainer.waiting
    /\ trainer' = [trainer EXCEPT !.waiting = @ \ {s}]
    /\ IF \A c \in Columns : On(s, trainer.batch) \subseteq DOMAIN store[c]
       THEN delivered' = delivered \cup On(s, trainer.batch)
       ELSE UNCHANGED delivered
    /\ UNCHANGED <<putVars, sent, stored, managerVars, store, lost>>

(* _fetch_one_shard: the connection to a shard fails, the exception is     *)
(* logged and its samples are left out too. Nothing fetches them again:    *)
(* they stay consumed, and with the manager and the shard.                 *)
LoseAnswer(s) ==
    /\ trainer.phase = "get"
    /\ s \in trainer.waiting
    /\ trainer' = [trainer EXCEPT !.waiting = @ \ {s}]
    /\ lost' = lost \cup On(s, trainer.batch)
    /\ UNCHANGED <<putVars, sent, stored, managerVars, store, delivered>>

(* The trainer deletes what it got.                                        *)
StartDelete ==
    /\ trainer.phase = "get"
    /\ trainer.waiting = {}
    /\ LET got == trainer.batch \cap delivered
       IN  /\ routed' = routed \ got
           /\ ready' = [c \in Columns |-> ready[c] \ got]
           /\ consumed' = consumed \ got
           /\ trainer' = [phase |-> "prune", batch |-> got,
                          waiting |-> {ShardOf[Group(i)] : i \in got}]
    /\ UNCHANGED <<putVars, sent, stored, written, store, delivered, lost>>

PruneShard(s) ==
    /\ trainer.phase = "prune"
    /\ s \in trainer.waiting
    /\ trainer' = [trainer EXCEPT !.waiting = @ \ {s}]
    /\ store' = [c \in Columns |->
         [i \in DOMAIN store[c] \ On(s, trainer.batch) |-> store[c][i]]]
    /\ UNCHANGED <<putVars, sent, stored, managerVars, delivered, lost>>

(* The marks of the groups that have no sample left are taken back.        *)
Emptied == {g \in {Group(i) : i \in trainer.batch} : Members(g) \cap routed = {}}

FinishDelete ==
    /\ trainer.phase = "prune"
    /\ trainer.waiting = {}
    /\ written' = {pair \in written : pair[2] \notin Emptied}
    /\ trainer' = Idle
    /\ UNCHANGED <<putVars, sent, stored, routed, ready, consumed, store, delivered, lost>>

-----------------------------------------------------------------------------

PutStep(p) ==
    \/ AskWritten(p)
    \/ RoutePut(p)
    \/ SendTask(p)
    \/ StartMarks(p)
    \/ MarkWritten(p)
    \/ FinishPut(p)

ShardStep == \E m \in sent \cup stored : StoreMessage(m) \/ ReportStatus(m)

TrainerStep ==
    \/ \E batch \in SUBSET Indexes : StartFetch(batch)
    \/ \E s \in Shards : GetFrom(s) \/ LoseAnswer(s) \/ PruneShard(s)
    \/ StartDelete
    \/ FinishDelete

Next ==
    \/ \E p \in Puts : StartPut(p) \/ PutStep(p)
    \/ ShardStep
    \/ TrainerStep

Spec == Init /\ [][Next]_vars

(* The clients' and the shards' event loops run, and the trainer asks      *)
(* again as long as it finds nothing. No step is ever undone, so that a    *)
(* step of one of them whenever one is possible is enough.                 *)
Progress == (\E p \in Puts : PutStep(p)) \/ ShardStep \/ TrainerStep

FairSpec == Spec /\ WF_vars(Progress)

-----------------------------------------------------------------------------
(* Properties *)

TypeOK ==
    /\ pc \in [Puts -> {"new", "ask", "send", "mark", "done", "failed"}]
    /\ todo \in [Puts -> SUBSET (SharedColumns \X Groups)]
    /\ needs \in [Puts -> SUBSET (SharedColumns \X Groups)]
    /\ unsent \in [Puts -> SUBSET (Shards \X BOOLEAN)]
    /\ \A m \in sent \cup stored : m.put \in Puts /\ m.ids \subseteq Indexes
    /\ written \subseteq SharedColumns \X Groups
    /\ routed \subseteq Indexes
    /\ ready \in [Columns -> SUBSET Indexes]
    /\ \A c \in Columns : DOMAIN store[c] \subseteq Indexes
    /\ consumed \subseteq Indexes
    /\ trainer \in [phase : {"idle", "get", "prune"},
                   batch : SUBSET Indexes, waiting : SUBSET Shards]
    /\ delivered \cup lost \subseteq Indexes

Own(c, i) == IF c \in SharedColumns THEN Group(i) ELSE i

(* Every value a sample has is its own row's, its shared values those of   *)
(* its prompt, whatever shards and segments they came through              *)
(* (_process_node_data takes slices, put_batch counts positions).          *)
RowsMatch == \A c \in Columns : \A i \in DOMAIN store[c] : store[c][i] = Own(c, i)

(* What the manager reports ready can be fetched: status is updated after  *)
(* the data is stored and withdrawn before it is pruned.                   *)
ReadyIsStored ==
    \A c \in Columns : ready[c] \cap routed \subseteq DOMAIN store[c]

(* A shared column is marked written only where it is ready: later puts of *)
(* the group do not send it again (mark_column_written_in_group).          *)
WrittenIsReady ==
    \A pair \in written : Members(pair[2]) \cap routed \subseteq ready[pair[1]]

(* A put that returns its indexes has left all its columns at all of them, *)
(* those it skipped as written included, and the manager knows.            *)
PutIsReady ==
    \A p \in Puts : pc[p] = "done" =>
        \A c \in Carries[p] : ToSet(Rows[p]) \cap routed \subseteq ready[c]

Complete(i) ==
    \A c \in Columns : \E p \in Puts :
        pc[p] = "done" /\ c \in Carries[p] /\ i \in ToSet(Rows[p])

(* A sample all of whose columns have been put can be fetched until it is  *)
(* and is then delivered, unless the answer is lost.                       *)
CompleteIsUsable ==
    \A i \in Indexes : Complete(i) =>
        \/ i \in (Usable \cap routed) \cup delivered \cup lost
        \/ trainer.phase = "get" /\ i \in trainer.batch /\ ShardOf[Group(i)] \in trainer.waiting

(* What is reported is there: what the manager calls ready is stored, what *)
(* is marked or returned by a put is ready, what is complete is usable.    *)
ReportedIsThere == ReadyIsStored /\ WrittenIsReady /\ PutIsReady /\ CompleteIsUsable

(* A sample all of whose columns have been put reaches the trainer in the  *)
(* end, unless its shard's answer was lost: a lost answer takes no other   *)
(* sample of the batch, the group or the shard with it (get_experience     *)
(* with the samples the manager says are usable).                          *)
CompleteIsDelivered ==
    <>[](\A i \in Indexes : Complete(i) => i \in delivered \cup lost)
=============================================================================
