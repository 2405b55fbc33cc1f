----------------------------- MODULE SampleQueue -----------------------------
(***************************************************************************)
(* What a TransferQueue topic promises to the workers that share it, with  *)
(* no index arithmetic, shards, routing or calls under way: a prompt gets  *)
(* its samples one by one, each a new one; the rollout's columns arrive,   *)
(* those of a stage for samples the stage took; a consumer takes samples   *)
(* that have what it asks for, each once, and whole prompts if it wants    *)
(* groups; what the trainer took it may delete, for good.                  *)
(***************************************************************************)
EXTENDS Integers, FiniteSets

CONSTANTS
    Samples, Prompts,
    NSamples,          \* samples of a prompt
    Columns, PutColumns,
    Consumers, Trainer,
    Requires,          \* the columns a consumer asks for
    Produces,          \* the columns it writes back
    Grouped,           \* does it take whole prompts?
    Counts             \* how many samples it takes at once

VARIABLES
    owner,     \* the prompt of each sample there has been
    written,   \* the samples that have a column
    received,  \* how often a consumer was given a sample
    deleted

vars == <<owner, written, received, deleted>>

Init ==
    /\ owner = <<>>
    /\ written = [col \in Columns |-> {}]
    /\ received = [c \in Consumers |-> [i \in Samples |-> 0]]
    /\ deleted = {}

SamplesOf(u) == {i \in DOMAIN owner : owner[i] = u}

Allot(u, i) ==
    /\ i \notin DOMAIN owner
    /\ Cardinality(SamplesOf(u)) < NSamples
    /\ owner' = [j \in DOMAIN owner \cup {i} |-> IF j = i THEN u ELSE owner[j]]
    /\ UNCHANGED <<written, received, deleted>>

Had(c) == {i \in Samples : received[c][i] > 0}

(* Some of what a stage took, or of what the rollout put, gets its columns.*)
Write(samples, cols) ==
    /\ samples \subseteq DOMAIN owner \ deleted
    /\ written' = [col \in Columns |->
          IF col \in cols THEN written[col] \cup samples ELSE written[col]]
    /\ UNCHANGED <<owner, received, deleted>>

Available(c) == {i \in Samples : \A col \in Requires[c] : i \in written[col]} \ Had(c)

WholePrompts(samples) ==
    \A i \in samples :
        /\ SamplesOf(owner[i]) \subseteq samples
        /\ Cardinality(SamplesOf(owner[i])) = NSamples

Take(c, samples) ==
    /\ Cardinality(samples) = Counts[c]
    /\ Grouped[c] => WholePrompts(samples)
    /\ received' = [received EXCEPT ![c] =
          [i \in Samples |-> IF i \in samples THEN 1 ELSE @[i]]]
    /\ UNCHANGED <<owner, written, deleted>>

Delete(samples) ==
    /\ deleted' = deleted \cup samples
    /\ written' = [col \in Columns |-> written[col] \ samples]
    /\ UNCHANGED <<owner, received>>

Next ==
    \/ \E u \in Prompts, i \in Samples : Allot(u, i)
    \/ \E samples \in SUBSET Samples : Write(samples, PutColumns)
    \/ \E c \in Consumers : \E samples \in SUBSET Had(c) : Write(samples, Produces[c])
    \/ \E c \in Consumers : \E samples \in SUBSET Available(c) : Take(c, samples)
    \/ \E samples \in SUBSET (Had(Trainer) \ deleted) : Delete(samples)

Spec == Init /\ [][Next]_vars
=============================================================================
