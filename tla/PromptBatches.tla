--------------------------- MODULE PromptBatches ---------------------------
(***************************************************************************)
(* What a training run promises of its data: batches of prompts are drawn  *)
(* in order, every training step takes as many prompts as a batch has, all *)
(* of them drawn and none of them trained before, in whatever order they   *)
(* come; a run that dies goes on from what it saved.                       *)
(***************************************************************************)
EXTENDS Integers, FiniteSets

CONSTANTS BatchSize, Batches

VARIABLES
    drawn,    \* batches
    trained,  \* prompts
    saved     \* both, when the last checkpoint was made

vars == <<drawn, trained, saved>>

Init ==
    /\ drawn = 0 /\ trained = {}
    /\ saved = [drawn |-> 0, trained |-> {}]

Draw ==
    /\ drawn < Batches
    /\ drawn' = drawn + 1
    /\ UNCHANGED <<trained, saved>>

Train ==
    /\ \E prompts \in SUBSET (1 .. drawn * BatchSize \ trained) :
        /\ Cardinality(prompts) = BatchSize
        /\ trained' = trained \cup prompts
    /\ UNCHANGED <<drawn, saved>>

Save ==
    /\ saved' = [drawn |-> drawn, trained |-> trained]
    /\ UNCHANGED <<drawn, trained>>

Die ==
    /\ drawn' = saved.drawn /\ trained' = saved.trained
    /\ UNCHANGED saved

Next == Draw \/ Train \/ Save \/ Die

Spec == Init /\ [][Next]_vars
=============================================================================
