-------------------------- MODULE MCExperienceTable --------------------------
(* Two prompts of two samples, a shared column and two ordinary ones that  *)
(* are put together. A column has at most as many segments as entries:     *)
(* four names are enough.                                                  *)
EXTENDS ExperienceTable, TLC

CONSTANTS prompt, responses, masks, int64, float32, s1, s2, s3, s4

MCColumns == {prompt, responses, masks}
MCShared == {prompt}
MCDtypes == {int64, float32}
MCOrders == {<<prompt>>, <<responses, masks>>}
MCSegments == {s1, s2, s3, s4}

Symmetric == Permutations(MCSegments) \cup Permutations(MCDtypes)
=============================================================================
