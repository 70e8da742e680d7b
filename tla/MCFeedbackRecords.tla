------------------------- MODULE MCFeedbackRecords -------------------------
(* FeedbackRecords for TLC: three requests on two records, two workers. The *)
(* members of each set are alike, so permuting them changes no property.    *)
EXTENDS FeedbackRecords, TLC

CONSTANTS r1, r2, r3, i1, i2, textA, textB, w1, w2

MCRequests == {r1, r2, r3}
MCIds      == {i1, i2}
MCTexts    == {textA, textB}
MCWorkers  == {w1, w2}

MCSymmetry ==
    Permutations(MCRequests) \cup Permutations(MCIds)
        \cup Permutations(MCTexts) \cup Permutations(MCWorkers)

=============================================================================
