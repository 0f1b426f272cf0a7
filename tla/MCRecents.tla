------------------------------ MODULE MCRecents -----------------------------
EXTENDS Recents, TLC

Handles == {<<"grant", 1>>, <<"grant", 2>>}

\* Bounds: in the last run of the program calls do not overlap and no save is
\* refused, and before it one is refused only while what is stored has not lapsed.
\* A rename that finds its staging file gone always fails.
Busy == {t \in Thread : ~ Free(t)}
Bounds ==
    /\ run = MaxRuns => Cardinality(Busy') <= 1
    /\ \A t \in Thread : SaveFail(t) /\ ~ SaveRename(t) => ~ lapsed /\ run < MaxRuns

Threads == Permutations(Thread)
=============================================================================
