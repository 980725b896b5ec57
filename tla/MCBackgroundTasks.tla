--------------------------- MODULE MCBackgroundTasks ---------------------------
EXTENDS BackgroundTasks, TLC

CONSTANTS r1, r2, r3, k1, k2, w1, w2

\* One worker of both tasks and one of the first only.
MCTaskKey == (r1 :> k1) @@ (r2 :> k1) @@ (r3 :> k2)
MCSubscribed == (w1 :> <<k1, k2>>) @@ (w2 :> <<k1>>)
=============================================================================
