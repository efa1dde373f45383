--------------------------- MODULE MCRemoveImages ---------------------------
EXTENDS RemoveImages, TLC

CONSTANTS i1, i2, t1, t2

MCTag == (i1 :> t1) @@ (i2 :> t2)
=============================================================================
