--------------------------- MODULE MCModelRuntime ---------------------------
\* One client may send any request but a reply; one changes, measures or prepares
\* the model and may lose its connection; a third replies or cancels.
EXTENDS ModelRuntime, TLC
CONSTANTS c1, c2, c3, m1, m2
MCClients == {c1, c2, c3}
MCModels == {m1, m2}
MCKinds == (c1 :> (AllKinds \ {"work"}))
             @@ (c2 :> {"load", "path", "unload", "recheck", "prepare", "calibrate"})
             @@ (c3 :> {"work", "cancel"})
MCDroppable == {c2}
Symmetry == Permutations(MCModels)
=============================================================================
