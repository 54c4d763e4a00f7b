-------------------------- MODULE MCFitPreparation --------------------------
\* A trigger alone, a load or a calibration, and an unload, which triggers too.
EXTENDS FitPreparation, TLC
CONSTANTS c1, c2, c3, m1
MCCallers == {c1, c2, c3}
MCModels == {m1}
MCKinds == (c1 :> {"trigger"}) @@ (c2 :> {"load", "calibrate"})
             @@ (c3 :> {"unload"})
=============================================================================
