----------------------------- MODULE MCParamLock -----------------------------
EXTENDS ParamLock

Nothing == [active |-> FALSE, length |-> 0, base |-> 0, span |-> 0]
ClockedLoop == [active |-> TRUE, length |-> 2, base |-> 0, span |-> 2]

MCModes == {<<FALSE, FALSE>>, <<TRUE, TRUE>>}

\* A preset with a clocked loop on the first page.
MCPresets == {[k \in Slots |-> IF k[1] = 0 THEN ClockedLoop ELSE Nothing]}
=============================================================================
