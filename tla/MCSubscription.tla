--------------------------- MODULE MCSubscription ---------------------------
EXTENDS Subscription, TLC
CONSTANTS room, tap, club, a1, a2
MCDerived == [t \in Topics |-> IF t = room THEN {tap} ELSE {}]
MCBatches == {<<room, club>>, <<room, room>>, <<tap, room>>}
MCSymmetry == Permutations(Attempts)
=============================================================================
