--------------------------- MODULE MCOperatorState ---------------------------
EXTENDS OperatorState

CONSTANTS c1, c2, c3

CycleCost(c) == IF c = c3 THEN 2 ELSE 1

Loose == [budget |-> 2, cycles |-> 2, approvals |-> 0]
Strict == [budget |-> 3, cycles |-> 1, approvals |-> 1]
TwoPolicies == {Loose, Strict}

\* The service dies outside the lock and starts again; the operator's process
\* dies anywhere and stays away, so that one process finds the stale lock.
OneContender == {<<Service, "done">>}
                  \cup (Operators \X {"opened", "owned", "mutate", "renamed"})

Anywhere == Process \X Steps
=============================================================================
