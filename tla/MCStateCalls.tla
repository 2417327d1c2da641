--------------------------- MODULE MCStateCalls ---------------------------
(* StateCalls with bounds, and constants, for TLC. *)
EXTENDS StateCalls, TLC

CONSTANTS
    MaxIds,      \* bound: groups opened after which open_tid is not called again
    MaxReadId    \* bound: reads after which flush_all is not called again

BoundedCall ==
    \/ \E k \in Tids : \/ Len(perf) < MaxIds /\ open_tid(k)
                       \/ close_tid(k)
    \/ readId < MaxReadId /\ flush_all

BoundedNext ==
    \/ (BoundedCall \/ JobStep) /\ UNCHANGED kernelVars
    \/ Task /\ UNCHANGED stateVars

BoundedSpec == Init /\ [][BoundedNext]_vars

Symmetry ==
    Permutations(Threads) \cup Permutations(Tids) \cup Permutations(Configs)
=============================================================================
