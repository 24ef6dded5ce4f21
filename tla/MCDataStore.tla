---------------------------- MODULE MCDataStore ----------------------------
(* A small instance of DataStore for TLC.  Where v1 counts what did not    *)
(* happen a gauge drifts without end: it is followed as far as MaxDrift.   *)
EXTENDS DataStore, TLC

CONSTANTS r1, r2, r3, MaxDrift

BoundedSpec == Init /\ [][Next /\ \A t \in DataType : gauge'[t] \in -MaxDrift..MaxDrift]_vars

Slots == Permutations(Request)
=============================================================================
