---------------------------- MODULE MCDeviceList ----------------------------
(* Small instances of DeviceList for TLC.                                  *)
EXTENDS DeviceList, TLC

CONSTANTS t1, t2, t3, ada, ben, d1, d2, p1, p2, k1, k2

Calls == Permutations(Task)
CallsAndNames ==
  Permutations(Task) \cup Permutations(User) \cup Permutations(Device) \cup Permutations(Password)
    \cup Permutations(OwnPassword)

(* The runs look no further than the first disturbance, after which the    *)
(* properties say nothing any more.                                        *)
UndisturbedNext == ~disturbed /\ Next
UndisturbedSpec == Init /\ [][UndisturbedNext]_vars
=============================================================================
