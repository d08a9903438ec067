------------------------------ MODULE MCDiskCache ------------------------------
(* Instances of DiskCache for TLC.                                            *)
EXTENDS DiskCache, TLC

CONSTANTS r1, r2, p, q

TwoRequests == {r1, r2}
TwoProcs == {p, q}
OneProc == {p}
Apart == r1 :> p @@ r2 :> q      \* each request in a process of its own
OneFault == p :> 1 @@ q :> 0     \* q never meets a fault
ThreeFaults == p :> 3
TwentyFaults == p :> 20          \* more than one request can meet
OneRequest == {r1}
Alone == r1 :> p
=============================================================================
