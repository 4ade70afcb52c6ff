---------------------------- MODULE MCLockUtils ----------------------------
(* Three or four calls of withLock on one resource, from processes of their *)
(* own or from processes of which one runs two calls.                      *)
EXTENDS LockUtils, TLC
CONSTANTS t1, t2, t3, t4, p1, p2, p3

OwnPid == (t1 :> p1) @@ (t2 :> p2) @@ (t3 :> p3)
SharedPid == (t1 :> p1) @@ (t2 :> p2) @@ (t3 :> p2)
SharedThird == (t1 :> p1) @@ (t2 :> p2) @@ (t3 :> p3) @@ (t4 :> p3)
=============================================================================
