------------------------------- MODULE Mutex -------------------------------
(***************************************************************************)
(* One at a time: what a caller of withLock expects of fn, and what the    *)
(* agent manager promises of the provider processes of an agent.  The      *)
(* promise ends when it is broken, and what happens from then on is open.  *)
(***************************************************************************)
CONSTANT Task
VARIABLES inside,   \* the tasks inside
          broken    \* something has happened that ends the promise

MutexInit == inside = {} /\ ~broken

Enter(t) == inside = {} /\ inside' = {t}
Exit(t) == inside = {t} /\ inside' = {}

MutexNext == broken' \/ \E t \in Task : Enter(t) \/ Exit(t)

MutexSpec == MutexInit /\ [][MutexNext]_<<inside, broken>>
=============================================================================
