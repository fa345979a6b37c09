------------------------------ MODULE SharedLock ------------------------------
(***************************************************************************)
(* What a lock for many readers or one writer promises: who holds it.      *)
(***************************************************************************)
CONSTANT Thread

VARIABLE holds   \* what each thread holds: "nothing", "read" or "write"

SharedInit == holds = [t \in Thread |-> "nothing"]

\* Reading is granted while nobody writes.
GrantRead(t) ==
  /\ holds[t] = "nothing"
  /\ \A u \in Thread : holds[u] # "write"
  /\ holds' = [holds EXCEPT ![t] = "read"]

\* Writing is granted while nobody reads or writes.
GrantWrite(t) ==
  /\ \A u \in Thread : holds[u] = "nothing"
  /\ holds' = [holds EXCEPT ![t] = "write"]

GiveBack(t) ==
  /\ holds[t] # "nothing"
  /\ holds' = [holds EXCEPT ![t] = "nothing"]

SharedNext == \E t \in Thread : GrantRead(t) \/ GrantWrite(t) \/ GiveBack(t)

SharedSpec == SharedInit /\ [][SharedNext]_holds
===============================================================================
