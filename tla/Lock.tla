-------------------------------- MODULE Lock --------------------------------
(***************************************************************************)
(* What include/kernel/mutex.h promises to its callers: mutex_acquire      *)
(* returns to one caller at a time, and the next caller gets the mutex     *)
(* only after the one that has it called mutex_release.  Mutex (the ARM    *)
(* code of mutex.S) is shown to implement this module.                     *)
(***************************************************************************)

CONSTANT Core    \* who may call the mutex

VARIABLE state   \* state[c]: where core c is with respect to the mutex

LockInit == state = [c \in Core |-> "outside"]

(* mutex_acquire is called ... *)
Ask(c) ==
  /\ state[c] = "outside"
  /\ state' = [state EXCEPT ![c] = "asking"]

(* ... and returns: nobody else is between acquire and release. *)
Grant(c) ==
  /\ state[c] = "asking"
  /\ \A d \in Core : state[d] # "inside"
  /\ state' = [state EXCEPT ![c] = "inside"]

(* mutex_release makes the mutex available again. *)
GiveBack(c) ==
  /\ state[c] = "inside"
  /\ state' = [state EXCEPT ![c] = "outside"]

LockNext == \E c \in Core : Ask(c) \/ Grant(c) \/ GiveBack(c)

LockSpec == LockInit /\ [][LockNext]_state
=============================================================================
