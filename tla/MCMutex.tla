------------------------------- MODULE MCMutex ------------------------------
(* Instance of Mutex for TLC: the four cores of the BCM2836. *)
EXTENDS Mutex
=============================================================================
