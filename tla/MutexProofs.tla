----------------------------- MODULE MutexProofs ----------------------------
(***************************************************************************)
(* Proofs about mutex.S for any number of cores: it keeps the cores apart, *)
(* forgets no sleeping core, and implements the lock of mutex.h.           *)
(***************************************************************************)
EXTENDS Mutex, TLAPS

(* A core that may still store with strex has seen the word free, and      *)
(* nobody has stored since; the word is taken exactly while somebody is    *)
(* in the critical section.                                                *)
ReservationFresh ==
  \A c \in Core : pc[c] = "strex" /\ monitor[c] => mutex = 0

WordTellsOwner ==
  mutex = 1 <=> \E c \in Core : pc[c] = "critical"

IInv ==
  /\ TypeOK
  /\ ReservationFresh
  /\ WordTellsOwner
  /\ MutualExclusion
  /\ NoLostWakeup

LEMMA InitIInv == Init => IInv
BY DEF Init, IInv, TypeOK, ReservationFresh, WordTellsOwner,
       MutualExclusion, NoLostWakeup, Label

(* Types first: they do not depend on the rest of the invariant. *)
LEMMA StepTypeOK ==
  ASSUME TypeOK, [Next]_vars
  PROVE  TypeOK'
<1>1. CASE UNCHANGED vars
  BY <1>1 DEF TypeOK, vars
<1>2. ASSUME NEW c \in Core, Call(c) \/ Proceed(c) \/ Interrupt(c)
      PROVE  TypeOK'
  BY <1>2 DEF TypeOK, Label, Goto, Store, Call, Proceed, Interrupt, Ldrex,
              StrexStores, StrexFails, Wfe, Str, Sev
<1> QED
  BY <1>1, <1>2 DEF Next

LEMMA StepIInv ==
  ASSUME IInv, [Next]_vars
  PROVE  IInv'
<1>1. TypeOK /\ TypeOK'
  BY StepTypeOK DEF IInv
<1> USE <1>1 DEF TypeOK
<1>2. CASE UNCHANGED vars
  BY <1>2 DEF vars, IInv, ReservationFresh, WordTellsOwner,
              MutualExclusion, NoLostWakeup
<1>3. ASSUME NEW c \in Core, Call(c) \/ Ldrex(c) \/ StrexFails(c)
      PROVE  IInv'
  BY <1>3 DEF IInv, ReservationFresh, WordTellsOwner, MutualExclusion,
              NoLostWakeup, Call, Ldrex, StrexFails, Goto
<1>4. ASSUME NEW c \in Core, StrexStores(c)
      PROVE  IInv'
  <2>1. mutex = 0 /\ \A d \in Core : pc[d] # "critical"
    BY <1>4 DEF IInv, ReservationFresh, WordTellsOwner, StrexStores
  <2> QED
    BY <1>4, <2>1 DEF IInv, ReservationFresh, WordTellsOwner,
       MutualExclusion, NoLostWakeup, StrexStores, Store, Goto
<1>5. ASSUME NEW c \in Core, Wfe(c) \/ Interrupt(c)
      PROVE  IInv'
  BY <1>5 DEF IInv, ReservationFresh, WordTellsOwner, MutualExclusion,
              NoLostWakeup, Wfe, Interrupt, Goto
<1>6. ASSUME NEW c \in Core, Str(c)
      PROVE  IInv'
  BY <1>6 DEF IInv, ReservationFresh, WordTellsOwner, MutualExclusion,
              NoLostWakeup, Str, Store, Goto
<1>7. ASSUME NEW c \in Core, Sev(c)
      PROVE  IInv'
  BY <1>7 DEF IInv, ReservationFresh, WordTellsOwner, MutualExclusion,
              NoLostWakeup, Sev, Goto
<1> QED
  BY <1>2, <1>3, <1>4, <1>5, <1>6, <1>7 DEF Next, Proceed

(* However the cores' instructions interleave, the inductive invariant     *)
(* holds: it ties the monitors and the word to where the cores are.        *)
THEOREM Inductive == Spec => []IInv
BY InitIInv, StepIInv, PTL DEF Spec

(* The variables of the mutex keep their types: arch_mutex_acquire and     *)
(* arch_mutex_release only ever store 0 and 1 in the word.                 *)
THEOREM TypeCorrect == Spec => []TypeOK
<1>1. IInv => TypeOK
  BY DEF IInv
<1> QED
  BY <1>1, Inductive, PTL

(* arch_mutex_acquire returns to one core at a time. *)
THEOREM MutexIsExclusive == Spec => []MutualExclusion
<1>1. IInv => MutualExclusion
  BY DEF IInv
<1> QED
  BY <1>1, Inductive, PTL

(* No core sleeps in wfe with nobody left to execute sev. *)
THEOREM NoWakeupIsLost == Spec => []NoLostWakeup
<1>1. IInv => NoLostWakeup
  BY DEF IInv
<1> QED
  BY <1>1, Inductive, PTL

-----------------------------------------------------------------------------
(* Every step of mutex.S is a step of the abstract lock or stutters: only  *)
(* the call, the strex that stores and the str of the release are visible. *)
LEMMA StepImplementsLock ==
  ASSUME IInv, IInv', [Next]_vars
  PROVE  [Lk!LockNext]_([c \in Core |-> Where(c)])
<1> DEFINE abs == [c \in Core |-> Where(c)]
<1> USE DEF IInv, TypeOK
<1>1. CASE UNCHANGED vars
  BY <1>1 DEF vars, Where
<1>2. ASSUME NEW c \in Core, Call(c)
      PROVE  Lk!LockNext
  <2>1. abs' = [abs EXCEPT ![c] = "asking"] /\ abs[c] = "outside"
    BY <1>2 DEF Call, Goto, Where, Label
  <2> QED
    BY <2>1 DEF Lk!LockNext, Lk!Ask, Where
<1>3. ASSUME NEW c \in Core, StrexStores(c)
      PROVE  Lk!LockNext
  <2>1. abs' = [abs EXCEPT ![c] = "inside"] /\ abs[c] = "asking"
    BY <1>3 DEF StrexStores, Goto, Where, Label
  <2>2. \A d \in Core : abs[d] # "inside"
    BY <1>3 DEF StrexStores, ReservationFresh, WordTellsOwner, Where
  <2> QED
    BY <2>1, <2>2 DEF Lk!LockNext, Lk!Grant, Where
<1>4. ASSUME NEW c \in Core, Str(c)
      PROVE  Lk!LockNext
  <2>1. abs' = [abs EXCEPT ![c] = "outside"] /\ abs[c] = "inside"
    BY <1>4 DEF Str, Goto, Where, Label
  <2> QED
    BY <2>1 DEF Lk!LockNext, Lk!GiveBack, Where
<1>5. ASSUME NEW c \in Core,
             Ldrex(c) \/ StrexFails(c) \/ Wfe(c) \/ Sev(c) \/ Interrupt(c)
      PROVE  abs' = abs
  <2> SUFFICES ASSUME NEW d \in Core PROVE Where(d)' = Where(d)
    OBVIOUS
  <2> QED
    BY <1>5 DEF Ldrex, StrexFails, Wfe, Sev, Interrupt, Goto, Where, Label
<1> QED
  BY <1>1, <1>2, <1>3, <1>4, <1>5 DEF Next, Proceed

(* mutex.S implements the lock that mutex.h promises. *)
THEOREM MutexImplementsLock == Spec => ImplementsLock
<1>1. Init => Lk!LockInit
  BY DEF Init, Lk!LockInit, Where
<1>2. IInv /\ IInv' /\ [Next]_vars => [Lk!LockNext]_([c \in Core |-> Where(c)])
  BY StepImplementsLock
<1> QED
  BY <1>1, <1>2, Inductive, PTL DEF Spec, ImplementsLock, Lk!LockSpec, Where
=============================================================================
