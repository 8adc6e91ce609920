-------------------------------- MODULE Mutex -------------------------------
(***************************************************************************)
(* kernel/arch/arm/mutex.S: arch_mutex_acquire and arch_mutex_release, one *)
(* action per instruction that touches what cores share.  Instructions     *)
(* that only move a core's own registers (mov, cmp, beq, bx) belong to the *)
(* action of the access before them; dmb orders the accesses of one core,  *)
(* which is the order of its actions here.                                 *)
(*                                                                         *)
(* The processor is modelled from how the code relies on it: ldrex sets    *)
(* the core's exclusive monitor, every store to the word clears the        *)
(* monitors of all cores, strex stores only while the monitor is set; wfe  *)
(* consumes the core's event register or waits for it, sev sets the event  *)
(* register of every core.                                                 *)
(***************************************************************************)
EXTENDS Naturals

CONSTANT Core    \* the cores that run arch_mutex_acquire

VARIABLES
  mutex,      \* the mutex_t word: 0 free, 1 taken
  monitor,    \* monitor[c]: core c's exclusive monitor covers the word
  event,      \* event[c]: core c's event register
  pc          \* pc[c]: the next shared access of core c

vars == <<mutex, monitor, event, pc>>

Label == {"outside", "ldrex", "strex", "wfe", "critical", "sev"}

Goto(c, l) == pc' = [pc EXCEPT ![c] = l]

(* Any store to the word takes every core's reservation away. *)
Store(v) ==
  /\ mutex' = v
  /\ monitor' = [c \in Core |-> FALSE]

Init ==
  /\ mutex = 0
  /\ monitor = [c \in Core |-> FALSE]
  /\ event = [c \in Core |-> FALSE]
  /\ pc = [c \in Core |-> "outside"]

(* A core calls arch_mutex_acquire. *)
Call(c) ==
  /\ pc[c] = "outside"
  /\ Goto(c, "ldrex")
  /\ UNCHANGED <<mutex, monitor, event>>

(* A faulty Ldrex: without the beq, strex is tried on a taken mutex. *)
LdrexWithoutBeq(c) ==
  /\ pc[c] = "ldrex"
  /\ monitor' = [monitor EXCEPT ![c] = TRUE]
  /\ Goto(c, "strex")
  /\ UNCHANGED <<mutex, event>>

(* 1: ldrex r2, [r0]; cmp r2, r1; beq 2f *)
Ldrex(c) ==
  /\ pc[c] = "ldrex"
  /\ monitor' = [monitor EXCEPT ![c] = TRUE]
  /\ Goto(c, IF mutex = 1 THEN "wfe" ELSE "strex")
  /\ UNCHANGED <<mutex, event>>

(* Faulty variants of StrexStores: a plain str, or the wrong word. *)
PlainStore(c) ==
  /\ pc[c] = "strex"
  /\ Store(1)
  /\ Goto(c, "critical")
  /\ UNCHANGED event

StoresTwo(c) ==
  /\ pc[c] = "strex"
  /\ monitor[c]
  /\ Store(2)
  /\ Goto(c, "critical")
  /\ UNCHANGED event

(* strexne r2, r1, [r0] stores: the core has the mutex and returns. *)
StrexStores(c) ==
  /\ pc[c] = "strex"
  /\ monitor[c]
  /\ Store(1)
  /\ Goto(c, "critical")
  /\ UNCHANGED event

(* strexne r2, r1, [r0] fails; cmpne r2, #0x1; beq 1b *)
StrexFails(c) ==
  /\ pc[c] = "strex"
  /\ ~monitor[c]
  /\ Goto(c, "ldrex")
  /\ UNCHANGED <<mutex, monitor, event>>

(* 2: wfe; b 1b.  Passes at once when an event was signalled before. *)
Wfe(c) ==
  /\ pc[c] = "wfe"
  /\ event[c]
  /\ event' = [event EXCEPT ![c] = FALSE]
  /\ Goto(c, "ldrex")
  /\ UNCHANGED <<mutex, monitor>>

(* A faulty Str: arch_mutex_release returns without sev. *)
StrWithoutSev(c) ==
  /\ pc[c] = "critical"
  /\ Store(0)
  /\ Goto(c, "outside")
  /\ UNCHANGED event

(* arch_mutex_release: mov r1, #0x0; dmb; str r1, [r0] *)
Str(c) ==
  /\ pc[c] = "critical"
  /\ Store(0)
  /\ Goto(c, "sev")
  /\ UNCHANGED event

(* A faulty Sev: sevl, which signals the event to the core itself. *)
SevLocal(c) ==
  /\ pc[c] = "sev"
  /\ event' = [event EXCEPT ![c] = TRUE]
  /\ Goto(c, "outside")
  /\ UNCHANGED <<mutex, monitor>>

(* dmb; sev; bx lr *)
Sev(c) ==
  /\ pc[c] = "sev"
  /\ event' = [d \in Core |-> TRUE]
  /\ Goto(c, "outside")
  /\ UNCHANGED <<mutex, monitor>>

(* An interrupt taken by core c (they stay enabled here): it ends a wfe,   *)
(* and the reservation may be gone when the interrupted code goes on.      *)
Interrupt(c) ==
  /\ monitor' = [monitor EXCEPT ![c] = FALSE]
  /\ Goto(c, IF pc[c] = "wfe" THEN "ldrex" ELSE pc[c])
  /\ UNCHANGED <<mutex, event>>

(* What core c does by itself once it is in acquire or release. *)
Proceed(c) ==
  \/ Ldrex(c) \/ StrexStores(c) \/ StrexFails(c) \/ Wfe(c)
  \/ Str(c) \/ Sev(c)

Next == \E c \in Core : Call(c) \/ Proceed(c) \/ Interrupt(c)

Spec == Init /\ [][Next]_vars

(* A core executes its instructions, and critical sections are finite      *)
(* (WF); a core that reaches strex with its reservation again and again    *)
(* stores in the end, however many interrupts it takes (SF).               *)
FairSpec ==
  /\ Spec
  /\ \A c \in Core : WF_vars(Proceed(c)) /\ SF_vars(StrexStores(c))

-----------------------------------------------------------------------------
(* The word, the monitors, the event registers and the labels. *)
TypeOK ==
  /\ mutex \in {0, 1}
  /\ monitor \in [Core -> BOOLEAN]
  /\ event \in [Core -> BOOLEAN]
  /\ pc \in [Core -> Label]

(* Two cores are never both between arch_mutex_acquire and the store of    *)
(* arch_mutex_release, whatever the order of their ldrex and strex.        *)
MutualExclusion ==
  \A c, d \in Core : pc[c] = "critical" /\ pc[d] = "critical" => c = d

(* A core asleep in wfe is never forgotten: while its event register is    *)
(* clear, somebody still has the mutex or is about to execute sev.         *)
NoLostWakeup ==
  \A c \in Core :
    pc[c] = "wfe" /\ ~event[c] =>
      \E d \in Core \ {c} : pc[d] \in {"critical", "sev"}

(* While a core is in arch_mutex_acquire, some core gets the mutex.        *)
Progress ==
  (\E c \in Core : pc[c] \in {"ldrex", "strex", "wfe"})
     ~> (\E c \in Core : pc[c] = "critical")

(* The mutex code implements the lock of mutex.h: a core is inside from    *)
(* the strex that stores to the str of the release.                        *)
Where(c) ==
  IF pc[c] = "critical" THEN "inside"
  ELSE IF pc[c] \in {"outside", "sev"} THEN "outside" ELSE "asking"

Lk == INSTANCE Lock WITH state <- [c \in Core |-> Where(c)]

ImplementsLock == Lk!LockSpec
=============================================================================
