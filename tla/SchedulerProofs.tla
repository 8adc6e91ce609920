--------------------------- MODULE SchedulerProofs --------------------------
(***************************************************************************)
(* Proofs about Scheduler, for every number of tasks the kernel region     *)
(* holds and every depth of disable_preempt.                               *)
(***************************************************************************)
EXTENDS Scheduler, TLAPS

(* init_task heads the list and has run from the start. *)
InitHeadsTheList == list[1] = InitTask /\ pc[InitTask] # "fork"

(* The core is with init_task or with the first task that was created. *)
CurrentIsListed == \E i \in DOMAIN list : i <= 2 /\ current_task = list[i]

(* A task that is not the current one is at a point where a context switch *)
(* can take it up.                                                         *)
OthersAreSuspended ==
  \A t \in OnList \ {current_task} : pc[t] \in {"fork", "switched"}

(* The kmalloc that fails keeps the mutex and has no page to give; from    *)
(* then on creators wait.                                                  *)
FailedForWant ==
  /\ vectors <=> memory_mutex = 0
  /\ ~vectors => KernelPages .. ReservedPages - 2 \subseteq memory_map
  /\ \A t \in Page : pc[t] = "hung" => ~vectors

(* last_task is NULL only once a kmalloc has failed: nothing is linked then. *)
MemoryLost == last_task = NULL => memory_mutex = 1

(* Counters are 0 or 1, and renewing them never favours a later task over  *)
(* the first one.                                                          *)
FirstIsAhead ==
  \A i \in DOMAIN list :
    /\ counter[list[i]] \in {0, 1}
    /\ i >= 2 /\ counter[list[i]] = 1 => counter[list[2]] = 1

(* A page that is no task yet has no calls to undo. *)
FreshAreClean == \A t \in Page \ OnList : nest[t] = 0

ImageIsUsed == PagesOf(0, KernelPages) \subseteq memory_map

(* The invariant that is inductive: the properties and what they rest on. *)
IInv ==
  /\ TypeOK /\ PreemptBalanced /\ OthersAreSuspended /\ ListIsComplete
  /\ OnlyFirstTaskRuns
  /\ InitHeadsTheList /\ CurrentIsListed /\ MemoryLost /\ FirstIsAhead
  /\ FreshAreClean /\ ImageIsUsed /\ FailedForWant

LEMMA InitIsAPage == InitTask \in Page /\ NULL \notin Page /\ InitTask \in PagesOf(0, KernelPages)
BY PagesAssumption DEF InitTask, NULL, Page, PagesOf

LEMMA InitIInv == Init => IInv
<1> SUFFICES ASSUME Init PROVE IInv
  OBVIOUS
<1> USE DEF Init
<1>1. /\ list \in Seq(Page) /\ Len(list) = 1 /\ DOMAIN list = {1}
      /\ list[1] = InitTask /\ OnList = {InitTask}
  BY InitIsAPage DEF OnList
<1>2. PagesOf(0, KernelPages) \subseteq Page
  BY PagesAssumption DEF PagesOf, Page
<1>3. TypeOK
  BY <1>1, <1>2, InitIsAPage DEF TypeOK, Label
<1>4. PreemptBalanced /\ OthersAreSuspended /\ CurrentIsListed /\ FreshAreClean
  BY <1>1, InitIsAPage DEF PreemptBalanced, OthersAreSuspended, CurrentIsListed, FreshAreClean
<1>5. ListIsComplete
  BY <1>1, InitIsAPage DEF ListIsComplete
<1>6. /\ OnlyFirstTaskRuns /\ InitHeadsTheList /\ MemoryLost /\ FirstIsAhead
      /\ ImageIsUsed /\ FailedForWant
  BY <1>1, InitIsAPage DEF OnlyFirstTaskRuns, InitHeadsTheList, MemoryLost, FirstIsAhead,
     ImageIsUsed, FailedForWant
<1> QED BY <1>3, <1>4, <1>5, <1>6 DEF IInv

(* Linking appends: nothing is ever behind last_task. *)
LEMMA LinkedAppends ==
  ASSUME IInv, last_task # NULL, NEW task \in Page
  PROVE  /\ Linked(task) \in Seq(Page)
         /\ Len(Linked(task)) = Len(list) + 1
         /\ \A i \in DOMAIN list : Linked(task)[i] = list[i]
         /\ Linked(task)[Len(list) + 1] = task
         /\ DOMAIN Linked(task) = DOMAIN list \cup {Len(list) + 1}
<1> USE DEF IInv
<1>1. list \in Seq(Page) /\ Len(list) \in Nat /\ Len(list) >= 1
      /\ DOMAIN list = 1 .. Len(list)
  BY DEF TypeOK
<1>2. (CHOOSE i \in DOMAIN list : list[i] = last_task) = Len(list)
  <2>1. Len(list) \in DOMAIN list /\ list[Len(list)] = last_task
    BY <1>1 DEF ListIsComplete
  <2>2. \A i \in DOMAIN list : list[i] = last_task => i = Len(list)
    BY <2>1 DEF ListIsComplete
  <2> QED BY <2>1, <2>2
<1>3. Linked(task) = Append(SubSeq(list, 1, Len(list)), task)
  BY <1>2 DEF Linked
<1>4. SubSeq(list, 1, Len(list)) = list
  BY <1>1
<1> QED BY <1>1, <1>3, <1>4

LEMMA ListShape ==
  ASSUME IInv
  PROVE  /\ Len(list) \in Nat /\ Len(list) >= 1 /\ DOMAIN list = 1 .. Len(list)
         /\ 1 \in DOMAIN list /\ list[1] = InitTask
         /\ \A i \in DOMAIN list : i \in Nat /\ i >= 1 /\ list[i] \in Page
         /\ \A i \in DOMAIN list : i >= 2 => 2 \in DOMAIN list /\ list[i] # InitTask
         /\ OnList \subseteq Page
<1>1. Len(list) \in Nat /\ Len(list) >= 1 /\ DOMAIN list = 1 .. Len(list)
  BY DEF IInv, TypeOK
<1>2. \A i \in DOMAIN list : i \in Nat /\ i >= 1 /\ list[i] \in Page
  BY <1>1 DEF IInv, TypeOK
<1>3. 1 \in DOMAIN list /\ list[1] = InitTask
  BY <1>1 DEF IInv, InitHeadsTheList
<1>4. \A i \in DOMAIN list : i >= 2 => 2 \in DOMAIN list /\ list[i] # InitTask
  <2>1. \A i \in DOMAIN list : list[i] = InitTask => i = 1
    BY <1>3 DEF IInv, ListIsComplete
  <2> QED BY <1>1, <2>1
<1> QED BY <1>1, <1>2, <1>3, <1>4 DEF OnList

-----------------------------------------------------------------------------
(* A new task goes to the end of the list, counter 0, behind the first. *)
LEMMA CreateStep ==
  ASSUME IInv, NEW task \in Page, CreateKernelTask(current_task, task)
  PROVE  IInv'
<1> USE DEF IInv, CreateKernelTask
<1>1. /\ task \notin memory_map
      /\ memory_map' = memory_map \cup {task}
  <2>1. NumPages(TaskSize) = 1 /\ PagesOf(task, 1) = {task}
    BY SchedulerAssumption DEF PagesOf, Page
  <2> QED BY <2>1 DEF FoundAt, Candidates, IsFree
<1>2. last_task # NULL
  BY DEF MemoryLost
<1> DEFINE n == Len(list)
<1>3. /\ list' \in Seq(Page) /\ Len(list') = n + 1
      /\ \A i \in DOMAIN list : list'[i] = list[i]
      /\ list'[n + 1] = task
      /\ DOMAIN list' = DOMAIN list \cup {n + 1}
  BY <1>2, LinkedAppends
<1>4. n \in Nat /\ n >= 1 /\ DOMAIN list = 1 .. n /\ OnList \subseteq Page
  BY DEF TypeOK, OnList
<1>5. OnList' = OnList \cup {task}
  BY <1>3, <1>4 DEF OnList
<1>6. task \notin PagesOf(0, KernelPages) /\ task \notin OnList /\ task # InitTask
  BY <1>1, InitIsAPage DEF ListIsComplete, ImageIsUsed
<1>7. \A i \in DOMAIN list : list[i] # task
  BY <1>6 DEF OnList
<1>8. TypeOK'
  <2>1. /\ preempt' \in [Page -> Nat] /\ counter' \in [Page -> Nat]
        /\ pc' \in [Page -> Label]
    BY DEF TypeOK, Label
  <2>2. Len(list') >= 1
    BY <1>3, <1>4
  <2> QED BY <1>1, <1>3, <2>1, <2>2 DEF TypeOK
<1>9. nest[task] = 0
  BY <1>6 DEF FreshAreClean
<1>10. PreemptBalanced'
  BY <1>5, <1>6, <1>9, SMTT(30) DEF PreemptBalanced, TypeOK
<1>11. OthersAreSuspended' /\ CurrentIsListed'
  <2>1. OthersAreSuspended'
    BY <1>5, <1>6 DEF OthersAreSuspended, TypeOK
  <2>2. CurrentIsListed'
    BY <1>3 DEF CurrentIsListed
  <2> QED BY <2>1, <2>2
<1>12. ListIsComplete'
  <2>1. memory_map' \ PagesOf(0, KernelPages) = OnList' \ {InitTask}
    BY <1>1, <1>5, <1>6 DEF ListIsComplete
  <2>2. \A i, k \in DOMAIN list' : list'[i] = list'[k] => i = k
    BY <1>3, <1>7 DEF ListIsComplete
  <2> QED BY <2>1, <2>2, <1>3 DEF ListIsComplete
<1>13. OnlyFirstTaskRuns'
  <2>1. pc'[task] = "fork" /\ \A u \in Page : u # task => pc'[u] = pc[u]
    BY DEF TypeOK
  <2>2. \A i \in DOMAIN list : list[i] \in Page
    BY ListShape
  <2> QED BY <1>3, <1>7, <2>1, <2>2 DEF OnlyFirstTaskRuns
<1>14. InitHeadsTheList'
  <2>1. pc'[InitTask] = pc[InitTask] /\ 1 \in DOMAIN list
    BY <1>4, <1>6, InitIsAPage DEF TypeOK
  <2> QED BY <1>3, <2>1 DEF InitHeadsTheList
<1>15. MemoryLost' /\ ImageIsUsed'
  BY <1>1, InitIsAPage DEF MemoryLost, ImageIsUsed
<1>16. FirstIsAhead'
  <2>1. \A i \in DOMAIN list : counter'[list'[i]] = counter[list[i]]
    <3>1. \A u \in Page : u # task => counter'[u] = counter[u]
      BY DEF TypeOK
    <3> QED BY <1>3, <1>7, <3>1, ListShape
  <2>2. counter'[list'[n + 1]] = 0
    BY <1>3 DEF TypeOK
  <2>3. \A i \in DOMAIN list : i >= 2 => 2 \in DOMAIN list
    BY <1>4
  <2> QED BY <1>3, <2>1, <2>2, <2>3 DEF FirstIsAhead
<1>17. FreshAreClean'
  BY <1>5 DEF FreshAreClean
<1>18. FailedForWant'
  <2>1. \A u \in Page : pc'[u] = "hung" => pc[u] = "hung"
    BY DEF TypeOK
  <2> QED BY <2>1 DEF FailedForWant
<1> QED BY <1>8, <1>10, <1>11, <1>12, <1>13, <1>14, <1>15, <1>16, <1>17, <1>18

(* The current task's own steps: the list stays, and so do the others. *)
LEMMA OwnStep ==
  ASSUME IInv,
         \/ DisablePreempt(current_task) \/ EnablePreempt(current_task)
         \/ Schedule(current_task) \/ Resume(current_task)
         \/ CreateHangs(current_task)
  PROVE  IInv'
<1> DEFINE t == current_task
<1>1. t \in OnList /\ t \in Page
  BY DEF IInv, CurrentIsListed, TypeOK, OnList
<1>2. /\ preempt[t] = nest[t] + (IF pc[t] \in {"fork", "scan", "switched"} THEN 1 ELSE 0)
      /\ preempt[t] \in Nat /\ nest[t] \in Nat
  BY <1>1 DEF IInv, PreemptBalanced, TypeOK
<1>3. UNCHANGED <<memory_map, memory_mutex, vectors, list, last_task, current_task,
                  counter>>
  BY DEF DisablePreempt, EnablePreempt, Schedule, Resume, CreateHangs, memory
<1>4. \A u \in Page \ {t} :
        preempt'[u] = preempt[u] /\ nest'[u] = nest[u] /\ pc'[u] = pc[u]
  BY DEF IInv, TypeOK, DisablePreempt, EnablePreempt, Schedule, Resume, CreateHangs
<1>5. /\ preempt'[t] \in Nat /\ nest'[t] \in Nat
      /\ pc'[t] \in {"client", "scan", "hung"}
      /\ preempt'[t] = nest'[t] + (IF pc'[t] \in {"fork", "scan", "switched"} THEN 1 ELSE 0)
  <2>1. CASE DisablePreempt(t)
    BY <1>1, <1>2, <2>1 DEF IInv, TypeOK, DisablePreempt
  <2>2. CASE EnablePreempt(t)
    BY <1>1, <1>2, <2>2 DEF IInv, TypeOK, EnablePreempt
  <2>3. CASE Schedule(t)
    BY <1>1, <1>2, <2>3 DEF IInv, TypeOK, Schedule
  <2>4. CASE Resume(t)
    BY <1>1, <1>2, <2>4 DEF IInv, TypeOK, Resume
  <2>5. CASE CreateHangs(t)
    BY <1>1, <1>2, <2>5 DEF IInv, TypeOK, CreateHangs
  <2> QED BY <2>1, <2>2, <2>3, <2>4, <2>5
<1>6. /\ DOMAIN preempt' = Page /\ DOMAIN nest' = Page /\ DOMAIN pc' = Page
      /\ preempt' = [u \in Page |-> preempt'[u]]
      /\ nest' = [u \in Page |-> nest'[u]]
      /\ pc' = [u \in Page |-> pc'[u]]
  BY DEF IInv, TypeOK, DisablePreempt, EnablePreempt, Schedule, Resume, CreateHangs
<1>7. TypeOK'
  <2>1. \A u \in Page : preempt'[u] \in Nat /\ nest'[u] \in Nat /\ pc'[u] \in Label
    BY <1>4, <1>5 DEF IInv, TypeOK, Label
  <2>2. preempt' \in [Page -> Nat] /\ nest' \in [Page -> Nat] /\ pc' \in [Page -> Label]
    BY <1>6, <2>1
  <2> QED BY <1>3, <2>2 DEF IInv, TypeOK
<1>8. OnList' = OnList /\ OnList \subseteq Page
  BY <1>3, ListShape DEF OnList
<1>9. PreemptBalanced'
  BY <1>4, <1>5, <1>8 DEF IInv, PreemptBalanced
<1>10. OthersAreSuspended' /\ CurrentIsListed'
  BY <1>3, <1>4, <1>8 DEF IInv, OthersAreSuspended, CurrentIsListed
<1>11. ListIsComplete' /\ MemoryLost' /\ ImageIsUsed' /\ FirstIsAhead'
  BY <1>3, <1>8 DEF IInv, ListIsComplete, MemoryLost, ImageIsUsed, FirstIsAhead
<1>12. OnlyFirstTaskRuns'
  <2>1. \A i \in DOMAIN list : i > 2 => pc[list[i]] = "fork" /\ list[i] \in Page
    BY ListShape DEF IInv, OnlyFirstTaskRuns
  <2>2. \A i \in DOMAIN list : i > 2 => list[i] # t
    BY ListShape DEF IInv, CurrentIsListed, ListIsComplete
  <2> QED BY <1>3, <1>4, <2>1, <2>2 DEF OnlyFirstTaskRuns
<1>13. InitHeadsTheList'
  BY <1>3, <1>4, <1>5, InitIsAPage DEF IInv, InitHeadsTheList
<1>14. FreshAreClean'
  BY <1>1, <1>4, <1>8 DEF IInv, FreshAreClean
<1>15. FailedForWant'
  <2>1. pc'[t] = "hung" => memory_mutex = 1
    BY <1>1 DEF IInv, TypeOK, DisablePreempt, EnablePreempt, Schedule, Resume, CreateHangs
  <2> QED BY <1>3, <1>4, <2>1 DEF IInv, FailedForWant
<1> QED BY <1>7, <1>9, <1>10, <1>11, <1>12, <1>13, <1>14, <1>15 DEF IInv

LEMMA CreateWithoutMemoryStep ==
  ASSUME IInv, CreateWithoutMemory(current_task)
  PROVE  IInv'
<1> USE DEF IInv, CreateWithoutMemory
<1>1. OnList' = OnList
  BY DEF OnList
<1>2. TypeOK'
  BY DEF TypeOK
<1>3. /\ PreemptBalanced' /\ OthersAreSuspended' /\ CurrentIsListed' /\ ListIsComplete'
      /\ MemoryLost' /\ ImageIsUsed' /\ FreshAreClean'
  BY <1>1 DEF PreemptBalanced, OthersAreSuspended, CurrentIsListed, ListIsComplete,
     MemoryLost, ImageIsUsed, FreshAreClean
<1>4. OnlyFirstTaskRuns' /\ InitHeadsTheList' /\ FirstIsAhead'
  BY DEF OnlyFirstTaskRuns, InitHeadsTheList, FirstIsAhead
<1>5. ASSUME NEW i \in KernelPages .. ReservedPages - 2
      PROVE  i \in memory_map
  <2>1. i \in 0 .. ReservedPages - 1 /\ i + 1 < ReservedPages
    BY PagesAssumption
  <2>2. i \notin Candidates(memory_map, 1, 0, ReservedPages)
    BY SchedulerAssumption DEF First, End
  <2>3. PagesOf(i, 1) = {i}
    BY <2>1 DEF PagesOf
  <2> QED BY <2>1, <2>2, <2>3 DEF Candidates, IsFree
<1>6. FailedForWant'
  BY <1>5 DEF FailedForWant
<1> QED BY <1>2, <1>3, <1>4, <1>6

(* Renewing the counters makes those of all created tasks 1. *)
LEMMA AgeStep ==
  ASSUME IInv, Age(current_task)
  PROVE  IInv'
<1> USE DEF IInv, Age, memory
<1>1. OnList' = OnList
  BY DEF OnList
<1>2. \A k \in DOMAIN list : list[k] \in Page /\ list[k] \in OnList
  BY ListShape DEF OnList
<1>3. \A k \in DOMAIN list : Running(list[k]) => counter[list[k]] = 0
  BY <1>2 DEF Best, TypeOK
<1>4. \A k \in DOMAIN list :
        /\ list[k] = InitTask => counter'[list[k]] \in {0, 1}
        /\ list[k] # InitTask => counter'[list[k]] = 1
  <2>1. 0 \div 2 = 0 /\ 1 \div 2 = 0
    OBVIOUS
  <2>2. \A k \in DOMAIN list : counter[list[k]] \in {0, 1}
    BY DEF FirstIsAhead
  <2> QED BY <1>2, <1>3, <2>1, <2>2 DEF Running, Priority
<1>5. FirstIsAhead'
  <2>1. \A i \in DOMAIN list : i >= 2 => 2 \in DOMAIN list /\ list[2] # InitTask
    BY ListShape
  <2> QED BY <1>4, <2>1 DEF FirstIsAhead
<1>6. counter' \in [Page -> Nat]
  <2>1. \A x \in Nat : x \div 2 \in Nat
    OBVIOUS
  <2>2. \A u \in Page : counter[u] \in Nat /\ Priority(u) \in Nat
    BY DEF TypeOK, Priority
  <2>3. \A u \in Page : counter[u] \div 2 + Priority(u) \in Nat
    BY <2>1, <2>2
  <2> QED BY <2>2, <2>3
<1>7. TypeOK'
  BY <1>6 DEF TypeOK
<1>8. PreemptBalanced' /\ OthersAreSuspended' /\ CurrentIsListed' /\ FreshAreClean'
  BY <1>1 DEF PreemptBalanced, OthersAreSuspended, CurrentIsListed, FreshAreClean
<1>9. ListIsComplete' /\ MemoryLost' /\ ImageIsUsed'
  BY <1>1 DEF ListIsComplete, MemoryLost, ImageIsUsed
<1>10. OnlyFirstTaskRuns' /\ InitHeadsTheList'
  BY DEF OnlyFirstTaskRuns, InitHeadsTheList
<1>11. FailedForWant'
  BY DEF FailedForWant
<1> QED BY <1>5, <1>7, <1>8, <1>9, <1>10, <1>11

(* schedule switches to the first created task, or there is none. *)
LEMMA SwitchesToFirst ==
  ASSUME IInv, Switch(current_task)
  PROVE  \/ 2 \in DOMAIN list /\ current_task' = list[2]
         \/ DOMAIN list = {1} /\ current_task' = InitTask
<1> USE DEF IInv, Switch
<1>1. \A i \in DOMAIN list : i >= 2 => list[i] # InitTask /\ 2 \in DOMAIN list
  BY ListShape
<1>2. ASSUME NEW i \in DOMAIN list, Best(i), counter[list[i]] # 0
      PROVE  i = 2
  <2>1. counter[list[i]] = 1
    BY <1>2 DEF FirstIsAhead
  <2>2. i >= 2
    BY <1>2, ListShape DEF Best, Running
  <2>3. counter[list[2]] = 1 /\ Running(list[2]) /\ 2 \in DOMAIN list
    BY <1>1, <2>1, <2>2 DEF FirstIsAhead, Running
  <2>4. ~(2 < i)
    BY <1>2, <2>1, <2>3 DEF Best
  <2> QED BY <2>2, <2>4, ListShape
<1>3. CASE \A i \in DOMAIN list : ~Running(list[i])
  <2>1. \A i \in DOMAIN list : ~(i >= 2)
    BY <1>1, <1>3 DEF Running
  <2>2. DOMAIN list = {1}
    BY <2>1, ListShape
  <2>3. \A i \in DOMAIN list : ~Best(i)
    BY <1>3 DEF Best
  <2> QED BY <2>2, <2>3 DEF InitHeadsTheList
<1> QED BY <1>2, <1>3

LEMMA SwitchStep ==
  ASSUME IInv, Switch(current_task)
  PROVE  IInv'
<1> USE DEF IInv, Switch, memory
<1>1. OnList' = OnList /\ current_task \in OnList /\ OnList \subseteq Page
  BY ListShape DEF OnList, CurrentIsListed
<1>2. current_task' \in OnList /\ CurrentIsListed'
  BY SwitchesToFirst, ListShape DEF OnList, CurrentIsListed
<1>3. TypeOK'
  BY <1>1, <1>2 DEF TypeOK, Label
<1>4. PreemptBalanced'
  BY <1>1 DEF PreemptBalanced, TypeOK
<1>5. OthersAreSuspended' /\ CurrentIsListed'
  BY <1>1, <1>2 DEF OthersAreSuspended, TypeOK
<1>6. ListIsComplete' /\ MemoryLost' /\ ImageIsUsed' /\ FreshAreClean'
  BY <1>1 DEF ListIsComplete, MemoryLost, ImageIsUsed, FreshAreClean
<1>7. FirstIsAhead'
  BY DEF FirstIsAhead
<1>8. OnlyFirstTaskRuns'
  <2>1. \A i \in DOMAIN list : i > 2 => list[i] # current_task
    BY ListShape DEF CurrentIsListed, ListIsComplete
  <2> QED BY <2>1, ListShape DEF OnlyFirstTaskRuns, TypeOK
<1>9. InitHeadsTheList'
  BY <1>1 DEF InitHeadsTheList, TypeOK
<1>10. FailedForWant'
  <2>1. \A u \in Page : pc'[u] = "hung" => pc[u] = "hung"
    BY DEF TypeOK
  <2> QED BY <2>1 DEF FailedForWant
<1> QED BY <1>3, <1>4, <1>5, <1>6, <1>7, <1>8, <1>9, <1>10

LEMMA StepIInv == IInv /\ [Next]_vars => IInv'
<1> SUFFICES ASSUME IInv, [Next]_vars PROVE IInv'
  OBVIOUS
<1>1. CASE Client(current_task)
  BY <1>1, CreateStep, CreateWithoutMemoryStep, OwnStep DEF Client
<1>2. CASE Proceed(current_task)
  BY <1>2, AgeStep, SwitchStep, OwnStep DEF Proceed
<1>3. CASE UNCHANGED vars
  <2>1. OnList' = OnList
    BY <1>3 DEF vars, OnList
  <2>2. TypeOK' /\ ListIsComplete' /\ OnlyFirstTaskRuns' /\ InitHeadsTheList'
    BY <1>3, <2>1 DEF vars, IInv, TypeOK, ListIsComplete, OnlyFirstTaskRuns,
       InitHeadsTheList
  <2>3. PreemptBalanced' /\ OthersAreSuspended' /\ CurrentIsListed' /\ FreshAreClean'
    BY <1>3, <2>1 DEF vars, IInv, PreemptBalanced, OthersAreSuspended, CurrentIsListed,
       FreshAreClean
  <2>4. MemoryLost' /\ FirstIsAhead' /\ ImageIsUsed' /\ FailedForWant'
    BY <1>3 DEF vars, IInv, MemoryLost, FirstIsAhead, ImageIsUsed, FailedForWant
  <2> QED BY <2>2, <2>3, <2>4 DEF IInv
<1> QED BY <1>1, <1>2, <1>3 DEF Next

(* A context switch never leads back to init_task. *)
LEMMA StepFromInit ==
  IInv /\ [Next]_vars => [current_task # InitTask => current_task' # InitTask]_vars
<1> SUFFICES ASSUME IInv, Next, current_task # InitTask
             PROVE  current_task' # InitTask
  OBVIOUS
<1>1. CASE Switch(current_task)
  <2>1. DOMAIN list # {1}
    BY ListShape DEF IInv, CurrentIsListed
  <2>2. 2 \in DOMAIN list /\ current_task' = list[2]
    BY <1>1, <2>1, SwitchesToFirst
  <2> QED BY <2>2, ListShape
<1>2. CASE ~Switch(current_task)
  BY <1>2 DEF Next, Client, Proceed, CreateKernelTask, CreateWithoutMemory, CreateHangs,
     DisablePreempt, EnablePreempt, Schedule, Age, Resume
<1> QED BY <1>1, <1>2

(* Whatever the tasks call, the inductive invariant holds: it ties the     *)
(* list, the counters and the preemption counts to where the tasks are.    *)
THEOREM Inductive == Spec => []IInv
BY InitIInv, StepIInv, PTL DEF Spec

(* The variables keep their types: no preempt count goes below 0. *)
THEOREM TypeCorrect == Spec => []TypeOK
<1>1. IInv => TypeOK
  BY DEF IInv
<1> QED BY <1>1, Inductive, PTL

(* Preemption counts balance across every context switch. *)
THEOREM PreemptionBalances == Spec => []PreemptBalanced
<1>1. IInv => PreemptBalanced
  BY DEF IInv
<1> QED BY <1>1, Inductive, PTL

(* The vectors are lost, and a creator waits for ever, only when every     *)
(* page of kernel memory is a task's.                                      *)
THEOREM VectorsLastAsLongAsMemory == Spec => []VectorsOutliveMemory
<1>1. ASSUME IInv PROVE VectorsOutliveMemory
  <2>1. ASSUME ~vectors, NEW i \in KernelPages .. ReservedPages - 2
        PROVE  i \in OnList
    <3>1. i \in memory_map
      BY <1>1, <2>1 DEF IInv, FailedForWant
    <3>2. i \notin PagesOf(0, KernelPages)
      BY PagesAssumption DEF PagesOf
    <3> QED BY <1>1, <3>1, <3>2 DEF IInv, ListIsComplete
  <2> QED BY <1>1, <2>1 DEF VectorsOutliveMemory, IInv, FailedForWant
<1> QED BY <1>1, Inductive, PTL

(* The task list holds every created task once, last_task its last. *)
THEOREM NoTaskIsLost == Spec => []ListIsComplete
<1>1. IInv => ListIsComplete
  BY DEF IInv
<1> QED BY <1>1, Inductive, PTL

(* Only init_task and the first created task ever run. *)
THEOREM LaterTasksStarve == Spec => []OnlyFirstTaskRuns
<1>1. IInv => OnlyFirstTaskRuns
  BY DEF IInv
<1> QED BY <1>1, Inductive, PTL

(* kernel_main never gets the core back from the first task. *)
THEOREM InitNeverResumes == Spec => InitIsLeftForGood
BY Inductive, StepFromInit, PTL DEF Spec, InitIsLeftForGood

-----------------------------------------------------------------------------
(* schedule() never gets stuck and never loops for ever. *)

InSchedule == pc[current_task] \in {"scan", "switched", "fork"}

(* The steps that are left: a renewal when the counters are used up, the   *)
(* switch, and what is done in the context that it leads to.               *)
StepsLeft ==
  CASE pc[current_task] = "scan" ->
         IF 2 \in DOMAIN list /\ counter[list[2]] = 0 THEN 3 ELSE 2
    [] pc[current_task] \in {"switched", "fork"} -> 1
    [] OTHER -> 0

(* The loop has something to go on with: it finds a task whose counter is  *)
(* the greatest, or no task is runnable.                                   *)
ScanDecides ==
  pc[current_task] = "scan" =>
    (\E i \in DOMAIN list : Best(i)) \/ (\A i \in DOMAIN list : ~Running(list[i]))

LEMMA FirstIsBest ==
  ASSUME IInv, 2 \in DOMAIN list
  PROVE  Best(2)
<1>1. Running(list[2])
  BY ListShape DEF Running
<1>2. ASSUME NEW k \in DOMAIN list, Running(list[k])
      PROVE  counter[list[k]] <= counter[list[2]] /\ ~(k < 2)
  <2>1. k >= 2
    BY <1>2, ListShape DEF Running
  <2>2. counter[list[k]] \in {0, 1} /\ counter[list[2]] \in {0, 1}
    BY DEF IInv, FirstIsAhead
  <2>3. counter[list[k]] = 1 => counter[list[2]] = 1
    BY <2>1 DEF IInv, FirstIsAhead
  <2> QED BY <2>1, <2>2, <2>3, ListShape
<1> QED BY <1>1, <1>2 DEF Best

LEMMA DecidesWhileInv ==
  ASSUME IInv
  PROVE  ScanDecides
<1>1. CASE 2 \in DOMAIN list
  BY <1>1, FirstIsBest DEF ScanDecides
<1>2. CASE 2 \notin DOMAIN list
  BY <1>2, ListShape DEF ScanDecides, Running
<1> QED BY <1>1, <1>2

LEMMA ScheduleStepIsLess ==
  ASSUME IInv, IInv', Next, InSchedule
  PROVE  StepsLeft' < StepsLeft
<1> DEFINE t == current_task
<1>1. pc \in [Page -> Label] /\ t \in Page /\ counter \in [Page -> Nat]
  BY DEF IInv, TypeOK
<1>2. ~Client(t)
  BY DEF InSchedule, Client, CreateKernelTask, CreateWithoutMemory, CreateHangs,
         DisablePreempt, EnablePreempt, Schedule
<1>3. CASE Age(t)
  <2>1. PICK i \in DOMAIN list : Best(i) /\ counter[list[i]] = 0
    BY <1>3 DEF Age
  <2>2. 2 \in DOMAIN list /\ Running(list[2]) /\ list[2] \in Page /\ list[2] \in OnList
    BY <2>1, ListShape DEF Best, Running, OnList
  <2>3. counter[list[2]] = 0
    BY <2>1, <2>2 DEF Best, IInv, FirstIsAhead
  <2>4. counter'[list[2]] = 1
    <3>1. 0 \div 2 + 1 = 1
      OBVIOUS
    <3> QED BY <1>3, <2>2, <2>3, <3>1 DEF Age, Running, Priority
  <2>5. StepsLeft = 3
    BY <1>3, <2>2, <2>3 DEF Age, StepsLeft
  <2>6. StepsLeft' = 2
    BY <1>3, <2>4 DEF Age, StepsLeft
  <2> QED BY <2>5, <2>6
<1>4. CASE Switch(t)
  <2>1. StepsLeft \in {2, 3}
    BY <1>4 DEF Switch, StepsLeft
  <2>2. pc'[t] = "switched"
    BY <1>1, <1>4 DEF Switch
  <2>3. current_task' \in OnList'
    BY DEF IInv, CurrentIsListed, OnList
  <2>4. pc'[current_task'] \in {"switched", "fork"}
    <3>1. CASE current_task' = t
      BY <2>2, <3>1
    <3>2. CASE current_task' # t
      <4>1. current_task' \in OnList \ {t} /\ current_task' \in Page
        BY <1>4, <2>3, <3>2 DEF Switch, OnList, IInv, TypeOK
      <4> QED BY <4>1, <1>1, <1>4 DEF Switch, IInv, OthersAreSuspended
    <3> QED BY <3>1, <3>2
  <2>5. StepsLeft' = 1
    BY <2>4 DEF StepsLeft
  <2> QED BY <2>1, <2>5
<1>5. CASE Resume(t)
  <2>1. pc'[current_task'] = "client"
    BY <1>1, <1>5 DEF Resume
  <2>2. StepsLeft = 1 /\ StepsLeft' = 0
    BY <1>5, <2>1 DEF Resume, StepsLeft
  <2> QED BY <2>2
<1> QED BY <1>2, <1>3, <1>4, <1>5 DEF Next, Proceed

(* schedule() always finds how to go on, and needs at most one renewal of  *)
(* the counters and one context switch: with every step of the task that   *)
(* is in it fewer than four are left, until its code goes on.              *)
THEOREM SchedulingEnds ==
  Spec => []ScanDecides /\ [][InSchedule => StepsLeft' < StepsLeft]_vars
<1>1. IInv => ScanDecides
  BY DecidesWhileInv
<1>2. IInv /\ IInv' /\ [Next]_vars => [InSchedule => StepsLeft' < StepsLeft]_vars
  BY ScheduleStepIsLess
<1> QED BY <1>1, <1>2, Inductive, PTL DEF Spec
=============================================================================
