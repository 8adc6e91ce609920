------------------------------ MODULE Scheduler -----------------------------
(***************************************************************************)
(* Kernel tasks and schedule(): process/task.c, process/schedule.c and the *)
(* context switch of arch/arm/interrupt.S.  One core runs the tasks and no *)
(* interrupt handler calls schedule (the call in the timer handler is      *)
(* commented out), so the running task's calls follow one another: an      *)
(* action is what happens between two points at which another context may  *)
(* continue, or one round of the loop in schedule.                         *)
(*                                                                         *)
(* A task is the page that kmalloc found for its kernel_task_t; init_task  *)
(* is static, inside the kernel image.                                     *)
(***************************************************************************)
EXTENDS Pages, Sequences

CONSTANTS
  TaskSize,   \* sizeof(kernel_task_t)
  MaxNest     \* bound: how deep a task nests its calls of disable_preempt

ASSUME SchedulerAssumption ==
  /\ TaskSize \in Nat \ {0}
  /\ NumPages(TaskSize) = 1
  /\ MaxNest \in Nat

VARIABLES
  memory_map,     \* the pages kmalloc has marked used
  memory_mutex,   \* 1 for good once a kmalloc has failed
  vectors,        \* the words at address 0 are the interrupt vectors
  list,           \* the tasks from first_task along their next pointers
  last_task,      \* the task whose next is written next, or NULL
  current_task,   \* current_task[0]
  preempt,        \* preempt[t]: t->preempt
  counter,        \* counter[t]: t->counter
  nest,           \* nest[t]: disable_preempt calls of t's own, not undone yet
  pc              \* pc[t]: where t is, and where it goes on once switched to

vars == <<memory_map, memory_mutex, vectors, list, last_task, current_task,
          preempt, counter, nest, pc>>

memory == <<memory_map, memory_mutex, vectors>>

InitTask == 0    \* &init_task, and first_task
NULL == -1       \* before and apart from every page

Label == {"none",       \* no such task yet
          "fork",       \* created: its context returns to return_from_fork
          "client",     \* in its own code
          "scan",       \* in the loop of schedule
          "switched",   \* in schedule, behind or inside arch_switch_task
          "hung"}       \* in kmalloc, for ever

OnList == {list[i] : i \in DOMAIN list}

(* A faulty Running: the task that calls schedule is none. *)
RunningIsAnother(t) == t # InitTask /\ t # current_task

(* TASK_RUNNING: the state every task but init_task has, from the start. *)
Running(t) == t # InitTask

(* A faulty Priority: create_kernel_task leaves it 0. *)
NoPriority(t) == 0

Priority(t) == IF t = InitTask THEN 0 ELSE 1

Init ==
  /\ memory_map = PagesOf(0, KernelPages)
  /\ memory_mutex = 0
  /\ vectors = TRUE
  /\ list = <<InitTask>> /\ last_task = InitTask /\ current_task = InitTask
  /\ preempt = [t \in Page |-> 0]
  /\ counter = [t \in Page |-> 0]
  /\ nest = [t \in Page |-> 0]
  /\ pc = [t \in Page |-> IF t = InitTask THEN "client" ELSE "none"]

-----------------------------------------------------------------------------
(* last_task->next = task: whatever was behind last_task is cut off. *)
Linked(task) ==
  IF last_task = NULL THEN list
  ELSE Append(SubSeq(list, 1, CHOOSE i \in DOMAIN list : list[i] = last_task),
              task)

(* A faulty CreateKernelTask: last_task stays where it is. *)
CreateForgetsLast(t, task) ==
  /\ pc[t] = "client"
  /\ memory_mutex = 0
  /\ FoundAt(task, memory_map, NumPages(TaskSize), First("KERNEL_MEMORY"),
             End("KERNEL_MEMORY"))
  /\ memory_map' = memory_map \cup PagesOf(task, NumPages(TaskSize))
  /\ preempt' = [preempt EXCEPT ![task] = 1]
  /\ pc' = [pc EXCEPT ![task] = "fork"]
  /\ list' = Linked(task)
  /\ UNCHANGED <<memory_mutex, vectors, last_task, current_task, counter, nest>>

(* A faulty CreateKernelTask: its kmalloc keeps memory_mutex. *)
CreateKeepsMutex(t, task) ==
  /\ pc[t] = "client"
  /\ memory_mutex = 0
  /\ FoundAt(task, memory_map, NumPages(TaskSize), First("KERNEL_MEMORY"),
             End("KERNEL_MEMORY"))
  /\ memory_mutex' = 1
  /\ memory_map' = memory_map \cup PagesOf(task, NumPages(TaskSize))
  /\ preempt' = [preempt EXCEPT ![task] = 1]
  /\ pc' = [pc EXCEPT ![task] = "fork"]
  /\ list' = Linked(task)
  /\ last_task' = task
  /\ UNCHANGED <<vectors, current_task, counter, nest>>

(* create_kernel_task: kmalloc finds page task, disable_preempt and        *)
(* enable_preempt of the caller cancel out.                                *)
CreateKernelTask(t, task) ==
  /\ pc[t] = "client"
  /\ memory_mutex = 0
  /\ FoundAt(task, memory_map, NumPages(TaskSize), First("KERNEL_MEMORY"),
             End("KERNEL_MEMORY"))
  /\ memory_map' = memory_map \cup PagesOf(task, NumPages(TaskSize))
  /\ preempt' = [preempt EXCEPT ![task] = 1]
  /\ counter' = [counter EXCEPT ![task] = 0]
  /\ pc' = [pc EXCEPT ![task] = "fork"]
  /\ list' = Linked(task)
  /\ last_task' = task
  /\ UNCHANGED <<memory_mutex, vectors, current_task, nest>>

(* create_kernel_task, when kmalloc has returned NULL: the task is written *)
(* over the vectors at address 0, and NULL becomes the last task.          *)
CreateWithoutMemory(t) ==
  /\ pc[t] = "client"
  /\ memory_mutex = 0
  /\ Candidates(memory_map, NumPages(TaskSize), First("KERNEL_MEMORY"),
                End("KERNEL_MEMORY")) = {}
  /\ memory_mutex' = 1
  /\ vectors' = FALSE
  /\ last_task' = NULL
  /\ UNCHANGED <<memory_map, list, current_task, preempt, counter, nest, pc>>

(* create_kernel_task after that: kmalloc waits for memory_mutex. *)
CreateHangs(t) ==
  /\ pc[t] = "client"
  /\ memory_mutex = 1
  /\ pc' = [pc EXCEPT ![t] = "hung"]
  /\ UNCHANGED <<memory, list, last_task, current_task, preempt, counter, nest>>

(* disable_preempt and enable_preempt, which a task calls in pairs. *)
DisablePreempt(t) ==
  /\ pc[t] = "client"
  /\ nest[t] < MaxNest
  /\ nest' = [nest EXCEPT ![t] = @ + 1]
  /\ preempt' = [preempt EXCEPT ![t] = @ + 1]
  /\ UNCHANGED <<memory, list, last_task, current_task, counter, pc>>

EnablePreempt(t) ==
  /\ pc[t] = "client"
  /\ nest[t] > 0
  /\ nest' = [nest EXCEPT ![t] = @ - 1]
  /\ preempt' = [preempt EXCEPT ![t] = @ - 1]
  /\ UNCHANGED <<memory, list, last_task, current_task, counter, pc>>

-----------------------------------------------------------------------------
(* schedule() is called; with preempt > 0 it returns at once. *)
Schedule(t) ==
  /\ pc[t] = "client"
  /\ preempt[t] = 0
  /\ preempt' = [preempt EXCEPT ![t] = 1]
  /\ pc' = [pc EXCEPT ![t] = "scan"]
  /\ UNCHANGED <<memory, list, last_task, current_task, counter, nest>>

(* A faulty Best: the scan takes the last of equals. *)
BestIsLast(i) ==
  /\ Running(list[i])
  /\ \A k \in DOMAIN list :
       Running(list[k]) =>
         /\ counter[list[k]] <= counter[list[i]]
         /\ k > i => counter[list[k]] < counter[list[i]]

(* The scan ends with next = list[i] and c = its counter: the first of the *)
(* runnable tasks with the greatest counter.                               *)
Best(i) ==
  /\ Running(list[i])
  /\ \A k \in DOMAIN list :
       Running(list[k]) =>
         /\ counter[list[k]] <= counter[list[i]]
         /\ k < i => counter[list[k]] < counter[list[i]]

(* c = 0: every task's counter is renewed, and the loop goes on. *)
Age(t) ==
  /\ pc[t] = "scan"
  /\ \E i \in DOMAIN list : Best(i) /\ counter[list[i]] = 0
  /\ counter' = [u \in Page |-> IF u \in OnList THEN counter[u] \div 2 + Priority(u)
                                ELSE counter[u]]
  /\ UNCHANGED <<memory, list, last_task, current_task, preempt, nest, pc>>

(* c # 0 (it is -1, and next first_task, if no task is runnable): leave    *)
(* the loop and switch to next.                                            *)
Switch(t) ==
  /\ pc[t] = "scan"
  /\ \/ \E i \in DOMAIN list :
          Best(i) /\ counter[list[i]] # 0 /\ current_task' = list[i]
     \/ (\A i \in DOMAIN list : ~Running(list[i])) /\ current_task' = list[1]
  /\ pc' = [pc EXCEPT ![t] = "switched"]
  /\ UNCHANGED <<memory, list, last_task, preempt, counter, nest>>

(* Faulty variants of Resume: a new task goes on without enable_preempt,   *)
(* or enable_preempt is called twice.                                      *)
ForkForgetsEnable(t) ==
  /\ pc[t] \in {"switched", "fork"}
  /\ preempt' = [preempt EXCEPT ![t] = IF pc[t] = "fork" THEN @ ELSE @ - 1]
  /\ pc' = [pc EXCEPT ![t] = "client"]
  /\ UNCHANGED <<memory, list, last_task, current_task, counter, nest>>

ResumeEnablesTwice(t) ==
  /\ pc[t] \in {"switched", "fork"}
  /\ preempt' = [preempt EXCEPT ![t] = @ - 2]
  /\ pc' = [pc EXCEPT ![t] = "client"]
  /\ UNCHANGED <<memory, list, last_task, current_task, counter, nest>>

(* The context of t is loaded, or was never left: schedule ends, or        *)
(* return_from_fork calls t's function, with enable_preempt in either.     *)
Resume(t) ==
  /\ pc[t] \in {"switched", "fork"}
  /\ preempt' = [preempt EXCEPT ![t] = @ - 1]
  /\ pc' = [pc EXCEPT ![t] = "client"]
  /\ UNCHANGED <<memory, list, last_task, current_task, counter, nest>>

-----------------------------------------------------------------------------
(* What schedule does by itself once it is called. *)
Proceed(t) == Age(t) \/ Switch(t) \/ Resume(t)

(* What a task's own code may call. *)
Client(t) ==
  \/ \E task \in Page : CreateKernelTask(t, task)
  \/ CreateWithoutMemory(t) \/ CreateHangs(t)
  \/ DisablePreempt(t) \/ EnablePreempt(t) \/ Schedule(t)

Next == Client(current_task) \/ Proceed(current_task)

Spec == Init /\ [][Next]_vars

(* The core executes its instructions. *)
FairSpec == Spec /\ WF_vars(Proceed(current_task))

-----------------------------------------------------------------------------
(* Types of the variables. *)
TypeOK ==
  /\ memory_map \subseteq Page
  /\ memory_mutex \in {0, 1}
  /\ vectors \in BOOLEAN
  /\ list \in Seq(Page) /\ Len(list) >= 1
  /\ last_task \in Page \cup {NULL}
  /\ current_task \in Page
  /\ preempt \in [Page -> Nat]
  /\ counter \in [Page -> Nat]
  /\ nest \in [Page -> Nat]
  /\ pc \in [Page -> Label]

(* Preemption counts balance across context switches: the 1 a new task is  *)
(* born with and the 1 schedule adds are undone when the task goes on, and *)
(* nothing else is; so a running task can schedule when it has undone its  *)
(* own calls of disable_preempt.                                           *)
PreemptBalanced ==
  \A t \in OnList :
    preempt[t] = nest[t] + (IF pc[t] \in {"fork", "scan", "switched"} THEN 1 ELSE 0)

(* No task is lost and none is listed twice: the tasks on the list are     *)
(* init_task and, one by one, the pages create_kernel_task got.            *)
ListIsComplete ==
  /\ memory_map \ PagesOf(0, KernelPages) = OnList \ {InitTask}
  /\ \A i, k \in DOMAIN list : list[i] = list[k] => i = k
  /\ last_task # NULL => last_task = list[Len(list)]

(* A task is written over the exception vectors, and a creator waits for   *)
(* ever, only when all the memory there is for tasks is taken: every page  *)
(* that kmalloc can give (all but the last of its region) is a task.       *)
VectorsOutliveMemory ==
  ~vectors \/ (\E t \in Page : pc[t] = "hung")
    => KernelPages .. ReservedPages - 2 \subseteq OnList

(* Counters are renewed only while all of them are 0 and nothing takes one *)
(* down: schedule returns to the first task that was created, again and    *)
(* again, and no other task ever starts.                                   *)
OnlyFirstTaskRuns ==
  \A i \in DOMAIN list : i > 2 => pc[list[i]] = "fork"

(* Once schedule has left init_task it never goes back to it. *)
InitIsLeftForGood ==
  [][current_task # InitTask => current_task' # InitTask]_vars

(* schedule does not loop for ever: renewed counters end the next scan.    *)
ScheduleReturns == (\E t \in Page : pc[t] = "scan") ~> pc[current_task] = "client"

(* "stacksize = PAGE_SIZE - sizeof(kernel_task_t)": the stack of a task is *)
(* the rest of the page behind its kernel_task_t, no other task's page.    *)
(* It begins at task + PAGE_SIZE, PAGE_SIZE * sizeof(kernel_task_t) bytes  *)
(* behind the task: it grows down from the header of that page.            *)
StackPages(t) == {t + TaskSize, t + TaskSize - 1}

StacksAreApart ==
  \A t, u \in OnList \ {InitTask} : t # u => u \notin StackPages(t)
=============================================================================
