-------------------------------- MODULE Tasking --------------------------------
(***************************************************************************)
(* Tasks and the round-robin scheduler, src/modules/tasking/tasking.cpp,   *)
(* with the part of irq0_handler and irq0_stub that switches stacks.       *)
(*                                                                         *)
(* A thread is what runs on one stack: the code that boots the kernel, or  *)
(* a task.  Its context is the place it is at, whether interrupts are      *)
(* enabled there, and the locals of the call it is in.  The timer          *)
(* interrupt pushes the context on the thread's stack; where on the stack  *)
(* depends on how deep its calls are.  A stack pointer is the stack and    *)
(* that depth, and finds the context again only if it is where the thread  *)
(* was interrupted last: what lies elsewhere has been written over.        *)
(*                                                                         *)
(* The Makefile builds without optimisation, so memory is read and written *)
(* in program order.  Calls are cut where an interrupt tells the           *)
(* difference.  Nothing in the kernel creates a task yet: the callers are  *)
(* any thread for task_create, and the boot code for the rest.             *)
(***************************************************************************)
EXTENDS Naturals

CONSTANTS
  MAX_TASKS,
  MaxStacks     \* bound: how many stacks kmalloc can hand out

ASSUME TaskingAssumption == MAX_TASKS \in Nat \ {0} /\ MaxStacks \in Nat

VARIABLES
  g_tasks, g_task_count, g_current_task,
  g_scheduler_started, g_bootstrap_switch_pending,
  thread,      \* the thread that runs
  context,     \* the context of each thread
  allocated,   \* how many stacks kmalloc has handed out
  waited,      \* how many turns others have had since this task's last
  misuse       \* what the callers did that the code has no answer to

table == <<g_tasks, g_task_count>>
scheduler == <<g_current_task, g_scheduler_started, g_bootstrap_switch_pending>>
vars == <<table, scheduler, thread, context, allocated, waited, misuse>>

Boot == 0
Stacks == 1 .. MaxStacks
Threads == {Boot} \cup Stacks
Lost == MaxStacks + 1     \* the processor has taken other memory for a context

\* The slots of the table and, from MAX_TASKS on, the memory behind it, as far
\* as overlapping calls of task_create can reach (see StaysInTable).  What the
\* compiler has put there is not modelled: it is taken to be unused.
Slots == 0 .. MAX_TASKS + MaxStacks

Misuses == {"nested_create", "tick_in_start"}

-----------------------------------------------------------------------------

(* Contexts. *)

InCreate == {"kmalloc", "fill", "frame", "load", "store"}
InStart == {"start_current", "start_pending"}
Places == {"none", "entry", "code", "inner"} \cup InCreate \cup InStart

Contexts == [place: Places, enabled: BOOLEAN, stack: 0 .. MaxStacks, index: Slots]

\* A stack without a context, and what task_create prepares for a new task:
\* the entry point, and interrupts enabled (EFLAGS 0x202).
NoContext == [place |-> "none", enabled |-> FALSE, stack |-> 0, index |-> 0]
EntryContext == [NoContext EXCEPT !.place = "entry", !.enabled = TRUE]

\* How deep the stack is at a place: the context of a new task lies at its
\* very end, and kmalloc is called by task_create.
Depth(place) == CASE place = "entry"   -> 0
                  [] place = "code"    -> 1
                  [] place = "kmalloc" -> 3
                  [] OTHER             -> 2

Esp(t) == [stack |-> t, depth |-> Depth(context[t].place)]
NoEsp == [stack |-> Lost, depth |-> 0]
Esps == [stack: Threads \cup {Lost}, depth: 0 .. 3]

EmptySlot == [esp |-> NoEsp, active |-> FALSE]

At(place) == thread \in Threads /\ context[thread].place = place

\* The running thread goes to another place.
Go(place) == context' = [context EXCEPT ![thread].place = place]

\* popad and iretd with this stack pointer.
Resume(esp) ==
  thread' = IF /\ esp.stack \in Threads
               /\ context[esp.stack].place # "none"
               /\ esp = Esp(esp.stack)
            THEN esp.stack ELSE Lost

-----------------------------------------------------------------------------

(* Calls of the running thread. *)

\* A thread calls a function of its own, or returns from it.
Work ==
  /\ \/ At("entry") /\ Go("code")
     \/ At("code") /\ Go("inner")
     \/ At("inner") /\ Go("code")
  /\ UNCHANGED <<table, scheduler, thread, allocated, waited, misuse>>

interrupts_enable ==
  /\ At("code")
  /\ context' = [context EXCEPT ![thread].enabled = TRUE]
  /\ UNCHANGED <<table, scheduler, thread, allocated, waited, misuse>>

\* Tasks that were created before are forgotten.  Until tasking_start an
\* interrupt changes nothing here, so this is one step.
tasking_init ==
  /\ thread = Boot /\ At("code") /\ ~g_scheduler_started
  /\ g_tasks' = [i \in Slots |-> IF i < MAX_TASKS THEN EmptySlot ELSE g_tasks[i]]
  /\ g_task_count' = 0
  /\ g_current_task' = 0
  /\ g_bootstrap_switch_pending' = FALSE
  /\ context' = [t \in Threads |-> IF t = Boot THEN context[t] ELSE NoContext]
  /\ waited' = [i \in Slots |-> 0]
  /\ UNCHANGED <<g_scheduler_started, thread, allocated, misuse>>

\* Wrong variant: one task too many passes.
CreateRefused_Late == g_task_count > MAX_TASKS

CreateRefused == g_task_count >= MAX_TASKS

\* Up to the call of kmalloc.  Nothing keeps a second thread out.
CallCreate ==
  /\ At("code") /\ ~CreateRefused
  /\ Go("kmalloc")
  /\ misuse' = IF \E t \in Threads \ {thread} : context[t].place \in InCreate
               THEN misuse \cup {"nested_create"} ELSE misuse
  /\ UNCHANGED <<table, scheduler, thread, allocated, waited>>

\* kmalloc returns a stack, or a null pointer.
CreateGotStack ==
  /\ At("kmalloc")
  /\ \/ /\ allocated < MaxStacks
        /\ allocated' = allocated + 1
        /\ context' = [context EXCEPT ![thread].place = "fill",
                                      ![thread].stack = allocated']
     \/ Go("code") /\ UNCHANGED allocated
  /\ UNCHANGED <<table, scheduler, thread, waited, misuse>>

\* The slot is the one after the last now: t.active = true.
CreateFill ==
  /\ At("fill")
  /\ g_tasks' = [g_tasks EXCEPT ![g_task_count].active = TRUE]
  /\ context' = [context EXCEPT ![thread].place = "frame",
                                ![thread].index = g_task_count]
  /\ UNCHANGED <<g_task_count, scheduler, thread, allocated, waited, misuse>>

\* The first context of the task, and t.esp.
CreateFrame ==
  LET my == context[thread] IN
  /\ At("frame")
  /\ context' = [context EXCEPT ![thread].place = "load",
                                ![my.stack] = EntryContext]
  /\ g_tasks' = [g_tasks EXCEPT ![my.index].esp = [stack |-> my.stack, depth |-> 0]]
  /\ waited' = [waited EXCEPT ![my.index] = 0]
  /\ UNCHANGED <<g_task_count, scheduler, thread, allocated, misuse>>

\* ++g_task_count is a load, and a store of one more.
CreateLoad ==
  /\ At("load")
  /\ context' = [context EXCEPT ![thread].place = "store",
                                ![thread].index = g_task_count]
  /\ UNCHANGED <<table, scheduler, thread, allocated, waited, misuse>>

\* Wrong variant: the count stays.
CreateStore_Same ==
  /\ At("store")
  /\ Go("code")
  /\ g_task_count' = context[thread].index
  /\ UNCHANGED <<g_tasks, scheduler, thread, allocated, waited, misuse>>

CreateStore ==
  /\ At("store")
  /\ Go("code")
  /\ g_task_count' = context[thread].index + 1
  /\ UNCHANGED <<g_tasks, scheduler, thread, allocated, waited, misuse>>

task_create == CallCreate \/ CreateGotStack \/ CreateFill \/ CreateFrame
               \/ CreateLoad \/ CreateStore

\* Wrong variant: the first switch is not told from the others.
StartPending_Not == FALSE

\* The value of the third assignment of tasking_start.
StartPending == TRUE

\* The boot code starts the scheduler, once.  Three assignments.
tasking_start ==
  /\ thread = Boot
  /\ \/ /\ At("code") /\ g_task_count # 0 /\ ~g_scheduler_started
        /\ g_scheduler_started' = TRUE
        /\ Go("start_current")
        /\ UNCHANGED <<g_current_task, g_bootstrap_switch_pending>>
     \/ /\ At("start_current")
        /\ g_current_task' = 0
        /\ Go("start_pending")
        /\ UNCHANGED <<g_scheduler_started, g_bootstrap_switch_pending>>
     \/ /\ At("start_pending")
        /\ g_bootstrap_switch_pending' = StartPending
        /\ Go("code")
        /\ UNCHANGED <<g_scheduler_started, g_current_task>>
  /\ UNCHANGED <<table, thread, allocated, waited, misuse>>

-----------------------------------------------------------------------------

(* The timer interrupt. *)

\* Slots the loop of tasking_schedule tries, in its order, from the one after
\* the current to the current.
Tried(i) == (g_current_task + i) % g_task_count

\* Wrong variant: always the first task.
NextTask_First == IF g_tasks[0].active THEN {0} ELSE {}

\* The slot it takes, if there is one.
NextTask ==
  {Tried(i) : i \in {j \in 1 .. g_task_count :
                       /\ g_tasks[Tried(j)].active
                       /\ \A k \in 1 .. j - 1 : ~g_tasks[Tried(k)].active}}

\* Slot i has its turn.  After a misuse nobody counts.
Turn(i) ==
  waited' = IF misuse # {} THEN waited
            ELSE [s \in Slots |-> IF s = i \/ s >= g_task_count THEN 0
                                  ELSE waited[s] + 1]

\* Wrong variant: what the current task was interrupted with is not stored.
SaveEsp_Not(esp) == g_tasks' = g_tasks

\* Wrong variant: with the argument irq0_stub has pushed for irq0_handler.
SaveEsp_Deeper(esp) ==
  g_tasks' = [g_tasks EXCEPT ![g_current_task].esp = [esp EXCEPT !.depth = @ + 1]]

SaveEsp(esp) == g_tasks' = [g_tasks EXCEPT ![g_current_task].esp = esp]

\* Wrong variant: the flag stays.
FirstSwitch_Again ==
  /\ Resume(g_tasks[g_current_task].esp)
  /\ Turn(g_current_task)
  /\ UNCHANGED <<table, scheduler>>

\* The context that is left is not stored.
FirstSwitch ==
  /\ g_bootstrap_switch_pending' = FALSE
  /\ Resume(g_tasks[g_current_task].esp)
  /\ Turn(g_current_task)
  /\ UNCHANGED <<table, g_current_task, g_scheduler_started>>

Switch(esp) ==
  /\ SaveEsp(esp)
  /\ \/ \E next \in NextTask :
          /\ g_current_task' = next
          /\ Resume(g_tasks'[next].esp)
          /\ Turn(next)
     \/ NextTask = {} /\ UNCHANGED <<g_current_task, thread, waited>>
  /\ UNCHANGED <<g_task_count, g_scheduler_started, g_bootstrap_switch_pending>>

tasking_schedule(esp) ==
  CASE ~g_scheduler_started \/ g_task_count = 0 ->
         UNCHANGED <<table, scheduler, thread, waited>>
    [] g_scheduler_started /\ g_task_count # 0 /\ g_bootstrap_switch_pending ->
         FirstSwitch
    [] OTHER -> Switch(esp)

\* irq0_stub and irq0_handler.
irq0_handler ==
  /\ thread \in Threads /\ context[thread].enabled
  /\ tasking_schedule(Esp(thread))
  /\ misuse' = IF context[thread].place \in InStart
               THEN misuse \cup {"tick_in_start"} ELSE misuse
  /\ UNCHANGED <<context, allocated>>

\* kernel_main before interrupts_enable.
Init ==
  /\ g_tasks = [i \in Slots |-> EmptySlot]
  /\ g_task_count = 0 /\ g_current_task = 0
  /\ g_scheduler_started = FALSE /\ g_bootstrap_switch_pending = FALSE
  /\ thread = Boot
  /\ context = [t \in Threads |->
                  IF t = Boot THEN [NoContext EXCEPT !.place = "code"] ELSE NoContext]
  /\ allocated = 0
  /\ waited = [i \in Slots |-> 0]
  /\ misuse = {}

Next == Work \/ interrupts_enable \/ tasking_init \/ task_create \/ tasking_start
        \/ irq0_handler

Spec == Init /\ [][Next]_vars

\* The PIT goes on ticking.
FairSpec == Spec /\ WF_vars(irq0_handler)

-----------------------------------------------------------------------------

TypeOK ==
  /\ g_tasks \in [Slots -> [esp: Esps, active: BOOLEAN]]
  /\ g_task_count \in 0 .. allocated
  /\ g_current_task \in Slots
  /\ g_scheduler_started \in BOOLEAN /\ g_bootstrap_switch_pending \in BOOLEAN
  /\ thread \in Threads \cup {Lost}
  /\ context \in [Threads -> Contexts]
  /\ allocated \in 0 .. MaxStacks
  /\ waited \in [Slots -> Nat]
  /\ misuse \subseteq Misuses

\* The processor never takes anything for a context but the one its owner was
\* interrupted with, or the one task_create prepared, however calls, returns,
\* creations and interrupts alternate, unless a tick falls between the
\* assignments of tasking_start or two calls of task_create overlap
\* (tasking.cpp:53-73, 83-85 and 99-108, interrupts_entry.asm:44-52).
NeverLost == misuse = {} => thread # Lost

\* Every task whose context was prepared has a slot of its own, which is
\* scheduled or is about to be (tasking.cpp:47-74).
EveryTaskKept ==
  misuse = {} =>
    \A s \in Stacks : context[s].place # "none" =>
      \E i \in 0 .. g_task_count :
        /\ g_tasks[i].active
        /\ \A j \in 0 .. g_task_count : g_tasks[j].esp.stack = s <=> j = i
        /\ i = g_task_count =>
             \E t \in Threads : context[t].place \in {"load", "store"}
                               /\ context[t].stack = s

\* Only overlapping calls of task_create, which check the count before kmalloc
\* and use it after, write behind the end of the table or let the scheduler
\* read there (tasking.cpp:39, 47 and 74).
StaysInTable ==
  (\/ g_task_count > MAX_TASKS
   \/ \E i \in Slots : i >= MAX_TASKS /\ g_tasks[i] # EmptySlot)
    => "nested_create" \in misuse

\* No task waits for more turns of others than there are other tasks, though
\* tasks are created meanwhile (tasking.cpp:101-110).
FairTurns ==
  misuse = {} => \A i \in Slots : i < g_task_count => waited[i] < g_task_count

\* Once the first task has had its turn, the code that called tasking_start
\* never runs again: what it was in the middle of stays undone
\* (tasking.cpp:93-97).
BootLeftForGood ==
  [][misuse' = {} /\ thread # Boot => thread' # Boot]_vars

\* Every task runs again and again, once the boot code has let a tick come
\* after tasking_start (tasking.cpp:88-113, interrupts.cpp:221-227).
EveryTaskRuns ==
  \A i \in 0 .. MAX_TASKS - 1 :
    (i < g_task_count /\ thread # Boot)
      ~> (misuse # {} \/ thread = g_tasks[i].esp.stack)
=============================================================================
