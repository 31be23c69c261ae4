----------------------------- MODULE TaskingProofs -----------------------------
(***************************************************************************)
(* Proofs about module Tasking, for every size of the table and every      *)
(* number of stacks.                                                       *)
(*                                                                         *)
(* The inductive invariant Inv has three levels.  Whatever the callers do, *)
(* the count and the creations under way share the stacks kmalloc has      *)
(* handed out (Counted).  As long as no two calls of task_create overlap,  *)
(* the one that is under way knows the count, and the table is not left    *)
(* (OneCreator, TableEnd).  As long as the callers have done nothing wrong *)
(* at all, the boot code is either the only one that has run or has gone   *)
(* for good (BootPhase), stacks and slots belong together one to one       *)
(* (StacksOwned, SlotsHold), and who waits longest is who is next          *)
(* (TurnsInOrder).                                                         *)
(***************************************************************************)
EXTENDS Tasking, FiniteSetTheorems, TLAPS

Place(t) == context[t].place
StackOf(i) == g_tasks[i].esp.stack

\* The calls of task_create that have got a stack and not yet stored the count.
Holding == {"fill", "frame", "load", "store"}
Creating == {t \in Threads : Place(t) \in Holding}

\* The count is at most the stacks handed out, and stays so when the creations
\* under way have stored what they have loaded, even where they overlap.
Counted ==
  /\ g_task_count + Cardinality(Creating) <= allocated
  /\ \A t \in Threads : Place(t) = "store" =>
       context[t].index + Cardinality(Creating) <= allocated

\* A call of task_create has the count, and there is no other.
OneCreator ==
  "nested_create" \notin misuse =>
    /\ g_task_count <= MAX_TASKS
    /\ \A t, u \in Threads : Place(t) \in InCreate /\ Place(u) \in InCreate => t = u
    /\ \A t \in Threads : Place(t) \in InCreate => g_task_count < MAX_TASKS
    /\ \A t \in Threads : Place(t) \in {"frame", "load", "store"}
                            => context[t].index = g_task_count

TableEnd ==
  "nested_create" \notin misuse =>
    /\ \A i \in Slots : i >= MAX_TASKS => g_tasks[i] = EmptySlot
    /\ g_current_task < MAX_TASKS

\* No task has run.
Fresh ==
  /\ thread = Boot
  /\ g_current_task = 0
  /\ \A s \in Stacks : Place(s) \in {"none", "entry"}
  /\ \A i \in Slots : waited[i] = 0

\* Up to the first switch nothing has run but the boot code, and after it the
\* boot code does not run.
BootPhase ==
  /\ g_bootstrap_switch_pending => g_scheduler_started
  /\ g_scheduler_started => g_task_count # 0 /\ g_current_task < g_task_count
  /\ \A t \in Threads : Place(t) \in InStart
                          => t = Boot /\ g_scheduler_started /\ ~g_bootstrap_switch_pending
  /\ ~g_scheduler_started \/ g_bootstrap_switch_pending \/ Place(Boot) \in InStart
       => Fresh
  /\ g_scheduler_started /\ ~g_bootstrap_switch_pending /\ Place(Boot) \notin InStart
       => thread # Boot

\* What the call of task_create under way holds.
StacksOwned ==
  /\ \A s \in Stacks : s > allocated => Place(s) = "none"
  /\ \A t \in Threads : Place(t) \in {"fill", "frame"} =>
       /\ context[t].stack \in Stacks
       /\ context[t].stack <= allocated
       /\ Place(context[t].stack) = "none"
  /\ \A t \in Threads : Place(t) \in {"frame", "load", "store"} =>
       g_tasks[g_task_count].active
  /\ \A t \in Threads : Place(t) \in {"load", "store"} =>
       /\ context[t].stack \in Stacks
       /\ StackOf(g_task_count) = context[t].stack

Filled(i) == StackOf(i) \in Stacks

\* Slots and the stacks that have a context belong together one to one, and a
\* slot has the place of its stack's context unless it runs.
SlotsHold ==
  /\ \A i \in Slots : Filled(i) =>
       /\ g_tasks[i].active
       /\ Place(StackOf(i)) # "none"
       /\ StackOf(i) # thread => g_tasks[i].esp = Esp(StackOf(i))
  /\ \A i, j \in Slots : Filled(i) /\ StackOf(i) = StackOf(j) => i = j
  /\ \A i \in Slots : i < g_task_count => Filled(i)
  /\ \A i \in Slots : i > g_task_count => ~Filled(i)
  /\ \A i \in Slots : i = g_task_count /\ Filled(i) =>
       \E t \in Threads : Place(t) \in {"load", "store"}
  /\ \A s \in Stacks : Place(s) # "none" => \E i \in Slots : StackOf(i) = s
  /\ thread \in Threads
  /\ thread \in Stacks => StackOf(g_current_task) = thread

\* How many turns back slot i had its own.
Behind(i) ==
  IF i <= g_current_task THEN g_current_task - i ELSE g_task_count + g_current_task - i

TurnsInOrder ==
  /\ \A i \in Slots : i < g_task_count => waited[i] <= Behind(i)
  /\ \A i \in Slots : i >= g_task_count => waited[i] = 0

\* What holds as long as nothing is misused.
Sound == BootPhase /\ StacksOwned /\ SlotsHold /\ TurnsInOrder

Alone == TypeOK /\ Counted /\ OneCreator /\ TableEnd

Inv == Alone /\ (misuse = {} => Sound)

-----------------------------------------------------------------------------

(* Types. *)

LEMMA Constants ==
  /\ MAX_TASKS \in Nat /\ MAX_TASKS > 0 /\ MaxStacks \in Nat
  /\ Slots = 0 .. MAX_TASKS + MaxStacks
  /\ Boot \notin Stacks /\ Lost \notin Threads
  /\ Threads = 0 .. MaxStacks /\ Stacks = 1 .. MaxStacks
BY TaskingAssumption DEF Slots, Boot, Stacks, Threads, Lost

LEMMA Numbers ==
  ASSUME TypeOK
  PROVE  /\ g_task_count \in Nat /\ g_current_task \in Nat /\ allocated \in Nat
         /\ MAX_TASKS \in Nat /\ MAX_TASKS \in Slots /\ MaxStacks \in Nat
         /\ allocated <= MaxStacks
         /\ \A i : i \in Slots <=> i \in Nat /\ i <= MAX_TASKS + MaxStacks
         /\ g_task_count <= allocated /\ g_task_count \in Slots
         /\ \A i \in Slots : waited[i] \in Nat
BY TaskingAssumption DEF TypeOK, Slots

LEMMA ContextFields ==
  ASSUME NEW c \in Contexts
  PROVE  /\ c.place \in Places /\ c.enabled \in BOOLEAN
         /\ c.stack \in 0 .. MaxStacks /\ c.index \in Slots
         /\ \A p \in Places : [c EXCEPT !.place = p] \in Contexts
         /\ \A p \in Places, k \in 0 .. MaxStacks :
              [c EXCEPT !.place = p, !.stack = k] \in Contexts
         /\ \A p \in Places, i \in Slots :
              [c EXCEPT !.place = p, !.index = i] \in Contexts
         /\ \A b \in BOOLEAN : [c EXCEPT !.enabled = b] \in Contexts
BY DEF Contexts

LEMMA IndexType ==
  ASSUME TypeOK, NEW t \in Threads PROVE context[t].index \in Nat
<1>1. context[t] \in Contexts
  BY DEF TypeOK
<1>2. context[t].index \in Slots
  BY <1>1 DEF Contexts
<1> QED
  BY <1>2, Constants

LEMMA NoContextIn == NoContext \in Contexts /\ EntryContext \in Contexts
<1>1. "none" \in Places /\ "entry" \in Places /\ 0 \in Slots /\ 0 \in 0 .. MaxStacks
  BY TaskingAssumption DEF Places, Slots
<1>2. NoContext \in Contexts
  BY <1>1 DEF NoContext, Contexts
<1> DEFINE entry == [NoContext EXCEPT !.place = "entry"]
<1>3. entry \in Contexts
  BY <1>1, <1>2, ContextFields
<1>4. [entry EXCEPT !.enabled = TRUE] \in Contexts
  BY <1>3, ContextFields
<1> QED
  BY <1>2, <1>4 DEF EntryContext

LEMMA EspType ==
  ASSUME NEW t \in Threads PROVE Esp(t) \in Esps
BY DEF Esp, Esps, Depth

LEMMA ResumeType ==
  ASSUME NEW e, Resume(e) PROVE thread' \in Threads \cup {Lost}
BY DEF Resume

LEMMA InitType == Init => TypeOK
<1> SUFFICES ASSUME Init PROVE TypeOK
  OBVIOUS
<1>1. EmptySlot \in [esp: Esps, active: BOOLEAN]
  BY TaskingAssumption DEF EmptySlot, NoEsp, Esps
<1>2. [NoContext EXCEPT !.place = "code"] \in Contexts
  BY NoContextIn, ContextFields DEF Places
<1>3. context \in [Threads -> Contexts]
  BY <1>2, NoContextIn DEF Init
<1>4. g_tasks \in [Slots -> [esp: Esps, active: BOOLEAN]]
  BY <1>1 DEF Init
<1>5. /\ g_task_count \in 0 .. allocated /\ g_current_task \in Slots
      /\ thread \in Threads \cup {Lost} /\ allocated \in 0 .. MaxStacks
  BY Constants, TaskingAssumption DEF Init, Threads
<1>6. /\ g_scheduler_started \in BOOLEAN /\ g_bootstrap_switch_pending \in BOOLEAN
      /\ waited \in [Slots -> Nat] /\ misuse \subseteq Misuses
  BY DEF Init
<1> QED
  BY <1>3, <1>4, <1>5, <1>6 DEF TypeOK

\* What a step to another place does to the contexts.
LEMMA GoFields ==
  ASSUME TypeOK, thread \in Threads, NEW p \in Places, Go(p)
  PROVE  /\ context' \in [Threads -> Contexts]
         /\ context'[thread].place = p
         /\ context'[thread].stack = context[thread].stack
         /\ context'[thread].index = context[thread].index
         /\ \A t \in Threads \ {thread} : context'[t] = context[t]
<1>1. context \in [Threads -> Contexts] /\ context[thread] \in Contexts
  BY DEF TypeOK
<1>2. context' = [context EXCEPT ![thread] = [context[thread] EXCEPT !.place = p]]
  BY DEF Go
<1>3. [context[thread] EXCEPT !.place = p] \in Contexts
  BY <1>1, ContextFields
<1>4. context' \in [Threads -> Contexts]
  BY <1>1, <1>2, <1>3
<1>5. context'[thread] = [context[thread] EXCEPT !.place = p]
  BY <1>1, <1>2
<1>6. DOMAIN context[thread] = {"place", "enabled", "stack", "index"}
  BY <1>1 DEF Contexts
<1> QED
  BY <1>1, <1>2, <1>4, <1>5, <1>6

LEMMA PlaceNames ==
  /\ \A p \in InCreate \cup InStart \cup {"none", "entry", "code", "inner"} : p \in Places
BY DEF Places

LEMMA GotStack ==
  ASSUME TypeOK, thread \in Threads, NEW p \in Places, NEW k \in 0 .. MaxStacks,
         context' = [context EXCEPT ![thread].place = p, ![thread].stack = k]
  PROVE  /\ context' \in [Threads -> Contexts]
         /\ context'[thread].place = p
         /\ context'[thread].stack = k
         /\ \A t \in Threads \ {thread} : context'[t] = context[t]
<1> DEFINE c == [context[thread] EXCEPT !.place = p]
           d == [c EXCEPT !.stack = k]
<1>1. context \in [Threads -> Contexts] /\ context[thread] \in Contexts
  BY DEF TypeOK
<1>2. c \in Contexts /\ d \in Contexts
  BY <1>1, ContextFields, Constants, ZenonT(60) DEF Contexts
<1>3. context' = [[context EXCEPT ![thread] = c] EXCEPT ![thread] = d]
  BY <1>1
<1>4. d.place = p /\ d.stack = k
  BY <1>1 DEF Contexts
<1> HIDE DEF c, d
<1> QED
  BY <1>1, <1>2, <1>3, <1>4

\* The slot the loop of tasking_schedule takes is one of those in use.
LEMMA TriedInTable ==
  ASSUME TypeOK, NEW next \in NextTask
  PROVE  next \in Slots /\ next < g_task_count
<1>1. PICK i \in 1 .. g_task_count : next = Tried(i)
  BY DEF NextTask
<1>2. /\ g_task_count \in Nat /\ g_task_count > 0 /\ g_task_count <= MaxStacks
      /\ g_current_task + i \in Nat
  BY <1>1, TaskingAssumption DEF TypeOK, Slots
<1>3. /\ (g_current_task + i) % g_task_count \in Nat
      /\ (g_current_task + i) % g_task_count < g_task_count
  BY <1>2
<1> QED
  BY <1>1, <1>2, <1>3, TaskingAssumption DEF Tried, Slots

LEMMA TurnType ==
  ASSUME TypeOK, NEW i, Turn(i) PROVE waited' \in [Slots -> Nat]
BY DEF TypeOK, Turn

LEMMA SaveEspType ==
  ASSUME TypeOK, NEW esp \in Esps, SaveEsp(esp)
  PROVE  g_tasks' \in [Slots -> [esp: Esps, active: BOOLEAN]]
BY DEF TypeOK, SaveEsp

\* tasking_schedule changes what it has to, and nothing to another type.
LEMMA ScheduleType ==
  ASSUME TypeOK, thread \in Threads, tasking_schedule(Esp(thread))
  PROVE  /\ g_tasks' \in [Slots -> [esp: Esps, active: BOOLEAN]]
         /\ g_task_count' = g_task_count
         /\ g_current_task' \in Slots
         /\ g_scheduler_started' \in BOOLEAN /\ g_bootstrap_switch_pending' \in BOOLEAN
         /\ thread' \in Threads \cup {Lost}
         /\ waited' \in [Slots -> Nat]
<1>1. CASE UNCHANGED <<table, scheduler, thread, waited>>
  BY <1>1 DEF TypeOK, table, scheduler
<1>2. CASE FirstSwitch
  <2>1. thread' \in Threads \cup {Lost} /\ waited' \in [Slots -> Nat]
    BY <1>2, ResumeType, TurnType DEF FirstSwitch
  <2> QED
    BY <1>2, <2>1 DEF FirstSwitch, TypeOK, table
<1>3. CASE Switch(Esp(thread))
  <2>1. g_tasks' \in [Slots -> [esp: Esps, active: BOOLEAN]]
    BY <1>3, EspType, SaveEspType DEF Switch
  <2>2. /\ g_current_task' \in Slots
        /\ thread' \in Threads \cup {Lost} /\ waited' \in [Slots -> Nat]
    <3>1. CASE NextTask = {} /\ UNCHANGED <<g_current_task, thread, waited>>
      BY <3>1 DEF TypeOK
    <3>2. CASE \E next \in NextTask :
                 /\ g_current_task' = next
                 /\ Resume(g_tasks'[next].esp)
                 /\ Turn(next)
      BY <3>2, TriedInTable, ResumeType, TurnType
    <3> QED
      BY <1>3, <3>1, <3>2 DEF Switch
  <2> QED
    BY <1>3, <2>1, <2>2 DEF Switch, TypeOK
<1> QED
  BY <1>1, <1>2, <1>3 DEF tasking_schedule

\* The two contexts CreateFrame writes.
LEMMA FrameFields ==
  ASSUME TypeOK, CreateFrame
  PROVE  /\ context' \in [Threads -> Contexts]
         /\ \A t \in Threads \ {thread, context[thread].stack} : context'[t] = context[t]
         /\ context'[context[thread].stack] = EntryContext
         /\ context[thread].stack # thread =>
              /\ context'[thread].place = "load"
              /\ context'[thread].stack = context[thread].stack
              /\ context'[thread].index = context[thread].index
<1> DEFINE c == context[thread]
           d == [c EXCEPT !.place = "load"]
<1>1. context \in [Threads -> Contexts] /\ thread \in Threads /\ c \in Contexts
  BY DEF TypeOK, CreateFrame, At
<1>2. c.stack \in Threads
  BY <1>1, ContextFields, Constants
<1>3. d \in Contexts
  BY <1>1, ContextFields, PlaceNames DEF InCreate
<1>4. context' = [[context EXCEPT ![thread] = d] EXCEPT ![c.stack] = EntryContext]
  BY <1>1 DEF CreateFrame
<1>5. DOMAIN c = {"place", "enabled", "stack", "index"}
  BY <1>1 DEF Contexts
<1>6. d.place = "load" /\ d.stack = c.stack /\ d.index = c.index
  BY <1>5
<1>7. EntryContext \in Contexts
  BY NoContextIn
<1> HIDE DEF c, d
<1>8. context' \in [Threads -> Contexts]
  BY <1>1, <1>2, <1>3, <1>4, <1>7
<1>9. /\ \A t \in Threads \ {thread, c.stack} : context'[t] = context[t]
      /\ context'[c.stack] = EntryContext
      /\ c.stack # thread => context'[thread] = d
  BY <1>1, <1>2, <1>3, <1>4, <1>7
<1> QED
  BY <1>6, <1>8, <1>9 DEF c

\* The same for a step to another place that notes an index.
LEMMA NotedIndex ==
  ASSUME TypeOK, thread \in Threads, NEW p \in Places, NEW k \in Slots,
         context' = [context EXCEPT ![thread].place = p, ![thread].index = k]
  PROVE  /\ context' \in [Threads -> Contexts]
         /\ context'[thread].place = p
         /\ context'[thread].index = k
         /\ context'[thread].stack = context[thread].stack
         /\ \A t \in Threads \ {thread} : context'[t] = context[t]
<1> DEFINE c == [context[thread] EXCEPT !.place = p]
           d == [c EXCEPT !.index = k]
<1>1. context \in [Threads -> Contexts] /\ context[thread] \in Contexts
  BY DEF TypeOK
<1>2. c \in Contexts /\ d \in Contexts
  BY <1>1, ContextFields DEF Contexts
<1>3. context' = [[context EXCEPT ![thread] = c] EXCEPT ![thread] = d]
  BY <1>1
<1>4. DOMAIN context[thread] = {"place", "enabled", "stack", "index"}
  BY <1>1 DEF Contexts
<1>5. d.place = p /\ d.index = k /\ d.stack = context[thread].stack
  BY <1>4
<1> HIDE DEF c, d
<1> QED
  BY <1>1, <1>2, <1>3, <1>5

LEMMA WorkFields ==
  ASSUME TypeOK, Work
  PROVE  /\ thread \in Threads
         /\ Place(thread) \in {"entry", "code", "inner"}
         /\ context' \in [Threads -> Contexts]
         /\ context'[thread].place \in {"code", "inner"}
         /\ \A t \in Threads \ {thread} : context'[t] = context[t]
<1>1. \E p \in {"code", "inner"} : Go(p)
  BY DEF Work
<1>2. PICK p \in {"code", "inner"} : Go(p)
  BY <1>1
<1>3. thread \in Threads /\ Place(thread) \in {"entry", "code", "inner"}
  BY DEF Work, At, Place
<1>4. thread' = thread
  BY DEF Work
<1>5. p \in Places
  BY PlaceNames
<1> QED
  BY <1>2, <1>3, <1>4, <1>5, GoFields DEF Place

LEMMA EnableFields ==
  ASSUME TypeOK, interrupts_enable
  PROVE  /\ thread \in Threads
         /\ context' \in [Threads -> Contexts]
         /\ \A t \in Threads : /\ Place(t)' = Place(t)
                               /\ context'[t].stack = context[t].stack
                               /\ context'[t].index = context[t].index
<1> DEFINE c == [context[thread] EXCEPT !.enabled = TRUE]
<1>1. /\ context \in [Threads -> Contexts] /\ thread \in Threads
      /\ context[thread] \in Contexts
  BY DEF TypeOK, interrupts_enable, At
<1>2. c \in Contexts
  BY <1>1, ContextFields
<1>3. context' = [context EXCEPT ![thread] = c]
  BY <1>1 DEF interrupts_enable
<1>4. DOMAIN context[thread] = {"place", "enabled", "stack", "index"}
  BY <1>1 DEF Contexts
<1>5. /\ c.place = context[thread].place /\ c.stack = context[thread].stack
      /\ c.index = context[thread].index
  BY <1>4
<1> HIDE DEF c
<1> QED
  BY <1>1, <1>2, <1>3, <1>5 DEF Place

\* Counted, in the parts a step changes.
LEMMA CreatingFinite ==
  /\ IsFiniteSet(Creating) /\ Cardinality(Creating) \in Nat
  /\ IsFiniteSet(Creating') /\ Cardinality(Creating)' \in Nat
<1>1. IsFiniteSet(Threads)
  BY Constants, FS_Interval
<1>2. Creating \in SUBSET Threads /\ Creating' \in SUBSET Threads
  BY DEF Creating
<1>3. IsFiniteSet(Creating) /\ IsFiniteSet(Creating')
  BY <1>1, <1>2, FS_Subset
<1> QED
  BY <1>3, FS_CardinalityType

\* A creation that is about to store the count has a stack of its own.
LEMMA StoreBounded ==
  ASSUME TypeOK, Counted, CreateStore
  PROVE  /\ thread \in Threads /\ thread \in Creating
         /\ context[thread].index \in Nat
         /\ context[thread].index + Cardinality(Creating) <= allocated
         /\ context[thread].index + 1 <= allocated
<1>1. thread \in Threads /\ Place(thread) = "store"
  BY DEF CreateStore, At, Place
<1>2. thread \in Creating
  BY <1>1 DEF Creating, Holding
<1>3. context[thread].index \in Nat
  BY <1>1, IndexType
<1>4. Cardinality(Creating) # 0
  BY <1>2, CreatingFinite, FS_EmptySet
<1>5. /\ Cardinality(Creating) \in Nat /\ allocated \in Nat
      /\ context[thread].index + Cardinality(Creating) <= allocated
  BY <1>1, CreatingFinite, Numbers DEF Counted
<1> QED
  BY <1>1, <1>2, <1>3, <1>4, <1>5

LEMMA TypeStep == TypeOK /\ Counted /\ [Next]_vars => TypeOK'
<1> SUFFICES ASSUME TypeOK, Counted, [Next]_vars PROVE TypeOK'
  OBVIOUS
<1>1. CASE UNCHANGED vars
  BY <1>1 DEF TypeOK, vars, table, scheduler
<1>2. CASE Work
  BY <1>2, WorkFields DEF TypeOK, Work, table, scheduler
<1>3. CASE interrupts_enable
  BY <1>3, EnableFields DEF TypeOK, interrupts_enable, table, scheduler
<1>4. CASE tasking_init
  <2>1. EmptySlot \in [esp: Esps, active: BOOLEAN]
    BY TaskingAssumption DEF EmptySlot, NoEsp, Esps
  <2>2. g_tasks' \in [Slots -> [esp: Esps, active: BOOLEAN]]
    BY <1>4, <2>1 DEF tasking_init, TypeOK
  <2>3. context' \in [Threads -> Contexts] /\ waited' \in [Slots -> Nat]
    BY <1>4, NoContextIn DEF tasking_init, TypeOK
  <2>4. 0 \in 0 .. allocated /\ 0 \in Slots
    BY Constants, Numbers
  <2> QED
    BY <1>4, <2>2, <2>3, <2>4 DEF tasking_init, TypeOK
<1>5. CASE CallCreate
  <2>1. context' \in [Threads -> Contexts]
    BY <1>5, GoFields, PlaceNames DEF CallCreate, At, InCreate
  <2>2. misuse' \subseteq Misuses
    BY <1>5 DEF CallCreate, TypeOK, Misuses
  <2> QED
    BY <1>5, <2>1, <2>2 DEF CallCreate, TypeOK, table, scheduler
<1>6. CASE CreateGotStack
  <2>1. /\ thread \in Threads /\ "fill" \in Places /\ "code" \in Places
        /\ allocated \in 0 .. MaxStacks /\ MaxStacks \in Nat
    BY <1>6, PlaceNames, Constants DEF CreateGotStack, At, InCreate, TypeOK
  <2>2. context' \in [Threads -> Contexts] /\ allocated' \in 0 .. MaxStacks
    <3>1. CASE Go("code") /\ UNCHANGED allocated
      BY <3>1, <2>1, GoFields
    <3>2. CASE /\ allocated < MaxStacks
               /\ allocated' = allocated + 1
               /\ context' = [context EXCEPT ![thread].place = "fill",
                                             ![thread].stack = allocated']
      <4>1. allocated' \in 0 .. MaxStacks
        BY <3>2, <2>1
      <4> QED
        BY <3>2, <2>1, <4>1, GotStack
    <3> QED
      BY <1>6, <3>1, <3>2 DEF CreateGotStack
  <2>3. g_task_count \in 0 .. allocated'
    BY <1>6, Numbers DEF CreateGotStack
  <2> QED
    BY <1>6, <2>2, <2>3 DEF CreateGotStack, TypeOK, table, scheduler
<1>7. CASE CreateFill
  <2>1. context' \in [Threads -> Contexts]
    BY <1>7, NotedIndex, PlaceNames, Numbers DEF CreateFill, At, InCreate
  <2>2. g_tasks' \in [Slots -> [esp: Esps, active: BOOLEAN]]
    BY <1>7 DEF CreateFill, TypeOK
  <2> QED
    BY <1>7, <2>1, <2>2 DEF CreateFill, TypeOK, scheduler
<1>8. CASE CreateFrame
  <2>1. context[thread] \in Contexts
    BY <1>8 DEF CreateFrame, At, TypeOK
  <2>2. [stack |-> context[thread].stack, depth |-> 0] \in Esps
    <3>1. context[thread].stack \in 0 .. MaxStacks
      BY <2>1, ContextFields
    <3>2. context[thread].stack \in Threads \cup {Lost} /\ 0 \in 0 .. 3
      BY <3>1, Constants
    <3> QED
      BY <3>2 DEF Esps
  <2>3. g_tasks' \in [Slots -> [esp: Esps, active: BOOLEAN]]
    BY <1>8, <2>2 DEF CreateFrame, TypeOK
  <2> QED
    BY <1>8, <2>3, FrameFields DEF CreateFrame, TypeOK, scheduler
<1>9. CASE CreateLoad
  <2>1. context' \in [Threads -> Contexts]
    BY <1>9, NotedIndex, PlaceNames, Numbers DEF CreateLoad, At, InCreate
  <2> QED
    BY <1>9, <2>1 DEF CreateLoad, TypeOK, table, scheduler
<1>10. CASE CreateStore
  <2>1. context' \in [Threads -> Contexts]
    BY <1>10, GoFields, PlaceNames DEF CreateStore, At
  <2>2. context[thread].index \in Nat /\ context[thread].index + 1 <= allocated
    BY <1>10, StoreBounded
  <2>3. g_task_count' \in 0 .. allocated
    BY <1>10, <2>2, Numbers DEF CreateStore
  <2> QED
    BY <1>10, <2>1, <2>3 DEF CreateStore, TypeOK, scheduler
<1>11. CASE tasking_start
  <2>1. context' \in [Threads -> Contexts]
    BY <1>11, GoFields, PlaceNames DEF tasking_start, At, InStart
  <2>2. g_current_task' \in Slots
    BY <1>11, Constants DEF tasking_start, TypeOK
  <2>3. g_scheduler_started' \in BOOLEAN /\ g_bootstrap_switch_pending' \in BOOLEAN
    <3>1. StartPending \in BOOLEAN
      BY DEF StartPending
    <3> QED
      BY <1>11, <3>1 DEF tasking_start, TypeOK
  <2> QED
    BY <1>11, <2>1, <2>2, <2>3 DEF tasking_start, TypeOK, table
<1>12. CASE irq0_handler
  <2>1. misuse' \subseteq Misuses
    BY <1>12 DEF irq0_handler, TypeOK, Misuses
  <2> QED
    BY <1>12, <2>1, ScheduleType DEF irq0_handler, TypeOK
<1> QED
  BY <1>1, <1>2, <1>3, <1>4, <1>5, <1>6, <1>7, <1>8, <1>9, <1>10, <1>11, <1>12
  DEF Next, task_create

\* A step that takes no stack, and stores no count but zero.
LEMMA CountedKept ==
  ASSUME TypeOK, Counted,
         allocated' = allocated, g_task_count' \in {0, g_task_count},
         \A t \in Threads : context'[t].place \in Holding => Place(t) \in Holding,
         \A t \in Threads : context'[t].place = "store" =>
           \/ context'[t].index = g_task_count
           \/ Place(t) = "store" /\ context'[t].index = context[t].index
  PROVE  Counted'
<1>1. Creating' \in SUBSET Creating
  BY DEF Creating, Place
<1>2. /\ Cardinality(Creating) \in Nat /\ Cardinality(Creating)' \in Nat
      /\ Cardinality(Creating)' <= Cardinality(Creating)
  BY <1>1, CreatingFinite, FS_Subset
<1>3. /\ allocated \in Nat /\ g_task_count \in Nat
      /\ g_task_count + Cardinality(Creating) <= allocated
  BY Numbers DEF Counted
<1>4. g_task_count' + Cardinality(Creating)' <= allocated'
  BY <1>2, <1>3
<1>5. ASSUME NEW t \in Threads, Place(t)' = "store"
      PROVE  context'[t].index + Cardinality(Creating)' <= allocated'
  <2>1. context'[t].place = "store"
    BY <1>5 DEF Place
  <2>2. CASE context'[t].index = g_task_count
    BY <1>2, <1>3, <2>2
  <2>3. CASE Place(t) = "store" /\ context'[t].index = context[t].index
    <3>1. context[t].index + Cardinality(Creating) <= allocated
      BY <2>3 DEF Counted
    <3>2. context[t].index \in Nat
      BY IndexType
    <3> QED
      BY <1>2, <1>3, <2>3, <3>1, <3>2
  <2> QED
    BY <1>5, <2>1, <2>2, <2>3
<1> QED
  BY <1>4, <1>5 DEF Counted

\* kmalloc hands out a stack: one more, for one more creation.
LEMMA CountedGotStack ==
  ASSUME TypeOK, Counted, CreateGotStack
  PROVE  Counted'
<1>1. /\ thread \in Threads /\ context[thread].place = "kmalloc"
      /\ g_task_count' = g_task_count /\ "fill" \in Places /\ "code" \in Places
      /\ allocated \in Nat /\ MaxStacks \in Nat /\ g_task_count \in Nat
  BY PlaceNames, Numbers DEF CreateGotStack, At, InCreate, table
<1>2. CASE Go("code") /\ UNCHANGED allocated
  <2>1. /\ context'[thread].place = "code"
        /\ \A t \in Threads \ {thread} : context'[t] = context[t]
    BY <1>1, <1>2, GoFields
  <2> QED
    BY <1>1, <1>2, <2>1, CountedKept DEF Holding, Place
<1>3. CASE /\ allocated < MaxStacks
           /\ allocated' = allocated + 1
           /\ context' = [context EXCEPT ![thread].place = "fill",
                                         ![thread].stack = allocated']
  <2>1. allocated' \in 0 .. MaxStacks
    BY <1>1, <1>3
  <2>2. /\ context'[thread].place = "fill"
        /\ \A t \in Threads \ {thread} : context'[t] = context[t]
    BY <1>1, <1>3, <2>1, GotStack
  <2>3. Creating' = Creating \cup {thread} /\ thread \notin Creating
    BY <1>1, <2>2 DEF Creating, Holding, Place
  <2>4. /\ Cardinality(Creating) \in Nat
        /\ Cardinality(Creating)' = Cardinality(Creating) + 1
    BY <2>3, CreatingFinite, FS_AddElement
  <2>5. g_task_count' + Cardinality(Creating)' <= allocated'
    BY <1>1, <1>3, <2>4 DEF Counted
  <2>6. ASSUME NEW t \in Threads, Place(t)' = "store"
        PROVE  context'[t].index + Cardinality(Creating)' <= allocated'
    <3>1. context'[t].place = "store"
      BY <2>6 DEF Place
    <3>2. t # thread /\ context'[t] = context[t]
      BY <2>2, <3>1
    <3>3. context[t].index \in Nat
      BY IndexType
    <3>4. context[t].index + Cardinality(Creating) <= allocated
      BY <3>1, <3>2 DEF Counted, Place
    <3> QED
      BY <1>1, <1>3, <2>4, <3>2, <3>3, <3>4
  <2> QED
    BY <2>5, <2>6 DEF Counted
<1> QED
  BY <1>2, <1>3 DEF CreateGotStack

\* A creation stores one more than it has loaded, and is one less.
LEMMA CountedStore ==
  ASSUME TypeOK, Counted, CreateStore
  PROVE  Counted'
<1>1. /\ thread \in Threads /\ thread \in Creating
      /\ context[thread].index \in Nat
      /\ context[thread].index + Cardinality(Creating) <= allocated
  BY StoreBounded
<1>2. /\ context'[thread].place = "code"
      /\ \A t \in Threads \ {thread} : context'[t] = context[t]
  BY <1>1, GoFields, PlaceNames DEF CreateStore
<1>3. /\ g_task_count' = context[thread].index + 1 /\ allocated' = allocated
      /\ allocated \in Nat
  BY Numbers DEF CreateStore
<1>4. Creating' = Creating \ {thread}
  BY <1>1, <1>2 DEF Creating, Holding, Place
<1>5. /\ Cardinality(Creating) \in Nat
      /\ Cardinality(Creating)' = Cardinality(Creating) - 1
  BY <1>1, <1>4, CreatingFinite, FS_RemoveElement
<1>6. g_task_count' + Cardinality(Creating)' <= allocated'
  BY <1>1, <1>3, <1>5
<1>7. ASSUME NEW t \in Threads, Place(t)' = "store"
      PROVE  context'[t].index + Cardinality(Creating)' <= allocated'
  <2>1. context'[t].place = "store"
    BY <1>7 DEF Place
  <2>2. t # thread /\ context'[t] = context[t]
    BY <1>2, <2>1
  <2>3. context[t].index \in Nat
    BY IndexType
  <2>4. context[t].index + Cardinality(Creating) <= allocated
    BY <2>1, <2>2 DEF Counted, Place
  <2> QED
    BY <1>3, <1>5, <2>2, <2>3, <2>4
<1> QED
  BY <1>6, <1>7 DEF Counted

LEMMA CountedStep == TypeOK /\ Counted /\ [Next]_vars => Counted'
<1> SUFFICES ASSUME TypeOK, Counted, [Next]_vars PROVE Counted'
  OBVIOUS
<1>1. CASE UNCHANGED vars
  BY <1>1, CountedKept DEF vars, table, scheduler, Place
<1>2. CASE Work
  <2>1. UNCHANGED <<allocated, g_task_count>>
    BY <1>2 DEF Work, table
  <2> QED
    BY <1>2, <2>1, WorkFields, CountedKept DEF Place, Holding
<1>3. CASE interrupts_enable
  <2>1. UNCHANGED <<allocated, g_task_count>>
    BY <1>3 DEF interrupts_enable, table
  <2> QED
    BY <1>3, <2>1, EnableFields, CountedKept DEF Place
<1>4. CASE tasking_init
  <2>1. allocated' = allocated /\ g_task_count' = 0
    BY <1>4 DEF tasking_init
  <2>2. \A t \in Threads : context'[t].place \notin Holding
    <3>1. NoContext.place = "none"
      BY DEF NoContext
    <3> QED
      BY <1>4, <3>1 DEF tasking_init, At, Holding
  <2> QED
    BY <2>1, <2>2, CountedKept DEF Holding
<1>5. CASE CallCreate
  <2>1. /\ context'[thread].place = "kmalloc" /\ thread \in Threads
        /\ \A t \in Threads \ {thread} : context'[t] = context[t]
    BY <1>5, GoFields, PlaceNames DEF CallCreate, At, InCreate
  <2>2. UNCHANGED <<allocated, g_task_count>>
    BY <1>5 DEF CallCreate, table
  <2> QED
    BY <2>1, <2>2, CountedKept DEF Place, Holding
<1>6. CASE CreateGotStack
  BY <1>6, CountedGotStack
<1>7. CASE CreateFill
  <2>1. /\ thread \in Threads /\ context[thread].place = "fill"
        /\ context'[thread].place = "frame"
        /\ \A t \in Threads \ {thread} : context'[t] = context[t]
    BY <1>7, NotedIndex, PlaceNames, Numbers DEF CreateFill, At, InCreate
  <2>2. UNCHANGED <<allocated, g_task_count>>
    BY <1>7 DEF CreateFill
  <2> QED
    BY <2>1, <2>2, CountedKept DEF Place, Holding
<1>8. CASE CreateFrame
  <2> DEFINE s == context[thread].stack
  <2>1. UNCHANGED <<allocated, g_task_count>>
    BY <1>8 DEF CreateFrame
  <2>2. thread \in Threads /\ context[thread].place = "frame"
    BY <1>8 DEF CreateFrame, At
  <2>3. EntryContext.place = "entry"
    BY DEF EntryContext, NoContext
  <2>4. /\ context'[s].place = "entry"
        /\ \A t \in Threads \ {thread, s} : context'[t] = context[t]
        /\ s # thread => context'[thread].place = "load"
    BY <1>8, <2>3, FrameFields
  <2> HIDE DEF s
  <2> QED
    BY <2>1, <2>2, <2>4, CountedKept DEF Place, Holding
<1>9. CASE CreateLoad
  <2>1. /\ thread \in Threads /\ context[thread].place = "load"
        /\ context'[thread].place = "store" /\ context'[thread].index = g_task_count
        /\ \A t \in Threads \ {thread} : context'[t] = context[t]
    BY <1>9, NotedIndex, PlaceNames, Numbers DEF CreateLoad, At, InCreate
  <2>2. UNCHANGED <<allocated, g_task_count>>
    BY <1>9 DEF CreateLoad, table
  <2> QED
    BY <2>1, <2>2, CountedKept DEF Place, Holding
<1>10. CASE CreateStore
  BY <1>10, CountedStore
<1>11. CASE tasking_start
  <2>1. /\ thread \in Threads
        /\ context'[thread].place \in {"code", "start_current", "start_pending"}
        /\ \A t \in Threads \ {thread} : context'[t] = context[t]
    BY <1>11, GoFields, PlaceNames DEF tasking_start, At, InStart
  <2>2. UNCHANGED <<allocated, g_task_count>>
    BY <1>11 DEF tasking_start, table
  <2> QED
    BY <2>1, <2>2, CountedKept DEF Place, Holding
<1>12. CASE irq0_handler
  <2>1. UNCHANGED <<allocated, context>>
    BY <1>12 DEF irq0_handler
  <2>2. g_task_count' = g_task_count
    BY <1>12, ScheduleType DEF irq0_handler
  <2> QED
    BY <2>1, <2>2, CountedKept DEF Place
<1> QED
  BY <1>1, <1>2, <1>3, <1>4, <1>5, <1>6, <1>7, <1>8, <1>9, <1>10, <1>11, <1>12
  DEF Next, task_create

LEMMA InitCounted == Init => Counted
<1> SUFFICES ASSUME Init PROVE Counted
  OBVIOUS
<1>1. [NoContext EXCEPT !.place = "code"].place = "code" /\ NoContext.place = "none"
  BY DEF NoContext
<1>2. \A t \in Threads : Place(t) \in {"code", "none"}
  BY <1>1 DEF Init, Place
<1>3. Creating = {}
  BY <1>2 DEF Creating, Holding
<1>4. Cardinality(Creating) = 0
  BY <1>3, FS_EmptySet
<1> QED
  BY <1>2, <1>4 DEF Init, Counted

\* TypeOK, for every table and every number of stacks: however calls of
\* task_create overlap, the count never exceeds the number of stacks kmalloc
\* has handed out, so no slot they write or the scheduler reads is further
\* away than that (tasking.cpp:36-113).
THEOREM TypeCorrect == Spec => []TypeOK
<1>1. Init => TypeOK /\ Counted
  BY InitType, InitCounted
<1>2. TypeOK /\ Counted /\ [Next]_vars => (TypeOK /\ Counted)'
  BY TypeStep, CountedStep
<1> QED
  BY <1>1, <1>2, PTL DEF Spec

-----------------------------------------------------------------------------

(* The table is not left. *)

LEMMA InitAlone == Init => Alone
<1> SUFFICES ASSUME Init PROVE OneCreator /\ TableEnd
  BY InitType, InitCounted DEF Alone
<1>1. [NoContext EXCEPT !.place = "code"].place = "code" /\ NoContext.place = "none"
  BY DEF NoContext
<1>2. \A t \in Threads : Place(t) \in {"code", "none"}
  BY <1>1 DEF Init, Place
<1>3. "code" \notin InCreate /\ "none" \notin InCreate
  BY DEF InCreate
<1>4. OneCreator
  BY <1>2, <1>3, Constants DEF Init, OneCreator
<1> QED
  BY <1>4, Constants DEF Init, TableEnd

\* Which places belong to a creation.
LEMMA PlacesApart ==
  /\ \A p \in {"none", "entry", "code", "inner", "start_current", "start_pending"} :
       p \notin InCreate /\ p \notin {"frame", "load", "store"}
  /\ \A p \in InStart : p \notin InCreate
  /\ {"kmalloc", "fill", "frame", "load", "store"} \subseteq InCreate
BY DEF InCreate, InStart

LEMMA AloneStep == Alone /\ [Next]_vars => Alone'
<1> SUFFICES ASSUME Alone, [Next]_vars PROVE OneCreator' /\ TableEnd'
  BY TypeStep, CountedStep DEF Alone
<1>1. TypeOK /\ OneCreator /\ TableEnd
  BY DEF Alone
<1>0. /\ g_task_count \in Nat /\ g_current_task \in Nat /\ MAX_TASKS \in Nat
      /\ 0 < MAX_TASKS /\ g_task_count \in Slots
      /\ \A i \in Slots : i \in Nat /\ (i < MAX_TASKS \/ i >= MAX_TASKS)
  BY <1>1, Numbers, TaskingAssumption
<1>2. CASE UNCHANGED vars
  BY <1>1, <1>2 DEF OneCreator, TableEnd, vars, table, scheduler, Place
<1>3. CASE Work
  <2>1. \A t \in Threads : Place(t)' \in InCreate => t # thread
    BY <1>1, <1>3, WorkFields, PlacesApart DEF Place
  <2> QED
    BY <1>1, <1>3, <2>1, WorkFields DEF Work, OneCreator, TableEnd, table, scheduler,
       Place, InCreate
<1>4. CASE interrupts_enable
  BY <1>1, <1>4, EnableFields DEF interrupts_enable, OneCreator, TableEnd, table,
     scheduler, Place
<1>5. CASE tasking_init
  <2>1. \A t \in Threads : Place(t)' \notin InCreate
    <3>1. NoContext.place = "none"
      BY DEF NoContext
    <3> QED
      BY <1>5, <3>1, PlacesApart DEF tasking_init, Place, At
  <2>2. \A t \in Threads : Place(t)' \notin {"frame", "load", "store"}
    BY <2>1, PlacesApart
  <2>3. g_task_count' <= MAX_TASKS /\ g_current_task' < MAX_TASKS
    BY <1>5, Constants DEF tasking_init
  <2>4. \A i \in Slots : i >= MAX_TASKS => g_tasks'[i] = g_tasks[i]
    BY <1>0, <1>5 DEF tasking_init
  <2> QED
    BY <1>1, <1>5, <2>1, <2>2, <2>3, <2>4 DEF tasking_init, OneCreator, TableEnd
<1>6. CASE CallCreate
  <2>1. /\ thread \in Threads /\ context'[thread].place = "kmalloc"
        /\ \A t \in Threads \ {thread} : context'[t] = context[t]
    BY <1>1, <1>6, GoFields, PlaceNames DEF CallCreate, At, InCreate
  <2>2. "nested_create" \notin misuse' =>
          /\ "nested_create" \notin misuse
          /\ \A t \in Threads \ {thread} : Place(t) \notin InCreate
    BY <1>6 DEF CallCreate, Place
  <2>3. g_task_count < MAX_TASKS
    BY <1>0, <1>6 DEF CallCreate, CreateRefused
  <2> QED
    BY <1>1, <1>6, <2>1, <2>2, <2>3 DEF CallCreate, OneCreator, TableEnd, table,
       scheduler, Place
<1>7. CASE CreateGotStack
  <2>1. /\ thread \in Threads /\ context[thread].place = "kmalloc"
        /\ "fill" \in Places /\ "code" \in Places
        /\ allocated \in 0 .. MaxStacks /\ MaxStacks \in Nat
    BY <1>1, <1>7, PlaceNames, Constants DEF CreateGotStack, At, InCreate, TypeOK
  <2>2. /\ context'[thread].place \in {"fill", "code"}
        /\ \A t \in Threads \ {thread} : context'[t] = context[t]
    <3>1. CASE Go("code") /\ UNCHANGED allocated
      BY <1>1, <3>1, <2>1, GoFields
    <3>2. CASE /\ allocated < MaxStacks
               /\ allocated' = allocated + 1
               /\ context' = [context EXCEPT ![thread].place = "fill",
                                             ![thread].stack = allocated']
      <4>1. allocated' \in 0 .. MaxStacks
        BY <3>2, <2>1
      <4> QED
        BY <1>1, <3>2, <2>1, <4>1, GotStack
    <3> QED
      BY <1>7, <3>1, <3>2 DEF CreateGotStack
  <2> QED
    BY <1>1, <1>7, <2>1, <2>2, PlacesApart DEF CreateGotStack, OneCreator, TableEnd,
       table, scheduler, Place
<1>8. CASE CreateFill
  <2>1. /\ thread \in Threads /\ context[thread].place = "fill"
        /\ context'[thread].place = "frame" /\ context'[thread].index = g_task_count
        /\ \A t \in Threads \ {thread} : context'[t] = context[t]
    BY <1>0, <1>1, <1>8, NotedIndex, PlaceNames DEF CreateFill, At, InCreate
  <2>2. "nested_create" \notin misuse => g_task_count < MAX_TASKS
    BY <1>1, <2>1, PlacesApart DEF OneCreator, Place
  <2>3. "nested_create" \notin misuse =>
          \A i \in Slots : i >= MAX_TASKS => g_tasks'[i] = g_tasks[i]
    BY <1>0, <1>1, <1>8, <2>2 DEF CreateFill, TypeOK
  <2> QED
    BY <1>1, <1>8, <2>1, <2>3, PlacesApart, ZenonT(60) DEF CreateFill, OneCreator,
       TableEnd, scheduler, Place
<1>9. CASE CreateFrame
  <2> DEFINE s == context[thread].stack
  <2>1. thread \in Threads /\ context[thread].place = "frame"
    BY <1>9 DEF CreateFrame, At
  <2>2. /\ s \in Threads /\ context'[s].place = "entry"
        /\ \A t \in Threads \ {thread, s} : context'[t] = context[t]
        /\ s # thread => /\ context'[thread].place = "load"
                         /\ context'[thread].index = context[thread].index
    <3>1. EntryContext.place = "entry"
      BY DEF EntryContext, NoContext
    <3>2. context[thread].stack \in 0 .. MaxStacks
      BY <1>1, <2>1, ContextFields DEF TypeOK
    <3> QED
      BY <1>1, <1>9, <3>1, <3>2, FrameFields, Constants
  <2>3. "nested_create" \notin misuse =>
          context[thread].index = g_task_count /\ g_task_count < MAX_TASKS
    BY <1>1, <2>1, PlacesApart DEF OneCreator, Place
  <2>4. "nested_create" \notin misuse =>
          \A i \in Slots : i >= MAX_TASKS => g_tasks'[i] = g_tasks[i]
    BY <1>0, <1>1, <1>9, <2>3 DEF CreateFrame, TypeOK
  <2>5. "nested_create" \notin misuse =>
          \A t \in Threads : Place(t)' \in InCreate => t = thread /\ s # thread
    BY <1>1, <2>1, <2>2, PlacesApart DEF OneCreator, Place
  <2> HIDE DEF s
  <2>6. UNCHANGED <<g_task_count, g_current_task, misuse>>
    BY <1>9 DEF CreateFrame, scheduler
  <2>7. TableEnd'
    BY <1>1, <2>4, <2>6 DEF TableEnd
  <2> QED
    BY <1>1, <2>2, <2>3, <2>5, <2>6, <2>7, PlacesApart DEF OneCreator, Place
<1>10. CASE CreateLoad
  <2>1. /\ thread \in Threads /\ context[thread].place = "load"
        /\ context'[thread].place = "store" /\ context'[thread].index = g_task_count
        /\ \A t \in Threads \ {thread} : context'[t] = context[t]
    BY <1>0, <1>1, <1>10, NotedIndex, PlaceNames DEF CreateLoad, At, InCreate
  <2>2. UNCHANGED <<g_tasks, g_task_count, g_current_task, misuse>>
    BY <1>10 DEF CreateLoad, table, scheduler
  <2> QED
    BY <1>1, <2>1, <2>2, PlacesApart DEF OneCreator, TableEnd, Place
<1>11. CASE CreateStore
  <2>1. /\ thread \in Threads /\ context[thread].place = "store"
        /\ context'[thread].place = "code"
        /\ \A t \in Threads \ {thread} : context'[t] = context[t]
    BY <1>1, <1>11, GoFields, PlaceNames DEF CreateStore, At
  <2>2. "nested_create" \notin misuse =>
          g_task_count' = g_task_count + 1 /\ g_task_count < MAX_TASKS
    BY <1>1, <1>11, <2>1, PlacesApart DEF CreateStore, OneCreator, Place
  <2>3. "nested_create" \notin misuse =>
          /\ g_task_count' <= MAX_TASKS
          /\ \A t \in Threads : Place(t)' \notin InCreate
          /\ \A t \in Threads : Place(t)' \notin {"frame", "load", "store"}
    BY <1>0, <1>1, <2>1, <2>2, PlacesApart DEF OneCreator, Place
  <2> QED
    BY <1>1, <1>11, <2>3 DEF CreateStore, OneCreator, TableEnd, scheduler
<1>12. CASE tasking_start
  <2>1. /\ thread \in Threads
        /\ context'[thread].place \in {"code", "start_current", "start_pending"}
        /\ \A t \in Threads \ {thread} : context'[t] = context[t]
    BY <1>1, <1>12, GoFields, PlaceNames DEF tasking_start, At, InStart
  <2>2. g_current_task' \in {0, g_current_task}
    BY <1>12 DEF tasking_start
  <2> QED
    BY <1>0, <1>1, <1>12, <2>1, <2>2, PlacesApart DEF tasking_start,
       OneCreator, TableEnd, table, Place
<1>13. CASE irq0_handler
  <2>1. UNCHANGED g_task_count
    BY <1>13 DEF irq0_handler, tasking_schedule, FirstSwitch, Switch, table
  <2>2. "nested_create" \notin misuse => TableEnd'
    <3>1. CASE UNCHANGED <<table, g_current_task>>
      BY <1>1, <1>13, <3>1 DEF TableEnd, irq0_handler, table
    <3>2. CASE Switch(Esp(thread))
      <4> SUFFICES ASSUME "nested_create" \notin misuse
                   PROVE  /\ \A i \in Slots : i >= MAX_TASKS => g_tasks'[i] = g_tasks[i]
                          /\ g_current_task' < MAX_TASKS
        BY <1>1 DEF TableEnd
      <4>1. g_current_task < MAX_TASKS /\ g_task_count <= MAX_TASKS
        BY <1>1 DEF TableEnd, OneCreator
      <4>2. \A i \in Slots : i >= MAX_TASKS => g_tasks'[i] = g_tasks[i]
        BY <1>0, <1>1, <3>2, <4>1 DEF Switch, SaveEsp, TypeOK
      <4>3. g_current_task' = g_current_task \/ g_current_task' \in NextTask
        BY <3>2 DEF Switch
      <4> QED
        BY <1>0, <1>1, <4>1, <4>2, <4>3, TriedInTable DEF Slots
    <3> QED
      BY <1>13, <3>1, <3>2 DEF irq0_handler, tasking_schedule, FirstSwitch, scheduler
  <2> QED
    BY <1>1, <1>13, <2>1, <2>2 DEF irq0_handler, OneCreator, TableEnd, Place
<1> QED
  BY <1>2, <1>3, <1>4, <1>5, <1>6, <1>7, <1>8, <1>9, <1>10, <1>11, <1>12, <1>13
  DEF Next, task_create

\* Whatever the tick interrupts, only overlapping calls of task_create let the
\* count pass the table's end or write anything from there on
\* (tasking.cpp:39-74).
THEOREM TableNeverLeft == Spec => []StaysInTable
<1>1. Alone => StaysInTable
  <2> SUFFICES ASSUME Alone, "nested_create" \notin misuse
               PROVE  /\ ~(g_task_count > MAX_TASKS)
                      /\ \A i \in Slots : i >= MAX_TASKS => g_tasks[i] = EmptySlot
    BY DEF StaysInTable
  <2>1. g_task_count \in Nat /\ MAX_TASKS \in Nat
    BY Numbers DEF Alone
  <2> QED
    BY <2>1 DEF Alone, OneCreator, TableEnd
<1> QED
  BY <1>1, InitAlone, AloneStep, PTL DEF Spec

-----------------------------------------------------------------------------

(* Tasks, stacks and turns, as long as nothing is misused. *)

\* What is known before a step that is no misuse.
Before == Alone /\ Sound /\ misuse = {}

LEMMA BeforeFacts ==
  ASSUME Before
  PROVE  /\ TypeOK /\ BootPhase /\ StacksOwned /\ SlotsHold /\ TurnsInOrder
         /\ g_task_count \in Nat /\ g_current_task \in Nat /\ allocated \in Nat
         /\ MAX_TASKS \in Nat /\ MaxStacks \in Nat /\ allocated <= MaxStacks
         /\ g_task_count <= MAX_TASKS
         /\ \A i \in Slots : i >= MAX_TASKS => g_tasks[i] = EmptySlot
         /\ thread \in Threads
         /\ \A t, u \in Threads : Place(t) \in InCreate /\ Place(u) \in InCreate => t = u
         /\ \A t \in Threads : Place(t) \in InCreate => g_task_count < MAX_TASKS
         /\ \A t \in Threads : Place(t) \in {"frame", "load", "store"}
                                 => context[t].index = g_task_count
<1>1. "nested_create" \notin misuse
  BY DEF Before
<1>2. /\ g_task_count \in Nat /\ g_current_task \in Nat /\ allocated \in Nat
      /\ MAX_TASKS \in Nat /\ MaxStacks \in Nat /\ allocated <= MaxStacks
  BY Numbers DEF Before, Alone
<1>3. TypeOK /\ OneCreator /\ TableEnd
  BY DEF Before, Alone
<1>4. BootPhase /\ StacksOwned /\ SlotsHold /\ TurnsInOrder
  BY DEF Before, Sound
<1> QED
  BY <1>1, <1>2, <1>3, <1>4 DEF OneCreator, TableEnd, SlotsHold

\* A step of the running thread that leaves the stack pointers alone.
LEMMA SlotsKept ==
  ASSUME Before,
         thread' = thread, g_task_count' = g_task_count, g_current_task' = g_current_task,
         \A i \in Slots : /\ g_tasks'[i].esp = g_tasks[i].esp
                          /\ g_tasks[i].active => g_tasks'[i].active,
         \A t \in Threads \ {thread} : context'[t] = context[t],
         Place(thread) # "none", context'[thread].place # "none",
         Place(thread) \in {"load", "store"} => context'[thread].place \in {"load", "store"}
  PROVE  SlotsHold'
<1>1. SlotsHold
  BY BeforeFacts
<1>2. \A i \in Slots : StackOf(i)' = StackOf(i) /\ (Filled(i)' <=> Filled(i))
  BY DEF StackOf, Filled
<1>3. \A t \in Threads : t # thread => Place(t)' = Place(t) /\ Esp(t)' = Esp(t)
  BY DEF Place, Esp
<1>4. Place(thread)' # "none"
  BY DEF Place
<1>5. \A t \in Threads : Place(t)' = "none" => Place(t) = "none"
  BY <1>3, <1>4
<1>6. \A i \in Slots : Filled(i)' =>
        /\ g_tasks'[i].active
        /\ Place(StackOf(i))' # "none"
        /\ StackOf(i)' # thread' => g_tasks'[i].esp = Esp(StackOf(i))'
  <2> SUFFICES ASSUME NEW i \in Slots, Filled(i)
               PROVE  /\ g_tasks'[i].active
                      /\ Place(StackOf(i))' # "none"
                      /\ StackOf(i)' # thread' => g_tasks'[i].esp = Esp(StackOf(i))'
    BY <1>2
  <2> DEFINE s == StackOf(i)
  <2>1. s \in Threads
    BY DEF Filled, Threads
  <2>2. /\ g_tasks[i].active /\ Place(s) # "none"
        /\ s # thread => g_tasks[i].esp = Esp(s)
    BY <1>1 DEF SlotsHold
  <2>3. s' = s
    BY <1>2
  <2>4. /\ Place(s)' = context'[s].place
        /\ Esp(s)' = [stack |-> s, depth |-> Depth(context'[s].place)]
    BY <2>3 DEF Place, Esp
  <2>5. context'[s].place # "none"
    BY <1>4, <2>1, <2>2 DEF Place
  <2>6. s # thread => Esp(s)' = Esp(s)
    BY <2>1, <2>4 DEF Esp
  <2> QED
    BY <2>2, <2>3, <2>4, <2>5, <2>6
<1>7. \A i, j \in Slots : Filled(i)' /\ StackOf(i)' = StackOf(j)' => i = j
  BY <1>1, <1>2 DEF SlotsHold
<1>8. /\ \A i \in Slots : i < g_task_count' => Filled(i)'
      /\ \A i \in Slots : i > g_task_count' => ~Filled(i)'
  BY <1>1, <1>2 DEF SlotsHold
<1>9. \A i \in Slots : i = g_task_count' /\ Filled(i)' =>
        \E t \in Threads : Place(t)' \in {"load", "store"}
  <2>1. \A t \in Threads : Place(t) \in {"load", "store"} => Place(t)' \in {"load", "store"}
    BY <1>3 DEF Place
  <2> QED
    BY <1>1, <1>2, <2>1 DEF SlotsHold
<1>10. \A s \in Stacks : Place(s)' # "none" => \E i \in Slots : StackOf(i)' = s
  <2>1. \A s \in Stacks : Place(s)' # "none" => Place(s) # "none"
    BY <1>3 DEF Threads
  <2> QED
    BY <1>1, <1>2, <2>1 DEF SlotsHold
<1>11. thread' \in Threads /\ (thread' \in Stacks => StackOf(g_current_task)' = thread')
  BY <1>1, <1>2, BeforeFacts DEF SlotsHold, TypeOK
<1> QED
  BY <1>6, <1>7, <1>8, <1>9, <1>10, <1>11 DEF SlotsHold

\* A step of the running thread that leaves the scheduler alone, and is not in
\* the middle of tasking_start.
LEMMA PhaseKept ==
  ASSUME Before,
         UNCHANGED <<g_scheduler_started, g_bootstrap_switch_pending, g_current_task>>,
         thread' = thread, g_task_count' \in Nat, g_task_count' >= g_task_count,
         \A t \in Threads : Place(t) \in InStart <=> context'[t].place \in InStart,
         \A s \in Stacks : s # thread /\ Place(s) \in {"none", "entry"}
                             => context'[s].place \in {"none", "entry"},
         \A i \in Slots : waited[i] = 0 => waited'[i] = 0
  PROVE  BootPhase'
<1>1. BootPhase /\ g_task_count \in Nat /\ g_current_task \in Nat
  BY BeforeFacts
<1>2. Fresh => Fresh'
  BY Constants DEF Fresh, Place
<1>3. /\ \A t \in Threads : Place(t)' \in InStart <=> Place(t) \in InStart
      /\ Place(Boot)' \in InStart <=> Place(Boot) \in InStart
  BY DEF Place, Threads
<1> QED
  BY <1>1, <1>2, <1>3 DEF BootPhase

\* A step of the running thread after which it holds no stack.
LEMMA StacksKept ==
  ASSUME Before, UNCHANGED <<g_tasks, g_task_count>>,
         allocated' \in Nat, allocated' >= allocated,
         thread \in Stacks => thread <= allocated,
         \A t \in Threads \ {thread} : context'[t] = context[t],
         Place(thread) # "none",
         context'[thread].place \notin {"fill", "frame", "load", "store"}
  PROVE  StacksOwned'
<1>1. StacksOwned /\ allocated \in Nat /\ thread \in Threads
  BY BeforeFacts
<1>2. \A s \in Stacks : s > allocated' => Place(s)' = "none"
  <2>1. \A s \in Stacks : s \in Nat /\ s \in Threads
    BY Constants
  <2> QED
    BY <1>1, <2>1 DEF StacksOwned, Place
<1>3. \A t \in Threads : Place(t)' \in {"fill", "frame", "load", "store"} =>
        t # thread /\ Place(t)' = Place(t) /\ context'[t] = context[t]
  BY <1>1 DEF Place
<1>4. ASSUME NEW t \in Threads, Place(t)' \in {"fill", "frame"}
      PROVE  /\ context'[t].stack \in Stacks
             /\ context'[t].stack <= allocated'
             /\ Place(context[t].stack)' = "none"
  <2> DEFINE s == context[t].stack
  <2>1. t # thread /\ Place(t) \in {"fill", "frame"} /\ context'[t] = context[t]
    BY <1>3, <1>4
  <2>2. s \in Stacks /\ s <= allocated /\ Place(s) = "none"
    BY <1>1, <2>1 DEF StacksOwned
  <2>3. s \in Nat /\ s \in Threads
    BY <2>2, Constants
  <2>4. Place(context[t].stack)' = context'[s].place
    BY <2>1 DEF Place
  <2> QED
    BY <1>1, <2>1, <2>2, <2>3, <2>4 DEF Place
<1> QED
  BY <1>1, <1>2, <1>3, <1>4 DEF StacksOwned, StackOf

LEMMA TurnsKept ==
  ASSUME Before, UNCHANGED <<waited, g_task_count, g_current_task>>
  PROVE  TurnsInOrder'
BY BeforeFacts DEF TurnsInOrder, Behind

\* The running thread has a stack that was handed out.
LEMMA ThreadAllocated ==
  ASSUME Before, thread \in Stacks
  PROVE  /\ thread <= allocated
         /\ g_scheduler_started /\ ~g_bootstrap_switch_pending
         /\ StackOf(g_current_task) = thread
         /\ g_current_task < g_task_count /\ g_current_task \in Slots
         /\ Place(thread) # "none"
<1>1. /\ StacksOwned /\ BootPhase /\ SlotsHold /\ g_current_task \in Slots
      /\ allocated \in Nat /\ thread \in Nat /\ Boot \notin Stacks
  BY BeforeFacts, Constants DEF TypeOK
<1>2. g_scheduler_started /\ ~g_bootstrap_switch_pending
  BY <1>1 DEF BootPhase, Fresh
<1>3. StackOf(g_current_task) = thread
  BY <1>1 DEF SlotsHold
<1>4. Place(thread) # "none"
  BY <1>1, <1>3 DEF SlotsHold, Filled
<1> QED
  BY <1>1, <1>2, <1>3, <1>4 DEF StacksOwned, BootPhase

\* What the running thread has when it is at some place.
LEMMA Running ==
  ASSUME Before, NEW p, At(p), p # "none"
  PROVE  /\ thread \in Threads /\ Place(thread) = p /\ Place(thread) # "none"
         /\ thread \in Stacks => thread <= allocated
         /\ allocated \in Nat /\ allocated >= allocated
         /\ g_task_count \in Nat /\ g_task_count >= g_task_count
BY BeforeFacts, ThreadAllocated DEF At, Place

LEMMA WorkSound ==
  ASSUME Before, Work PROVE Sound'
<1>1. PICK p \in {"entry", "code", "inner"} : At(p)
  BY DEF Work
<1>2. /\ thread \in Threads /\ Place(thread) # "none"
      /\ thread \in Stacks => thread <= allocated
      /\ allocated \in Nat /\ g_task_count \in Nat
  BY <1>1, Running
<1>3. /\ Place(thread) \in {"entry", "code", "inner"}
      /\ context'[thread].place \in {"code", "inner"}
      /\ \A t \in Threads \ {thread} : context'[t] = context[t]
  BY WorkFields, BeforeFacts
<1>4. UNCHANGED <<g_tasks, g_task_count, g_current_task, g_scheduler_started,
                  g_bootstrap_switch_pending, thread, allocated, waited>>
  BY DEF Work, table, scheduler
<1>5. SlotsHold'
  BY <1>2, <1>3, <1>4, SlotsKept
<1>6. BootPhase'
  <2>1. \A t \in Threads : Place(t) \in InStart <=> context'[t].place \in InStart
    BY <1>3 DEF InStart, Place
  <2>2. \A s \in Stacks : s # thread /\ Place(s) \in {"none", "entry"}
                            => context'[s].place \in {"none", "entry"}
    BY <1>3 DEF Place, Threads
  <2> QED
    BY <1>2, <1>4, <2>1, <2>2, PhaseKept
<1>7. StacksOwned'
  BY <1>2, <1>3, <1>4, StacksKept
<1> QED
  BY <1>4, <1>5, <1>6, <1>7, TurnsKept DEF Sound

LEMMA EnableSound ==
  ASSUME Before, interrupts_enable PROVE Sound'
<1>1. /\ thread \in Threads
      /\ \A t \in Threads : /\ context'[t].place = context[t].place
                            /\ context'[t].stack = context[t].stack
  BY EnableFields, BeforeFacts DEF Place
<1>2. UNCHANGED <<g_tasks, g_task_count, g_current_task, g_scheduler_started,
                  g_bootstrap_switch_pending, thread, allocated, waited>>
  BY DEF interrupts_enable, table, scheduler
<1>3. BootPhase'
  <2>1. \A s \in Stacks : s \in Threads
    BY DEF Threads
  <2>2. Boot \in Threads
    BY DEF Threads
  <2>3. (Place(Boot))' = Place(Boot) /\ \A t \in Threads : Place(t)' = Place(t)
    BY <1>1, <2>2 DEF Place
  <2>4. BootPhase
    BY BeforeFacts
  <2>5. Fresh' <=> Fresh
    BY <1>2, <2>1, <2>3 DEF Fresh
  <2> QED
    BY <1>2, <2>3, <2>4, <2>5 DEF BootPhase
<1>4. StacksOwned'
  <2>1. StacksOwned
    BY BeforeFacts
  <2>2. /\ \A s \in Stacks : context'[s].place = context[s].place
        /\ \A t \in Threads : Place(t)' = Place(t)
    BY <1>1 DEF Threads, Place
  <2>3. ASSUME NEW t \in Threads, Place(t)' \in {"fill", "frame"}
        PROVE  /\ context'[t].stack \in Stacks
               /\ context'[t].stack <= allocated'
               /\ Place(context[t].stack)' = "none"
    <3>1. /\ context'[t].stack = context[t].stack /\ context[t].stack \in Stacks
          /\ context[t].stack <= allocated /\ Place(context[t].stack) = "none"
      BY <1>1, <2>1, <2>2, <2>3 DEF StacksOwned
    <3> QED
      BY <1>2, <2>2, <3>1 DEF Place
  <2> QED
    BY <1>1, <1>2, <2>1, <2>2, <2>3 DEF StacksOwned, StackOf, Place
<1>5. SlotsHold'
  <2>1. SlotsHold
    BY BeforeFacts
  <2>2. \A t \in Threads : Place(t)' = Place(t) /\ Esp(t)' = Esp(t)
    BY <1>1 DEF Place, Esp
  <2>3. \A i \in Slots : StackOf(i)' = StackOf(i) /\ (Filled(i)' <=> Filled(i))
    BY <1>2 DEF StackOf, Filled
  <2>4. \A i \in Slots : Filled(i) => StackOf(i) \in Threads
    BY DEF Filled, Threads
  <2>5. \A i \in Slots : Filled(i) =>
          Place(StackOf(i))' = Place(StackOf(i)) /\ Esp(StackOf(i))' = Esp(StackOf(i))
    BY <1>2, <2>2, <2>3, <2>4 DEF Place, Esp
  <2>6. \A s \in Stacks : Place(s)' = Place(s)
    BY <2>2 DEF Threads
  <2>7. StackOf(g_current_task)' = StackOf(g_current_task)
    BY <1>2 DEF StackOf
  <2> QED
    BY <1>2, <2>1, <2>2, <2>3, <2>5, <2>6, <2>7 DEF SlotsHold
<1> QED
  BY <1>2, <1>3, <1>4, <1>5, TurnsKept DEF Sound

LEMMA InitCallSound ==
  ASSUME Before, tasking_init PROVE Sound'
<1>1. /\ SlotsHold /\ BootPhase /\ MAX_TASKS \in Nat /\ MaxStacks \in Nat
      /\ \A i \in Slots : i >= MAX_TASKS => g_tasks[i] = EmptySlot
      /\ \A i \in Slots : i \in Nat
  BY BeforeFacts, Constants
<1>2. /\ thread = Boot /\ thread' = thread /\ ~g_scheduler_started /\ ~g_scheduler_started'
      /\ g_task_count' = 0 /\ g_current_task' = 0 /\ ~g_bootstrap_switch_pending'
      /\ allocated' = allocated
      /\ \A i \in Slots : waited'[i] = 0
  BY DEF tasking_init
<1>3. \A i \in Slots : g_tasks'[i].esp.stack = Lost
  <2>1. \A i \in Slots : g_tasks'[i] = EmptySlot
    BY <1>1 DEF tasking_init
  <2> QED
    BY <2>1 DEF EmptySlot, NoEsp
<1>4. Place(Boot)' = "code" /\ \A s \in Stacks : Place(s)' = "none"
  BY <1>2, Constants DEF tasking_init, At, Place, NoContext, Threads
<1>5. \A t \in Threads : Place(t)' \in {"code", "none"}
  BY <1>4 DEF Threads
<1>6. BootPhase'
  BY <1>2, <1>4, <1>5, Constants DEF BootPhase, Fresh, InStart
<1>7. StacksOwned'
  BY <1>4, <1>5 DEF StacksOwned
<1>8. \A i \in Slots : ~Filled(i)'
  BY <1>3, Constants DEF Filled, StackOf
<1>9. SlotsHold'
  BY <1>1, <1>2, <1>4, <1>8, Constants DEF SlotsHold, Threads
<1>10. TurnsInOrder'
  BY <1>1, <1>2 DEF TurnsInOrder
<1> QED
  BY <1>6, <1>7, <1>9, <1>10 DEF Sound

LEMMA CallSound ==
  ASSUME Before, CallCreate PROVE Sound'
<1>1. /\ thread \in Threads /\ Place(thread) = "code" /\ Place(thread) # "none"
      /\ thread \in Stacks => thread <= allocated
      /\ allocated \in Nat /\ g_task_count \in Nat
  BY Running DEF CallCreate
<1>2. /\ context'[thread].place = "kmalloc"
      /\ \A t \in Threads \ {thread} : context'[t] = context[t]
  BY <1>1, GoFields, BeforeFacts, PlaceNames DEF CallCreate, InCreate
<1>3. UNCHANGED <<g_tasks, g_task_count, g_current_task, g_scheduler_started,
                  g_bootstrap_switch_pending, thread, allocated, waited>>
  BY DEF CallCreate, table, scheduler
<1>4. SlotsHold'
  BY <1>1, <1>2, <1>3, SlotsKept
<1>5. BootPhase'
  <2>1. \A t \in Threads : Place(t) \in InStart <=> context'[t].place \in InStart
    BY <1>1, <1>2 DEF InStart, Place
  <2>2. \A s \in Stacks : s # thread /\ Place(s) \in {"none", "entry"}
                            => context'[s].place \in {"none", "entry"}
    BY <1>2 DEF Place, Threads
  <2> QED
    BY <1>1, <1>3, <2>1, <2>2, PhaseKept
<1>6. StacksOwned'
  BY <1>1, <1>2, <1>3, StacksKept
<1> QED
  BY <1>3, <1>4, <1>5, <1>6, TurnsKept DEF Sound

LEMMA GotStackSound ==
  ASSUME Before, CreateGotStack PROVE Sound'
<1>1. /\ thread \in Threads /\ Place(thread) = "kmalloc" /\ Place(thread) # "none"
      /\ thread \in Stacks => thread <= allocated
      /\ allocated \in Nat /\ g_task_count \in Nat
      /\ "fill" \in Places /\ "code" \in Places
  BY Running, PlaceNames DEF CreateGotStack, InCreate
<1>2. \/ /\ allocated' = allocated /\ context'[thread].place = "code"
         /\ \A t \in Threads \ {thread} : context'[t] = context[t]
      \/ /\ allocated' = allocated + 1 /\ allocated' <= MaxStacks
         /\ context'[thread].place = "fill" /\ context'[thread].stack = allocated'
         /\ \A t \in Threads \ {thread} : context'[t] = context[t]
  <2>1. CASE Go("code") /\ UNCHANGED allocated
    BY <1>1, <2>1, GoFields, BeforeFacts
  <2>2. CASE /\ allocated < MaxStacks
             /\ allocated' = allocated + 1
             /\ context' = [context EXCEPT ![thread].place = "fill",
                                           ![thread].stack = allocated']
    <3>1. allocated' \in 0 .. MaxStacks /\ allocated' <= MaxStacks
      BY <1>1, <2>2, BeforeFacts
    <3> QED
      BY <1>1, <2>2, <3>1, GotStack, BeforeFacts
  <2> QED
    BY <2>1, <2>2 DEF CreateGotStack
<1>3. UNCHANGED <<g_tasks, g_task_count, g_current_task, g_scheduler_started,
                  g_bootstrap_switch_pending, thread, waited>>
  BY DEF CreateGotStack, table, scheduler
<1>4. SlotsHold'
  BY <1>1, <1>2, <1>3, SlotsKept
<1>5. BootPhase'
  <2>1. \A t \in Threads : Place(t) \in InStart <=> context'[t].place \in InStart
    BY <1>1, <1>2 DEF InStart, Place
  <2>2. \A s \in Stacks : s # thread /\ Place(s) \in {"none", "entry"}
                            => context'[s].place \in {"none", "entry"}
    BY <1>2 DEF Place, Threads
  <2> QED
    BY <1>1, <1>3, <2>1, <2>2, PhaseKept
<1>6. StacksOwned'
  <2>1. CASE context'[thread].place = "code"
    BY <1>1, <1>2, <1>3, <2>1, StacksKept
  <2>2. CASE context'[thread].place = "fill"
    <3>1. /\ allocated' = allocated + 1 /\ allocated' <= MaxStacks
          /\ context'[thread].stack = allocated'
          /\ \A t \in Threads \ {thread} : context'[t] = context[t]
      BY <1>2, <2>2
    <3>2. /\ StacksOwned /\ MaxStacks \in Nat
          /\ \A t \in Threads \ {thread} : Place(t) \notin InCreate
      BY <1>1, BeforeFacts, PlacesApart
    <3>3. \A t \in Threads \ {thread} :
            Place(t)' \notin {"fill", "frame", "load", "store"}
      BY <3>1, <3>2, PlacesApart DEF Place
    <3>4. allocated' \in Stacks /\ allocated' > allocated /\ allocated' # thread
      BY <1>1, <3>1, <3>2, Constants
    <3>5. context'[allocated'].place = "none"
      <4>1. context[allocated'].place = "none"
        BY <3>2, <3>4 DEF StacksOwned, Place
      <4>2. context'[allocated'] = context[allocated']
        BY <3>1, <3>4 DEF Threads
      <4> QED
        BY <4>1, <4>2
    <3>6. \A s \in Stacks : s > allocated' => Place(s)' = "none"
      <4>1. \A s \in Stacks : s \in Nat /\ s \in Threads
        BY Constants
      <4> QED
        BY <1>1, <3>1, <3>2, <4>1 DEF StacksOwned, Place
    <3>7. \A t \in Threads : Place(t)' \in {"fill", "frame", "load", "store"} => t = thread
      BY <3>3
    <3>8. Place(thread)' = "fill" /\ Place(context[thread].stack)' = "none"
      BY <1>3, <2>2, <3>1, <3>5 DEF Place
    <3>9. allocated' <= allocated'
      BY <1>1, <3>1
    <3> QED
      BY <1>3, <3>1, <3>4, <3>6, <3>7, <3>8, <3>9 DEF StacksOwned
  <2> QED
    BY <1>2, <2>1, <2>2
<1> QED
  BY <1>3, <1>4, <1>5, <1>6, TurnsKept DEF Sound

LEMMA FillSound ==
  ASSUME Before, CreateFill PROVE Sound'
<1>1. /\ thread \in Threads /\ Place(thread) = "fill" /\ Place(thread) # "none"
      /\ thread \in Stacks => thread <= allocated
      /\ allocated \in Nat /\ g_task_count \in Nat /\ "frame" \in Places
  BY Running, PlaceNames DEF CreateFill, InCreate
<1>2. /\ context'[thread].place = "frame" /\ context'[thread].index = g_task_count
      /\ context'[thread].stack = context[thread].stack
      /\ \A t \in Threads \ {thread} : context'[t] = context[t]
  BY <1>1, NotedIndex, BeforeFacts, Numbers DEF CreateFill
<1>3. UNCHANGED <<g_task_count, g_current_task, g_scheduler_started,
                  g_bootstrap_switch_pending, thread, allocated, waited>>
  BY DEF CreateFill, scheduler
<1>4. /\ g_task_count \in Slots
      /\ g_tasks'[g_task_count].active
      /\ \A i \in Slots : /\ g_tasks'[i].esp = g_tasks[i].esp
                          /\ g_tasks[i].active => g_tasks'[i].active
  <2>1. g_tasks \in [Slots -> [esp: Esps, active: BOOLEAN]]
    BY BeforeFacts DEF TypeOK
  <2>2. /\ g_task_count \in Slots
        /\ g_tasks' = [g_tasks EXCEPT ![g_task_count] =
                         [g_tasks[g_task_count] EXCEPT !.active = TRUE]]
    BY <2>1, BeforeFacts, Numbers DEF CreateFill
  <2> DEFINE slot == [g_tasks[g_task_count] EXCEPT !.active = TRUE]
  <2>3. DOMAIN g_tasks[g_task_count] = {"esp", "active"}
    BY <2>1, <2>2
  <2>4. slot.esp = g_tasks[g_task_count].esp /\ slot.active = TRUE
    BY <2>3
  <2>5. /\ g_tasks'[g_task_count] = slot
        /\ \A i \in Slots : i # g_task_count => g_tasks'[i] = g_tasks[i]
    BY <2>1, <2>2
  <2> HIDE DEF slot
  <2> QED
    BY <2>2, <2>4, <2>5
<1>5. SlotsHold'
  BY <1>1, <1>2, <1>3, <1>4, SlotsKept
<1>6. BootPhase'
  <2>1. \A t \in Threads : Place(t) \in InStart <=> context'[t].place \in InStart
    BY <1>1, <1>2 DEF InStart, Place
  <2>2. \A s \in Stacks : s # thread /\ Place(s) \in {"none", "entry"}
                            => context'[s].place \in {"none", "entry"}
    BY <1>2 DEF Place, Threads
  <2> QED
    BY <1>1, <1>3, <2>1, <2>2, PhaseKept
<1>7. StacksOwned'
  <2>1. /\ StacksOwned
        /\ \A t \in Threads \ {thread} : Place(t) \notin InCreate
    BY <1>1, BeforeFacts, PlacesApart
  <2>2. \A t \in Threads : Place(t)' \in {"fill", "frame", "load", "store"} => t = thread
    BY <1>2, <2>1, PlacesApart DEF Place
  <2>3. \A s \in Stacks : s > allocated' => Place(s)' = "none"
    <3>1. \A s \in Stacks : s \in Nat /\ s \in Threads
      BY Constants
    <3> QED
      BY <1>1, <1>2, <1>3, <2>1, <3>1 DEF StacksOwned, Place
  <2>4. /\ context[thread].stack \in Stacks /\ context[thread].stack <= allocated
        /\ Place(context[thread].stack) = "none"
    BY <1>1, <2>1 DEF StacksOwned
  <2>5. Place(thread)' = "frame" /\ Place(context[thread].stack)' = "none"
    <3>1. context[thread].stack # thread /\ context[thread].stack \in Threads
      BY <1>1, <2>4 DEF Threads
    <3> QED
      BY <1>2, <1>3, <2>4, <3>1 DEF Place
  <2> QED
    BY <1>2, <1>3, <1>4, <2>2, <2>3, <2>4, <2>5 DEF StacksOwned
<1> QED
  BY <1>3, <1>5, <1>6, <1>7, TurnsKept DEF Sound

LEMMA LoadSound ==
  ASSUME Before, CreateLoad PROVE Sound'
<1>1. /\ thread \in Threads /\ Place(thread) = "load" /\ Place(thread) # "none"
      /\ thread \in Stacks => thread <= allocated
      /\ allocated \in Nat /\ g_task_count \in Nat /\ "store" \in Places
  BY Running, PlaceNames DEF CreateLoad, InCreate
<1>2. /\ context'[thread].place = "store" /\ context'[thread].index = g_task_count
      /\ context'[thread].stack = context[thread].stack
      /\ \A t \in Threads \ {thread} : context'[t] = context[t]
  BY <1>1, NotedIndex, BeforeFacts, Numbers DEF CreateLoad
<1>3. UNCHANGED <<g_tasks, g_task_count, g_current_task, g_scheduler_started,
                  g_bootstrap_switch_pending, thread, allocated, waited>>
  BY DEF CreateLoad, table, scheduler
<1>4. SlotsHold'
  BY <1>1, <1>2, <1>3, SlotsKept
<1>5. BootPhase'
  <2>1. \A t \in Threads : Place(t) \in InStart <=> context'[t].place \in InStart
    BY <1>1, <1>2 DEF InStart, Place
  <2>2. \A s \in Stacks : s # thread /\ Place(s) \in {"none", "entry"}
                            => context'[s].place \in {"none", "entry"}
    BY <1>2 DEF Place, Threads
  <2> QED
    BY <1>1, <1>3, <2>1, <2>2, PhaseKept
<1>6. StacksOwned'
  <2>1. /\ StacksOwned
        /\ \A t \in Threads \ {thread} : Place(t) \notin InCreate
    BY <1>1, BeforeFacts, PlacesApart
  <2>2. \A t \in Threads : Place(t)' \in {"fill", "frame", "load", "store"} => t = thread
    BY <1>2, <2>1, PlacesApart DEF Place
  <2>3. \A s \in Stacks : s > allocated' => Place(s)' = "none"
    <3>1. \A s \in Stacks : s \in Nat /\ s \in Threads
      BY Constants
    <3> QED
      BY <1>1, <1>2, <1>3, <2>1, <3>1 DEF StacksOwned, Place
  <2>4. /\ g_tasks[g_task_count].active
        /\ context[thread].stack \in Stacks
        /\ StackOf(g_task_count) = context[thread].stack
    BY <1>1, <2>1 DEF StacksOwned
  <2>5. Place(thread)' = "store" /\ StackOf(g_task_count)' = context[thread].stack
    BY <1>2, <1>3, <2>4 DEF Place, StackOf
  <2> QED
    BY <1>2, <1>3, <2>2, <2>3, <2>4, <2>5 DEF StacksOwned
<1> QED
  BY <1>3, <1>4, <1>5, <1>6, TurnsKept DEF Sound

LEMMA StartSound ==
  ASSUME Before, tasking_start PROVE Sound'
<1>1. /\ thread = Boot /\ Boot \in Threads
      /\ BootPhase
      /\ UNCHANGED <<g_tasks, g_task_count, thread, allocated, waited>>
  BY BeforeFacts DEF tasking_start, table, Threads
<1>2. PICK p \in {"code", "start_current", "start_pending"} : At(p)
  BY DEF tasking_start
<1>3. /\ Place(thread) = p /\ Place(thread) # "none" /\ thread \notin Stacks
      /\ allocated \in Nat /\ g_task_count \in Nat
  BY <1>1, <1>2, Running, Constants
<1>4. /\ Fresh
      /\ g_current_task' = g_current_task
      /\ g_scheduler_started'
      /\ context'[thread].place \in {"code", "start_current", "start_pending"}
      /\ context'[thread].place \in InStart \/ g_bootstrap_switch_pending'
      /\ context'[thread].place \in InStart => ~g_bootstrap_switch_pending'
      /\ g_task_count # 0
      /\ \A t \in Threads \ {thread} : context'[t] = context[t]
  <2>1. \A q \in {"code", "start_current", "start_pending"} : q \in Places
    BY PlaceNames DEF InStart
  <2>2. CASE /\ At("code") /\ g_task_count # 0 /\ ~g_scheduler_started
             /\ g_scheduler_started' = TRUE
             /\ Go("start_current")
             /\ UNCHANGED <<g_current_task, g_bootstrap_switch_pending>>
    <3>1. Fresh /\ ~g_bootstrap_switch_pending
      BY <1>1, <2>2 DEF BootPhase
    <3> QED
      BY <1>1, <2>1, <2>2, <3>1, GoFields, BeforeFacts DEF InStart
  <2>3. CASE /\ At("start_current")
             /\ g_current_task' = 0
             /\ Go("start_pending")
             /\ UNCHANGED <<g_scheduler_started, g_bootstrap_switch_pending>>
    <3>1. Place(Boot) \in InStart
      BY <1>1, <2>3 DEF InStart, Place, At
    <3>2. Fresh /\ ~g_bootstrap_switch_pending /\ g_scheduler_started /\ g_task_count # 0
      BY <1>1, <3>1 DEF BootPhase
    <3>3. g_current_task = 0
      BY <3>2 DEF Fresh
    <3> QED
      BY <1>1, <2>1, <2>3, <3>2, <3>3, GoFields, BeforeFacts DEF InStart
  <2>4. CASE /\ At("start_pending")
             /\ g_bootstrap_switch_pending' = StartPending
             /\ Go("code")
             /\ UNCHANGED <<g_scheduler_started, g_current_task>>
    <3>1. Place(Boot) \in InStart
      BY <1>1, <2>4 DEF InStart, Place, At
    <3>2. Fresh /\ g_scheduler_started /\ g_task_count # 0
      BY <1>1, <3>1 DEF BootPhase
    <3>3. g_bootstrap_switch_pending'
      BY <2>4 DEF StartPending
    <3>4. "code" \notin InStart
      BY DEF InStart
    <3> QED
      BY <1>1, <2>1, <2>4, <3>2, <3>3, <3>4, GoFields, BeforeFacts
  <2> QED
    BY <2>2, <2>3, <2>4 DEF tasking_start
<1>5. SlotsHold'
  BY <1>1, <1>3, <1>4, SlotsKept
<1>6. BootPhase'
  <2>1. Fresh'
    BY <1>1, <1>4, Constants DEF Fresh, Place, Threads
  <2>2. \A t \in Threads : Place(t)' \in InStart => t = Boot
    BY <1>1, <1>4 DEF BootPhase, Place
  <2>3. Place(Boot)' = context'[thread].place
    BY <1>1 DEF Place
  <2>4. g_current_task' = 0 /\ g_task_count' \in Nat /\ g_task_count' # 0
    BY <1>1, <1>3, <1>4 DEF Fresh
  <2> QED
    BY <1>4, <2>1, <2>2, <2>3, <2>4 DEF BootPhase
<1>7. StacksOwned'
  BY <1>1, <1>3, <1>4, StacksKept
<1> QED
  BY <1>1, <1>4, <1>5, <1>6, <1>7, TurnsKept DEF Sound

LEMMA FrameSound ==
  ASSUME Before, CreateFrame PROVE Sound'
<1>0. PICK s, n : s = context[thread].stack /\ n = g_task_count
  OBVIOUS
<1>1. /\ thread \in Threads /\ Place(thread) = "frame"
      /\ thread \in Stacks => thread <= allocated
      /\ allocated \in Nat /\ n \in Nat
      /\ TypeOK /\ BootPhase /\ StacksOwned /\ SlotsHold /\ TurnsInOrder
  BY <1>0, Running, BeforeFacts DEF CreateFrame
<1>2. /\ context[thread].index = n /\ n < MAX_TASKS /\ n \in Slots
      /\ \A t \in Threads \ {thread} : Place(t) \notin InCreate
  <2>1. "frame" \in InCreate
    BY DEF InCreate
  <2> QED
    BY <1>0, <1>1, <2>1, BeforeFacts, Numbers
<1>3. /\ s \in Stacks /\ s \in Threads /\ s <= allocated /\ Place(s) = "none"
      /\ g_tasks[n].active /\ s # thread
  BY <1>0, <1>1 DEF StacksOwned, Threads
<1>4. /\ \A t \in Threads \ {thread, s} : context'[t] = context[t]
      /\ context'[s].place = "entry"
      /\ context'[thread].place = "load" /\ context'[thread].stack = s
  BY <1>0, <1>1, <1>3, FrameFields DEF EntryContext, NoContext
<1>5. UNCHANGED <<g_task_count, g_current_task, g_scheduler_started,
                  g_bootstrap_switch_pending, thread, allocated>>
  BY DEF CreateFrame, scheduler
<1>6. /\ g_tasks'[n].esp = [stack |-> s, depth |-> 0]
      /\ g_tasks'[n].active
      /\ \A i \in Slots : i # n => g_tasks'[i] = g_tasks[i]
  <2> DEFINE esp == [stack |-> s, depth |-> 0]
             slot == [g_tasks[n] EXCEPT !.esp = esp]
  <2>1. g_tasks \in [Slots -> [esp: Esps, active: BOOLEAN]]
    BY <1>0, <1>1 DEF TypeOK
  <2>2. g_tasks' = [g_tasks EXCEPT ![n] = slot]
    BY <1>0, <1>2, <2>1 DEF CreateFrame
  <2>3. DOMAIN g_tasks[n] = {"esp", "active"}
    BY <1>0, <1>2, <2>1
  <2>4. slot.esp = esp /\ slot.active = g_tasks[n].active
    BY <1>0, <2>3
  <2> HIDE DEF slot, esp
  <2>5. g_tasks'[n] = slot /\ \A i \in Slots : i # n => g_tasks'[i] = g_tasks[i]
    BY <1>0, <1>2, <2>1, <2>2
  <2> QED
    BY <1>0, <1>3, <2>4, <2>5 DEF esp
<1>7. \A i \in Slots : waited[i] = 0 => waited'[i] = 0
  BY <1>0, <1>1, <1>2 DEF CreateFrame, TypeOK
<1>8. \A i \in Slots : i < n => waited'[i] = waited[i]
  BY <1>0, <1>1, <1>2 DEF CreateFrame, TypeOK
<1>9. BootPhase'
  <2>1. \A t \in Threads : Place(t) \in InStart <=> context'[t].place \in InStart
    BY <1>0, <1>1, <1>3, <1>4 DEF InStart, Place
  <2>2. \A q \in Stacks : q # thread /\ Place(q) \in {"none", "entry"}
                            => context'[q].place \in {"none", "entry"}
    BY <1>0, <1>4 DEF Place, Threads
  <2>3. g_task_count' \in Nat /\ g_task_count' >= g_task_count
    BY <1>0, <1>1, <1>5
  <2> QED
    BY <1>0, <1>5, <1>7, <2>1, <2>2, <2>3, PhaseKept
<1>10. StacksOwned'
  <2>1. \A t \in Threads : Place(t)' \in {"fill", "frame", "load", "store"} => t = thread
    BY <1>0, <1>2, <1>4, PlacesApart DEF Place
  <2>2. \A q \in Stacks : q > allocated' => Place(q)' = "none"
    <3>1. \A q \in Stacks : q \in Nat /\ q \in Threads
      BY Constants
    <3> QED
      BY <1>0, <1>1, <1>3, <1>4, <1>5, <3>1 DEF StacksOwned, Place
  <2>3. Place(thread)' = "load" /\ StackOf(g_task_count)' = s
    BY <1>0, <1>4, <1>5, <1>6 DEF Place, StackOf
  <2> QED
    BY <1>0, <1>3, <1>4, <1>5, <1>6, <2>1, <2>2, <2>3 DEF StacksOwned
<1>11. SlotsHold'
  <2>1. /\ StackOf(n)' = s
        /\ \A i \in Slots : i # n => StackOf(i)' = StackOf(i) /\ (Filled(i)' <=> Filled(i))
    BY <1>0, <1>5, <1>6 DEF StackOf, Filled
  <2>2. ~Filled(n)
    <3>1. \A t \in Threads : Place(t) \notin {"load", "store"}
      BY <1>0, <1>1, <1>2, PlacesApart
    <3> QED
      BY <1>0, <1>1, <1>2, <3>1 DEF SlotsHold
  <2>3. \A i \in Slots : Filled(i) => StackOf(i) # s
    BY <1>0, <1>1, <1>3 DEF SlotsHold
  <2>4. \A q \in Threads \ {thread, s} : Place(q)' = Place(q) /\ Esp(q)' = Esp(q)
    BY <1>0, <1>4 DEF Place, Esp
  <2>5. Place(thread)' = "load" /\ Place(s)' = "entry"
    BY <1>0, <1>4, <1>5 DEF Place
  <2>6. \A i \in Slots : Filled(i)' =>
          /\ g_tasks'[i].active
          /\ Place(StackOf(i))' # "none"
          /\ StackOf(i)' # thread' => g_tasks'[i].esp = Esp(StackOf(i))'
    <3>1. SUFFICES ASSUME NEW i \in Slots, Filled(i)'
                   PROVE  /\ g_tasks'[i].active
                          /\ Place(StackOf(i))' # "none"
                          /\ StackOf(i)' # thread' => g_tasks'[i].esp = Esp(StackOf(i))'
      OBVIOUS
    <3>2. CASE i = n
      <4>1. Place(StackOf(i))' = context'[s].place
        BY <1>0, <2>1, <3>2 DEF Place
      <4>2. Esp(StackOf(i))' = [stack |-> s, depth |-> Depth(context'[s].place)]
        BY <1>0, <2>1, <3>2 DEF Esp
      <4>3. Depth(context'[s].place) = 0
        BY <1>0, <1>4 DEF Depth
      <4> QED
        BY <1>0, <1>4, <1>6, <3>2, <4>1, <4>2, <4>3
    <3>3. CASE i # n
      <4> DEFINE q == StackOf(i)
      <4>1. Filled(i) /\ q \in Threads /\ q # s /\ q' = q /\ g_tasks'[i] = g_tasks[i]
        BY <1>0, <1>6, <2>1, <2>3, <3>1, <3>3 DEF Filled, Threads
      <4>2. /\ g_tasks[i].active /\ Place(q) # "none"
            /\ q # thread => g_tasks[i].esp = Esp(q)
        BY <1>0, <1>1, <4>1 DEF SlotsHold
      <4>3. Place(q)' = context'[q].place
        BY <4>1 DEF Place
      <4>4. Esp(q)' = [stack |-> q, depth |-> Depth(context'[q].place)]
        BY <4>1 DEF Esp
      <4>5. q # thread => context'[q] = context[q]
        BY <1>0, <1>4, <4>1
      <4>6. Place(q)' # "none"
        BY <1>0, <1>4, <4>2, <4>3, <4>5 DEF Place
      <4>7. q # thread => Esp(q)' = Esp(q)
        BY <4>4, <4>5 DEF Esp
      <4> QED
        BY <1>0, <1>5, <4>1, <4>2, <4>6, <4>7
    <3> QED
      BY <3>2, <3>3
  <2>7. \A i, j \in Slots : Filled(i)' /\ StackOf(i)' = StackOf(j)' => i = j
    <3>1. ASSUME NEW i \in Slots, NEW j \in Slots, Filled(i)', StackOf(i)' = StackOf(j)'
          PROVE  i = j
      <4>1. CASE i = n
        BY <1>0, <1>3, <2>1, <2>3, <3>1, <4>1 DEF Filled
      <4>2. CASE i # n
        <5>1. Filled(i) /\ StackOf(i)' = StackOf(i)
          BY <1>0, <2>1, <3>1, <4>2
        <5>2. j # n
          BY <1>0, <2>1, <2>3, <3>1, <5>1
        <5>3. StackOf(j)' = StackOf(j) /\ StackOf(i) = StackOf(j)
          BY <2>1, <3>1, <5>1, <5>2
        <5> QED
          BY <1>1, <5>1, <5>3 DEF SlotsHold
      <4> QED
        BY <4>1, <4>2
    <3> QED
      BY <3>1
  <2>8. /\ \A i \in Slots : i < n => Filled(i)'
        /\ \A i \in Slots : i > n => ~Filled(i)'
    BY <1>0, <1>1, <2>1 DEF SlotsHold, Slots
  <2>9. \A i \in Slots : i = n /\ Filled(i)' => \E t \in Threads : Place(t)' \in {"load", "store"}
    <3>1. thread \in Threads /\ Place(thread)' \in {"load", "store"}
      BY <1>1, <2>5
    <3>2. Place(thread)' = context'[thread].place
      BY <1>5 DEF Place
    <3>3. \A t \in Threads : Place(t)' = context'[t].place
      BY DEF Place
    <3>4. \E t \in Threads : Place(t)' \in {"load", "store"}
      BY <3>1, <3>2, <3>3
    <3> QED
      BY <3>4
  <2>10. \A q \in Stacks : Place(q)' # "none" => \E i \in Slots : StackOf(i)' = q
    <3>1. ASSUME NEW q \in Stacks, Place(q)' # "none"
          PROVE  \E i \in Slots : StackOf(i)' = q
      <4>1. CASE q = s
        BY <1>0, <1>2, <2>1, <4>1
      <4>2. CASE q # s
        <5>1. Place(q) # "none"
          BY <1>0, <1>1, <2>4, <3>1, <4>2 DEF Threads
        <5>2. PICK i \in Slots : StackOf(i) = q
          BY <1>0, <1>1, <5>1 DEF SlotsHold
        <5>3. i # n
          BY <1>0, <2>2, <5>2 DEF Filled
        <5> QED
          BY <1>0, <2>1, <5>2, <5>3
      <4> QED
        BY <4>1, <4>2
    <3> QED
      BY <3>1
  <2>11. thread' \in Threads /\ (thread' \in Stacks => StackOf(g_current_task)' = thread')
    <3>1. thread \in Stacks => /\ g_current_task \in Slots /\ g_current_task < n
                               /\ StackOf(g_current_task) = thread
      BY <1>0, ThreadAllocated
    <3>2. thread \in Stacks => StackOf(g_current_task)' = StackOf(g_current_task)
      BY <1>0, <1>1, <1>5, <1>6, <3>1 DEF StackOf, Slots
    <3> QED
      BY <1>0, <1>1, <1>5, <3>1, <3>2
  <2>12. g_task_count' = n
    BY <1>0, <1>5
  <2> QED
    BY <1>0, <2>6, <2>7, <2>8, <2>9, <2>10, <2>11, <2>12 DEF SlotsHold
<1>12. TurnsInOrder'
  <2>1. \A i \in Slots : Behind(i)' = Behind(i)
    BY <1>0, <1>5 DEF Behind
  <2> QED
    BY <1>0, <1>1, <1>5, <1>7, <1>8, <2>1 DEF TurnsInOrder
<1> QED
  BY <1>0, <1>9, <1>10, <1>11, <1>12 DEF Sound

LEMMA StoreSound ==
  ASSUME Before, CreateStore PROVE Sound'
<1>0. PICK n : n = g_task_count
  OBVIOUS
<1>1. /\ thread \in Threads /\ Place(thread) = "store" /\ Place(thread) # "none"
      /\ thread \in Stacks => thread <= allocated
      /\ allocated \in Nat /\ n \in Nat
      /\ TypeOK /\ BootPhase /\ StacksOwned /\ SlotsHold /\ TurnsInOrder
      /\ g_current_task \in Nat /\ MAX_TASKS \in Nat
  BY <1>0, Running, BeforeFacts DEF CreateStore
<1>2. /\ context[thread].index = n /\ n < MAX_TASKS /\ n \in Slots
      /\ \A t \in Threads \ {thread} : Place(t) \notin InCreate
  <2>1. "store" \in InCreate
    BY DEF InCreate
  <2> QED
    BY <1>0, <1>1, <2>1, BeforeFacts, Numbers
<1>3. /\ context'[thread].place = "code"
      /\ \A t \in Threads \ {thread} : context'[t] = context[t]
  BY <1>1, GoFields, PlaceNames DEF CreateStore
<1>4. /\ UNCHANGED <<g_tasks, g_current_task, g_scheduler_started,
                     g_bootstrap_switch_pending, thread, allocated, waited>>
      /\ g_task_count' = n + 1
  BY <1>2 DEF CreateStore, scheduler
<1>5. BootPhase'
  <2>1. \A t \in Threads : Place(t) \in InStart <=> context'[t].place \in InStart
    BY <1>1, <1>3 DEF InStart, Place
  <2>2. \A s \in Stacks : s # thread /\ Place(s) \in {"none", "entry"}
                            => context'[s].place \in {"none", "entry"}
    BY <1>3 DEF Place, Threads
  <2>3. g_task_count' \in Nat /\ g_task_count' >= g_task_count
    BY <1>0, <1>1, <1>4
  <2> QED
    BY <1>4, <2>1, <2>2, <2>3, PhaseKept
<1>6. \A t \in Threads : Place(t)' \notin {"fill", "frame", "load", "store"}
  BY <1>2, <1>3, PlacesApart DEF Place
<1>7. StacksOwned'
  <2>1. \A s \in Stacks : s > allocated' => Place(s)' = "none"
    <3>1. \A s \in Stacks : s \in Nat /\ s \in Threads
      BY Constants
    <3> QED
      BY <1>1, <1>3, <1>4, <3>1 DEF StacksOwned, Place
  <2> QED
    BY <1>6, <2>1 DEF StacksOwned
<1>8. SlotsHold'
  <2>1. Filled(n)
    BY <1>0, <1>1 DEF StacksOwned, Filled
  <2>2. \A i \in Slots : StackOf(i)' = StackOf(i) /\ (Filled(i)' <=> Filled(i))
    BY <1>4 DEF StackOf, Filled
  <2>3. \A i \in Slots : Filled(i)' =>
          /\ g_tasks'[i].active
          /\ Place(StackOf(i))' # "none"
          /\ StackOf(i)' # thread' => g_tasks'[i].esp = Esp(StackOf(i))'
    <3>1. SUFFICES ASSUME NEW i \in Slots, Filled(i)'
                   PROVE  /\ g_tasks'[i].active
                          /\ Place(StackOf(i))' # "none"
                          /\ StackOf(i)' # thread' => g_tasks'[i].esp = Esp(StackOf(i))'
      OBVIOUS
    <3>2. PICK q : q = StackOf(i)
      OBVIOUS
    <3>3. StackOf(i)' = q /\ Filled(i) /\ q \in Threads
      BY <2>2, <3>1, <3>2 DEF Filled, Threads
    <3>4. g_tasks[i].active /\ Place(q) # "none" /\ (q # thread => g_tasks[i].esp = Esp(q))
      BY <1>1, <3>2, <3>3 DEF SlotsHold
    <3>5. Place(StackOf(i))' = context'[q].place
      BY <3>3 DEF Place
    <3>6. Esp(StackOf(i))' = [stack |-> q, depth |-> Depth(context'[q].place)]
      BY <3>3 DEF Esp
    <3>7. context'[q].place # "none"
      BY <1>3, <3>3, <3>4 DEF Place
    <3>8. q # thread => Esp(StackOf(i))' = Esp(q)
      BY <1>3, <3>3, <3>6 DEF Esp
    <3> QED
      BY <1>4, <3>3, <3>4, <3>5, <3>7, <3>8
  <2>4. \A i, j \in Slots : Filled(i)' /\ StackOf(i)' = StackOf(j)' => i = j
    BY <1>1, <2>2 DEF SlotsHold
  <2>5. \A i \in Slots : i < n + 1 => Filled(i)'
    <3>1. \A i \in Slots : i < n + 1 => i < n \/ i = n
      BY <1>1 DEF Slots
    <3> QED
      BY <1>0, <1>1, <2>1, <2>2, <3>1 DEF SlotsHold
  <2>6. \A i \in Slots : i >= n + 1 => ~Filled(i)'
    <3>1. \A i \in Slots : i >= n + 1 => i > n
      BY <1>1 DEF Slots
    <3> QED
      BY <1>0, <1>1, <2>2, <3>1 DEF SlotsHold
  <2>7. \A i \in Slots : (i > n + 1 => i >= n + 1) /\ (i = n + 1 => i >= n + 1)
    BY <1>1 DEF Slots
  <2>8. \A q \in Stacks : Place(q)' # "none" => \E i \in Slots : StackOf(i)' = q
    <3>1. \A q \in Stacks : Place(q)' # "none" => Place(q) # "none"
      BY <1>1, <1>3 DEF Place, Threads
    <3> QED
      BY <1>1, <2>2, <3>1 DEF SlotsHold
  <2>9. thread' \in Threads /\ (thread' \in Stacks => StackOf(g_current_task)' = thread')
    <3>1. thread \in Stacks => StackOf(g_current_task) = thread
      BY <1>1 DEF SlotsHold
    <3>2. StackOf(g_current_task)' = StackOf(g_current_task)
      BY <1>4 DEF StackOf
    <3> QED
      BY <1>1, <1>4, <3>1, <3>2
  <2> QED
    BY <1>4, <2>3, <2>4, <2>5, <2>6, <2>7, <2>8, <2>9 DEF SlotsHold
<1>9. TurnsInOrder'
  <2> SUFFICES ASSUME NEW i \in Slots
               PROVE  /\ i < n + 1 => waited[i] <= Behind(i)'
                      /\ i >= n + 1 => waited[i] = 0
    BY <1>4 DEF TurnsInOrder
  <2>1. i \in Nat /\ waited[i] \in Nat
    BY <1>1, Numbers
  <2>2. /\ i < n => waited[i] <= Behind(i)
        /\ i >= n => waited[i] = 0
    BY <1>0, <1>1 DEF TurnsInOrder
  <2>3. Behind(i)' = IF i <= g_current_task THEN g_current_task - i
                     ELSE n + 1 + g_current_task - i
    BY <1>4 DEF Behind
  <2>4. Behind(i) = IF i <= g_current_task THEN g_current_task - i
                    ELSE n + g_current_task - i
    BY <1>0 DEF Behind
  <2> QED
    BY <1>1, <2>1, <2>2, <2>3, <2>4
<1> QED
  BY <1>5, <1>7, <1>8, <1>9 DEF Sound

\* A tick that does not fall in the middle of tasking_start.
LEMMA Tick ==
  ASSUME Before, irq0_handler, misuse' = {}
  PROVE  /\ Place(thread) \notin InStart
         /\ context' = context /\ allocated' = allocated
         /\ tasking_schedule(Esp(thread))
BY DEF irq0_handler, Place

\* A slot's stack is found again.
LEMMA Resumed ==
  ASSUME Before, NEW i \in Slots, NEW e, i < g_task_count, Resume(e), e = Esp(StackOf(i))
  PROVE  thread' = StackOf(i) /\ thread' \in Stacks
<1>1. StackOf(i) \in Stacks /\ Place(StackOf(i)) # "none"
  BY BeforeFacts DEF SlotsHold, Filled
<1>2. e.stack = StackOf(i)
  BY DEF Esp
<1> QED
  BY <1>1, <1>2 DEF Resume, Place, Threads

\* Every slot in use is active, so the first one tried is taken.
LEMMA NextIsFirstTried ==
  ASSUME Before, g_task_count # 0, g_current_task < g_task_count
  PROVE  NextTask = {IF g_current_task + 1 = g_task_count THEN 0 ELSE g_current_task + 1}
<1> DEFINE first == IF g_current_task + 1 = g_task_count THEN 0 ELSE g_current_task + 1
<1>1. /\ g_task_count \in Nat /\ g_current_task \in Nat /\ g_task_count <= MAX_TASKS
      /\ MAX_TASKS \in Nat /\ MaxStacks \in Nat
  BY BeforeFacts
<1>2. Tried(1) = first
  BY <1>1 DEF Tried
<1>3. first \in Slots /\ first < g_task_count
  BY <1>1 DEF Slots
<1>4. g_tasks[first].active
  BY <1>3, BeforeFacts DEF SlotsHold
<1>5. 1 \in 1 .. g_task_count /\ \A j \in 1 .. g_task_count : j # 1 => 1 \in 1 .. j - 1
  BY <1>1
<1>6. \A k \in 1 .. 1 - 1 : ~g_tasks[Tried(k)].active
  OBVIOUS
<1> HIDE DEF first
<1> QED
  BY <1>2, <1>4, <1>5, <1>6 DEF NextTask, first

\* The first switch: the boot code is left for the first task.
LEMMA FirstSwitchSound ==
  ASSUME Before, g_scheduler_started, g_task_count # 0, g_bootstrap_switch_pending,
         FirstSwitch, context' = context, allocated' = allocated
  PROVE  Sound' /\ thread' \in Stacks
<1>1. /\ TypeOK /\ BootPhase /\ StacksOwned /\ SlotsHold /\ TurnsInOrder
      /\ g_task_count \in Nat /\ misuse = {}
  BY BeforeFacts DEF Before
<1>2. thread = Boot /\ g_current_task = 0 /\ 0 < g_task_count /\ 0 \in Slots
      /\ Place(Boot) \notin InStart
      /\ \A i \in Slots : waited[i] = 0 /\ i \in Nat
  <2>1. Fresh /\ Place(Boot) \notin InStart
    BY <1>1 DEF BootPhase, Threads
  <2>2. 0 \in Slots /\ \A i \in Slots : i \in Nat
    BY Constants
  <2> QED
    BY <1>1, <2>1, <2>2 DEF Fresh
<1>3. g_tasks[0].esp = Esp(StackOf(0))
  BY <1>1, <1>2, Constants DEF SlotsHold, Filled
<1>4. thread' = StackOf(0) /\ thread' \in Stacks
  BY <1>1, <1>2, <1>3, Resumed DEF FirstSwitch
<1>5. /\ UNCHANGED <<g_tasks, g_task_count, g_current_task, g_scheduler_started>>
      /\ ~g_bootstrap_switch_pending'
      /\ waited' = [s \in Slots |-> IF s = 0 \/ s >= g_task_count THEN 0 ELSE waited[s] + 1]
  BY <1>1, <1>2 DEF FirstSwitch, Turn, table
<1>6. BootPhase'
  <2>1. Place(Boot)' = Place(Boot) /\ thread' # Boot
    BY <1>4, Constants DEF Place, Boot
  <2> QED
    BY <1>1, <1>2, <1>5, <2>1 DEF BootPhase, Place
<1>7. StacksOwned'
  BY <1>1, <1>5 DEF StacksOwned, StackOf, Place
<1>8. SlotsHold'
  <2>1. \A i \in Slots : StackOf(i)' = StackOf(i) /\ (Filled(i)' <=> Filled(i))
    BY <1>5 DEF StackOf, Filled
  <2>2. \A t \in Threads : Place(t)' = Place(t) /\ Esp(t)' = Esp(t)
    BY DEF Place, Esp
  <2>3. \A i \in Slots : Place(StackOf(i))' = Place(StackOf(i))
                         /\ Esp(StackOf(i))' = Esp(StackOf(i))
    BY <1>5 DEF Place, Esp, StackOf
  <2>4. \A i \in Slots : Filled(i) => StackOf(i) # thread
    BY <1>2, Constants DEF Filled
  <2>5. StackOf(g_current_task)' = StackOf(0) /\ thread' \in Threads
    BY <1>2, <1>4, <1>5 DEF StackOf, Threads
  <2>6. \A s \in Stacks : Place(s)' = Place(s)
    BY DEF Place
  <2> QED
    BY <1>1, <1>4, <1>5, <2>1, <2>2, <2>3, <2>4, <2>5, <2>6 DEF SlotsHold
<1>9. TurnsInOrder'
  <2> SUFFICES ASSUME NEW i \in Slots
               PROVE  /\ i < g_task_count => waited'[i] <= Behind(i)'
                      /\ i >= g_task_count => waited'[i] = 0
    BY <1>5 DEF TurnsInOrder
  <2>1. Behind(i)' = IF i <= 0 THEN 0 - i ELSE g_task_count + 0 - i
    BY <1>2, <1>5 DEF Behind
  <2> QED
    BY <1>1, <1>2, <1>5, <2>1
<1> QED
  BY <1>4, <1>6, <1>7, <1>8, <1>9 DEF Sound

\* Any later switch: from one task to the next.
LEMMA SwitchSound ==
  ASSUME Before, g_scheduler_started, g_task_count # 0, ~g_bootstrap_switch_pending,
         Place(thread) \notin InStart,
         Switch(Esp(thread)), context' = context, allocated' = allocated
  PROVE  Sound' /\ thread' \in Stacks
<1>0. PICK cur, n, next : /\ cur = g_current_task /\ n = g_task_count
                          /\ next = IF cur + 1 = n THEN 0 ELSE cur + 1
  OBVIOUS
<1>1. /\ TypeOK /\ BootPhase /\ StacksOwned /\ SlotsHold /\ TurnsInOrder
      /\ n \in Nat /\ cur \in Nat /\ MAX_TASKS \in Nat /\ n <= MAX_TASKS
      /\ misuse = {} /\ thread \in Threads
  BY <1>0, BeforeFacts DEF Before
<1>2. cur < n /\ Place(Boot) \notin InStart /\ thread \in Stacks
  <2>1. cur < n
    BY <1>0, <1>1 DEF BootPhase
  <2>2. Place(Boot) \notin InStart
    BY <1>1 DEF BootPhase, Fresh
  <2>3. thread # Boot
    BY <1>1, <2>2 DEF BootPhase
  <2> QED
    BY <1>1, <2>1, <2>2, <2>3 DEF Threads
<1>3. /\ cur \in Slots /\ next \in Slots /\ next < n /\ next \in Nat
      /\ StackOf(cur) = thread
  BY <1>0, <1>1, <1>2, ThreadAllocated, Constants
<1>4. NextTask = {next}
  BY <1>0, <1>2, NextIsFirstTried
<1>5. /\ UNCHANGED <<g_task_count, g_scheduler_started, g_bootstrap_switch_pending>>
      /\ SaveEsp(Esp(thread))
      /\ g_current_task' = next
      /\ Resume(g_tasks'[next].esp)
      /\ waited' = [s \in Slots |-> IF s = next \/ s >= n THEN 0 ELSE waited[s] + 1]
  BY <1>0, <1>1, <1>4 DEF Switch, Turn
<1>6. /\ g_tasks'[cur].esp = Esp(thread)
      /\ g_tasks'[cur].active = g_tasks[cur].active
      /\ \A i \in Slots : i # cur => g_tasks'[i] = g_tasks[i]
  <2>1. PICK esp : esp = Esp(thread)
    OBVIOUS
  <2>2. PICK slot : slot = [g_tasks[cur] EXCEPT !.esp = esp]
    OBVIOUS
  <2>3. g_tasks \in [Slots -> [esp: Esps, active: BOOLEAN]]
    BY <1>1 DEF TypeOK
  <2>4. g_tasks' = [g_tasks EXCEPT ![cur] = slot]
    BY <1>0, <1>3, <1>5, <2>1, <2>2, <2>3 DEF SaveEsp
  <2>5. DOMAIN g_tasks[cur] = {"esp", "active"}
    BY <1>3, <2>3
  <2>6. slot.esp = esp /\ slot.active = g_tasks[cur].active
    BY <2>2, <2>5
  <2>7. g_tasks'[cur] = slot /\ \A i \in Slots : i # cur => g_tasks'[i] = g_tasks[i]
    BY <1>3, <2>3, <2>4
  <2> QED
    BY <2>1, <2>6, <2>7
<1>7. /\ \A i \in Slots : g_tasks'[i].esp.stack = StackOf(i)
      /\ \A i \in Slots : StackOf(i) \in Stacks => g_tasks'[i].esp = Esp(StackOf(i))
      /\ \A i \in Slots : g_tasks'[i].active = g_tasks[i].active
  <2>1. Esp(thread).stack = thread
    BY DEF Esp
  <2>2. \A i \in Slots : i # cur /\ StackOf(i) \in Stacks => StackOf(i) # thread
    BY <1>1, <1>2, <1>3 DEF SlotsHold, Filled
  <2> QED
    BY <1>1, <1>3, <1>6, <2>1, <2>2 DEF SlotsHold, Filled, StackOf
<1>8. thread' = StackOf(next) /\ thread' \in Stacks
  <2>1. StackOf(next) \in Stacks
    BY <1>0, <1>1, <1>3 DEF SlotsHold, Filled
  <2> QED
    BY <1>0, <1>3, <1>5, <1>7, <2>1, Resumed
<1>9. BootPhase'
  <2>1. Place(Boot)' = Place(Boot) /\ thread' # Boot
    BY <1>8, Constants DEF Place, Boot
  <2>2. \A t \in Threads : Place(t)' \notin InStart
    <3>1. \A t \in Threads : Place(t) \in InStart => t = Boot
      BY <1>1 DEF BootPhase
    <3> QED
      BY <1>2, <3>1 DEF Place
  <2> QED
    BY <1>0, <1>1, <1>2, <1>3, <1>5, <2>1, <2>2 DEF BootPhase
<1>10. StacksOwned'
  <2>1. \A t \in Threads : Place(t) \in {"frame", "load", "store"} =>
          /\ n \in Slots /\ g_tasks'[n].active = g_tasks[n].active
          /\ g_tasks'[n].esp.stack = StackOf(n)
    BY <1>0, <1>1, <1>7, BeforeFacts, PlacesApart DEF Slots
  <2> QED
    BY <1>0, <1>1, <1>5, <2>1 DEF StacksOwned, StackOf, Place
<1>11. SlotsHold'
  <2>1. \A i \in Slots : StackOf(i)' = StackOf(i) /\ (Filled(i)' <=> Filled(i))
    BY <1>7 DEF StackOf, Filled
  <2>2. \A i \in Slots : Place(StackOf(i))' = Place(StackOf(i))
                         /\ Esp(StackOf(i))' = Esp(StackOf(i))
    BY <2>1 DEF Place, Esp
  <2>3. StackOf(g_current_task)' = StackOf(next) /\ thread' \in Threads
    BY <1>3, <1>5, <1>7, <1>8 DEF StackOf, Threads
  <2>4. \A t \in Threads : Place(t)' = Place(t)
    BY DEF Place
  <2>5. \A s \in Stacks : Place(s)' = Place(s)
    BY DEF Place
  <2> QED
    BY <1>0, <1>1, <1>5, <1>7, <1>8, <2>1, <2>2, <2>3, <2>4, <2>5 DEF SlotsHold, Filled
<1>12. TurnsInOrder'
  <2> SUFFICES ASSUME NEW i \in Slots
               PROVE  /\ i < n => waited'[i] <= Behind(i)'
                      /\ i >= n => waited'[i] = 0
    BY <1>0, <1>5 DEF TurnsInOrder
  <2>1. Behind(i)' = IF i <= next THEN next - i ELSE n + next - i
    BY <1>0, <1>5 DEF Behind
  <2>2. Behind(i) = IF i <= cur THEN cur - i ELSE n + cur - i
    BY <1>0 DEF Behind
  <2>3. /\ i \in Nat /\ waited[i] \in Nat
        /\ i < n => waited[i] <= Behind(i)
    BY <1>0, <1>1, Numbers DEF TurnsInOrder
  <2>4. waited'[i] = IF i = next \/ i >= n THEN 0 ELSE waited[i] + 1
    BY <1>5
  <2> QED
    BY <1>0, <1>1, <1>2, <1>3, <2>1, <2>2, <2>3, <2>4
<1> QED
  BY <1>8, <1>9, <1>10, <1>11, <1>12 DEF Sound

LEMMA TickSound ==
  ASSUME Before, irq0_handler, misuse' = {}
  PROVE  Sound' /\ (thread # Boot => thread' # Boot)
<1>1. /\ Place(thread) \notin InStart /\ context' = context /\ allocated' = allocated
      /\ tasking_schedule(Esp(thread))
  BY Tick
<1>2. \A s \in Stacks : s # Boot
  BY Constants
<1>3. CASE UNCHANGED <<table, scheduler, thread, waited>>
  <2>1. UNCHANGED <<g_tasks, g_task_count, g_current_task, g_scheduler_started,
                    g_bootstrap_switch_pending, thread, waited>>
    BY <1>3 DEF table, scheduler
  <2>2. Sound
    BY DEF Before
  <2> QED
    BY <1>1, <2>1, <2>2 DEF Sound, BootPhase, Fresh, StacksOwned, SlotsHold, TurnsInOrder,
       Behind, Filled, StackOf, Place, Esp
<1>4. CASE /\ g_scheduler_started /\ g_task_count # 0 /\ g_bootstrap_switch_pending
           /\ FirstSwitch
  BY <1>1, <1>2, <1>4, FirstSwitchSound
<1>5. CASE /\ g_scheduler_started /\ g_task_count # 0 /\ ~g_bootstrap_switch_pending
           /\ Switch(Esp(thread))
  BY <1>1, <1>2, <1>5, SwitchSound
<1> QED
  BY <1>1, <1>3, <1>4, <1>5 DEF tasking_schedule

LEMMA SoundStep ==
  ASSUME Before, [Next]_vars, misuse' = {}
  PROVE  Sound' /\ (thread # Boot => thread' # Boot)
<1>1. CASE UNCHANGED vars
  <2>1. Sound
    BY DEF Before
  <2> QED
    BY <1>1, <2>1 DEF vars, table, scheduler, Sound, BootPhase, Fresh, StacksOwned,
       SlotsHold, TurnsInOrder, Behind, Filled, StackOf, Place, Esp
<1>2. CASE Work
  BY <1>2, WorkSound DEF Work
<1>3. CASE interrupts_enable
  BY <1>3, EnableSound DEF interrupts_enable
<1>4. CASE tasking_init
  BY <1>4, InitCallSound DEF tasking_init
<1>5. CASE CallCreate
  BY <1>5, CallSound DEF CallCreate
<1>6. CASE CreateGotStack
  BY <1>6, GotStackSound DEF CreateGotStack
<1>7. CASE CreateFill
  BY <1>7, FillSound DEF CreateFill
<1>8. CASE CreateFrame
  BY <1>8, FrameSound DEF CreateFrame
<1>9. CASE CreateLoad
  BY <1>9, LoadSound DEF CreateLoad
<1>10. CASE CreateStore
  BY <1>10, StoreSound DEF CreateStore
<1>11. CASE tasking_start
  BY <1>11, StartSound DEF tasking_start
<1>12. CASE irq0_handler
  BY <1>12, TickSound
<1> QED
  BY <1>1, <1>2, <1>3, <1>4, <1>5, <1>6, <1>7, <1>8, <1>9, <1>10, <1>11, <1>12
  DEF Next, task_create

\* A misuse is never forgotten.
LEMMA MisuseStays ==
  ASSUME [Next]_vars, misuse' = {} PROVE misuse = {}
BY DEF Next, vars, Work, interrupts_enable, tasking_init, task_create, CallCreate,
   CreateGotStack, CreateFill, CreateFrame, CreateLoad, CreateStore, tasking_start,
   irq0_handler

LEMMA InitSound == Init => Sound
<1> SUFFICES ASSUME Init PROVE Sound
  OBVIOUS
<1>1. /\ g_task_count = 0 /\ g_current_task = 0 /\ ~g_scheduler_started
      /\ ~g_bootstrap_switch_pending /\ thread = Boot /\ allocated = 0
      /\ \A i \in Slots : waited[i] = 0 /\ g_tasks[i] = EmptySlot
  BY DEF Init
<1>2. Place(Boot) = "code" /\ \A s \in Stacks : Place(s) = "none"
  <2>1. [NoContext EXCEPT !.place = "code"].place = "code" /\ NoContext.place = "none"
    BY DEF NoContext
  <2> QED
    BY <2>1, Constants DEF Init, Place, Threads
<1>3. \A t \in Threads : Place(t) \in {"code", "none"}
  BY <1>2 DEF Threads
<1>4. BootPhase
  BY <1>1, <1>2, <1>3 DEF BootPhase, Fresh, InStart
<1>5. StacksOwned
  BY <1>2, <1>3 DEF StacksOwned
<1>6. \A i \in Slots : ~Filled(i)
  BY <1>1, Constants DEF Filled, StackOf, EmptySlot, NoEsp
<1>7. \A i \in Slots : i >= 0 /\ ~(i < 0)
  BY Constants
<1>8. SlotsHold
  BY <1>1, <1>2, <1>6, <1>7, Constants DEF SlotsHold, Threads
<1>9. TurnsInOrder
  BY <1>1, <1>7 DEF TurnsInOrder
<1> QED
  BY <1>4, <1>5, <1>8, <1>9 DEF Sound

LEMMA InvStep == Inv /\ [Next]_vars => Inv'
<1> SUFFICES ASSUME Inv, [Next]_vars, misuse' = {} PROVE Sound'
  BY AloneStep DEF Inv
<1>1. Before
  BY MisuseStays DEF Before, Inv
<1> QED
  BY <1>1, SoundStep

LEMMA InvHolds == Spec => []Inv
<1>1. Init => Inv
  BY InitAlone, InitSound DEF Inv
<1> QED
  BY <1>1, InvStep, PTL DEF Spec

\* The processor never takes for a context what is none: a task is resumed
\* with the stack pointer it was interrupted with last, or with the context
\* task_create prepared (tasking.cpp:53-73 and 99-108).
THEOREM ContextNeverLost == Spec => []NeverLost
<1>1. Inv => NeverLost
  <2> SUFFICES ASSUME Inv, misuse = {} PROVE thread # Lost
    BY DEF NeverLost
  <2> QED
    BY Constants DEF Inv, Sound, SlotsHold
<1> QED
  BY <1>1, InvHolds, PTL

\* The slot of a task is its own, and is in use as soon as the count is
\* (tasking.cpp:47-74).
THEOREM TasksKept == Spec => []EveryTaskKept
<1>1. Inv => EveryTaskKept
  <2> SUFFICES ASSUME Inv, misuse = {}, NEW s \in Stacks, context[s].place # "none"
               PROVE  \E i \in 0 .. g_task_count :
                        /\ g_tasks[i].active
                        /\ \A j \in 0 .. g_task_count : g_tasks[j].esp.stack = s <=> j = i
                        /\ i = g_task_count =>
                             \E t \in Threads : /\ context[t].place \in {"load", "store"}
                                                /\ context[t].stack = s
    BY DEF EveryTaskKept
  <2>1. Before
    BY DEF Before, Inv
  <2>2. /\ SlotsHold /\ StacksOwned /\ g_task_count \in Nat /\ g_task_count <= MAX_TASKS
        /\ MAX_TASKS \in Nat /\ MaxStacks \in Nat
    BY <2>1, BeforeFacts
  <2>3. PICK i \in Slots : StackOf(i) = s
    BY <2>2 DEF SlotsHold, Place
  <2>4. Filled(i) /\ g_tasks[i].active
    BY <2>2, <2>3 DEF SlotsHold, Filled
  <2>5. i \in 0 .. g_task_count
    BY <2>2, <2>3, <2>4 DEF SlotsHold, Slots
  <2>6. \A j \in 0 .. g_task_count : g_tasks[j].esp.stack = s <=> j = i
    <3>1. \A j \in 0 .. g_task_count : j \in Slots
      BY <2>2 DEF Slots
    <3> QED
      BY <2>2, <2>3, <2>4, <3>1 DEF SlotsHold, StackOf
  <2>7. i = g_task_count => \E t \in Threads : /\ context[t].place \in {"load", "store"}
                                               /\ context[t].stack = s
    BY <2>2, <2>3, <2>4 DEF SlotsHold, StacksOwned, Place
  <2> QED
    BY <2>4, <2>5, <2>6, <2>7
<1> QED
  BY <1>1, InvHolds, PTL

\* Round robin: in the turns since its last, a task has seen each other task at
\* most once (tasking.cpp:101-110).
THEOREM TurnsFair == Spec => []FairTurns
<1>1. Inv => FairTurns
  <2> SUFFICES ASSUME Inv, misuse = {}, NEW i \in Slots, i < g_task_count
               PROVE  waited[i] < g_task_count
    BY DEF FairTurns
  <2>1. Before
    BY DEF Before, Inv
  <2>2. /\ BootPhase /\ TurnsInOrder /\ g_task_count \in Nat /\ g_current_task \in Nat
        /\ i \in Nat /\ waited[i] \in Nat
    BY <2>1, BeforeFacts, Numbers
  <2>3. g_current_task < g_task_count
    BY <2>2 DEF BootPhase, Fresh
  <2>4. waited[i] <= Behind(i)
    BY <2>2 DEF TurnsInOrder
  <2> QED
    BY <2>2, <2>3, <2>4 DEF Behind
<1> QED
  BY <1>1, InvHolds, PTL

\* The code that called tasking_start is left for good at the first switch,
\* which stores its context nowhere (tasking.cpp:93-97).
THEOREM BootNeverResumed == Spec => BootLeftForGood
<1>1. Inv /\ [Next]_vars => [misuse' = {} /\ thread # Boot => thread' # Boot]_vars
  <2> SUFFICES ASSUME Inv, [Next]_vars, misuse' = {}, thread # Boot PROVE thread' # Boot
    OBVIOUS
  <2>1. Before
    BY MisuseStays DEF Before, Inv
  <2> QED
    BY <2>1, SoundStep
<1> QED
  BY <1>1, InvHolds, PTL DEF Spec, BootLeftForGood
=============================================================================
