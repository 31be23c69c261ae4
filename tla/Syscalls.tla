------------------------------- MODULE Syscalls -------------------------------
(***************************************************************************)
(* The way into the kernel and back: the entry stubs of                    *)
(* src/modules/interrupts/interrupts_entry.asm, instruction by             *)
(* instruction where registers and stack matter, the system call           *)
(* dispatcher and the int 0x90 wrappers of src/modules/syscalls.           *)
(*                                                                         *)
(* The processor is a record of its registers, its stack (a sequence of    *)
(* dwords, the top first), the flag that enables interrupts and the place  *)
(* it executes.  Everything runs in ring 0 on one stack: nothing in the    *)
(* kernel calls enter_ring3.  What the kernel does for a call is kept as   *)
(* the call's name and arguments; its result is any dword.                 *)
(***************************************************************************)
EXTENDS Naturals, Sequences

CONSTANTS
  HALF,        \* 2^16: "mov ax" replaces what is below it
  WORD,        \* 2^32
  Args,        \* the dwords passed as arguments
  Results,     \* the dwords kernel functions return
  ErrorCodes   \* the error codes the processor pushes

ASSUME SyscallsAssumption ==
  /\ HALF \in Nat /\ HALF > 16 /\ WORD = HALF * HALF
  /\ Args \cup Results \cup ErrorCodes \subseteq 0 .. WORD - 1

VARIABLES
  cpu,
  request,    \* the registers when the last int 0x90 was executed
  served,     \* what the kernel did for it
  answer,     \* what syscall_handler returned for it
  raised,     \* the exception the processor raised: <<vector, error code>>
  reported    \* the arguments cpu_exception_handler got

vars == <<cpu, request, served, answer, raised, reported>>

\* Places the processor can be: in C code, after an int 0x90, in syscall_stub.
Code == 0
Returned == 1
Stub == 2
LoadSegments == 3
PushArguments == 4
CallHandler == 5
DropArguments == 6
PopRegisters == 7
ReturnFromInt == 8
Halted == 9

RegisterNames == {"eax", "ecx", "edx", "ebx", "ebp", "esi", "edi"}
DataSegment == 16
CodeSegment == 8

Nothing == << >>
MinusOne == WORD - 1

-----------------------------------------------------------------------------

(* Instructions. *)

push(m, dword) == [m EXCEPT !.stack = <<dword>> \o @]
drop(m, n) == [m EXCEPT !.stack = SubSeq(@, n + 1, Len(@))]

\* pusha and pushad; esp is pushed but never popped.
pushad(m) ==
  [m EXCEPT !.stack =
     <<m.regs.edi, m.regs.esi, m.regs.ebp, 0,
       m.regs.ebx, m.regs.edx, m.regs.ecx, m.regs.eax>> \o @]

popad(m) ==
  [drop(m, 8) EXCEPT !.regs =
     [edi |-> m.stack[1], esi |-> m.stack[2], ebp |-> m.stack[3],
      ebx |-> m.stack[5], edx |-> m.stack[6], ecx |-> m.stack[7],
      eax |-> m.stack[8]]]

\* Entering through a gate (flag: whether interrupts stay enabled), and iretd.
enter(m, flag, eip) ==
  [m EXCEPT !.stack = <<m.eip, CodeSegment, m.flag>> \o @,
            !.flag = flag, !.eip = eip]
iretd(m) == [drop(m, 3) EXCEPT !.eip = m.stack[1], !.flag = m.stack[3]]

\* A C function returns r and may leave anything in ecx and edx.
Returns(m, r, junk) ==
  [m EXCEPT !.regs.eax = r, !.regs.ecx = junk, !.regs.edx = junk]

-----------------------------------------------------------------------------

\* What the dispatcher calls for a number, and whether it passes the result on.
Services == <<
  [name |-> "interrupts_get_ticks", args |-> 0, result |-> TRUE],
  [name |-> "ksys_write",           args |-> 2, result |-> TRUE],
  [name |-> "ksys_getchar",         args |-> 0, result |-> TRUE],
  [name |-> "ksys_putchar",         args |-> 1, result |-> FALSE],
  [name |-> "ksys_clear_screen",    args |-> 0, result |-> FALSE],
  [name |-> "kmalloc",              args |-> 1, result |-> TRUE],
  [name |-> "kfree",                args |-> 1, result |-> FALSE],
  [name |-> "kcalloc",              args |-> 2, result |-> TRUE],
  [name |-> "krealloc",             args |-> 2, result |-> TRUE],
  [name |-> "ksize",                args |-> 1, result |-> TRUE],
  [name |-> "kmalloc_total",        args |-> 0, result |-> TRUE],
  [name |-> "kmalloc_used",         args |-> 0, result |-> TRUE],
  [name |-> "kmalloc_remaining",    args |-> 0, result |-> TRUE],
  [name |-> "ksys_shell_exec",      args |-> 1, result |-> TRUE] >>

Numbers == 0 .. Len(Services) - 1

\* What a call with these registers asks for.
Service(eax, ebx, ecx) ==
  IF eax \in Numbers
  THEN LET s == Services[eax + 1]
       IN  <<s.name>> \o SubSeq(<<ebx, ecx>>, 1, s.args)
  ELSE Nothing

\* syscall_handler(eax, ebx, ecx, edx) with result r: the default case is -1.
syscall_handler(eax, ebx, ecx, r) ==
  /\ served' = Service(eax, ebx, ecx)
  /\ r = (IF eax \notin Numbers THEN MinusOne
          ELSE IF Services[eax + 1].result THEN r ELSE 0)
  /\ answer' = r

\* A wrapper loads the number and its arguments and executes int 0x90, whose
\* gate is a trap gate: interrupts stay enabled.
Wrapper(number, ebx, ecx) ==
  LET loaded == [cpu EXCEPT !.regs.eax = number, !.regs.ebx = ebx,
                            !.regs.ecx = ecx, !.eip = Returned]
  IN  /\ cpu.eip = Code
      /\ cpu' = enter(loaded, cpu.flag, Stub)
      /\ request' = loaded.regs
      /\ served' = Nothing /\ answer' = MinusOne
      /\ UNCHANGED <<raised, reported>>

Step(at, next, m) ==
  /\ cpu.eip = at
  /\ cpu' = [m EXCEPT !.eip = next]

\* Wrong variant: three of the four arguments are dropped.
DropCount_Three == 3

\* The arguments syscall_stub drops after the call (add esp, 16).
DropCount == 4

syscall_stub ==
  \/ /\ \/ Step(Stub, LoadSegments,          \* pusha, push ds, es, fs and gs
                push(push(push(push(pushad(cpu), DataSegment), DataSegment),
                          DataSegment), DataSegment))
        \/ Step(LoadSegments, PushArguments, \* mov ax, 0x10; mov ds, ax; ...
                [cpu EXCEPT !.regs.eax = @ - (@ % HALF) + DataSegment])
        \/ Step(PushArguments, CallHandler,
                push(push(push(push(cpu, cpu.regs.edx), cpu.regs.ecx),
                          cpu.regs.ebx), cpu.regs.eax))
        \/ Step(DropArguments, PopRegisters, \* add esp, 16; pop gs, fs, es, ds
                drop(cpu, DropCount + 4))
        \/ Step(PopRegisters, ReturnFromInt, popad(cpu))
        \/ /\ cpu.eip = ReturnFromInt
           /\ cpu' = iretd(cpu)
     /\ UNCHANGED <<served, answer>>
  \/ \E r \in Results \cup {0, MinusOne}, junk \in Results :
       /\ Step(CallHandler, DropArguments, Returns(cpu, r, junk))
       /\ syscall_handler(cpu.stack[1], cpu.stack[2], cpu.stack[3], r)

Syscall == syscall_stub /\ UNCHANGED <<request, raised, reported>>

\* The wrapper hands on what is in eax; the caller goes on with it.
Continue ==
  /\ cpu.eip = Returned
  /\ cpu' = [cpu EXCEPT !.eip = Code]
  /\ UNCHANGED <<request, served, answer, raised, reported>>

\* Wrong variant: the registers are not put back.
irq_stub_NoPopad(m, r, junk) ==
  iretd(drop(Returns(pushad(enter(m, 0, m.eip)), r, junk), 8))

\* irq0_stub and irq1_stub: with no task to switch to, irq0_handler returns
\* the esp it was given, and what irq0_stub does to esp comes to nothing.
irq_stub(m, r, junk) ==
  iretd(popad(Returns(pushad(enter(m, 0, m.eip)), r, junk)))

Interrupt ==
  /\ cpu.flag = 1
  /\ \E r, junk \in Results : cpu' = irq_stub(cpu, r, junk)
  /\ UNCHANGED <<request, served, answer, raised, reported>>

\* Wrong variant: the error code is looked for a dword too high.
exception_stub_Offset(m, vector) ==
  LET saved == pushad(m) IN
  IF vector = 0 THEN push(push(saved, 0), 0)
  ELSE push(push(saved, saved.stack[10]), vector)

\* The stack cpu_exception_handler finds: the stub of vector 0 pushes a zero
\* where the processor has pushed an error code for the others.
exception_stub(m, vector) ==
  LET saved == pushad(m) IN
  IF vector = 0 THEN push(push(saved, 0), 0)
  ELSE push(push(saved, saved.stack[9]), vector)

\* C code faults, and cpu_exception_handler never returns.
Exception(vector, error) ==
  LET entered == enter(cpu, 0, Halted)
      faulted == IF vector = 0 THEN entered ELSE push(entered, error)
      args    == exception_stub(faulted, vector).stack
  IN  /\ cpu.eip = Code
      /\ raised' = <<vector, IF vector = 0 THEN 0 ELSE error>>
      /\ reported' = <<args[1], args[2]>>
      /\ cpu' = exception_stub(faulted, vector)
      /\ UNCHANGED <<request, served, answer>>

\* Any values that tell the registers apart.
InitialRegisters ==
  [eax |-> 0, ecx |-> 1, edx |-> 2, ebx |-> 3, ebp |-> 4, esi |-> 5, edi |-> 6]

Init ==
  /\ cpu = [regs |-> InitialRegisters, stack |-> << >>, flag |-> 1, eip |-> Code]
  /\ request = InitialRegisters
  /\ served = Nothing /\ answer = MinusOne
  /\ raised = Nothing /\ reported = Nothing

Next ==
  \/ \E number \in Numbers, ebx, ecx \in Args : Wrapper(number, ebx, ecx)
  \/ Syscall
  \/ Continue
  \/ Interrupt
  \/ \E vector \in {0, 13, 14}, error \in ErrorCodes : Exception(vector, error)

Spec == Init /\ [][Next]_vars

-----------------------------------------------------------------------------

TypeOK ==
  /\ cpu.regs \in [RegisterNames -> 0 .. WORD - 1]
  /\ cpu.stack \in Seq(0 .. WORD - 1)
  /\ cpu.flag \in {0, 1} /\ cpu.eip \in Code .. Halted
  /\ answer \in 0 .. WORD - 1

\* A system call gives the caller all its registers and its stack back, however
\* many interrupts came between the instructions of the stub and whatever the
\* kernel's C code left in the registers (interrupts_entry.asm:44-89).
CallerContextKept ==
  cpu.eip = Returned => /\ cpu.stack = << >>
                        /\ \A r \in RegisterNames \ {"eax"} :
                             cpu.regs[r] = request[r]

\* The panic screen shows the exception that was raised and the processor's
\* error code (interrupts_entry.asm:15-42).
ExceptionReported == reported = raised

-----------------------------------------------------------------------------

\* A system call does what its number asks for and the wrapper returns what the
\* dispatcher answered: "implemented numbers in dispatcher: GET_TICKS(0), ..."
\* (README.md:83-86) and "syscall result" (README.md:114).  A run refutes it:
\* the stub loads the segment registers through ax before it passes eax on,
\* and popa puts the caller's eax back over the answer.
CallServed ==
  cpu.eip = Returned =>
    /\ served = Service(request.eax, request.ebx, request.ecx)
    /\ cpu.regs.eax = answer
=============================================================================
