---------------------------------- MODULE Boot ----------------------------------
(***************************************************************************)
(* Start-up, from the first instruction of kernel_main to the shell: the   *)
(* order of kernel_main in src/kernel.cpp, the descriptors of              *)
(* src/modules/gdt/gdt.cpp, and the programming of the interrupt           *)
(* controllers and gates in src/modules/interrupts/interrupts.cpp.         *)
(*                                                                         *)
(* The processor decodes what the kernel has encoded: a segment register   *)
(* is loaded through the table lgdt has named, and an interrupt is         *)
(* delivered through the table lidt has named.  The loader leaves          *)
(* interrupts disabled and segments that work as long as none is loaded.   *)
(* The devices raise requests at any time.  The controllers are modelled   *)
(* as far as the kernel programs them: initialisation words, mask, edge    *)
(* triggered requests, one in service, and its end.                        *)
(***************************************************************************)
EXTENDS Naturals, Sequences

CONSTANTS
  Address,      \* where the entry stubs are
  TssAddress,
  StackTops,    \* ends of stacks kmalloc can return
  BiosMasks     \* masks the BIOS can leave

Stubs == {"isr0_stub", "isr13_stub", "isr14_stub", "irq0_stub", "irq1_stub",
          "syscall_stub"}

BYTE == 2 ^ 8
HALF == 2 ^ 16

\* Addresses have two halves of 16 bits.
ASSUME BootAssumption ==
  /\ Address \in [Stubs -> Nat] /\ TssAddress \in Nat
  /\ \A s \in Stubs : Address[s] \div HALF < HALF
  /\ TssAddress \div HALF < HALF
  /\ StackTops \subseteq Nat
  /\ \A s, t \in Stubs : s # t => Address[s] # Address[t]

VARIABLES
  pc,
  g_gdt, g_tss, g_idt,
  loaded,      \* which of lgdt and lidt have been executed
  segments,    \* the selectors in cs, ds (with es, fs, gs and ss) and tr
  IF_flag,
  stack,       \* ring0_stack + 8 KiB in kernel_main
  pic,         \* the master and the slave controller
  full,        \* the keyboard controller holds a scancode nobody has read
  early,       \* it came before the controllers were initialised
  mask2,       \* local of pic_remap
  writes       \* how many of its writes pic_remap has done

tables == <<g_gdt, g_tss, g_idt>>
machine == <<loaded, segments, IF_flag>>
devices == <<pic, full, early>>
vars == <<pc, tables, machine, stack, devices, mask2, writes>>

KERNEL_CS_SELECTOR == 8
KERNEL_DS_SELECTOR == 16
USER_CS_SELECTOR == 27
USER_DS_SELECTOR == 35
TSS_SELECTOR == 40

-----------------------------------------------------------------------------

(* Descriptors as they are written. *)

\* gdt_set_entry; a flag in the upper half of a byte stays there.
gdt_set_entry(base, limit, access, flags) ==
  [limit_low |-> limit % HALF, base_low |-> base % HALF,
   base_mid |-> (base \div HALF) % BYTE, access |-> access,
   granularity |-> ((limit \div HALF) % 16) + (flags - (flags % 16)),
   base_high |-> (base \div (HALF * BYTE)) % BYTE]

NullEntry == gdt_set_entry(0, 0, 0, 0)

\* idt_set_gate, and an empty gate.
idt_set_gate(stub, type_attr) ==
  [offset_low |-> Address[stub] % HALF, selector |-> KERNEL_CS_SELECTOR,
   type_attr |-> type_attr, offset_high |-> (Address[stub] \div HALF) % HALF]

NoGate == [offset_low |-> 0, selector |-> 0, type_attr |-> 0, offset_high |-> 0]

InterruptGate == 142
UserTrapGate == 239

-----------------------------------------------------------------------------

(* Descriptors as the processor reads them. *)

Bit(byte, n) == (byte \div 2 ^ n) % 2 = 1

Decoded(e) ==
  [base |-> e.base_low + HALF * (e.base_mid + BYTE * e.base_high),
   limit |-> e.limit_low + HALF * (e.granularity % 16),
   pages |-> Bit(e.granularity, 7), wide |-> Bit(e.granularity, 6),
   present |-> Bit(e.access, 7), dpl |-> (e.access \div 32) % 4,
   type |-> e.access % 32]

CodeReadable == 26
DataWritable == 18
TssAvailable == 9

\* What a selector leads to, nothing that works before lgdt.
Descriptor(selector) ==
  Decoded(IF "gdt" \in loaded THEN g_gdt[selector \div 8] ELSE NullEntry)

\* A segment of the whole address space, for privilege level dpl.
Flat(type, dpl) ==
  [base |-> 0, limit |-> 2 ^ 20 - 1, pages |-> TRUE, wide |-> TRUE,
   present |-> TRUE, dpl |-> dpl, type |-> type]

\* Where a vector leads, 0 for a fault.
Entry(vector) ==
  LET gate == g_idt[vector] IN
  IF /\ "idt" \in loaded
     /\ Bit(gate.type_attr, 7)
     /\ Descriptor(gate.selector) = Flat(CodeReadable, 0)
  THEN gate.offset_low + HALF * gate.offset_high ELSE 0

-----------------------------------------------------------------------------

(* The interrupt controllers. *)

Master == 1
Slave == 2
IRQs == {0, 1}    \* the timer and the keyboard, both on the master

ICW1 == 17
PIC_EOI == 32

\* The BIOS has left its vectors, and any mask.
BiosPic(offset, mask) ==
  [offset |-> offset, mask |-> mask, icw |-> 0, requests |-> {}, service |-> {}]

\* ICW1 starts an initialisation: requests and the mask are cleared.
PicCommand(p, byte) ==
  IF Bit(byte, 4) THEN [p EXCEPT !.icw = 2, !.requests = {}, !.mask = 0, !.service = {}]
  ELSE IF byte = PIC_EOI THEN [p EXCEPT !.service = {}] ELSE p

\* ICW2 to ICW4 in turn, then the mask.
PicData(p, byte) ==
  CASE p.icw = 2     -> [p EXCEPT !.icw = 3, !.offset = byte - (byte % 8)]
    [] p.icw = 3     -> [p EXCEPT !.icw = 4]
    [] p.icw = 4     -> [p EXCEPT !.icw = 0]
    [] p.icw = 0     -> [p EXCEPT !.mask = byte]

\* The request the controller passes on, if there is one.
Waiting ==
  {irq \in pic[Master].requests :
     /\ ~Bit(pic[Master].mask, irq)
     /\ pic[Master].icw = 0 /\ pic[Master].service = {}
     /\ \A other \in pic[Master].requests :
          Bit(pic[Master].mask, other) \/ irq <= other}

Request(irq) == pic' = [pic EXCEPT ![Master].requests = @ \cup {irq}]

\* A tick of the PIT.
TimerTick ==
  /\ Request(0)
  /\ UNCHANGED <<pc, tables, machine, stack, full, early, mask2, writes>>

\* A scancode: the next one waits for this one to be read.
KeyPress ==
  /\ ~full
  /\ full' = TRUE
  /\ early' = (writes = 0)
  /\ Request(1)
  /\ UNCHANGED <<pc, tables, machine, stack, mask2, writes>>

-----------------------------------------------------------------------------

(* The code, which stays on one line of steps. *)

Goto(at, next) == pc = at /\ pc' = next

\* vga_init, paging_init and kmalloc_init touch nothing that is here.
kernel_main ==
  /\ \/ Goto("kernel_main", "gdt_tss_init") /\ stack' \in StackTops
     \/ /\ \/ Goto("kernel_main", "halt")              \* no ring 0 stack
           \/ Goto("keyboard_init", "user_stack")
           \/ Goto("user_stack", "interrupts_enable")
           \/ Goto("user_stack", "halt")
        /\ UNCHANGED stack
  /\ UNCHANGED <<tables, machine, devices, mask2, writes>>

\* The segments and the TSS.
gdt_tss_init ==
  \/ /\ Goto("gdt_tss_init", "lgdt")
     /\ g_gdt' = [i \in 0 .. 5 |->
          CASE i = 0 -> NullEntry
            [] i = 1 -> gdt_set_entry(0, 1048575, 154, 192)
            [] i = 2 -> gdt_set_entry(0, 1048575, 146, 192)
            [] i = 3 -> gdt_set_entry(0, 1048575, 250, 192)
            [] i = 4 -> gdt_set_entry(0, 1048575, 242, 192)
            [] i = 5 -> gdt_set_entry(TssAddress, 103, 137, 0)]
     /\ g_tss' = [ss0 |-> KERNEL_DS_SELECTOR, esp0 |-> stack, iomap_base |-> 104]
     /\ UNCHANGED <<g_idt, machine, stack, devices, mask2, writes>>
  \/ /\ Goto("lgdt", "data_segments")
     /\ loaded' = loaded \cup {"gdt"}
     /\ UNCHANGED <<tables, segments, IF_flag, stack, devices, mask2, writes>>
  \/ /\ Goto("data_segments",
             IF Descriptor(KERNEL_DS_SELECTOR) = Flat(DataWritable, 0)
             THEN "ljmp" ELSE "fault")
     /\ segments' = [segments EXCEPT !.ds = KERNEL_DS_SELECTOR]
     /\ UNCHANGED <<tables, loaded, IF_flag, stack, devices, mask2, writes>>
  \/ /\ Goto("ljmp", IF Descriptor(KERNEL_CS_SELECTOR) = Flat(CodeReadable, 0)
                     THEN "ltr" ELSE "fault")
     /\ segments' = [segments EXCEPT !.cs = KERNEL_CS_SELECTOR]
     /\ UNCHANGED <<tables, loaded, IF_flag, stack, devices, mask2, writes>>
  \/ /\ Goto("ltr", IF /\ Descriptor(TSS_SELECTOR).present
                       /\ Descriptor(TSS_SELECTOR).type = TssAvailable
                    THEN "interrupts_init" ELSE "fault")
     /\ segments' = [segments EXCEPT !.tr = TSS_SELECTOR]
     /\ UNCHANGED <<tables, loaded, IF_flag, stack, devices, mask2, writes>>

Out(chip, port, byte) == [chip |-> chip, port |-> port, byte |-> byte]

\* Wrong variant: the vectors of the BIOS are kept.
PicWrites_NoOffset ==
  <<Out(Master, "command", ICW1), Out(Slave, "command", ICW1),
    Out(Master, "data", 8), Out(Slave, "data", 112),
    Out(Master, "data", 4), Out(Slave, "data", 2),
    Out(Master, "data", 1), Out(Slave, "data", 1), Out(Master, "data", 252)>>

\* The writes of pic_remap(32, 40): ICW1 to ICW4, and the mask of the master,
\* which lets the timer and the keyboard through.
PicWrites ==
  <<Out(Master, "command", ICW1), Out(Slave, "command", ICW1),
    Out(Master, "data", 32), Out(Slave, "data", 40),
    Out(Master, "data", 4), Out(Slave, "data", 2),
    Out(Master, "data", 1), Out(Slave, "data", 1), Out(Master, "data", 252)>>

Written(write) ==
  [pic EXCEPT ![write.chip] = IF write.port = "command" THEN PicCommand(@, write.byte)
                                                        ELSE PicData(@, write.byte)]

\* One write after the other; the last gives the slave its mask back.
pic_remap ==
  /\ \/ /\ Goto("pic_remap", "pic_write")
        /\ mask2' = pic[Slave].mask
        /\ UNCHANGED <<pic, writes>>
     \/ /\ Goto("pic_write", "pic_write") /\ writes < Len(PicWrites)
        /\ pic' = Written(PicWrites[writes + 1])
        /\ writes' = writes + 1
        /\ UNCHANGED mask2
     \/ /\ Goto("pic_write", "gates") /\ writes = Len(PicWrites)
        /\ pic' = Written(Out(Slave, "data", mask2))
        /\ UNCHANGED <<mask2, writes>>
  /\ UNCHANGED <<tables, machine, stack, full, early>>

EmptyIdt == [vector \in 0 .. 255 |-> NoGate]

Gates ==
  [vector \in {0, 13, 14, 32, 33, 144} |->
     CASE vector = 0   -> idt_set_gate("isr0_stub", InterruptGate)
       [] vector = 13  -> idt_set_gate("isr13_stub", InterruptGate)
       [] vector = 14  -> idt_set_gate("isr14_stub", InterruptGate)
       [] vector = 32  -> idt_set_gate("irq0_stub", InterruptGate)
       [] vector = 33  -> idt_set_gate("irq1_stub", InterruptGate)
       [] vector = 144 -> idt_set_gate("syscall_stub", UserTrapGate)]

interrupts_init ==
  \/ /\ Goto("interrupts_init", "pic_remap")
     /\ g_idt' = EmptyIdt
     /\ UNCHANGED <<g_gdt, g_tss, machine, stack, devices, mask2, writes>>
  \/ pic_remap
  \/ /\ Goto("gates", "lidt")
     /\ g_idt' = [vector \in 0 .. 255 |->
                    IF vector \in DOMAIN Gates THEN Gates[vector] ELSE g_idt[vector]]
     /\ UNCHANGED <<g_gdt, g_tss, machine, stack, devices, mask2, writes>>
  \/ /\ Goto("lidt", "keyboard_init")
     /\ loaded' = loaded \cup {"idt"}
     /\ UNCHANGED <<tables, segments, IF_flag, stack, devices, mask2, writes>>

interrupts_enable ==
  /\ Goto("interrupts_enable", "kernel_shell_loop")
  /\ IF_flag' = TRUE
  /\ UNCHANGED <<tables, loaded, segments, stack, devices, mask2, writes>>

Code == kernel_main \/ gdt_tss_init \/ interrupts_init \/ interrupts_enable

-----------------------------------------------------------------------------

(* Interrupts. *)

\* Wrong variant: the end of the interrupt is not signalled.
Handled_NoEoi(p, irq) == [p EXCEPT !.requests = @ \ {irq}, !.service = {irq}]

Handled(p, irq) ==
  PicCommand([p EXCEPT !.requests = @ \ {irq}, !.service = {irq}], PIC_EOI)

\* The stub the vector leads to, with its handler: irq1_handler reads the
\* scancode.  The interrupt gates keep other interrupts out.
Deliver(irq) ==
  LET entry == Entry(pic[Master].offset + irq) IN
  /\ IF_flag /\ irq \in Waiting
  /\ CASE entry = Address["irq0_stub"] ->
            pic' = [pic EXCEPT ![Master] = Handled(@, irq)] /\ UNCHANGED <<pc, full, early>>
       [] entry = Address["irq1_stub"] ->
            /\ pic' = [pic EXCEPT ![Master] = Handled(@, irq)]
            /\ full' = FALSE /\ early' = FALSE
            /\ UNCHANGED pc
       [] OTHER -> pc' = "fault" /\ UNCHANGED devices
  /\ UNCHANGED <<tables, machine, stack, mask2, writes>>

\* The loader's state, with the vectors of the BIOS.
Init ==
  /\ pc = "kernel_main"
  /\ g_gdt = [i \in 0 .. 5 |-> NullEntry]
  /\ g_tss = [ss0 |-> 0, esp0 |-> 0, iomap_base |-> 0]
  /\ g_idt = EmptyIdt
  /\ loaded = {}
  /\ segments = [cs |-> 0, ds |-> 0, tr |-> 0]
  /\ IF_flag = FALSE
  /\ stack = 0
  /\ \E masks \in [{Master, Slave} -> BiosMasks] :
       pic = [chip \in {Master, Slave} |->
                BiosPic(IF chip = Master THEN 8 ELSE 112, masks[chip])]
  /\ full = FALSE /\ early = FALSE
  /\ mask2 = 0 /\ writes = 0

Next == Code \/ TimerTick \/ KeyPress \/ \E irq \in IRQs : Deliver(irq)

Spec == Init /\ [][Next]_vars

\* The processor goes on, and serves the timer well before its next tick, which
\* leaves it time for the keyboard.
FairSpec == Spec /\ WF_vars(Code) /\ \A irq \in IRQs : SF_vars(Deliver(irq))

-----------------------------------------------------------------------------

\* No segment is loaded and no interrupt delivered before what it needs is
\* there, and what the processor then reads from the tables is what the code
\* meant: flat segments of both privilege levels, and a TSS that leads back to
\* the kernel's stack (gdt.cpp:56-126, interrupts.cpp:104-172,
\* kernel.cpp:128-160).
TablesReady ==
  /\ pc # "fault"
  /\ IF_flag =>
       /\ segments = [cs |-> KERNEL_CS_SELECTOR, ds |-> KERNEL_DS_SELECTOR,
                      tr |-> TSS_SELECTOR]
       /\ Descriptor(USER_CS_SELECTOR) = Flat(CodeReadable, 3)
       /\ Descriptor(USER_DS_SELECTOR) = Flat(DataWritable, 3)
       /\ Descriptor(TSS_SELECTOR).base = TssAddress
       /\ Descriptor(g_tss.ss0) = Flat(DataWritable, 0)
       /\ g_tss.esp0 \in StackTops
       /\ Entry(144) = Address["syscall_stub"] /\ Entry(0) = Address["isr0_stub"]

\* A key is heard in the end, at whatever point of the start it is pressed,
\* unless kmalloc has failed, or it came before the controllers were
\* initialised: that forgets its request, and the byte nobody reads keeps the
\* keyboard silent (interrupts.cpp:120-147, 229-234).
KeyHeard == (full /\ ~early) ~> (~full \/ pc = "halt")
=============================================================================
