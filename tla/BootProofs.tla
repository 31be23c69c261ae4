------------------------------ MODULE BootProofs ------------------------------
(***************************************************************************)
(* Proofs about Boot, for all addresses of 32 bits, every stack kmalloc    *)
(* can return and all masks the BIOS can leave: the start goes through     *)
(* tables that are ready, at whatever steps interrupts are requested.      *)
(***************************************************************************)
EXTENDS Boot, TLAPS

-----------------------------------------------------------------------------

(* Encoding and decoding. *)

\* The descriptor table, as gdt_tss_init leaves it.
GdtReady ==
  g_gdt = [i \in 0 .. 5 |->
             CASE i = 0 -> NullEntry
               [] i = 1 -> gdt_set_entry(0, 1048575, 154, 192)
               [] i = 2 -> gdt_set_entry(0, 1048575, 146, 192)
               [] i = 3 -> gdt_set_entry(0, 1048575, 250, 192)
               [] i = 4 -> gdt_set_entry(0, 1048575, 242, 192)
               [] i = 5 -> gdt_set_entry(TssAddress, 103, 137, 0)]

\* An address is its two halves, and its lower half and two bytes.
LEMMA AddressParts ==
  ASSUME NEW a \in Nat, a \div HALF < HALF
  PROVE  /\ (a % HALF) + HALF * ((a \div HALF) % HALF) = a
         /\ (a % HALF) + HALF * (((a \div HALF) % BYTE)
              + BYTE * ((a \div (HALF * BYTE)) % BYTE)) = a
<1>1. HALF = 65536 /\ BYTE = 256
  BY DEF HALF, BYTE
<1>2. PICK h, l : h = a \div 65536 /\ l = a % 65536
  OBVIOUS
<1>3. h \in Nat /\ l \in Nat /\ h < 65536 /\ a = 65536 * h + l
  BY <1>1, <1>2
<1>4. h % 65536 = h
  BY <1>3
<1>5. PICK q, m : q = h \div 256 /\ m = h % 256
  OBVIOUS
<1>6. q \in Nat /\ m \in Nat /\ m < 256 /\ h = 256 * q + m /\ q < 256
  BY <1>3, <1>5
<1>7. a \div 16777216 = q
  <2>1. PICK rest : rest = 65536 * m + l
    OBVIOUS
  <2>2. l <= 65535
    BY <1>2
  <2>3. rest \in Nat /\ rest < 16777216 /\ a = 16777216 * q + rest
    BY <1>3, <1>6, <2>1, <2>2
  <2> QED
    BY <1>6, <2>3
<1>8. q % 256 = q
  BY <1>6
<1> QED
  BY <1>1, <1>2, <1>3, <1>4, <1>5, <1>6, <1>7, <1>8

\* What the processor reads of a segment of the kernel or of ring 3 is the
\* segment of the whole address space that its access byte asks for.
LEMMA SegmentsDecoded ==
  /\ Decoded(gdt_set_entry(0, 1048575, 154, 192)) = Flat(CodeReadable, 0)
  /\ Decoded(gdt_set_entry(0, 1048575, 146, 192)) = Flat(DataWritable, 0)
  /\ Decoded(gdt_set_entry(0, 1048575, 250, 192)) = Flat(CodeReadable, 3)
  /\ Decoded(gdt_set_entry(0, 1048575, 242, 192)) = Flat(DataWritable, 3)
<1>1. /\ HALF = 65536 /\ BYTE = 256
      /\ 2 ^ 7 = 128 /\ 2 ^ 6 = 64 /\ 2 ^ 20 - 1 = 1048575
  BY DEF HALF, BYTE
<1>2. /\ 0 % HALF = 0 /\ (0 \div HALF) % BYTE = 0 /\ (0 \div (HALF * BYTE)) % BYTE = 0
      /\ 0 + HALF * (0 + BYTE * 0) = 0
      /\ 1048575 % HALF = 65535 /\ (1048575 \div HALF) % 16 = 15
      /\ 15 + (192 - (192 % 16)) = 207 /\ 207 % 16 = 15
      /\ 65535 + HALF * 15 = 1048575
  BY <1>1
<1>3. Bit(207, 7) /\ Bit(207, 6)
  BY <1>1 DEF Bit
<1>0. PICK pages20 : pages20 = 1048575
  OBVIOUS
<1>4. ASSUME NEW access \in {154, 146, 250, 242}
      PROVE  Decoded(gdt_set_entry(0, pages20, access, 192))
               = Flat(access % 32, (access \div 32) % 4)
  <2>1. Bit(access, 7)
    BY <1>1 DEF Bit
  <2>2. PICK e : e = gdt_set_entry(0, pages20, access, 192)
    OBVIOUS
  <2>3. /\ e.base_low = 0 /\ e.base_mid = 0 /\ e.base_high = 0
        /\ e.limit_low = 65535 /\ e.granularity = 207 /\ e.access = access
    BY <1>0, <1>2, <2>2 DEF gdt_set_entry
  <2>4. /\ e.base_low + HALF * (e.base_mid + BYTE * e.base_high) = 0
        /\ e.limit_low + HALF * (e.granularity % 16) = 2 ^ 20 - 1
    BY <1>1, <1>2, <2>3
  <2>5. /\ Bit(e.granularity, 7) = TRUE /\ Bit(e.granularity, 6) = TRUE
        /\ Bit(e.access, 7) = TRUE
    BY <1>3, <2>1, <2>3 DEF Bit
  <2>6. PICK base, limit, pages, wide, present, dpl, type :
          /\ base = e.base_low + HALF * (e.base_mid + BYTE * e.base_high)
          /\ limit = e.limit_low + HALF * (e.granularity % 16)
          /\ pages = Bit(e.granularity, 7) /\ wide = Bit(e.granularity, 6)
          /\ present = Bit(e.access, 7) /\ dpl = (e.access \div 32) % 4
          /\ type = e.access % 32
    OBVIOUS
  <2>7. Decoded(e) = [base |-> base, limit |-> limit, pages |-> pages, wide |-> wide,
                      present |-> present, dpl |-> dpl, type |-> type]
    BY <2>6, SMT DEF Decoded
  <2>8. /\ base = 0 /\ limit = 2 ^ 20 - 1 /\ pages = TRUE /\ wide = TRUE
        /\ present = TRUE /\ dpl = (access \div 32) % 4 /\ type = access % 32
    BY <2>3, <2>4, <2>5, <2>6, SMT
  <2>9. Decoded(e) = Flat(access % 32, (access \div 32) % 4)
    BY <2>7, <2>8, SMT DEF Flat
  <2> QED
    BY <2>2, <2>9, SMT
<1>5. /\ 154 % 32 = CodeReadable /\ (154 \div 32) % 4 = 0
      /\ 146 % 32 = DataWritable /\ (146 \div 32) % 4 = 0
      /\ 250 % 32 = CodeReadable /\ (250 \div 32) % 4 = 3
      /\ 242 % 32 = DataWritable /\ (242 \div 32) % 4 = 3
  BY DEF CodeReadable, DataWritable
<1> QED
  BY <1>0, <1>4, <1>5

\* The TSS's descriptor is one, and leads to it.
LEMMA TssDecoded ==
  LET tss == Decoded(gdt_set_entry(TssAddress, 103, 137, 0))
  IN  tss.present /\ tss.type = TssAvailable /\ tss.base = TssAddress
<1>1. 2 ^ 7 = 128
  OBVIOUS
<1>2. Bit(137, 7) /\ 137 % 32 = TssAvailable
  BY <1>1 DEF Bit, TssAvailable
<1>3. (TssAddress % HALF) + HALF * (((TssAddress \div HALF) % BYTE)
              + BYTE * ((TssAddress \div (HALF * BYTE)) % BYTE)) = TssAddress
  BY AddressParts, BootAssumption
<1> QED
  BY <1>2, <1>3 DEF Decoded, gdt_set_entry

\* So selectors lead where they are meant to, once lgdt is executed.
LEMMA SelectorsLead ==
  ASSUME GdtReady, "gdt" \in loaded
  PROVE  /\ Descriptor(KERNEL_CS_SELECTOR) = Flat(CodeReadable, 0)
         /\ Descriptor(KERNEL_DS_SELECTOR) = Flat(DataWritable, 0)
         /\ Descriptor(USER_CS_SELECTOR) = Flat(CodeReadable, 3)
         /\ Descriptor(USER_DS_SELECTOR) = Flat(DataWritable, 3)
         /\ Descriptor(TSS_SELECTOR).present
         /\ Descriptor(TSS_SELECTOR).type = TssAvailable
         /\ Descriptor(TSS_SELECTOR).base = TssAddress
<1>1. /\ g_gdt[1] = gdt_set_entry(0, 1048575, 154, 192)
      /\ g_gdt[2] = gdt_set_entry(0, 1048575, 146, 192)
      /\ g_gdt[3] = gdt_set_entry(0, 1048575, 250, 192)
      /\ g_gdt[4] = gdt_set_entry(0, 1048575, 242, 192)
      /\ g_gdt[5] = gdt_set_entry(TssAddress, 103, 137, 0)
  BY DEF GdtReady
<1>2. /\ KERNEL_CS_SELECTOR \div 8 = 1 /\ KERNEL_DS_SELECTOR \div 8 = 2
      /\ USER_CS_SELECTOR \div 8 = 3 /\ USER_DS_SELECTOR \div 8 = 4
      /\ TSS_SELECTOR \div 8 = 5
  BY DEF KERNEL_CS_SELECTOR, KERNEL_DS_SELECTOR, USER_CS_SELECTOR, USER_DS_SELECTOR,
         TSS_SELECTOR
<1> QED
  BY <1>1, <1>2, SegmentsDecoded, TssDecoded DEF Descriptor

\* A gate for a stub, and the table lidt names: the vector leads to the stub.
Gated(vector, stub) ==
  \E type_attr \in {InterruptGate, UserTrapGate} :
    g_idt[vector] = idt_set_gate(stub, type_attr)

\* What the processor does with such a gate.
LEMMA GateLeads ==
  ASSUME NEW vector, NEW stub \in Stubs, Gated(vector, stub),
         GdtReady, "gdt" \in loaded, "idt" \in loaded
  PROVE  Entry(vector) = Address[stub]
<1>1. PICK type_attr \in {InterruptGate, UserTrapGate} :
        g_idt[vector] = idt_set_gate(stub, type_attr)
  BY DEF Gated
<1>2. /\ g_idt[vector].offset_low = Address[stub] % HALF
      /\ g_idt[vector].offset_high = (Address[stub] \div HALF) % HALF
      /\ g_idt[vector].selector = KERNEL_CS_SELECTOR
      /\ g_idt[vector].type_attr = type_attr
  BY <1>1 DEF idt_set_gate
<1>3. Bit(type_attr, 7)
  <2>1. 2 ^ 7 = 128
    OBVIOUS
  <2> QED
    BY <1>1, <2>1 DEF Bit, InterruptGate, UserTrapGate
<1>4. (Address[stub] % HALF) + HALF * ((Address[stub] \div HALF) % HALF) = Address[stub]
  <2>1. Address[stub] \in Nat /\ Address[stub] \div HALF < HALF
    BY BootAssumption
  <2> QED
    BY <2>1, AddressParts
<1> QED
  BY <1>2, <1>3, <1>4, SelectorsLead DEF Entry

-----------------------------------------------------------------------------

(* The inductive invariant. *)

\* Where the code is, in the order of the start.
Before  == {"kernel_main", "gdt_tss_init"}
Loading == {"lgdt", "data_segments", "ljmp", "ltr"}
Remap   == {"interrupts_init", "pic_remap", "pic_write"}
Listen  == {"keyboard_init", "user_stack", "interrupts_enable", "kernel_shell_loop"}
AfterGdt   == {"interrupts_init", "pic_remap", "pic_write", "gates", "lidt"} \cup Listen
AfterRemap == {"gates", "lidt"} \cup Listen
AfterGates == {"lidt"} \cup Listen

\* What gdt_tss_init has done.
GdtDone ==
  /\ pc \in Loading \cup AfterGdt => /\ GdtReady
                                     /\ g_tss.ss0 = KERNEL_DS_SELECTOR
                                     /\ g_tss.esp0 \in StackTops
  /\ pc \in (Loading \ {"lgdt"}) \cup AfterGdt => "gdt" \in loaded
  /\ pc \in AfterGdt => segments = [cs |-> KERNEL_CS_SELECTOR, ds |-> KERNEL_DS_SELECTOR,
                                    tr |-> TSS_SELECTOR]
  /\ pc = "gdt_tss_init" => stack \in StackTops

\* The segments of the kernel as they are loaded, one after the other.
SegmentsLoaded ==
  /\ segments \in [{"cs", "ds", "tr"} -> Nat]
  /\ pc \in {"ljmp", "ltr"} => segments.ds = KERNEL_DS_SELECTOR
  /\ pc = "ltr" => segments.cs = KERNEL_CS_SELECTOR

\* How far the master is programmed after n writes of pic_remap.
Programmed(master, n) ==
  /\ n \in 0 .. Len(PicWrites)
  /\ n = 0 => master.icw = 0
  /\ n \in 1 .. 2 => master.icw = 2
  /\ n \in 3 .. 4 => master.icw = 3
  /\ n \in 5 .. 6 => master.icw = 4
  /\ n >= 7 => master.icw = 0
  /\ n >= 3 => master.offset = 32
  /\ master.requests \subseteq IRQs

PicDone ==
  /\ DOMAIN pic = {Master, Slave}
  /\ DOMAIN pic[Master] = {"offset", "mask", "icw", "requests", "service"}
  /\ Programmed(pic[Master], writes)
  /\ pc \notin AfterRemap \cup {"pic_write", "halt"} => writes = 0
  /\ pc \in AfterRemap => writes = Len(PicWrites)

\* The gates, and lidt.
IdtDone ==
  /\ DOMAIN g_idt = 0 .. 255
  /\ pc \in AfterGates => /\ Gated(0, "isr0_stub") /\ Gated(144, "syscall_stub")
                          /\ Gated(32, "irq0_stub") /\ Gated(33, "irq1_stub")
  /\ pc \in Listen => "idt" \in loaded

BootInv ==
  /\ pc \in Before \cup Loading \cup Remap \cup AfterRemap \cup {"halt"}
  /\ IF_flag => pc = "kernel_shell_loop"
  /\ GdtDone /\ SegmentsLoaded /\ PicDone /\ IdtDone

-----------------------------------------------------------------------------

(* Its preservation. *)

\* The places of the code, as one definition to unfold.
LEMMA Places ==
  /\ AfterRemap = {"gates", "lidt", "keyboard_init", "user_stack", "interrupts_enable",
                   "kernel_shell_loop"}
  /\ AfterGdt = {"interrupts_init", "pic_remap", "pic_write", "gates", "lidt",
                 "keyboard_init", "user_stack", "interrupts_enable", "kernel_shell_loop"}
  /\ AfterGates = {"lidt", "keyboard_init", "user_stack", "interrupts_enable",
                   "kernel_shell_loop"}
  /\ Listen = {"keyboard_init", "user_stack", "interrupts_enable", "kernel_shell_loop"}
  /\ Loading = {"lgdt", "data_segments", "ljmp", "ltr"}
  /\ Before = {"kernel_main", "gdt_tss_init"}
  /\ Remap = {"interrupts_init", "pic_remap", "pic_write"}
BY DEF AfterRemap, AfterGdt, AfterGates, Listen, Loading, Before, Remap

\* A gate stays while the table does.
LEMMA GatedKept ==
  ASSUME NEW vector, NEW stub, Gated(vector, stub), g_idt' = g_idt
  PROVE  Gated(vector, stub)'
BY DEF Gated

\* The loader's state satisfies the invariant ...
LEMMA BootInit == Init => BootInv
<1> SUFFICES ASSUME Init PROVE BootInv
  OBVIOUS
<1>1. /\ pc = "kernel_main" /\ IF_flag = FALSE /\ writes = 0
      /\ segments = [cs |-> 0, ds |-> 0, tr |-> 0] /\ g_idt = EmptyIdt
  BY DEF Init
<1>2. PICK masks : pic = [chip \in {Master, Slave} |->
                            BiosPic(IF chip = Master THEN 8 ELSE 112, masks[chip])]
  BY DEF Init
<1>3. /\ DOMAIN pic = {Master, Slave} /\ pic[Master].icw = 0 /\ pic[Master].requests = {}
      /\ DOMAIN pic[Master] = {"offset", "mask", "icw", "requests", "service"}
  BY <1>2 DEF BiosPic
<1>4. Len(PicWrites) = 9
  BY DEF PicWrites
<1>5. PicDone
  BY <1>1, <1>3, <1>4, Places DEF PicDone, Programmed
<1>6. GdtDone /\ SegmentsLoaded /\ IdtDone
  BY <1>1, Places DEF GdtDone, SegmentsLoaded, IdtDone, EmptyIdt
<1> QED
  BY <1>1, <1>5, <1>6, Places DEF BootInv

\* kernel_main itself calls, and asks for two stacks.
LEMMA MainKept ==
  ASSUME BootInv, kernel_main PROVE BootInv'
<1>1. /\ g_gdt' = g_gdt /\ g_tss' = g_tss /\ g_idt' = g_idt /\ loaded' = loaded
      /\ segments' = segments /\ IF_flag' = IF_flag /\ pic' = pic /\ writes' = writes
  BY DEF kernel_main, tables, machine, devices
<1>2. \/ pc = "kernel_main" /\ pc' = "gdt_tss_init" /\ stack' \in StackTops
      \/ pc = "kernel_main" /\ pc' = "halt"
      \/ pc = "keyboard_init" /\ pc' = "user_stack" /\ stack' = stack
      \/ pc = "user_stack" /\ pc' = "interrupts_enable" /\ stack' = stack
      \/ pc = "user_stack" /\ pc' = "halt"
  BY DEF kernel_main, Goto
<1>3. GdtDone' /\ SegmentsLoaded'
  BY <1>1, <1>2, Places DEF BootInv, GdtDone, SegmentsLoaded, GdtReady
<1>4. PicDone'
  BY <1>1, <1>2, Places DEF BootInv, PicDone
<1>5. IdtDone'
  BY <1>1, <1>2, Places, GatedKept DEF BootInv, IdtDone
<1> QED
  BY <1>1, <1>2, <1>3, <1>4, <1>5, Places DEF BootInv

\* gdt_tss_init, whose loads find the descriptors they need.
LEMMA GdtKept ==
  ASSUME BootInv, gdt_tss_init PROVE BootInv'
<1>1. /\ g_idt' = g_idt /\ IF_flag' = IF_flag /\ pic' = pic /\ writes' = writes
      /\ stack' = stack
  BY DEF gdt_tss_init, tables, machine, devices
<1>2. CASE pc = "gdt_tss_init"
  <2>1. /\ pc' = "lgdt" /\ GdtReady' /\ loaded' = loaded /\ segments' = segments
        /\ g_tss' = [ss0 |-> KERNEL_DS_SELECTOR, esp0 |-> stack, iomap_base |-> 104]
    BY <1>2 DEF gdt_tss_init, Goto, GdtReady, machine
  <2>2. GdtDone' /\ SegmentsLoaded'
    BY <1>1, <1>2, <2>1, Places DEF BootInv, GdtDone, SegmentsLoaded
  <2>3. PicDone'
    BY <1>1, <1>2, <2>1, Places DEF BootInv, PicDone
  <2>4. IdtDone'
    BY <1>1, <1>2, <2>1, Places DEF BootInv, IdtDone
  <2> QED
    BY <1>1, <1>2, <2>1, <2>2, <2>3, <2>4, Places DEF BootInv
<1>3. CASE pc # "gdt_tss_init"
  <2>1. /\ g_gdt' = g_gdt /\ g_tss' = g_tss
        /\ \/ pc = "lgdt" /\ loaded' = loaded \cup {"gdt"} /\ segments' = segments
           \/ /\ pc \in {"data_segments", "ljmp", "ltr"} /\ loaded' = loaded
    BY <1>3 DEF gdt_tss_init, Goto, tables
  <2>2. pc \in Loading
    BY <2>1, Places
  <2>3. GdtReady /\ GdtReady'
    BY <2>1, <2>2, Places DEF BootInv, GdtDone, GdtReady
  <2>4. pc # "lgdt" =>
          /\ Descriptor(KERNEL_CS_SELECTOR) = Flat(CodeReadable, 0)
          /\ Descriptor(KERNEL_DS_SELECTOR) = Flat(DataWritable, 0)
          /\ Descriptor(TSS_SELECTOR).present
          /\ Descriptor(TSS_SELECTOR).type = TssAvailable
    BY <2>2, <2>3, Places, SelectorsLead DEF BootInv, GdtDone
  <2>5. /\ pc = "lgdt" => pc' = "data_segments" /\ segments' = segments
        /\ pc = "data_segments" => /\ pc' = "ljmp"
                                   /\ segments' = [segments EXCEPT !.ds = KERNEL_DS_SELECTOR]
        /\ pc = "ljmp" => /\ pc' = "ltr"
                          /\ segments' = [segments EXCEPT !.cs = KERNEL_CS_SELECTOR]
        /\ pc = "ltr" => /\ pc' = "interrupts_init"
                         /\ segments' = [segments EXCEPT !.tr = TSS_SELECTOR]
    BY <2>4 DEF gdt_tss_init, Goto
  <2>6. SegmentsLoaded'
    BY <2>1, <2>5 DEF BootInv, SegmentsLoaded, KERNEL_DS_SELECTOR, KERNEL_CS_SELECTOR,
                      TSS_SELECTOR
  <2>7. pc' \in AfterGdt => segments' = [cs |-> KERNEL_CS_SELECTOR,
                                         ds |-> KERNEL_DS_SELECTOR, tr |-> TSS_SELECTOR]
    BY <2>1, <2>5, Places DEF BootInv, SegmentsLoaded
  <2>8. GdtDone'
    BY <1>1, <2>1, <2>2, <2>3, <2>5, <2>7, Places DEF BootInv, GdtDone
  <2>9. PicDone'
    BY <1>1, <2>1, <2>5, Places DEF BootInv, PicDone
  <2>10. IdtDone'
    BY <1>1, <2>1, <2>5, Places DEF BootInv, IdtDone
  <2> QED
    BY <1>1, <2>1, <2>5, <2>6, <2>8, <2>9, <2>10, Places DEF BootInv
<1> QED
  BY <1>2, <1>3

\* A byte for a controller is a matter of that controller.
LEMMA WrittenIs ==
  ASSUME PicDone, NEW chip \in {Master, Slave}, NEW port \in {"command", "data"},
         NEW byte, NEW w, w = Written(Out(chip, port, byte))
  PROVE  /\ DOMAIN w = {Master, Slave}
         /\ w[Master] = IF chip = Master
                        THEN IF port = "command" THEN PicCommand(pic[Master], byte)
                                                 ELSE PicData(pic[Master], byte)
                        ELSE pic[Master]
<1>1. /\ Out(chip, port, byte).chip = chip /\ Out(chip, port, byte).port = port
      /\ Out(chip, port, byte).byte = byte
  BY DEF Out
<1>2. w = [pic EXCEPT ![chip] = IF port = "command" THEN PicCommand(pic[chip], byte)
                                                    ELSE PicData(pic[chip], byte)]
  BY <1>1 DEF Written
<1>3. Master # Slave
  BY DEF Master, Slave
<1> QED
  BY <1>2, <1>3 DEF PicDone

\* Each write of pic_remap takes the master one step further.
LEMMA MasterWritten ==
  ASSUME NEW m, DOMAIN m = {"offset", "mask", "icw", "requests", "service"},
         NEW n \in 0 .. Len(PicWrites), Programmed(m, n), n < Len(PicWrites),
         NEW next, next = IF PicWrites[n + 1].chip = Master
                          THEN IF PicWrites[n + 1].port = "command"
                               THEN PicCommand(m, PicWrites[n + 1].byte)
                               ELSE PicData(m, PicWrites[n + 1].byte)
                          ELSE m
  PROVE  /\ Programmed(next, n + 1)
         /\ DOMAIN next = {"offset", "mask", "icw", "requests", "service"}
<1>1. /\ Len(PicWrites) = 9
      /\ PicWrites[1] = Out(Master, "command", ICW1)
      /\ PicWrites[2] = Out(Slave, "command", ICW1)
      /\ PicWrites[3] = Out(Master, "data", 32)
      /\ PicWrites[4] = Out(Slave, "data", 40)
      /\ PicWrites[5] = Out(Master, "data", 4)
      /\ PicWrites[6] = Out(Slave, "data", 2)
      /\ PicWrites[7] = Out(Master, "data", 1)
      /\ PicWrites[8] = Out(Slave, "data", 1)
      /\ PicWrites[9] = Out(Master, "data", 252)
  BY DEF PicWrites
<1>2. /\ Master # Slave
      /\ \A chip, port, byte : /\ Out(chip, port, byte).chip = chip
                               /\ Out(chip, port, byte).port = port
                               /\ Out(chip, port, byte).byte = byte
  BY DEF Out, Master, Slave
<1>3. Bit(ICW1, 4)
  <2>1. 2 ^ 4 = 16
    OBVIOUS
  <2> QED
    BY <2>1 DEF Bit, ICW1
<1>8. m.requests \subseteq IRQs /\ {} \subseteq IRQs
  BY DEF Programmed
<1>4. CASE n = 0
  <2>1. next = [m EXCEPT !.icw = 2, !.requests = {}, !.mask = 0, !.service = {}]
    BY <1>1, <1>2, <1>3, <1>4 DEF PicCommand
  <2>2. next.icw = 2 /\ next.requests = {}
    BY <2>1
  <2>3. DOMAIN next = {"offset", "mask", "icw", "requests", "service"}
    BY <2>1
  <2> QED
    BY <1>1, <1>4, <1>8, <2>2, <2>3 DEF Programmed
<1>5. CASE n \in {1, 3, 5, 7}
  <2>1. next = m
    BY <1>1, <1>2, <1>5
  <2> QED
    BY <1>1, <1>5, <2>1 DEF Programmed
<1>6. CASE n \in {2, 4, 6, 8}
  <2>1. next = PicData(m, PicWrites[n + 1].byte)
    BY <1>1, <1>2, <1>6
  <2>2. CASE n = 2
    <3>1. next = [m EXCEPT !.icw = 3, !.offset = 32]
      <4>1. m.icw = 2 /\ PicWrites[n + 1].byte = 32 /\ 32 - (32 % 8) = 32
        BY <1>1, <1>2, <2>2 DEF Programmed
      <4> QED
        BY <2>1, <4>1 DEF PicData
    <3>2. next.icw = 3 /\ next.offset = 32 /\ next.requests = m.requests
      BY <3>1
    <3>3. DOMAIN next = {"offset", "mask", "icw", "requests", "service"}
      BY <3>1
    <3> QED
      BY <1>1, <1>8, <2>2, <3>2, <3>3 DEF Programmed
  <2>3. CASE n = 4
    <3>1. next = [m EXCEPT !.icw = 4]
      BY <1>1, <2>1, <2>3 DEF PicData, Programmed
    <3> QED
      BY <1>1, <1>8, <2>3, <3>1 DEF Programmed
  <2>4. CASE n = 6
    <3>1. next = [m EXCEPT !.icw = 0]
      BY <1>1, <2>1, <2>4 DEF PicData, Programmed
    <3> QED
      BY <1>1, <1>8, <2>4, <3>1 DEF Programmed
  <2>5. CASE n = 8
    <3>1. next = [m EXCEPT !.mask = PicWrites[n + 1].byte]
      <4>1. m.icw = 0
        BY <1>1, <2>5 DEF Programmed
      <4> QED
        BY <2>1, <4>1 DEF PicData
    <3> QED
      BY <1>1, <1>8, <2>5, <3>1 DEF Programmed
  <2> QED
    BY <1>6, <2>2, <2>3, <2>4, <2>5
<1>7. n \in 0 .. 8
  BY <1>1
<1> QED
  BY <1>4, <1>5, <1>6, <1>7

\* pic_remap: one byte more, and the slave's mask at the end.
LEMMA RemapKept ==
  ASSUME BootInv, pic_remap PROVE BootInv'
<1>1. /\ g_gdt' = g_gdt /\ g_tss' = g_tss /\ g_idt' = g_idt /\ loaded' = loaded
      /\ segments' = segments /\ IF_flag' = IF_flag /\ stack' = stack
  BY DEF pic_remap, tables, machine
<1>2. \/ pc = "pic_remap" /\ pc' = "pic_write" /\ pic' = pic /\ writes' = writes
      \/ /\ pc = "pic_write" /\ pc' = "pic_write" /\ writes < Len(PicWrites)
         /\ pic' = Written(PicWrites[writes + 1]) /\ writes' = writes + 1
      \/ /\ pc = "pic_write" /\ pc' = "gates" /\ writes = Len(PicWrites)
         /\ pic' = Written(Out(Slave, "data", mask2)) /\ writes' = writes
  BY DEF pic_remap, Goto
<1>3. GdtDone' /\ SegmentsLoaded'
  BY <1>1, <1>2, Places DEF BootInv, GdtDone, SegmentsLoaded, GdtReady
<1>4. IdtDone'
  BY <1>1, <1>2, Places DEF BootInv, IdtDone
<1>5. writes \in 0 .. Len(PicWrites) /\ Len(PicWrites) = 9
  BY DEF BootInv, PicDone, Programmed, PicWrites
<1>6. PicDone'
  <2>1. CASE pic' = pic /\ writes' = writes /\ pc' = "pic_write"
    BY <2>1, Places DEF BootInv, PicDone
  <2>2. CASE /\ pc' = "pic_write" /\ writes < Len(PicWrites)
             /\ pic' = Written(PicWrites[writes + 1]) /\ writes' = writes + 1
    <3>1. PICK chip \in {Master, Slave}, port \in {"command", "data"}, byte \in Nat :
            PicWrites[writes + 1] = Out(chip, port, byte)
      <4>1. writes + 1 \in 1 .. 9 /\ ICW1 \in Nat
        BY <1>5, <2>2 DEF ICW1
      <4>2. \A i \in 1 .. 9 : \E chip \in {Master, Slave}, port \in {"command", "data"},
                                byte \in Nat : PicWrites[i] = Out(chip, port, byte)
        BY <4>1 DEF PicWrites
      <4> QED
        BY <4>1, <4>2
    <3>2. /\ PicWrites[writes + 1].chip = chip /\ PicWrites[writes + 1].port = port
          /\ PicWrites[writes + 1].byte = byte
      BY <3>1 DEF Out
    <3>3. /\ DOMAIN pic' = {Master, Slave}
          /\ pic'[Master] = IF chip = Master
                            THEN IF port = "command" THEN PicCommand(pic[Master], byte)
                                                     ELSE PicData(pic[Master], byte)
                            ELSE pic[Master]
      <4>1. PicDone /\ pic' = Written(Out(chip, port, byte))
        BY <2>2, <3>1 DEF BootInv
      <4> QED
        BY <4>1, WrittenIs
    <3>4. /\ Programmed(pic'[Master], writes + 1)
          /\ DOMAIN pic'[Master] = {"offset", "mask", "icw", "requests", "service"}
      <4>1. DOMAIN pic[Master] = {"offset", "mask", "icw", "requests", "service"}
        BY DEF BootInv, PicDone
      <4>2. Programmed(pic[Master], writes)
        BY DEF BootInv, PicDone
      <4>3. pic'[Master] = IF PicWrites[writes + 1].chip = Master
                           THEN IF PicWrites[writes + 1].port = "command"
                                THEN PicCommand(pic[Master], PicWrites[writes + 1].byte)
                                ELSE PicData(pic[Master], PicWrites[writes + 1].byte)
                           ELSE pic[Master]
        BY <3>2, <3>3
      <4>4. writes < Len(PicWrites)
        BY <2>2
      <4> QED
        BY <1>5, <4>1, <4>2, <4>3, <4>4, MasterWritten
    <3> QED
      BY <2>2, <3>3, <3>4, Places DEF PicDone, Programmed
  <2>3. CASE /\ pc' = "gates" /\ writes = Len(PicWrites)
             /\ pic' = Written(Out(Slave, "data", mask2)) /\ writes' = writes
    <3>1. DOMAIN pic' = {Master, Slave} /\ pic'[Master] = pic[Master]
      <4>1. Master # Slave
        BY DEF Master, Slave
      <4> QED
        BY <2>3, <4>1, WrittenIs DEF BootInv
    <3> QED
      BY <2>3, <3>1, Places DEF BootInv, PicDone, Programmed
  <2> QED
    BY <1>2, <2>1, <2>2, <2>3
<1> QED
  BY <1>1, <1>2, <1>3, <1>4, <1>6, Places DEF BootInv

\* interrupts_init, around pic_remap: the empty table, the gates and lidt.
LEMMA IdtKept ==
  ASSUME BootInv, interrupts_init PROVE BootInv'
<1>1. CASE pic_remap
  BY <1>1, RemapKept
<1>2. CASE ~pic_remap
  <2>1. /\ g_gdt' = g_gdt /\ g_tss' = g_tss /\ segments' = segments
        /\ IF_flag' = IF_flag /\ pic' = pic /\ writes' = writes /\ stack' = stack
    BY <1>2 DEF interrupts_init, tables, machine, devices
  <2>2. \/ /\ pc = "interrupts_init" /\ pc' = "pic_remap" /\ loaded' = loaded
           /\ g_idt' = EmptyIdt
        \/ /\ pc = "gates" /\ pc' = "lidt" /\ loaded' = loaded
           /\ g_idt' = [vector \in 0 .. 255 |->
                          IF vector \in DOMAIN Gates THEN Gates[vector] ELSE g_idt[vector]]
        \/ /\ pc = "lidt" /\ pc' = "keyboard_init" /\ loaded' = loaded \cup {"idt"}
           /\ g_idt' = g_idt
    BY <1>2 DEF interrupts_init, Goto, machine, tables
  <2>3. GdtDone' /\ SegmentsLoaded'
    BY <2>1, <2>2, Places DEF BootInv, GdtDone, SegmentsLoaded, GdtReady
  <2>4. PicDone'
    BY <2>1, <2>2, Places DEF BootInv, PicDone
  <2>5. IdtDone'
    <3>1. CASE pc = "interrupts_init"
      BY <2>2, <3>1, Places DEF IdtDone, EmptyIdt
    <3>2. CASE pc = "gates"
      <4>1. \A vector \in {0, 32, 33, 144} : g_idt'[vector] = Gates[vector]
        BY <2>2, <3>2 DEF Gates
      <4>2. /\ g_idt'[0] = idt_set_gate("isr0_stub", InterruptGate)
            /\ g_idt'[32] = idt_set_gate("irq0_stub", InterruptGate)
            /\ g_idt'[33] = idt_set_gate("irq1_stub", InterruptGate)
            /\ g_idt'[144] = idt_set_gate("syscall_stub", UserTrapGate)
        BY <4>1 DEF Gates
      <4>3. Gated(0, "isr0_stub")' /\ Gated(32, "irq0_stub")'
        BY <4>2 DEF Gated
      <4>4. Gated(33, "irq1_stub")' /\ Gated(144, "syscall_stub")'
        BY <4>2 DEF Gated
      <4> QED
        BY <2>2, <3>2, <4>3, <4>4, Places DEF IdtDone
    <3>3. CASE pc = "lidt"
      BY <2>2, <3>3, Places, GatedKept DEF BootInv, IdtDone
    <3> QED
      BY <2>2, <3>1, <3>2, <3>3
  <2> QED
    BY <2>1, <2>2, <2>3, <2>4, <2>5, Places DEF BootInv
<1> QED
  BY <1>1, <1>2

\* Interrupts are enabled in front of the shell, and nowhere else.
LEMMA EnableKept ==
  ASSUME BootInv, interrupts_enable PROVE BootInv'
<1>1. /\ g_gdt' = g_gdt /\ g_tss' = g_tss /\ g_idt' = g_idt /\ loaded' = loaded
      /\ segments' = segments /\ pic' = pic /\ writes' = writes /\ stack' = stack
      /\ pc = "interrupts_enable" /\ pc' = "kernel_shell_loop" /\ IF_flag' = TRUE
  BY DEF interrupts_enable, Goto, tables, devices
<1>2. GdtDone' /\ SegmentsLoaded'
  BY <1>1, Places DEF BootInv, GdtDone, SegmentsLoaded, GdtReady
<1>3. PicDone'
  BY <1>1, Places DEF BootInv, PicDone
<1>4. IdtDone'
  BY <1>1, Places, GatedKept DEF BootInv, IdtDone
<1> QED
  BY <1>1, <1>2, <1>3, <1>4, Places DEF BootInv

\* What leaves the code, the tables and the registers as they are, and only
\* touches the requests of the master, disturbs no part.
LEMMA RequestsKept ==
  ASSUME BootInv, pc' = pc, UNCHANGED <<tables, machine, stack, mask2, writes>>,
         DOMAIN pic' = {Master, Slave},
         DOMAIN pic'[Master] = {"offset", "mask", "icw", "requests", "service"},
         pic'[Master].icw = pic[Master].icw, pic'[Master].offset = pic[Master].offset,
         pic'[Master].requests \subseteq IRQs
  PROVE  BootInv'
<1>1. /\ g_gdt' = g_gdt /\ g_tss' = g_tss /\ g_idt' = g_idt /\ loaded' = loaded
      /\ segments' = segments /\ IF_flag' = IF_flag /\ writes' = writes /\ stack' = stack
  BY DEF tables, machine
<1>2. GdtDone' /\ SegmentsLoaded'
  BY <1>1 DEF BootInv, GdtDone, SegmentsLoaded, GdtReady
<1>3. IdtDone'
  BY <1>1, GatedKept DEF BootInv, IdtDone
<1>4. Programmed(pic[Master], writes)'
  <2>1. Programmed(pic[Master], writes)
    BY DEF BootInv, PicDone
  <2> QED
    BY <1>1, <2>1 DEF Programmed
<1>5. PicDone'
  BY <1>1, <1>4 DEF BootInv, PicDone
<1> QED
  BY <1>1, <1>2, <1>3, <1>5 DEF BootInv

\* A request, at any time.
LEMMA RequestKept ==
  ASSUME BootInv, NEW irq \in IRQs, Request(irq), pc' = pc,
         UNCHANGED <<tables, machine, stack, mask2, writes>>
  PROVE  BootInv'
<1>1. /\ DOMAIN pic = {Master, Slave} /\ pic[Master].requests \subseteq IRQs
      /\ DOMAIN pic[Master] = {"offset", "mask", "icw", "requests", "service"}
  BY DEF BootInv, PicDone, Programmed
<1>2. pic' = [pic EXCEPT ![Master] = [pic[Master] EXCEPT !.requests = @ \cup {irq}]]
  BY DEF Request
<1>3. /\ DOMAIN pic' = {Master, Slave}
      /\ pic'[Master] = [pic[Master] EXCEPT !.requests = @ \cup {irq}]
  BY <1>1, <1>2
<1> QED
  BY <1>1, <1>3, RequestsKept

\* A delivery finds its stub through the tables, and the stub signals the end.
LEMMA DeliverKept ==
  ASSUME BootInv, NEW irq \in IRQs, Deliver(irq) PROVE BootInv'
<1>1. pc = "kernel_shell_loop" /\ irq \in Waiting
  BY DEF Deliver, BootInv
<1>2. /\ GdtReady /\ "gdt" \in loaded /\ "idt" \in loaded
      /\ Gated(32, "irq0_stub") /\ Gated(33, "irq1_stub") /\ writes = Len(PicWrites)
  BY <1>1, Places DEF BootInv, GdtDone, IdtDone, PicDone
<1>3. pic[Master].offset = 32
  BY <1>2 DEF BootInv, PicDone, Programmed, PicWrites
<1>4. /\ Entry(32) = Address["irq0_stub"] /\ Entry(33) = Address["irq1_stub"]
  BY <1>2, GateLeads DEF Stubs
<1>5. /\ Entry(pic[Master].offset + irq) \in {Address["irq0_stub"], Address["irq1_stub"]}
  BY <1>3, <1>4 DEF IRQs
<1>6. /\ pic' = [pic EXCEPT ![Master] = Handled(pic[Master], irq)] /\ pc' = pc
      /\ UNCHANGED <<tables, machine, stack, mask2, writes>>
  BY <1>5 DEF Deliver
<1>7. ~Bit(PIC_EOI, 4)
  <2>1. 2 ^ 4 = 16
    OBVIOUS
  <2> QED
    BY <2>1 DEF Bit, PIC_EOI
<1>8. /\ DOMAIN pic = {Master, Slave} /\ pic[Master].requests \subseteq IRQs
      /\ DOMAIN pic[Master] = {"offset", "mask", "icw", "requests", "service"}
  BY DEF BootInv, PicDone, Programmed
<1>9. Handled(pic[Master], irq)
        = [[pic[Master] EXCEPT !.requests = @ \ {irq}, !.service = {irq}]
              EXCEPT !.service = {}]
  BY <1>7 DEF Handled, PicCommand
<1>10. /\ DOMAIN pic' = {Master, Slave}
       /\ pic'[Master] = Handled(pic[Master], irq)
  BY <1>6, <1>8
<1>11. /\ DOMAIN pic'[Master] = {"offset", "mask", "icw", "requests", "service"}
       /\ pic'[Master].icw = pic[Master].icw /\ pic'[Master].offset = pic[Master].offset
       /\ pic'[Master].requests \subseteq IRQs
  BY <1>8, <1>9, <1>10
<1> QED
  BY <1>6, <1>10, <1>11, RequestsKept

\* ... and every step keeps it, the one that changes nothing too.
LEMMA BootKept ==
  ASSUME BootInv, [Next]_vars PROVE BootInv'
<1>1. CASE Code
  BY <1>1, MainKept, GdtKept, IdtKept, EnableKept DEF Code
<1>2. CASE TimerTick
  BY <1>2, RequestKept DEF TimerTick, IRQs
<1>3. CASE KeyPress
  BY <1>3, RequestKept DEF KeyPress, IRQs
<1>4. CASE \E irq \in IRQs : Deliver(irq)
  BY <1>4, DeliverKept
<1>5. CASE UNCHANGED vars
  <2>1. /\ pc' = pc /\ UNCHANGED <<tables, machine, stack, mask2, writes>> /\ pic' = pic
    BY <1>5 DEF vars, devices
  <2>2. /\ DOMAIN pic = {Master, Slave} /\ pic[Master].requests \subseteq IRQs
        /\ DOMAIN pic[Master] = {"offset", "mask", "icw", "requests", "service"}
    BY DEF BootInv, PicDone, Programmed
  <2> QED
    BY <2>1, <2>2, RequestsKept
<1> QED
  BY <1>1, <1>2, <1>3, <1>4, <1>5 DEF Next

\* In the shell, where alone interrupts are enabled, every table is ready.
LEMMA BootInvMeans == BootInv => TablesReady
<1> SUFFICES ASSUME BootInv PROVE TablesReady
  OBVIOUS
<1>1. pc # "fault"
  BY Places DEF BootInv
<1>2. ASSUME IF_flag
      PROVE  /\ GdtReady /\ "gdt" \in loaded /\ "idt" \in loaded
             /\ segments = [cs |-> KERNEL_CS_SELECTOR, ds |-> KERNEL_DS_SELECTOR,
                            tr |-> TSS_SELECTOR]
             /\ g_tss.ss0 = KERNEL_DS_SELECTOR /\ g_tss.esp0 \in StackTops
             /\ Gated(0, "isr0_stub") /\ Gated(144, "syscall_stub")
  BY <1>2, Places DEF BootInv, GdtDone, IdtDone
<1>3. ASSUME IF_flag
      PROVE  Entry(144) = Address["syscall_stub"] /\ Entry(0) = Address["isr0_stub"]
  BY <1>2, <1>3, GateLeads DEF Stubs
<1> QED
  BY <1>1, <1>2, <1>3, SelectorsLead DEF TablesReady

\* No segment is loaded and no interrupt delivered before what it needs is
\* there, whatever the addresses, the stacks and the masks of the BIOS are and
\* whenever the devices ask: gdt_tss_init, pic_remap and interrupts_init come in
\* the order that makes the tables ready, and what the processor reads from
\* them is what was meant (gdt.cpp:56-126, interrupts.cpp:104-172,
\* kernel.cpp:128-160).
THEOREM StartIsReady == Spec => []TablesReady
<1>1. Init => BootInv
  BY BootInit
<1>2. BootInv /\ [Next]_vars => BootInv'
  BY BootKept
<1>3. BootInv => TablesReady
  BY BootInvMeans
<1> QED
  BY <1>1, <1>2, <1>3, PTL DEF Spec
=============================================================================
