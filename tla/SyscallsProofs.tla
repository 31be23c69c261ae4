---------------------------- MODULE SyscallsProofs ----------------------------
(***************************************************************************)
(* Proofs about module Syscalls, for dwords of every size, every argument  *)
(* and every result.                                                       *)
(*                                                                         *)
(* That the caller gets its registers back needs what each instruction of  *)
(* syscall_stub finds on the stack (Frame).  An interrupt between two of   *)
(* them leaves the processor as it was (InterruptTransparent).             *)
(***************************************************************************)
EXTENDS Syscalls, SequenceTheorems, TLAPS

Dwords == 0 .. WORD - 1
Registers == [RegisterNames -> Dwords]
Machines == [regs: Registers, stack: Seq(Dwords), flag: {0, 1}, eip: Code .. Halted]

\* The caller's registers behind the first n dwords of a stack, and behind them
\* what the processor has pushed.
Saved(s, n) ==
  /\ s[n + 1] = request.edi /\ s[n + 2] = request.esi /\ s[n + 3] = request.ebp
  /\ s[n + 5] = request.ebx /\ s[n + 6] = request.edx /\ s[n + 7] = request.ecx
  /\ s[n + 8] = request.eax
  /\ s[n + 9] = Returned /\ s[n + 11] \in {0, 1}

Frame ==
  LET s == cpu.stack IN
  /\ cpu.eip \in {Code, Returned} => s = << >>
  /\ cpu.eip = Returned => \A r \in RegisterNames \ {"eax"} : cpu.regs[r] = request[r]
  /\ cpu.eip \in {Stub, ReturnFromInt} =>
       Len(s) = 3 /\ s[1] = Returned /\ s[3] \in {0, 1} /\ cpu.regs = request
  /\ cpu.eip \in {LoadSegments, PushArguments} => Len(s) = 15 /\ Saved(s, 4)
  /\ cpu.eip \in {CallHandler, DropArguments} => Len(s) = 19 /\ Saved(s, 8)
  /\ cpu.eip = PopRegisters => Len(s) = 11 /\ Saved(s, 0)

Inv ==
  /\ cpu \in Machines /\ request \in Registers /\ answer \in Dwords
  /\ Frame

-----------------------------------------------------------------------------

(* Instructions. *)

LEMMA Widths ==
  /\ HALF \in Nat /\ HALF > 16 /\ WORD \in Nat /\ WORD > 16
  /\ Args \subseteq Dwords /\ Results \subseteq Dwords /\ ErrorCodes \subseteq Dwords
  /\ MinusOne \in Dwords /\ 0 \in Dwords
  /\ \A n \in 0 .. 16 : n \in Dwords
<1>1. HALF \in Nat /\ HALF > 16 /\ WORD = HALF * HALF
      /\ Args \cup Results \cup ErrorCodes \subseteq 0 .. WORD - 1
  BY SyscallsAssumption
<1>2. HALF * HALF \in Nat /\ HALF * HALF > 16
  BY <1>1
<1> QED
  BY <1>1, <1>2 DEF Dwords, MinusOne

\* A machine is its four parts.
LEMMA Parts ==
  ASSUME NEW m \in Machines
  PROVE  /\ m.regs \in Registers /\ m.stack \in Seq(Dwords) /\ Len(m.stack) \in Nat
         /\ m.flag \in {0, 1} /\ m.eip \in 0 .. 9
         /\ m.eip \in Dwords /\ m.flag \in Dwords
         /\ m = [regs |-> m.regs, stack |-> m.stack, flag |-> m.flag, eip |-> m.eip]
BY Widths DEF Machines, Code, Halted

LEMMA RegisterValues ==
  ASSUME NEW g \in Registers
  PROVE  /\ g.eax \in Dwords /\ g.ecx \in Dwords /\ g.edx \in Dwords /\ g.ebx \in Dwords
         /\ g.ebp \in Dwords /\ g.esi \in Dwords /\ g.edi \in Dwords
BY DEF Registers, RegisterNames

\* s is n dwords with t behind them; s begins with t.
Behind(s, n, t) == Len(s) = n + Len(t) /\ \A i \in 1 .. Len(t) : s[n + i] = t[i]
Begins(s, t) == \A i \in 1 .. Len(t) : s[i] = t[i]

\* What is behind the same number of dwords is the same.
LEMMA SameBehind ==
  ASSUME NEW s, NEW n \in Nat, NEW t \in Seq(Dwords), NEW u \in Seq(Dwords),
         Behind(s, n, t), Behind(s, n, u)
  PROVE  t = u
<1>1. Len(t) \in Nat /\ Len(u) \in Nat
  OBVIOUS
<1>2. Len(t) = Len(u)
  BY <1>1 DEF Behind
<1>3. \A i \in 1 .. Len(t) : t[i] = u[i]
  BY <1>2 DEF Behind
<1> QED
  BY <1>2, <1>3, SeqEqual

\* Values of a stack, behind the dwords pushed since.
LEMMA ValueBehind ==
  ASSUME NEW s, NEW n \in Nat, NEW t \in Seq(Dwords), Behind(s, n, t),
         NEW i \in 1 .. Len(t)
  PROVE  s[n + i] = t[i]
BY DEF Behind

\* A stack with t pushed in front of it, all at once.
LEMMA InFront ==
  ASSUME NEW m \in Machines, NEW t \in Seq(Dwords), NEW p,
         p = [m EXCEPT !.stack = t \o @]
  PROVE  /\ p \in Machines /\ p.regs = m.regs /\ p.flag = m.flag /\ p.eip = m.eip
         /\ Begins(p.stack, t) /\ Behind(p.stack, Len(t), m.stack)
<1>1. PICK s : s = t \o m.stack
  OBVIOUS
<1>2. m.stack \in Seq(Dwords) /\ Len(t) \in Nat /\ Len(m.stack) \in Nat
  BY Parts
<1>3. /\ s \in Seq(Dwords) /\ Len(s) = Len(t) + Len(m.stack)
      /\ \A i \in 1 .. Len(t) + Len(m.stack) :
           s[i] = IF i <= Len(t) THEN t[i] ELSE m.stack[i - Len(t)]
  BY <1>1, <1>2, ConcatProperties
<1>4. p = [m EXCEPT !.stack = s]
  BY <1>1
<1>5. p \in Machines /\ p.stack = s /\ p.regs = m.regs /\ p.flag = m.flag /\ p.eip = m.eip
  BY <1>3, <1>4 DEF Machines
<1>6. \A i \in 1 .. Len(t) : s[i] = t[i]
  BY <1>2, <1>3, SMTT(30)
<1>7. ASSUME NEW i \in 1 .. Len(m.stack) PROVE s[Len(t) + i] = m.stack[i]
  <2>1. /\ Len(t) + i \in 1 .. Len(t) + Len(m.stack) /\ ~(Len(t) + i <= Len(t))
        /\ (Len(t) + i) - Len(t) = i
    BY <1>2
  <2> QED
    BY <1>3, <2>1
<1> QED
  BY <1>3, <1>5, <1>6, <1>7 DEF Begins, Behind

LEMMA Push ==
  ASSUME NEW m \in Machines, NEW d \in Dwords, NEW p, p = push(m, d)
  PROVE  /\ p \in Machines /\ p.regs = m.regs /\ p.flag = m.flag /\ p.eip = m.eip
         /\ p.stack[1] = d /\ Behind(p.stack, 1, m.stack)
<1>1. PICK t : t = <<d>>
  OBVIOUS
<1>2. t \in Seq(Dwords) /\ Len(t) = 1 /\ t[1] = d
  BY <1>1
<1>3. p = [m EXCEPT !.stack = t \o @]
  BY <1>1 DEF push
<1>4. /\ p \in Machines /\ p.regs = m.regs /\ p.flag = m.flag /\ p.eip = m.eip
      /\ Begins(p.stack, t) /\ Behind(p.stack, Len(t), m.stack)
  BY <1>2, <1>3, InFront
<1> QED
  BY <1>2, <1>4 DEF Begins

LEMMA Drop ==
  ASSUME NEW m \in Machines, NEW n \in 0 .. Len(m.stack), NEW p, p = drop(m, n)
  PROVE  /\ p \in Machines /\ p.regs = m.regs /\ p.flag = m.flag /\ p.eip = m.eip
         /\ Behind(m.stack, n, p.stack)
<1>1. PICK s : s = SubSeq(m.stack, n + 1, Len(m.stack))
  OBVIOUS
<1>2. /\ m.stack \in Seq(Dwords) /\ Len(m.stack) \in Nat /\ n \in Nat /\ n <= Len(m.stack)
  BY Parts
<1>3. \A i \in n + 1 .. Len(m.stack) : m.stack[i] \in Dwords
  BY <1>2, ElementOfSeq
<1>4. /\ s \in Seq(Dwords)
      /\ Len(s) = IF n + 1 <= Len(m.stack) THEN Len(m.stack) - (n + 1) + 1 ELSE 0
      /\ \A i \in 1 .. Len(m.stack) - (n + 1) + 1 : s[i] = m.stack[n + 1 + i - 1]
  BY <1>1, <1>2, <1>3, SubSeqProperties
<1>5. Len(s) = Len(m.stack) - n
  BY <1>2, <1>4
<1>6. ASSUME NEW i \in 1 .. Len(s) PROVE m.stack[n + i] = s[i]
  <2>1. i \in 1 .. Len(m.stack) - (n + 1) + 1 /\ n + 1 + i - 1 = n + i
    BY <1>2, <1>5
  <2> QED
    BY <1>4, <2>1
<1>7. p = [m EXCEPT !.stack = s]
  BY <1>1 DEF drop
<1>8. /\ p \in Machines /\ p.regs = m.regs /\ p.flag = m.flag /\ p.eip = m.eip
      /\ p.stack = s
  BY <1>4, <1>7 DEF Machines
<1>9. Len(m.stack) = n + Len(s)
  BY <1>2, <1>5
<1> QED
  BY <1>6, <1>8, <1>9 DEF Behind

\* The registers as pushad leaves them on top of a stack.
OnTop(s, g) ==
  /\ s[1] = g.edi /\ s[2] = g.esi /\ s[3] = g.ebp
  /\ s[5] = g.ebx /\ s[6] = g.edx /\ s[7] = g.ecx /\ s[8] = g.eax

LEMMA Pushad ==
  ASSUME NEW m \in Machines, NEW p, p = pushad(m)
  PROVE  /\ p \in Machines /\ p.regs = m.regs /\ p.flag = m.flag /\ p.eip = m.eip
         /\ OnTop(p.stack, m.regs) /\ Behind(p.stack, 8, m.stack)
<1>1. PICK t : t = <<m.regs.edi, m.regs.esi, m.regs.ebp, 0,
                     m.regs.ebx, m.regs.edx, m.regs.ecx, m.regs.eax>>
  OBVIOUS
<1>2. /\ m.regs.eax \in Dwords /\ m.regs.ecx \in Dwords /\ m.regs.edx \in Dwords
      /\ m.regs.ebx \in Dwords /\ m.regs.ebp \in Dwords /\ m.regs.esi \in Dwords
      /\ m.regs.edi \in Dwords /\ 0 \in Dwords
  BY Parts, RegisterValues, Widths
<1>3. t \in Seq(Dwords) /\ Len(t) = 8 /\ OnTop(t, m.regs)
  BY <1>1, <1>2 DEF OnTop
<1>4. p = [m EXCEPT !.stack = t \o @]
  BY <1>1 DEF pushad
<1>5. /\ p \in Machines /\ p.regs = m.regs /\ p.flag = m.flag /\ p.eip = m.eip
      /\ Begins(p.stack, t) /\ Behind(p.stack, Len(t), m.stack)
  BY <1>3, <1>4, InFront
<1>6. OnTop(p.stack, m.regs)
  BY <1>3, <1>5 DEF Begins, OnTop
<1> QED
  BY <1>3, <1>5, <1>6

LEMMA Popad ==
  ASSUME NEW m \in Machines, Len(m.stack) >= 8, NEW p, p = popad(m)
  PROVE  /\ p \in Machines /\ p.flag = m.flag /\ p.eip = m.eip
         /\ OnTop(m.stack, p.regs) /\ Behind(m.stack, 8, p.stack)
<1>1. PICK g : g = [edi |-> m.stack[1], esi |-> m.stack[2], ebp |-> m.stack[3],
                    ebx |-> m.stack[5], edx |-> m.stack[6], ecx |-> m.stack[7],
                    eax |-> m.stack[8]]
  OBVIOUS
<1>2. PICK d : d = drop(m, 8)
  OBVIOUS
<1>3. m.stack \in Seq(Dwords) /\ Len(m.stack) \in Nat /\ 8 \in 0 .. Len(m.stack)
  BY Parts
<1>4. \A i \in 1 .. 8 : m.stack[i] \in Dwords
  BY <1>3, ElementOfSeq
<1>5. g \in Registers /\ OnTop(m.stack, g)
  BY <1>1, <1>4 DEF Registers, RegisterNames, OnTop
<1>6. d \in Machines /\ d.flag = m.flag /\ d.eip = m.eip /\ Behind(m.stack, 8, d.stack)
  BY <1>2, <1>3, Drop
<1>7. p = [d EXCEPT !.regs = g]
  BY <1>1, <1>2 DEF popad
<1>8. p \in Machines /\ p.regs = g /\ p.stack = d.stack /\ p.flag = d.flag /\ p.eip = d.eip
  BY <1>5, <1>6, <1>7 DEF Machines
<1> QED
  BY <1>5, <1>6, <1>8

\* Registers on top of the same stack are the same.
LEMMA SameOnTop ==
  ASSUME NEW s, NEW g \in Registers, NEW h \in Registers, OnTop(s, g), OnTop(s, h)
  PROVE  g = h
<1>1. \A r \in RegisterNames : g[r] = h[r]
  BY DEF OnTop, RegisterNames
<1> QED
  BY <1>1 DEF Registers

LEMMA Enter ==
  ASSUME NEW m \in Machines, NEW flag \in {0, 1}, NEW eip \in 0 .. 9, NEW p,
         p = enter(m, flag, eip)
  PROVE  /\ p \in Machines /\ p.regs = m.regs /\ p.flag = flag /\ p.eip = eip
         /\ p.stack[1] = m.eip /\ p.stack[3] = m.flag /\ Behind(p.stack, 3, m.stack)
<1>1. PICK t : t = <<m.eip, CodeSegment, m.flag>>
  OBVIOUS
<1>2. m.eip \in Dwords /\ CodeSegment \in Dwords /\ m.flag \in Dwords
  BY Parts, Widths DEF CodeSegment
<1>3. t \in Seq(Dwords) /\ Len(t) = 3 /\ t[1] = m.eip /\ t[3] = m.flag
  BY <1>1, <1>2
<1>4. PICK q : q = [m EXCEPT !.stack = t \o @]
  OBVIOUS
<1>5. /\ q \in Machines /\ q.regs = m.regs
      /\ Begins(q.stack, t) /\ Behind(q.stack, Len(t), m.stack)
  BY <1>3, <1>4, InFront
<1>6. p = [[q EXCEPT !.flag = flag] EXCEPT !.eip = eip]
  BY <1>1, <1>4, Parts DEF enter
<1>7. p \in Machines /\ p.regs = q.regs /\ p.stack = q.stack /\ p.flag = flag /\ p.eip = eip
  BY <1>5, <1>6 DEF Machines, Code, Halted
<1> QED
  BY <1>3, <1>5, <1>7 DEF Begins

LEMMA Iretd ==
  ASSUME NEW m \in Machines, Len(m.stack) >= 3, m.stack[1] \in 0 .. 9,
         m.stack[3] \in {0, 1}, NEW p, p = iretd(m)
  PROVE  /\ p \in Machines /\ p.regs = m.regs /\ p.eip = m.stack[1] /\ p.flag = m.stack[3]
         /\ Behind(m.stack, 3, p.stack)
<1>1. PICK d : d = drop(m, 3)
  OBVIOUS
<1>2. 3 \in 0 .. Len(m.stack)
  BY Parts
<1>3. d \in Machines /\ d.regs = m.regs /\ Behind(m.stack, 3, d.stack)
  BY <1>1, <1>2, Drop
<1>4. p = [[d EXCEPT !.eip = m.stack[1]] EXCEPT !.flag = m.stack[3]]
  BY <1>1, <1>3, Parts DEF iretd
<1>5. /\ p \in Machines /\ p.regs = d.regs /\ p.stack = d.stack
      /\ p.eip = m.stack[1] /\ p.flag = m.stack[3]
  BY <1>3, <1>4 DEF Machines, Code, Halted
<1> QED
  BY <1>3, <1>5

LEMMA ReturnsKeeps ==
  ASSUME NEW m \in Machines, NEW r \in Dwords, NEW junk \in Dwords, NEW p,
         p = Returns(m, r, junk)
  PROVE  p \in Machines /\ p.stack = m.stack /\ p.flag = m.flag /\ p.eip = m.eip
<1>1. PICK g : g = [[[m.regs EXCEPT !.eax = r] EXCEPT !.ecx = junk] EXCEPT !.edx = junk]
  OBVIOUS
<1>2. g \in Registers
  BY <1>1, Parts DEF Registers
<1>3. p = [m EXCEPT !.regs = g]
  BY <1>1, Parts DEF Returns
<1> QED
  BY <1>2, <1>3 DEF Machines

\* An interrupt gives the processor back as it was.
LEMMA InterruptTransparent ==
  ASSUME NEW m \in Machines, NEW r \in Dwords, NEW junk \in Dwords
  PROVE  irq_stub(m, r, junk) = m
<1>1. PICK e : e = enter(m, 0, m.eip)
  OBVIOUS
<1>2. PICK a : a = pushad(e)
  OBVIOUS
<1>3. PICK c : c = Returns(a, r, junk)
  OBVIOUS
<1>4. PICK b : b = popad(c)
  OBVIOUS
<1>5. PICK p : p = iretd(b)
  OBVIOUS
<1>6. m.eip \in 0 .. 9 /\ m.flag \in {0, 1} /\ Len(m.stack) \in Nat /\ m.stack \in Seq(Dwords)
      /\ 0 \in {0, 1}
  BY Parts
<1>7. /\ e \in Machines /\ e.regs = m.regs
      /\ e.stack[1] = m.eip /\ e.stack[3] = m.flag /\ Behind(e.stack, 3, m.stack)
  <2>1. m.eip \in 0 .. 9 /\ 0 \in {0, 1}
    BY <1>6
  <2> QED
    BY <1>1, <2>1, Enter, SMTT(30)
<1>8. a \in Machines /\ OnTop(a.stack, e.regs) /\ Behind(a.stack, 8, e.stack)
  BY <1>2, <1>7, Pushad
<1>9. c \in Machines /\ c.stack = a.stack
  <2>1. a \in Machines
    BY <1>8
  <2> QED
    BY <1>3, <2>1, ReturnsKeeps, SMTT(30)
<1>10. Len(c.stack) >= 8
  BY <1>7, <1>8, <1>9, Parts DEF Behind
<1>11. b \in Machines /\ OnTop(c.stack, b.regs) /\ Behind(c.stack, 8, b.stack)
  BY <1>4, <1>9, <1>10, Popad
<1>12. b.regs = m.regs
  BY <1>7, <1>8, <1>9, <1>11, Parts, SameOnTop
<1>13. b.stack = e.stack
  <2>1. b.stack \in Seq(Dwords) /\ e.stack \in Seq(Dwords)
    BY <1>7, <1>11, Parts
  <2>2. Behind(a.stack, 8, b.stack)
    BY <1>9, <1>11
  <2> QED
    BY <1>8, <2>1, <2>2, SameBehind
<1>14. Len(b.stack) >= 3
  BY <1>6, <1>7, <1>13 DEF Behind
<1>15. /\ p \in Machines /\ p.regs = m.regs /\ p.eip = m.eip /\ p.flag = m.flag
       /\ Behind(b.stack, 3, p.stack)
  BY <1>5, <1>6, <1>7, <1>11, <1>12, <1>13, <1>14, Iretd
<1>16. p.stack = m.stack
  BY <1>6, <1>7, <1>13, <1>15, Parts, SameBehind
<1>17. p = m
  BY <1>15, <1>16, Parts
<1> QED
  BY <1>1, <1>2, <1>3, <1>4, <1>5, <1>17 DEF irq_stub

-----------------------------------------------------------------------------

(* The stub. *)

\* p is m with n dwords pushed.
Pushed(p, n, m) ==
  p \in Machines /\ p.regs = m.regs /\ p.flag = m.flag /\ Behind(p.stack, n, m.stack)

LEMMA PushOne ==
  ASSUME NEW m \in Machines, NEW d \in Dwords
  PROVE  Pushed(push(m, d), 1, m)
BY Push DEF Pushed

\* p is m with d pushed.
Topped(p, d, m) ==
  p \in Machines /\ p.eip = m.eip /\ p.stack[1] = d /\ Behind(p.stack, 1, m.stack)

LEMMA PushTops ==
  ASSUME NEW m \in Machines, NEW d \in Dwords
  PROVE  Topped(push(m, d), d, m)
BY Push DEF Topped

LEMMA PushAgain ==
  ASSUME NEW m \in Machines, NEW n \in Nat, NEW p, Pushed(p, n, m), NEW d \in Dwords
  PROVE  Pushed(push(p, d), n + 1, m)
<1>1. PICK q : q = push(p, d)
  OBVIOUS
<1>2. p \in Machines /\ p.regs = m.regs /\ p.flag = m.flag /\ Behind(p.stack, n, m.stack)
  BY DEF Pushed
<1>3. q \in Machines /\ q.regs = p.regs /\ q.flag = p.flag /\ Behind(q.stack, 1, p.stack)
  BY <1>1, <1>2, Push
<1>4. Len(m.stack) \in Nat
  BY Parts
<1>5. Len(p.stack) = n + Len(m.stack) /\ Len(q.stack) = 1 + Len(p.stack)
  BY <1>2, <1>3 DEF Behind
<1>6. Len(q.stack) = (n + 1) + Len(m.stack)
  <2>1. PICK j, k, l : j = Len(m.stack) /\ k = Len(p.stack) /\ l = Len(q.stack)
    OBVIOUS
  <2>2. j \in Nat /\ k = n + j /\ l = 1 + k
    BY <1>4, <1>5, <2>1
  <2>3. l = (n + 1) + j
    BY <2>2
  <2> QED
    BY <2>1, <2>3
<1>7. ASSUME NEW i \in 1 .. Len(m.stack) PROVE q.stack[(n + 1) + i] = m.stack[i]
  <2>1. n + i \in 1 .. Len(p.stack) /\ (n + 1) + i = 1 + (n + i)
    BY <1>4, <1>5
  <2>2. p.stack[n + i] = m.stack[i]
    BY <1>2 DEF Behind
  <2>3. q.stack[1 + (n + i)] = p.stack[n + i]
    BY <1>3, <2>1 DEF Behind
  <2> QED
    BY <2>1, <2>2, <2>3
<1> QED
  BY <1>1, <1>2, <1>3, <1>6, <1>7 DEF Pushed, Behind

LEMMA PushFour ==
  ASSUME NEW m \in Machines, NEW d1 \in Dwords, NEW d2 \in Dwords, NEW d3 \in Dwords,
         NEW d4 \in Dwords
  PROVE  Pushed(push(push(push(push(m, d1), d2), d3), d4), 4, m)
<1>1. Pushed(push(m, d1), 1, m)
  BY PushOne
<1>2. Pushed(push(push(m, d1), d2), 1 + 1, m)
  BY <1>1, PushAgain
<1>3. Pushed(push(push(push(m, d1), d2), d3), 2 + 1, m)
  BY <1>2, PushAgain
<1>4. Pushed(push(push(push(push(m, d1), d2), d3), d4), 3 + 1, m)
  BY <1>3, PushAgain
<1> QED
  BY <1>4

\* Pushing and dropping moves what is saved.
LEMMA SavedMoves ==
  ASSUME NEW s, NEW t, NEW n \in Nat, NEW k \in Nat, Behind(s, k, t),
         Len(t) \in Nat, Len(t) >= n + 11
  PROVE  Saved(s, k + n) <=> Saved(t, n)
<1>1. ASSUME NEW j \in 1 .. 11 PROVE s[(k + n) + j] = t[n + j]
  <2>1. n + j \in 1 .. Len(t) /\ k + (n + j) = (k + n) + j
    OBVIOUS
  <2>2. s[k + (n + j)] = t[n + j]
    BY <2>1 DEF Behind
  <2> QED
    BY <2>1, <2>2
<1>2. /\ s[(k + n) + 1] = t[n + 1] /\ s[(k + n) + 2] = t[n + 2] /\ s[(k + n) + 3] = t[n + 3]
      /\ s[(k + n) + 5] = t[n + 5] /\ s[(k + n) + 6] = t[n + 6] /\ s[(k + n) + 7] = t[n + 7]
      /\ s[(k + n) + 8] = t[n + 8] /\ s[(k + n) + 9] = t[n + 9]
      /\ s[(k + n) + 11] = t[n + 11]
  BY <1>1
<1> QED
  BY <1>2 DEF Saved

LEMMA Places ==
  /\ Code = 0 /\ Returned = 1 /\ Stub = 2 /\ LoadSegments = 3 /\ PushArguments = 4
  /\ CallHandler = 5 /\ DropArguments = 6 /\ PopRegisters = 7 /\ ReturnFromInt = 8
  /\ Halted = 9
BY DEF Code, Returned, Stub, LoadSegments, PushArguments, CallHandler, DropArguments,
       PopRegisters, ReturnFromInt, Halted

\* p is m at the place n.
Arrived(p, m, n) ==
  p \in Machines /\ p.eip = n /\ p.regs = m.regs /\ p.stack = m.stack

LEMMA StepMachine ==
  ASSUME NEW at, NEW n \in 0 .. 9, NEW m \in Machines, Step(at, n, m)
  PROVE  cpu.eip = at /\ Arrived(cpu', m, n)
BY Places DEF Step, Machines, Arrived

\* The selector in the lower half of a dword.
LEMMA LoadedSegment ==
  ASSUME NEW n \in Machines, NEW m,
         m = [n EXCEPT !.regs.eax = @ - (@ % HALF) + DataSegment]
  PROVE  m \in Machines /\ m.stack = n.stack
<1>1. PICK v : v = n.regs.eax
  OBVIOUS
<1>2. PICK q, r : q = v \div HALF /\ r = v % HALF
  OBVIOUS
<1>3. v \in Nat /\ v < WORD /\ HALF \in Nat /\ HALF > 16 /\ WORD = HALF * HALF
  <2>1. v \in Dwords
    BY <1>1, Parts, RegisterValues
  <2>2. HALF \in Nat /\ HALF > 16 /\ WORD = HALF * HALF /\ WORD \in Nat
    BY Widths, SyscallsAssumption
  <2> QED
    BY <2>1, <2>2 DEF Dwords
<1>4. q \in Nat /\ r \in Nat /\ r < HALF /\ v = HALF * q + r
  BY <1>2, <1>3
<1>5. q <= HALF - 1
  <2>1. SUFFICES ASSUME q >= HALF PROVE FALSE
    BY <1>3, <1>4
  <2>2. HALF * q >= HALF * HALF
    BY <1>3, <1>4, <2>1
  <2> QED
    BY <1>3, <1>4, <2>2
<1>6. HALF * q <= HALF * HALF - HALF /\ HALF * q \in Nat /\ HALF * HALF \in Nat
  <2>1. PICK k \in Nat : HALF - 1 = q + k
    <3>1. (HALF - 1) - q \in Nat /\ HALF - 1 = q + ((HALF - 1) - q)
      BY <1>3, <1>4, <1>5
    <3> QED
      BY <3>1
  <2>2. HALF * (HALF - 1) = HALF * q + HALF * k /\ HALF * k \in Nat /\ HALF * q \in Nat
    BY <1>3, <1>4, <2>1
  <2>3. HALF * (HALF - 1) = HALF * HALF - HALF /\ HALF * HALF \in Nat
    BY <1>3
  <2> QED
    BY <2>2, <2>3
<1>7. (v - r) + 16 \in Dwords
  BY <1>3, <1>4, <1>6 DEF Dwords
<1>8. PICK g : g = [n.regs EXCEPT !.eax = (v - r) + 16]
  OBVIOUS
<1>9. g \in Registers
  BY <1>7, <1>8, Parts DEF Registers
<1>10. m = [n EXCEPT !.regs = g]
  BY <1>1, <1>2, <1>8, Parts DEF DataSegment
<1> QED
  BY <1>9, <1>10 DEF Machines

\* push and pop of the caller's registers, and what lies between.
LEMMA StubSteps ==
  ASSUME Inv, syscall_stub, UNCHANGED request PROVE Inv'
<1>0. cpu \in Machines /\ request \in Registers /\ answer \in Dwords /\ Frame
      /\ cpu.stack \in Seq(Dwords) /\ Len(cpu.stack) \in Nat /\ cpu.regs \in Registers
  BY Parts DEF Inv
<1>1. CASE Step(Stub, LoadSegments,
                push(push(push(push(pushad(cpu), DataSegment), DataSegment),
                          DataSegment), DataSegment)) /\ UNCHANGED <<served, answer>>
  <2>1. PICK a : a = pushad(cpu)
    OBVIOUS
  <2>2. PICK m : m = push(push(push(push(a, DataSegment), DataSegment), DataSegment),
                          DataSegment)
    OBVIOUS
  <2>3. DataSegment \in Dwords
    BY Widths DEF DataSegment
  <2>4. a \in Machines /\ OnTop(a.stack, cpu.regs) /\ Behind(a.stack, 8, cpu.stack)
    BY <1>0, <2>1, Pushad
  <2>5. m \in Machines /\ Behind(m.stack, 4, a.stack)
    <3>1. Pushed(m, 4, a)
      BY <2>2, <2>3, <2>4, PushFour
    <3> QED
      BY <3>1 DEF Pushed
  <2>6. Step(Stub, LoadSegments, m)
    BY <1>1, <2>1, <2>2
  <2>7. cpu.eip = 2 /\ cpu' \in Machines /\ cpu'.eip = 3 /\ cpu'.stack = m.stack
    <3>1. Step(2, 3, m)
      BY <2>6, Places
    <3>2. cpu.eip = 2 /\ Arrived(cpu', m, 3)
      BY <2>5, <3>1, StepMachine
    <3> QED
      BY <3>2 DEF Arrived
  <2>8. /\ Len(cpu.stack) = 3 /\ cpu.stack[1] = Returned /\ cpu.stack[3] \in {0, 1}
        /\ cpu.regs = request
    BY <1>0, <2>7, Places DEF Frame
  <2>9. Len(a.stack) = 11 /\ a.stack[8 + 1] = Returned /\ a.stack[8 + 3] \in {0, 1}
    BY <2>4, <2>8 DEF Behind
  <2>10. Saved(a.stack, 0)
    BY <2>4, <2>8, <2>9 DEF Saved, OnTop
  <2>11. Len(m.stack) = 15 /\ Saved(m.stack, 4 + 0)
    <3>1. Len(a.stack) \in Nat /\ Len(a.stack) >= 0 + 11 /\ 4 \in Nat /\ 0 \in Nat
      BY <2>9
    <3>2. Saved(m.stack, 4 + 0) <=> Saved(a.stack, 0)
      BY <2>5, <3>1, SavedMoves
    <3> QED
      BY <2>5, <2>9, <2>10, <3>2 DEF Behind
  <2>12. Len(cpu'.stack) = 15 /\ Saved(cpu.stack, 4)'
    BY <2>7, <2>11 DEF Saved
  <2>13. Frame'
    BY <2>7, <2>12, Places DEF Frame
  <2> QED
    BY <1>0, <1>1, <2>7, <2>13 DEF Inv
<1>2. CASE /\ Step(LoadSegments, PushArguments,
                   [cpu EXCEPT !.regs.eax = @ - (@ % HALF) + DataSegment])
           /\ UNCHANGED <<served, answer>>
  <2>1. PICK m : m = [cpu EXCEPT !.regs.eax = @ - (@ % HALF) + DataSegment]
    OBVIOUS
  <2>2. m \in Machines /\ m.stack = cpu.stack
    BY <1>0, <2>1, LoadedSegment
  <2>3. cpu.eip = 3 /\ cpu' \in Machines /\ cpu'.eip = 4 /\ cpu'.stack = cpu.stack
    <3>1. Step(3, 4, m)
      BY <1>2, <2>1, Places
    <3>2. cpu.eip = 3 /\ Arrived(cpu', m, 4)
      BY <2>2, <3>1, StepMachine
    <3> QED
      BY <2>2, <3>2 DEF Arrived
  <2>4. Len(cpu'.stack) = 15 /\ Saved(cpu.stack, 4)'
    BY <1>0, <2>3, Places DEF Frame, Saved
  <2>5. Frame'
    BY <2>3, <2>4, Places DEF Frame
  <2> QED
    BY <1>0, <1>2, <2>3, <2>5 DEF Inv
<1>3. CASE /\ Step(PushArguments, CallHandler,
                   push(push(push(push(cpu, cpu.regs.edx), cpu.regs.ecx),
                             cpu.regs.ebx), cpu.regs.eax))
           /\ UNCHANGED <<served, answer>>
  <2>1. PICK m : m = push(push(push(push(cpu, cpu.regs.edx), cpu.regs.ecx),
                               cpu.regs.ebx), cpu.regs.eax)
    OBVIOUS
  <2>2. /\ cpu.regs.edx \in Dwords /\ cpu.regs.ecx \in Dwords
        /\ cpu.regs.ebx \in Dwords /\ cpu.regs.eax \in Dwords
    BY <1>0, RegisterValues
  <2>3. m \in Machines /\ Behind(m.stack, 4, cpu.stack)
    <3>1. Pushed(m, 4, cpu)
      BY <1>0, <2>1, <2>2, PushFour
    <3> QED
      BY <3>1 DEF Pushed
  <2>4. cpu.eip = 4 /\ cpu' \in Machines /\ cpu'.eip = 5 /\ cpu'.stack = m.stack
    <3>1. Step(4, 5, m)
      BY <1>3, <2>1, Places
    <3>2. cpu.eip = 4 /\ Arrived(cpu', m, 5)
      BY <2>3, <3>1, StepMachine
    <3> QED
      BY <3>2 DEF Arrived
  <2>5. Len(cpu.stack) = 15 /\ Saved(cpu.stack, 4)
    BY <1>0, <2>4, Places DEF Frame
  <2>6. Saved(m.stack, 4 + 4)
    <3>1. 4 \in Nat /\ Len(cpu.stack) \in Nat /\ Len(cpu.stack) >= 4 + 11
      BY <2>5
    <3>2. Saved(m.stack, 4 + 4) <=> Saved(cpu.stack, 4)
      BY <2>3, <3>1, SavedMoves
    <3> QED
      BY <2>5, <3>2
  <2>7. Len(cpu'.stack) = 19 /\ Saved(cpu.stack, 8)'
    BY <2>3, <2>4, <2>5, <2>6 DEF Saved, Behind
  <2>8. Frame'
    BY <2>4, <2>7, Places DEF Frame
  <2> QED
    BY <1>0, <1>3, <2>4, <2>8 DEF Inv
<1>4. CASE Step(DropArguments, PopRegisters, drop(cpu, DropCount + 4))
           /\ UNCHANGED <<served, answer>>
  <2>1. PICK m : m = drop(cpu, 8)
    OBVIOUS
  <2>2. Step(DropArguments, PopRegisters, m)
    BY <1>4, <2>1 DEF DropCount
  <2>3. cpu.eip = 6
    BY <2>2, Places DEF Step
  <2>4. Len(cpu.stack) = 19 /\ Saved(cpu.stack, 8)
    BY <1>0, <2>3, Places DEF Frame
  <2>5. 8 \in 0 .. Len(cpu.stack)
    BY <2>4
  <2>6. m \in Machines /\ Behind(cpu.stack, 8, m.stack) /\ Len(m.stack) \in Nat
    BY <1>0, <2>1, <2>5, Drop, Parts
  <2>7. Len(m.stack) = 11
    <3>1. Len(cpu.stack) = 8 + Len(m.stack)
      BY <2>6 DEF Behind
    <3>2. PICK k : k = Len(m.stack)
      OBVIOUS
    <3>3. k \in Nat /\ 19 = 8 + k
      BY <2>4, <2>6, <3>1, <3>2
    <3>4. k = 11
      BY <3>3
    <3> QED
      BY <3>2, <3>4
  <2>8. Saved(cpu.stack, 8 + 0) <=> Saved(m.stack, 0)
    <3>1. 0 \in Nat /\ 8 \in Nat /\ Len(m.stack) >= 0 + 11
      BY <2>7
    <3> QED
      BY <2>6, <3>1, SavedMoves
  <2>9. cpu' \in Machines /\ cpu'.eip = 7 /\ cpu'.stack = m.stack
    <3>1. Step(6, 7, m)
      BY <2>2, Places
    <3>2. m \in Machines /\ 7 \in 0 .. 9
      BY <2>6
    <3>3. Arrived(cpu', m, 7)
      BY <3>1, <3>2, StepMachine
    <3> QED
      BY <3>3 DEF Arrived
  <2>10. Len(cpu'.stack) = 11 /\ Saved(cpu.stack, 0)'
    BY <2>4, <2>7, <2>8, <2>9 DEF Saved
  <2>11. Frame'
    BY <2>9, <2>10, Places DEF Frame
  <2> QED
    BY <1>0, <1>4, <2>9, <2>11 DEF Inv
<1>5. CASE Step(PopRegisters, ReturnFromInt, popad(cpu)) /\ UNCHANGED <<served, answer>>
  <2>1. PICK m : m = popad(cpu)
    OBVIOUS
  <2>2. cpu.eip = 7
    BY <1>5, Places DEF Step
  <2>3. Len(cpu.stack) = 11 /\ Saved(cpu.stack, 0)
    BY <1>0, <2>2, Places DEF Frame
  <2>4. m \in Machines /\ OnTop(cpu.stack, m.regs) /\ Behind(cpu.stack, 8, m.stack)
    <3>1. Len(cpu.stack) >= 8
      BY <2>3
    <3> QED
      BY <1>0, <2>1, <3>1, Popad
  <2>5. OnTop(cpu.stack, request)
    BY <2>3 DEF Saved, OnTop
  <2>6. m.regs = request
    BY <1>0, <2>4, <2>5, SameOnTop, Parts
  <2>7. Len(m.stack) = 3 /\ m.stack[1] = Returned /\ m.stack[3] \in {0, 1}
    <3>1. Len(m.stack) \in Nat
      BY <2>4, Parts
    <3>2. Len(m.stack) = 3
      <4>1. Len(cpu.stack) = 8 + Len(m.stack)
        BY <2>4 DEF Behind
      <4>2. PICK k : k = Len(m.stack)
        OBVIOUS
      <4>3. k \in Nat /\ 11 = 8 + k
        BY <2>3, <3>1, <4>1, <4>2
      <4>4. k = 3
        BY <4>3
      <4> QED
        BY <4>2, <4>4
    <3>3. m.stack[1] = cpu.stack[8 + 1] /\ m.stack[3] = cpu.stack[8 + 3]
      BY <2>4, <3>2 DEF Behind
    <3> QED
      BY <2>3, <3>2, <3>3 DEF Saved
  <2>8. /\ cpu' \in Machines /\ cpu'.eip = 8 /\ cpu'.stack = m.stack
        /\ cpu'.regs = request'
    <3>1. Step(7, 8, m)
      BY <1>5, <2>1, Places
    <3>2. Arrived(cpu', m, 8)
      BY <2>4, <3>1, StepMachine
    <3> QED
      BY <2>6, <3>2 DEF Arrived
  <2>9. Frame'
    BY <2>7, <2>8, Places DEF Frame
  <2> QED
    BY <1>0, <1>5, <2>8, <2>9 DEF Inv
<1>6. CASE cpu.eip = ReturnFromInt /\ cpu' = iretd(cpu) /\ UNCHANGED <<served, answer>>
  <2>1. PICK m : m = iretd(cpu)
    OBVIOUS
  <2>2. /\ Len(cpu.stack) = 3 /\ cpu.stack[1] = 1 /\ cpu.stack[3] \in {0, 1}
        /\ cpu.regs = request
    BY <1>0, <1>6, Places DEF Frame
  <2>3. /\ m \in Machines /\ m.regs = request /\ m.eip = 1
        /\ Behind(cpu.stack, 3, m.stack)
    BY <1>0, <2>1, <2>2, Iretd
  <2>4. m.stack = << >>
    <3>1. m.stack \in Seq(Dwords) /\ Len(m.stack) \in Nat
      BY <2>3, Parts
    <3>2. PICK k : k = Len(m.stack)
      OBVIOUS
    <3>3. Len(cpu.stack) = 3 + Len(m.stack)
      BY <2>3 DEF Behind
    <3>4. k \in Nat /\ 3 = 3 + k
      BY <2>2, <3>1, <3>2, <3>3
    <3>5. k = 0
      BY <3>4
    <3> QED
      BY <3>1, <3>2, <3>5, EmptySeq
  <2>5. cpu' \in Machines /\ cpu'.eip = 1 /\ cpu'.stack = << >> /\ cpu'.regs = request'
    BY <1>6, <2>1, <2>3, <2>4
  <2>6. Frame'
    BY <2>5, Places DEF Frame
  <2> QED
    BY <1>0, <1>6, <2>5, <2>6 DEF Inv
<1>7. ASSUME NEW r \in Results \cup {0, MinusOne}, NEW junk \in Results,
             Step(CallHandler, DropArguments, Returns(cpu, r, junk)),
             syscall_handler(cpu.stack[1], cpu.stack[2], cpu.stack[3], r)
      PROVE  Inv'
  <2>1. PICK m : m = Returns(cpu, r, junk)
    OBVIOUS
  <2>2. r \in Dwords /\ junk \in Dwords
    BY Widths
  <2>3. m \in Machines /\ m.stack = cpu.stack
    <3>1. cpu \in Machines
      BY <1>0
    <3> QED
      BY <2>1, <2>2, <3>1, ReturnsKeeps
  <2>4. cpu.eip = 5 /\ cpu' \in Machines /\ cpu'.eip = 6 /\ cpu'.stack = cpu.stack
    <3>1. Step(5, 6, m)
      BY <1>7, <2>1, Places
    <3>2. m \in Machines /\ 6 \in 0 .. 9
      BY <2>3
    <3>3. cpu.eip = 5 /\ Arrived(cpu', m, 6)
      BY <3>1, <3>2, StepMachine
    <3> QED
      BY <2>3, <3>3 DEF Arrived
  <2>5. Len(cpu'.stack) = 19 /\ Saved(cpu.stack, 8)'
    BY <1>0, <2>4, Places DEF Frame, Saved
  <2>6. Frame'
    BY <2>4, <2>5, Places DEF Frame
  <2>7. answer' = r
    BY <1>7 DEF syscall_handler
  <2> QED
    BY <1>0, <2>2, <2>4, <2>6, <2>7 DEF Inv
<1> QED
  BY <1>1, <1>2, <1>3, <1>4, <1>5, <1>6, <1>7 DEF syscall_stub

-----------------------------------------------------------------------------

(* The rest of the steps. *)

LEMMA NumbersAre == Numbers = 0 .. 13
<1>1. Len(Services) = 14
  BY DEF Services
<1> QED
  BY <1>1 DEF Numbers

LEMMA WrapperStep ==
  ASSUME Inv, NEW number \in Numbers, NEW ebx \in Args, NEW ecx \in Args,
         Wrapper(number, ebx, ecx)
  PROVE  Inv'
<1>1. /\ cpu \in Machines /\ cpu.regs \in Registers /\ cpu.flag \in {0, 1}
      /\ cpu.eip = Code /\ cpu.stack = << >>
  BY Parts, Places DEF Inv, Frame, Wrapper
<1>2. number \in Dwords /\ ebx \in Dwords /\ ecx \in Dwords
  BY Widths, NumbersAre
<1>3. PICK g : g = [[[cpu.regs EXCEPT !.eax = number] EXCEPT !.ebx = ebx] EXCEPT !.ecx = ecx]
  OBVIOUS
<1>4. g \in Registers
  BY <1>1, <1>2, <1>3 DEF Registers
<1>5. PICK m : m = [[cpu EXCEPT !.regs = g] EXCEPT !.eip = Returned]
  OBVIOUS
<1>6. /\ m \in Machines /\ m.regs = g /\ m.eip = 1 /\ m.stack = << >> /\ m.flag = cpu.flag
      /\ m = [regs |-> g, stack |-> cpu.stack, flag |-> cpu.flag, eip |-> Returned]
  <2>1. m = [[cpu EXCEPT !.regs = g] EXCEPT !.eip = 1]
    BY <1>5, Places
  <2>2. m \in Machines /\ m.regs = g /\ m.eip = 1 /\ m.stack = cpu.stack /\ m.flag = cpu.flag
    <3>1. PICK n : n = [cpu EXCEPT !.regs = g]
      OBVIOUS
    <3>2. /\ n \in Machines /\ n.regs = g /\ n.stack = cpu.stack /\ n.flag = cpu.flag
      BY <1>1, <1>4, <3>1 DEF Machines
    <3>3. m = [n EXCEPT !.eip = 1]
      BY <2>1, <3>1
    <3> QED
      BY <3>2, <3>3, Places DEF Machines
  <2> QED
    BY <1>1, <2>2, Parts, Places
<1>7. cpu' = enter(m, cpu.flag, Stub) /\ request' = m.regs /\ answer' = MinusOne
  <2>1. [cpu EXCEPT !.regs.eax = number, !.regs.ebx = ebx, !.regs.ecx = ecx,
                    !.eip = Returned] = m
    BY <1>1, <1>3, <1>6 DEF Machines
  <2> QED
    BY <2>1 DEF Wrapper
<1>8. PICK p : p = enter(m, cpu.flag, Stub)
  OBVIOUS
<1>9. /\ p \in Machines /\ p.regs = m.regs /\ p.eip = 2
      /\ p.stack[1] = m.eip /\ p.stack[3] = m.flag /\ Behind(p.stack, 3, m.stack)
  BY <1>1, <1>6, <1>8, Enter, Places
<1>10. Len(p.stack) = 3
  BY <1>6, <1>9 DEF Behind
<1>11. Frame'
  BY <1>1, <1>6, <1>7, <1>8, <1>9, <1>10, Places DEF Frame
<1> QED
  BY <1>4, <1>6, <1>7, <1>8, <1>9, <1>11, Widths DEF Inv

\* The stack the handler of an exception finds, and its two arguments.
LEMMA ExceptionArguments ==
  ASSUME cpu \in Machines, NEW vector \in {0, 13, 14}, NEW error \in ErrorCodes,
         Exception(vector, error)
  PROVE  cpu' \in Machines /\ cpu'.eip = Halted /\ reported' = raised'
<1>1. PICK e : e = enter(cpu, 0, Halted)
  OBVIOUS
<1>2. PICK f : f = IF vector = 0 THEN e ELSE push(e, error)
  OBVIOUS
<1>3. PICK a : a = pushad(f)
  OBVIOUS
<1>4. PICK b, code : code = (IF vector = 0 THEN 0 ELSE a.stack[9]) /\ b = push(a, code)
  OBVIOUS
<1>5. PICK p : p = push(b, vector)
  OBVIOUS
<1>6. p = exception_stub(f, vector)
  BY <1>3, <1>4, <1>5 DEF exception_stub
<1>7. e \in Machines /\ e.eip = 9
  BY <1>1, Enter, Places
<1>8. error \in Dwords /\ vector \in Dwords /\ 0 \in Dwords
  BY Widths
<1>9. /\ f \in Machines /\ f.eip = 9 /\ Len(f.stack) \in Nat
      /\ vector # 0 => Len(f.stack) >= 1 /\ f.stack[1] = error
  <2>1. CASE vector = 0
    BY <1>2, <1>7, <2>1, Parts
  <2>2. CASE vector # 0
    <3>1. f = push(e, error)
      BY <1>2, <2>2
    <3>2. f \in Machines /\ f.eip = 9 /\ f.stack[1] = error /\ Behind(f.stack, 1, e.stack)
      <4>1. Topped(f, error, e)
        BY <1>7, <1>8, <3>1, PushTops
      <4> QED
        BY <1>7, <4>1 DEF Topped
    <3>3. Len(f.stack) \in Nat /\ Len(e.stack) \in Nat
      BY <1>7, <3>2, Parts
    <3> QED
      BY <3>2, <3>3 DEF Behind
  <2> QED
    BY <2>1, <2>2
<1>10. a \in Machines /\ a.eip = 9 /\ Behind(a.stack, 8, f.stack)
  BY <1>3, <1>9, Pushad
<1>11. code \in Dwords /\ code = IF vector = 0 THEN 0 ELSE error
  <2>1. CASE vector = 0
    BY <1>4, <1>8, <2>1
  <2>2. CASE vector # 0
    <3>1. 1 \in 1 .. Len(f.stack) /\ f.stack[1] = error
      BY <1>9, <2>2
    <3>2. a.stack[8 + 1] = f.stack[1]
      BY <1>10, <3>1 DEF Behind
    <3> QED
      BY <1>4, <1>8, <2>2, <3>1, <3>2
  <2> QED
    BY <2>1, <2>2
<1>12. b \in Machines /\ b.eip = 9 /\ b.stack[1] = code /\ Behind(b.stack, 1, a.stack)
  <2>1. Topped(b, code, a)
    BY <1>4, <1>10, <1>11, PushTops
  <2> QED
    BY <1>10, <2>1 DEF Topped
<1>13. p \in Machines /\ p.eip = 9 /\ p.stack[1] = vector /\ Behind(p.stack, 1, b.stack)
  <2>1. Topped(p, vector, b)
    BY <1>5, <1>8, <1>12, PushTops
  <2> QED
    BY <1>12, <2>1 DEF Topped
<1>14. p.stack[2] = code
  <2>1. Behind(b.stack, 1, a.stack) /\ Len(a.stack) \in Nat
    BY <1>10, <1>12, Parts
  <2>2. 1 \in 1 .. Len(b.stack)
    BY <2>1 DEF Behind
  <2>3. p.stack[1 + 1] = b.stack[1]
    BY <1>13, <2>2 DEF Behind
  <2> QED
    BY <1>12, <2>3
<1>15. /\ cpu' = p /\ reported' = <<p.stack[1], p.stack[2]>>
       /\ raised' = <<vector, IF vector = 0 THEN 0 ELSE error>>
  BY <1>1, <1>2, <1>6 DEF Exception
<1> QED
  BY <1>11, <1>13, <1>14, <1>15, Places

LEMMA InvStep ==
  ASSUME Inv, ExceptionReported, [Next]_vars PROVE Inv' /\ ExceptionReported'
<1>0. cpu \in Machines
  BY DEF Inv
<1>1. ASSUME NEW number \in Numbers, NEW ebx \in Args, NEW ecx \in Args,
             Wrapper(number, ebx, ecx)
      PROVE  Inv' /\ ExceptionReported'
  <2>1. ExceptionReported'
    BY <1>1 DEF Wrapper, ExceptionReported
  <2> QED
    BY <1>1, <2>1, WrapperStep
<1>2. CASE Syscall
  BY <1>2, StubSteps DEF Syscall, ExceptionReported
<1>3. CASE Continue
  <2>1. cpu.eip = 1 /\ cpu' = [cpu EXCEPT !.eip = 0]
    BY <1>3, Places DEF Continue
  <2>2. cpu' \in Machines /\ cpu'.eip = 0 /\ cpu'.stack = cpu.stack
    BY <1>0, <2>1, Places DEF Machines
  <2>3. cpu.stack = << >>
    BY <2>1, Places DEF Inv, Frame
  <2>4. Frame'
    BY <2>2, <2>3, Places DEF Frame
  <2> QED
    BY <1>3, <2>2, <2>4 DEF Continue, Inv, ExceptionReported
<1>4. CASE Interrupt
  <2>1. PICK r \in Results, junk \in Results : cpu' = irq_stub(cpu, r, junk)
    BY <1>4 DEF Interrupt
  <2>2. r \in Dwords /\ junk \in Dwords
    BY Widths
  <2>3. cpu' = cpu
    BY <1>0, <2>1, <2>2, InterruptTransparent
  <2> QED
    BY <1>4, <2>3 DEF Interrupt, Inv, Frame, Saved, ExceptionReported
<1>5. ASSUME NEW vector \in {0, 13, 14}, NEW error \in ErrorCodes, Exception(vector, error)
      PROVE  Inv' /\ ExceptionReported'
  <2>1. cpu' \in Machines /\ cpu'.eip = 9 /\ reported' = raised'
    BY <1>0, <1>5, ExceptionArguments, Places
  <2>2. Frame'
    BY <2>1, Places DEF Frame
  <2> QED
    BY <1>5, <2>1, <2>2 DEF Exception, Inv, ExceptionReported
<1>6. CASE UNCHANGED vars
  BY <1>6 DEF vars, Inv, Frame, Saved, ExceptionReported
<1> QED
  BY <1>1, <1>2, <1>3, <1>4, <1>5, <1>6 DEF Next

LEMMA InvInit == Init => Inv /\ ExceptionReported
<1> SUFFICES ASSUME Init PROVE Inv /\ ExceptionReported
  OBVIOUS
<1>1. InitialRegisters \in Registers
  <2>1. /\ 0 \in Dwords /\ 1 \in Dwords /\ 2 \in Dwords /\ 3 \in Dwords /\ 4 \in Dwords
        /\ 5 \in Dwords /\ 6 \in Dwords
    BY Widths
  <2> QED
    BY <2>1 DEF InitialRegisters, Registers, RegisterNames
<1>2. cpu \in Machines /\ cpu.eip = 0 /\ cpu.stack = << >>
  BY <1>1, Places DEF Init, Machines
<1>3. Frame
  BY <1>2, Places DEF Frame
<1> QED
  BY <1>1, <1>2, <1>3, Widths DEF Init, Inv, ExceptionReported

LEMMA InvHolds == Spec => [](Inv /\ ExceptionReported)
<1>1. Inv /\ ExceptionReported /\ [Next]_vars => (Inv /\ ExceptionReported)'
  BY InvStep
<1> QED
  BY InvInit, <1>1, PTL DEF Spec

\* Registers and stack hold dwords, and the processor executes one of the known
\* places: the stub never returns to anything but what entered it.
THEOREM TypeCorrect == Spec => []TypeOK
<1>1. Inv => TypeOK
  BY Parts DEF Inv, TypeOK, Registers, Dwords, Machines
<1> QED
  BY InvHolds, <1>1, PTL

\* A system call gives the caller all its registers but eax and its stack back,
\* however many interrupts came in between (interrupts_entry.asm:44-89).
THEOREM CallerKept == Spec => []CallerContextKept
<1>1. Inv => CallerContextKept
  BY Places DEF Inv, Frame, CallerContextKept
<1> QED
  BY InvHolds, <1>1, PTL

\* The exception's handler gets the vector that was raised and the error code
\* the processor pushed, or zero for the vector without one
\* (interrupts_entry.asm:15-42).
THEOREM ExceptionShown == Spec => []ExceptionReported
<1>1. Inv /\ ExceptionReported => ExceptionReported
  OBVIOUS
<1> QED
  BY InvHolds, <1>1, PTL
=============================================================================
