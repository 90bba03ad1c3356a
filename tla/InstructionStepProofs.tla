----------------------- MODULE InstructionStepProofs -----------------------
(***************************************************************************)
(* For every depth of nesting, every length of the queued work and every    *)
(* table of latencies: a handler returns to what it interrupted, queued     *)
(* work is charged to its own context, and every context goes on with the   *)
(* instruction that is due in it.                                           *)
(*                                                                          *)
(* The invariants are predicates of a machine m, because a step composes    *)
(* several functions of the machine: each is shown to keep them.            *)
(***************************************************************************)
EXTENDS InstructionStep, SequenceTheorems, TLAPS

Cpu ==
  [mode : Modes, where : {"code", "vector", "sentinel"}, pc : Code, regs : Context,
   link : Code \cup {None, Sentinel}, spsr : Modes, irqOff : BOOLEAN]
Hle == [lr : Code \cup {None}, saved : Context \cup {None}, outer : Seq(Frame)]
WorkFrame == [left : 1 .. MaxWork, owner : Context]
IrqState ==
  [high : BOOLEAN, left : Nat, returned : BOOLEAN, armed : BOOLEAN, chain : BOOLEAN]
Interrupted == [mode : Modes, regs : Context, pc : Code]
Keeps == [link : Code \cup {None, Sentinel}, spsr : Modes]

Machine ==
  [cpu : Cpu, hle : Hle, work : Seq(WorkFrame), line : BOOLEAN, irq : IrqState,
   dma : BOOLEAN, stack : Seq(Interrupted), kept : Seq(Keeps), due : Code]

\* The frames of the scheduler describe the n innermost of the interrupted
\* contexts: none of them, or one frame in hle and the others in hle.outer.
Framed(h, stack, n) ==
  /\ n = 0 => h.lr = None /\ h.saved = None /\ h.outer = <<>>
  /\ n # 0 => /\ h.lr # None /\ h.saved = stack[n].regs
              /\ Len(h.outer) = n - 1
              /\ \A k \in 1 .. n - 1 : h.outer[k].saved = stack[k].regs

\* Between the entry of an interrupt and the call of its handler the frame is
\* not yet made: the CPU itself holds what is to be saved.
Frames(m) ==
  LET n == Level(m)
  IN /\ m.cpu.where # "vector" => Framed(m.hle, m.stack, n)
     /\ m.cpu.where # "code" => n # 0
     /\ m.cpu.where = "vector" =>
          /\ m.cpu.link \in Code /\ m.cpu.regs = m.stack[n].regs
          /\ n = 1 => m.hle.saved = None /\ m.hle.outer = <<>>
          /\ n # 1 => Framed(m.hle, m.stack, n - 1)

\* Every handler that is interrupted has kept its SPSR, and one that has not is
\* in IRQ mode with interrupts off: it holds the mode it goes back to.
Nested(m) ==
  LET n == Level(m)
  IN /\ Len(m.kept) < MaxDepth
     /\ \A k \in 1 .. Len(m.kept) : m.kept[k].spsr = m.stack[k].mode
     /\ n = 0 => m.kept = <<>>
     /\ n # 0 => Len(m.kept) \in {n - 1, n}
     /\ m.cpu.where # "code" => Len(m.kept) = n - 1
     /\ Len(m.kept) = n - 1 => /\ m.cpu.mode = "irq" /\ m.cpu.irqOff
                               /\ m.cpu.spsr = m.stack[n].mode

Sound(m) == m \in Machine /\ Frames(m) /\ Nested(m)

\* The links of the frames are the instructions that are due.
LinksDue(h, stack, n) ==
  n # 0 => /\ h.lr = stack[n].pc
           /\ \A k \in 1 .. n - 1 : h.outer[k].lr = stack[k].pc

FramesDue(m) ==
  LET n == Level(m)
  IN /\ m.cpu.where # "vector" => LinksDue(m.hle, m.stack, n)
     /\ m.cpu.where = "vector" => /\ m.cpu.link = m.stack[n].pc
                                  /\ LinksDue(m.hle, m.stack, n - 1)

HereDue(m) == m.cpu.where = "code" => m.cpu.pc = m.due

OnCourse(m) == FramesDue(m) /\ HereDue(m)

IInv == Sound(s)
DueInv == OnCourse(s)

---------------------------------------------------------------------------
(* The parts of a machine.                                                  *)

LEMMA AddressType ==
  ASSUME NEW level \in Context, NEW place \in Nat
  PROVE  Address(level, place) \in Code
<1> DEFINE r == place % Places
<1>1. r \in 0 .. Places - 1
  BY BoundsAssumption
<1> HIDE DEF r
<1>2. PICK d \in Nat : MaxDepth = level + d
  <2>1. MaxDepth - level \in Nat /\ MaxDepth = level + (MaxDepth - level)
    BY BoundsAssumption DEF Context
  <2>2. QED
    BY <2>1
<1>3. d * Places \in Nat /\ level * Places \in Nat
  BY <1>2, BoundsAssumption DEF Context
<1>4. (MaxDepth + 1) * Places = level * Places + d * Places + Places
  BY <1>2, BoundsAssumption DEF Context
<1>5. level * Places + r \in Code
  <2> DEFINE a == level * Places
             b == d * Places
             c == (MaxDepth + 1) * Places
  <2>1. a \in Nat /\ b \in Nat /\ c = a + b + Places
    BY <1>3, <1>4
  <2>2. Code = 0 .. c - 1
    BY DEF Code
  <2> HIDE DEF a, b, c
  <2>3. a + r \in 0 .. c - 1
    BY <1>1, <2>1, BoundsAssumption
  <2>4. QED
    BY <2>2, <2>3 DEF a
<1>6. QED
  BY <1>5 DEF Address, r

LEMMA CodeIsNat == Code \subseteq Nat /\ None \notin Code
BY DEF Code, None

LEMMA ContextIsNat == Context \subseteq Nat /\ None \notin Context
BY DEF Context, None

\* What Pop leaves of a sequence that is not empty.
LEMMA PopFacts ==
  ASSUME NEW S, NEW q \in Seq(S), Len(q) # 0
  PROVE  /\ Pop(q) \in Seq(S) /\ Len(Pop(q)) = Len(q) - 1
         /\ \A k \in 1 .. Len(q) - 1 : Pop(q)[k] = q[k]
         /\ Top(q) \in S
<1>1. Len(q) \in Nat /\ Len(q) - 1 \in Nat /\ Len(q) \in 1 .. Len(q)
  OBVIOUS
<1> DEFINE last == Len(q) - 1
<1>2. last \in 0 .. Len(q)
  BY <1>1
<1>3. /\ SubSeq(q, 1, last) \in Seq(S)
      /\ Len(SubSeq(q, 1, last)) = last
      /\ \A k \in 1 .. last : SubSeq(q, 1, last)[k] = q[k]
  <2>1. \A i \in 1 .. last : q[i] \in S
    BY <1>1
  <2> HIDE DEF last
  <2>2. last \in Int /\ last >= 0
    BY <1>2
  <2>3. /\ SubSeq(q, 1, last) \in Seq(S)
        /\ Len(SubSeq(q, 1, last)) = IF 1 <= last THEN last - 1 + 1 ELSE 0
        /\ \A k \in 1 .. last - 1 + 1 : SubSeq(q, 1, last)[k] = q[1 + k - 1]
    BY <2>1, <2>2, SubSeqProperties
  <2>4. \A k \in 1 .. last : SubSeq(q, 1, last)[k] = q[k]
    <3> TAKE k \in 1 .. last
    <3>1. k \in 1 .. last - 1 + 1 /\ 1 + k - 1 = k
      BY <2>2
    <3>2. SubSeq(q, 1, last)[k] = q[1 + k - 1]
      BY <2>3, <3>1
    <3>3. QED
      BY <3>1, <3>2
  <2>5. QED
    BY <2>2, <2>3, <2>4
<1>4. q[Len(q)] \in S
  BY <1>1
<1>5. QED
  BY <1>3, <1>4 DEF Pop, Top

LEMMA AppendFacts ==
  ASSUME NEW S, NEW q \in Seq(S), NEW e \in S
  PROVE  /\ Append(q, e) \in Seq(S) /\ Len(Append(q, e)) = Len(q) + 1
         /\ \A k \in 1 .. Len(q) : Append(q, e)[k] = q[k]
         /\ Append(q, e)[Len(q) + 1] = e
BY AppendProperties

LEMMA EmptyFacts ==
  ASSUME NEW S, NEW q \in Seq(S)
  PROVE  Len(q) \in Nat /\ (q = <<>> <=> Len(q) = 0)
BY EmptySeq

---------------------------------------------------------------------------
(* The passing of time changes the line and the latency and nothing else.   *)

Event == [hit : BOOLEAN, timer : BOOLEAN, slow : BOOLEAN, after : Nat]

\* t is m but for the interrupt line and its latency.
Same(m, t) ==
  /\ t \in Machine
  /\ t.cpu = m.cpu /\ t.hle = m.hle /\ t.work = m.work /\ t.dma = m.dma
  /\ t.stack = m.stack /\ t.kept = m.kept /\ t.due = m.due

LEMMA SameByParts ==
  ASSUME NEW m \in Machine, NEW l \in BOOLEAN, NEW q \in IrqState
  PROVE  Same(m, [m EXCEPT !.line = l, !.irq = q])
BY DEF Machine, Same

LEMMA ResetSame ==
  ASSUME NEW m \in Machine
  PROVE  Same(m, ResetLatency(m))
<1> DEFINE q == [m.irq EXCEPT !.high = FALSE, !.left = 0, !.armed = FALSE]
<1>1. q \in IrqState /\ m.line \in BOOLEAN
  BY DEF Machine, IrqState
<1>2. ResetLatency(m) = [m EXCEPT !.line = m.line, !.irq = q]
  BY DEF ResetLatency, Machine
<1> HIDE DEF q
<1>3. QED
  BY <1>1, <1>2, SameByParts

LEMMA WaitedSame ==
  ASSUME NEW m \in Machine, NEW n \in Nat
  PROVE  Same(m, Waited(m, n))
<1>0. m.line \in BOOLEAN /\ m.irq \in IrqState /\ Latency.normal \in Nat
  BY BoundsAssumption DEF Machine
<1>1. CASE ~Active(m)
  BY <1>1, ResetSame DEF Waited
<1>2. CASE Active(m) /\ ~m.irq.high
  <2> DEFINE q == [m.irq EXCEPT !.high = TRUE, !.left = Latency.normal]
  <2>1. q \in IrqState
    BY <1>0 DEF IrqState
  <2>2. Waited(m, n) = [m EXCEPT !.line = m.line, !.irq = q]
    BY <1>2 DEF Waited, Machine
  <2> HIDE DEF q
  <2>3. QED
    BY <1>0, <2>1, <2>2, SameByParts, ZenonT(60)
<1>3. CASE Active(m) /\ m.irq.high
  <2> DEFINE q == [m.irq EXCEPT !.left = IF @ > n THEN @ - n ELSE 0]
  <2>1. q \in IrqState
    BY <1>0 DEF IrqState
  <2>2. Waited(m, n) = [m EXCEPT !.line = m.line, !.irq = q]
    BY <1>3 DEF Waited, Machine
  <2> HIDE DEF q
  <2>3. QED
    BY <1>0, <2>1, <2>2, SameByParts, ZenonT(60)
<1>4. QED
  BY <1>1, <1>2, <1>3

LEMMA SameTransitive ==
  ASSUME NEW m, NEW t, NEW u, Same(m, t), Same(t, u)
  PROVE  Same(m, u)
BY DEF Same

LEMMA RaisedSame ==
  ASSUME NEW m \in Machine, NEW e \in Event
  PROVE  Same(m, Raised(m, e))
<1>1. m.line \in BOOLEAN /\ m.irq \in IrqState /\ (m.line \/ e.hit) \in BOOLEAN
  BY DEF Machine
<1>2. Raised(m, e) = [m EXCEPT !.line = m.line \/ e.hit, !.irq = m.irq]
  BY DEF Raised, Machine
<1>3. QED
  BY <1>1, <1>2, SameByParts

LEMMA FittedSame ==
  ASSUME NEW m \in Machine, NEW e \in Event
  PROVE  Same(m, Fitted(m, e))
<1> DEFINE latency == FittedLatency(m.irq, e.slow)
           q == [m.irq EXCEPT !.high = TRUE, !.left = latency, !.armed = m.irq.returned,
                              !.returned = FALSE]
<1>1. m.irq \in IrqState /\ (m.line \/ e.hit) \in BOOLEAN
  BY DEF Machine
<1>2. latency \in Nat
  BY <1>1, BoundsAssumption DEF FittedLatency, IrqState
<1>3. Fitted(m, e) = [m EXCEPT !.line = m.line \/ e.hit, !.irq = q]
  BY DEF Fitted, Raised, Machine
<1> HIDE DEF latency
<1>4. q \in IrqState
  BY <1>1, <1>2 DEF IrqState
<1> HIDE DEF q
<1>5. QED
  BY <1>1, <1>3, <1>4, SameByParts

LEMMA AdvancedSame ==
  ASSUME NEW m \in Machine, NEW n \in Nat, NEW e \in Event
  PROVE  Same(m, Advanced(m, n, e))
<1>1. \/ Advanced(m, n, e) = m
      \/ Advanced(m, n, e) = Waited(Raised(m, e), n)
      \/ Advanced(m, n, e) = Waited(Fitted(m, e), e.after)
      \/ Advanced(m, n, e) = Fitted(m, e)
  BY DEF Advanced
<1>2. Same(m, m) /\ Same(m, Raised(m, e)) /\ Same(m, Fitted(m, e)) /\ e.after \in Nat
  BY RaisedSame, FittedSame DEF Same, Event
<1>3. Raised(m, e) \in Machine /\ Fitted(m, e) \in Machine
  BY <1>2 DEF Same
<1>4. Same(m, Waited(Raised(m, e), n)) /\ Same(m, Waited(Fitted(m, e), e.after))
  BY <1>2, <1>3, WaitedSame, SameTransitive
<1>5. QED
  BY <1>1, <1>2, <1>4

LEMMA SameSound ==
  ASSUME NEW m, NEW t, Sound(m), Same(m, t)
  PROVE  Sound(t) /\ Level(t) = Level(m)
BY DEF Sound, Same, Frames, Nested, Level

LEMMA SameOnCourse ==
  ASSUME NEW m, NEW t, Same(m, t)
  PROVE  (FramesDue(t) <=> FramesDue(m)) /\ (HereDue(t) <=> HereDue(m))
BY DEF Same, FramesDue, HereDue, Level

---------------------------------------------------------------------------
(* The entry of an interrupt.                                               *)

\* A context that can be interrupted is the main program or an open handler.
LEMMA ActiveRuns ==
  ASSUME NEW m, Sound(m), Active(m)
  PROVE  /\ m.cpu.where = "code" /\ Len(m.kept) = Level(m)
         /\ Level(m) \in Nat /\ Level(m) < MaxDepth
<1>1. m \in Machine
  BY DEF Sound
<1>2. Len(m.kept) \in Nat /\ Level(m) \in Nat /\ (m.kept = <<>> => Len(m.kept) = 0)
  BY <1>1, EmptyFacts DEF Machine, Level
<1>3. ~m.cpu.irqOff
  BY DEF Active
<1>4. Len(m.kept) # Level(m) - 1 /\ Len(m.kept) < MaxDepth
  BY <1>3 DEF Sound, Nested
<1>5. QED
  BY <1>2, <1>4 DEF Sound, Nested

\* What the entry does, part by part.
LEMMA ServicedParts ==
  ASSUME NEW m, Sound(m), Active(m)
  PROVE  LET t == Serviced(m)
             below == [mode |-> m.cpu.mode, regs |-> m.cpu.regs, pc |-> m.due]
         IN /\ t \in Machine
            /\ t.cpu = [m.cpu EXCEPT !.mode = "irq", !.where = "vector", !.link = m.cpu.pc,
                                     !.spsr = m.cpu.mode, !.irqOff = TRUE]
            /\ t.hle = [m.hle EXCEPT !.lr = IF m.hle.lr = None THEN m.cpu.pc ELSE m.hle.lr]
            /\ t.stack = Append(m.stack, below)
            /\ t.kept = m.kept /\ t.due = m.due
<1> DEFINE below == [mode |-> m.cpu.mode, regs |-> m.cpu.regs, pc |-> m.due]
           c == [m.cpu EXCEPT !.mode = "irq", !.where = "vector", !.link = m.cpu.pc,
                              !.spsr = m.cpu.mode, !.irqOff = TRUE]
           h == [m.hle EXCEPT !.lr = IF m.hle.lr = None THEN m.cpu.pc ELSE m.hle.lr]
           k == Append(m.stack, below)
           q == [m.irq EXCEPT !.chain = m.irq.armed, !.armed = FALSE]
<1>0. m \in Machine
  BY DEF Sound
<1>1. c \in Cpu
  BY <1>0 DEF Machine, Cpu, Modes
<1>2. h \in Hle
  BY <1>0 DEF Machine, Hle, Cpu
<1>3. below \in Interrupted
  BY <1>0 DEF Machine, Cpu, Interrupted
<1>4. k \in Seq(Interrupted)
  <2>1. m.stack \in Seq(Interrupted)
    BY <1>0 DEF Machine
  <2> HIDE DEF below
  <2>2. QED
    BY <1>3, <2>1, AppendFacts
<1>5. q \in IrqState
  BY <1>0 DEF Machine, IrqState
<1>6. Serviced(m) = [m EXCEPT !.cpu = c, !.hle = h, !.stack = k, !.irq = q]
  BY <1>0, ZenonT(60) DEF Serviced, Machine
<1> HIDE DEF c, h, k, q
<1>7. /\ Serviced(m) \in Machine /\ Serviced(m).cpu = c /\ Serviced(m).hle = h
      /\ Serviced(m).stack = k /\ Serviced(m).kept = m.kept /\ Serviced(m).due = m.due
  BY <1>0, <1>1, <1>2, <1>4, <1>5, <1>6 DEF Machine
<1>8. QED
  BY <1>7 DEF c, h, k

\* The contexts below are where they were, and the interrupted one is on top.
LEMMA ServicedStack ==
  ASSUME NEW m, Sound(m), Active(m)
  PROVE  LET t == Serviced(m)
             n == Level(m)
         IN /\ Level(t) = n + 1
            /\ \A k \in 1 .. n : t.stack[k] = m.stack[k]
            /\ t.stack[n + 1].mode = m.cpu.mode /\ t.stack[n + 1].regs = m.cpu.regs
            /\ t.stack[n + 1].pc = m.due
<1> DEFINE below == [mode |-> m.cpu.mode, regs |-> m.cpu.regs, pc |-> m.due]
<1>1. m.stack \in Seq(Interrupted) /\ below \in Interrupted
  BY DEF Sound, Machine, Interrupted, Cpu
<1>2. Serviced(m).stack = Append(m.stack, below)
  BY ServicedParts
<1>3. below.mode = m.cpu.mode /\ below.regs = m.cpu.regs /\ below.pc = m.due
  OBVIOUS
<1> HIDE DEF below
<1>4. QED
  BY <1>1, <1>2, <1>3, AppendFacts DEF Level

LEMMA ServicedSound ==
  ASSUME NEW m, Sound(m), Active(m)
  PROVE  Sound(Serviced(m)) /\ Serviced(m).cpu.where = "vector"
<1> DEFINE t == Serviced(m)
           n == Level(m)
<1>1. /\ t \in Machine /\ t.kept = m.kept /\ m \in Machine
      /\ t.hle = [m.hle EXCEPT !.lr = IF m.hle.lr = None THEN m.cpu.pc ELSE m.hle.lr]
      /\ t.cpu = [m.cpu EXCEPT !.mode = "irq", !.where = "vector", !.link = m.cpu.pc,
                               !.spsr = m.cpu.mode, !.irqOff = TRUE]
  BY ServicedParts DEF Sound
<1>2. /\ t.cpu.mode = "irq" /\ t.cpu.where = "vector" /\ t.cpu.irqOff
      /\ t.cpu.spsr = m.cpu.mode /\ t.cpu.regs = m.cpu.regs /\ t.cpu.link \in Code
  <2>1. m.cpu \in Cpu
    BY <1>1 DEF Machine
  <2> HIDE DEF t
  <2>2. QED
    BY <1>1, <2>1 DEF Cpu
<1>3. /\ Level(t) = n + 1 /\ \A k \in 1 .. n : t.stack[k] = m.stack[k]
      /\ t.stack[n + 1].mode = m.cpu.mode /\ t.stack[n + 1].regs = m.cpu.regs
  BY ServicedStack
<1>4. m.cpu.where = "code" /\ Len(m.kept) = n /\ n \in Nat /\ n < MaxDepth
  BY ActiveRuns
<1>5. Framed(m.hle, m.stack, n)
  BY <1>4 DEF Sound, Frames
<1> HIDE DEF t, n
<1>6. m.hle \in Hle
  BY <1>1 DEF Machine
<1>7. t.hle.saved = m.hle.saved /\ t.hle.outer = m.hle.outer /\ (n # 0 => t.hle.lr = m.hle.lr)
  BY <1>1, <1>5, <1>6 DEF Hle, Framed
<1>8. Frames(t)
  <2>1. n = 0 => t.hle.saved = None /\ t.hle.outer = <<>>
    BY <1>5, <1>7 DEF Framed
  <2>2. ASSUME n # 0 PROVE Framed(t.hle, t.stack, n)
    <3>1. n \in 1 .. n /\ \A k \in 1 .. n - 1 : k \in 1 .. n
      BY <1>4, <2>2
    <3>2. t.stack[n] = m.stack[n] /\ \A k \in 1 .. n - 1 : t.stack[k] = m.stack[k]
      BY <1>3, <3>1
    <3>3. QED
      BY <1>5, <1>7, <2>2, <3>2 DEF Framed
  <2>3. n + 1 # 0 /\ (n + 1) - 1 = n /\ (n + 1 = 1 <=> n = 0)
    BY <1>4
  <2>4. QED
    BY <1>2, <1>3, <2>1, <2>2, <2>3 DEF Frames
<1>9. Nested(t)
  <2>1. \A k \in 1 .. Len(m.kept) : m.kept[k].spsr = m.stack[k].mode
    BY DEF Sound, Nested
  <2>2. n + 1 # 0 /\ (n + 1) - 1 = n
    BY <1>4
  <2>3. QED
    BY <1>1, <1>2, <1>3, <1>4, <2>1, <2>2 DEF Nested
<1>10. QED
  BY <1>1, <1>2, <1>8, <1>9 DEF Sound, t

LEMMA ServicedDue ==
  ASSUME NEW m, Sound(m), Active(m), OnCourse(m)
  PROVE  OnCourse(Serviced(m))
<1> DEFINE t == Serviced(m)
           n == Level(m)
<1>1. /\ t.hle = [m.hle EXCEPT !.lr = IF m.hle.lr = None THEN m.cpu.pc ELSE m.hle.lr]
      /\ t.cpu = [m.cpu EXCEPT !.mode = "irq", !.where = "vector", !.link = m.cpu.pc,
                               !.spsr = m.cpu.mode, !.irqOff = TRUE]
  BY ServicedParts
<1>2. /\ Level(t) = n + 1 /\ \A k \in 1 .. n : t.stack[k] = m.stack[k]
      /\ t.stack[n + 1].pc = m.due
  BY ServicedStack
<1>3. m.cpu.where = "code" /\ n \in Nat
  BY ActiveRuns
<1>4. Framed(m.hle, m.stack, n) /\ LinksDue(m.hle, m.stack, n) /\ m.cpu.pc = m.due
  BY <1>3 DEF Sound, Frames, OnCourse, FramesDue, HereDue
<1> HIDE DEF t, n
<1>5. m.hle \in Hle /\ m.cpu \in Cpu
  BY DEF Sound, Machine
<1>6. t.cpu.where = "vector" /\ t.cpu.link = m.cpu.pc
  BY <1>1, <1>5 DEF Cpu
<1>7. t.hle.outer = m.hle.outer /\ (n # 0 => t.hle.lr = m.hle.lr)
  BY <1>1, <1>4, <1>5 DEF Hle, Framed
<1>8. LinksDue(t.hle, t.stack, n)
  BY <1>2, <1>3, <1>4, <1>7 DEF LinksDue
<1>9. (n + 1) - 1 = n
  BY <1>3
<1>10. QED
  BY <1>2, <1>4, <1>6, <1>8, <1>9 DEF OnCourse, FramesDue, HereDue, t

LEMMA AutoServicedSound ==
  ASSUME NEW m, Sound(m)
  PROVE  /\ Sound(AutoServiced(m))
         /\ AutoServiced(m) = m \/ AutoServiced(m).cpu.where = "vector"
         /\ Ready(m) => AutoServiced(m).cpu.where = "vector"
<1>1. CASE ~Ready(m)
  BY <1>1 DEF AutoServiced
<1>2. CASE Ready(m)
  <2>1. Active(m)
    BY <1>2 DEF Ready
  <2>2. Sound(Serviced(m)) /\ Serviced(m).cpu.where = "vector"
    BY <2>1, ServicedSound
  <2>3. Same(Serviced(m), ResetLatency(Serviced(m)))
    BY <2>2, ResetSame DEF Sound
  <2>4. Sound(ResetLatency(Serviced(m))) /\ ResetLatency(Serviced(m)).cpu.where = "vector"
    BY <2>2, <2>3, SameSound DEF Same
  <2>5. QED
    BY <1>2, <2>4 DEF AutoServiced
<1>3. QED
  BY <1>1, <1>2

LEMMA AutoServicedDue ==
  ASSUME NEW m, Sound(m), OnCourse(m)
  PROVE  OnCourse(AutoServiced(m))
<1>1. CASE ~Ready(m)
  BY <1>1 DEF AutoServiced
<1>2. CASE Ready(m)
  <2>1. Active(m)
    BY <1>2 DEF Ready
  <2>2. Sound(Serviced(m)) /\ OnCourse(Serviced(m))
    BY <2>1, ServicedSound, ServicedDue
  <2>3. Same(Serviced(m), ResetLatency(Serviced(m)))
    BY <2>2, ResetSame DEF Sound
  <2>4. OnCourse(ResetLatency(Serviced(m)))
    BY <2>2, <2>3, SameOnCourse DEF OnCourse
  <2>5. QED
    BY <1>2, <2>4 DEF AutoServiced
<1>3. QED
  BY <1>1, <1>2

---------------------------------------------------------------------------
(* A step of the CPU.                                                       *)

\* t is m but for what the invariants do not depend on: the place of the
\* running context, its registers, time, work and transfers.
Alike(m, t) ==
  /\ t \in Machine
  /\ t.hle = m.hle /\ t.stack = m.stack /\ t.kept = m.kept
  /\ t.cpu.where = m.cpu.where /\ t.cpu.mode = m.cpu.mode /\ t.cpu.link = m.cpu.link
  /\ t.cpu.spsr = m.cpu.spsr /\ t.cpu.irqOff = m.cpu.irqOff
  /\ m.cpu.where = "vector" => t.cpu.regs = m.cpu.regs

LEMMA AlikeSound ==
  ASSUME NEW m, NEW t, Sound(m), Alike(m, t)
  PROVE  Sound(t) /\ Level(t) = Level(m) /\ (FramesDue(m) => FramesDue(t))
<1>1. Level(t) = Level(m)
  BY DEF Alike, Level
<1>2. Frames(t)
  BY <1>1 DEF Alike, Sound, Frames
<1>3. Nested(t)
  BY <1>1 DEF Alike, Sound, Nested
<1>4. FramesDue(m) => FramesDue(t)
  BY <1>1 DEF Alike, FramesDue
<1>5. QED
  BY <1>1, <1>2, <1>3, <1>4 DEF Alike, Sound

LEMMA SameAlike ==
  ASSUME NEW m, NEW t, Same(m, t)
  PROVE  Alike(m, t) /\ t.cpu.pc = m.cpu.pc /\ t.due = m.due
BY DEF Same, Alike

LEMMA AlikeTransitive ==
  ASSUME NEW m, NEW t, NEW u, Alike(m, t), Alike(t, u)
  PROVE  Alike(m, u)
BY DEF Alike

\* The pc is moved, and what is due with it.
Moved(m, p, d) == [m EXCEPT !.cpu.pc = p, !.due = d]

LEMMA MovedAlike ==
  ASSUME NEW m \in Machine, NEW p \in Code, NEW d \in Code
  PROVE  Alike(m, Moved(m, p, d)) /\ Moved(m, p, d).cpu.pc = p /\ Moved(m, p, d).due = d
<1> DEFINE c == [m.cpu EXCEPT !.pc = p]
           t == Moved(m, p, d)
<1>1. m.cpu \in Cpu
  BY DEF Machine
<1>2. /\ c \in Cpu /\ c.pc = p /\ c.where = m.cpu.where /\ c.mode = m.cpu.mode
      /\ c.link = m.cpu.link /\ c.spsr = m.cpu.spsr /\ c.irqOff = m.cpu.irqOff
      /\ c.regs = m.cpu.regs
  BY <1>1 DEF Cpu
<1>3. t = [m EXCEPT !.cpu = c, !.due = d]
  BY DEF Machine, Moved
<1> HIDE DEF c, t
<1>4. /\ t \in Machine /\ t.cpu = c /\ t.due = d /\ t.hle = m.hle
      /\ t.stack = m.stack /\ t.kept = m.kept
  BY <1>2, <1>3 DEF Machine
<1>5. QED
  BY <1>2, <1>4 DEF Alike, t

LEMMA PcMovedAlike ==
  ASSUME NEW m \in Machine, NEW p \in Code
  PROVE  LET t == [m EXCEPT !.cpu.pc = p]
         IN Alike(m, t) /\ t.cpu.pc = p /\ t.due = m.due
<1> DEFINE t == [m EXCEPT !.cpu.pc = p]
<1>1. m.due \in Code
  BY DEF Machine
<1>2. t = Moved(m, p, m.due)
  BY DEF Machine, Moved
<1> HIDE DEF t
<1>3. Alike(m, t) /\ t.cpu.pc = p /\ t.due = m.due
  BY <1>1, <1>2, MovedAlike
<1>4. QED
  BY <1>3 DEF t

\* The link of an interrupt that an instruction lets in is the next place.
LEMMA LinkedSound ==
  ASSUME NEW m, Sound(m), m.cpu.where = "code", NEW p \in Code
  PROVE  /\ Linked(m, p) = m \/ (Sound(Linked(m, p)) /\ Linked(m, p).cpu.where = "vector")
         /\ FramesDue(m) /\ m.due = p =>
              Linked(m, p) = m \/ OnCourse(Linked(m, p))
<1> DEFINE t == [m EXCEPT !.cpu.pc = p]
<1>1. m \in Machine
  BY DEF Sound
<1>2. Alike(m, t) /\ t.cpu.pc = p /\ t.due = m.due
  BY <1>1, PcMovedAlike
<1>3. Linked(m, p) = IF AutoServiced(t).cpu.where = "vector" THEN AutoServiced(t) ELSE m
  BY DEF Linked
<1> HIDE DEF t
<1>4. Sound(t) /\ (FramesDue(m) => FramesDue(t))
  BY <1>2, AlikeSound
<1>5. Sound(AutoServiced(t))
  BY <1>4, AutoServicedSound
<1>6. FramesDue(m) /\ m.due = p => OnCourse(AutoServiced(t))
  BY <1>2, <1>4, AutoServicedDue DEF OnCourse, HereDue
<1>7. QED
  BY <1>3, <1>5, <1>6

Instruction ==
  [pre : Nat, cycles : Nat, data : BOOLEAN, timerLoad : BOOLEAN, timerStore : BOOLEAN,
   goes : {"next", "branch", "jump"}, to : Nat]

Timetable == [fetch : Event, pre : Event, rest : Event, dma : Event, refill : Event]

\* What may come of g, the machine after the access: it has gone on, or it has
\* been interrupted.
WentOn(g, c) == Alike(g, c) /\ c.cpu.pc = g.cpu.pc /\ c.due = g.due
Entered(c) == Sound(c) /\ c.cpu.where = "vector"

\* Going on from the instruction at fetch leads to what is due.
Heading(i, g, fetch) ==
  g.cpu.where = "code" =>
    \/ g.cpu.pc = fetch /\ i.goes # "branch" /\ g.due = Address(Level(g), fetch + 1)
    \/ g.cpu.pc # fetch /\ g.cpu.pc = g.due

LEMMA StoreAlike ==
  ASSUME NEW m \in Machine
  PROVE  Same(m, [m EXCEPT !.irq.returned = FALSE, !.irq.armed = FALSE, !.irq.chain = FALSE])
<1> DEFINE q == [m.irq EXCEPT !.returned = FALSE, !.armed = FALSE, !.chain = FALSE]
<1>1. q \in IrqState /\ m.line \in BOOLEAN
  BY DEF Machine, IrqState
<1>2. [m EXCEPT !.irq.returned = FALSE, !.irq.armed = FALSE, !.irq.chain = FALSE]
        = [m EXCEPT !.line = m.line, !.irq = q]
  BY DEF Machine
<1> HIDE DEF q
<1>3. QED
  BY <1>1, <1>2, SameByParts

LEMMA DmaAlike ==
  ASSUME NEW m \in Machine, NEW b \in BOOLEAN
  PROVE  LET t == [m EXCEPT !.dma = b]
         IN Alike(m, t) /\ t.cpu = m.cpu /\ t.due = m.due
BY DEF Machine, Alike

LEMMA LevelType ==
  ASSUME NEW m, Sound(m)
  PROVE  Level(m) \in Context
<1>1. m \in Machine
  BY DEF Sound
<1>2. Level(m) \in Nat /\ Len(m.kept) \in Nat /\ (m.kept = <<>> <=> Len(m.kept) = 0)
  BY <1>1, EmptyFacts DEF Level, Machine
<1>3. Level(m) <= MaxDepth
  BY <1>2, BoundsAssumption DEF Sound, Nested
<1>4. QED
  BY <1>2, <1>3, BoundsAssumption DEF Context

\* The rest of an instruction: the machine goes on, or is interrupted with the
\* next instruction due.
LEMMA CompletedOutcome ==
  ASSUME NEW i \in Instruction, NEW g, Sound(g), NEW fetch \in Code,
         NEW events \in Timetable
  PROVE  LET c == Completed(i, g, fetch, 1, events)
         IN /\ WentOn(g, c) \/ Entered(c)
            /\ FramesDue(g) /\ Heading(i, g, fetch) => WentOn(g, c) \/ OnCourse(c)
<1> DEFINE reset == [g EXCEPT !.irq.returned = FALSE, !.irq.armed = FALSE, !.irq.chain = FALSE]
           stored == IF i.timerStore THEN reset ELSE g
           n == IF i.cycles > i.pre THEN i.cycles - i.pre ELSE 0
           rest == Advanced(stored, n, events.rest)
           idle == [rest EXCEPT !.dma = FALSE]
           moved == IF rest.dma THEN Advanced(idle, 1, events.dma) ELSE rest
           next == Address(Level(g), fetch + 1)
           links == /\ moved.cpu.pc = fetch /\ moved.cpu.where = "code"
                    /\ ~Deferred(i, Ready(stored), moved)
           c == Completed(i, g, fetch, 1, events)
<1>1. c = IF links THEN Linked(moved, next) ELSE moved
  BY DEF Completed
<1>2. g \in Machine /\ n \in Nat /\ events.rest \in Event /\ events.dma \in Event
  BY DEF Sound, Instruction, Timetable
<1>3. Same(g, stored)
  <2>1. Same(g, g) /\ Same(g, reset)
    BY <1>2, StoreAlike DEF Same
  <2> HIDE DEF reset
  <2>2. QED
    BY <2>1
<1> HIDE DEF reset, stored, n, c
<1>4. stored \in Machine
  BY <1>3 DEF Same
<1>5. Same(stored, rest)
  BY <1>2, <1>4, AdvancedSame
<1> HIDE DEF rest
<1>6. rest \in Machine /\ Same(g, rest)
  BY <1>3, <1>5, SameTransitive DEF Same
<1>7. Alike(g, rest) /\ rest.cpu.pc = g.cpu.pc /\ rest.due = g.due
  BY <1>6, SameAlike
<1>8. Alike(rest, idle) /\ idle.cpu = rest.cpu /\ idle.due = rest.due
  BY <1>6, DmaAlike
<1> HIDE DEF idle
<1>9. Same(idle, Advanced(idle, 1, events.dma))
  BY <1>2, <1>8, AdvancedSame DEF Alike
<1>10. WentOn(g, moved)
  <2> DEFINE a == Advanced(idle, 1, events.dma)
  <2>1. Alike(idle, a) /\ a.cpu.pc = idle.cpu.pc /\ a.due = idle.due
    BY <1>9, SameAlike
  <2> HIDE DEF a
  <2>2. Alike(g, a) /\ a.cpu.pc = g.cpu.pc /\ a.due = g.due
    BY <1>7, <1>8, <2>1, AlikeTransitive
  <2>3. QED
    BY <1>7, <2>2 DEF WentOn, a
<1> HIDE DEF moved
<1>11. Sound(moved) /\ Level(moved) = Level(g) /\ (FramesDue(g) => FramesDue(moved))
  BY <1>10, AlikeSound DEF WentOn
<1>12. next \in Code
  <2>1. Level(g) \in Context /\ fetch + 1 \in Nat
    BY LevelType, CodeIsNat
  <2>2. QED
    BY <2>1, AddressType
<1> HIDE DEF next
<1>13. CASE ~links
  BY <1>1, <1>10, <1>13 DEF c
<1>14. CASE links
  <2>1. moved.cpu.pc = fetch /\ moved.cpu.where = "code" /\ c = Linked(moved, next)
    BY <1>1, <1>14
  <2>2. /\ Linked(moved, next) = moved \/ Entered(Linked(moved, next))
        /\ FramesDue(moved) /\ moved.due = next =>
             Linked(moved, next) = moved \/ OnCourse(Linked(moved, next))
    BY <1>11, <1>12, <2>1, LinkedSound DEF Entered
  <2>3. Heading(i, g, fetch) => moved.due = next
    BY <1>10, <2>1 DEF Heading, WentOn, Alike, next
  <2>4. QED
    BY <1>10, <1>11, <2>1, <2>2, <2>3 DEF c
<1>15. QED
  BY <1>13, <1>14

\* The end of a step, when the machine has gone on to c or been interrupted.
LEMMA FinishedSound ==
  ASSUME NEW i, NEW c, Sound(c), NEW fetch \in Code, NEW event \in Event
  PROVE  /\ Sound(Finished(i, c, fetch, 1, event))
         /\ FramesDue(c) /\ Heading(i, c, fetch) => OnCourse(Finished(i, c, fetch, 1, event))
<1> DEFINE next == Address(Level(c), fetch + 1)
           there == [c EXCEPT !.cpu.pc = next]
           late == Advanced(c, 1, event)
           stays == c.cpu.where = "code" /\ c.cpu.pc = fetch /\ i.goes # "branch"
<1>1. Finished(i, c, fetch, 1, event)
        = IF stays THEN there ELSE IF i.goes = "branch" THEN AutoServiced(late) ELSE c
  BY DEF Finished
<1>2. c \in Machine
  BY DEF Sound
<1>3. next \in Code
  BY LevelType, AddressType, CodeIsNat
<1>4. Alike(c, there) /\ there.cpu.pc = next /\ there.due = c.due
  BY <1>2, <1>3, PcMovedAlike
<1>5. Same(c, late)
  BY <1>2, AdvancedSame
<1> HIDE DEF there, late
<1>6. CASE stays
  <2>1. Sound(there) /\ (FramesDue(c) => FramesDue(there))
    BY <1>4, AlikeSound
  <2>2. Heading(i, c, fetch) => HereDue(there)
    BY <1>4, <1>6 DEF Heading, HereDue
  <2>3. QED
    BY <1>1, <1>6, <2>1, <2>2 DEF OnCourse
<1> HIDE DEF next
<1>7. CASE ~stays /\ i.goes = "branch"
  <2>1. Sound(late) /\ Sound(AutoServiced(late))
    BY <1>5, SameSound, AutoServicedSound
  <2>2. FramesDue(c) /\ Heading(i, c, fetch) => OnCourse(late)
    BY <1>5, <1>7, SameOnCourse DEF OnCourse, HereDue, Heading
  <2>3. QED
    BY <1>1, <1>7, <2>1, <2>2, AutoServicedDue
<1>8. CASE ~stays /\ i.goes # "branch"
  BY <1>1, <1>8 DEF OnCourse, HereDue, Heading
<1>9. QED
  BY <1>6, <1>7, <1>8

\* A step from s, whose instruction makes of the machine a sound one in the
\* same context, leads to a sound machine; and to one that is on course if
\* the instruction does not go to itself.
LEMMA SteppedSound ==
  ASSUME Sound(s), Runs, NEW i \in Instruction, NEW executed, Sound(executed),
         Level(executed) = Level(s),
         NEW wait \in Nat, NEW timer, NEW events \in Timetable
  PROVE  LET t == Stepped(i, executed, wait, timer, events)
         IN /\ Sound(t)
            /\ /\ OnCourse(s) /\ FramesDue(executed)
               /\ \/ i.goes = "next" \/ executed.cpu.where # "code"
                  \/ Address(Level(s), i.to) # s.cpu.pc
               => OnCourse(t)
<1> DEFINE fetch == s.cpu.pc
           fetched == Advanced(s, wait, events.fetch)
           before == Advanced(fetched, i.pre, events.pre)
           next == Address(Level(s), IF i.goes = "next" THEN fetch + 1 ELSE i.to)
           p == IF i.goes = "next" THEN fetch ELSE next
           gone == [executed EXCEPT !.cpu.pc = p, !.due = next]
           c == Completed(i, gone, fetch, 1, events)
           t == Stepped(i, executed, wait, timer, events)
           early == i.pre > 0 /\ TakenBeforeAccess(i, before, fetched.irq.returned, timer)
<1>1. t = IF early THEN [AutoServiced(before) EXCEPT !.irq.returned = FALSE]
          ELSE Finished(i, c, fetch, 1, events.refill)
  BY DEF Stepped
<1>2. /\ s \in Machine /\ executed \in Machine /\ fetch \in Code
      /\ i.pre \in Nat /\ i.to \in Nat /\ i.goes \in {"next", "branch", "jump"}
      /\ events.fetch \in Event /\ events.pre \in Event /\ events.refill \in Event
  BY DEF Sound, Machine, Cpu, Instruction, Timetable
<1>3. next \in Code /\ p \in Code
  <2>1. (IF i.goes = "next" THEN fetch + 1 ELSE i.to) \in Nat
    BY <1>2, CodeIsNat
  <2> DEFINE place == IF i.goes = "next" THEN fetch + 1 ELSE i.to
  <2>2. Address(Level(s), place) \in Code
    <3> HIDE DEF place
    <3>1. place \in Nat
      BY <2>1 DEF place
    <3>2. QED
      BY <3>1, LevelType, AddressType
  <2>3. QED
    BY <1>2, <2>2
<1>4. CASE early
  <2> HIDE DEF early
  <2>1. Same(s, before)
    <3>1. Same(s, fetched)
      BY <1>2, AdvancedSame
    <3> HIDE DEF fetched
    <3>2. Same(fetched, before)
      BY <1>2, <3>1, AdvancedSame DEF Same
    <3>3. QED
      BY <3>1, <3>2, SameTransitive
  <2> HIDE DEF before
  <2> DEFINE a == AutoServiced(before)
             u == [a EXCEPT !.irq.returned = FALSE]
  <2>2. Sound(before) /\ (OnCourse(s) => OnCourse(before))
    BY <2>1, SameSound, SameOnCourse DEF OnCourse
  <2>3. Sound(a) /\ (OnCourse(s) => OnCourse(a))
    BY <2>2, AutoServicedSound, AutoServicedDue
  <2> HIDE DEF a
  <2>4. Same(a, u)
    <3> DEFINE q == [a.irq EXCEPT !.returned = FALSE]
    <3>1. a \in Machine
      BY <2>3 DEF Sound
    <3>2. q \in IrqState /\ a.line \in BOOLEAN
      BY <3>1 DEF Machine, IrqState
    <3>3. u = [a EXCEPT !.line = a.line, !.irq = q]
      BY <3>1 DEF Machine
    <3> HIDE DEF q, u
    <3>4. QED
      BY <3>1, <3>2, <3>3, SameByParts
  <2>5. t = u
    BY <1>1, <1>4 DEF a
  <2> HIDE DEF u, t
  <2>6. Sound(t) /\ (OnCourse(s) => OnCourse(t))
    BY <2>3, <2>4, <2>5, SameSound, SameOnCourse DEF OnCourse
  <2>7. QED
    BY <2>6 DEF t
<1>5. CASE ~early
  <2> HIDE DEF early, next, p
  <2>1. Alike(executed, gone) /\ gone.cpu.pc = p /\ gone.due = next
    <3>1. gone = Moved(executed, p, next)
      BY DEF Moved
    <3> HIDE DEF gone
    <3>2. QED
      BY <1>2, <1>3, <3>1, MovedAlike
  <2> HIDE DEF gone
  <2>2. Sound(gone) /\ Level(gone) = Level(s) /\ (FramesDue(executed) => FramesDue(gone))
    BY <2>1, AlikeSound
  <2>3. /\ WentOn(gone, c) \/ Entered(c)
        /\ FramesDue(gone) /\ Heading(i, gone, fetch) => WentOn(gone, c) \/ OnCourse(c)
    BY <1>2, <2>2, CompletedOutcome
  <2> HIDE DEF c
  <2>4. t = Finished(i, c, fetch, 1, events.refill)
    BY <1>1, <1>5
  <2>5. ASSUME WentOn(gone, c)
        PROVE  /\ Sound(c) /\ (FramesDue(executed) => FramesDue(c))
               /\ Heading(i, gone, fetch) => Heading(i, c, fetch)
    <3>1. Alike(gone, c) /\ c.cpu.pc = gone.cpu.pc /\ c.due = gone.due
      BY <2>5 DEF WentOn
    <3>2. Sound(c) /\ Level(c) = Level(gone) /\ (FramesDue(gone) => FramesDue(c))
      BY <2>2, <3>1, AlikeSound
    <3>3. QED
      BY <2>2, <3>1, <3>2 DEF Heading, Alike
  <2>6. Sound(c)
    BY <2>3, <2>5 DEF Entered
  <2>7. Sound(t)
    BY <1>2, <2>4, <2>6, FinishedSound
  <2>8. ASSUME FramesDue(executed),
               \/ i.goes = "next" \/ executed.cpu.where # "code"
               \/ Address(Level(s), i.to) # s.cpu.pc
        PROVE  OnCourse(t)
    <3>1. Heading(i, gone, fetch)
      <4>1. i.goes = "next" => p = fetch /\ next = Address(Level(s), fetch + 1)
        BY DEF p, next
      <4>2. i.goes # "next" => p = next /\ next = Address(Level(s), i.to)
        BY DEF p, next
      <4>3. gone.cpu.where = executed.cpu.where
        BY <2>1 DEF Alike
      <4>4. QED
        BY <2>1, <2>2, <2>8, <4>1, <4>2, <4>3 DEF Heading
    <3>2. CASE WentOn(gone, c)
      BY <1>2, <2>4, <2>5, <2>8, <3>1, <3>2, FinishedSound
    <3>3. CASE ~WentOn(gone, c)
      <4>1. OnCourse(c) /\ c.cpu.where = "vector"
        BY <2>2, <2>3, <2>8, <3>1, <3>3 DEF Entered
      <4>2. FramesDue(c) /\ Heading(i, c, fetch)
        BY <4>1 DEF OnCourse, Heading
      <4>3. QED
        BY <1>2, <2>4, <2>6, <4>2, FinishedSound
    <3>4. QED
      BY <3>2, <3>3
  <2> HIDE DEF t
  <2>9. QED
    BY <2>7, <2>8 DEF t
<1>6. QED
  BY <1>4, <1>5

---------------------------------------------------------------------------
(* What the instructions make of the machine.                               *)

LEMMA EventTypes ==
  /\ AnyEvent \subseteq Event /\ Quiet \in Event /\ NoEvents \in Timetable
  /\ \A phases : phases \subseteq {"fetch", "pre", "rest", "dma", "refill"} =>
       Events(phases) \subseteq Timetable
<1>1. Quiet \in Event /\ Device \in Event /\ \A slow \in BOOLEAN : TimerEvent(slow, 0) \in Event
  BY DEF Quiet, Device, TimerEvent, Event
<1>2. AnyEvent \subseteq Event
  BY <1>1 DEF AnyEvent
<1>3. NoEvents \in Timetable
  BY <1>1 DEF NoEvents, Timetable
<1>4. ASSUME NEW phase \in {"fetch", "pre", "rest", "dma", "refill"}, NEW event \in AnyEvent
      PROVE  [NoEvents EXCEPT ![phase] = event] \in Timetable
  <2>1. event \in Event
    BY <1>2
  <2>2. [NoEvents EXCEPT !.fetch = event] \in Timetable
    BY <1>3, <2>1 DEF Timetable
  <2>3. [NoEvents EXCEPT !.pre = event] \in Timetable
    BY <1>3, <2>1 DEF Timetable
  <2>4. [NoEvents EXCEPT !.rest = event] \in Timetable
    BY <1>3, <2>1 DEF Timetable
  <2>5. [NoEvents EXCEPT !.dma = event] \in Timetable
    BY <1>3, <2>1 DEF Timetable
  <2>6. [NoEvents EXCEPT !.refill = event] \in Timetable
    BY <1>3, <2>1 DEF Timetable
  <2>7. CASE phase = "fetch"
    BY <2>2, <2>7
  <2>8. CASE phase = "pre"
    BY <2>3, <2>8
  <2>9. CASE phase = "rest"
    BY <2>4, <2>9
  <2>10. CASE phase = "dma"
    BY <2>5, <2>10
  <2>11. CASE phase = "refill"
    BY <2>6, <2>11
  <2>12. QED
    BY <2>7, <2>8, <2>9, <2>10, <2>11
<1>5. QED
  BY <1>1, <1>2, <1>3, <1>4 DEF Events

LEMMA InstructionTypes ==
  /\ Instructions \subseteq Instruction /\ Alu \in Instruction /\ Store \in Instruction
  /\ \A kind \in {"branch", "jump"}, p \in Nat : Goto(kind, p) \in Instruction
  /\ \A i \in Instructions : i.goes = "next"
  /\ Alu.goes = "next" /\ Store.goes = "next"
  /\ \A kind \in {"branch", "jump"}, p \in Nat : Goto(kind, p).to = p
<1>1. /\ Alu \in Instruction /\ Alu.goes = "next"
      /\ \A kind \in {"branch", "jump"}, p \in Nat : Goto(kind, p) \in Instruction
      /\ \A kind \in {"branch", "jump"}, p \in Nat : Goto(kind, p).to = p
  BY DEF Alu, Goto, Instruction
<1>2. Load \in Instruction /\ Load.goes = "next"
  BY <1>1 DEF Load, Instruction
<1>3. Store \in Instruction /\ Store.goes = "next"
  BY <1>2 DEF Store, Instruction
<1>4. TimerLoad \in Instruction /\ TimerLoad.goes = "next"
  BY <1>2 DEF TimerLoad, Instruction
<1>5. TimerStore \in Instruction /\ TimerStore.goes = "next"
  BY <1>3 DEF TimerStore, Instruction
<1>6. QED
  BY <1>1, <1>2, <1>3, <1>4, <1>5 DEF Instructions

\* At its access the instruction finds the context it was fetched in.
LEMMA ReachedAlike ==
  ASSUME Sound(s), Runs, NEW i \in Instruction, NEW wait \in Nat, NEW events \in Timetable
  PROVE  LET m == Reached(i, wait, events)
         IN /\ Alike(s, m) /\ Sound(m) /\ Level(m) = Level(s)
            /\ m.cpu.where = "code" /\ (FramesDue(s) => FramesDue(m))
<1> DEFINE fetched == Advanced(s, wait, events.fetch)
           before == Advanced(fetched, i.pre, events.pre)
           c == [before.cpu EXCEPT !.regs = Level(s)]
           m == Reached(i, wait, events)
<1>1. /\ s \in Machine /\ i.pre \in Nat /\ events.fetch \in Event /\ events.pre \in Event
      /\ s.cpu.where = "code"
  BY DEF Sound, Instruction, Timetable, Runs
<1>2. Same(s, fetched)
  BY <1>1, AdvancedSame
<1> HIDE DEF fetched
<1>3. Same(fetched, before)
  BY <1>1, <1>2, AdvancedSame DEF Same
<1>4. m = [before EXCEPT !.cpu.regs = Level(s)]
  BY DEF Reached, fetched
<1> HIDE DEF before, m
<1>5. Same(s, before)
  BY <1>2, <1>3, SameTransitive
<1>6. before \in Machine /\ before.cpu \in Cpu /\ before.cpu = s.cpu
  BY <1>5 DEF Same, Machine
<1>7. /\ c \in Cpu /\ c.where = s.cpu.where /\ c.mode = s.cpu.mode /\ c.link = s.cpu.link
      /\ c.spsr = s.cpu.spsr /\ c.irqOff = s.cpu.irqOff
  BY <1>6, LevelType DEF Cpu
<1>8. m = [before EXCEPT !.cpu = c]
  BY <1>4, <1>6 DEF Machine
<1> HIDE DEF c
<1>9. /\ m \in Machine /\ m.cpu = c /\ m.hle = before.hle /\ m.stack = before.stack
      /\ m.kept = before.kept
  BY <1>6, <1>7, <1>8 DEF Machine
<1>10. Alike(s, m)
  BY <1>1, <1>5, <1>7, <1>9 DEF Alike, Same
<1>11. Sound(m) /\ Level(m) = Level(s) /\ (FramesDue(s) => FramesDue(m))
  BY <1>10, AlikeSound
<1>12. QED
  BY <1>1, <1>7, <1>9, <1>10, <1>11 DEF m

LEMMA PlainAlike ==
  ASSUME Sound(s), Runs
  PROVE  /\ Alike(s, Plain) /\ Sound(Plain) /\ Level(Plain) = Level(s)
         /\ Plain.cpu.where = "code" /\ (FramesDue(s) => FramesDue(Plain))
BY ReachedAlike, InstructionTypes, EventTypes DEF Plain

\* The depth by the scheduler's frames is the nesting of the contexts.
LEMMA DepthIsLevel ==
  ASSUME NEW m, Sound(m), m.cpu.where # "vector"
  PROVE  Depth(m.hle) = Level(m)
<1>1. Framed(m.hle, m.stack, Level(m)) /\ m.hle \in Hle /\ m.stack \in Seq(Interrupted)
  BY DEF Sound, Frames, Machine
<1>2. Level(m) \in Nat
  BY LevelType, ContextIsNat
<1>3. CASE Level(m) = 0
  <2>1. m.hle.outer = <<>> /\ m.hle.saved = None
    BY <1>1, <1>3 DEF Framed
  <2>2. Len(m.hle.outer) = 0
    BY <2>1
  <2>3. QED
    BY <1>3, <2>1, <2>2 DEF Depth
<1>4. CASE Level(m) # 0
  <2>1. m.stack[Level(m)] \in Interrupted
    BY <1>1, <1>2, <1>4 DEF Level
  <2>2. m.hle.saved # None
    BY <1>1, <1>4, <2>1, ContextIsNat DEF Framed, Interrupted
  <2>3. Len(m.hle.outer) = Level(m) - 1
    BY <1>1, <1>4 DEF Framed
  <2>4. Depth(m.hle) = Len(m.hle.outer) + 1
    BY <2>2 DEF Depth
  <2>5. QED
    BY <1>2, <2>3, <2>4
<1>5. QED
  BY <1>3, <1>4

\* A flag, the line or the work of the machine is changed.
LEMMA QueueAlike ==
  ASSUME NEW m, Sound(m), m.cpu.where # "vector", NEW cycles \in 1 .. MaxWork
  PROVE  Alike(m, QueueWork(m, cycles))
<1> DEFINE f == [left |-> cycles, owner |-> Depth(m.hle)]
           w == Append(m.work, f)
<1>1. m \in Machine /\ m.work \in Seq(WorkFrame)
  BY DEF Sound, Machine
<1>2. f \in WorkFrame
  BY DepthIsLevel, LevelType DEF WorkFrame
<1>3. QueueWork(m, cycles) = [m EXCEPT !.work = w]
  BY DEF QueueWork
<1> HIDE DEF f
<1>4. w \in Seq(WorkFrame)
  BY <1>1, <1>2, AppendFacts
<1> HIDE DEF w
<1>5. QED
  BY <1>1, <1>3, <1>4 DEF Machine, Alike

LEMMA LineAlike ==
  ASSUME NEW m \in Machine, NEW l \in BOOLEAN
  PROVE  Same(m, [m EXCEPT !.line = l])
BY DEF Machine, Same

\* CPSR.I is of no account in the main program.
LEMMA MaskedSound ==
  ASSUME NEW m, Sound(m), m.cpu.where = "code", Level(m) = 0, NEW off \in BOOLEAN
  PROVE  LET t == [m EXCEPT !.cpu.irqOff = off]
         IN Sound(t) /\ Level(t) = 0 /\ (FramesDue(m) => FramesDue(t))
<1> DEFINE c == [m.cpu EXCEPT !.irqOff = off]
           t == [m EXCEPT !.cpu.irqOff = off]
<1>1. m \in Machine /\ m.cpu \in Cpu /\ m.kept \in Seq(Keeps)
  BY DEF Sound, Machine
<1>2. c \in Cpu /\ c.where = "code"
  BY <1>1 DEF Cpu
<1>3. t = [m EXCEPT !.cpu = c, !.kept = m.kept]
  BY <1>1 DEF Machine
<1> HIDE DEF c, t
<1>4. t \in Machine /\ t.cpu = c /\ t.kept = m.kept /\ t.hle = m.hle /\ t.stack = m.stack
  BY <1>1, <1>2, <1>3 DEF Machine
<1>5. Level(t) = 0 /\ Frames(t) /\ (FramesDue(m) => FramesDue(t))
  BY <1>2, <1>4 DEF Level, Sound, Frames, FramesDue
<1>6. Nested(t)
  <2>1. Len(t.kept) = 0
    BY <1>1, <1>4, EmptyFacts DEF Sound, Nested
  <2>2. QED
    BY <1>2, <1>4, <1>5, <2>1 DEF Sound, Nested
<1>7. QED
  BY <1>4, <1>5, <1>6 DEF Sound, t

\* A handler that opens itself to interrupts keeps the mode it returns to.
LEMMA OpenedSound ==
  ASSUME NEW m, Sound(m), m.cpu.where = "code", Level(m) \in 1 .. MaxDepth - 1,
         Len(m.kept) < Level(m), NEW mode \in Modes, NEW link \in Code \cup {None, Sentinel}
  PROVE  LET e == [link |-> link, spsr |-> m.cpu.spsr]
             t == [m EXCEPT !.kept = Append(@, e), !.cpu.mode = mode, !.cpu.irqOff = FALSE]
         IN Sound(t) /\ Level(t) = Level(m) /\ (FramesDue(m) => FramesDue(t))
<1> DEFINE e == [link |-> link, spsr |-> m.cpu.spsr]
           k == Append(m.kept, e)
           c == [m.cpu EXCEPT !.mode = mode, !.irqOff = FALSE]
           t == [m EXCEPT !.kept = Append(@, e), !.cpu.mode = mode, !.cpu.irqOff = FALSE]
           n == Level(m)
<1>1. m \in Machine /\ m.cpu \in Cpu /\ m.kept \in Seq(Keeps)
  BY DEF Sound, Machine
<1>2. c \in Cpu /\ c.where = "code"
  BY <1>1 DEF Cpu
<1>3. e \in Keeps /\ e.spsr = m.cpu.spsr
  BY <1>1 DEF Keeps, Cpu
<1>4. t = [m EXCEPT !.cpu = c, !.kept = k]
  BY <1>1 DEF Machine
<1> HIDE DEF c, t, e
<1>5. /\ k \in Seq(Keeps) /\ Len(k) = Len(m.kept) + 1 /\ k[Len(m.kept) + 1] = e
      /\ \A j \in 1 .. Len(m.kept) : k[j] = m.kept[j]
  BY <1>1, <1>3, AppendFacts
<1> HIDE DEF k
<1>6. t \in Machine /\ t.cpu = c /\ t.kept = k /\ t.hle = m.hle /\ t.stack = m.stack
  BY <1>1, <1>2, <1>4, <1>5 DEF Machine
<1>7. Level(t) = n /\ Frames(t) /\ (FramesDue(m) => FramesDue(t))
  BY <1>2, <1>6 DEF Level, Sound, Frames, FramesDue
<1>8. n \in Nat \ {0} /\ n < MaxDepth /\ Len(m.kept) = n - 1 /\ Len(m.kept) \in Nat
  BY <1>1, BoundsAssumption DEF Sound, Nested
<1>9. /\ m.cpu.spsr = m.stack[n].mode
      /\ \A j \in 1 .. n - 1 : m.kept[j].spsr = m.stack[j].mode
  BY <1>8 DEF Sound, Nested
<1> HIDE DEF n
<1>10. Len(k) = n /\ k[n] = e /\ \A j \in 1 .. n - 1 : k[j] = m.kept[j]
  BY <1>5, <1>8
<1>11. \A j \in 1 .. n : k[j].spsr = m.stack[j].mode
  <2> TAKE j \in 1 .. n
  <2>1. j = n \/ j \in 1 .. n - 1
    BY <1>8
  <2>2. QED
    BY <1>3, <1>9, <1>10, <2>1
<1>12. Nested(t)
  <2>1. n # n - 1 /\ n # 0
    BY <1>8
  <2>2. QED
    BY <1>2, <1>6, <1>7, <1>8, <1>10, <1>11, <2>1 DEF Nested
<1>13. QED
  BY <1>6, <1>7, <1>12 DEF Sound, t, e, n

\* A handler that closes itself takes it back.
LEMMA ClosedSound ==
  ASSUME NEW m, Sound(m), m.cpu.where = "code", Level(m) # 0, Len(m.kept) = Level(m)
  PROVE  LET t == [m EXCEPT !.kept = Pop(@), !.cpu.mode = "irq", !.cpu.irqOff = TRUE,
                            !.cpu.link = Top(m.kept).link, !.cpu.spsr = Top(m.kept).spsr]
         IN Sound(t) /\ Level(t) = Level(m) /\ (FramesDue(m) => FramesDue(t))
<1> DEFINE e == Top(m.kept)
           k == Pop(m.kept)
           c == [m.cpu EXCEPT !.mode = "irq", !.irqOff = TRUE, !.link = e.link, !.spsr = e.spsr]
           t == [m EXCEPT !.kept = Pop(@), !.cpu.mode = "irq", !.cpu.irqOff = TRUE,
                          !.cpu.link = Top(m.kept).link, !.cpu.spsr = Top(m.kept).spsr]
           n == Level(m)
<1>1. m \in Machine /\ m.cpu \in Cpu /\ m.kept \in Seq(Keeps)
  BY DEF Sound, Machine
<1>2. /\ k \in Seq(Keeps) /\ Len(k) = n - 1 /\ e \in Keeps
      /\ \A j \in 1 .. n - 1 : k[j] = m.kept[j]
  BY <1>1, PopFacts
<1>3. t = [m EXCEPT !.cpu = c, !.kept = k]
  BY <1>1 DEF Machine
<1>4. e = m.kept[n]
  BY DEF Top
<1> HIDE DEF t, e, k
<1>5. c \in Cpu /\ c.where = "code" /\ c.mode = "irq" /\ c.irqOff /\ c.spsr = e.spsr
  BY <1>1, <1>2 DEF Cpu, Keeps, Modes
<1> HIDE DEF c
<1>6. t \in Machine /\ t.cpu = c /\ t.kept = k /\ t.hle = m.hle /\ t.stack = m.stack
  BY <1>1, <1>2, <1>3, <1>5 DEF Machine
<1>7. Level(t) = n /\ Frames(t) /\ (FramesDue(m) => FramesDue(t))
  BY <1>5, <1>6 DEF Level, Sound, Frames, FramesDue
<1>8. n \in Nat \ {0} /\ n < MaxDepth
  BY <1>1, BoundsAssumption DEF Sound, Nested
<1>9. \A j \in 1 .. n : m.kept[j].spsr = m.stack[j].mode
  BY DEF Sound, Nested
<1> HIDE DEF n
<1>10. n \in 1 .. n /\ (\A j \in 1 .. n - 1 : j \in 1 .. n) /\ n - 1 < MaxDepth /\ n - 1 # n
  BY <1>8, BoundsAssumption
<1>11. c.spsr = m.stack[n].mode /\ \A j \in 1 .. n - 1 : k[j].spsr = m.stack[j].mode
  BY <1>2, <1>4, <1>5, <1>9, <1>10
<1>12. Nested(t)
  BY <1>2, <1>5, <1>6, <1>7, <1>8, <1>10, <1>11 DEF Nested
<1>13. QED
  BY <1>6, <1>7, <1>12 DEF Sound, t, n

\* A handler that returns is not open.
LEMMA LeftSound ==
  ASSUME NEW m, Sound(m), m.cpu.where = "code", Level(m) # 0, Len(m.kept) < Level(m)
  PROVE  LET t == [m EXCEPT !.cpu.where = "sentinel"]
         IN /\ Sound(t) /\ Level(t) = Level(m) /\ t.cpu.where = "sentinel"
            /\ FramesDue(m) => FramesDue(t)
<1> DEFINE c == [m.cpu EXCEPT !.where = "sentinel"]
           t == [m EXCEPT !.cpu.where = "sentinel"]
           n == Level(m)
<1>1. m \in Machine /\ m.cpu \in Cpu /\ m.kept \in Seq(Keeps)
  BY DEF Sound, Machine
<1>2. /\ c \in Cpu /\ c.where = "sentinel" /\ c.mode = m.cpu.mode /\ c.irqOff = m.cpu.irqOff
      /\ c.spsr = m.cpu.spsr
  BY <1>1 DEF Cpu
<1>3. t = [m EXCEPT !.cpu = c, !.kept = m.kept]
  BY <1>1 DEF Machine
<1> HIDE DEF c, t
<1>4. t \in Machine /\ t.cpu = c /\ t.kept = m.kept /\ t.hle = m.hle /\ t.stack = m.stack
  BY <1>1, <1>2, <1>3 DEF Machine
<1>5. Level(t) = n /\ Frames(t) /\ (FramesDue(m) => FramesDue(t))
  BY <1>2, <1>4 DEF Level, Sound, Frames, FramesDue
<1>6. Len(m.kept) \in Nat /\ n \in Nat /\ Len(m.kept) = n - 1
  <2>1. Len(m.kept) \in Nat
    BY <1>1, EmptyFacts
  <2>2. n \in Nat
    BY LevelType, ContextIsNat
  <2>3. QED
    BY <2>1, <2>2 DEF Sound, Nested
<1>7. Nested(t)
  BY <1>2, <1>4, <1>5, <1>6 DEF Sound, Nested
<1>8. QED
  BY <1>2, <1>4, <1>5, <1>7 DEF Sound, t, n

---------------------------------------------------------------------------
(* The call of a handler and the return from it.                            *)

\* The innermost contexts of a sound machine are contexts.
LEMMA StackType ==
  ASSUME NEW m, Sound(m), NEW k \in 1 .. Level(m)
  PROVE  m.stack[k].regs \in Context /\ m.stack[k].regs # None /\ m.stack[k].pc \in Code
<1>1. m.stack \in Seq(Interrupted)
  BY DEF Sound, Machine
<1>2. m.stack[k] \in Interrupted
  BY <1>1 DEF Level
<1>3. QED
  BY <1>2, ContextIsNat DEF Interrupted

LEMMA DispatchedFramed ==
  ASSUME NEW m, Sound(m), m.cpu.where = "vector"
  PROVE  LET h == Dispatched(m.hle, m.cpu.link, m.cpu.regs)
         IN /\ h \in Hle /\ Framed(h, m.stack, Level(m))
            /\ FramesDue(m) => LinksDue(h, m.stack, Level(m))
<1> DEFINE n == Level(m)
           h == Dispatched(m.hle, m.cpu.link, m.cpu.regs)
           e == [lr |-> m.hle.lr, saved |-> m.hle.saved]
           nested == m.hle.lr # None /\ m.hle.saved # None
<1>1. /\ m.hle \in Hle /\ m.cpu.link \in Code /\ m.cpu.regs \in Context
      /\ m.cpu.regs = m.stack[n].regs /\ n # 0
  BY DEF Sound, Machine, Cpu, Frames
<1>2. /\ n = 1 => m.hle.saved = None /\ m.hle.outer = <<>>
      /\ n # 1 => Framed(m.hle, m.stack, n - 1)
  BY DEF Sound, Frames
<1>3. n \in Nat
  BY LevelType, ContextIsNat
<1>4. /\ h.lr = m.cpu.link /\ h.saved = m.cpu.regs
      /\ h.outer = IF nested THEN Append(m.hle.outer, e) ELSE m.hle.outer
      /\ h = [lr |-> h.lr, saved |-> h.saved, outer |-> h.outer]
  BY DEF Dispatched
<1>5. FramesDue(m) => m.cpu.link = m.stack[n].pc /\ LinksDue(m.hle, m.stack, n - 1)
  BY DEF FramesDue
<1>6. h.lr # None
  BY <1>1, <1>4, CodeIsNat
<1> HIDE DEF h, n
<1>7. CASE n = 1
  <2>1. h.outer = <<>>
    BY <1>2, <1>4, <1>7
  <2>2. Len(h.outer) = 0 /\ h.outer \in Seq(Frame)
    BY <2>1, EmptySeq
  <2>3. h \in Hle
    BY <1>1, <1>4, <2>2 DEF Hle
  <2>4. Framed(h, m.stack, n)
    BY <1>1, <1>4, <1>6, <1>7, <2>2 DEF Framed
  <2>5. FramesDue(m) => LinksDue(h, m.stack, n)
    BY <1>4, <1>5, <1>7 DEF LinksDue
  <2>6. QED
    BY <2>3, <2>4, <2>5 DEF h, n
<1>8. CASE n # 1
  <2>1. /\ n - 1 # 0 /\ n - 1 \in Nat /\ n - 1 \in 1 .. n
        /\ Framed(m.hle, m.stack, n - 1)
    BY <1>1, <1>2, <1>3, <1>8
  <2>2. /\ m.hle.lr # None /\ m.hle.saved = m.stack[n - 1].regs
        /\ Len(m.hle.outer) = n - 2
        /\ \A k \in 1 .. n - 2 : m.hle.outer[k].saved = m.stack[k].regs
    BY <1>3, <2>1 DEF Framed
  <2>3. m.hle.saved # None /\ m.hle.saved \in Context
    BY <2>1, <2>2, StackType DEF n
  <2>4. e \in Frame /\ m.hle.outer \in Seq(Frame) /\ e.saved = m.hle.saved /\ e.lr = m.hle.lr
    BY <1>1, <2>2, <2>3 DEF Hle, Frame
  <2>5. h.outer = Append(m.hle.outer, e)
    BY <1>4, <2>2, <2>3
  <2> HIDE DEF e
  <2>6. /\ h.outer \in Seq(Frame) /\ Len(h.outer) = Len(m.hle.outer) + 1
        /\ h.outer[Len(m.hle.outer) + 1] = e
        /\ \A k \in 1 .. Len(m.hle.outer) : h.outer[k] = m.hle.outer[k]
    BY <2>4, <2>5, AppendFacts
  <2>7. Len(h.outer) = n - 1 /\ h.outer[n - 1] = e
        /\ \A k \in 1 .. n - 2 : h.outer[k] = m.hle.outer[k]
    BY <1>3, <2>2, <2>6
  <2>8. \A k \in 1 .. n - 1 : k = n - 1 \/ k \in 1 .. n - 2
    BY <1>3
  <2>9. h \in Hle
    BY <1>1, <1>4, <2>6 DEF Hle
  <2>10. Framed(h, m.stack, n)
    <3>1. \A k \in 1 .. n - 1 : h.outer[k].saved = m.stack[k].regs
      BY <2>2, <2>4, <2>7, <2>8
    <3>2. QED
      BY <1>1, <1>4, <1>6, <2>7, <3>1 DEF Framed
  <2>11. ASSUME FramesDue(m) PROVE LinksDue(h, m.stack, n)
    <3>1. m.hle.lr = m.stack[n - 1].pc /\ \A k \in 1 .. n - 2 : m.hle.outer[k].lr = m.stack[k].pc
      <4>1. (n - 1) - 1 = n - 2
        BY <1>3
      <4>2. QED
        BY <1>5, <2>1, <2>11, <4>1 DEF LinksDue
    <3>2. \A k \in 1 .. n - 1 : h.outer[k].lr = m.stack[k].pc
      BY <2>4, <2>7, <2>8, <3>1
    <3>3. QED
      BY <1>4, <1>5, <2>11, <3>2 DEF LinksDue
  <2>12. QED
    BY <2>9, <2>10, <2>11 DEF h, n
<1>9. QED
  BY <1>7, <1>8

LEMMA VectorDispatchedSound ==
  ASSUME NEW m, Sound(m), m.cpu.where = "vector"
  PROVE  /\ Sound(VectorDispatched(m, 1))
         /\ FramesDue(m) => OnCourse(VectorDispatched(m, 1))
<1> DEFINE n == Level(m)
           h == Dispatched(m.hle, m.cpu.link, m.cpu.regs)
           entry == Address(n, 0)
           c == [m.cpu EXCEPT !.where = "code", !.pc = entry, !.link = Sentinel]
           u == [m EXCEPT !.hle = h, !.cpu.where = "code", !.cpu.pc = entry,
                          !.cpu.link = Sentinel, !.due = entry]
<1>1. VectorDispatched(m, 1) = Advanced(u, 1, Quiet)
  BY DEF VectorDispatched
<1>2. h \in Hle /\ Framed(h, m.stack, n) /\ (FramesDue(m) => LinksDue(h, m.stack, n))
  BY DispatchedFramed
<1>3. entry \in Code
  BY LevelType, AddressType
<1>4. m \in Machine /\ m.cpu \in Cpu
  BY DEF Sound, Machine
<1>5. u = [m EXCEPT !.hle = h, !.cpu = c, !.due = entry]
  BY <1>4 DEF Machine
<1> HIDE DEF u, h, entry, n
<1>6. /\ c \in Cpu /\ c.where = "code" /\ c.pc = entry /\ c.mode = m.cpu.mode
      /\ c.irqOff = m.cpu.irqOff /\ c.spsr = m.cpu.spsr
  BY <1>3, <1>4 DEF Cpu
<1> HIDE DEF c
<1>7. /\ u \in Machine /\ u.cpu = c /\ u.hle = h /\ u.due = entry /\ u.stack = m.stack
      /\ u.kept = m.kept
  BY <1>2, <1>3, <1>4, <1>5, <1>6 DEF Machine
<1>8. Level(u) = n /\ Frames(u)
  BY <1>2, <1>6, <1>7 DEF Frames, Level, n
<1>9. Nested(u)
  BY <1>6, <1>7, <1>8 DEF Sound, Nested, n
<1>10. FramesDue(m) => OnCourse(u)
  BY <1>2, <1>6, <1>7, <1>8 DEF OnCourse, FramesDue, HereDue
<1>11. Same(u, Advanced(u, 1, Quiet))
  BY <1>7, EventTypes, AdvancedSame
<1>12. QED
  BY <1>1, <1>7, <1>8, <1>9, <1>10, <1>11, SameSound, SameOnCourse DEF Sound, OnCourse

LEMMA PoppedFramed ==
  ASSUME NEW m, Sound(m), m.cpu.where = "sentinel"
  PROVE  LET h == Popped(m.hle)
             n == Level(m) - 1
         IN /\ h \in Hle /\ Framed(h, Pop(m.stack), n)
            /\ FramesDue(m) => LinksDue(h, Pop(m.stack), n)
<1> DEFINE n == Level(m)
           h == Popped(m.hle)
           k == Pop(m.stack)
           outer == m.hle.outer
<1>1. m.hle \in Hle /\ outer \in Seq(Frame) /\ m.stack \in Seq(Interrupted) /\ Len(m.stack) # 0
  BY DEF Sound, Machine, Hle, Frames, Level
<1>2. n \in Nat \ {0}
  BY <1>1, LevelType, ContextIsNat DEF Level
<1>3. /\ Len(outer) = n - 1
      /\ \A j \in 1 .. n - 1 : outer[j].saved = m.stack[j].regs
      /\ FramesDue(m) => \A j \in 1 .. n - 1 : outer[j].lr = m.stack[j].pc
  BY <1>2 DEF Sound, Frames, Framed, FramesDue, LinksDue
<1>4. \A j \in 1 .. n - 1 : k[j] = m.stack[j]
  BY <1>1, PopFacts DEF Level
<1>5. /\ outer = <<>> => h = [m.hle EXCEPT !.lr = None, !.saved = None]
      /\ outer # <<>> => h = [lr |-> Top(outer).lr, saved |-> Top(outer).saved,
                              outer |-> Pop(outer)]
  BY DEF Popped
<1> HIDE DEF h, k, n, outer
<1>6. CASE n = 1
  <2>1. outer = <<>>
    BY <1>1, <1>3, <1>6, EmptyFacts
  <2>2. h \in Hle /\ h.lr = None /\ h.saved = None /\ h.outer = <<>>
    BY <1>1, <1>5, <2>1 DEF Hle, outer
  <2>3. n - 1 = 0
    BY <1>6
  <2>4. Framed(h, k, n - 1) /\ LinksDue(h, k, n - 1)
    BY <2>2, <2>3 DEF Framed, LinksDue
  <2>5. QED
    BY <2>2, <2>4 DEF h, k, n
<1>7. CASE n # 1
  <2>1. n - 1 \in Nat \ {0} /\ Len(outer) # 0 /\ n - 1 \in 1 .. n - 1
    BY <1>2, <1>3, <1>7
  <2>2. outer # <<>>
    BY <1>1, <2>1, EmptyFacts
  <2>3. /\ Pop(outer) \in Seq(Frame) /\ Len(Pop(outer)) = Len(outer) - 1
        /\ \A j \in 1 .. Len(outer) - 1 : Pop(outer)[j] = outer[j]
        /\ Top(outer) \in Frame
    BY <1>1, <2>1, PopFacts
  <2>4. Top(outer) = outer[n - 1]
    BY <1>3 DEF Top
  <2>5. h.lr = outer[n - 1].lr /\ h.saved = outer[n - 1].saved /\ h.outer = Pop(outer) /\ h \in Hle
    BY <1>5, <2>2, <2>3, <2>4 DEF Hle, Frame
  <2>6. h.lr # None
    BY <2>3, <2>4, <2>5, CodeIsNat DEF Frame
  <2>7. (n - 1) - 1 = n - 2 /\ \A j \in 1 .. n - 2 : j \in 1 .. n - 1
    BY <1>2
  <2>8. \A j \in 1 .. n - 2 : h.outer[j] = outer[j] /\ k[j] = m.stack[j]
    BY <1>3, <1>4, <2>3, <2>5, <2>7
  <2>9. Len(h.outer) = n - 2
    BY <1>3, <2>3, <2>5, <2>7
  <2>10. k[n - 1] = m.stack[n - 1]
    BY <1>4, <2>1
  <2>11. Framed(h, k, n - 1)
    <3>1. h.saved = k[n - 1].regs
      BY <1>3, <2>1, <2>5, <2>10
    <3>2. \A j \in 1 .. n - 2 : h.outer[j].saved = k[j].regs
      BY <1>3, <2>7, <2>8
    <3>3. QED
      BY <2>1, <2>6, <2>7, <2>9, <3>1, <3>2 DEF Framed
  <2>12. ASSUME FramesDue(m) PROVE LinksDue(h, k, n - 1)
    <3>1. h.lr = k[n - 1].pc
      BY <1>3, <2>1, <2>5, <2>10, <2>12
    <3>2. \A j \in 1 .. n - 2 : h.outer[j].lr = k[j].pc
      BY <1>3, <2>7, <2>8, <2>12
    <3>3. QED
      BY <2>7, <3>1, <3>2 DEF LinksDue
  <2>13. QED
    BY <2>5, <2>11, <2>12 DEF h, k, n
<1>8. QED
  BY <1>6, <1>7

\* The return: to the mode and the registers of the context below, and to the
\* instruction that is due in it.
LEMMA ReturnedSound ==
  ASSUME NEW m, Sound(m), m.cpu.where = "sentinel"
  PROVE  /\ Sound(Returned(m))
         /\ Returned(m).cpu.regs = Top(m.stack).regs
         /\ Returned(m).cpu.mode = Top(m.stack).mode
         /\ FramesDue(m) => OnCourse(Returned(m))
<1> DEFINE n == Level(m)
           h == Popped(m.hle)
           k == Pop(m.stack)
           c == [m.cpu EXCEPT !.where = "code", !.mode = m.cpu.spsr, !.irqOff = FALSE,
                              !.pc = m.hle.lr, !.link = m.hle.lr,
                              !.regs = IF m.hle.saved # None THEN m.hle.saved ELSE m.cpu.regs]
           u == Returned(m)
           d == Top(m.stack).pc
<1>1. m \in Machine /\ m.cpu \in Cpu /\ m.hle \in Hle /\ m.stack \in Seq(Interrupted)
      /\ m.kept \in Seq(Keeps)
  BY DEF Sound, Machine
<1>2. u = [m EXCEPT !.cpu = c, !.hle = h, !.stack = k, !.due = d]
  BY <1>1 DEF Returned, Machine
<1>3. n \in Nat \ {0} /\ Len(m.stack) # 0 /\ n \in 1 .. n
  <2>1. n \in Nat
    BY LevelType, ContextIsNat
  <2>2. n # 0
    BY DEF Sound, Frames
  <2>3. QED
    BY <2>1, <2>2 DEF Level
<1>4. h \in Hle /\ Framed(h, k, n - 1) /\ (FramesDue(m) => LinksDue(h, k, n - 1))
  BY PoppedFramed
<1>5. /\ k \in Seq(Interrupted) /\ Len(k) = n - 1
      /\ \A j \in 1 .. n - 1 : k[j] = m.stack[j]
      /\ Top(m.stack) \in Interrupted
  BY <1>1, <1>3, PopFacts DEF Level
<1>6. Top(m.stack) = m.stack[n] /\ d \in Code
  BY <1>5 DEF Top, Level, Interrupted
<1>7. /\ m.hle.lr # None /\ m.hle.saved = m.stack[n].regs
      /\ FramesDue(m) => m.hle.lr = m.stack[n].pc
  BY <1>3 DEF Sound, Frames, Framed, FramesDue, LinksDue
<1>8. m.hle.lr \in Code /\ m.hle.saved # None /\ m.hle.saved \in Context
  <2>1. m.stack[n].regs \in Context /\ m.stack[n].regs # None
    BY <1>3, StackType
  <2>2. QED
    BY <1>1, <1>7, <2>1 DEF Hle
<1>9. /\ Len(m.kept) = n - 1 /\ m.cpu.spsr = m.stack[n].mode /\ Len(m.kept) < MaxDepth
      /\ \A j \in 1 .. n - 1 : m.kept[j].spsr = m.stack[j].mode
  BY DEF Sound, Nested
<1> HIDE DEF h, k, u, d, n
<1>10. /\ c \in Cpu /\ c.where = "code" /\ c.mode = m.cpu.spsr /\ c.pc = m.hle.lr
       /\ c.regs = m.hle.saved
  BY <1>1, <1>8 DEF Cpu
<1> HIDE DEF c
<1>11. /\ u \in Machine /\ u.cpu = c /\ u.hle = h /\ u.stack = k /\ u.due = d
       /\ u.kept = m.kept
  BY <1>1, <1>2, <1>4, <1>5, <1>6, <1>10 DEF Machine
<1>12. Level(u) = n - 1
  BY <1>5, <1>11 DEF Level
<1>13. Frames(u)
  BY <1>4, <1>10, <1>11, <1>12 DEF Frames
<1>14. Nested(u)
  <2>1. n - 1 # (n - 1) - 1 /\ n - 1 \in Nat
    BY <1>3
  <2>2. n - 1 = 0 => m.kept = <<>>
    BY <1>1, <1>9, EmptyFacts
  <2>3. \A j \in 1 .. n - 1 : m.kept[j].spsr = k[j].mode
    BY <1>5, <1>9
  <2>4. QED
    BY <1>9, <1>10, <1>11, <1>12, <2>1, <2>2, <2>3 DEF Nested
<1>15. FramesDue(m) => OnCourse(u)
  BY <1>4, <1>6, <1>7, <1>10, <1>11, <1>12 DEF OnCourse, FramesDue, HereDue, d
<1>16. u.cpu.regs = Top(m.stack).regs /\ u.cpu.mode = Top(m.stack).mode
  BY <1>6, <1>7, <1>9, <1>10, <1>11
<1>17. QED
  BY <1>11, <1>13, <1>14, <1>15, <1>16 DEF Sound, u

LEMMA LatencySame ==
  ASSUME NEW m \in Machine, NEW b \in BOOLEAN
  PROVE  Same(m, [m EXCEPT !.irq.returned = b])
<1> DEFINE q == [m.irq EXCEPT !.returned = b]
<1>1. q \in IrqState /\ m.line \in BOOLEAN
  BY DEF Machine, IrqState
<1>2. [m EXCEPT !.irq.returned = b] = [m EXCEPT !.line = m.line, !.irq = q]
  BY DEF Machine
<1> HIDE DEF q
<1>3. QED
  BY <1>1, <1>2, SameByParts

\* A pending interrupt is taken at once, from the context returned to.
LEMMA ReturnDispatchedSound ==
  ASSUME NEW m, Sound(m), m.cpu.where = "sentinel", NEW event \in Event
  PROVE  /\ Sound(ReturnDispatched(m, 1, event))
         /\ FramesDue(m) => OnCourse(ReturnDispatched(m, 1, event))
<1> DEFINE back == Advanced(Returned(m), 1, event)
           v == Serviced(back)
           w == [v EXCEPT !.irq.returned = FALSE]
           x == [back EXCEPT !.irq.returned = TRUE]
<1>1. ReturnDispatched(m, 1, event) = IF Active(back) THEN ResetLatency(w) ELSE x
  BY DEF ReturnDispatched
<1>2. Sound(Returned(m)) /\ (FramesDue(m) => OnCourse(Returned(m)))
  BY ReturnedSound
<1>3. Same(Returned(m), back)
  BY <1>2, AdvancedSame DEF Sound
<1> HIDE DEF back
<1>4. Sound(back) /\ back \in Machine /\ (FramesDue(m) => OnCourse(back))
  BY <1>2, <1>3, SameSound, SameOnCourse DEF OnCourse, Sound
<1>5. CASE Active(back)
  <2>1. Sound(v) /\ v \in Machine /\ (FramesDue(m) => OnCourse(v))
    BY <1>4, <1>5, ServicedSound, ServicedDue DEF Sound
  <2> HIDE DEF v
  <2>2. Same(v, w)
    BY <2>1, LatencySame
  <2> HIDE DEF w
  <2>3. Same(w, ResetLatency(w))
    BY <2>2, ResetSame DEF Same
  <2>4. Same(v, ResetLatency(w))
    BY <2>2, <2>3, SameTransitive
  <2>5. QED
    BY <1>1, <1>5, <2>1, <2>4, SameSound, SameOnCourse DEF OnCourse
<1>6. CASE ~Active(back)
  <2>1. Same(back, x)
    BY <1>4, LatencySame
  <2> HIDE DEF x
  <2>2. QED
    BY <1>1, <1>4, <1>6, <2>1, SameSound, SameOnCourse DEF OnCourse
<1>7. QED
  BY <1>5, <1>6

---------------------------------------------------------------------------
(* Queued work.                                                             *)

LEMMA WorkedOffType ==
  ASSUME NEW work \in Seq(WorkFrame), work # <<>>, NEW n \in 1 .. MaxWork,
         n <= Top(work).left
  PROVE  WorkedOff(work, n) \in Seq(WorkFrame)
<1>1. Len(work) \in Nat \ {0}
  BY EmptyFacts
<1>2. Pop(work) \in Seq(WorkFrame) /\ Top(work) \in WorkFrame
  BY <1>1, PopFacts
<1>3. CASE n = Top(work).left
  BY <1>2, <1>3 DEF WorkedOff
<1>4. CASE n # Top(work).left
  <2> DEFINE f == [Top(work) EXCEPT !.left = @ - n]
  <2>1. f \in WorkFrame
    <3>1. Top(work).left \in 1 .. MaxWork
      BY <1>2 DEF WorkFrame
    <3>2. Top(work).left - n \in 1 .. MaxWork
      BY <1>4, <3>1, BoundsAssumption
    <3>3. QED
      BY <1>2, <3>2 DEF WorkFrame
  <2>2. Len(work) \in 1 .. Len(work) /\ work \in [1 .. Len(work) -> WorkFrame]
    BY <1>1, LenProperties
  <2>3. WorkedOff(work, n) = [work EXCEPT ![Len(work)] = f]
    BY <1>4, <2>2 DEF WorkedOff, Top
  <2> HIDE DEF f
  <2>4. [work EXCEPT ![Len(work)] = f] \in Seq(WorkFrame)
    BY <2>1, <2>2, ExceptSeq
  <2>5. QED
    BY <2>3, <2>4
<1>5. QED
  BY <1>3, <1>4

LEMMA WorkAdvancedSound ==
  ASSUME NEW m, Sound(m), Working(m), NEW n \in 1 .. MaxWork, n <= Top(m.work).left,
         NEW frameEnds, NEW event \in Event
  PROVE  /\ Sound(WorkAdvanced(m, n, 1, frameEnds, event))
         /\ OnCourse(m) => OnCourse(WorkAdvanced(m, n, 1, frameEnds, event))
<1> DEFINE idle == [m EXCEPT !.dma = FALSE]
           moved == IF m.dma THEN Advanced(idle, 1, event) ELSE m
           looked == IF Active(moved) THEN Waited(moved, 0) ELSE moved
           busy == [looked EXCEPT !.work = WorkedOff(@, n)]
           e == IF m.dma THEN Quiet ELSE event
           worked == Advanced(busy, n, e)
<1>1. WorkAdvanced(m, n, 1, frameEnds, event)
        = IF m.dma /\ frameEnds THEN moved
          ELSE IF Ready(looked) THEN AutoServiced(looked) ELSE AutoServiced(worked)
  BY DEF WorkAdvanced
<1>2. /\ m \in Machine /\ m.work \in Seq(WorkFrame) /\ m.work # <<>>
      /\ n \in Nat /\ e \in Event
  BY EventTypes, BoundsAssumption DEF Sound, Machine, Working
<1>3. Alike(m, m) /\ Same(m, m)
  BY <1>2 DEF Alike, Same
<1>4. Alike(m, idle) /\ idle.cpu = m.cpu /\ idle.due = m.due /\ idle.work = m.work
  BY <1>2 DEF Machine, Alike
<1> HIDE DEF idle, e
<1>5. Same(idle, Advanced(idle, 1, event))
  BY <1>4, AdvancedSame DEF Alike
<1>6. WentOn(m, moved) /\ moved.work = m.work
  <2>1. CASE ~m.dma
    BY <1>3, <2>1 DEF WentOn
  <2>2. CASE m.dma
    <3> DEFINE a == Advanced(idle, 1, event)
    <3>1. Alike(idle, a) /\ a.cpu.pc = idle.cpu.pc /\ a.due = idle.due /\ a.work = idle.work
      BY <1>5, SameAlike DEF Same
    <3> HIDE DEF a
    <3>2. Alike(m, a)
      BY <1>4, <3>1, AlikeTransitive
    <3>3. moved = a
      BY <2>2 DEF a
    <3> HIDE DEF moved
    <3>4. QED
      BY <1>4, <3>1, <3>2, <3>3 DEF WentOn
  <2>3. QED
    BY <2>1, <2>2
<1> HIDE DEF moved
<1>7. moved \in Machine
  BY <1>6 DEF WentOn, Alike
<1>8. Same(moved, moved) /\ Same(moved, Waited(moved, 0))
  BY <1>7, WaitedSame DEF Same
<1>9. Same(moved, looked)
  BY <1>8
<1> HIDE DEF looked
<1>10. Alike(moved, looked) /\ looked.cpu.pc = moved.cpu.pc /\ looked.due = moved.due
       /\ looked.work = moved.work /\ looked \in Machine
  BY <1>9, SameAlike DEF Same
<1>11. WentOn(m, looked) /\ looked.work = m.work
  BY <1>6, <1>10, AlikeTransitive DEF WentOn
<1>12. Alike(looked, busy) /\ busy.cpu = looked.cpu /\ busy.due = looked.due
  <2> DEFINE w == WorkedOff(m.work, n)
  <2>1. w \in Seq(WorkFrame)
    BY <1>2, WorkedOffType
  <2>2. busy = [looked EXCEPT !.work = w]
    BY <1>11
  <2> HIDE DEF w, busy
  <2>3. QED
    BY <1>10, <2>1, <2>2 DEF Machine, Alike
<1> HIDE DEF busy
<1>13. Same(busy, worked)
  BY <1>2, <1>12, AdvancedSame DEF Alike
<1> HIDE DEF worked
<1>14. WentOn(m, worked)
  <2>1. Alike(busy, worked) /\ worked.cpu.pc = busy.cpu.pc /\ worked.due = busy.due
    BY <1>13, SameAlike
  <2>2. Alike(m, worked)
    BY <1>11, <1>12, <2>1, AlikeTransitive DEF WentOn
  <2>3. QED
    BY <1>11, <1>12, <2>1, <2>2 DEF WentOn
<1>15. ASSUME NEW t, WentOn(m, t)
       PROVE  /\ Sound(t) /\ (OnCourse(m) => OnCourse(t))
              /\ Sound(AutoServiced(t)) /\ (OnCourse(m) => OnCourse(AutoServiced(t)))
  <2>1. Sound(t) /\ (FramesDue(m) => FramesDue(t))
    BY <1>15, AlikeSound DEF WentOn
  <2>2. OnCourse(m) => OnCourse(t)
    BY <1>15, <2>1 DEF OnCourse, HereDue, WentOn, Alike
  <2>3. QED
    BY <2>1, <2>2, AutoServicedSound, AutoServicedDue
<1>16. QED
  BY <1>1, <1>6, <1>11, <1>14, <1>15

---------------------------------------------------------------------------
(* The actions.                                                             *)

\* No instruction goes to itself.
NoSelfTarget == SelfTarget = FALSE

\* What an action has to do.
Kept == Sound(s') /\ (NoSelfTarget /\ OnCourse(s) => OnCourse(s'))

\* A step whose instruction leaves its own context in place.
LEMMA SteppedKept ==
  ASSUME Sound(s), Runs, NEW i \in Instruction, NEW executed, Sound(executed),
         Level(executed) = Level(s), FramesDue(s) => FramesDue(executed),
         NEW wait \in Nat, NEW timer, NEW events \in Timetable,
         NoSelfTarget => \/ i.goes = "next" \/ executed.cpu.where # "code"
                         \/ Address(Level(s), i.to) # s.cpu.pc,
         s' = Stepped(i, executed, wait, timer, events)
  PROVE  Kept
<1> DEFINE t == Stepped(i, executed, wait, timer, events)
<1>1. /\ Sound(t)
      /\ /\ OnCourse(s) /\ FramesDue(executed)
         /\ \/ i.goes = "next" \/ executed.cpu.where # "code"
            \/ Address(Level(s), i.to) # s.cpu.pc
         => OnCourse(t)
  BY SteppedSound
<1> HIDE DEF t
<1>2. s' = t
  BY DEF t
<1>3. Sound(s') /\ (OnCourse(t) => OnCourse(s'))
  BY <1>1, <1>2
<1>4. QED
  BY <1>1, <1>3 DEF Kept, OnCourse

LEMMA ExecuteKept ==
  ASSUME Sound(s), NEW i \in Instruction, NEW wait \in Nat, NEW timer, NEW starts \in BOOLEAN,
         NEW events \in Timetable,
         NoSelfTarget => i.goes = "next" \/ Address(Level(s), i.to) # s.cpu.pc,
         Execute(i, wait, timer, starts, events)
  PROVE  Kept
<1> DEFINE m == Reached(i, wait, events)
           executed == [m EXCEPT !.dma = @ \/ starts]
<1>1. Runs /\ s' = Stepped(i, executed, wait, timer, events)
  BY DEF Execute
<1>2. Sound(m) /\ Level(m) = Level(s) /\ (FramesDue(s) => FramesDue(m))
  BY <1>1, ReachedAlike
<1> HIDE DEF m
<1>3. Alike(m, executed)
  <2>1. m \in Machine /\ (m.dma \/ starts) \in BOOLEAN
    BY <1>2 DEF Sound
  <2>2. executed = [m EXCEPT !.dma = m.dma \/ starts]
    OBVIOUS
  <2> HIDE DEF executed
  <2>3. QED
    BY <2>1, <2>2 DEF Machine, Alike
<1> HIDE DEF executed
<1>4. Sound(executed) /\ Level(executed) = Level(s) /\ (FramesDue(s) => FramesDue(executed))
  BY <1>2, <1>3, AlikeSound
<1>5. QED
  BY <1>1, <1>4, SteppedKept

LEMMA PhasesType ==
  ASSUME NEW i, NEW wait, NEW starts
  PROVE  Events(Phases(i, wait, starts)) \subseteq Timetable
<1>1. Phases(i, wait, starts) \subseteq {"fetch", "pre", "rest", "dma", "refill"}
  BY DEF Phases
<1>2. QED
  BY <1>1, EventTypes

LEMMA ExecuteNextKept ==
  ASSUME Sound(s), NEW i \in Instructions, ExecuteNext(i)
  PROVE  Kept
<1>1. PICK wait \in 0 .. 1, timer \in {"fast", "slow", "deferred"}, starts \in BOOLEAN :
        \E events \in Events(Phases(i, wait, starts)) : Execute(i, wait, timer, starts, events)
  BY DEF ExecuteNext
<1>2. PICK events \in Events(Phases(i, wait, starts)) : Execute(i, wait, timer, starts, events)
  BY <1>1
<1>3. events \in Timetable /\ i \in Instruction /\ i.goes = "next" /\ wait \in Nat
  BY PhasesType, InstructionTypes
<1>4. QED
  BY <1>2, <1>3, ExecuteKept

LEMMA ExecuteGotoKept ==
  ASSUME Sound(s), ExecuteGoto
  PROVE  Kept
<1>1. PICK kind \in {"branch", "jump"}, p \in Targets :
        \E events \in Events(Phases(Goto(kind, p), 0, FALSE)) :
          Execute(Goto(kind, p), 0, "fast", FALSE, events)
  BY DEF ExecuteGoto
<1> DEFINE i == Goto(kind, p)
<1>2. PICK events \in Events(Phases(i, 0, FALSE)) : Execute(i, 0, "fast", FALSE, events)
  BY <1>1
<1>3. p \in Nat /\ (NoSelfTarget => Address(Level(s), p) # s.cpu.pc)
  BY BoundsAssumption DEF Targets, Own, NoSelfTarget
<1>4. i \in Instruction /\ i.to = p
  BY <1>3, InstructionTypes
<1> HIDE DEF i
<1>5. events \in Timetable
  BY PhasesType
<1>6. QED
  BY <1>2, <1>3, <1>4, <1>5, ExecuteKept

LEMMA SkipKept ==
  ASSUME Sound(s), NEW event \in Event, Skip(event)
  PROVE  Kept
<1> DEFINE a == Advanced(s, 1, event)
           next == Address(Level(s), s.cpu.pc + 1)
           t == [a EXCEPT !.cpu.pc = next, !.due = next]
<1>1. s \in Machine /\ s.cpu.pc \in Code /\ s.cpu.where = "code"
  BY DEF Sound, Machine, Cpu, Skip, Runs
<1>2. Same(s, a) /\ a \in Machine
  BY <1>1, AdvancedSame DEF Same
<1>3. s' = [a EXCEPT !.cpu.pc = Address(Own, @ + 1), !.due = Address(Own, s.cpu.pc + 1)]
  BY DEF Skip
<1> HIDE DEF a
<1>4. s' = t
  BY <1>2, <1>3 DEF Same, Own
<1>5. next \in Code
  <2> DEFINE p == s.cpu.pc
  <2>1. p \in Nat
    BY <1>1, CodeIsNat
  <2> HIDE DEF p
  <2>2. p + 1 \in Nat
    BY <2>1
  <2>3. Address(Level(s), p + 1) \in Code
    BY <2>2, LevelType, AddressType
  <2>4. QED
    BY <2>3 DEF p
<1> HIDE DEF next
<1>6. t = Moved(a, next, next)
  BY DEF Moved
<1> HIDE DEF t
<1>7. Alike(a, t) /\ t.cpu.pc = next /\ t.due = next
  BY <1>2, <1>5, <1>6, MovedAlike
<1>8. Alike(s, t)
  BY <1>2, <1>7, SameAlike, AlikeTransitive
<1>9. Sound(t) /\ (FramesDue(s) => FramesDue(t)) /\ HereDue(t)
  BY <1>7, <1>8, AlikeSound DEF HereDue
<1>10. Sound(s') /\ (FramesDue(s) => OnCourse(s'))
  BY <1>4, <1>9 DEF OnCourse
<1>11. QED
  BY <1>10 DEF Kept, OnCourse

LEMMA InstructKept ==
  ASSUME Sound(s), Instruct
  PROVE  Kept
<1>1. ASSUME NEW i \in Instructions, ExecuteNext(i) PROVE Kept
  BY <1>1, ExecuteNextKept
<1>2. ASSUME ExecuteGoto PROVE Kept
  BY <1>2, ExecuteGotoKept
<1>3. ASSUME NEW event \in AnyEvent, Skip(event) PROVE Kept
  BY <1>3, SkipKept, EventTypes
<1>4. ASSUME NEW irqOff \in BOOLEAN, Mask(irqOff) PROVE Kept
  <2> DEFINE m == Plain
             t == [m EXCEPT !.cpu.irqOff = irqOff]
  <2>1. Runs /\ Level(s) = 0 /\ s' = Stepped(Alu, t, 0, "fast", NoEvents)
    BY <1>4 DEF Mask, Own
  <2>2. Sound(m) /\ Level(m) = 0 /\ m.cpu.where = "code" /\ (FramesDue(s) => FramesDue(m))
    BY <2>1, PlainAlike
  <2> HIDE DEF m
  <2>3. Sound(t) /\ Level(t) = 0 /\ (FramesDue(m) => FramesDue(t))
    BY <2>2, MaskedSound
  <2> HIDE DEF t
  <2>4. QED
    BY <2>1, <2>2, <2>3, InstructionTypes, EventTypes, SteppedKept
<1>5. ASSUME NEW mode \in Modes, Open(mode) PROVE Kept
  <2> DEFINE m == Plain
             t == [m EXCEPT !.kept = Append(@, [link |-> s.cpu.link, spsr |-> s.cpu.spsr]),
                            !.cpu.mode = mode, !.cpu.irqOff = FALSE]
  <2>1. /\ Runs /\ Level(s) \in 1 .. MaxDepth - 1 /\ Len(s.kept) < Level(s)
        /\ s' = Stepped(Alu, t, 0, "fast", NoEvents)
    BY <1>5 DEF Open, Own
  <2>2. /\ Sound(m) /\ Level(m) = Level(s) /\ m.cpu.where = "code"
        /\ (FramesDue(s) => FramesDue(m)) /\ Alike(s, m)
    BY <2>1, PlainAlike
  <2>3. m.kept = s.kept /\ m.cpu.spsr = s.cpu.spsr /\ s.cpu.link \in Code \cup {None, Sentinel}
    BY <2>2 DEF Alike, Sound, Machine, Cpu
  <2> HIDE DEF m
  <2>4. t = [m EXCEPT !.kept = Append(@, [link |-> s.cpu.link, spsr |-> m.cpu.spsr]),
                      !.cpu.mode = mode, !.cpu.irqOff = FALSE]
    BY <2>3
  <2>5. Sound(t) /\ Level(t) = Level(m) /\ (FramesDue(m) => FramesDue(t))
    BY <2>1, <2>2, <2>3, <2>4, OpenedSound, ZenonT(60)
  <2> HIDE DEF t
  <2>6. QED
    BY <2>1, <2>2, <2>5, InstructionTypes, EventTypes, SteppedKept
<1>6. ASSUME NEW cycles \in 1 .. MaxWork, Swi(cycles) PROVE Kept
  <2> DEFINE m == Plain
             t == QueueWork(m, cycles)
  <2>1. Runs /\ s' = Stepped(Alu, t, 0, "fast", NoEvents)
    BY <1>6 DEF Swi
  <2>2. Sound(m) /\ Level(m) = Level(s) /\ m.cpu.where = "code" /\ (FramesDue(s) => FramesDue(m))
    BY <2>1, PlainAlike
  <2> HIDE DEF m
  <2>3. Alike(m, t)
    BY <2>2, QueueAlike
  <2> HIDE DEF t
  <2>4. Sound(t) /\ Level(t) = Level(m) /\ (FramesDue(m) => FramesDue(t))
    BY <2>2, <2>3, AlikeSound
  <2>5. QED
    BY <2>1, <2>2, <2>4, InstructionTypes, EventTypes, SteppedKept
<1>7. ASSUME Acknowledge PROVE Kept
  <2> DEFINE m == Reached(Store, 0, NoEvents)
             t == [m EXCEPT !.line = FALSE]
  <2>1. Runs /\ s' = Stepped(Store, t, 0, "fast", NoEvents)
    BY <1>7 DEF Acknowledge
  <2>2. Sound(m) /\ Level(m) = Level(s) /\ (FramesDue(s) => FramesDue(m))
    BY <2>1, InstructionTypes, EventTypes, ReachedAlike
  <2> HIDE DEF m
  <2>3. Same(m, t)
    BY <2>2, LineAlike DEF Sound
  <2> HIDE DEF t
  <2>4. Sound(t) /\ Level(t) = Level(m) /\ (FramesDue(m) => FramesDue(t))
    BY <2>2, <2>3, SameAlike, AlikeSound
  <2>5. QED
    BY <2>1, <2>2, <2>4, InstructionTypes, EventTypes, SteppedKept
<1>8. ASSUME Close PROVE Kept
  <2> DEFINE m == Plain
             t == [m EXCEPT !.kept = Pop(@), !.cpu.mode = "irq", !.cpu.irqOff = TRUE,
                            !.cpu.link = Top(s.kept).link, !.cpu.spsr = Top(s.kept).spsr]
  <2>1. /\ Runs /\ Level(s) # 0 /\ Len(s.kept) = Level(s)
        /\ s' = Stepped(Alu, t, 0, "fast", NoEvents)
    BY <1>8 DEF Close, Own
  <2>2. /\ Sound(m) /\ Level(m) = Level(s) /\ m.cpu.where = "code"
        /\ (FramesDue(s) => FramesDue(m)) /\ Alike(s, m)
    BY <2>1, PlainAlike
  <2>3. m.kept = s.kept
    BY <2>2 DEF Alike
  <2> HIDE DEF m
  <2>4. t = [m EXCEPT !.kept = Pop(@), !.cpu.mode = "irq", !.cpu.irqOff = TRUE,
                      !.cpu.link = Top(m.kept).link, !.cpu.spsr = Top(m.kept).spsr]
    BY <2>3
  <2>5. Sound(t) /\ Level(t) = Level(m) /\ (FramesDue(m) => FramesDue(t))
    BY <2>1, <2>2, <2>3, <2>4, ClosedSound
  <2> HIDE DEF t
  <2>6. QED
    BY <2>1, <2>2, <2>5, InstructionTypes, EventTypes, SteppedKept
<1>9. ASSUME Leave PROVE Kept
  <2> DEFINE m == Plain
             t == [m EXCEPT !.cpu.where = "sentinel"]
             i == Goto("branch", 0)
  <2>1. /\ Runs /\ Level(s) # 0 /\ Len(s.kept) < Level(s)
        /\ s' = Stepped(i, t, 0, "fast", NoEvents)
    BY <1>9 DEF Leave, Own
  <2>2. /\ Sound(m) /\ Level(m) = Level(s) /\ m.cpu.where = "code"
        /\ (FramesDue(s) => FramesDue(m)) /\ Alike(s, m)
    BY <2>1, PlainAlike
  <2>3. m.kept = s.kept
    BY <2>2 DEF Alike
  <2> HIDE DEF m
  <2>4. /\ Sound(t) /\ Level(t) = Level(m) /\ t.cpu.where = "sentinel"
        /\ FramesDue(m) => FramesDue(t)
    BY <2>1, <2>2, <2>3, LeftSound
  <2>5. i \in Instruction
    BY InstructionTypes
  <2> HIDE DEF t, i
  <2>6. QED
    BY <2>1, <2>2, <2>4, <2>5, EventTypes, SteppedKept
<1>10. QED
  BY <1>1, <1>2, <1>3, <1>4, <1>5, <1>6, <1>7, <1>8, <1>9 DEF Instruct

LEMMA ScheduleKept ==
  ASSUME Sound(s), Schedule
  PROVE  Kept
<1>1. ASSUME NEW n \in 1 .. MaxWork, NEW frameEnds \in BOOLEAN, NEW event \in AnyEvent,
             Work(n, frameEnds, event)
      PROVE  Kept
  <2> DEFINE t == WorkAdvanced(s, n, 1, frameEnds, event)
  <2>1. Working(s) /\ n <= Top(s.work).left /\ s' = t /\ event \in Event
    BY <1>1, EventTypes DEF Work
  <2>2. Sound(t) /\ (OnCourse(s) => OnCourse(t))
    BY <2>1, WorkAdvancedSound
  <2> HIDE DEF t
  <2>3. QED
    BY <2>1, <2>2 DEF Kept
<1>2. ASSUME DispatchVector PROVE Kept
  <2> DEFINE t == VectorDispatched(s, 1)
  <2>1. s.cpu.where = "vector" /\ s' = t
    BY <1>2 DEF DispatchVector
  <2>2. Sound(t) /\ (FramesDue(s) => OnCourse(t))
    BY <2>1, VectorDispatchedSound
  <2> HIDE DEF t
  <2>3. Sound(s') /\ (FramesDue(s) => OnCourse(s'))
    BY <2>1, <2>2
  <2>4. QED
    BY <2>3 DEF Kept, OnCourse
<1>3. ASSUME NEW event \in AnyEvent, DispatchReturn(event) PROVE Kept
  <2> DEFINE t == ReturnDispatched(s, 1, event)
  <2>1. s.cpu.where = "sentinel" /\ s' = t /\ event \in Event
    BY <1>3, EventTypes DEF DispatchReturn
  <2>2. Sound(t) /\ (FramesDue(s) => OnCourse(t))
    BY <2>1, ReturnDispatchedSound
  <2> HIDE DEF t
  <2>3. Sound(s') /\ (FramesDue(s) => OnCourse(s'))
    BY <2>1, <2>2
  <2>4. QED
    BY <2>3 DEF Kept, OnCourse
<1>4. QED
  BY <1>1, <1>2, <1>3 DEF Schedule

LEMMA InitSound == Init => IInv /\ DueInv
<1> SUFFICES ASSUME Init PROVE Sound(s) /\ OnCourse(s)
  BY DEF IInv, DueInv
<1>1. 0 \in Code /\ 0 \in Context
  <2>1. 0 \in Context
    BY BoundsAssumption DEF Context
  <2>2. Address(0, 0) \in Code
    BY <2>1, AddressType
  <2>3. Address(0, 0) = 0
    BY BoundsAssumption DEF Address
  <2>4. QED
    BY <2>1, <2>2, <2>3
<1>2. /\ s.cpu = [mode |-> "system", where |-> "code", pc |-> 0, regs |-> 0, link |-> None,
                  spsr |-> "system", irqOff |-> FALSE]
      /\ s.hle = [lr |-> None, saved |-> None, outer |-> <<>>]
      /\ s.irq = [high |-> FALSE, left |-> 0, returned |-> FALSE, armed |-> FALSE,
                  chain |-> FALSE]
      /\ s.work = <<>> /\ s.stack = <<>> /\ s.kept = <<>> /\ s.due = 0
      /\ s.line = FALSE /\ s.dma = FALSE
      /\ s = [cpu |-> s.cpu, hle |-> s.hle, work |-> s.work, line |-> s.line, irq |-> s.irq,
              dma |-> s.dma, stack |-> s.stack, kept |-> s.kept, due |-> s.due]
  BY DEF Init, NewMachine
<1>3. s.cpu \in Cpu /\ s.hle \in Hle /\ s.irq \in IrqState
  BY <1>1, <1>2, EmptySeq DEF Cpu, Hle, IrqState, Modes
<1>4. s.work \in Seq(WorkFrame) /\ s.stack \in Seq(Interrupted) /\ s.kept \in Seq(Keeps)
  BY <1>2, EmptySeq
<1>5. s \in Machine
  BY <1>1, <1>2, <1>3, <1>4 DEF Machine
<1>6. Level(s) = 0 /\ Len(s.kept) = 0
  BY <1>2 DEF Level
<1>7. Frames(s)
  BY <1>2, <1>6 DEF Frames, Framed
<1>8. Nested(s)
  BY <1>2, <1>6, BoundsAssumption DEF Nested
<1>9. OnCourse(s)
  BY <1>2, <1>6 DEF OnCourse, FramesDue, HereDue, LinksDue
<1>10. QED
  BY <1>5, <1>7, <1>8, <1>9 DEF Sound

LEMMA NextKept ==
  ASSUME Sound(s), [Next]_s
  PROVE  Kept
<1>1. ASSUME Instruct PROVE Kept
  BY <1>1, InstructKept
<1>2. ASSUME Schedule PROVE Kept
  BY <1>2, ScheduleKept
<1>3. ASSUME KeypadRequest PROVE Kept
  <2> DEFINE t == [s EXCEPT !.line = TRUE]
  <2>1. s' = t
    BY <1>3 DEF KeypadRequest
  <2>2. Same(s, t)
    BY LineAlike DEF Sound
  <2> HIDE DEF t
  <2>3. Sound(t) /\ (OnCourse(s) => OnCourse(t))
    BY <2>2, SameSound, SameOnCourse DEF OnCourse
  <2>4. QED
    BY <2>1, <2>3 DEF Kept
<1>4. ASSUME UNCHANGED s PROVE Kept
  BY <1>4 DEF Kept
<1>5. QED
  BY <1>1, <1>2, <1>3, <1>4 DEF Next

LEMMA SoundHolds == Spec => []IInv
<1>1. Init => IInv
  BY InitSound
<1>2. IInv /\ [Next]_s => IInv'
  BY NextKept DEF IInv, Kept
<1>3. QED
  BY <1>1, <1>2, PTL DEF Spec

---------------------------------------------------------------------------
(* The theorems.                                                            *)

\* The machine keeps its shape: modes, places, frames and work are what
\* step_from_pc, dispatch_hle_irq_vector and dispatch_hle_irq_return expect,
\* and interrupts nest no deeper than the handlers open themselves to.
THEOREM TypeCorrect == Spec => []TypeOK
<1>1. IInv => TypeOK
  <2> SUFFICES ASSUME Sound(s) PROVE TypeOK
    BY DEF IInv
  <2>1. s \in Machine
    BY DEF Sound
  <2>2. Level(s) \in Nat /\ Level(s) <= MaxDepth
    BY LevelType, BoundsAssumption DEF Context
  <2>3. Len(s.hle.outer) < MaxDepth
    <3>1. CASE s.cpu.where # "vector"
      <4>1. Framed(s.hle, s.stack, Level(s))
        BY <3>1 DEF Sound, Frames
      <4>2. CASE Level(s) = 0
        <5>1. Len(s.hle.outer) = 0
          BY <4>1, <4>2 DEF Framed
        <5>2. QED
          BY <5>1, BoundsAssumption
      <4>3. CASE Level(s) # 0
        BY <2>2, <4>1, <4>3, BoundsAssumption DEF Framed
      <4>4. QED
        BY <4>2, <4>3
    <3>2. CASE s.cpu.where = "vector"
      <4>1. /\ Level(s) # 0
            /\ Level(s) = 1 => s.hle.outer = <<>>
            /\ Level(s) # 1 => Framed(s.hle, s.stack, Level(s) - 1)
        BY <3>2 DEF Sound, Frames
      <4>2. CASE Level(s) = 1
        <5>1. Len(s.hle.outer) = 0
          BY <4>1, <4>2
        <5>2. QED
          BY <5>1, BoundsAssumption
      <4>3. CASE Level(s) # 1
        <5>1. Len(s.hle.outer) = (Level(s) - 1) - 1
          BY <2>2, <4>1, <4>3 DEF Framed
        <5>2. QED
          BY <2>2, <5>1, BoundsAssumption
      <4>4. QED
        BY <4>2, <4>3
    <3>3. QED
      BY <3>1, <3>2
  <2>4. QED
    BY <2>1, <2>3 DEF TypeOK, Machine, Cpu, Hle, WorkFrame, IrqState
<1>2. QED
  BY <1>1, SoundHolds, PTL

\* A handler that is done can be returned from, and the return restores the
\* registers and the mode of the context below it, at any depth of nesting:
\* the frame that dispatch_hle_irq_return pops is always that context's.
THEOREM ReturnsAreToTheInterrupted == Spec => []ReturnsToInterrupted
<1>1. IInv => ReturnsToInterrupted
  <2> SUFFICES ASSUME Sound(s), s.cpu.where = "sentinel"
               PROVE  /\ s.cpu.mode = "irq" /\ s.hle.lr # None
                      /\ Returned(s).cpu.regs = Top(s.stack).regs
                      /\ Returned(s).cpu.mode = Top(s.stack).mode
    BY DEF IInv, ReturnsToInterrupted
  <2>1. s.cpu.mode = "irq" /\ s.hle.lr # None
    BY DEF Sound, Nested, Frames, Framed
  <2>2. QED
    BY <2>1, ReturnedSound
<1>2. QED
  BY <1>1, SoundHolds, PTL

\* hle_irq_depth, by which advance_hle_work finds the work to charge, is the
\* nesting of the running context: a handler is never charged for the BIOS
\* call that it interrupts.
THEOREM WorkIsChargedToItsOwn == Spec => []WorkIsOwn
<1>1. IInv => WorkIsOwn
  <2> SUFFICES ASSUME Sound(s), Working(s) PROVE Top(s.work).owner = Level(s)
    BY DEF IInv, WorkIsOwn
  <2>1. s.cpu.where = "code"
    BY DEF Working, Sound, Nested
  <2>2. Depth(s.hle) = Level(s)
    BY <2>1, DepthIsLevel
  <2>3. QED
    BY <2>2 DEF Working
<1>2. QED
  BY <1>1, SoundHolds, PTL

\* If no instruction goes to itself, every context goes on with the instruction
\* that is due in it: wherever step_from_pc lets an interrupt in, the link it
\* takes is the place the interrupted context has to go on from.
THEOREM InterruptsAreInvisible == NoSelfTarget => (Spec => []ResumesWhereDue)
<1>1. Init => IInv /\ DueInv
  BY InitSound
<1>2. ASSUME NoSelfTarget PROVE IInv /\ DueInv /\ [Next]_s => IInv' /\ DueInv'
  BY <1>2, NextKept DEF IInv, DueInv, Kept
<1>3. DueInv => ResumesWhereDue
  BY DEF DueInv, OnCourse, HereDue, ResumesWhereDue
<1>4. ASSUME NoSelfTarget PROVE Spec => []ResumesWhereDue
  <2>1. IInv /\ DueInv /\ [Next]_s => IInv' /\ DueInv'
    BY <1>2, <1>4
  <2>2. QED
    BY <1>1, <2>1, <1>3, PTL DEF Spec
<1>5. QED
  BY <1>4
=============================================================================
