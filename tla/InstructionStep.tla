-------------------------- MODULE InstructionStep --------------------------
(***************************************************************************)
(* CoreScheduler::step_from_pc: the CPU, the devices, immediate DMA and    *)
(* interrupts within one step. The program is free: at every step it       *)
(* executes any instruction, and its handlers may let themselves be        *)
(* interrupted. A branch or jump to itself is left out: see SelfTarget.    *)
(***************************************************************************)
EXTENDS HleIrq

CONSTANT SelfTarget   \* TRUE: instructions may also branch to themselves

VARIABLE s   \* the machine

TypeOK ==
  /\ s.cpu \in [mode : Modes, where : {"code", "vector", "sentinel"}, pc : Code,
                regs : Context, link : Code \cup {None, Sentinel}, spsr : Modes,
                irqOff : BOOLEAN]
  /\ s.hle.lr \in Code \cup {None} /\ s.hle.saved \in Context \cup {None}
  /\ s.hle.outer \in Seq(Frame) /\ Len(s.hle.outer) < MaxDepth
  /\ s.work \in Seq([left : 1 .. MaxWork, owner : Context])
  /\ s.irq.left \in Nat /\ s.due \in Code

Init == s = NewMachine

---------------------------------------------------------------------------
(* Instructions: pre, cycles before the data access; cycles in all; a load  *)
(* of a timer register; where it goes ("next", "branch", which refills the  *)
(* pipeline, "jump", which does not), and the place it goes to.             *)

Alu == [pre |-> 0, cycles |-> 1, data |-> FALSE, timerLoad |-> FALSE, timerStore |-> FALSE,
        goes |-> "next", to |-> 0]
Load == [Alu EXCEPT !.cycles = 3, !.data = TRUE]
Store == [Load EXCEPT !.pre = 2, !.cycles = 2]
TimerLoad == [Load EXCEPT !.pre = 2, !.timerLoad = TRUE]
TimerStore == [Store EXCEPT !.pre = 1, !.timerStore = TRUE]
Goto(kind, place) == [Alu EXCEPT !.goes = kind, !.to = place]

\* defer_chained_post_return_irq
Deferred(i, readyBefore, t) ==
  ~readyBefore /\ ~i.data /\ i.cycles = 1 /\ t.irq.armed /\ t.irq.chain /\ Ready(t)

\* BUG: the pc is not moved past the instruction that has been executed.
LinkedHere(t, next) == AutoServiced(t)

\* The pc is moved on for the interrupt to link to, and back if none is taken.
Linked(t, next) ==
  LET taken == AutoServiced([t EXCEPT !.cpu.pc = next])
  IN IF taken.cpu.where = "vector" THEN taken ELSE t

\* A load of a timer register lets an interrupt in before its access, if it
\* follows a chained return, or a return and the timer is slow; it is executed
\* again after the return. The fitted rules put some off until the access.
TakenBeforeAccess(i, t, returned, timer) ==
  /\ i.timerLoad /\ Ready(t) /\ timer # "deferred"
  /\ (t.irq.armed /\ t.irq.chain) \/ (timer = "slow" /\ (t.irq.armed \/ returned))

\* step_arm and step_thumb after the access: the rest of the cycles, immediate
\* DMA, and the interrupt of an instruction that did not change the pc.
Completed(i, t, fetch, bus, events) ==
  LET stored == IF i.timerStore
                THEN [t EXCEPT !.irq.returned = FALSE, !.irq.armed = FALSE, !.irq.chain = FALSE]
                ELSE t
      rest == Advanced(stored, IF i.cycles > i.pre THEN i.cycles - i.pre ELSE 0, events.rest)
      moved == IF rest.dma THEN Advanced([rest EXCEPT !.dma = FALSE], bus, events.dma) ELSE rest
  IN IF moved.cpu.pc = fetch /\ moved.cpu.where = "code" /\ ~Deferred(i, Ready(stored), moved)
     THEN Linked(moved, Address(Level(t), fetch + 1)) ELSE moved

\* step_from_pc: what changed the pc with a refill is charged for it and may be
\* interrupted at its target; what did not change it is left for the next.
Finished(i, t, fetch, refill, event) ==
  IF t.cpu.where = "code" /\ t.cpu.pc = fetch /\ i.goes # "branch"
  THEN [t EXCEPT !.cpu.pc = Address(Level(t), fetch + 1)]
  ELSE IF i.goes = "branch" THEN AutoServiced(Advanced(t, refill, event)) ELSE t

\* The machine when instruction i makes its access: the fetch has waited for
\* the bus, and the cycles before the access have passed.
Reached(i, wait, events) ==
  [Advanced(Advanced(s, wait, events.fetch), i.pre, events.pre) EXCEPT !.cpu.regs = Level(s)]

\* A whole step of instruction i; executed is what it makes of Reached besides
\* going on.
Stepped(i, executed, wait, timer, events) ==
  LET fetch == s.cpu.pc
      fetched == Advanced(s, wait, events.fetch)
      before == Advanced(fetched, i.pre, events.pre)
      next == Address(Level(s), IF i.goes = "next" THEN fetch + 1 ELSE i.to)
      gone == [executed EXCEPT !.cpu.pc = IF i.goes = "next" THEN fetch ELSE next, !.due = next]
  IN IF i.pre > 0 /\ TakenBeforeAccess(i, before, fetched.irq.returned, timer)
     THEN [AutoServiced(before) EXCEPT !.irq.returned = FALSE]
     ELSE Finished(i, Completed(i, gone, fetch, 1, events), fetch, 1, events.refill)

NoEvents == [fetch |-> Quiet, pre |-> Quiet, rest |-> Quiet, dma |-> Quiet, refill |-> Quiet]

\* Where an instruction without a data access takes effect.
Plain == Reached(Alu, 0, NoEvents)

---------------------------------------------------------------------------
(* Steps.                                                                   *)

Runs == s.cpu.where = "code" /\ ~Working(s)
Own == Level(s)

AnyEvent == {Quiet, Device} \cup {TimerEvent(slow, 0) : slow \in BOOLEAN}

\* At most one event, in a phase that takes time.
Events(phases) ==
  {[NoEvents EXCEPT ![phase] = event] : phase \in phases, event \in AnyEvent}
Phases(i, wait, starts) ==
  {"rest"} \cup (IF wait > 0 THEN {"fetch"} ELSE {}) \cup (IF i.pre > 0 THEN {"pre"} ELSE {})
           \cup (IF s.dma \/ starts THEN {"dma"} ELSE {})
           \cup (IF i.goes = "branch" THEN {"refill"} ELSE {})

\* An instruction that does not touch the interrupts. Its fetch waits for the
\* bus or not, and a transfer may be started by what it stores.
Execute(i, wait, timer, starts, events) ==
  LET executed == [Reached(i, wait, events) EXCEPT !.dma = @ \/ starts]
  IN /\ Runs /\ (starts => i = Store)
     /\ (timer # "fast" => i = TimerLoad)
     /\ s' = Stepped(i, executed, wait, timer, events)

Instructions == {Alu, Load, Store, TimerLoad, TimerStore}
Targets == {p \in 0 .. Places - 1 : SelfTarget \/ Address(Own, p) # s.cpu.pc}

ExecuteNext(i) ==
  \E wait \in 0 .. 1, timer \in {"fast", "slow", "deferred"}, starts \in BOOLEAN :
    \E events \in Events(Phases(i, wait, starts)) : Execute(i, wait, timer, starts, events)

ExecuteGoto ==
  \E kind \in {"branch", "jump"}, p \in Targets :
    \E events \in Events(Phases(Goto(kind, p), 0, FALSE)) :
      Execute(Goto(kind, p), 0, "fast", FALSE, events)

\* An instruction whose condition fails only takes its time.
Skip(event) ==
  /\ Runs
  /\ s' = [Advanced(s, 1, event) EXCEPT !.cpu.pc = Address(Own, @ + 1),
                                        !.due = Address(Own, s.cpu.pc + 1)]

\* CPSR.I in the main program.
Mask(irqOff) ==
  /\ Runs /\ Own = 0
  /\ s' = Stepped(Alu, [Plain EXCEPT !.cpu.irqOff = irqOff], 0, "fast", NoEvents)

Acknowledge ==
  /\ Runs
  /\ s' = Stepped(Store, [Reached(Store, 0, NoEvents) EXCEPT !.line = FALSE], 0, "fast", NoEvents)

Swi(cycles) ==
  /\ Runs
  /\ s' = Stepped(Alu, QueueWork(Plain, cycles), 0, "fast", NoEvents)

\* A handler may let itself be interrupted, in either mode, if it keeps LR and
\* SPSR of IRQ mode and restores them before it returns.
Open(mode) ==
  LET opened == [Plain EXCEPT !.kept = Append(@, [link |-> s.cpu.link, spsr |-> s.cpu.spsr]),
                              !.cpu.mode = mode, !.cpu.irqOff = FALSE]
  IN /\ Runs /\ Own \in 1 .. MaxDepth - 1 /\ Len(s.kept) < Own
     /\ s' = Stepped(Alu, opened, 0, "fast", NoEvents)

Close ==
  LET closed == [Plain EXCEPT !.kept = Pop(@), !.cpu.mode = "irq", !.cpu.irqOff = TRUE,
                              !.cpu.link = Top(s.kept).link, !.cpu.spsr = Top(s.kept).spsr]
  IN /\ Runs /\ Own # 0 /\ Len(s.kept) = Own
     /\ s' = Stepped(Alu, closed, 0, "fast", NoEvents)

\* BX LR: the handler returns to the address it was given.
Leave ==
  /\ Runs /\ Own # 0 /\ Len(s.kept) < Own /\ s.cpu.link = Sentinel
  /\ s' = Stepped(Goto("branch", 0), [Plain EXCEPT !.cpu.where = "sentinel"], 0, "fast", NoEvents)

\* A key pressed between two steps requests its interrupt (set_input_mask).
KeypadRequest ==
  /\ ~s.line
  /\ s' = [s EXCEPT !.line = TRUE]

Work(n, frameEnds, event) ==
  /\ Working(s) /\ n <= Top(s.work).left
  /\ (s.irq.high /\ s.irq.left # 0) => n <= s.irq.left
  /\ s' = WorkAdvanced(s, n, 1, frameEnds, event)

DispatchVector ==
  /\ s.cpu.where = "vector" /\ s.cpu.mode = "irq"
  /\ s' = VectorDispatched(s, 1)

DispatchReturn(event) ==
  /\ s.cpu.where = "sentinel" /\ s.cpu.mode = "irq" /\ s.hle.lr # None
  /\ s' = ReturnDispatched(s, 1, event)

Instruct ==
  \/ \E i \in Instructions : ExecuteNext(i)
  \/ ExecuteGoto
  \/ \E event \in AnyEvent : Skip(event)
  \/ \E irqOff \in BOOLEAN : Mask(irqOff)
  \/ \E mode \in Modes : Open(mode)
  \/ \E cycles \in 1 .. MaxWork : Swi(cycles)
  \/ Acknowledge \/ Close \/ Leave

Schedule ==
  \/ \E n \in 1 .. MaxWork, frameEnds \in BOOLEAN, event \in AnyEvent : Work(n, frameEnds, event)
  \/ DispatchVector
  \/ \E event \in AnyEvent : DispatchReturn(event)

Next == Instruct \/ Schedule \/ KeypadRequest

\* The host goes on stepping, and the program goes on executing instructions
\* that do not change the pc, among whatever else it does.
PlainStep == Execute(Alu, 0, "fast", FALSE, NoEvents)

Scheduled == Working(s) \/ s.cpu.where # "code"

\* Weak fairness of PlainStep, enabled when the CPU runs, and of Schedule,
\* with ENABLED written out.
Fairness ==
  /\ []<>(~Runs) \/ []<><<PlainStep>>_s
  /\ []<>(~Scheduled) \/ []<><<Schedule>>_s

Spec == Init /\ [][Next]_s /\ Fairness

---------------------------------------------------------------------------
(* Properties.                                                              *)

\* An interrupt is invisible to what it interrupts: every context goes on with
\* the instruction that is due in it, none skipped or executed twice, wherever
\* in a step, in a chain of returns or in a nest of handlers it was taken.
ResumesWhereDue == s.cpu.where = "code" => s.cpu.pc = s.due

\* A handler that is done returns to what it interrupted: the return can be
\* played, and the registers and the mode it restores are those of the context
\* below, at any nesting and also when interrupts were taken back to back.
ReturnsToInterrupted ==
  s.cpu.where = "sentinel" =>
    LET back == Returned(s)
    IN /\ s.cpu.mode = "irq" /\ s.hle.lr # None
       /\ back.cpu.regs = Top(s.stack).regs
       /\ back.cpu.mode = Top(s.stack).mode

\* Queued time is charged to the context that made the BIOS call, never to a
\* handler that interrupts it.
WorkIsOwn == Working(s) => Top(s.work).owner = Level(s)

\* An interrupt that stays requested and enabled is taken: no latency and no
\* rule that puts it off, work or transfer keeps it waiting for ever.
IrqTaken == Active(s) /\ s.cpu.where = "code" ~> ~Active(s)
=============================================================================
