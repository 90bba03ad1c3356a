------------------------------- MODULE HleIrq -------------------------------
(***************************************************************************)
(* Interrupts under the high-level BIOS (src/core/core_scheduler.cpp): how *)
(* the scheduler enters an IRQ and how long it waits before it does, how   *)
(* it plays the BIOS's part in calling the program's handler and in        *)
(* returning from it, the frame it keeps for every handler that is itself  *)
(* interrupted, and the time of long BIOS calls, which is work that        *)
(* belongs to the nesting depth it was queued at.                          *)
(*                                                                         *)
(* A context is the main program (0) or the handler at a nesting level; it *)
(* has code of its own, Places instructions in a circle. The values of     *)
(* r0-r12 are known by the context they belong to. The machine is the      *)
(* record s of the scheduler's and the CPU's state, so that the parts of a *)
(* step can follow one another.                                            *)
(***************************************************************************)
EXTENDS Integers, Sequences

CONSTANTS
  MaxDepth,   \* bound on the nesting of interrupts
  MaxWork,    \* the longest BIOS call, in units of work
  Places,     \* instructions of a context
  Latency     \* the fitted latencies: normal, slow, returned, chained, chainedSlow

ASSUME BoundsAssumption ==
  /\ MaxDepth \in Nat \ {0} /\ MaxWork \in Nat \ {0} /\ Places \in Nat \ {0, 1}
  /\ Latency \in [{"normal", "slow", "returned", "chained", "chainedSlow"} -> Nat]

None == -1       \* an empty optional
Sentinel == -2   \* kIrqReturnSentinelPc
Context == 0 .. MaxDepth
Address(level, place) == level * Places + (place % Places)
Code == 0 .. (MaxDepth + 1) * Places - 1

Modes == {"system", "irq"}
Frame == [lr : Code, saved : Context]

Top(s) == s[Len(s)]
Pop(s) == SubSeq(s, 1, Len(s) - 1)

\* The parts of the machine:
\*   cpu    mode, where the pc is, its address, the owner of r0-r12, LR and SPSR
\*          of IRQ mode, CPSR.I
\*   hle    hle_irq_return_lr_, hle_irq_saved_registers_, hle_irq_outer_frames_
\*   work   hle_work_frames_
\*   line   the IRQ line
\*   irq    auto_irq_line_high_, auto_irq_latency_cycles_, and the flags of the
\*          latencies: hle_irq_return_latency_pending_ (returned),
\*          hle_irq_post_return_latency_armed_ and .._chain_active_
\*   dma    an immediate transfer is pending
\*   stack  mode, registers and next instruction of the interrupted contexts
\*   kept   the LR and SPSR that handlers open to interrupts keep for themselves
\*   due    the instruction the running context has to go on with
NewMachine ==
  [cpu |-> [mode |-> "system", where |-> "code", pc |-> 0, regs |-> 0, link |-> None,
            spsr |-> "system", irqOff |-> FALSE],
   hle |-> [lr |-> None, saved |-> None, outer |-> <<>>],
   work |-> <<>>, line |-> FALSE,
   irq |-> [high |-> FALSE, left |-> 0, returned |-> FALSE, armed |-> FALSE, chain |-> FALSE],
   dma |-> FALSE, stack |-> <<>>, kept |-> <<>>, due |-> 0]

Level(s) == Len(s.stack)

\* BUG: handlers that are themselves interrupted are not counted.
DepthOfInnermost(h) == IF h.saved # None THEN 1 ELSE 0

\* hle_irq_depth
Depth(h) == Len(h.outer) + (IF h.saved # None THEN 1 ELSE 0)

\* advance_hle_work applies: the CPU is charged queued work instead of
\* executing an instruction.
Working(s) ==
  /\ s.work # <<>> /\ Top(s.work).owner = Depth(s.hle)
  /\ ~(s.cpu.mode = "irq" /\ s.cpu.where # "code")

---------------------------------------------------------------------------
(* Latency.                                                                 *)

\* The line is up and CPSR.I is clear.
Active(s) == s.line /\ ~s.cpu.irqOff

\* reset_auto_irq_latency
ResetLatency(s) == [s EXCEPT !.irq.high = FALSE, !.irq.left = 0, !.irq.armed = FALSE]

\* BUG: time that passes while the line is high starts the wait again.
WaitedAnew(s, n) ==
  IF ~Active(s) THEN ResetLatency(s) ELSE [s EXCEPT !.irq.high = TRUE, !.irq.left = Latency.normal]

\* update_auto_irq_latency
Waited(s, n) ==
  IF ~Active(s) THEN ResetLatency(s)
  ELSE IF ~s.irq.high THEN [s EXCEPT !.irq.high = TRUE, !.irq.left = Latency.normal]
  ELSE [s EXCEPT !.irq.left = IF @ > n THEN @ - n ELSE 0]

\* auto_irq_ready
Ready(s) == Active(s) /\ s.irq.high /\ s.irq.left = 0

FittedLatency(irq, slow) ==
  Latency[IF irq.returned /\ irq.chain /\ slow THEN "chainedSlow"
          ELSE IF irq.returned /\ irq.chain THEN "chained"
          ELSE IF irq.returned THEN "returned"
          ELSE IF slow THEN "slow" ELSE "normal"]

\* What may happen while time passes: nothing, or an interrupt is requested,
\* by a timer, slow or not, "after" cycles before the end, or by another device.
Quiet == [hit |-> FALSE, timer |-> FALSE, slow |-> FALSE, after |-> 0]
Device == [Quiet EXCEPT !.hit = TRUE]
TimerEvent(slow, after) == [hit |-> TRUE, timer |-> TRUE, slow |-> slow, after |-> after]

Raised(s, event) == [s EXCEPT !.line = @ \/ event.hit]

\* An interrupt of a timer has a latency of its own.
Fitted(s, event) ==
  [Raised(s, event) EXCEPT
     !.irq = [@ EXCEPT !.high = TRUE, !.left = FittedLatency(s.irq, event.slow),
                       !.armed = s.irq.returned, !.returned = FALSE]]

\* The end of advance_devices, after n cycles with that event.
Advanced(s, n, event) ==
  IF n = 0 THEN s
  ELSE IF Active(s) \/ ~event.timer \/ ~Active(Raised(s, event)) THEN Waited(Raised(s, event), n)
  ELSE IF event.after > 0 THEN Waited(Fitted(s, event), event.after) ELSE Fitted(s, event)

---------------------------------------------------------------------------
(* Entry, dispatch and return.                                              *)

\* enter_exception and CoreScheduler::service_pending_irq, if the controller
\* admits it.
Serviced(s) ==
  IF ~Active(s) THEN s
  ELSE [s EXCEPT
          !.cpu = [@ EXCEPT !.mode = "irq", !.where = "vector", !.link = s.cpu.pc,
                            !.spsr = s.cpu.mode, !.irqOff = TRUE],
          !.hle.lr = IF @ = None THEN s.cpu.pc ELSE @,
          !.stack = Append(@, [mode |-> s.cpu.mode, regs |-> s.cpu.regs, pc |-> s.due]),
          !.irq.chain = s.irq.armed, !.irq.armed = FALSE]

\* The auto-IRQ: serviced when ready, after which the latency starts again.
AutoServiced(s) == IF Ready(s) THEN ResetLatency(Serviced(s)) ELSE s

Dispatched(h, link, regs) ==
  [lr |-> link, saved |-> regs,
   outer |-> IF h.lr # None /\ h.saved # None
             THEN Append(h.outer, [lr |-> h.lr, saved |-> h.saved]) ELSE h.outer]

\* dispatch_hle_irq_vector: call the program's handler.
VectorDispatched(s, n) ==
  LET entry == Address(Level(s), 0)
  IN Advanced([s EXCEPT !.hle = Dispatched(s.hle, s.cpu.link, s.cpu.regs),
                        !.cpu.where = "code", !.cpu.pc = entry, !.cpu.link = Sentinel,
                        !.due = entry],
              n, Quiet)

\* BUG: the registers of the interrupted handler's own frame are not taken up.
PoppedLink(h) ==
  IF h.outer = <<>> THEN [h EXCEPT !.lr = None, !.saved = None]
  ELSE [lr |-> Top(h.outer).lr, saved |-> h.saved, outer |-> Pop(h.outer)]

Popped(h) ==
  IF h.outer = <<>> THEN [h EXCEPT !.lr = None, !.saved = None]
  ELSE [lr |-> Top(h.outer).lr, saved |-> Top(h.outer).saved, outer |-> Pop(h.outer)]

\* Return to the link with the saved registers, and take up the frame of the
\* interrupted handler.
Returned(s) ==
  [s EXCEPT !.cpu = [@ EXCEPT !.where = "code", !.mode = s.cpu.spsr, !.irqOff = FALSE,
                              !.pc = s.hle.lr, !.link = s.hle.lr,
                              !.regs = IF s.hle.saved # None THEN s.hle.saved ELSE s.cpu.regs],
            !.hle = Popped(s.hle),
            !.stack = Pop(@), !.due = Top(s.stack).pc]

\* dispatch_hle_irq_return: the return takes a pending interrupt at once.
ReturnDispatched(s, n, event) ==
  LET back == Advanced(Returned(s), n, event)
  IN IF Active(back) THEN ResetLatency([Serviced(back) EXCEPT !.irq.returned = FALSE])
     ELSE [back EXCEPT !.irq.returned = TRUE]

---------------------------------------------------------------------------
(* Queued work.                                                             *)

\* queue_hle_work of a decompression call.
QueueWork(s, cycles) ==
  [s EXCEPT !.work = Append(@, [left |-> cycles, owner |-> Depth(s.hle)])]

WorkedOff(work, n) ==
  IF n = Top(work).left THEN Pop(work) ELSE [work EXCEPT ![Len(work)].left = @ - n]

\* advance_hle_work: a pending transfer first, which may reach the end of the
\* frame; then an interrupt that is ready; then n cycles of work.
WorkAdvanced(s, n, bus, frameEnds, event) ==
  LET moved == IF s.dma THEN Advanced([s EXCEPT !.dma = FALSE], bus, event) ELSE s
      looked == IF Active(moved) THEN Waited(moved, 0) ELSE moved
      worked == Advanced([looked EXCEPT !.work = WorkedOff(@, n)], n,
                         IF s.dma THEN Quiet ELSE event)
  IN IF s.dma /\ frameEnds THEN moved
     ELSE IF Ready(looked) THEN AutoServiced(looked) ELSE AutoServiced(worked)
=============================================================================
