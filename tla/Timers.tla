------------------------------- MODULE Timers -------------------------------
(***************************************************************************)
(* The four hardware timers (src/core/timers.cpp): prescaled counters that *)
(* reload on overflow, count-up cascades from a timer to the next, the     *)
(* one-cycle start delay the scheduler requests with                       *)
(* defer_newly_enabled_ticks, and save/load of the state.                  *)
(*                                                                         *)
(* tick(cycles) is written without its loops: a timer is incremented at a  *)
(* set of cycles of the window, and which of them overflow follows from    *)
(* how many come before. TimersLoop has the loops of increment_timer and   *)
(* handle_overflow and compares the two.                                   *)
(***************************************************************************)
EXTENDS Integers, FiniteSets

CONSTANTS
  Modulus,     \* 0x10000
  Divisors,    \* prescaler selection -> divisor_for_control
  Programmed,  \* the timers software uses
  Reloads,     \* the reload values software writes
  Controls,    \* the control words software writes
  MaxTick,     \* the longest tick window
  MaxCycle,    \* bound: no tick goes beyond this cycle
  MaxWrites    \* bound on the register writes of a behaviour

TimerCount == 4
Timer == 0 .. TimerCount - 1
Prescaler == DOMAIN Divisors

ASSUME ProgrammedAssumption == Programmed \subseteq Timer
ASSUME ModulusAssumption == Modulus \in Nat \ {0} /\ Reloads \subseteq 0 .. Modulus - 1
ASSUME DivisorAssumption ==
  Prescaler # {} /\ \A p \in Prescaler : Divisors[p] \in Nat \ {0}
Control == [enable : BOOLEAN, irq : BOOLEAN, countUp : BOOLEAN, prescaler : Prescaler]

ASSUME ControlsAssumption == Controls \subseteq Control
ASSUME BoundsAssumption == MaxTick \in Nat \ {0} /\ MaxCycle \in Nat /\ MaxWrites \in Nat

VARIABLES timers, cycle, writes
vars == <<timers, cycle, writes>>

TimerRecord ==
  [counter : 0 .. Modulus - 1, reload : 0 .. Modulus - 1, control : Control,
   overflows : Nat, delay : {0, 1}, phase : Nat, enabledAt : Nat,
   justEnabled : BOOLEAN]

TypeOK ==
  /\ timers \in [Timer -> TimerRecord]
  /\ cycle \in Nat
  /\ writes \in 0 .. MaxWrites

Enabled(t) == t.control.enable

Stopped(p) ==
  [counter |-> 0, reload |-> 0,
   control |-> [enable |-> FALSE, irq |-> FALSE, countUp |-> FALSE, prescaler |-> p],
   overflows |-> 0, delay |-> 0, phase |-> 0, enabledAt |-> 0, justEnabled |-> FALSE]

Init ==
  /\ timers = [i \in Timer |-> Stopped(CHOOSE p \in Prescaler : TRUE)]
  /\ cycle = 0
  /\ writes = 0

WriteReload(i, value) ==
  /\ writes < MaxWrites
  /\ timers' = [timers EXCEPT ![i].reload = value]
  /\ writes' = writes + 1
  /\ UNCHANGED cycle

\* The control word software asked for, with the bits timer i does not have.
Sanitized(i, control) == [control EXCEPT !.countUp = @ /\ i # 0]

\* write_control on timer i: a start reloads the counter and anchors the delay
\* window, a stop clears both.
Controlled(i, control) ==
  LET t == timers[i]
      now == Sanitized(i, control)
  IN IF ~Enabled(t) /\ now.enable
     THEN [t EXCEPT !.control = now, !.counter = t.reload, !.delay = 0,
                    !.phase = cycle % Divisors[now.prescaler],
                    !.enabledAt = cycle, !.justEnabled = TRUE]
     ELSE IF now.enable
     THEN [t EXCEPT !.control = now]
     ELSE [t EXCEPT !.control = now, !.delay = 0, !.phase = 0, !.enabledAt = 0,
                    !.justEnabled = FALSE]

WriteControl(i, control) ==
  /\ writes < MaxWrites
  /\ timers' = [timers EXCEPT ![i] = Controlled(i, control)]
  /\ writes' = writes + 1
  /\ UNCHANGED cycle

Deferred(ts) ==
  [i \in Timer |-> IF ts[i].justEnabled THEN [ts[i] EXCEPT !.delay = 1] ELSE ts[i]]

DeferNewlyEnabledTicks ==
  /\ timers' = Deferred(timers)
  /\ UNCHANGED <<cycle, writes>>

---------------------------------------------------------------------------
(* tick(n) of the timers ts after `start` cycles.                           *)

Min2(a, b) == IF a < b THEN a ELSE b

\* The cycles at which the prescaler of a free-running timer ticks; a start
\* delay skips the first ones.
PrescalerTicks(t, start, n) ==
  {c \in (start + Min2(t.delay, n) + 1) .. (start + n) :
     c % Divisors[t.control.prescaler] = 0}

\* Of the cycles at which timer t is incremented, those at which it overflows:
\* the first after Modulus - counter increments, then every Modulus - reload.
OverflowsAt(t, ticks) ==
  {c \in ticks : LET k == Cardinality({d \in ticks : d <= c}) - (Modulus - t.counter)
                 IN k >= 0 /\ k % (Modulus - t.reload) = 0}

\* The cycles at which a timer is incremented, if its predecessor overflows at
\* the cycles `fed`: a count-up timer counts those after its own delay window.
TicksOf(t, fed, start, n) ==
  IF ~Enabled(t) THEN {}
  ELSE IF t.control.countUp THEN {c \in fed : c > t.enabledAt + t.delay}
  ELSE PrescalerTicks(t, start, n)

\* The four timers, each fed by the one before it; timer 0 never counts up.
Ticks(ts, start, n) ==
  LET t0 == TicksOf(ts[0], {}, start, n)
      t1 == TicksOf(ts[1], OverflowsAt(ts[0], t0), start, n)
      t2 == TicksOf(ts[2], OverflowsAt(ts[1], t1), start, n)
      t3 == TicksOf(ts[3], OverflowsAt(ts[2], t2), start, n)
  IN [i \in Timer |-> IF i = 0 THEN t0 ELSE IF i = 1 THEN t1 ELSE IF i = 2 THEN t2 ELSE t3]

\* BUG: the window does not use up the start delay.
AdvanceDelayKept(t, ticks, n) ==
  LET k == Cardinality(ticks)
      toOverflow == Modulus - t.counter
  IN [t EXCEPT
        !.counter = IF k < toOverflow THEN t.counter + k
                    ELSE t.reload + ((k - toOverflow) % (Modulus - t.reload)),
        !.overflows = @ + Cardinality(OverflowsAt(t, ticks)),
        !.justEnabled = FALSE]

Advance(t, ticks, n) ==
  LET k == Cardinality(ticks)
      toOverflow == Modulus - t.counter
  IN [t EXCEPT
        !.counter = IF k < toOverflow THEN t.counter + k
                    ELSE t.reload + ((k - toOverflow) % (Modulus - t.reload)),
        !.overflows = @ + Cardinality(OverflowsAt(t, ticks)),
        !.delay = IF Enabled(t) THEN @ - Min2(@, n) ELSE @,
        !.justEnabled = FALSE]

Ticked(ts, start, n) ==
  IF n = 0 THEN ts
  ELSE LET ticks == Ticks(ts, start, n)
       IN [i \in Timer |-> Advance(ts[i], ticks[i], n)]

\* The (timer, cycle) pairs at which tick(n) requests a timer interrupt.
Requests(ts, start, n) ==
  LET ticks == Ticks(ts, start, n)
  IN UNION {{i} \X OverflowsAt(ts[i], ticks[i]) : i \in {j \in Timer : ts[j].control.irq}}

\* TickResult::first_irq_cycle, relative to the window; 0 when there is none.
FirstIrqCycle(ts, start, n) ==
  LET requests == Requests(ts, start, n)
  IN IF requests = {} THEN 0
     ELSE (CHOOSE c \in {q[2] : q \in requests} :
             \A q \in requests : c <= q[2]) - start

Tick(n) ==
  /\ cycle + n <= MaxCycle
  /\ timers' = Ticked(timers, cycle, n)
  /\ cycle' = cycle + n
  /\ UNCHANGED writes

---------------------------------------------------------------------------
(* intr_wait_timer_horizon_cycles of the scheduler, with MaxTick as its     *)
(* coarse batch.                                                            *)

FreeRunning(ts) == {i \in Timer : Enabled(ts[i]) /\ ~ts[i].control.countUp}

\* cycles_until_next_prescaler_tick: 0 while a start delay is pending.
UntilTick(t, at) ==
  LET divisor == Divisors[t.control.prescaler]
  IN IF t.delay # 0 THEN 0 ELSE divisor - (at % divisor)

\* BUG: the tick the prescaler distance leads to is counted again.
OverflowDistanceLate(t, at) ==
  UntilTick(t, at) + (Modulus - t.counter) * Divisors[t.control.prescaler]

OverflowDistance(t, at) ==
  UntilTick(t, at) + (Modulus - t.counter - 1) * Divisors[t.control.prescaler]

\* The earliest overflow of any free-running timer bounds the wait, if some
\* watched timer has one at or below it.
TimerHorizon(ts, at, watched) ==
  LET distances == {OverflowDistance(ts[i], at) : i \in FreeRunning(ts)} \cup {MaxTick}
      earliest == CHOOSE d \in distances : \A e \in distances : d <= e
  IN IF \E i \in watched, root \in FreeRunning(ts) : root <= i
     THEN IF earliest = 0 THEN 1 ELSE earliest
     ELSE MaxTick

---------------------------------------------------------------------------
(* save_state and load_state.                                               *)

\* The fields of the saved state; enabled_at_cycle is not one of them.
Saved(ts, at) ==
  [cycle |-> at,
   timers |-> [i \in Timer |->
     [counter |-> ts[i].counter, reload |-> ts[i].reload, control |-> ts[i].control,
      overflows |-> ts[i].overflows, delay |-> ts[i].delay, phase |-> ts[i].phase,
      justEnabled |-> ts[i].justEnabled]]]

\* What load_state checks before it changes anything.
Acceptable(state) ==
  \A i \in Timer :
    LET t == state.timers[i]
    IN /\ i = 0 => ~t.control.countUp
       /\ t.delay <= 1
       /\ t.justEnabled => t.control.enable
       /\ t.delay # 0 => t.control.enable

\* BUG: the delay window of a running timer is anchored at cycle 0.
LoadedUnanchored(state) ==
  [i \in Timer |->
     LET t == state.timers[i]
     IN [counter |-> t.counter, reload |-> t.reload, control |-> t.control,
         overflows |-> t.overflows, delay |-> t.delay, phase |-> t.phase,
         enabledAt |-> 0, justEnabled |-> t.justEnabled]]

Loaded(state) ==
  [i \in Timer |->
     LET t == state.timers[i]
     IN [counter |-> t.counter, reload |-> t.reload, control |-> t.control,
         overflows |-> t.overflows, delay |-> t.delay, phase |-> t.phase,
         enabledAt |-> IF t.control.enable THEN state.cycle ELSE 0,
         justEnabled |-> t.justEnabled]]

\* A save state is taken and loaded back; a refused one changes nothing.
SaveAndLoad ==
  /\ Acceptable(Saved(timers, cycle))
  /\ timers' = Loaded(Saved(timers, cycle))
  /\ UNCHANGED <<cycle, writes>>

Next ==
  \/ \E i \in Programmed, value \in Reloads : WriteReload(i, value)
  \/ \E i \in Programmed, control \in Controls : WriteControl(i, control)
  \/ DeferNewlyEnabledTicks
  \/ \E n \in 1 .. MaxTick : Tick(n)
  \/ SaveAndLoad

Spec == Init /\ [][Next]_vars

---------------------------------------------------------------------------
(* Properties.                                                              *)

\* A pending start delay belongs to a running timer that was started in this
\* very cycle, which is why load_state may anchor it at the restored cycle
\* ("a deferred enable can only survive zero-cycle ticks").
DelayAnchored ==
  \A i \in Timer : timers[i].delay # 0 \/ timers[i].justEnabled =>
    /\ Enabled(timers[i])
    /\ timers[i].enabledAt = cycle

\* load_state accepts every state save_state can produce.
SavedIsAcceptable == Acceptable(Saved(timers, cycle))

Observed(ts) == Saved(ts, 0).timers

\* Restoring a save state changes nothing the program can see later: after
\* the same deferral and the same window the counters, overflow counts,
\* interrupts and first interrupt cycle are those of the undisturbed run.
RestoreIsTransparent ==
  LET restored == Loaded(Saved(timers, cycle))
  IN \A n \in 0 .. MaxTick : \A live \in {timers, Deferred(timers)} :
       LET back == IF live = timers THEN restored ELSE Deferred(restored)
       IN /\ Observed(Ticked(back, cycle, n)) = Observed(Ticked(live, cycle, n))
          /\ Requests(back, cycle, n) = Requests(live, cycle, n)

\* How the scheduler slices time is invisible: a window of n cycles does what
\* its first cycle and then the other n - 1 do, and so what any division of
\* it does (tick is called with whatever an instruction, a DMA or an idle skip
\* took).
SlicingIsInvisible ==
  \A n \in 2 .. MaxTick :
    LET first == Ticked(timers, cycle, 1)
        now == FirstIrqCycle(timers, cycle, 1)
        later == FirstIrqCycle(first, cycle + 1, n - 1)
    IN /\ Ticked(timers, cycle, n) = Ticked(first, cycle + 1, n - 1)
       /\ Requests(timers, cycle, n)
            = Requests(timers, cycle, 1) \cup Requests(first, cycle + 1, n - 1)
       /\ FirstIrqCycle(timers, cycle, n)
            = IF now # 0 THEN now ELSE IF later # 0 THEN later + 1 ELSE 0

\* A wait bounded by the horizon misses no timer interrupt and never stands
\* still: in fewer cycles than the horizon no watched timer, free-running or
\* fed through a cascade, requests its interrupt.
HorizonStopsAtOverflow ==
  \A watched \in SUBSET Programmed :
    LET h == TimerHorizon(timers, cycle, watched)
    IN h > 0 /\ \A q \in Requests(timers, cycle, h - 1) : q[1] \notin watched
=============================================================================
