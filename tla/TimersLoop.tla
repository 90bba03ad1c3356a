----------------------------- MODULE TimersLoop -----------------------------
(***************************************************************************)
(* Timers::tick with the loops of the code: increment_timer consumes the   *)
(* ticks of a window overflow by overflow, and handle_overflow requests    *)
(* the interrupt and increments the next timer at once, before the main    *)
(* loop reaches that timer. Checked against the closed form of Timers.     *)
(*                                                                         *)
(* increment_timer and handle_overflow call each other, but a cascade is   *)
(* one tick: it overflows once or not at all, so the calls walk up the     *)
(* timers, at most to the last.                                            *)
(***************************************************************************)
EXTENDS Timers

\* acc = [timers, requests]; timer i overflows in cycle c.
Overflowed(acc, i, c) ==
  [timers |-> [acc.timers EXCEPT ![i].overflows = @ + 1],
   requests |-> acc.requests \cup (IF acc.timers[i].control.irq THEN {<<i, c>>} ELSE {})]

\* The overflow increments the next timer, unless that is in its delay window.
Cascades(acc, i, c) ==
  /\ i + 1 \in Timer
  /\ Enabled(acc.timers[i + 1]) /\ acc.timers[i + 1].control.countUp
  /\ c > acc.timers[i + 1].enabledAt + acc.timers[i + 1].delay

\* increment_timer with one tick; over: it overflows, which is yet to be handled.
IncrementedOnce(acc, i) ==
  LET t == acc.timers[i]
      over == t.counter + 1 >= Modulus
  IN [acc |-> [acc EXCEPT !.timers[i].counter = IF over THEN t.reload ELSE @ + 1], over |-> over]

\* handle_overflow of timer j, if the walk from timer i has come to it.
Handled(walk, i, j, c) ==
  LET counted == Overflowed(walk.acc, j, c)
  IN IF j < i \/ ~walk.over THEN walk
     ELSE IF Cascades(counted, j, c) THEN IncrementedOnce(counted, j + 1)
     ELSE [acc |-> counted, over |-> FALSE]

HandleOverflow(acc, i, c) ==
  LET walk0 == Handled([acc |-> acc, over |-> TRUE], i, 0, c)
      walk1 == Handled(walk0, i, 1, c)
      walk2 == Handled(walk1, i, 2, c)
      walk3 == Handled(walk2, i, 3, c)
  IN walk3.acc

\* BUG: the ticks of the window continue from the first one after a reload.
RoundStuck(run, i, stride) ==
  LET t == run.acc.timers[i]
      toOverflow == Modulus - t.counter
      c == run.next + (toOverflow - 1) * stride
  IN IF run.ticks < toOverflow THEN run
     ELSE [acc |-> HandleOverflow([run.acc EXCEPT !.timers[i].counter = t.reload], i, c),
           ticks |-> run.ticks - toOverflow, next |-> run.next]

\* One round of increment_timer's loop, run = [acc, ticks, next].
Round(run, i, stride) ==
  LET t == run.acc.timers[i]
      toOverflow == Modulus - t.counter
      c == run.next + (toOverflow - 1) * stride
  IN IF run.ticks < toOverflow THEN run
     ELSE [acc |-> HandleOverflow([run.acc EXCEPT !.timers[i].counter = t.reload], i, c),
           ticks |-> run.ticks - toOverflow, next |-> c + stride]

\* A round consumes a tick at least.
Rounds(acc, i, ticks, next, stride) ==
  LET run[k \in 0 .. ticks] ==
        IF k = 0 THEN [acc |-> acc, ticks |-> ticks, next |-> next]
        ELSE Round(run[k - 1], i, stride)
  IN run[ticks]

IncrementTimer(acc, i, ticks, next, stride) ==
  LET run == Rounds(acc, i, ticks, next, stride)
  IN [run.acc EXCEPT !.timers[i].counter = @ + run.ticks]

\* The cycles of the window that the start delay of a running timer skips.
Skipped(t, n) == IF Enabled(t) THEN Min2(t.delay, n) ELSE 0

\* What tick does to timer i before it counts ticks.
Settled(acc, i, skipped) ==
  [acc EXCEPT !.timers[i].delay = @ - skipped, !.timers[i].justEnabled = FALSE]

\* increment_timer for the ticks of the prescaler in after + 1 .. last.
CountTicks(acc, i, after, last, divisor) ==
  LET first == ((after + divisor) \div divisor) * divisor
  IN IF first > last THEN acc
     ELSE IncrementTimer(acc, i, (last - first) \div divisor + 1, first, divisor)

\* The body of tick's loop for timer i.
TickTimer(acc, i, start, n) ==
  LET t == acc.timers[i]
      skipped == Skipped(t, n)
      settled == Settled(acc, i, skipped)
  IN IF ~Enabled(t) \/ t.control.countUp \/ skipped = n THEN settled
     ELSE CountTicks(settled, i, start + skipped, start + n, Divisors[t.control.prescaler])

TickLoop(ts, start, n) ==
  LET acc0 == TickTimer([timers |-> ts, requests |-> {}], 0, start, n)
      acc1 == TickTimer(acc0, 1, start, n)
      acc2 == TickTimer(acc1, 2, start, n)
  IN TickTimer(acc2, 3, start, n)

\* The loops of the code compute the closed form: the same counters and
\* overflow counts, and the same interrupt requests in the same cycles.
LoopsMatchClosedForm ==
  \A n \in 1 .. MaxTick :
    LET result == TickLoop(timers, cycle, n)
    IN /\ result.timers = Ticked(timers, cycle, n)
       /\ result.requests = Requests(timers, cycle, n)
=============================================================================
