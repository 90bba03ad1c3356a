---------------------------- MODULE TimersProofs ----------------------------
(***************************************************************************)
(* Proofs about Timers, for every modulus, prescaler table and set of      *)
(* register values: the anchoring of the start delay on which load_state   *)
(* and the state hash rely, that a restored block goes on as the saved     *)
(* one, that a wait stops at the first overflow, and that it does not      *)
(* matter how time is cut into windows.                                    *)
(***************************************************************************)
EXTENDS TimersLoop, FiniteSetTheorems, WellFoundedInduction, TLAPS

LEMMA StoppedType ==
  ASSUME NEW p \in Prescaler
  PROVE  Stopped(p) \in TimerRecord
BY ModulusAssumption DEF Stopped, TimerRecord, Control

\* A window of cycles is finite, and so is every set of ticks in it.
LEMMA WindowFinite ==
  ASSUME NEW start \in Nat, NEW n \in Nat, NEW S, S \subseteq start + 1 .. start + n
  PROVE  IsFiniteSet(S) /\ Cardinality(S) \in Nat
<1>1. IsFiniteSet(start + 1 .. start + n)
  BY FS_Interval
<1>2. IsFiniteSet(S)
  BY <1>1, FS_Subset
<1> QED
  BY <1>2, FS_CardinalityType

\* Every tick of a timer lies in the window, if those it is fed do.
LEMMA TicksOfInWindow ==
  ASSUME NEW t \in TimerRecord, NEW start \in Nat, NEW n \in Nat,
         NEW fed, fed \subseteq start + 1 .. start + n
  PROVE  TicksOf(t, fed, start, n) \subseteq start + 1 .. start + n
<1>1. Min2(t.delay, n) \in Nat
  BY DEF Min2, TimerRecord
<1>2. PrescalerTicks(t, start, n) \subseteq start + 1 .. start + n
  BY <1>1 DEF PrescalerTicks
<1> QED
  BY <1>2 DEF TicksOf

LEMMA OverflowsAreTicks ==
  ASSUME NEW t, NEW S
  PROVE  OverflowsAt(t, S) \subseteq S
BY DEF OverflowsAt

LEMMA TicksInWindow ==
  ASSUME NEW ts \in [Timer -> TimerRecord], NEW start \in Nat, NEW n \in Nat,
         NEW i \in Timer
  PROVE  Ticks(ts, start, n)[i] \subseteq start + 1 .. start + n
<1> DEFINE t0 == TicksOf(ts[0], {}, start, n)
           t1 == TicksOf(ts[1], OverflowsAt(ts[0], t0), start, n)
           t2 == TicksOf(ts[2], OverflowsAt(ts[1], t1), start, n)
           t3 == TicksOf(ts[3], OverflowsAt(ts[2], t2), start, n)
           window == start + 1 .. start + n
<1>0. ts[0] \in TimerRecord /\ ts[1] \in TimerRecord /\ ts[2] \in TimerRecord
        /\ ts[3] \in TimerRecord
  BY DEF Timer, TimerCount
<1>1. t0 \subseteq window
  BY <1>0, TicksOfInWindow
<1>2. t1 \subseteq window
  <2> HIDE DEF t0
  <2>1. OverflowsAt(ts[0], t0) \subseteq window
    BY <1>1, OverflowsAreTicks
  <2> QED
    BY <1>0, <2>1, TicksOfInWindow
<1>3. t2 \subseteq window
  <2> HIDE DEF t1
  <2>1. OverflowsAt(ts[1], t1) \subseteq window
    BY <1>2, OverflowsAreTicks
  <2> QED
    BY <1>0, <2>1, TicksOfInWindow
<1>4. t3 \subseteq window
  <2> HIDE DEF t2
  <2>1. OverflowsAt(ts[2], t2) \subseteq window
    BY <1>3, OverflowsAreTicks
  <2> QED
    BY <1>0, <2>1, TicksOfInWindow
<1>5. Ticks(ts, start, n)
        = [j \in Timer |-> IF j = 0 THEN t0 ELSE IF j = 1 THEN t1 ELSE IF j = 2 THEN t2 ELSE t3]
  BY DEF Ticks
<1> HIDE DEF t0, t1, t2, t3
<1> QED
  BY <1>1, <1>2, <1>3, <1>4, <1>5

\* What incrementing timer t at the cycles S of a window of n cycles leaves.
AdvanceFacts(t, S, n) ==
  /\ Advance(t, S, n) \in TimerRecord
  /\ Advance(t, S, n).control = t.control
  /\ Advance(t, S, n).justEnabled = FALSE
  /\ n # 0 /\ Enabled(t) => Advance(t, S, n).delay = 0
  /\ ~Enabled(t) => Advance(t, S, n).delay = t.delay
  /\ Advance(t, S, n).enabledAt = t.enabledAt

\* Incrementing a timer at finitely many ticks keeps it a timer: the counter
\* stays below the modulus, between reload and modulus after an overflow.
LEMMA AdvanceType ==
  ASSUME NEW t \in TimerRecord, NEW n \in Nat, NEW S, IsFiniteSet(S)
  PROVE  AdvanceFacts(t, S, n)
<1> DEFINE k == Cardinality(S)
           toOverflow == Modulus - t.counter
           c == IF k < toOverflow THEN t.counter + k
                ELSE t.reload + ((k - toOverflow) % (Modulus - t.reload))
           o == t.overflows + Cardinality(OverflowsAt(t, S))
           d == IF Enabled(t) THEN t.delay - Min2(t.delay, n) ELSE t.delay
<1>1. k \in Nat /\ Cardinality(OverflowsAt(t, S)) \in Nat
  BY FS_CardinalityType, FS_Subset, OverflowsAreTicks
<1>2. /\ t.counter \in 0 .. Modulus - 1 /\ t.reload \in 0 .. Modulus - 1
      /\ t.delay \in {0, 1} /\ t.overflows \in Nat
  BY DEF TimerRecord
<1>3. c \in 0 .. Modulus - 1
  <2> HIDE DEF k
  <2>1. CASE k < toOverflow
    BY <1>1, <1>2, <2>1, ModulusAssumption
  <2>2. CASE ~(k < toOverflow)
    <3>1. k - toOverflow \in Nat /\ Modulus - t.reload \in Nat \ {0}
      BY <1>1, <1>2, <2>2, ModulusAssumption
    <3>2. (k - toOverflow) % (Modulus - t.reload) \in 0 .. (Modulus - t.reload) - 1
      BY <3>1
    <3> HIDE DEF toOverflow
    <3> QED
      BY <1>2, <2>2, <3>2, ModulusAssumption
  <2> QED
    BY <2>1, <2>2
<1>4. o \in Nat
  BY <1>1, <1>2
<1>5. /\ d \in {0, 1}
      /\ n # 0 /\ Enabled(t) => d = 0
      /\ ~Enabled(t) => d = t.delay
  BY <1>2 DEF Min2
<1>6. Advance(t, S, n)
        = [t EXCEPT !.counter = c, !.overflows = o, !.delay = d, !.justEnabled = FALSE]
  BY DEF Advance
<1> HIDE DEF c, o, d
<1> QED
  BY <1>3, <1>4, <1>5, <1>6 DEF TimerRecord, AdvanceFacts

---------------------------------------------------------------------------
\* Timer 0 has no predecessor to count.
NoCountUp0 == ~timers[0].control.countUp

\* No timer is enabled in the future.
NotAhead == \A i \in Timer : timers[i].enabledAt <= cycle

IInv == TypeOK /\ DelayAnchored /\ NoCountUp0 /\ NotAhead

LEMMA InitIInv == Init => IInv
<1> SUFFICES ASSUME Init PROVE IInv
  OBVIOUS
<1>1. (CHOOSE p \in Prescaler : TRUE) \in Prescaler
  BY DivisorAssumption
<1>2. PICK p \in Prescaler : timers = [i \in Timer |-> Stopped(p)]
  BY <1>1 DEF Init
<1>3. TypeOK
  BY <1>2, StoppedType, BoundsAssumption DEF Init, TypeOK
<1>4. \A i \in Timer : timers[i] = Stopped(p)
  BY <1>2
<1>5. DelayAnchored /\ NoCountUp0
  BY <1>4 DEF DelayAnchored, NoCountUp0, Stopped, Timer, TimerCount
<1>6. NotAhead
  BY <1>4 DEF NotAhead, Stopped, Init
<1> QED
  BY <1>3, <1>5, <1>6 DEF IInv

\* What write_control makes of timer i.
LEMMA ControlledType ==
  ASSUME IInv, NEW i \in Timer, NEW control \in Control
  PROVE  /\ Controlled(i, control) \in TimerRecord
         /\ i = 0 => ~Controlled(i, control).control.countUp
         /\ Controlled(i, control).delay # 0 \/ Controlled(i, control).justEnabled
              => Enabled(Controlled(i, control)) /\ Controlled(i, control).enabledAt = cycle
         /\ Controlled(i, control).enabledAt <= cycle
<1> DEFINE now == Sanitized(i, control)
<1>1. timers[i] \in TimerRecord /\ cycle \in Nat /\ timers[i].enabledAt <= cycle
  BY DEF IInv, TypeOK, NotAhead
<1>2. now \in Control /\ (i = 0 => ~now.countUp)
  BY DEF Sanitized, Control
<1>3. cycle % Divisors[now.prescaler] \in Nat
  <2>1. Divisors[now.prescaler] \in Nat \ {0}
    BY <1>2, DivisorAssumption DEF Control
  <2> QED
    BY <1>1, <2>1
<1>4. timers[i].delay # 0 \/ timers[i].justEnabled
        => Enabled(timers[i]) /\ timers[i].enabledAt = cycle
  BY DEF IInv, DelayAnchored
<1>5. Controlled(i, control) =
        IF ~Enabled(timers[i]) /\ now.enable
        THEN [timers[i] EXCEPT !.control = now, !.counter = timers[i].reload, !.delay = 0,
                    !.phase = cycle % Divisors[now.prescaler],
                    !.enabledAt = cycle, !.justEnabled = TRUE]
        ELSE IF now.enable
        THEN [timers[i] EXCEPT !.control = now]
        ELSE [timers[i] EXCEPT !.control = now, !.delay = 0, !.phase = 0, !.enabledAt = 0,
                    !.justEnabled = FALSE]
  BY DEF Controlled
<1> DEFINE ph == cycle % Divisors[now.prescaler]
<1> HIDE DEF now, ph
<1>6. CASE ~Enabled(timers[i]) /\ now.enable
  <2>1. Controlled(i, control) =
          [timers[i] EXCEPT !.control = now, !.counter = timers[i].reload, !.delay = 0,
                    !.phase = ph, !.enabledAt = cycle, !.justEnabled = TRUE]
    BY <1>5, <1>6 DEF ph
  <2>2. ph \in Nat
    BY <1>3 DEF ph
  <2>3. Controlled(i, control) \in TimerRecord
    BY <1>1, <1>2, <2>1, <2>2 DEF TimerRecord
  <2>4. Controlled(i, control).enabledAt = cycle /\ Controlled(i, control).control = now
    BY <1>1, <2>1 DEF TimerRecord
  <2> QED
    BY <1>1, <1>2, <1>6, <2>3, <2>4 DEF Enabled
<1>7. CASE Enabled(timers[i]) /\ now.enable
  <2>1. Controlled(i, control) = [timers[i] EXCEPT !.control = now]
    BY <1>5, <1>7
  <2> QED
    BY <1>1, <1>2, <1>4, <1>7, <2>1 DEF TimerRecord, Enabled
<1>8. CASE ~now.enable
  <2>1. Controlled(i, control) =
          [timers[i] EXCEPT !.control = now, !.delay = 0, !.phase = 0, !.enabledAt = 0,
                    !.justEnabled = FALSE]
    BY <1>5, <1>8
  <2>2. Controlled(i, control) \in TimerRecord
    <3> SUFFICES ASSUME NEW t \in TimerRecord
                 PROVE  [t EXCEPT !.control = now, !.delay = 0, !.phase = 0, !.enabledAt = 0,
                                  !.justEnabled = FALSE] \in TimerRecord
      BY <1>1, <2>1
    <3> QED
      BY <1>2 DEF TimerRecord
  <2>3. /\ Controlled(i, control).control = now
        /\ Controlled(i, control).delay = 0
        /\ Controlled(i, control).justEnabled = FALSE
        /\ Controlled(i, control).enabledAt = 0
    BY <1>1, <2>1 DEF TimerRecord
  <2> QED
    BY <1>1, <1>2, <2>2, <2>3
<1> QED
  BY <1>6, <1>7, <1>8

\* One step per operation of the timers.
LEMMA NextIInv ==
  ASSUME IInv, [Next]_vars
  PROVE  IInv'
<1>0. /\ timers \in [Timer -> TimerRecord] /\ cycle \in Nat /\ writes \in 0 .. MaxWrites
      /\ 0 \in Timer
  BY DEF IInv, TypeOK, Timer, TimerCount
<1>1. CASE \E i \in Programmed, value \in Reloads : WriteReload(i, value)
  <2> SUFFICES ASSUME NEW i \in Timer, NEW value \in 0 .. Modulus - 1, WriteReload(i, value)
               PROVE  IInv'
    BY <1>1, ProgrammedAssumption, ModulusAssumption
  <2>1. timers' = [timers EXCEPT ![i] = [timers[i] EXCEPT !.reload = value]]
    BY DEF WriteReload
  <2>2. [timers[i] EXCEPT !.reload = value] \in TimerRecord
    BY <1>0 DEF TimerRecord
  <2>3. TypeOK'
    BY <1>0, <2>1, <2>2, BoundsAssumption DEF WriteReload, TypeOK
  <2>4. \A j \in Timer : /\ timers'[j].control = timers[j].control
                         /\ timers'[j].delay = timers[j].delay
                         /\ timers'[j].enabledAt = timers[j].enabledAt
                         /\ timers'[j].justEnabled = timers[j].justEnabled
    BY <1>0, <2>1 DEF TimerRecord
  <2> QED
    BY <1>0, <2>3, <2>4 DEF IInv, DelayAnchored, NoCountUp0, NotAhead, Enabled, WriteReload
<1>2. CASE \E i \in Programmed, control \in Controls : WriteControl(i, control)
  <2> SUFFICES ASSUME NEW i \in Timer, NEW control \in Control, WriteControl(i, control)
               PROVE  IInv'
    BY <1>2, ProgrammedAssumption, ControlsAssumption
  <2>1. timers' = [timers EXCEPT ![i] = Controlled(i, control)] /\ cycle' = cycle
    BY DEF WriteControl
  <2>2. TypeOK'
    BY <1>0, <2>1, ControlledType, BoundsAssumption DEF WriteControl, TypeOK
  <2>3. DelayAnchored'
    BY <1>0, <2>1, ControlledType DEF IInv, DelayAnchored, Enabled
  <2>4. NoCountUp0'
    BY <1>0, <2>1, ControlledType DEF IInv, NoCountUp0
  <2>5. NotAhead'
    BY <1>0, <2>1, ControlledType DEF IInv, NotAhead
  <2> QED
    BY <2>2, <2>3, <2>4, <2>5 DEF IInv
<1>3. CASE DeferNewlyEnabledTicks
  <2>1. /\ timers' = [i \in Timer |-> IF timers[i].justEnabled
                                      THEN [timers[i] EXCEPT !.delay = 1] ELSE timers[i]]
        /\ UNCHANGED <<cycle, writes>>
    BY <1>3 DEF DeferNewlyEnabledTicks, Deferred
  <2>2. \A i \in Timer : /\ timers'[i] \in TimerRecord
                         /\ timers'[i].control = timers[i].control
                         /\ timers'[i].enabledAt = timers[i].enabledAt
                         /\ timers'[i].justEnabled = timers[i].justEnabled
                         /\ ~timers[i].justEnabled => timers'[i].delay = timers[i].delay
    BY <1>0, <2>1 DEF TimerRecord
  <2>3. timers' \in [Timer -> TimerRecord]
    BY <2>1, <2>2
  <2> QED
    BY <1>0, <2>1, <2>2, <2>3 DEF IInv, TypeOK, DelayAnchored, NoCountUp0, NotAhead, Enabled
<1>4. CASE \E n \in 1 .. MaxTick : Tick(n)
  <2> SUFFICES ASSUME NEW n \in Nat \ {0}, Tick(n) PROVE IInv'
    BY <1>4, BoundsAssumption
  <2> DEFINE S(i) == Ticks(timers, cycle, n)[i]
  <2>1. /\ timers' = [i \in Timer |-> Advance(timers[i], S(i), n)]
        /\ cycle' \in Nat /\ cycle <= cycle' /\ writes' = writes
    BY <1>0 DEF Tick, Ticked
  <2>2. \A i \in Timer : S(i) \subseteq cycle + 1 .. cycle + n
    BY <1>0, TicksInWindow
  <2> HIDE DEF S
  <2>3. \A i \in Timer : /\ timers'[i] \in TimerRecord
                         /\ timers'[i].control = timers[i].control
                         /\ timers'[i].justEnabled = FALSE
                         /\ Enabled(timers[i]) => timers'[i].delay = 0
                         /\ ~Enabled(timers[i]) => timers'[i].delay = timers[i].delay
                         /\ timers'[i].enabledAt = timers[i].enabledAt
    <3> TAKE i \in Timer
    <3>1. timers'[i] = Advance(timers[i], S(i), n)
      BY <2>1
    <3>2. timers[i] \in TimerRecord /\ S(i) \subseteq cycle + 1 .. cycle + n
      BY <1>0, <2>2
    <3>3. n \in Nat /\ IsFiniteSet(S(i))
      BY <1>0, <3>2, WindowFinite
    <3>4. AdvanceFacts(timers[i], S(i), n)
      BY <3>2, <3>3, AdvanceType
    <3> QED
      BY <3>1, <3>4 DEF AdvanceFacts
  <2>4. timers' \in [Timer -> TimerRecord]
    BY <2>1, <2>3
  <2>5. TypeOK'
    BY <1>0, <2>1, <2>4 DEF TypeOK
  <2>6. DelayAnchored'
    BY <2>3 DEF IInv, DelayAnchored
  <2>7. NoCountUp0'
    BY <1>0, <2>3 DEF IInv, NoCountUp0
  <2>8. NotAhead'
    <3>1. \A i \in Timer : timers[i].enabledAt \in Nat /\ timers[i].enabledAt <= cycle
      BY <1>0 DEF IInv, NotAhead, TimerRecord
    <3> QED
      BY <1>0, <2>1, <2>3, <3>1 DEF NotAhead
  <2> QED
    BY <2>5, <2>6, <2>7, <2>8 DEF IInv
<1>5. CASE SaveAndLoad
  <2>1. /\ timers' = [i \in Timer |->
             [counter |-> timers[i].counter, reload |-> timers[i].reload,
              control |-> timers[i].control, overflows |-> timers[i].overflows,
              delay |-> timers[i].delay, phase |-> timers[i].phase,
              enabledAt |-> IF timers[i].control.enable THEN cycle ELSE 0,
              justEnabled |-> timers[i].justEnabled]]
        /\ UNCHANGED <<cycle, writes>>
    BY <1>5 DEF SaveAndLoad, Loaded, Saved
  <2>2. \A i \in Timer : /\ timers'[i] \in TimerRecord
                         /\ timers'[i].control = timers[i].control
                         /\ timers'[i].enabledAt = IF timers[i].control.enable THEN cycle ELSE 0
                         /\ timers'[i].justEnabled = timers[i].justEnabled
                         /\ timers'[i].delay = timers[i].delay
    BY <1>0, <2>1 DEF TimerRecord
  <2>3. timers' \in [Timer -> TimerRecord]
    BY <2>1, <2>2
  <2> QED
    BY <1>0, <2>1, <2>2, <2>3
       DEF IInv, TypeOK, DelayAnchored, NoCountUp0, NotAhead, Enabled
<1>6. CASE UNCHANGED vars
  BY <1>6 DEF IInv, TypeOK, DelayAnchored, NoCountUp0, NotAhead, Enabled, vars
<1> QED
  BY <1>1, <1>2, <1>3, <1>4, <1>5, <1>6 DEF Next

LEMMA InductiveIInv == Spec => []IInv
<1>1. Init => IInv
  BY InitIInv
<1>2. IInv /\ [Next]_vars => IInv'
  BY NextIInv
<1> QED
  BY <1>1, <1>2, PTL DEF Spec

\* Type correctness: counters stay below the modulus whatever the window.
THEOREM TypeCorrect == Spec => []TypeOK
<1>1. IInv => TypeOK
  BY DEF IInv
<1> QED
  BY <1>1, InductiveIInv, PTL

\* A pending start delay is always anchored at the current cycle, which is
\* what load_state and the state hash assume when they drop the anchor.
THEOREM DelayIsAnchored == Spec => []DelayAnchored
<1>1. IInv => DelayAnchored
  BY DEF IInv
<1> QED
  BY <1>1, InductiveIInv, PTL

\* load_state accepts whatever save_state produced.
THEOREM SavedStatesLoad == Spec => []SavedIsAcceptable
<1>1. IInv => SavedIsAcceptable
  <2> SUFFICES ASSUME IInv, NEW i \in Timer
               PROVE  /\ i = 0 => ~Saved(timers, cycle).timers[i].control.countUp
                      /\ Saved(timers, cycle).timers[i].delay <= 1
                      /\ Saved(timers, cycle).timers[i].justEnabled
                           => Saved(timers, cycle).timers[i].control.enable
                      /\ Saved(timers, cycle).timers[i].delay # 0
                           => Saved(timers, cycle).timers[i].control.enable
    BY DEF SavedIsAcceptable, Acceptable
  <2>1. /\ Saved(timers, cycle).timers[i].control = timers[i].control
        /\ Saved(timers, cycle).timers[i].delay = timers[i].delay
        /\ Saved(timers, cycle).timers[i].justEnabled = timers[i].justEnabled
    BY DEF Saved
  <2>2. timers[i].delay \in {0, 1}
    BY DEF IInv, TypeOK, TimerRecord
  <2> QED
    BY <2>1, <2>2 DEF IInv, DelayAnchored, NoCountUp0, Enabled
<1> QED
  BY <1>1, InductiveIInv, PTL

---------------------------------------------------------------------------
(* Restoring a save state loses the cycle at which a timer was enabled, and  *)
(* nothing depends on it: a pending delay is anchored at the present cycle,  *)
(* and without one every later cycle is after it.                            *)

\* Two timers that differ in where they were enabled at most, and not at all
\* if a start delay is pending.
Twin(t, u, at) ==
  /\ t \in TimerRecord /\ u \in TimerRecord
  /\ u.counter = t.counter /\ u.reload = t.reload /\ u.control = t.control
  /\ u.overflows = t.overflows /\ u.delay = t.delay /\ u.phase = t.phase
  /\ u.justEnabled = t.justEnabled
  /\ Enabled(t) => \/ u.enabledAt = t.enabledAt
                   \/ t.delay = 0 /\ t.enabledAt <= at /\ u.enabledAt <= at

Twins(a, b, at) ==
  /\ a \in [Timer -> TimerRecord] /\ b \in [Timer -> TimerRecord]
  /\ \A i \in Timer : Twin(a[i], b[i], at)

LEMMA TwinOverflows ==
  ASSUME NEW t, NEW u, NEW at, Twin(t, u, at), NEW S
  PROVE  OverflowsAt(u, S) = OverflowsAt(t, S)
BY DEF Twin, OverflowsAt

LEMMA TwinTicksOf ==
  ASSUME NEW at \in Nat, NEW n \in Nat, NEW fed \in SUBSET (at + 1 .. at + n),
         NEW t, NEW u, Twin(t, u, at)
  PROVE  TicksOf(u, fed, at, n) = TicksOf(t, fed, at, n)
<1>1. /\ Enabled(u) <=> Enabled(t)
      /\ u.control = t.control /\ u.delay = t.delay
  BY DEF Twin, Enabled
<1>2. PrescalerTicks(u, at, n) = PrescalerTicks(t, at, n)
  BY <1>1 DEF PrescalerTicks
<1>3. Enabled(t) => {c \in fed : c > u.enabledAt + u.delay} = {c \in fed : c > t.enabledAt + t.delay}
  <2> SUFFICES ASSUME Enabled(t), NEW c \in fed
               PROVE  c > u.enabledAt + u.delay <=> c > t.enabledAt + t.delay
    OBVIOUS
  <2>1. CASE u.enabledAt = t.enabledAt
    BY <1>1, <2>1
  <2>2. CASE t.delay = 0 /\ t.enabledAt <= at /\ u.enabledAt <= at
    <3>1. c \in at + 1 .. at + n /\ t.enabledAt \in Nat /\ u.enabledAt \in Nat /\ u.delay = 0
      BY <1>1, <2>2 DEF Twin, TimerRecord
    <3>2. c > u.enabledAt + 0 /\ c > t.enabledAt + 0
      BY <2>2, <3>1
    <3> QED
      BY <2>2, <3>1, <3>2
  <2> QED
    BY <2>1, <2>2 DEF Twin
<1> QED
  BY <1>1, <1>2, <1>3 DEF TicksOf

\* A timer p and its twin q, fed by a timer t and its twin u.
LEMMA TwinCascade ==
  ASSUME NEW at \in Nat, NEW n \in Nat, NEW t, NEW u, Twin(t, u, at),
         NEW p, NEW q, Twin(p, q, at), NEW S, S \subseteq at + 1 .. at + n
  PROVE  /\ TicksOf(q, OverflowsAt(u, S), at, n) = TicksOf(p, OverflowsAt(t, S), at, n)
         /\ TicksOf(p, OverflowsAt(t, S), at, n) \subseteq at + 1 .. at + n
<1> DEFINE fed == OverflowsAt(t, S)
<1>1. OverflowsAt(u, S) = fed
  BY TwinOverflows
<1>2. fed \subseteq at + 1 .. at + n
  BY OverflowsAreTicks
<1> HIDE DEF fed
<1>3. TicksOf(q, fed, at, n) = TicksOf(p, fed, at, n)
  <2>1. fed \in SUBSET (at + 1 .. at + n)
    BY <1>2
  <2> QED
    BY <2>1, TwinTicksOf
<1>4. TicksOf(p, fed, at, n) \subseteq at + 1 .. at + n
  <2>1. p \in TimerRecord
    BY DEF Twin
  <2> QED
    BY <1>2, <2>1, TicksOfInWindow
<1> QED
  BY <1>1, <1>3, <1>4 DEF fed

LEMMA TwinsTicks ==
  ASSUME NEW at \in Nat, NEW n \in Nat, NEW a, NEW b, Twins(a, b, at)
  PROVE  Ticks(b, at, n) = Ticks(a, at, n)
<1> DEFINE a0 == TicksOf(a[0], {}, at, n)
           a1 == TicksOf(a[1], OverflowsAt(a[0], a0), at, n)
           a2 == TicksOf(a[2], OverflowsAt(a[1], a1), at, n)
           a3 == TicksOf(a[3], OverflowsAt(a[2], a2), at, n)
           b0 == TicksOf(b[0], {}, at, n)
           b1 == TicksOf(b[1], OverflowsAt(b[0], b0), at, n)
           b2 == TicksOf(b[2], OverflowsAt(b[1], b1), at, n)
           b3 == TicksOf(b[3], OverflowsAt(b[2], b2), at, n)
           window == at + 1 .. at + n
<1>0. /\ Twin(a[0], b[0], at) /\ Twin(a[1], b[1], at)
      /\ Twin(a[2], b[2], at) /\ Twin(a[3], b[3], at)
  BY DEF Twins, Timer, TimerCount
<1>1. Ticks(a, at, n)
        = [j \in Timer |-> IF j = 0 THEN a0 ELSE IF j = 1 THEN a1 ELSE IF j = 2 THEN a2 ELSE a3]
  BY DEF Ticks
<1>2. Ticks(b, at, n)
        = [j \in Timer |-> IF j = 0 THEN b0 ELSE IF j = 1 THEN b1 ELSE IF j = 2 THEN b2 ELSE b3]
  BY DEF Ticks
<1>3. b0 = a0 /\ a0 \subseteq window
  BY <1>0, TwinTicksOf, TicksOfInWindow DEF Twin
<1>4. b1 = a1 /\ a1 \subseteq window
  <2> HIDE DEF a0, b0
  <2>1. TicksOf(b[1], OverflowsAt(b[0], a0), at, n) = a1 /\ a1 \subseteq window
    BY <1>0, <1>3, TwinCascade
  <2> QED
    BY <1>3, <2>1
<1>5. b2 = a2 /\ a2 \subseteq window
  <2> HIDE DEF a1, b1
  <2>1. TicksOf(b[2], OverflowsAt(b[1], a1), at, n) = a2 /\ a2 \subseteq window
    BY <1>0, <1>4, TwinCascade
  <2> QED
    BY <1>4, <2>1
<1>6. b3 = a3
  <2> HIDE DEF a2, b2
  <2>1. TicksOf(b[3], OverflowsAt(b[2], a2), at, n) = a3 /\ a3 \subseteq window
    BY <1>0, <1>5, TwinCascade
  <2> QED
    BY <1>5, <2>1
<1> HIDE DEF a0, a1, a2, a3, b0, b1, b2, b3
<1> QED
  BY <1>1, <1>2, <1>3, <1>4, <1>5, <1>6

\* What save_state keeps of a timer.
Fields(t) ==
  [counter |-> t.counter, reload |-> t.reload, control |-> t.control,
   overflows |-> t.overflows, delay |-> t.delay, phase |-> t.phase,
   justEnabled |-> t.justEnabled]

LEMMA TwinAdvance ==
  ASSUME NEW t, NEW u, NEW at, Twin(t, u, at), NEW S, NEW n
  PROVE  Fields(Advance(u, S, n)) = Fields(Advance(t, S, n))
<1>1. OverflowsAt(u, S) = OverflowsAt(t, S)
  BY TwinOverflows
<1>2. Enabled(u) <=> Enabled(t)
  BY DEF Twin, Enabled
<1> DEFINE k == Cardinality(S)
           toOverflow == Modulus - t.counter
           c == IF k < toOverflow THEN t.counter + k
                ELSE t.reload + ((k - toOverflow) % (Modulus - t.reload))
           o == t.overflows + Cardinality(OverflowsAt(t, S))
           d == IF Enabled(t) THEN t.delay - Min2(t.delay, n) ELSE t.delay
<1>3. Advance(t, S, n)
        = [t EXCEPT !.counter = c, !.overflows = o, !.delay = d, !.justEnabled = FALSE]
  BY DEF Advance
<1>4. Advance(u, S, n)
        = [u EXCEPT !.counter = c, !.overflows = o, !.delay = d, !.justEnabled = FALSE]
  BY <1>1, <1>2 DEF Advance, Twin
<1> HIDE DEF c, o, d
<1> QED
  BY <1>3, <1>4, ZenonT(60) DEF Twin, TimerRecord, Fields

LEMMA TwinsTransparent ==
  ASSUME NEW at \in Nat, NEW n \in Nat, NEW a, NEW b, Twins(a, b, at)
  PROVE  /\ Observed(Ticked(b, at, n)) = Observed(Ticked(a, at, n))
         /\ Requests(b, at, n) = Requests(a, at, n)
<1>1. Ticks(b, at, n) = Ticks(a, at, n)
  BY TwinsTicks
<1>2. ASSUME NEW ts PROVE Observed(ts) = [i \in Timer |-> Fields(ts[i])]
  BY DEF Observed, Saved, Fields
<1>3. \A i \in Timer : Fields(Ticked(b, at, n)[i]) = Fields(Ticked(a, at, n)[i])
  <2> TAKE i \in Timer
  <2>1. Twin(a[i], b[i], at)
    BY DEF Twins
  <2>2. CASE n = 0
    BY <2>1, <2>2 DEF Ticked, Twin, Fields
  <2>3. CASE n # 0
    <3> DEFINE S == Ticks(a, at, n)[i]
    <3>1. Ticked(b, at, n)[i] = Advance(b[i], S, n) /\ Ticked(a, at, n)[i] = Advance(a[i], S, n)
      BY <1>1, <2>3 DEF Ticked
    <3> HIDE DEF S
    <3> QED
      BY <2>1, <3>1, TwinAdvance
  <2> QED
    BY <2>2, <2>3
<1>4. Observed(Ticked(b, at, n)) = Observed(Ticked(a, at, n))
  BY <1>2, <1>3
<1>5. Requests(b, at, n) = Requests(a, at, n)
  <2> DEFINE S(i) == Ticks(a, at, n)[i]
  <2>1. {j \in Timer : b[j].control.irq} = {j \in Timer : a[j].control.irq}
    BY DEF Twins, Twin
  <2>2. \A i \in Timer : OverflowsAt(b[i], S(i)) = OverflowsAt(a[i], S(i))
    BY TwinOverflows DEF Twins
  <2> QED
    BY <1>1, <2>1, <2>2 DEF Requests
<1> QED
  BY <1>4, <1>5

\* load_state drops the cycle a timer was enabled at, and no later window, with
\* or without a deferral before it, shows it: counters, overflow counts and
\* interrupt requests are those of the run that was not restored.
THEOREM RestoresAreTransparent == Spec => []RestoreIsTransparent
<1>1. IInv => RestoreIsTransparent
  <2> SUFFICES ASSUME IInv PROVE RestoreIsTransparent
    OBVIOUS
  <2> DEFINE restored == Loaded(Saved(timers, cycle))
  <2>1. timers \in [Timer -> TimerRecord] /\ cycle \in Nat
    BY DEF IInv, TypeOK
  <2>2. restored = [i \in Timer |->
             [counter |-> timers[i].counter, reload |-> timers[i].reload,
              control |-> timers[i].control, overflows |-> timers[i].overflows,
              delay |-> timers[i].delay, phase |-> timers[i].phase,
              enabledAt |-> IF timers[i].control.enable THEN cycle ELSE 0,
              justEnabled |-> timers[i].justEnabled]]
    BY DEF Loaded, Saved
  <2> HIDE DEF restored
  <2>3. \A i \in Timer : /\ Twin(timers[i], restored[i], cycle)
                         /\ timers[i].justEnabled => restored[i].enabledAt = timers[i].enabledAt
    <3> TAKE i \in Timer
    <3>1. timers[i] \in TimerRecord /\ timers[i].enabledAt <= cycle
      BY <2>1 DEF IInv, NotAhead
    <3>2. timers[i].delay # 0 \/ timers[i].justEnabled
            => Enabled(timers[i]) /\ timers[i].enabledAt = cycle
      BY DEF IInv, DelayAnchored
    <3>3. restored[i] \in TimerRecord
      BY <2>1, <2>2, <3>1 DEF TimerRecord
    <3>4. Enabled(timers[i]) => restored[i].enabledAt = cycle
      BY <2>2 DEF Enabled
    <3> QED
      BY <2>1, <2>2, <3>1, <3>2, <3>3, <3>4 DEF Twin
  <2>4. restored \in [Timer -> TimerRecord]
    BY <2>2, <2>3 DEF Twin
  <2>5. Twins(timers, restored, cycle)
    BY <2>1, <2>3, <2>4 DEF Twins
  <2>6. Twins(Deferred(timers), Deferred(restored), cycle)
    <3>1. \A i \in Timer : Twin(Deferred(timers)[i], Deferred(restored)[i], cycle)
      <4> TAKE i \in Timer
      <4>1. Twin(timers[i], restored[i], cycle) /\ restored[i].justEnabled = timers[i].justEnabled
        BY <2>3 DEF Twin
      <4>2. CASE ~timers[i].justEnabled
        BY <4>1, <4>2 DEF Deferred
      <4>3. CASE timers[i].justEnabled
        <5>1. /\ Deferred(timers)[i] = [timers[i] EXCEPT !.delay = 1]
              /\ Deferred(restored)[i] = [restored[i] EXCEPT !.delay = 1]
          BY <4>1, <4>3 DEF Deferred
        <5>2. restored[i].enabledAt = timers[i].enabledAt
          BY <2>3, <4>3
        <5> QED
          BY <4>1, <5>1, <5>2 DEF Twin, TimerRecord, Enabled
      <4> QED
        BY <4>2, <4>3
    <3>2. /\ Deferred(timers) \in [Timer -> TimerRecord]
          /\ Deferred(restored) \in [Timer -> TimerRecord]
      BY <3>1 DEF Deferred, Twin
    <3> QED
      BY <3>1, <3>2 DEF Twins
  <2>7. ASSUME NEW n \in 0 .. MaxTick, NEW live \in {timers, Deferred(timers)}
        PROVE  LET back == IF live = timers THEN restored ELSE Deferred(restored)
               IN /\ Observed(Ticked(back, cycle, n)) = Observed(Ticked(live, cycle, n))
                  /\ Requests(back, cycle, n) = Requests(live, cycle, n)
    <3> DEFINE back == IF live = timers THEN restored ELSE Deferred(restored)
    <3>1. n \in Nat
      BY BoundsAssumption
    <3>2. Twins(live, back, cycle)
      BY <2>5, <2>6
    <3> HIDE DEF back
    <3>3. /\ Observed(Ticked(back, cycle, n)) = Observed(Ticked(live, cycle, n))
          /\ Requests(back, cycle, n) = Requests(live, cycle, n)
      BY <2>1, <3>1, <3>2, TwinsTransparent
    <3> QED
      BY <3>3 DEF back
  <2> QED
    BY <2>7 DEF RestoreIsTransparent, restored
<1> QED
  BY <1>1, InductiveIInv, PTL

---------------------------------------------------------------------------
(* The horizon of a wait. A free-running timer is K + 1 prescaler ticks from *)
(* overflowing, K = Modulus - counter - 1, and a window shorter than         *)
(* OverflowDistance holds at most K multiples of its divisor; a cascade      *)
(* overflows only when the free-running timer at its root does.              *)

LEMMA MultiplesOrder ==
  ASSUME NEW D \in Nat \ {0}, NEW m \in Nat, NEW p \in Nat, m * D < p * D
  PROVE  m < p
<1> SUFFICES ASSUME m >= p PROVE FALSE
  OBVIOUS
<1>1. (m - p) * D >= 0
  OBVIOUS
<1>2. (m - p) * D = m * D - p * D
  OBVIOUS
<1> QED
  BY <1>1, <1>2

\* Division with remainder by a prescaler's divisor.
LEMMA QuotientFacts ==
  ASSUME NEW D \in Nat \ {0}, NEW c \in Nat
  PROVE  /\ c \div D \in Nat
         /\ c % D \in 0 .. D - 1
         /\ c = (c \div D) * D + (c % D)
<1>1. D \in Int /\ D > 0 /\ c \in Int
  OBVIOUS
<1>2. c = D * (c \div D) + (c % D)
  BY <1>1, Z3
<1>3. c % D \in 0 .. D - 1
  OBVIOUS
<1>4. c \div D \in Int /\ c \div D >= 0
  OBVIOUS
<1> DEFINE q == c \div D
           r == c % D
<1> HIDE DEF q, r
<1>5. q \in Int /\ r \in Int /\ c = D * q + r
  BY <1>2, <1>3, <1>4 DEF q, r
<1>6. c = q * D + r
  BY <1>5
<1>7. c \div D \in Nat
  BY <1>4
<1> QED
  BY <1>3, <1>6, <1>7, Zenon DEF q, r

\* A nonempty set of natural numbers has a least element.
LEMMA Least ==
  ASSUME NEW S \in SUBSET Nat, S # {}
  PROVE  \E x \in S : \A y \in S : x <= y
<1> DEFINE R == {ss \in Nat \X Nat : ss[1] < ss[2]}
<1>1. IsWellFoundedOn(R, Nat)
  BY NatLessThanWellFounded DEF OpToRel
<1> HIDE DEF R
<1>2. PICK x \in S : \A y \in S : ~(<<y, x>> \in R)
  BY <1>1, WFMin
<1>3. \A y \in S : x <= y
  <2> TAKE y \in S
  <2>1. x \in Nat /\ y \in Nat
    OBVIOUS
  <2>2. ~(y < x)
    <3>1. ~(<<y, x>> \in R)
      BY <1>2
    <3>2. <<y, x>> \in Nat \X Nat
      BY <2>1
    <3> QED
      BY <3>1, <3>2 DEF R
  <2> QED
    BY <2>1, <2>2
<1> QED
  BY <1>3

\* The multiples of a divisor among the cycles after `at` and before the
\* (K + 1)-st multiple number at most K.
LEMMA FewMultiples ==
  ASSUME NEW D \in Nat \ {0}, NEW at \in Nat, NEW K \in Nat, NEW n \in Nat,
         at + n < (at \div D + 1 + K) * D,
         NEW S \in SUBSET (at + 1 .. at + n), \A c \in S : c % D = 0
  PROVE  IsFiniteSet(S) /\ Cardinality(S) <= K
<1> DEFINE q == at \div D
           r == at % D
           f == [c \in S |-> c \div D]
<1>1. q \in Nat /\ r \in 0 .. D - 1 /\ at = q * D + r
  BY QuotientFacts
<1>2. at + n < (q + 1 + K) * D
  OBVIOUS
<1> HIDE DEF q, r
<1>3. \A c \in S : /\ c \in Nat /\ c > at /\ c <= at + n
                   /\ c \div D \in Nat /\ c = (c \div D) * D
  <2> TAKE c \in S
  <2>1. c \in Nat /\ c > at /\ c <= at + n
    OBVIOUS
  <2>2. c \div D \in Nat /\ c = (c \div D) * D + (c % D)
    BY <2>1, QuotientFacts
  <2>3. (c \div D) * D \in Nat /\ c % D = 0
    BY <2>2
  <2> QED
    BY <2>1, <2>2, <2>3
<1>4. \A c \in S : c \div D \in q + 1 .. q + K
  <2> TAKE c \in S
  <2> DEFINE m == c \div D
  <2>1. m \in Nat /\ c \in Nat /\ c = m * D /\ c > at /\ c <= at + n
    BY <1>3
  <2> HIDE DEF m
  <2>2. q * D < m * D /\ m * D < (q + 1 + K) * D
    <3>1. q * D \in Nat /\ m * D \in Nat /\ (q + 1 + K) * D \in Nat
      BY <1>1, <2>1
    <3> QED
      BY <1>1, <1>2, <2>1, <3>1
  <2>3. q < m
    BY <1>1, <2>1, <2>2, MultiplesOrder
  <2>4. m < q + 1 + K
    <3>1. q + 1 + K \in Nat
      BY <1>1
    <3> QED
      BY <2>1, <2>2, <3>1, MultiplesOrder
  <2>5. m \in q + 1 .. q + K
    BY <1>1, <2>1, <2>3, <2>4
  <2> QED
    BY <2>5 DEF m
<1>5. f \in Injection(S, q + 1 .. q + K)
  <2>1. f \in [S -> q + 1 .. q + K]
    BY <1>4
  <2>2. \A c, d \in S : f[c] = f[d] => c = d
    <3> SUFFICES ASSUME NEW c \in S, NEW d \in S, c \div D = d \div D PROVE c = d
      OBVIOUS
    <3> QED
      BY <1>3
  <2> QED
    BY <2>1, <2>2 DEF Injection, IsInjective
<1>6. IsFiniteSet(q + 1 .. q + K) /\ Cardinality(q + 1 .. q + K) = K
  <2>1. q + 1 \in Int /\ q + K \in Int
    BY <1>1
  <2>2. /\ IsFiniteSet(q + 1 .. q + K)
        /\ Cardinality(q + 1 .. q + K) = IF q + 1 > q + K THEN 0 ELSE (q + K) - (q + 1) + 1
    BY <2>1, FS_Interval
  <2> QED
    BY <1>1, <2>2
<1> HIDE DEF f
<1> QED
  BY <1>5, <1>6, FS_Injection

\* A free-running timer does not overflow in a window shorter than its distance.
LEMMA NoOverflowBeforeDistance ==
  ASSUME NEW t \in TimerRecord, NEW at \in Nat, NEW n \in Nat,
         n < OverflowDistance(t, at)
  PROVE  OverflowsAt(t, PrescalerTicks(t, at, n)) = {}
<1> DEFINE D == Divisors[t.control.prescaler]
           K == Modulus - t.counter - 1
           S == PrescalerTicks(t, at, n)
           q == at \div D
           r == at % D
<1>1. D \in Nat \ {0} /\ K \in Nat /\ t.counter \in 0 .. Modulus - 1 /\ t.delay \in {0, 1}
  BY DivisorAssumption, ModulusAssumption DEF TimerRecord, Control
<1>2. S \in SUBSET (at + 1 .. at + n) /\ \A c \in S : c % D = 0
  <2>1. Min2(t.delay, n) \in Nat
    BY <1>1 DEF Min2
  <2> QED
    BY <2>1 DEF PrescalerTicks
<1>3. n < (IF t.delay # 0 THEN 0 ELSE D - r) + K * D
  BY DEF OverflowDistance, UntilTick
<1> HIDE DEF D, K, S
<1>4. q \in Nat /\ r \in 0 .. D - 1 /\ at = q * D + r
  BY <1>1, QuotientFacts
<1>5. at + n < (q + 1 + K) * D
  <2> HIDE DEF q, r
  <2>1. (q + 1 + K) * D = q * D + D + K * D
    BY <1>1, <1>4
  <2>2. q * D \in Nat /\ K * D \in Nat
    BY <1>1, <1>4
  <2> DEFINE x == q * D
             y == K * D
  <2>3. x \in Nat /\ y \in Nat /\ at = x + r
    BY <1>4, <2>2
  <2>4. n < (IF t.delay # 0 THEN 0 ELSE D - r) + y
    BY <1>3
  <2> HIDE DEF x, y
  <2>5. at + n < x + D + y
    BY <1>1, <1>4, <2>3, <2>4
  <2> QED
    BY <2>1, <2>5 DEF x, y
<1>6. IsFiniteSet(S) /\ Cardinality(S) <= K
  BY <1>1, <1>2, <1>5, FewMultiples
<1>7. ASSUME NEW c \in S
      PROVE  ~(Cardinality({d \in S : d <= c}) - (Modulus - t.counter) >= 0)
  <2> DEFINE T == {d \in S : d <= c}
  <2>1. T \in SUBSET S
    OBVIOUS
  <2> HIDE DEF T
  <2>2. Cardinality(T) <= Cardinality(S) /\ Cardinality(T) \in Nat /\ Cardinality(S) \in Nat
    BY <1>6, <2>1, FS_Subset, FS_CardinalityType
  <2>3. Cardinality(T) <= Modulus - t.counter - 1
    BY <1>1, <1>6, <2>2 DEF K
  <2>4. ~(Cardinality(T) - (Modulus - t.counter) >= 0)
    BY <1>1, <2>2, <2>3, ModulusAssumption
  <2> QED
    BY <2>4 DEF T
<1>8. OverflowsAt(t, S) = {}
  BY <1>7 DEF OverflowsAt
<1> QED
  BY <1>8 DEF S

\* A timer fed nothing overflows only if it runs freely and does.
LEMMA QuietTimer ==
  ASSUME NEW t, NEW at, NEW n,
         Enabled(t) /\ ~t.control.countUp => OverflowsAt(t, PrescalerTicks(t, at, n)) = {}
  PROVE  OverflowsAt(t, TicksOf(t, {}, at, n)) = {}
<1>1. OverflowsAt(t, {}) = {}
  BY OverflowsAreTicks
<1> QED
  BY <1>1 DEF TicksOf

\* If no free-running timer up to k overflows in a window, neither does any
\* timer up to k that they could feed.
LEMMA QuietCascade ==
  ASSUME NEW ts, NEW at, NEW n, NEW k \in Timer,
         \A j \in Timer : j <= k /\ Enabled(ts[j]) /\ ~ts[j].control.countUp
                            => OverflowsAt(ts[j], PrescalerTicks(ts[j], at, n)) = {}
  PROVE  OverflowsAt(ts[k], Ticks(ts, at, n)[k]) = {}
<1> DEFINE t0 == TicksOf(ts[0], {}, at, n)
           t1 == TicksOf(ts[1], OverflowsAt(ts[0], t0), at, n)
           t2 == TicksOf(ts[2], OverflowsAt(ts[1], t1), at, n)
           t3 == TicksOf(ts[3], OverflowsAt(ts[2], t2), at, n)
           Quiet(j) == OverflowsAt(ts[j], TicksOf(ts[j], {}, at, n)) = {}
<1>1. \A j \in Timer : j <= k => Quiet(j)
  BY QuietTimer
<1>2. Ticks(ts, at, n)
        = [j \in Timer |-> IF j = 0 THEN t0 ELSE IF j = 1 THEN t1 ELSE IF j = 2 THEN t2 ELSE t3]
  BY DEF Ticks
<1>3. k \in {0, 1, 2, 3}
  BY DEF Timer, TimerCount
<1>4. OverflowsAt(ts[0], t0) = {}
  <2>1. 0 \in Timer /\ 0 <= k
    BY <1>3 DEF Timer, TimerCount
  <2> QED
    BY <1>1, <2>1
<1>5. k >= 1 => OverflowsAt(ts[1], t1) = {}
  <2> SUFFICES ASSUME k >= 1 PROVE OverflowsAt(ts[1], t1) = {}
    OBVIOUS
  <2>1. 1 \in Timer
    BY DEF Timer, TimerCount
  <2>2. Quiet(1)
    BY <1>1, <2>1
  <2> HIDE DEF t0
  <2> QED
    BY <1>4, <2>2
<1>6. k >= 2 => OverflowsAt(ts[2], t2) = {}
  <2> SUFFICES ASSUME k >= 2 PROVE OverflowsAt(ts[2], t2) = {}
    OBVIOUS
  <2>1. 2 \in Timer /\ k >= 1
    BY <1>3 DEF Timer, TimerCount
  <2>2. Quiet(2)
    BY <1>1, <2>1
  <2> HIDE DEF t1
  <2> QED
    BY <1>5, <2>1, <2>2
<1>7. k >= 3 => OverflowsAt(ts[3], t3) = {}
  <2> SUFFICES ASSUME k >= 3 PROVE OverflowsAt(ts[3], t3) = {}
    OBVIOUS
  <2>1. 3 \in Timer /\ k >= 2
    BY <1>3 DEF Timer, TimerCount
  <2>2. Quiet(3)
    BY <1>1, <2>1
  <2> HIDE DEF t2
  <2> QED
    BY <1>6, <2>1, <2>2
<1> HIDE DEF t0, t1, t2, t3
<1> QED
  BY <1>2, <1>3, <1>4, <1>5, <1>6, <1>7

LEMMA RequestsAreOverflows ==
  ASSUME NEW ts, NEW at, NEW n, NEW q \in Requests(ts, at, n)
  PROVE  q[1] \in Timer /\ OverflowsAt(ts[q[1]], Ticks(ts, at, n)[q[1]]) # {}
BY DEF Requests

LEMMA DistanceType ==
  ASSUME NEW t \in TimerRecord, NEW at \in Nat
  PROVE  OverflowDistance(t, at) \in Nat
<1> DEFINE D == Divisors[t.control.prescaler]
           K == Modulus - t.counter - 1
           u == UntilTick(t, at)
<1>1. D \in Nat \ {0} /\ K \in Nat
  BY DivisorAssumption, ModulusAssumption DEF TimerRecord, Control
<1>2. at % D \in 0 .. D - 1
  BY <1>1
<1>3. u \in Nat
  BY <1>1, <1>2 DEF UntilTick
<1> HIDE DEF D, K, u
<1>4. K * D \in Nat
  BY <1>1
<1>5. u + K * D \in Nat
  BY <1>3, <1>4
<1> QED
  BY <1>5 DEF OverflowDistance, D, K, u

\* intr_wait_timer_horizon_cycles misses no timer: it is positive, and in fewer
\* cycles than it allows no watched timer, free-running or at the end of a
\* cascade, requests its interrupt.
THEOREM WaitsMissNoTimer == Spec => []HorizonStopsAtOverflow
<1>1. IInv => HorizonStopsAtOverflow
  <2> SUFFICES ASSUME IInv, NEW watched \in SUBSET Programmed
               PROVE  LET h == TimerHorizon(timers, cycle, watched)
                      IN h > 0 /\ \A q \in Requests(timers, cycle, h - 1) : q[1] \notin watched
    BY DEF HorizonStopsAtOverflow
  <2> DEFINE distances == {OverflowDistance(timers[i], cycle) : i \in FreeRunning(timers)}
                            \cup {MaxTick}
             earliest == CHOOSE d \in distances : \A e \in distances : d <= e
             rooted == \E i \in watched, root \in FreeRunning(timers) : root <= i
             h == TimerHorizon(timers, cycle, watched)
  <2>1. timers \in [Timer -> TimerRecord] /\ cycle \in Nat /\ watched \subseteq Timer
    BY ProgrammedAssumption DEF IInv, TypeOK
  <2>2. MaxTick \in Nat \ {0}
    BY BoundsAssumption
  <2>3. distances \in SUBSET Nat /\ distances # {}
    BY <2>1, <2>2, DistanceType DEF FreeRunning
  <2>4. earliest \in distances /\ \A e \in distances : earliest <= e
    <3> HIDE DEF distances
    <3> QED
      BY <2>3, Least
  <2>5. h = IF rooted THEN IF earliest = 0 THEN 1 ELSE earliest ELSE MaxTick
    BY DEF TimerHorizon
  <2>6. \A j \in Timer : Enabled(timers[j]) /\ ~timers[j].control.countUp
                           => earliest <= OverflowDistance(timers[j], cycle)
    BY <2>4 DEF FreeRunning
  <2>7. earliest \in Nat
    BY <2>3, <2>4
  <2> HIDE DEF distances, earliest, rooted, h
  <2>8. h \in Nat /\ h > 0
    BY <2>2, <2>5, <2>7
  <2>9. ASSUME NEW q \in Requests(timers, cycle, h - 1), q[1] \in watched PROVE FALSE
    <3>1. /\ q[1] \in Timer
          /\ OverflowsAt(timers[q[1]], Ticks(timers, cycle, h - 1)[q[1]]) # {}
      BY RequestsAreOverflows
    <3>2. h - 1 \in Nat
      BY <2>8
    <3>3. CASE ~rooted
      <4>1. \A j \in Timer : ~(j <= q[1] /\ Enabled(timers[j]) /\ ~timers[j].control.countUp)
        BY <2>9, <3>3 DEF rooted, FreeRunning
      <4>2. OverflowsAt(timers[q[1]], Ticks(timers, cycle, h - 1)[q[1]]) = {}
        BY <3>1, <4>1, QuietCascade
      <4> QED
        BY <3>1, <4>2
    <3>4. CASE rooted /\ earliest = 0
      <4>1. h - 1 = 0
        BY <2>5, <3>4
      <4>2. Ticks(timers, cycle, 0)[q[1]] \subseteq cycle + 1 .. cycle + 0
        BY <2>1, <3>1, TicksInWindow
      <4>3. Ticks(timers, cycle, 0)[q[1]] = {}
        BY <2>1, <4>2
      <4> QED
        BY <3>1, <4>1, <4>3, OverflowsAreTicks
    <3>5. CASE rooted /\ earliest # 0
      <4>1. h - 1 < earliest
        BY <2>5, <2>7, <3>5
      <4>2. \A j \in Timer : Enabled(timers[j]) /\ ~timers[j].control.countUp
              => OverflowsAt(timers[j], PrescalerTicks(timers[j], cycle, h - 1)) = {}
        <5> SUFFICES ASSUME NEW j \in Timer, Enabled(timers[j]), ~timers[j].control.countUp
                     PROVE  OverflowsAt(timers[j], PrescalerTicks(timers[j], cycle, h - 1)) = {}
          OBVIOUS
        <5>1. timers[j] \in TimerRecord
          BY <2>1
        <5>2. OverflowDistance(timers[j], cycle) \in Nat
          BY <2>1, <5>1, DistanceType
        <5>3. h - 1 < OverflowDistance(timers[j], cycle)
          BY <2>6, <2>7, <3>2, <4>1, <5>2
        <5> QED
          BY <2>1, <3>2, <5>1, <5>3, NoOverflowBeforeDistance
      <4>3. OverflowsAt(timers[q[1]], Ticks(timers, cycle, h - 1)[q[1]]) = {}
        BY <3>1, <4>2, QuietCascade
      <4> QED
        BY <3>1, <4>3
    <3> QED
      BY <3>3, <3>4, <3>5
  <2> QED
    BY <2>8, <2>9 DEF h
<1> QED
  BY <1>1, InductiveIInv, PTL

---------------------------------------------------------------------------
(* Slicing a window. The first cycle increments a timer at most once, and    *)
(* what it leaves (the counter, or the reload value after an overflow) is    *)
(* what makes the rest of the window overflow where the whole one does.      *)

LEMMA SameRemainder ==
  ASSUME NEW R \in Nat \ {0}, NEW j \in Nat, j >= R
  PROVE  (j - R) % R = j % R
<1> DEFINE q == j \div R
           r == j % R
           k == j - R
           p == k \div R
           s == k % R
<1>1. q \in Nat /\ r \in 0 .. R - 1 /\ j = q * R + r
  BY QuotientFacts
<1>2. k \in Nat
  OBVIOUS
<1>3. p \in Nat /\ s \in 0 .. R - 1 /\ k = p * R + s
  <2> HIDE DEF k
  <2> QED
    BY <1>2, QuotientFacts
<1>4. j = k + R
  OBVIOUS
<1> HIDE DEF q, r, k, p, s
<1>5. (p + 1) * R = p * R + R /\ (p + 1) * R \in Nat /\ q * R \in Nat /\ p * R \in Nat
  BY <1>1, <1>3
<1>6. (p + 2) * R = p * R + R + R /\ (q + 1) * R = q * R + R
  BY <1>1, <1>3
<1>7. q < p + 2
  <2>1. q * R < (p + 2) * R
    BY <1>1, <1>3, <1>4, <1>5, <1>6
  <2>2. p + 2 \in Nat
    BY <1>3
  <2> QED
    BY <1>1, <2>1, <2>2, MultiplesOrder
<1>8. p + 1 < q + 1
  <2>1. (p + 1) * R < (q + 1) * R
    BY <1>1, <1>3, <1>4, <1>5, <1>6
  <2>2. p + 1 \in Nat /\ q + 1 \in Nat
    BY <1>1, <1>3
  <2> QED
    BY <2>1, <2>2, MultiplesOrder
<1>9. q = p + 1
  BY <1>1, <1>3, <1>7, <1>8
<1>10. r = s
  BY <1>1, <1>3, <1>4, <1>5, <1>9
<1> QED
  BY <1>10 DEF r, s, k

LEMMA SmallRemainder ==
  ASSUME NEW R \in Nat \ {0}, NEW j \in 0 .. R - 1
  PROVE  j % R = j
<1> DEFINE q == j \div R
           r == j % R
<1>0. j \in Nat
  OBVIOUS
<1>1. q \in Nat /\ r \in 0 .. R - 1 /\ j = q * R + r
  BY <1>0, QuotientFacts
<1> HIDE DEF q, r
<1>2. q * R < 1 * R
  BY <1>1
<1>3. q < 1
  BY <1>1, <1>2, MultiplesOrder
<1>4. q = 0
  BY <1>1, <1>3
<1>5. j = r
  BY <1>1, <1>4
<1> QED
  BY <1>5 DEF r

\* What k increments make of the counter of timer t.
CounterAfter(t, k) ==
  IF k < Modulus - t.counter THEN t.counter + k
  ELSE t.reload + ((k - (Modulus - t.counter)) % (Modulus - t.reload))

\* The k-th increment of timer t overflows.
OverflowsAtTick(t, k) ==
  k - (Modulus - t.counter) >= 0 /\ (k - (Modulus - t.counter)) % (Modulus - t.reload) = 0

LEMMA OverflowTicks ==
  ASSUME NEW t, NEW S
  PROVE  OverflowsAt(t, S) = {c \in S : OverflowsAtTick(t, Cardinality({d \in S : d <= c}))}
BY DEF OverflowsAt, OverflowsAtTick

\* One increment of t, which leaves u, and then k more.
LEMMA OneThenMore ==
  ASSUME NEW t \in TimerRecord, NEW u \in TimerRecord,
         u.reload = t.reload, u.counter = CounterAfter(t, 1), NEW k \in Nat
  PROVE  /\ CounterAfter(t, 1 + k) = CounterAfter(u, k)
         /\ k > 0 => (OverflowsAtTick(t, 1 + k) <=> OverflowsAtTick(u, k))
<1> DEFINE M == Modulus - t.counter
           R == Modulus - t.reload
<1>1. /\ t.counter \in 0 .. Modulus - 1 /\ t.reload \in 0 .. Modulus - 1 /\ Modulus \in Nat
      /\ M \in Nat \ {0} /\ R \in Nat \ {0}
  BY ModulusAssumption DEF TimerRecord
<1>2. CASE M > 1
  <2>1. u.counter = t.counter + 1 /\ Modulus - u.counter = M - 1
    BY <1>1, <1>2 DEF CounterAfter
  <2>2. 1 + k < M <=> k < M - 1
    BY <1>1
  <2>3. (1 + k) - M = k - (M - 1)
    BY <1>1
  <2>4. t.counter + (1 + k) = u.counter + k
    BY <1>1, <2>1
  <2>5. CounterAfter(t, 1 + k) = IF 1 + k < M THEN t.counter + (1 + k)
                                 ELSE t.reload + (((1 + k) - M) % R)
    BY DEF CounterAfter
  <2>6. CounterAfter(u, k) = IF k < M - 1 THEN u.counter + k
                             ELSE t.reload + ((k - (M - 1)) % R)
    BY <2>1 DEF CounterAfter
  <2>7. OverflowsAtTick(t, 1 + k) <=> (1 + k) - M >= 0 /\ ((1 + k) - M) % R = 0
    BY DEF OverflowsAtTick
  <2>8. OverflowsAtTick(u, k) <=> k - (M - 1) >= 0 /\ (k - (M - 1)) % R = 0
    BY <2>1 DEF OverflowsAtTick
  <2> HIDE DEF M, R
  <2> QED
    BY <2>2, <2>3, <2>4, <2>5, <2>6, <2>7, <2>8, Zenon
<1>3. CASE M = 1
  <2>1. 0 % R = 0
    BY <1>1, SmallRemainder
  <2>2. u.counter = t.reload
    <3>1. CounterAfter(t, 1) = t.reload + ((1 - M) % R)
      BY <1>1, <1>3 DEF CounterAfter
    <3>2. 1 - M = 0
      BY <1>1, <1>3
    <3> QED
      BY <1>1, <2>1, <3>1, <3>2
  <2>3. (1 + k) - M = k
    BY <1>3
  <2>4. CounterAfter(t, 1 + k) = t.reload + (k % R)
    <3>1. ~(1 + k < M)
      BY <1>3
    <3>2. CounterAfter(t, 1 + k) = IF 1 + k < M THEN t.counter + (1 + k)
                                   ELSE t.reload + (((1 + k) - M) % R)
      BY DEF CounterAfter
    <3> QED
      BY <2>3, <3>1, <3>2, Zenon
  <2>5. CounterAfter(u, k) = IF k < R THEN t.reload + k ELSE t.reload + ((k - R) % R)
    BY <2>2 DEF CounterAfter
  <2>6. OverflowsAtTick(t, 1 + k) <=> k >= 0 /\ k % R = 0
    <3>1. OverflowsAtTick(t, 1 + k) <=> (1 + k) - M >= 0 /\ ((1 + k) - M) % R = 0
      BY DEF OverflowsAtTick
    <3> QED
      BY <2>3, <3>1, Zenon
  <2>7. OverflowsAtTick(u, k) <=> k - R >= 0 /\ (k - R) % R = 0
    BY <2>2 DEF OverflowsAtTick
  <2> HIDE DEF M, R
  <2>8. CASE k < R
    <3>1. k % R = k
      BY <1>1, <2>8, SmallRemainder
    <3>2. ~(k - R >= 0)
      BY <1>1, <2>8
    <3>3. k > 0 => k # 0
      OBVIOUS
    <3> QED
      BY <2>4, <2>5, <2>6, <2>7, <2>8, <3>1, <3>2, <3>3, Zenon
  <2>9. CASE ~(k < R)
    <3>1. (k - R) % R = k % R
      <4>1. R \in Nat \ {0} /\ k \in Nat /\ k >= R
        BY <1>1, <2>9
      <4> QED
        BY <4>1, SameRemainder, Zenon
    <3>2. k - R >= 0 /\ k >= 0
      BY <1>1, <2>9
    <3> QED
      BY <2>4, <2>5, <2>6, <2>7, <2>9, <3>1, <3>2, Zenon
  <2> QED
    BY <2>8, <2>9
<1> QED
  BY <1>1, <1>2, <1>3

\* The same for the cycle a, at which t is incremented, and the cycles B after it.
LEMMA OverflowsAfter ==
  ASSUME NEW t \in TimerRecord, NEW u \in TimerRecord,
         u.reload = t.reload, u.counter = CounterAfter(t, 1),
         NEW a \in Nat, NEW B \in SUBSET Nat, IsFiniteSet(B), \A b \in B : a < b
  PROVE  /\ OverflowsAt(t, {a} \cup B) = OverflowsAt(t, {a}) \cup OverflowsAt(u, B)
         /\ Cardinality({a} \cup B) = 1 + Cardinality(B)
<1> DEFINE T == {a} \cup B
           upto(c) == {d \in B : d <= c}
<1>1. a \notin B
  OBVIOUS
<1>2. {d \in T : d <= a} = {a} /\ {d \in {a} : d <= a} = {a}
  <2>1. a <= a /\ \A d \in B : ~(d <= a)
    OBVIOUS
  <2> QED
    BY <2>1
<1>3. \A c \in B : /\ {d \in T : d <= c} = upto(c) \cup {a}
                   /\ IsFiniteSet(upto(c)) /\ Cardinality(upto(c)) \in Nat
                   /\ Cardinality(upto(c)) > 0
                   /\ Cardinality({d \in T : d <= c}) = 1 + Cardinality(upto(c))
  <2> TAKE c \in B
  <2> DEFINE U == upto(c)
  <2>1. {d \in T : d <= c} = U \cup {a}
    OBVIOUS
  <2>2. U \in SUBSET B /\ c \in U /\ a \notin U
    BY <1>1
  <2> HIDE DEF U
  <2>3. IsFiniteSet(U) /\ Cardinality(U) \in Nat
    BY <2>2, FS_Subset, FS_CardinalityType
  <2>4. Cardinality(U) # 0
    BY <2>2, <2>3, FS_EmptySet
  <2>5. Cardinality(U \cup {a}) = Cardinality(U) + 1
    BY <2>2, <2>3, FS_AddElement
  <2>6. Cardinality(U) > 0 /\ Cardinality(U \cup {a}) = 1 + Cardinality(U)
    BY <2>3, <2>4, <2>5
  <2> QED
    BY <2>1, <2>3, <2>6 DEF U
<1>4. Cardinality(T) = 1 + Cardinality(B)
  <2>1. Cardinality(B \cup {a}) = Cardinality(B) + 1 /\ Cardinality(B) \in Nat
    BY <1>1, FS_AddElement, FS_CardinalityType
  <2>2. T = B \cup {a}
    OBVIOUS
  <2> HIDE DEF T
  <2> QED
    BY <2>1, <2>2
<1>5. \A c \in B : OverflowsAtTick(t, Cardinality({d \in T : d <= c}))
                     <=> OverflowsAtTick(u, Cardinality(upto(c)))
  <2> TAKE c \in B
  <2> DEFINE k == Cardinality(upto(c))
  <2>1. k \in Nat /\ k > 0 /\ Cardinality({d \in T : d <= c}) = 1 + k
    BY <1>3
  <2> HIDE DEF k
  <2>2. OverflowsAtTick(t, 1 + k) <=> OverflowsAtTick(u, k)
    BY <2>1, OneThenMore
  <2> QED
    BY <2>1, <2>2 DEF k
<1>6. OverflowsAt(t, T) = {c \in T : OverflowsAtTick(t, Cardinality({d \in T : d <= c}))}
  BY OverflowTicks
<1>7. OverflowsAt(t, {a}) = {c \in {a} : OverflowsAtTick(t, Cardinality({d \in {a} : d <= c}))}
  BY OverflowTicks
<1>8. OverflowsAt(u, B) = {c \in B : OverflowsAtTick(u, Cardinality(upto(c)))}
  BY OverflowTicks
<1> DEFINE inT(c) == OverflowsAtTick(t, Cardinality({d \in T : d <= c}))
           inB(c) == OverflowsAtTick(u, Cardinality(upto(c)))
           inA(c) == OverflowsAtTick(t, Cardinality({d \in {a} : d <= c}))
<1>9. inT(a) <=> inA(a)
  BY <1>2
<1>10. \A c \in B : inT(c) <=> inB(c)
  BY <1>5
<1>11. OverflowsAt(t, T) = {c \in T : inT(c)} /\ OverflowsAt(t, {a}) = {c \in {a} : inA(c)}
       /\ OverflowsAt(u, B) = {c \in B : inB(c)}
  BY <1>6, <1>7, <1>8
<1> HIDE DEF inT, inB, inA
<1>12. OverflowsAt(t, T) = OverflowsAt(t, {a}) \cup OverflowsAt(u, B)
  BY <1>9, <1>10, <1>11
<1> QED
  BY <1>4, <1>12

\* What tick leaves of a timer, with the counter by name.
LEMMA AdvanceIs ==
  ASSUME NEW t, NEW S, NEW n
  PROVE  Advance(t, S, n)
           = [t EXCEPT !.counter = CounterAfter(t, Cardinality(S)),
                       !.overflows = t.overflows + Cardinality(OverflowsAt(t, S)),
                       !.delay = IF Enabled(t) THEN t.delay - Min2(t.delay, n) ELSE t.delay,
                       !.justEnabled = FALSE]
BY DEF Advance, CounterAfter

\* u is timer t after a window that incremented it at the cycles S.
Advanced(u, t, S) ==
  /\ u \in TimerRecord
  /\ u.counter = CounterAfter(t, Cardinality(S))
  /\ u.overflows = t.overflows + Cardinality(OverflowsAt(t, S))
  /\ u.delay = (IF Enabled(t) THEN 0 ELSE t.delay)
  /\ u.justEnabled = FALSE
  /\ u.control = t.control
  /\ u.reload = t.reload
  /\ u.phase = t.phase
  /\ u.enabledAt = t.enabledAt

LEMMA AdvanceFields ==
  ASSUME NEW t \in TimerRecord, NEW S, IsFiniteSet(S), NEW n \in Nat \ {0}
  PROVE  Advanced(Advance(t, S, n), t, S)
<1>1. AdvanceFacts(t, S, n)
  BY AdvanceType
<1> DEFINE c == CounterAfter(t, Cardinality(S))
           o == t.overflows + Cardinality(OverflowsAt(t, S))
           d == IF Enabled(t) THEN t.delay - Min2(t.delay, n) ELSE t.delay
<1>2. Advance(t, S, n)
        = [t EXCEPT !.counter = c, !.overflows = o, !.delay = d, !.justEnabled = FALSE]
  BY AdvanceIs
<1> HIDE DEF c, o, d
<1>3. /\ Advance(t, S, n).counter = c /\ Advance(t, S, n).overflows = o
      /\ Advance(t, S, n).justEnabled = FALSE /\ Advance(t, S, n).control = t.control
      /\ Advance(t, S, n).reload = t.reload /\ Advance(t, S, n).phase = t.phase
      /\ Advance(t, S, n).enabledAt = t.enabledAt
  BY <1>2 DEF TimerRecord
<1> QED
  BY <1>1, <1>3 DEF AdvanceFacts, Advanced, c, o

\* Timer records with the same fields are the same.
LEMMA SameTimer ==
  ASSUME NEW t \in TimerRecord, NEW u \in TimerRecord,
         t.counter = u.counter, t.reload = u.reload, t.control = u.control,
         t.overflows = u.overflows, t.delay = u.delay, t.phase = u.phase,
         t.enabledAt = u.enabledAt, t.justEnabled = u.justEnabled
  PROVE  t = u
BY DEF TimerRecord

LEMMA CounterAfterNone ==
  ASSUME NEW t \in TimerRecord
  PROVE  CounterAfter(t, 0) = t.counter
BY ModulusAssumption DEF CounterAfter, TimerRecord

\* A window of n cycles whose first cycle increments t at the cycles A and the
\* others at the cycles B does what the two do one after the other.
Resumes(t, A, B, n) ==
  /\ OverflowsAt(t, A \cup B) = OverflowsAt(t, A) \cup OverflowsAt(Advance(t, A, 1), B)
  /\ Advance(t, A \cup B, n) = Advance(Advance(t, A, 1), B, n - 1)

LEMMA SliceTimer ==
  ASSUME NEW t \in TimerRecord, NEW at \in Nat, NEW n \in Nat, n >= 2,
         NEW A \in SUBSET {at + 1}, NEW B \in SUBSET (at + 2 .. at + n)
  PROVE  Resumes(t, A, B, n)
<1> DEFINE u == Advance(t, A, 1)
           m == n - 1
<1>1. m \in Nat \ {0} /\ n \in Nat \ {0} /\ 1 \in Nat \ {0}
  OBVIOUS
<1>2. IsFiniteSet(A) /\ IsFiniteSet(B) /\ IsFiniteSet(A \cup B)
  <2>1. IsFiniteSet({at + 1}) /\ IsFiniteSet(at + 2 .. at + n)
    <3>1. at + 2 \in Int /\ at + n \in Int
      OBVIOUS
    <3> QED
      BY <3>1, FS_Singleton, FS_Interval
  <2>2. IsFiniteSet(A) /\ IsFiniteSet(B)
    BY <2>1, FS_Subset
  <2> QED
    BY <2>2, FS_Union
<1>3. Advanced(u, t, A)
  BY <1>1, <1>2, AdvanceFields
<1> HIDE DEF u, m
<1>4. /\ OverflowsAt(t, A \cup B) = OverflowsAt(t, A) \cup OverflowsAt(u, B)
      /\ CounterAfter(t, Cardinality(A \cup B)) = CounterAfter(u, Cardinality(B))
  <2>1. CASE A = {}
    <3>1. A \cup B = B /\ OverflowsAt(t, A) = {} /\ Cardinality(A) = 0
      BY <2>1, OverflowsAreTicks, FS_EmptySet
    <3>2. u.counter = t.counter
      BY <1>3, <3>1, CounterAfterNone DEF Advanced
    <3>3. OverflowsAt(u, B) = OverflowsAt(t, B)
      BY <1>3, <3>2 DEF OverflowsAt, Advanced
    <3>4. CounterAfter(u, Cardinality(B)) = CounterAfter(t, Cardinality(B))
      BY <1>3, <3>2 DEF CounterAfter, Advanced
    <3> QED
      BY <3>1, <3>3, <3>4
  <2>2. CASE A = {at + 1}
    <3> DEFINE a == at + 1
    <3>1. a \in Nat /\ B \in SUBSET Nat /\ \A b \in B : a < b
      OBVIOUS
    <3>2. A = {a} /\ Cardinality(A) = 1
      BY <2>2, FS_Singleton
    <3> HIDE DEF a
    <3>3. u.counter = CounterAfter(t, 1) /\ u \in TimerRecord /\ u.reload = t.reload
      BY <1>3, <3>2 DEF Advanced
    <3>4. /\ OverflowsAt(t, {a} \cup B) = OverflowsAt(t, {a}) \cup OverflowsAt(u, B)
          /\ Cardinality({a} \cup B) = 1 + Cardinality(B)
      BY <1>2, <3>1, <3>3, OverflowsAfter
    <3>5. Cardinality(B) \in Nat
      BY <1>2, FS_CardinalityType
    <3>6. CounterAfter(t, 1 + Cardinality(B)) = CounterAfter(u, Cardinality(B))
      BY <3>3, <3>5, OneThenMore
    <3> QED
      BY <3>2, <3>4, <3>6
  <2> QED
    BY <2>1, <2>2
<1>5. Cardinality(OverflowsAt(t, A \cup B))
        = Cardinality(OverflowsAt(t, A)) + Cardinality(OverflowsAt(u, B))
  <2> DEFINE X == OverflowsAt(t, A)
             Y == OverflowsAt(u, B)
  <2>1. X \in SUBSET A /\ Y \in SUBSET B
    BY OverflowsAreTicks
  <2> HIDE DEF X, Y
  <2>2. IsFiniteSet(X) /\ IsFiniteSet(Y) /\ X \cap Y = {}
    <3>1. A \cap B = {}
      OBVIOUS
    <3> QED
      BY <1>2, <2>1, <3>1, FS_Subset
  <2>3. /\ Cardinality(X \cup Y) = Cardinality(X) + Cardinality(Y) - Cardinality(X \cap Y)
        /\ Cardinality(X) \in Nat /\ Cardinality(Y) \in Nat /\ Cardinality(X \cap Y) = 0
    BY <2>2, FS_Union, FS_CardinalityType, FS_EmptySet
  <2>4. Cardinality(X \cup Y) = Cardinality(X) + Cardinality(Y)
    BY <2>3
  <2> QED
    BY <1>4, <2>4 DEF X, Y
<1>6. Advance(t, A \cup B, n) = Advance(u, B, m)
  <2> DEFINE v == Advance(t, A \cup B, n)
             w == Advance(u, B, m)
  <2>1. Advanced(v, t, A \cup B)
    BY <1>1, <1>2, AdvanceFields
  <2>2. Advanced(w, u, B)
    <3>1. u \in TimerRecord
      BY <1>3 DEF Advanced
    <3> QED
      BY <1>1, <1>2, <3>1, AdvanceFields
  <2> HIDE DEF v, w
  <2>3. v.overflows = w.overflows
    <3>1. /\ Cardinality(OverflowsAt(t, A)) \in Nat /\ Cardinality(OverflowsAt(u, B)) \in Nat
          /\ t.overflows \in Nat
      BY <1>2, OverflowsAreTicks, FS_Subset, FS_CardinalityType DEF TimerRecord
    <3> QED
      BY <1>3, <1>5, <2>1, <2>2, <3>1 DEF Advanced
  <2>4. v.delay = w.delay
    BY <1>3, <2>1, <2>2 DEF Enabled, Advanced
  <2>5. v = w
    BY <1>3, <1>4, <2>1, <2>2, <2>3, <2>4, SameTimer, ZenonT(60) DEF Advanced
  <2> QED
    BY <2>5 DEF v, w
<1> QED
  BY <1>4, <1>6 DEF u, m, Resumes

\* The ticks of a timer that is fed at F in the first cycle and at G after it:
\* u is the timer t after the first cycle.
LEMMA SliceTicksOf ==
  ASSUME NEW t \in TimerRecord, NEW u \in TimerRecord, NEW at \in Nat,
         t.enabledAt <= at, u.control = t.control, u.enabledAt = t.enabledAt,
         Enabled(t) => u.delay = 0, NEW n \in Nat, n >= 2,
         NEW F \in SUBSET {at + 1}, NEW G \in SUBSET (at + 2 .. at + n)
  PROVE  /\ TicksOf(t, F \cup G, at, n) = TicksOf(t, F, at, 1) \cup TicksOf(u, G, at + 1, n - 1)
         /\ TicksOf(t, F, at, 1) \in SUBSET {at + 1}
         /\ TicksOf(u, G, at + 1, n - 1) \in SUBSET (at + 2 .. at + n)
<1>1. Enabled(u) <=> Enabled(t)
  BY DEF Enabled
<1>2. t.delay \in {0, 1} /\ t.enabledAt \in Nat
  BY DEF TimerRecord
<1>3. CASE ~Enabled(t)
  BY <1>1, <1>3 DEF TicksOf
<1>4. CASE Enabled(t) /\ t.control.countUp
  <2>1. /\ TicksOf(t, F \cup G, at, n) = {c \in F \cup G : c > t.enabledAt + t.delay}
        /\ TicksOf(t, F, at, 1) = {c \in F : c > t.enabledAt + t.delay}
        /\ TicksOf(u, G, at + 1, n - 1) = {c \in G : c > t.enabledAt + 0}
    BY <1>1, <1>4 DEF TicksOf
  <2>2. \A c \in G : c > t.enabledAt + t.delay /\ c > t.enabledAt + 0
    BY <1>2
  <2>3. TicksOf(u, G, at + 1, n - 1) = {c \in G : c > t.enabledAt + t.delay}
    BY <2>1, <2>2
  <2> QED
    BY <2>1, <2>3
<1>5. CASE Enabled(t) /\ ~t.control.countUp
  <2> DEFINE D == Divisors[t.control.prescaler]
  <2>1. /\ TicksOf(t, F \cup G, at, n) = PrescalerTicks(t, at, n)
        /\ TicksOf(t, F, at, 1) = PrescalerTicks(t, at, 1)
        /\ TicksOf(u, G, at + 1, n - 1) = PrescalerTicks(u, at + 1, n - 1)
    BY <1>1, <1>5 DEF TicksOf
  <2>2. Min2(t.delay, n) = t.delay /\ Min2(t.delay, 1) = t.delay /\ Min2(u.delay, n - 1) = 0
    BY <1>2, <1>5 DEF Min2
  <2>3. /\ PrescalerTicks(t, at, n) = {c \in at + t.delay + 1 .. at + n : c % D = 0}
        /\ PrescalerTicks(t, at, 1) = {c \in at + t.delay + 1 .. at + 1 : c % D = 0}
        /\ PrescalerTicks(u, at + 1, n - 1)
             = {c \in (at + 1) + 0 + 1 .. (at + 1) + (n - 1) : c % D = 0}
    BY <2>2 DEF PrescalerTicks
  <2>4. /\ at + t.delay + 1 .. at + n = (at + t.delay + 1 .. at + 1) \cup (at + 2 .. at + n)
        /\ (at + 1) + 0 + 1 .. (at + 1) + (n - 1) = at + 2 .. at + n
        /\ at + t.delay + 1 .. at + 1 \subseteq {at + 1}
    <3> DEFINE x == at + 1
    <3>1. x \in Nat /\ at + n \in Nat /\ at + n > x
      OBVIOUS
    <3>2. CASE t.delay = 0
      BY <3>1, <3>2
    <3>3. CASE t.delay = 1
      BY <3>1, <3>3
    <3> QED
      BY <1>2, <3>2, <3>3
  <2> DEFINE W == at + t.delay + 1 .. at + n
             X == at + t.delay + 1 .. at + 1
             Y == at + 2 .. at + n
             Hit(c) == c % D = 0
  <2>5. /\ TicksOf(t, F \cup G, at, n) = {c \in W : Hit(c)}
        /\ TicksOf(t, F, at, 1) = {c \in X : Hit(c)}
        /\ TicksOf(u, G, at + 1, n - 1) = {c \in Y : Hit(c)}
        /\ W = X \cup Y /\ X \subseteq {at + 1}
    BY <2>1, <2>3, <2>4
  <2> HIDE DEF W, X, Hit
  <2>6. /\ {c \in W : Hit(c)} = {c \in X : Hit(c)} \cup {c \in Y : Hit(c)}
        /\ {c \in X : Hit(c)} \in SUBSET {at + 1}
        /\ {c \in Y : Hit(c)} \in SUBSET Y
    <3> HIDE DEF Y
    <3> QED
      BY <2>5
  <2> QED
    BY <2>5, <2>6
<1> QED
  BY <1>3, <1>4, <1>5

\* A timer p incremented at the cycles A in the first cycle of a window, at B in
\* the others and at T in all of it.
Sliced(p, A, B, T, at, n) ==
  /\ T = A \cup B
  /\ A \in SUBSET {at + 1} /\ B \in SUBSET (at + 2 .. at + n)
  /\ OverflowsAt(p, T) = OverflowsAt(p, A) \cup OverflowsAt(Advance(p, A, 1), B)
  /\ OverflowsAt(p, A) \in SUBSET {at + 1}
  /\ OverflowsAt(Advance(p, A, 1), B) \in SUBSET (at + 2 .. at + n)
  /\ Advance(p, T, n) = Advance(Advance(p, A, 1), B, n - 1)

LEMMA SliceStep ==
  ASSUME NEW at \in Nat, NEW n \in Nat, n >= 2,
         NEW F \in SUBSET {at + 1}, NEW G \in SUBSET (at + 2 .. at + n),
         NEW p \in TimerRecord, p.enabledAt <= at,
         NEW A, A = TicksOf(p, F, at, 1),
         NEW q, q = Advance(p, A, 1),
         NEW B, B = TicksOf(q, G, at + 1, n - 1),
         NEW T, T = TicksOf(p, F \cup G, at, n)
  PROVE  Sliced(p, A, B, T, at, n)
<1>1. A \subseteq at + 1 .. at + 1
  <2>1. F \subseteq at + 1 .. at + 1
    OBVIOUS
  <2> QED
    BY <2>1, TicksOfInWindow
<1>2. IsFiniteSet(A)
  BY <1>1, WindowFinite
<1>3. Advanced(q, p, A)
  BY <1>2, AdvanceFields
<1>4. /\ q \in TimerRecord /\ q.control = p.control /\ q.enabledAt = p.enabledAt
      /\ Enabled(p) => q.delay = 0
  BY <1>3 DEF Advanced
<1>5. T = A \cup B /\ A \in SUBSET {at + 1} /\ B \in SUBSET (at + 2 .. at + n)
  BY <1>4, SliceTicksOf
<1>6. /\ OverflowsAt(p, A \cup B) = OverflowsAt(p, A) \cup OverflowsAt(q, B)
      /\ Advance(p, A \cup B, n) = Advance(q, B, n - 1)
  <2>1. Resumes(p, A, B, n)
    BY <1>5, SliceTimer
  <2> QED
    BY <2>1 DEF Resumes
<1>7. OverflowsAt(p, A) \subseteq A /\ OverflowsAt(q, B) \subseteq B
  BY OverflowsAreTicks
<1>8. OverflowsAt(p, A) \in SUBSET {at + 1} /\ OverflowsAt(q, B) \in SUBSET (at + 2 .. at + n)
  <2> DEFINE Y == at + 2 .. at + n
  <2>1. A \in SUBSET {at + 1} /\ B \in SUBSET Y
    BY <1>5
  <2> HIDE DEF Y
  <2>2. OverflowsAt(p, A) \in SUBSET {at + 1} /\ OverflowsAt(q, B) \in SUBSET Y
    BY <1>7, <2>1
  <2> QED
    BY <2>2 DEF Y
<1> QED
  BY <1>5, <1>6, <1>8, Zenon DEF Sliced

\* The four timers ts, each fed by the one before it.
LEMMA SliceCascade ==
  ASSUME NEW ts \in [Timer -> TimerRecord], NEW at \in Nat, NEW n \in Nat, n >= 2,
         \A i \in Timer : ts[i].enabledAt <= at,
         NEW us, us = Ticked(ts, at, 1), NEW i \in Timer
  PROVE  /\ us[i] = Advance(ts[i], Ticks(ts, at, 1)[i], 1)
         /\ Sliced(ts[i], Ticks(ts, at, 1)[i], Ticks(us, at + 1, n - 1)[i],
                   Ticks(ts, at, n)[i], at, n)
<1> DEFINE a0 == TicksOf(ts[0], {}, at, 1)
           a1 == TicksOf(ts[1], OverflowsAt(ts[0], a0), at, 1)
           a2 == TicksOf(ts[2], OverflowsAt(ts[1], a1), at, 1)
           a3 == TicksOf(ts[3], OverflowsAt(ts[2], a2), at, 1)
           b0 == TicksOf(us[0], {}, at + 1, n - 1)
           b1 == TicksOf(us[1], OverflowsAt(us[0], b0), at + 1, n - 1)
           b2 == TicksOf(us[2], OverflowsAt(us[1], b1), at + 1, n - 1)
           b3 == TicksOf(us[3], OverflowsAt(us[2], b2), at + 1, n - 1)
           t0 == TicksOf(ts[0], {}, at, n)
           t1 == TicksOf(ts[1], OverflowsAt(ts[0], t0), at, n)
           t2 == TicksOf(ts[2], OverflowsAt(ts[1], t1), at, n)
           t3 == TicksOf(ts[3], OverflowsAt(ts[2], t2), at, n)
<1>1. Ticks(ts, at, 1)
        = [j \in Timer |-> IF j = 0 THEN a0 ELSE IF j = 1 THEN a1 ELSE IF j = 2 THEN a2 ELSE a3]
  BY DEF Ticks
<1>2. Ticks(us, at + 1, n - 1)
        = [j \in Timer |-> IF j = 0 THEN b0 ELSE IF j = 1 THEN b1 ELSE IF j = 2 THEN b2 ELSE b3]
  BY DEF Ticks
<1>3. Ticks(ts, at, n)
        = [j \in Timer |-> IF j = 0 THEN t0 ELSE IF j = 1 THEN t1 ELSE IF j = 2 THEN t2 ELSE t3]
  BY DEF Ticks
<1>4. us = [j \in Timer |-> Advance(ts[j], Ticks(ts, at, 1)[j], 1)]
  BY DEF Ticked
<1>5. 0 \in Timer /\ 1 \in Timer /\ 2 \in Timer /\ 3 \in Timer /\ i \in {0, 1, 2, 3}
  BY DEF Timer, TimerCount
<1>6. /\ us[0] = Advance(ts[0], a0, 1) /\ us[1] = Advance(ts[1], a1, 1)
      /\ us[2] = Advance(ts[2], a2, 1) /\ us[3] = Advance(ts[3], a3, 1)
  <2> HIDE DEF a0, a1, a2, a3
  <2> QED
    BY <1>1, <1>4, <1>5
<1>7. Sliced(ts[0], a0, b0, t0, at, n)
  <2>1. {} \in SUBSET {at + 1} /\ {} \in SUBSET (at + 2 .. at + n) /\ {} = {} \cup {}
    OBVIOUS
  <2>2. ts[0] \in TimerRecord /\ ts[0].enabledAt <= at
    BY <1>5
  <2>3. t0 = TicksOf(ts[0], {} \cup {}, at, n)
    BY <2>1
  <2> QED
    BY <1>6, <2>1, <2>2, <2>3, SliceStep
<1>8. ASSUME NEW p, NEW A, NEW B, NEW T, Sliced(p, A, B, T, at, n),
             NEW r, r = Advance(p, A, 1), NEW j \in Timer,
             us[j] = Advance(ts[j], TicksOf(ts[j], OverflowsAt(p, A), at, 1), 1)
      PROVE  Sliced(ts[j], TicksOf(ts[j], OverflowsAt(p, A), at, 1),
                    TicksOf(us[j], OverflowsAt(r, B), at + 1, n - 1),
                    TicksOf(ts[j], OverflowsAt(p, T), at, n), at, n)
  <2> DEFINE F == OverflowsAt(p, A)
             G == OverflowsAt(r, B)
  <2>1. /\ F \in SUBSET {at + 1} /\ G \in SUBSET (at + 2 .. at + n)
        /\ OverflowsAt(p, T) = F \cup G
    BY <1>8 DEF Sliced
  <2>2. ts[j] \in TimerRecord /\ ts[j].enabledAt <= at
    OBVIOUS
  <2>3. us[j] = Advance(ts[j], TicksOf(ts[j], F, at, 1), 1)
    BY <1>8
  <2> HIDE DEF F, G
  <2>4. Sliced(ts[j], TicksOf(ts[j], F, at, 1), TicksOf(us[j], G, at + 1, n - 1),
               TicksOf(ts[j], F \cup G, at, n), at, n)
    BY <2>1, <2>2, <2>3, SliceStep
  <2> QED
    BY <2>1, <2>4 DEF F, G
<1>9. Sliced(ts[1], a1, b1, t1, at, n)
  <2> HIDE DEF a0, b0, t0
  <2> QED
    BY <1>5, <1>6, <1>7, <1>8
<1>10. Sliced(ts[2], a2, b2, t2, at, n)
  <2> HIDE DEF a1, b1, t1
  <2> QED
    BY <1>5, <1>6, <1>8, <1>9
<1>11. Sliced(ts[3], a3, b3, t3, at, n)
  <2> HIDE DEF a2, b2, t2
  <2> QED
    BY <1>5, <1>6, <1>8, <1>10
<1> HIDE DEF a0, a1, a2, a3, b0, b1, b2, b3, t0, t1, t2, t3
<1> QED
  BY <1>1, <1>2, <1>3, <1>4, <1>5, <1>7, <1>9, <1>10, <1>11

\* The first interrupt of a window is the least cycle of a request.
LEMMA FirstIrq ==
  ASSUME NEW ts, NEW at, NEW n
  PROVE  /\ Requests(ts, at, n) = {} => FirstIrqCycle(ts, at, n) = 0
         /\ \A c \in Nat :
              (/\ \E q \in Requests(ts, at, n) : q[2] = c
               /\ \A q \in Requests(ts, at, n) : q[2] \in Nat /\ c <= q[2])
                 => FirstIrqCycle(ts, at, n) = c - at
<1> DEFINE R == Requests(ts, at, n)
           first == CHOOSE c \in {q[2] : q \in R} : \A q \in R : c <= q[2]
<1>1. FirstIrqCycle(ts, at, n) = IF R = {} THEN 0 ELSE first - at
  BY DEF FirstIrqCycle
<1> HIDE DEF R
<1>2. ASSUME NEW c \in Nat, \E q \in R : q[2] = c, \A q \in R : q[2] \in Nat /\ c <= q[2]
      PROVE  FirstIrqCycle(ts, at, n) = c - at
  <2>1. c \in {q[2] : q \in R} /\ \A q \in R : c <= q[2]
    BY <1>2
  <2>2. first \in {q[2] : q \in R} /\ \A q \in R : first <= q[2]
    BY <2>1
  <2>3. first \in Nat /\ first <= c /\ c <= first
    BY <1>2, <2>2
  <2>4. first = c
    BY <2>3
  <2> QED
    BY <1>1, <1>2, <2>4
<1> QED
  BY <1>1, <1>2 DEF R

\* How the scheduler slices time is invisible: a window of n cycles, and its
\* first cycle followed by the rest, leave the same timers, request the same
\* interrupts at the same cycles and report the same first interrupt cycle.
THEOREM SlicesAreInvisible == Spec => []SlicingIsInvisible
<1>1. IInv => SlicingIsInvisible
  <2> DEFINE us == Ticked(timers, cycle, 1)
  <2> SUFFICES ASSUME IInv, NEW n \in 2 .. MaxTick
               PROVE  LET now == FirstIrqCycle(timers, cycle, 1)
                          later == FirstIrqCycle(us, cycle + 1, n - 1)
                      IN /\ Ticked(timers, cycle, n) = Ticked(us, cycle + 1, n - 1)
                         /\ Requests(timers, cycle, n)
                              = Requests(timers, cycle, 1) \cup Requests(us, cycle + 1, n - 1)
                         /\ FirstIrqCycle(timers, cycle, n)
                              = IF now # 0 THEN now ELSE IF later # 0 THEN later + 1 ELSE 0
    BY DEF SlicingIsInvisible
  <2> DEFINE m == n - 1
             next == cycle + 1
             A(i) == Ticks(timers, cycle, 1)[i]
             B(i) == Ticks(us, next, m)[i]
             T(i) == Ticks(timers, cycle, n)[i]
             R1 == Requests(timers, cycle, 1)
             R2 == Requests(us, next, m)
             R == Requests(timers, cycle, n)
  <2>0. n \in Nat /\ n >= 2 /\ m \in Nat /\ m # 0 /\ n # 0 /\ next \in Nat
    BY BoundsAssumption DEF IInv, TypeOK
  <2>1. /\ timers \in [Timer -> TimerRecord] /\ cycle \in Nat
        /\ \A i \in Timer : timers[i].enabledAt <= cycle
    BY DEF IInv, TypeOK, NotAhead
  <2>2. \A i \in Timer : us[i] = Advance(timers[i], A(i), 1)
                         /\ Sliced(timers[i], A(i), B(i), T(i), cycle, n)
    <3> HIDE DEF us
    <3>1. us = Ticked(timers, cycle, 1)
      BY DEF us
    <3> QED
      BY <2>0, <2>1, <3>1, SliceCascade
  <2>3. \A i \in Timer : us[i].control = timers[i].control
    <3> TAKE i \in Timer
    <3> HIDE DEF us, A
    <3>1. timers[i] \in TimerRecord /\ us[i] = Advance(timers[i], A(i), 1) /\ 1 \in Nat
      BY <2>1, <2>2
    <3>2. IsFiniteSet(A(i))
      <4>1. A(i) \subseteq {cycle + 1}
        BY <2>2 DEF Sliced
      <4> QED
        BY <4>1, FS_Singleton, FS_Subset
    <3>3. AdvanceFacts(timers[i], A(i), 1)
      BY <3>1, <3>2, AdvanceType
    <3> QED
      BY <3>1, <3>3 DEF AdvanceFacts
  <2>4. Ticked(timers, cycle, n) = Ticked(us, next, m)
    <3>1. Ticked(timers, cycle, n) = [i \in Timer |-> Advance(timers[i], T(i), n)]
      BY <2>0 DEF Ticked
    <3>2. Ticked(us, next, m) = [i \in Timer |-> Advance(us[i], B(i), m)]
      BY <2>0 DEF Ticked
    <3> HIDE DEF A, B, T, us
    <3>3. \A i \in Timer : Advance(timers[i], T(i), n) = Advance(us[i], B(i), m)
      BY <2>2 DEF Sliced
    <3> QED
      BY <3>1, <3>2, <3>3
  <2> DEFINE Irq == {j \in Timer : timers[j].control.irq}
  <2>5. /\ R = UNION {{i} \X OverflowsAt(timers[i], T(i)) : i \in Irq}
        /\ R1 = UNION {{i} \X OverflowsAt(timers[i], A(i)) : i \in Irq}
        /\ R2 = UNION {{i} \X OverflowsAt(us[i], B(i)) : i \in Irq}
    <3>1. {j \in Timer : us[j].control.irq} = Irq
      BY <2>3
    <3> QED
      BY <3>1 DEF Requests
  <2>6. \A i \in Irq : /\ OverflowsAt(timers[i], T(i))
                            = OverflowsAt(timers[i], A(i)) \cup OverflowsAt(us[i], B(i))
                       /\ OverflowsAt(timers[i], A(i)) \in SUBSET {next}
                       /\ OverflowsAt(us[i], B(i)) \in SUBSET (cycle + 2 .. cycle + n)
    BY <2>2 DEF Sliced
  <2> HIDE DEF A, B, T, us, R1, R2, R, Irq
  <2>7. R = R1 \cup R2
    BY <2>5, <2>6
  <2>8. \A q \in R1 : q[2] = next
    BY <2>5, <2>6
  <2>9. \A q \in R2 : q[2] \in cycle + 2 .. cycle + n
    <3> DEFINE Y == cycle + 2 .. cycle + n
    <3>1. \A i \in Irq : OverflowsAt(us[i], B(i)) \in SUBSET Y
      BY <2>6
    <3> HIDE DEF Y
    <3>2. \A q \in R2 : q[2] \in Y
      BY <2>5, <3>1
    <3> QED
      BY <3>2 DEF Y
  <2> DEFINE now == FirstIrqCycle(timers, cycle, 1)
             later == FirstIrqCycle(us, next, m)
             all == FirstIrqCycle(timers, cycle, n)
  <2>10. all = IF now # 0 THEN now ELSE IF later # 0 THEN later + 1 ELSE 0
    <3>1. CASE R1 # {}
      <4>1. now = next - cycle
        <5>1. /\ \E q \in R1 : q[2] = next
              /\ \A q \in R1 : q[2] \in Nat /\ next <= q[2]
          BY <2>0, <2>8, <3>1
        <5> QED
          BY <2>0, <5>1, FirstIrq DEF R1
      <4>2. all = next - cycle
        <5>1. /\ \E q \in R : q[2] = next
              /\ \A q \in R : q[2] \in Nat /\ next <= q[2]
          BY <2>0, <2>1, <2>7, <2>8, <2>9, <3>1
        <5> QED
          BY <2>0, <5>1, FirstIrq DEF R
      <4>3. next - cycle = 1
        BY <2>1
      <4> HIDE DEF now, later, all
      <4> QED
        BY <4>1, <4>2, <4>3
    <3>2. CASE R1 = {} /\ R2 # {}
      <4> DEFINE Cs == {q[2] : q \in R2}
      <4>1. Cs \in SUBSET Nat /\ Cs # {}
        BY <2>1, <2>9, <3>2
      <4> HIDE DEF Cs
      <4>2. PICK c \in Cs : \A d \in Cs : c <= d
        BY <4>1, Least
      <4>3. /\ c \in Nat /\ \E q \in R2 : q[2] = c
            /\ \A q \in R2 : q[2] \in Nat /\ c <= q[2]
        BY <4>1, <4>2 DEF Cs
      <4>4. now = 0
        BY <3>2, FirstIrq DEF R1
      <4>5. later = c - next
        BY <4>3, FirstIrq DEF R2
      <4>6. all = c - cycle
        <5>1. R = R2
          BY <2>7, <3>2
        <5> QED
          BY <4>3, <5>1, FirstIrq DEF R
      <4>7. c >= cycle + 2
        BY <2>1, <2>9, <4>3
      <4>8. c - next # 0 /\ c - cycle = (c - next) + 1
        BY <2>1, <4>3, <4>7
      <4> HIDE DEF now, later, all
      <4> QED
        BY <4>4, <4>5, <4>6, <4>8
    <3>3. CASE R1 = {} /\ R2 = {}
      <4>1. R = {}
        BY <2>7, <3>3
      <4>2. now = 0 /\ later = 0 /\ all = 0
        BY <3>3, <4>1, FirstIrq DEF R, R1, R2
      <4> HIDE DEF now, later, all
      <4> QED
        BY <4>2
    <3> QED
      BY <3>1, <3>2, <3>3
  <2> QED
    BY <2>4, <2>7, <2>10 DEF R, R1, R2
<1> QED
  BY <1>1, InductiveIInv, PTL

---------------------------------------------------------------------------
(* The loops of TimersLoop compute the closed form. Between two calls the  *)
(* accumulator is determined by how far each timer has come in its own     *)
(* increments T and overflows O: At(ts, T, O, x, y, q, n) for the cycles x  *)
(* and y reached and the timers below q settled by the main loop. A round   *)
(* of increment_timer moves the root of a cascade to its next overflow, and *)
(* handle_overflow moves the timers it feeds to the same cycle, one by one. *)

---------------------------------------------------------------------------
(* The loops of the code.                                                   *)

\* A number is its remainder when it is that far above a multiple.
LEMMA RemainderIs ==
  ASSUME NEW R \in Nat \ {0}, NEW q \in Nat, NEW s \in 0 .. R - 1, NEW x, x = q * R + s
  PROVE  x % R = s
<1>1. x \in Nat
  BY Z3
<1> DEFINE p == x \div R
           r == x % R
<1>2. p \in Nat /\ r \in 0 .. R - 1 /\ x = p * R + r
  BY <1>1, QuotientFacts
<1> HIDE DEF p, r
<1>3. p * R \in Nat /\ q * R \in Nat /\ (p + 1) * R = p * R + R /\ (q + 1) * R = q * R + R
  BY <1>2
<1>4. p * R < (q + 1) * R /\ q * R < (p + 1) * R
  BY <1>2, <1>3
<1>5. p < q + 1 /\ q < p + 1
  <2>1. p + 1 \in Nat /\ q + 1 \in Nat
    BY <1>2
  <2>2. QED
    BY <1>2, <1>4, <2>1, MultiplesOrder
<1>6. p = q
  BY <1>2, <1>5
<1>7. QED
  BY <1>2, <1>3, <1>6 DEF r

\* From e increments on, timer t overflows next when g more have come.
LEMMA Jump ==
  ASSUME NEW t \in TimerRecord, NEW e \in Nat, NEW g, g = Modulus - CounterAfter(t, e)
  PROVE  /\ CounterAfter(t, e) \in 0 .. Modulus - 1 /\ g \in Nat \ {0}
         /\ \A j \in 1 .. g - 1 : CounterAfter(t, e + j) = CounterAfter(t, e) + j
                                  /\ ~OverflowsAtTick(t, e + j)
         /\ CounterAfter(t, e + g) = t.reload /\ OverflowsAtTick(t, e + g)
<1> DEFINE M == Modulus - t.counter
           R == Modulus - t.reload
           Past(k, x) == /\ CounterAfter(t, k) = t.reload + (x % R)
                         /\ OverflowsAtTick(t, k) <=> x % R = 0
<1>1. /\ t.counter \in 0 .. Modulus - 1 /\ t.reload \in 0 .. Modulus - 1 /\ Modulus \in Nat
      /\ M \in Nat \ {0} /\ R \in Nat \ {0} /\ M = Modulus - t.counter /\ R = Modulus - t.reload
  BY ModulusAssumption DEF TimerRecord
<1>2. ASSUME NEW k \in Nat, k < M
      PROVE  CounterAfter(t, k) = t.counter + k /\ ~OverflowsAtTick(t, k)
  BY <1>1, <1>2 DEF CounterAfter, OverflowsAtTick
<1>3. ASSUME NEW k \in Nat, ~(k < M), NEW x, x = k - M
      PROVE  Past(k, x)
  <2>1. CounterAfter(t, k) = t.reload + ((k - M) % R)
    BY <1>3 DEF CounterAfter
  <2>2. k - M >= 0
    BY <1>1, <1>3
  <2>3. OverflowsAtTick(t, k) <=> (k - M) % R = 0
    BY <2>2 DEF OverflowsAtTick
  <2> HIDE DEF M, R
  <2>4. QED
    BY <1>3, <2>1, <2>3, Zenon
<1>4. 0 % R = 0
  BY <1>1, SmallRemainder
<1> HIDE DEF M, R
<1>5. CASE e < M
  <2>1. CounterAfter(t, e) = t.counter + e /\ g = M - e /\ g \in Nat \ {0}
    BY <1>1, <1>2, <1>5
  <2>2. ASSUME NEW j \in 1 .. g - 1
        PROVE  CounterAfter(t, e + j) = CounterAfter(t, e) + j /\ ~OverflowsAtTick(t, e + j)
    <3>1. e + j \in Nat /\ e + j < M
      BY <1>1, <2>1
    <3>2. CounterAfter(t, e + j) = t.counter + (e + j) /\ ~OverflowsAtTick(t, e + j)
      BY <1>2, <3>1
    <3>3. QED
      BY <1>1, <2>1, <3>2
  <2>3. e + g \in Nat /\ ~(e + g < M) /\ e + g - M = 0
    BY <1>1, <2>1
  <2>4. Past(e + g, 0)
    <3>1. PICK k \in Nat : k = e + g
      BY <2>3
    <3>2. Past(k, 0)
      <4>1. ~(k < M) /\ 0 = k - M
        BY <1>1, <2>3, <3>1
      <4>2. QED
        BY <1>3, <4>1, Zenon
    <3>3. QED
      BY <3>1, <3>2, Zenon
  <2>5. QED
    BY <1>1, <1>4, <1>5, <2>1, <2>2, <2>4
<1>6. CASE ~(e < M)
  <2>1. PICK y \in Nat : y = e - M
    BY <1>1, <1>6
  <2> DEFINE q == y \div R
             r == y % R
  <2>2. q \in Nat /\ r \in 0 .. R - 1 /\ y = q * R + r
    BY <1>1, <2>1, QuotientFacts
  <2>3. CounterAfter(t, e) = t.reload + r
    BY <1>3, <1>6, <2>1
  <2> HIDE DEF q, r
  <2>4. q * R \in Nat /\ q + 1 \in Nat /\ (q + 1) * R = q * R + R
    BY <1>1, <2>2
  <2>5. g = R - r /\ g \in Nat \ {0} /\ CounterAfter(t, e) \in 0 .. Modulus - 1
    BY <1>1, <2>2, <2>3
  <2>6. ASSUME NEW j \in 1 .. g - 1
        PROVE  CounterAfter(t, e + j) = CounterAfter(t, e) + j /\ ~OverflowsAtTick(t, e + j)
    <3>1. r + j \in 0 .. R - 1 /\ r + j # 0 /\ e + j \in Nat /\ ~(e + j < M)
      BY <1>1, <1>6, <2>2, <2>5
    <3>2. PICK x : x = (e + j) - M
      OBVIOUS
    <3>3. x = q * R + (r + j)
      BY <1>1, <2>1, <2>2, <2>4, <3>1, <3>2
    <3>4. x % R = r + j
      <4>1. PICK z \in 0 .. R - 1 : z = r + j
        BY <3>1
      <4>2. x = q * R + z
        BY <3>3, <4>1
      <4>3. x % R = z
        <5>1. R \in Nat \ {0} /\ q \in Nat
          BY <1>1, <2>2
        <5>2. QED
          BY <4>2, <5>1, RemainderIs, Zenon
      <4>4. QED
        BY <4>1, <4>3
    <3>5. Past(e + j, x)
      BY <1>3, <3>1, <3>2
    <3>6. CounterAfter(t, e + j) = t.reload + (r + j) /\ ~OverflowsAtTick(t, e + j)
      BY <3>1, <3>4, <3>5, Zenon
    <3>7. QED
      BY <1>1, <2>2, <2>3, <3>1, <3>6
  <2>7. PICK x : x = (e + g) - M
    OBVIOUS
  <2>8. e + g \in Nat /\ ~(e + g < M) /\ x = (q + 1) * R + 0
    <3>1. e + g \in Nat /\ ~(e + g < M)
      BY <1>1, <1>6, <2>5
    <3>2. x = q * R + R
      BY <1>1, <2>1, <2>2, <2>4, <2>5, <2>7
    <3>3. (q + 1) * R + 0 = q * R + R
      BY <1>1, <2>4
    <3>4. QED
      BY <3>1, <3>2, <3>3
  <2>9. x % R = 0
    <3>1. 0 \in 0 .. R - 1
      BY <1>1
    <3>2. QED
      BY <1>1, <2>4, <2>8, <3>1, RemainderIs
  <2>10. Past(e + g, x)
    BY <1>3, <2>7, <2>8
  <2>11. CounterAfter(t, e + g) = t.reload + 0 /\ OverflowsAtTick(t, e + g)
    BY <2>9, <2>10, Zenon
  <2>12. CounterAfter(t, e + g) = t.reload
    BY <1>1, <2>11
  <2>13. QED
    BY <2>5, <2>6, <2>11, <2>12
<1>7. QED
  BY <1>5, <1>6

\* N cycles from F on, D apart.
Ladder(S, F, D, N) == S = {F + m * D : m \in 0 .. N - 1}

\* Cycles D apart, from F on, come one by one.
LEMMA LadderCount ==
  ASSUME NEW D \in Nat \ {0}, NEW F \in Nat, NEW N \in Nat, NEW S, Ladder(S, F, D, N),
         NEW e \in 0 .. N, NEW p, p = F + (e - 1) * D
  PROVE  /\ IsFiniteSet({c \in S : c <= p}) /\ Cardinality({c \in S : c <= p}) = e
         /\ p \in Int /\ (e > 0 => p \in S)
         /\ \A f \in 0 .. N : e < f => p < F + (f - 1) * D
<1>1. \A m \in Int : m * D \in Int
  BY Z3
<1>2. p \in Int /\ e - 1 \in Int
  BY <1>1
<1>3. ASSUME NEW m \in Int, NEW q \in Int
      PROVE  /\ m * D <= q * D <=> m <= q
             /\ m * D < q * D <=> m < q
  <2>1. (q - m) * D = q * D - m * D /\ q * D \in Int /\ m * D \in Int
    BY Z3
  <2>2. q - m >= 0 => (q - m) * D >= 0
    BY Z3
  <2>3. m - q > 0 => (m - q) * D > 0
    BY Z3
  <2>4. (m - q) * D = m * D - q * D
    BY Z3
  <2>5. q - m > 0 => (q - m) * D > 0
    BY Z3
  <2>6. m - q >= 0 => (m - q) * D >= 0
    BY Z3
  <2>7. QED
    BY <2>1, <2>2, <2>3, <2>4, <2>5, <2>6
<1> DEFINE f == [m \in 0 .. e - 1 |-> F + m * D]
           T == {c \in S : c <= p}
<1>4. T = {F + m * D : m \in 0 .. e - 1}
  <2>1. ASSUME NEW m \in 0 .. N - 1
        PROVE  F + m * D <= p <=> m \in 0 .. e - 1
    BY <1>1, <1>2, <1>3
  <2>2. 0 .. e - 1 \subseteq 0 .. N - 1
    OBVIOUS
  <2>3. QED
    BY <2>1, <2>2 DEF Ladder
<1>5. f \in Bijection(0 .. e - 1, T)
  <2>1. f \in [0 .. e - 1 -> T]
    BY <1>4
  <2>2. ASSUME NEW a \in 0 .. e - 1, NEW b \in 0 .. e - 1, f[a] = f[b] PROVE a = b
    <3>1. a * D = b * D
      BY <1>1, <2>2
    <3>2. QED
      BY <1>1, <1>3, <3>1
  <2>3. \A c \in T : \E m \in 0 .. e - 1 : f[m] = c
    BY <1>4
  <2>4. QED
    BY <2>1, <2>2, <2>3 DEF Bijection, Injection, Surjection, IsInjective
<1>6. IsFiniteSet(0 .. e - 1) /\ Cardinality(0 .. e - 1) = e
  BY FS_Interval, <1>2
<1> HIDE DEF f, T
<1>7. IsFiniteSet(T) /\ Cardinality(T) = e
  BY <1>5, <1>6, FS_Bijection DEF ExistsBijection
<1>8. e > 0 => p \in S
  BY <1>2 DEF Ladder
<1>9. ASSUME NEW h \in 0 .. N, e < h PROVE p < F + (h - 1) * D
  <2>1. (e - 1) * D < (h - 1) * D
    BY <1>3, <1>9
  <2>2. QED
    BY <1>1, <2>1
<1>10. QED
  BY <1>2, <1>7, <1>8, <1>9 DEF T

\* The multiples of a divisor after cycle a up to cycle b, as tick computes
\* the first and how many there are.
LEMMA TicksAreLadder ==
  ASSUME NEW D \in Nat \ {0}, NEW a \in Nat, NEW b \in Nat, a <= b,
         NEW F, F = ((a + D) \div D) * D
  PROVE  /\ F \in Nat /\ F > a /\ F - D <= a
         /\ F > b => {c \in a + 1 .. b : c % D = 0} = {}
         /\ F <= b => /\ (b - F) \div D + 1 \in Nat \ {0}
                      /\ Ladder({c \in a + 1 .. b : c % D = 0}, F, D, (b - F) \div D + 1)
<1> DEFINE Q == (a + D) \div D
           r == (a + D) % D
           S == {c \in a + 1 .. b : c % D = 0}
<1>1. Q \in Nat /\ r \in 0 .. D - 1 /\ a + D = Q * D + r /\ F = Q * D
  <2>1. a + D \in Nat
    OBVIOUS
  <2>2. QED
    BY <2>1, QuotientFacts
<1> HIDE DEF Q, r
<1>2. F \in Nat /\ F > a /\ F - D <= a
  BY <1>1
<1>3. ASSUME NEW c \in S PROVE \E m \in Nat : c = F + m * D
  <2>1. c \in Nat /\ c > a /\ c % D = 0
    OBVIOUS
  <2>2. PICK q \in Nat : c = q * D
    <3>1. c = (c \div D) * D + (c % D) /\ c \div D \in Nat
      BY <2>1, QuotientFacts
    <3>2. (c \div D) * D \in Nat
      BY <3>1
    <3>3. PICK q \in Nat : q = c \div D
      BY <3>1
    <3>4. c = q * D + 0 /\ q * D \in Nat
      BY <2>1, <3>1, <3>3
    <3>5. c = q * D
      BY <3>4
    <3>6. QED
      BY <3>5
  <2>4. (q + 1) * D = q * D + D /\ q * D \in Nat
    BY <2>2
  <2>5. Q * D < (q + 1) * D
    BY <1>1, <1>2, <2>1, <2>2, <2>4
  <2>6. Q < q + 1
    BY <1>1, <2>2, <2>5, MultiplesOrder
  <2>7. q - Q \in Nat
    BY <1>1, <2>2, <2>6
  <2>8. (q - Q) * D = q * D - Q * D
    BY <1>1, <2>2
  <2>9. c = F + (q - Q) * D
    BY <1>1, <2>2, <2>4, <2>8
  <2>10. QED
    BY <2>7, <2>9
<1>4. ASSUME F > b PROVE S = {}
  <2>1. SUFFICES ASSUME NEW c \in S PROVE FALSE
    OBVIOUS
  <2>2. PICK m \in Nat : c = F + m * D
    BY <1>3
  <2>3. m * D \in Nat
    BY <2>2
  <2>4. QED
    BY <1>2, <1>4, <2>2, <2>3
<1>5. ASSUME F <= b
      PROVE  /\ (b - F) \div D + 1 \in Nat \ {0}
             /\ Ladder(S, F, D, (b - F) \div D + 1)
  <2> DEFINE k == (b - F) \div D
             s == (b - F) % D
  <2>1. k \in Nat /\ s \in 0 .. D - 1 /\ b - F = k * D + s
    <3>1. b - F \in Nat
      BY <1>2, <1>5
    <3>2. QED
      BY <3>1, QuotientFacts
  <2> HIDE DEF k, s
  <2>2. ASSUME NEW m \in Nat, NEW c, c = F + m * D
        PROVE  c \in S <=> m <= k
    <3>1. m * D \in Nat /\ k * D \in Nat /\ (k + 1) * D = k * D + D
      BY <2>1
    <3>2. c \in Nat /\ c > a
      BY <1>2, <2>2, <3>1
    <3>3. c % D = 0
      <4>1. (Q + m) * D = Q * D + m * D /\ Q * D \in Nat
        BY <1>1
      <4>2. c = (Q + m) * D + 0 /\ Q + m \in Nat /\ 0 \in 0 .. D - 1
        BY <1>1, <2>2, <3>1, <4>1
      <4>3. QED
        BY <4>2, RemainderIs
    <3>4. c <= b <=> m * D < (k + 1) * D
      <4>1. c <= b <=> m * D <= k * D + s
        BY <1>2, <2>1, <2>2, <3>1
      <4>2. m <= k => m * D <= k * D
        <5>1. (k - m) * D = k * D - m * D
          BY <2>1
        <5>2. k - m >= 0 => (k - m) * D >= 0
          BY <2>1, Z3
        <5>3. QED
          BY <2>1, <3>1, <5>1, <5>2
      <4>3. m * D < (k + 1) * D => m < k + 1
        BY <2>1, MultiplesOrder
      <4>4. QED
        BY <2>1, <3>1, <4>1, <4>2, <4>3
    <3>5. m * D < (k + 1) * D <=> m <= k
      <4>1. m * D < (k + 1) * D => m < k + 1
        BY <2>1, MultiplesOrder
      <4>2. (k - m) * D = k * D - m * D
        BY <2>1
      <4>3. k - m >= 0 => (k - m) * D >= 0
        BY <2>1, Z3
      <4>4. QED
        BY <2>1, <3>1, <4>1, <4>2, <4>3
    <3>6. QED
      BY <3>2, <3>3, <3>4, <3>5
  <2>3. S = {F + m * D : m \in 0 .. k}
    <3>1. ASSUME NEW c \in S PROVE c \in {F + m * D : m \in 0 .. k}
      <4>1. PICK m \in Nat : c = F + m * D
        BY <1>3
      <4>2. m <= k
        BY <2>2, <4>1
      <4>3. m \in 0 .. k
        BY <2>1, <4>2
      <4>4. QED
        BY <4>1, <4>3
    <3>2. ASSUME NEW m \in 0 .. k PROVE F + m * D \in S
      BY <2>1, <2>2
    <3>3. QED
      BY <3>1, <3>2
  <2>4. k + 1 \in Nat \ {0} /\ (k + 1) - 1 = k
    BY <2>1
  <2>5. Ladder(S, F, D, k + 1)
    BY <2>3, <2>4 DEF Ladder
  <2>6. QED
    BY <2>4, <2>5 DEF k
<1>6. QED
  BY <1>2, <1>4, <1>5

\* Timer t in the middle of tick(n): k increments and m overflows later, and
\* with its delay used up if the main loop has come to it.
Held(t, k, m, settled, n) ==
  [t EXCEPT !.counter = CounterAfter(t, k),
            !.overflows = t.overflows + m,
            !.delay = IF settled /\ Enabled(t) THEN t.delay - Min2(t.delay, n) ELSE t.delay,
            !.justEnabled = IF settled THEN FALSE ELSE t.justEnabled]

HeldFacts(h, t, k, m, settled, n) ==
  /\ h.counter = CounterAfter(t, k) /\ h.overflows = t.overflows + m
  /\ h.reload = t.reload /\ h.control = t.control /\ h.enabledAt = t.enabledAt
  /\ h.delay = (IF settled /\ Enabled(t) THEN t.delay - Min2(t.delay, n) ELSE t.delay)
  /\ [h EXCEPT !.overflows = h.overflows + 1] = Held(t, k, m + 1, settled, n)
  /\ \A l \in Nat : [h EXCEPT !.counter = CounterAfter(t, l)] = Held(t, l, m, settled, n)
  /\ ~settled => [h EXCEPT !.delay = h.delay - (IF Enabled(t) THEN Min2(t.delay, n) ELSE 0),
                           !.justEnabled = FALSE] = Held(t, k, m, TRUE, n)

\* The fields of a timer in the middle of tick, and what it is after one more
\* increment, one more overflow or the end of its delay.
LEMMA HeldIs ==
  ASSUME NEW t \in TimerRecord, NEW k \in Nat, NEW m \in Nat, NEW settled \in BOOLEAN,
         NEW n \in Nat
  PROVE  HeldFacts(Held(t, k, m, settled, n), t, k, m, settled, n)
<1> DEFINE delay == IF settled /\ Enabled(t) THEN t.delay - Min2(t.delay, n) ELSE t.delay
           just == IF settled THEN FALSE ELSE t.justEnabled
           used == IF Enabled(t) THEN Min2(t.delay, n) ELSE 0
           later == IF Enabled(t) THEN t.delay - Min2(t.delay, n) ELSE t.delay
<1>1. PICK c, o, d, e, h : /\ c = CounterAfter(t, k) /\ o = t.overflows + m /\ d = delay
                           /\ e = just /\ h = Held(t, k, m, settled, n)
  OBVIOUS
<1>2. h = [t EXCEPT !.counter = c, !.overflows = o, !.delay = d, !.justEnabled = e]
  BY <1>1 DEF Held
<1>3. /\ h.counter = c /\ h.overflows = o /\ h.delay = d
      /\ h.reload = t.reload /\ h.control = t.control /\ h.enabledAt = t.enabledAt
      /\ \A x : [h EXCEPT !.counter = x]
                  = [t EXCEPT !.counter = x, !.overflows = o, !.delay = d, !.justEnabled = e]
      /\ \A x : [h EXCEPT !.overflows = x]
                  = [t EXCEPT !.counter = c, !.overflows = x, !.delay = d, !.justEnabled = e]
      /\ \A x, y : [h EXCEPT !.delay = x, !.justEnabled = y]
                  = [t EXCEPT !.counter = c, !.overflows = o, !.delay = x, !.justEnabled = y]
  <2>1. /\ h.counter = c /\ h.overflows = o /\ h.delay = d
        /\ h.reload = t.reload /\ h.control = t.control /\ h.enabledAt = t.enabledAt
    BY <1>2 DEF TimerRecord
  <2>2. ASSUME NEW x
        PROVE  [h EXCEPT !.counter = x]
                 = [t EXCEPT !.counter = x, !.overflows = o, !.delay = d, !.justEnabled = e]
    BY <1>2 DEF TimerRecord
  <2>3. ASSUME NEW x
        PROVE  [h EXCEPT !.overflows = x]
                 = [t EXCEPT !.counter = c, !.overflows = x, !.delay = d, !.justEnabled = e]
    BY <1>2 DEF TimerRecord
  <2>4. ASSUME NEW x, NEW y
        PROVE  [h EXCEPT !.delay = x, !.justEnabled = y]
                 = [t EXCEPT !.counter = c, !.overflows = o, !.delay = x, !.justEnabled = y]
    BY <1>2 DEF TimerRecord
  <2>5. QED
    BY <2>1, <2>2, <2>3, <2>4, Zenon
<1>4. [h EXCEPT !.overflows = h.overflows + 1] = Held(t, k, m + 1, settled, n)
  <2>1. Held(t, k, m + 1, settled, n)
          = [t EXCEPT !.counter = c, !.overflows = t.overflows + (m + 1), !.delay = d,
                      !.justEnabled = e]
    BY <1>1 DEF Held
  <2>2. h.overflows + 1 = t.overflows + (m + 1)
    <3>1. t.overflows \in Nat /\ h.overflows = t.overflows + m
      BY <1>1, <1>3 DEF TimerRecord
    <3>2. QED
      BY <3>1
  <2>3. QED
    BY <1>3, <2>1, <2>2
<1>5. ASSUME NEW l \in Nat
      PROVE  [h EXCEPT !.counter = CounterAfter(t, l)] = Held(t, l, m, settled, n)
  <2>1. Held(t, l, m, settled, n)
          = [t EXCEPT !.counter = CounterAfter(t, l), !.overflows = o, !.delay = d,
                      !.justEnabled = e]
    BY <1>1 DEF Held
  <2>2. QED
    BY <1>3, <2>1
<1>6. ASSUME ~settled
      PROVE  [h EXCEPT !.delay = h.delay - used, !.justEnabled = FALSE]
               = Held(t, k, m, TRUE, n)
  <2>1. h.delay - used = later
    <3>1. h.delay = t.delay /\ t.delay \in Nat
      <4>1. delay = t.delay
        BY <1>6
      <4>2. t.delay \in Nat
        BY DEF TimerRecord
      <4>3. QED
        BY <1>1, <1>3, <4>1, <4>2
    <3>2. h.delay - used = IF Enabled(t) THEN h.delay - Min2(t.delay, n) ELSE h.delay - 0
      OBVIOUS
    <3>3. h.delay - 0 = h.delay
      BY <3>1
    <3>4. QED
      BY <3>1, <3>2, <3>3, Zenon
  <2>2. Held(t, k, m, TRUE, n)
          = [t EXCEPT !.counter = c, !.overflows = o, !.delay = later, !.justEnabled = FALSE]
    BY <1>1 DEF Held
  <2>3. QED
    BY <1>3, <2>1, <2>2, ZenonT(60)
<1>7. QED
  BY <1>1, <1>3, <1>4, <1>5, <1>6 DEF HeldFacts

\* The accumulator when timer j has seen k[j] increments and m[j] overflows and
\* the main loop has come to the timers below q.
Rec(ts, k, m, q, R, n) ==
  [timers |-> [j \in Timer |-> Held(ts[j], k[j], m[j], j < q, n)], requests |-> R]

RecFacts(acc, ts, k, m, q, R, n, i, s) ==
  /\ acc = [timers |-> acc.timers, requests |-> R] /\ i \in DOMAIN acc.timers
  /\ HeldFacts(acc.timers[i], ts[i], k[i], m[i], s, n)
  /\ \A l \in Nat :
       [acc.timers EXCEPT ![i] = Held(ts[i], l, m[i], s, n)]
         = Rec(ts, [k EXCEPT ![i] = l], m, q, R, n).timers
  /\ \A l \in Nat :
       [acc.timers EXCEPT ![i] = Held(ts[i], k[i], l, s, n)]
         = Rec(ts, k, [m EXCEPT ![i] = l], q, R, n).timers
  /\ i = q => [acc.timers EXCEPT ![i] = Held(ts[i], k[i], m[i], TRUE, n)]
                = Rec(ts, k, m, q + 1, R, n).timers

\* The same for the accumulator.
LEMMA RecIs ==
  ASSUME NEW ts \in [Timer -> TimerRecord], NEW k \in [Timer -> Nat], NEW m \in [Timer -> Nat],
         NEW q \in Nat, NEW R, NEW n \in Nat, NEW i \in Timer, NEW acc,
         acc = Rec(ts, k, m, q, R, n)
  PROVE  RecFacts(acc, ts, k, m, q, R, n, i, i < q)
<1>1. /\ acc.timers = [j \in Timer |-> Held(ts[j], k[j], m[j], j < q, n)]
      /\ acc.requests = R /\ acc = [timers |-> acc.timers, requests |-> R]
  BY DEF Rec
<1>2. HeldFacts(acc.timers[i], ts[i], k[i], m[i], i < q, n)
  <2>1. acc.timers[i] = Held(ts[i], k[i], m[i], i < q, n)
    BY <1>1
  <2>2. (i < q) \in BOOLEAN
    OBVIOUS
  <2>3. QED
    BY <2>1, <2>2, HeldIs
<1>3. ASSUME NEW l \in Nat
      PROVE  [acc.timers EXCEPT ![i] = Held(ts[i], l, m[i], i < q, n)]
                = Rec(ts, [k EXCEPT ![i] = l], m, q, R, n).timers
  BY <1>1 DEF Rec
<1>4. ASSUME NEW l \in Nat
      PROVE  [acc.timers EXCEPT ![i] = Held(ts[i], k[i], l, i < q, n)]
                = Rec(ts, k, [m EXCEPT ![i] = l], q, R, n).timers
  BY <1>1 DEF Rec
<1>5. ASSUME i = q
      PROVE  [acc.timers EXCEPT ![i] = Held(ts[i], k[i], m[i], TRUE, n)]
                       = Rec(ts, k, m, q + 1, R, n).timers
  <2>1. ASSUME NEW j \in Timer
        PROVE  (j < q + 1) = (IF j = i THEN TRUE ELSE j < q)
    <3>1. j < q + 1 <=> j = i \/ j < q
      BY <1>5 DEF Timer, TimerCount
    <3>2. CASE j = i
      <4>1. (j < q + 1) = TRUE
        BY <3>1, <3>2
      <4>2. QED
        BY <3>2, <4>1
    <3>3. CASE j # i
      <4>1. (j < q + 1) = (j < q)
        BY <3>1, <3>3
      <4>2. QED
        BY <3>3, <4>1
    <3>4. QED
      BY <3>2, <3>3
  <2>2. QED
    BY <1>1, <2>1 DEF Rec
<1>6. i \in DOMAIN acc.timers
  BY <1>1
<1>7. QED
  BY <1>1, <1>2, <1>3, <1>4, <1>5, <1>6 DEF RecFacts

\* The requests R and that of timer j, which overflows in cycle c.
Ask(R, t, j, c) == R \cup IF t.control.irq THEN {<<j, c>>} ELSE {}

Put(f, i, value) == [f EXCEPT ![i] = value]

WithCounter(acc, i, value) == [acc EXCEPT !.timers[i].counter = value]

\* Setting the counter of a timer to what l increments make of it.
LEMMA RecCounted ==
  ASSUME NEW ts \in [Timer -> TimerRecord], NEW k \in [Timer -> Nat], NEW m \in [Timer -> Nat],
         NEW q \in Nat, NEW R, NEW n \in Nat, NEW i \in Timer, NEW acc,
         acc = Rec(ts, k, m, q, R, n), NEW l \in Nat
  PROVE  WithCounter(acc, i, CounterAfter(ts[i], l))
           = Rec(ts, Put(k, i, l), m, q, R, n)
<1> DEFINE h == [acc.timers[i] EXCEPT !.counter = CounterAfter(ts[i], l)]
           to == Put(k, i, l)
<1>0. PICK s : s = (i < q)
  OBVIOUS
<1>1. RecFacts(acc, ts, k, m, q, R, n, i, s)
  BY <1>0, RecIs
<1>2. h = Held(ts[i], l, m[i], s, n)
  BY <1>1 DEF RecFacts, HeldFacts
<1>3. [acc.timers EXCEPT ![i] = h] = Rec(ts, to, m, q, R, n).timers
  BY <1>2, <1>1 DEF RecFacts, Put
<1>4. WithCounter(acc, i, CounterAfter(ts[i], l))
        = [timers |-> [acc.timers EXCEPT ![i] = h], requests |-> R]
  BY DEF Rec, WithCounter
<1>5. Rec(ts, to, m, q, R, n) = [timers |-> Rec(ts, to, m, q, R, n).timers, requests |-> R]
  BY DEF Rec
<1> HIDE DEF h, to
<1>6. QED
  BY <1>3, <1>4, <1>5 DEF to

LEMMA RecOverflowed ==
  ASSUME NEW ts \in [Timer -> TimerRecord], NEW k \in [Timer -> Nat], NEW m \in [Timer -> Nat],
         NEW q \in Nat, NEW R, NEW n \in Nat, NEW i \in Timer, NEW acc,
         acc = Rec(ts, k, m, q, R, n), NEW c
  PROVE  Overflowed(acc, i, c)
           = Rec(ts, k, Put(m, i, m[i] + 1), q,
                 Ask(R, ts[i], i, c), n)
<1> DEFINE h == [acc.timers[i] EXCEPT !.overflows = acc.timers[i].overflows + 1]
           to == Put(m, i, m[i] + 1)
           S == Ask(R, ts[i], i, c)
<1>0. PICK s : s = (i < q)
  OBVIOUS
<1>1. RecFacts(acc, ts, k, m, q, R, n, i, s)
  BY <1>0, RecIs
<1>2. h = Held(ts[i], k[i], m[i] + 1, s, n)
  BY <1>1 DEF RecFacts, HeldFacts
<1>3. [acc.timers EXCEPT ![i] = h] = Rec(ts, k, to, q, S, n).timers
  <2>1. [acc.timers EXCEPT ![i] = h] = Rec(ts, k, to, q, R, n).timers
    <3>1. m[i] + 1 \in Nat
      OBVIOUS
    <3>2. QED
      BY <1>2, <3>1, <1>1 DEF RecFacts, Put
  <2>2. QED
    BY <2>1 DEF Rec
<1>4. acc.requests = R /\ acc.timers[i].control = ts[i].control
  BY <1>1 DEF RecFacts, HeldFacts
<1>5. Overflowed(acc, i, c) = [timers |-> [acc.timers EXCEPT ![i] = h], requests |-> S]
  BY <1>4 DEF Overflowed, Rec, Ask
<1>6. Rec(ts, k, to, q, S, n) = [timers |-> Rec(ts, k, to, q, S, n).timers, requests |-> S]
  BY DEF Rec
<1> HIDE DEF h, to, S
<1>7. QED
  BY <1>3, <1>5, <1>6 DEF to, S

LEMMA RecIncremented ==
  ASSUME NEW ts \in [Timer -> TimerRecord], NEW k \in [Timer -> Nat], NEW m \in [Timer -> Nat],
         NEW q \in Nat, NEW R, NEW n \in Nat, NEW i \in Timer, NEW acc,
         acc = Rec(ts, k, m, q, R, n)
  PROVE  IncrementedOnce(acc, i)
           = [acc |-> Rec(ts, Put(k, i, k[i] + 1), m, q, R, n),
              over |-> OverflowsAtTick(ts[i], k[i] + 1)]
<1>1. PICK e \in Nat, t \in TimerRecord : e = k[i] /\ t = ts[i]
  OBVIOUS
<1> DEFINE g == Modulus - CounterAfter(t, e)
<1> DEFINE over == CounterAfter(t, e) + 1 >= Modulus
           next == IF over THEN t.reload ELSE CounterAfter(t, e) + 1
<1>0. PICK s : s = (i < q)
  OBVIOUS
<1>2. RecFacts(acc, ts, k, m, q, R, n, i, s)
  BY <1>0, RecIs
<1>3. acc.timers[i].counter = CounterAfter(t, e) /\ acc.timers[i].reload = t.reload
  BY <1>1, <1>2 DEF RecFacts, HeldFacts
<1>4. IncrementedOnce(acc, i) = [acc |-> WithCounter(acc, i, next), over |-> over]
  BY <1>3 DEF IncrementedOnce, Rec, WithCounter
<1>5. /\ CounterAfter(t, e) \in 0 .. Modulus - 1 /\ g \in Nat \ {0}
      /\ \A j \in 1 .. g - 1 : CounterAfter(t, e + j) = CounterAfter(t, e) + j
                                  /\ ~OverflowsAtTick(t, e + j)
      /\ CounterAfter(t, e + g) = t.reload /\ OverflowsAtTick(t, e + g)
  BY <1>1, Jump, SMTT(30), ZenonT(60)
<1>6. CounterAfter(t, e + 1) = next /\ over = OverflowsAtTick(t, e + 1)
  <2>1. Modulus \in Nat
    BY ModulusAssumption
  <2>2. CASE over
    <3>1. g = 1
      BY <1>1, <1>5, <2>1, <2>2
    <3>2. QED
      BY <1>5, <2>2, <3>1
  <2>3. CASE ~over
    <3>1. 1 \in 1 .. g - 1
      BY <1>1, <1>5, <2>1, <2>3
    <3>2. CounterAfter(t, e + 1) = CounterAfter(t, e) + 1 /\ ~OverflowsAtTick(t, e + 1)
      BY <1>5, <3>1
    <3>3. over = FALSE /\ OverflowsAtTick(t, e + 1) = FALSE
      BY <2>3, <3>2 DEF OverflowsAtTick
    <3>4. QED
      BY <3>2, <3>3
  <2>4. QED
    BY <2>2, <2>3
<1> HIDE DEF over, next
<1>7. WithCounter(acc, i, next) = Rec(ts, Put(k, i, e + 1), m, q, R, n)
  <2>1. PICK l \in Nat : l = e + 1
    OBVIOUS
  <2>2. WithCounter(acc, i, CounterAfter(ts[i], l))
          = Rec(ts, Put(k, i, l), m, q, R, n)
    BY RecCounted
  <2>3. QED
    BY <1>1, <1>6, <2>1, <2>2
<1>8. QED
  BY <1>1, <1>4, <1>6, <1>7

Upto(S, p) == {c \in S : c <= p}

\* How many cycles of each set S[j] have come by cycle x[j].
Counts(S, x) == [j \in Timer |-> Cardinality(Upto(S[j], x[j]))]

\* The interrupts requested when the overflows O[j] up to y[j] have happened.
Asked(ts, O, y) ==
  UNION {{j} \X Upto(O[j], y[j]) : j \in {i \in Timer : ts[i].control.irq}}

Cycles(start, n) == SUBSET (start + 1 .. start + n)

\* Sets of cycles up to a position are finite, so they can be counted.
LEMMA UptoFinite ==
  ASSUME NEW start \in Nat, NEW n \in Nat, NEW S \in Cycles(start, n), NEW p
  PROVE  IsFiniteSet(Upto(S, p)) /\ Cardinality(Upto(S, p)) \in Nat
<1>1. Upto(S, p) \subseteq start + 1 .. start + n
  BY DEF Upto, Cycles
<1>2. QED
  BY <1>1, WindowFinite

LEMMA CountsType ==
  ASSUME NEW start \in Nat, NEW n \in Nat, NEW S \in [Timer -> Cycles(start, n)], NEW x
  PROVE  Counts(S, x) \in [Timer -> Nat]
<1>1. ASSUME NEW j \in Timer PROVE Cardinality(Upto(S[j], x[j])) \in Nat
  BY UptoFinite
<1>2. QED
  BY <1>1 DEF Counts

\* Nothing changes where no cycle of a set lies between two positions.
Still(S, x, y) == \A j \in Timer : \A c \in S[j] : c <= x[j] <=> c <= y[j]

\* What stands still counts and requests nothing more; what moves to the next
\* cycle counts one more and, with its interrupt enabled, requests one more.
LEMMA CountsStay ==
  ASSUME NEW S, NEW x, NEW y, Still(S, x, y)
  PROVE  Counts(S, y) = Counts(S, x)
<1>1. ASSUME NEW j \in Timer PROVE Upto(S[j], x[j]) = Upto(S[j], y[j])
  BY DEF Upto, Still
<1>2. QED
  BY <1>1 DEF Counts

LEMMA AskedStays ==
  ASSUME NEW ts, NEW S, NEW x, NEW y, Still(S, x, y)
  PROVE  Asked(ts, S, y) = Asked(ts, S, x)
<1>1. ASSUME NEW j \in Timer PROVE Upto(S[j], x[j]) = Upto(S[j], y[j])
  BY DEF Upto, Still
<1>2. QED
  BY <1>1 DEF Asked

\* Position j moves on to c, the next cycle of its set.
Moved(S, x, y, j, c) ==
  /\ \A i \in Timer : i # j => y[i] = x[i]
  /\ c \in S[j] /\ y[j] = c /\ x[j] \in Int /\ x[j] < c
  /\ \A d \in S[j] : x[j] < d /\ d <= c => d = c

LEMMA MovedUpto ==
  ASSUME NEW start \in Nat, NEW n \in Nat, NEW S \in [Timer -> Cycles(start, n)], NEW x, NEW y,
         NEW j \in Timer, NEW c, Moved(S, x, y, j, c)
  PROVE  /\ Upto(S[j], y[j]) = Upto(S[j], x[j]) \cup {c}
         /\ Cardinality(Upto(S[j], y[j])) = Cardinality(Upto(S[j], x[j])) + 1
<1>1. S[j] \subseteq Int /\ c \in Int
  BY DEF Moved, Cycles
<1>2. Upto(S[j], y[j]) = Upto(S[j], x[j]) \cup {c}
  BY <1>1 DEF Moved, Upto
<1>3. c \notin Upto(S[j], x[j])
  BY <1>1 DEF Moved, Upto
<1>4. IsFiniteSet(Upto(S[j], x[j]))
  BY UptoFinite
<1>5. QED
  BY <1>2, <1>3, <1>4, FS_AddElement

LEMMA CountsMove ==
  ASSUME NEW start \in Nat, NEW n \in Nat, NEW S \in [Timer -> Cycles(start, n)], NEW x, NEW y,
         NEW j \in Timer, NEW c, Moved(S, x, y, j, c)
  PROVE  Counts(S, y) = Put(Counts(S, x), j, Counts(S, x)[j] + 1)
<1>1. Cardinality(Upto(S[j], y[j])) = Cardinality(Upto(S[j], x[j])) + 1
  BY MovedUpto
<1>2. \A i \in Timer : i # j => y[i] = x[i]
  BY DEF Moved
<1>3. QED
  BY <1>1, <1>2 DEF Counts, Put

LEMMA AskedMoves ==
  ASSUME NEW start \in Nat, NEW n \in Nat, NEW S \in [Timer -> Cycles(start, n)], NEW x, NEW y,
         NEW j \in Timer, NEW c, Moved(S, x, y, j, c), NEW ts
  PROVE  Asked(ts, S, y)
           = Ask(Asked(ts, S, x), ts[j], j, c)
<1> DEFINE V == {i \in Timer : ts[i].control.irq}
<1>1. Upto(S[j], y[j]) = Upto(S[j], x[j]) \cup {c}
  <2>1. S[j] \subseteq Int /\ c \in Int
    BY DEF Moved, Cycles
  <2>2. QED
    BY <2>1 DEF Moved, Upto
<1>2. \A i \in Timer : i # j => Upto(S[i], y[i]) = Upto(S[i], x[i])
  BY DEF Moved
<1>3. Asked(ts, S, y) = UNION {{i} \X Upto(S[i], y[i]) : i \in V}
      /\ Asked(ts, S, x) = UNION {{i} \X Upto(S[i], x[i]) : i \in V}
  BY DEF Asked
<1>4. j \in V <=> ts[j].control.irq
  OBVIOUS
<1>5. V \subseteq Timer
  OBVIOUS
<1> HIDE DEF V
<1>6. {j} \X (Upto(S[j], x[j]) \cup {c}) = ({j} \X Upto(S[j], x[j])) \cup {<<j, c>>}
  OBVIOUS
<1>7. \A i \in Timer : {i} \X Upto(S[i], y[i])
         = IF i = j THEN ({i} \X Upto(S[i], x[i])) \cup {<<j, c>>} ELSE {i} \X Upto(S[i], x[i])
  BY <1>1, <1>2, <1>6
<1>8. PICK f : f = [i \in Timer |-> {i} \X Upto(S[i], x[i])]
  OBVIOUS
<1>9. PICK g : g = [i \in Timer |-> {i} \X Upto(S[i], y[i])]
  OBVIOUS
<1>10. Asked(ts, S, x) = UNION {f[i] : i \in V} /\ Asked(ts, S, y) = UNION {g[i] : i \in V}
  BY <1>3, <1>5, <1>8, <1>9
<1>11. \A i \in Timer : g[i] = IF i = j THEN f[i] \cup {<<j, c>>} ELSE f[i]
  BY <1>7, <1>8, <1>9
<1>12. PICK w : w = <<j, c>>
  OBVIOUS
<1>13. CASE j \in V
  <2>1. UNION {g[i] : i \in V} = (UNION {f[i] : i \in V}) \cup {w}
    <3>1. ASSUME NEW z \in UNION {g[i] : i \in V}
          PROVE  z \in (UNION {f[i] : i \in V}) \cup {w}
      <4>1. PICK i \in V : z \in g[i]
        OBVIOUS
      <4>2. g[i] \subseteq f[i] \cup {w}
        BY <1>5, <1>11, <1>12
      <4>3. QED
        BY <4>1, <4>2
    <3>2. ASSUME NEW z \in UNION {f[i] : i \in V} PROVE z \in UNION {g[i] : i \in V}
      <4>1. PICK i \in V : z \in f[i]
        OBVIOUS
      <4>2. f[i] \subseteq g[i]
        BY <1>5, <1>11
      <4>3. QED
        BY <4>1, <4>2
    <3>3. w \in g[j]
      BY <1>11, <1>12
    <3>4. QED
      BY <1>13, <3>1, <3>2, <3>3
  <2>2. QED
    BY <1>4, <1>10, <1>12, <1>13, <2>1 DEF Ask
<1>14. CASE j \notin V
  <2>1. \A i \in V : g[i] = f[i]
    BY <1>5, <1>11, <1>14
  <2>2. UNION {g[i] : i \in V} = UNION {f[i] : i \in V}
    BY <2>1
  <2>3. QED
    BY <1>4, <1>10, <1>14, <2>2 DEF Ask
<1>15. QED
  BY <1>13, <1>14

\* A timer that counts the overflows of the one before it.
Fed(t) == Enabled(t) /\ t.control.countUp

\* Timer j is incremented at the cycles T[j] and overflows at O[j]; root[j] is
\* the timer at the start of the cascade that feeds it.
Window(ts, T, O, root, start, n) ==
  /\ ts \in [Timer -> TimerRecord] /\ start \in Nat /\ n \in Nat \ {0}
  /\ T \in [Timer -> Cycles(start, n)]
  /\ O \in [Timer -> Cycles(start, n)] /\ root \in [Timer -> Timer]
  /\ \A j \in Timer : /\ O[j] = OverflowsAt(ts[j], T[j])
                      /\ Fed(ts[j]) => j # 0
                      /\ root[j] = IF Fed(ts[j]) THEN root[j - 1] ELSE j
                      /\ T[j] = TicksOf(ts[j], IF j = 0 THEN {} ELSE O[j - 1], start, n)

\* Every timer is at the root of its cascade or fed, through others, by it: its
\* ticks are overflows of the timer before it, and so of the root.
LEMMA Roots ==
  ASSUME NEW ts, NEW T, NEW O, NEW root, NEW start, NEW n, Window(ts, T, O, root, start, n),
         NEW j \in Timer
  PROVE  /\ root[j] <= j /\ root[root[j]] = root[j] /\ O[j] \subseteq T[j]
         /\ root[j] = j <=> ~Fed(ts[j])
         /\ root[j] # j => /\ j - 1 \in Timer /\ root[j - 1] = root[j]
                           /\ T[j] = {c \in O[j - 1] : c > ts[j].enabledAt + ts[j].delay}
                           /\ T[j] \subseteq O[root[j]] /\ O[j] \subseteq O[root[j]]
<1>0. Timer = {0, 1, 2, 3}
  BY DEF Timer, TimerCount
<1>1. ASSUME NEW i \in Timer
      PROVE  /\ O[i] \subseteq T[i]
             /\ Fed(ts[i]) => i # 0
             /\ root[i] = IF Fed(ts[i]) THEN root[i - 1] ELSE i
             /\ Fed(ts[i]) => T[i] = {c \in O[i - 1] : c > ts[i].enabledAt + ts[i].delay}
  <2>1. O[i] \subseteq T[i]
    BY OverflowsAreTicks DEF Window
  <2>2. /\ Fed(ts[i]) => i # 0
        /\ root[i] = IF Fed(ts[i]) THEN root[i - 1] ELSE i
        /\ T[i] = TicksOf(ts[i], IF i = 0 THEN {} ELSE O[i - 1], start, n)
    BY DEF Window
  <2>3. ASSUME Fed(ts[i])
        PROVE  T[i] = {c \in O[i - 1] : c > ts[i].enabledAt + ts[i].delay}
    <3>1. T[i] = TicksOf(ts[i], O[i - 1], start, n)
      BY <2>2, <2>3
    <3>2. QED
      BY <2>3, <3>1 DEF Fed, TicksOf
  <2>4. QED
    BY <2>1, <2>2, <2>3
<1>2. ~Fed(ts[0]) /\ root[0] = 0
  BY <1>0, <1>1
<1>3. root[1] = (IF Fed(ts[1]) THEN root[0] ELSE 1) /\ root[1] <= 1
  BY <1>0, <1>1, <1>2
<1>4. root[2] = (IF Fed(ts[2]) THEN root[1] ELSE 2) /\ root[2] <= 2
  BY <1>0, <1>1, <1>2, <1>3
<1>5. root[3] = (IF Fed(ts[3]) THEN root[2] ELSE 3) /\ root[3] <= 3
  BY <1>0, <1>1, <1>2, <1>3, <1>4
<1>6. root[0] \in {0} /\ root[1] \in {0, 1} /\ root[2] \in {0, 1, 2} /\ root[3] \in {0, 1, 2, 3}
  BY <1>2, <1>3, <1>4, <1>5
<1> DEFINE Fine(i) == /\ root[i] <= i /\ root[root[i]] = root[i]
                      /\ root[i] = i <=> ~Fed(ts[i])
                      /\ Fed(ts[i]) => /\ i - 1 \in Timer /\ root[i - 1] = root[i]
                                       /\ T[i] \subseteq O[root[i]] /\ O[i] \subseteq O[root[i]]
<1>7. Fine(0)
  BY <1>2
<1>8. Fine(1)
  BY <1>0, <1>1, <1>2, <1>3
<1>9. Fine(2)
  <2>1. CASE Fed(ts[2])
    <3>1. T[2] \subseteq O[1] /\ O[2] \subseteq T[2] /\ root[2] = root[1]
      BY <1>0, <1>1, <1>4, <2>1
    <3>2. O[1] \subseteq O[root[1]] /\ root[root[1]] = root[1] /\ root[1] <= 1
      BY <1>6, <1>8
    <3>3. QED
      BY <1>0, <1>6, <2>1, <3>1, <3>2
  <2>2. CASE ~Fed(ts[2])
    BY <1>4, <2>2
  <2>3. QED
    BY <2>1, <2>2
<1>10. Fine(3)
  <2>1. CASE Fed(ts[3])
    <3>1. T[3] \subseteq O[2] /\ O[3] \subseteq T[3] /\ root[3] = root[2]
      BY <1>0, <1>1, <1>5, <2>1
    <3>2. O[2] \subseteq O[root[2]] /\ root[root[2]] = root[2] /\ root[2] <= 2
      BY <1>6, <1>9
    <3>3. QED
      BY <1>0, <1>6, <2>1, <3>1, <3>2
  <2>2. CASE ~Fed(ts[3])
    BY <1>5, <2>2
  <2>3. QED
    BY <2>1, <2>2
<1>11. Fine(j)
  BY <1>0, <1>7, <1>8, <1>9, <1>10
<1>12. QED
  BY <1>1, <1>11

\* The position of every timer when the main loop is at timer k and its cascade
\* has come to cycle p: the cascades below k have had their window.
Pos(root, k, p, start, n) ==
  [j \in Timer |-> IF root[j] < k THEN start + n ELSE IF root[j] = k THEN p ELSE start]

\* The same when an overflow in cycle c has been carried up to timer j.
Carried(root, k, p, c, j, start, n) ==
  [i \in Timer |-> IF root[i] = k /\ i <= j THEN c ELSE Pos(root, k, p, start, n)[i]]

\* The accumulator when the timers' increments and overflows have got there.
At(ts, T, O, x, y, q, n) == Rec(ts, Counts(T, x), Counts(O, y), q, Asked(ts, O, y), n)

\* The walk of handle_overflow before it comes to timer j.
Walk(ts, T, O, root, start, n, k, p, c, j) ==
  [acc |-> At(ts, T, O, Carried(root, k, p, c, j, start, n),
              Carried(root, k, p, c, j - 1, start, n), k + 1, n),
   over |-> j \in Timer /\ root[j] = k /\ c \in O[j]]

\* Timer k, which no other feeds, overflows at c for the first time after p.
Overflows(O, root, k, p, c) ==
  /\ k \in Timer /\ root[k] = k /\ p \in Int /\ c \in O[k] /\ p < c
  /\ \A d \in O[k] : p < d /\ d <= c => d = c

\* Carrying the overflow on to timer j moves what happens to that timer at c,
\* if anything does.
LEMMA CarryOn ==
  ASSUME NEW ts, NEW T, NEW O, NEW root, NEW start, NEW n, Window(ts, T, O, root, start, n),
         NEW k, NEW p, NEW c, Overflows(O, root, k, p, c), NEW j \in k .. TimerCount,
         NEW x, x = Carried(root, k, p, c, j - 1, start, n),
         NEW y, y = Carried(root, k, p, c, j, start, n),
         NEW S, j \in Timer /\ root[j] = k => S[j] \subseteq O[k]
  PROVE  /\ j \in Timer /\ root[j] = k /\ c \in S[j] => Moved(S, x, y, j, c)
         /\ ~(j \in Timer /\ root[j] = k /\ c \in S[j]) => Still(S, x, y)
<1>0. /\ k \in Timer /\ Timer = {0, 1, 2, 3} /\ j \in Int /\ TimerCount = 4 /\ start \in Nat
      /\ O[k] \subseteq Int
      /\ n \in Nat /\ p \in Int /\ c \in Int /\ p < c /\ \A d \in O[k] : p < d /\ d <= c => d = c
  BY DEF Window, Overflows, Cycles, Timer, TimerCount
<1>1. ASSUME NEW i \in Timer
      PROVE  /\ x[i] = (IF root[i] = k /\ i <= j - 1 THEN c ELSE Pos(root, k, p, start, n)[i])
             /\ y[i] = (IF root[i] = k /\ i <= j THEN c ELSE Pos(root, k, p, start, n)[i])
             /\ Pos(root, k, p, start, n)[i]
                  = IF root[i] < k THEN start + n ELSE IF root[i] = k THEN p ELSE start
  BY DEF Carried, Pos
<1>2. \A i \in Timer : i # j => y[i] = x[i]
  BY <1>0, <1>1
<1>3. CASE j \in Timer /\ root[j] = k
  <2>1. x[j] = p /\ y[j] = c
    BY <1>0, <1>1, <1>3
  <2>2. c \in S[j] => Moved(S, x, y, j, c)
    BY <1>0, <1>2, <1>3, <2>1 DEF Moved
  <2>3. ASSUME c \notin S[j] PROVE Still(S, x, y)
    <3>1. ASSUME NEW d \in S[j] PROVE d <= x[j] <=> d <= y[j]
      <4>1. d \in O[k] /\ d \in Int /\ d # c
        BY <1>0, <1>3, <2>3
      <4>2. QED
        BY <1>0, <2>1, <4>1
    <3>2. QED
      BY <1>2, <3>1 DEF Still
  <2>4. QED
    BY <1>3, <2>2, <2>3
<1>4. CASE ~(j \in Timer /\ root[j] = k)
  <2>1. \A i \in Timer : y[i] = x[i]
    BY <1>0, <1>1, <1>2, <1>4
  <2>2. Still(S, x, y)
    BY <2>1 DEF Still
  <2>3. QED
    BY <1>4, <2>2
<1>5. QED
  BY <1>3, <1>4

\* One step of the walk: timer j overflows and increments the next, or not.
LEMMA WalkStep ==
  ASSUME NEW ts, NEW T, NEW O, NEW root, NEW start, NEW n, Window(ts, T, O, root, start, n),
         NEW k, NEW p, NEW c, Overflows(O, root, k, p, c), NEW j \in k .. TimerCount - 1
  PROVE  Handled(Walk(ts, T, O, root, start, n, k, p, c, j), k, j, c)
           = Walk(ts, T, O, root, start, n, k, p, c, j + 1)
<1>0. /\ k \in Timer /\ Timer = 0 .. 3 /\ j \in Timer /\ j + 1 \in 1 .. 4 /\ ~(j < k)
      /\ TimerCount = 4 /\ start \in Nat /\ n \in Nat /\ k + 1 \in Nat
      /\ ts \in [Timer -> TimerRecord] /\ ts[j] \in TimerRecord
      /\ T \in [Timer -> Cycles(start, n)] /\ O \in [Timer -> Cycles(start, n)]
      /\ root[k] = k /\ c \in O[k] /\ c \in Int
  BY DEF Window, Overflows, Timer, TimerCount, Cycles
<1>1. PICK x, y, z, i : /\ x = Carried(root, k, p, c, j - 1, start, n)
                        /\ y = Carried(root, k, p, c, j, start, n)
                        /\ z = Carried(root, k, p, c, j + 1, start, n) /\ i = j + 1
  OBVIOUS
<1>2. PICK walk, next : /\ walk = Walk(ts, T, O, root, start, n, k, p, c, j)
                        /\ next = Walk(ts, T, O, root, start, n, k, p, c, i)
  OBVIOUS
<1> DEFINE over == root[j] = k /\ c \in O[j]
           carries == i \in Timer /\ root[i] = k /\ c \in T[i]
           nextOver == i \in Timer /\ root[i] = k /\ c \in O[i]
<1>3. walk = [acc |-> At(ts, T, O, y, x, k + 1, n), over |-> over]
  BY <1>0, <1>1, <1>2 DEF Walk
<1>4. next = [acc |-> At(ts, T, O, z, y, k + 1, n), over |-> nextOver]
  <2>1. (j + 1) - 1 = j
    BY <1>0
  <2>2. QED
    BY <1>1, <1>2, <2>1 DEF Walk
<1>5. /\ over => Moved(O, x, y, j, c)
      /\ ~over => Still(O, x, y)
  <2>1. root[j] = k => O[j] \subseteq O[k]
    BY <1>0, Roots
  <2>2. j \in k .. TimerCount
    BY <1>0
  <2>3. QED
    BY <1>0, <1>1, <2>1, <2>2, CarryOn
<1>6. /\ carries => Moved(T, y, z, i, c)
      /\ ~carries => Still(T, y, z)
  <2>1. i \in Timer /\ root[i] = k => T[i] \subseteq O[k]
    BY <1>0, <1>1, Roots
  <2>2. i \in k .. TimerCount /\ i - 1 = j
    BY <1>0, <1>1
  <2>3. QED
    BY <1>0, <1>1, <2>1, <2>2, CarryOn
<1>7. carries => over
  <2>1. ASSUME carries PROVE over
    <3>1. i \in Timer /\ root[i] # i /\ i - 1 = j
      BY <1>0, <1>1, <2>1
    <3>2. root[j] = k /\ T[i] \subseteq O[j]
      BY <2>1, <3>1, Roots
    <3>3. QED
      BY <2>1, <3>2
  <2>2. QED
    BY <2>1
<1>8. nextOver => carries
  BY Roots
<1>9. carries <=> /\ i \in Timer /\ Fed(ts[i]) /\ c \in O[j]
                  /\ root[j] = k /\ c > ts[i].enabledAt + ts[i].delay
  <2>1. ASSUME i \in Timer, Fed(ts[i])
        PROVE  root[j] = root[i] /\ T[i] = {d \in O[j] : d > ts[i].enabledAt + ts[i].delay}
    <3>1. root[i] # i /\ i - 1 = j
      BY <1>0, <1>1, <2>1, Roots
    <3>2. QED
      BY <2>1, <3>1, Roots
  <2>2. ASSUME i \in Timer, root[i] = k
        PROVE  Fed(ts[i])
    <3>1. root[i] # i
      BY <1>0, <1>1, <2>2
    <3>2. QED
      BY <2>2, <3>1, Roots
  <2>3. QED
    BY <2>1, <2>2
<1>10. /\ Counts(T, y) \in [Timer -> Nat] /\ Counts(O, x) \in [Timer -> Nat]
       /\ Counts(O, y) \in [Timer -> Nat]
  BY <1>0, CountsType
<1>11. PICK acc, counted :
         /\ acc = Rec(ts, Counts(T, y), Counts(O, x), k + 1, Asked(ts, O, x), n)
         /\ counted = Rec(ts, Counts(T, y), Counts(O, y), k + 1, Asked(ts, O, y), n)
  OBVIOUS
<1>12. walk = [acc |-> acc, over |-> over]
  BY <1>3, <1>11 DEF At
<1>13. over => Overflowed(acc, j, c) = counted
  <2>1. ASSUME over PROVE Overflowed(acc, j, c) = counted
    <3>1. Counts(O, y) = Put(Counts(O, x), j, Counts(O, x)[j] + 1)
      BY <1>0, <1>5, <2>1, CountsMove
    <3>2. Asked(ts, O, y)
            = Ask(Asked(ts, O, x), ts[j], j, c)
      BY <1>0, <1>5, <2>1, AskedMoves
    <3>3. Overflowed(acc, j, c)
            = Rec(ts, Counts(T, y), Put(Counts(O, x), j, Counts(O, x)[j] + 1), k + 1,
                  Ask(Asked(ts, O, x), ts[j], j, c), n)
      <4>1. PICK K \in [Timer -> Nat], M \in [Timer -> Nat], q \in Nat :
              K = Counts(T, y) /\ M = Counts(O, x) /\ q = k + 1
        BY <1>0, <1>10
      <4>2. PICK R : R = Asked(ts, O, x)
        OBVIOUS
      <4>3. acc = Rec(ts, K, M, q, R, n)
        BY <1>11, <4>1, <4>2
      <4>4. Overflowed(acc, j, c)
              = Rec(ts, K, Put(M, j, M[j] + 1), q,
                    Ask(R, ts[j], j, c), n)
        <5>1. j \in Timer /\ n \in Nat /\ ts \in [Timer -> TimerRecord]
          BY <1>0
        <5>2. QED
          BY <4>3, <5>1, RecOverflowed
      <4>5. QED
        BY <4>1, <4>2, <4>4
    <3>4. QED
      BY <1>11, <3>1, <3>2, <3>3
  <2>2. QED
    BY <2>1
<1>14. ~over => counted = acc
  BY <1>5, <1>11, CountsStay, AskedStays
<1>15. ~carries => next = [acc |-> counted, over |-> FALSE]
  <2>1. ASSUME ~carries PROVE next = [acc |-> counted, over |-> FALSE]
    <3>1. Counts(T, z) = Counts(T, y) /\ nextOver = FALSE
      BY <1>6, <1>8, <2>1, CountsStay
    <3>2. QED
      BY <1>4, <1>11, <3>1 DEF At
  <2>2. QED
    BY <2>1
<1>16. carries => IncrementedOnce(counted, i) = next
  <2>1. ASSUME carries PROVE IncrementedOnce(counted, i) = next
    <3>1. i \in Timer
      BY <2>1
    <3>2. Counts(T, z) = Put(Counts(T, y), i, Counts(T, y)[i] + 1)
      BY <1>0, <1>6, <2>1, <3>1, CountsMove
    <3>3. IncrementedOnce(counted, i)
            = [acc |-> Rec(ts, Put(Counts(T, y), i, Counts(T, y)[i] + 1), Counts(O, y), k + 1,
                           Asked(ts, O, y), n),
               over |-> OverflowsAtTick(ts[i], Counts(T, y)[i] + 1)]
      BY <1>0, <1>10, <1>11, <3>1, RecIncremented
    <3>4. OverflowsAtTick(ts[i], Counts(T, y)[i] + 1) <=> c \in O[i]
      <4>1. Counts(T, y)[i] + 1 = Counts(T, z)[i]
        BY <1>10, <3>1, <3>2 DEF Put
      <4>2. Counts(T, z)[i] = Cardinality({d \in T[i] : d <= c})
        BY <1>6, <2>1, <3>1 DEF Counts, Upto, Moved
      <4>3. O[i] = OverflowsAt(ts[i], T[i])
        BY <3>1 DEF Window
      <4>4. QED
        BY <2>1, <4>1, <4>2, <4>3, OverflowTicks
    <3>5. OverflowsAtTick(ts[i], Counts(T, y)[i] + 1) = nextOver
      <4>1. OverflowsAtTick(ts[i], Counts(T, y)[i] + 1) \in BOOLEAN
        BY DEF OverflowsAtTick
      <4>2. nextOver <=> c \in O[i]
        BY <2>1
      <4>3. QED
        BY <3>4, <4>1, <4>2
    <3>6. QED
      BY <1>4, <1>11, <3>2, <3>3, <3>5 DEF At
  <2>2. QED
    BY <2>1
<1>17. over => (Cascades(counted, j, c) <=> carries)
  <2>1. ASSUME over PROVE Cascades(counted, j, c) <=> carries
    <3>1. ASSUME i \in Timer
          PROVE  /\ counted.timers[i].control = ts[i].control
                 /\ counted.timers[i].enabledAt = ts[i].enabledAt
                 /\ counted.timers[i].delay = ts[i].delay
      <4>1. PICK s : s = (i < k + 1)
        OBVIOUS
      <4>2. RecFacts(counted, ts, Counts(T, y), Counts(O, y), k + 1, Asked(ts, O, y), n, i, s)
        BY <1>0, <1>10, <1>11, <3>1, <4>1, RecIs
      <4>3. s = FALSE
        <5>1. ~(i < k + 1)
          BY <1>0, <1>1
        <5>2. (i < k + 1) = FALSE
          BY <5>1
        <5>3. QED
          BY <4>1, <5>2
      <4>4. QED
        BY <4>2, <4>3 DEF RecFacts, HeldFacts
    <3>2. QED
      BY <1>1, <1>9, <2>1, <3>1 DEF Cascades, Fed, Enabled
  <2>2. QED
    BY <2>1
<1>18. Handled(walk, k, j, c)
         = IF ~over THEN walk
           ELSE IF Cascades(counted, j, c) THEN IncrementedOnce(counted, i)
           ELSE [acc |-> counted, over |-> FALSE]
  BY <1>0, <1>1, <1>12, <1>13 DEF Handled
<1>19. over \in BOOLEAN
  OBVIOUS
<1> HIDE DEF over, carries, nextOver
<1>20. CASE ~over
  <2>1. over = FALSE
    BY <1>19, <1>20
  <2>2. walk = [acc |-> counted, over |-> FALSE]
    BY <1>12, <1>14, <1>20, <2>1
  <2>3. QED
    BY <1>1, <1>2, <1>7, <1>15, <1>18, <1>20, <2>2
<1>21. CASE over
  BY <1>1, <1>2, <1>15, <1>16, <1>17, <1>18, <1>21
<1>22. QED
  BY <1>20, <1>21

\* Past the last timer an overflow has been carried through the whole cascade.
LEMMA CarriedThrough ==
  ASSUME NEW root \in [Timer -> Timer], NEW k \in Timer, NEW p, NEW c, NEW start, NEW n,
         NEW j \in {TimerCount - 1, TimerCount}
  PROVE  Carried(root, k, p, c, j, start, n) = Pos(root, k, c, start, n)
<1>1. j \in Int /\ \A i \in Timer : i <= j /\ root[i] \in Int /\ k \in Int
  BY DEF Timer, TimerCount
<1>2. ASSUME NEW i \in Timer
      PROVE  Carried(root, k, p, c, j, start, n)[i] = Pos(root, k, c, start, n)[i]
  <2>1. Carried(root, k, p, c, j, start, n)[i]
          = IF root[i] = k THEN c ELSE Pos(root, k, p, start, n)[i]
    BY <1>1 DEF Carried
  <2>2. QED
    BY <1>1, <2>1 DEF Pos
<1>3. QED
  BY <1>2 DEF Carried, Pos

\* handle_overflow of the root moves its cascade to the cycle of the overflow.
LEMMA HandleOverflowIs ==
  ASSUME NEW ts, NEW T, NEW O, NEW root, NEW start, NEW n, Window(ts, T, O, root, start, n),
         NEW k, NEW p, NEW c, Overflows(O, root, k, p, c), NEW x, NEW y, NEW z,
         x = Carried(root, k, p, c, k, start, n), y = Carried(root, k, p, c, k - 1, start, n),
         z = Pos(root, k, c, start, n)
  PROVE  HandleOverflow(At(ts, T, O, x, y, k + 1, n), k, c) = At(ts, T, O, z, z, k + 1, n)
<1>0. k \in {0, 1, 2, 3} /\ TimerCount = 4 /\ k \in Timer /\ root \in [Timer -> Timer]
      /\ root[k] = k /\ c \in O[k]
  BY DEF Overflows, Window, Timer, TimerCount
<1> DEFINE W(j) == Walk(ts, T, O, root, start, n, k, p, c, j)
<1>1. \A j \in k .. 3 : Handled(W(j), k, j, c) = W(j + 1)
  <2>1. TimerCount - 1 = 3
    BY <1>0
  <2>2. QED
    BY <2>1, WalkStep
<1>2. PICK acc, w : acc = At(ts, T, O, x, y, k + 1, n) /\ w = [acc |-> acc, over |-> TRUE]
  OBVIOUS
<1>3. W(k) = w
  BY <1>0, <1>2 DEF Walk
<1>4. W(4).acc = At(ts, T, O, z, z, k + 1, n)
  <2>1. Carried(root, k, p, c, 4, start, n) = z /\ Carried(root, k, p, c, 4 - 1, start, n) = z
    BY <1>0, CarriedThrough
  <2>2. W(4).acc = At(ts, T, O, Carried(root, k, p, c, 4, start, n),
                      Carried(root, k, p, c, 4 - 1, start, n), k + 1, n)
    BY DEF Walk
  <2>3. QED
    BY <2>1, <2>2
<1>5. \A v, j : j < k => Handled(v, k, j, c) = v
  BY DEF Handled
<1>6. HandleOverflow(acc, k, c)
        = Handled(Handled(Handled(Handled(w, k, 0, c), k, 1, c), k, 2, c), k, 3, c).acc
  BY <1>2 DEF HandleOverflow
<1> HIDE DEF W
<1>7. Handled(Handled(Handled(Handled(w, k, 0, c), k, 1, c), k, 2, c), k, 3, c) = W(4)
  <2>1. CASE k = 0
    <3>1. \A j \in 0 .. 3 : Handled(W(j), 0, j, c) = W(j + 1)
      BY <1>1, <2>1
    <3>2. Handled(w, 0, 0, c) = W(1) /\ Handled(W(1), 0, 1, c) = W(2)
          /\ Handled(W(2), 0, 2, c) = W(3) /\ Handled(W(3), 0, 3, c) = W(4)
      BY <1>3, <2>1, <3>1
    <3>3. QED
      BY <2>1, <3>2
  <2>2. CASE k = 1
    <3>1. \A j \in 1 .. 3 : Handled(W(j), 1, j, c) = W(j + 1)
      BY <1>1, <2>2
    <3>2. Handled(w, 1, 1, c) = W(2)
          /\ Handled(W(2), 1, 2, c) = W(3) /\ Handled(W(3), 1, 3, c) = W(4)
      BY <1>3, <2>2, <3>1
    <3>3. Handled(w, 1, 0, c) = w
      BY <1>5, <2>2
    <3>4. QED
      BY <2>2, <3>2, <3>3
  <2>3. CASE k = 2
    <3>1. \A j \in 2 .. 3 : Handled(W(j), 2, j, c) = W(j + 1)
      BY <1>1, <2>3
    <3>2. Handled(w, 2, 2, c) = W(3) /\ Handled(W(3), 2, 3, c) = W(4)
      BY <1>3, <2>3, <3>1
    <3>3. Handled(w, 2, 0, c) = w /\ Handled(w, 2, 1, c) = w
      BY <1>5, <2>3
    <3>4. QED
      BY <2>3, <3>2, <3>3
  <2>4. CASE k = 3
    <3>1. \A j \in 3 .. 3 : Handled(W(j), 3, j, c) = W(j + 1)
      BY <1>1, <2>4
    <3>2. Handled(w, 3, 3, c) = W(4)
      BY <1>3, <2>4, <3>1
    <3>3. Handled(w, 3, 0, c) = w /\ Handled(w, 3, 1, c) = w /\ Handled(w, 3, 2, c) = w
      BY <1>5, <2>4
    <3>4. QED
      BY <2>4, <3>2, <3>3
  <2>5. QED
    BY <1>0, <2>1, <2>2, <2>3, <2>4
<1>8. QED
  BY <1>2, <1>4, <1>6, <1>7 DEF W

\* The p of a ladder's e-th cycle.
Rung(F, D, e) == F + (e - 1) * D

\* increment_timer's loop after e ticks of timer k.
RunAt(ts, T, O, root, start, n, k, F, D, N, e) ==
  LET x == Pos(root, k, Rung(F, D, e), start, n)
  IN [acc |-> At(ts, T, O, x, x, k + 1, n), ticks |-> N - e, next |-> F + e * D]

\* Timer k ticks by itself, N times from F on.
Ticking(ts, T, root, k, F, D, N) ==
  /\ k \in Timer /\ root[k] = k /\ D \in Nat \ {0} /\ F \in Nat /\ N \in Nat \ {0}
  /\ Ladder(T[k], F, D, N)

\* Between two overflows of timer k.
LEMMA Rungs ==
  ASSUME NEW ts, NEW T, NEW O, NEW root, NEW start, NEW n, Window(ts, T, O, root, start, n),
         NEW k, NEW F, NEW D, NEW N, Ticking(ts, T, root, k, F, D, N),
         NEW e \in 0 .. N, NEW g, g = Modulus - CounterAfter(ts[k], e)
  PROVE  /\ Rung(F, D, e) \in Int /\ g \in Nat \ {0}
         /\ Cardinality(Upto(T[k], Rung(F, D, e))) = e
         /\ \A d \in O[k] : Rung(F, D, e) < d =>
              \E f \in 0 .. N : f >= e + g /\ d = Rung(F, D, f)
         /\ e + g <= N => Rung(F, D, e + g) \in O[k] /\ Rung(F, D, e) < Rung(F, D, e + g)
         /\ \A f \in 0 .. N : e < f => Rung(F, D, e) < Rung(F, D, f)
<1>0. /\ k \in Timer /\ D \in Nat \ {0} /\ F \in Nat /\ N \in Nat \ {0}
      /\ Ladder(T[k], F, D, N) /\ ts[k] \in TimerRecord
      /\ O[k] = OverflowsAt(ts[k], T[k]) /\ O[k] \subseteq T[k]
  BY Roots DEF Ticking, Window
<1>1. PICK S : S = T[k]
  OBVIOUS
<1>2. ASSUME NEW f \in 0 .. N
      PROVE  /\ Cardinality(Upto(S, Rung(F, D, f))) = f /\ Rung(F, D, f) \in Int
             /\ f > 0 => Rung(F, D, f) \in S
             /\ \A h \in 0 .. N : f < h => Rung(F, D, f) < Rung(F, D, h)
  <2>1. PICK p : p = F + (f - 1) * D
    OBVIOUS
  <2>2. /\ Cardinality({c \in S : c <= p}) = f
        /\ p \in Int /\ (f > 0 => p \in S)
        /\ \A h \in 0 .. N : f < h => p < F + (h - 1) * D
    BY <1>0, <1>1, <2>1, LadderCount, SMTT(30), ZenonT(60)
  <2>3. QED
    BY <2>1, <2>2 DEF Upto, Rung
<1>3. /\ CounterAfter(ts[k], e) \in 0 .. Modulus - 1 /\ g \in Nat \ {0}
      /\ \A j \in 1 .. g - 1 : ~OverflowsAtTick(ts[k], e + j)
      /\ OverflowsAtTick(ts[k], e + g)
  <2>1. PICK t \in TimerRecord : t = ts[k]
    BY <1>0
  <2>2. e \in Nat /\ g = Modulus - CounterAfter(t, e)
    BY <2>1
  <2>3. QED
    BY <2>1, <2>2, Jump
<1>4. ASSUME NEW d \in S PROVE \E f \in 1 .. N : d = Rung(F, D, f)
  <2>1. PICK m \in 0 .. N - 1 : d = F + m * D
    BY <1>0, <1>1 DEF Ladder
  <2>2. m + 1 \in 1 .. N /\ (m + 1) - 1 = m
    BY <1>0
  <2>3. d = Rung(F, D, m + 1)
    BY <2>1, <2>2 DEF Rung
  <2>4. QED
    BY <2>2, <2>3
<1>5. ASSUME NEW f \in 1 .. N
      PROVE  Rung(F, D, f) \in O[k] <=> OverflowsAtTick(ts[k], f)
  <2>1. f \in 0 .. N /\ f > 0
    BY <1>0
  <2>2. PICK p : p = Rung(F, D, f)
    OBVIOUS
  <2>3. p \in S /\ Cardinality({c \in S : c <= p}) = f
    BY <1>2, <2>1, <2>2 DEF Upto
  <2>4. O[k] = {c \in S : OverflowsAtTick(ts[k], Cardinality({d \in S : d <= c}))}
    BY <1>0, <1>1, OverflowTicks
  <2>5. QED
    BY <2>2, <2>3, <2>4
<1>6. ASSUME NEW d \in O[k], Rung(F, D, e) < d
      PROVE  \E f \in 0 .. N : f >= e + g /\ d = Rung(F, D, f)
  <2>1. PICK f \in 1 .. N : d = Rung(F, D, f)
    BY <1>0, <1>1, <1>4
  <2>2. f \in 0 .. N /\ OverflowsAtTick(ts[k], f)
    BY <1>0, <1>5, <2>1
  <2>3. ~(f < e) /\ f # e
    <3>1. Rung(F, D, e) \in Int /\ Rung(F, D, f) \in Int
      BY <1>2, <2>2
    <3>2. f < e => Rung(F, D, f) < Rung(F, D, e)
      BY <1>2, <2>2
    <3>3. QED
      BY <1>6, <2>1, <3>1, <3>2
  <2>4. f >= e + g
    <3>1. SUFFICES ASSUME f < e + g PROVE FALSE
      BY <1>3
    <3>2. f - e \in 1 .. g - 1 /\ e + (f - e) = f
      BY <1>0, <1>3, <2>3, <3>1
    <3>3. ~OverflowsAtTick(ts[k], f)
      BY <1>3, <3>2
    <3>4. QED
      BY <2>2, <3>3
  <2>5. QED
    BY <2>1, <2>2, <2>4
<1>7. ASSUME e + g <= N
      PROVE  Rung(F, D, e + g) \in O[k] /\ Rung(F, D, e) < Rung(F, D, e + g)
  <2>1. e + g \in 1 .. N /\ e + g \in 0 .. N /\ e < e + g
    BY <1>0, <1>3, <1>7
  <2>2. QED
    BY <1>2, <1>3, <1>5, <2>1
<1>8. QED
  BY <1>1, <1>2, <1>3, <1>6, <1>7

\* The counter of timer k after e increments, and setting it to what l make.
CounterFacts(acc, ts, T, O, x, y, q, n, k, e, l) ==
  /\ acc.timers[k].counter = CounterAfter(ts[k], e)
  /\ acc.timers[k].reload = ts[k].reload
  /\ acc.timers[k].control = ts[k].control
  /\ WithCounter(acc, k, CounterAfter(ts[k], l))
       = Rec(ts, Put(Counts(T, x), k, l), Counts(O, y), q, Asked(ts, O, y), n)

\* The counter of a timer at the k-th rung of its ticks, and a reload of it.
LEMMA AtCounter ==
  ASSUME NEW ts, NEW T, NEW O, NEW root, NEW start, NEW n, Window(ts, T, O, root, start, n),
         NEW k \in Timer, NEW x, NEW y, NEW e \in Nat, Cardinality(Upto(T[k], x[k])) = e,
         NEW q \in Nat, NEW acc, acc = At(ts, T, O, x, y, q, n), NEW l \in Nat
  PROVE  CounterFacts(acc, ts, T, O, x, y, q, n, k, e, l)
<1>0. /\ ts \in [Timer -> TimerRecord] /\ n \in Nat /\ start \in Nat
      /\ T \in [Timer -> Cycles(start, n)] /\ O \in [Timer -> Cycles(start, n)]
  BY DEF Window
<1>1. PICK K \in [Timer -> Nat], M \in [Timer -> Nat] : K = Counts(T, x) /\ M = Counts(O, y)
  BY <1>0, CountsType
<1>2. PICK R, s : R = Asked(ts, O, y) /\ s = (k < q)
  OBVIOUS
<1>3. acc = Rec(ts, K, M, q, R, n)
  BY <1>1, <1>2 DEF At
<1>4. RecFacts(acc, ts, K, M, q, R, n, k, s)
  BY <1>0, <1>2, <1>3, RecIs
<1>5. K[k] = e
  BY <1>1 DEF Counts
<1>6. WithCounter(acc, k, CounterAfter(ts[k], l)) = Rec(ts, Put(K, k, l), M, q, R, n)
  BY <1>0, <1>3, RecCounted
<1>7. QED
  BY <1>1, <1>2, <1>4, <1>5, <1>6 DEF RecFacts, HeldFacts, CounterFacts

\* A round moves the cascade to the next overflow of its root, or it is the last.
LEMMA RoundIs ==
  ASSUME NEW ts, NEW T, NEW O, NEW root, NEW start, NEW n, Window(ts, T, O, root, start, n),
         NEW k, NEW F, NEW D, NEW N, Ticking(ts, T, root, k, F, D, N),
         NEW e \in 0 .. N, NEW g, g = Modulus - CounterAfter(ts[k], e),
         NEW run, run = RunAt(ts, T, O, root, start, n, k, F, D, N, e)
  PROVE  /\ ~(e + g <= N) => Round(run, k, D) = run
         /\ e + g <= N => Round(run, k, D) = RunAt(ts, T, O, root, start, n, k, F, D, N, e + g)
<1>0. /\ k \in Timer /\ D \in Nat \ {0} /\ F \in Nat /\ N \in Nat \ {0} /\ root[k] = k
      /\ ts[k] \in TimerRecord /\ e \in Nat /\ k + 1 \in Nat /\ k \in Int
      /\ root \in [Timer -> Timer] /\ start \in Nat /\ n \in Nat
      /\ T \in [Timer -> Cycles(start, n)] /\ O \in [Timer -> Cycles(start, n)]
  BY DEF Ticking, Window, Timer, TimerCount
<1>1. PICK p, x, acc : /\ p = Rung(F, D, e) /\ x = Pos(root, k, p, start, n)
                       /\ acc = At(ts, T, O, x, x, k + 1, n)
  OBVIOUS
<1>2. run = [acc |-> acc, ticks |-> N - e, next |-> F + e * D]
  BY <1>1 DEF RunAt
<1>3. /\ p \in Int /\ g \in Nat \ {0}
      /\ Cardinality(Upto(T[k], p)) = e
      /\ \A d \in O[k] : p < d => \E f \in 0 .. N : f >= e + g /\ d = Rung(F, D, f)
      /\ e + g <= N => Rung(F, D, e + g) \in O[k] /\ p < Rung(F, D, e + g)
  BY <1>1, Rungs
<1>4. x[k] = p
  BY <1>0, <1>1 DEF Pos
<1>5. ASSUME NEW l \in Nat
      PROVE  /\ acc.timers[k].counter = CounterAfter(ts[k], e)
             /\ acc.timers[k].reload = ts[k].reload
             /\ WithCounter(acc, k, CounterAfter(ts[k], l))
                  = Rec(ts, Put(Counts(T, x), k, l), Counts(O, x), k + 1, Asked(ts, O, x), n)
  <2>1. PICK q \in Nat : q = k + 1
    BY <1>0
  <2>2. Cardinality(Upto(T[k], x[k])) = e /\ acc = At(ts, T, O, x, x, q, n)
    BY <1>1, <1>3, <1>4, <2>1
  <2>3. CounterFacts(acc, ts, T, O, x, x, q, n, k, e, l)
    BY <1>0, <2>2, AtCounter
  <2>4. QED
    BY <2>1, <2>3 DEF CounterFacts
<1>6. ASSUME ~(e + g <= N) PROVE Round(run, k, D) = run
  <2>1. N - e < g
    BY <1>0, <1>3, <1>6
  <2>2. QED
    BY <1>2, <1>5, <2>1 DEF Round
<1>7. ASSUME e + g <= N
      PROVE  Round(run, k, D) = RunAt(ts, T, O, root, start, n, k, F, D, N, e + g)
  <2>1. PICK h \in 0 .. N : h = e + g
    BY <1>0, <1>3, <1>7
  <2> DEFINE c == Rung(F, D, h)
  <2>2. /\ c \in O[k] /\ p < c /\ c \in Int
        /\ Cardinality(Upto(T[k], c)) = h
        /\ \A f \in 0 .. N : h < f => c < Rung(F, D, f)
    <3>1. PICK j : j = Modulus - CounterAfter(ts[k], h)
      OBVIOUS
    <3>2. QED
      BY <1>3, <1>7, <2>1, <3>1, Rungs
  <2>3. Overflows(O, root, k, p, c)
    <3>1. ASSUME NEW d \in O[k], p < d, d <= c PROVE d = c
      <4>1. PICK f \in 0 .. N : f >= h /\ d = Rung(F, D, f)
        BY <1>3, <2>1, <3>1
      <4>2. d \in Int
        BY <1>0, <3>1 DEF Cycles
      <4>3. ~(h < f)
        BY <2>2, <3>1, <4>1, <4>2
      <4>4. f = h
        BY <2>1, <4>1, <4>3
      <4>5. QED
        BY <2>1, <4>1, <4>4
    <3>2. QED
      BY <1>0, <1>3, <2>2, <3>1 DEF Overflows
  <2>4. CounterAfter(ts[k], h) = ts[k].reload
    <3>1. PICK t \in TimerRecord : t = ts[k]
      BY <1>0
    <3>2. e \in Nat /\ g = Modulus - CounterAfter(t, e)
      BY <1>0, <3>1
    <3>3. CounterAfter(t, e + g) = t.reload
      BY <3>2, Jump
    <3>4. QED
      BY <2>1, <3>1, <3>3
  <2>5. PICK y, z, u : /\ y = Carried(root, k, p, c, k, start, n)
                       /\ z = Carried(root, k, p, c, k - 1, start, n)
                       /\ u = Pos(root, k, c, start, n)
    OBVIOUS
  <2>6. /\ z = x
        /\ \A i \in Timer : y[i] = IF i = k THEN c ELSE x[i]
    <3>1. ASSUME NEW i \in Timer
          PROVE  /\ root[i] = k /\ i <= k <=> i = k
                 /\ ~(root[i] = k /\ i <= k - 1)
      <4>1. i \in Int /\ root[i] <= i
        BY Roots DEF Timer, TimerCount
      <4>2. QED
        BY <1>0, <4>1
    <3>2. ASSUME NEW i \in Timer
          PROVE  z[i] = x[i] /\ y[i] = IF i = k THEN c ELSE x[i]
      BY <1>1, <2>5, <3>1 DEF Carried
    <3>3. z = x
      BY <1>1, <2>5, <3>2 DEF Carried, Pos
    <3>4. QED
      BY <3>2, <3>3
  <2>7. Put(Counts(T, x), k, h) = Counts(T, y)
    BY <1>0, <2>2, <2>6 DEF Put, Counts
  <2>8. WithCounter(acc, k, CounterAfter(ts[k], h)) = At(ts, T, O, y, z, k + 1, n)
    <3>1. h \in Nat
      BY <2>1
    <3>2. WithCounter(acc, k, CounterAfter(ts[k], h))
            = Rec(ts, Put(Counts(T, x), k, h), Counts(O, x), k + 1, Asked(ts, O, x), n)
      BY <1>5, <3>1
    <3>3. QED
      BY <2>6, <2>7, <3>2 DEF At
  <2>9. HandleOverflow(At(ts, T, O, y, z, k + 1, n), k, c) = At(ts, T, O, u, u, k + 1, n)
    BY <2>3, <2>5, HandleOverflowIs
  <2>10. /\ (F + e * D) + (g - 1) * D = c /\ c + D = F + h * D
         /\ (N - e) - g = N - h /\ ~(N - e < g)
    <3>1. e * D \in Int /\ g * D \in Int /\ (g - 1) * D = g * D - D
      BY <1>0, <1>3
    <3>2. (e + g) * D = e * D + g * D
      BY <1>0, <1>3
    <3>3. ((e + g) - 1) * D = (e + g) * D - D
      BY <1>0, <1>3
    <3>4. c = F + ((e + g) - 1) * D
      BY <2>1 DEF Rung
    <3>5. QED
      BY <1>0, <1>3, <1>7, <2>1, <3>1, <3>2, <3>3, <3>4
  <2>11. Round(run, k, D)
           = [acc |-> HandleOverflow(WithCounter(acc, k, ts[k].reload), k, c),
              ticks |-> N - h, next |-> F + h * D]
    <3>1. Modulus - acc.timers[k].counter = g
      BY <1>5
    <3>2. Round(run, k, D)
            = IF N - e < g THEN run
              ELSE [acc |-> HandleOverflow(WithCounter(acc, k, ts[k].reload), k,
                                           (F + e * D) + (g - 1) * D),
                    ticks |-> (N - e) - g, next |-> ((F + e * D) + (g - 1) * D) + D]
      <4>1. run.acc = acc /\ run.ticks = N - e /\ run.next = F + e * D
        BY <1>2
      <4>2. Round(run, k, D)
              = LET m == Modulus - run.acc.timers[k].counter
                    d == run.next + (m - 1) * D
                IN IF run.ticks < m THEN run
                   ELSE [acc |-> HandleOverflow(WithCounter(run.acc, k, run.acc.timers[k].reload),
                                                k, d),
                         ticks |-> run.ticks - m, next |-> d + D]
        BY Zenon DEF Round, WithCounter
      <4>3. acc.timers[k].reload = ts[k].reload
        BY <1>5
      <4>4. QED
        BY <3>1, <4>1, <4>2, <4>3, Zenon
    <3>3. QED
      BY <2>10, <3>2
  <2>12. RunAt(ts, T, O, root, start, n, k, F, D, N, h)
           = [acc |-> At(ts, T, O, u, u, k + 1, n), ticks |-> N - h, next |-> F + h * D]
    BY <2>1, <2>5 DEF RunAt
  <2>13. QED
    BY <2>1, <2>4, <2>8, <2>9, <2>11, <2>12
<1>8. QED
  BY <1>6, <1>7

\* f holds what is left of a window after each of N rounds of timer i.
RoundsOf(f, a, i, N, D) ==
  f = [m \in 0 .. N |-> IF m = 0 THEN a ELSE Round(f[m - 1], i, D)]

\* The rounds are a function, by induction on their number.
LEMMA RoundsExist ==
  ASSUME NEW a, NEW i, NEW N \in Nat, NEW D
  PROVE  \E f : RoundsOf(f, a, i, N, D)
<1> DEFINE S == {k \in Nat : ~\E f : RoundsOf(f, a, i, k, D)}
<1>1. SUFFICES ASSUME S # {} PROVE FALSE
  OBVIOUS
<1>2. PICK k \in S : \A y \in S : k <= y
  BY <1>1, Least
<1>3. k # 0
  <2>1. RoundsOf([m \in 0 .. 0 |-> a], a, i, 0, D)
    BY DEF RoundsOf
  <2>2. QED
    BY <1>2, <2>1
<1>4. k \in Nat /\ k - 1 \in Nat /\ k - 1 \notin S
  BY <1>2, <1>3
<1>5. PICK f : RoundsOf(f, a, i, k - 1, D)
  BY <1>4
<1>6. PICK e : e = [m \in 0 .. k |-> IF m < k THEN f[m] ELSE Round(f[k - 1], i, D)]
  OBVIOUS
<1>7. ASSUME NEW m \in 0 .. k
      PROVE  e[m] = IF m = 0 THEN a ELSE Round(e[m - 1], i, D)
  <2>1. CASE m = 0
    <3>1. e[0] = f[0] /\ f[0] = a
      BY <1>3, <1>4, <1>5, <1>6 DEF RoundsOf
    <3>2. QED
      BY <2>1, <3>1
  <2>2. CASE m # 0 /\ m < k
    <3>1. m \in 0 .. k - 1 /\ m - 1 \in 0 .. k /\ m - 1 < k
      BY <1>4, <2>2
    <3>2. e[m] = f[m] /\ e[m - 1] = f[m - 1]
      BY <1>6, <2>2, <3>1
    <3>3. f[m] = Round(f[m - 1], i, D)
      BY <1>5, <2>2, <3>1 DEF RoundsOf
    <3>4. QED
      BY <2>2, <3>2, <3>3
  <2>3. CASE m = k
    <3>1. e[k] = Round(f[k - 1], i, D) /\ e[k - 1] = f[k - 1]
      BY <1>4, <1>6
    <3>2. QED
      BY <1>3, <2>3, <3>1
  <2>4. QED
    BY <1>4, <2>1, <2>2, <2>3
<1>8. RoundsOf(e, a, i, k, D)
  <2>1. e = [m \in 0 .. k |-> e[m]]
    BY <1>6
  <2>2. QED
    BY <1>7, <2>1 DEF RoundsOf
<1>9. QED
  BY <1>2, <1>8

\* The rounds come to an end before the last overflow of the window is missed.
LEMMA RoundsAre ==
  ASSUME NEW ts, NEW T, NEW O, NEW root, NEW start, NEW n, Window(ts, T, O, root, start, n),
         NEW k, NEW F, NEW D, NEW N, Ticking(ts, T, root, k, F, D, N), NEW x,
         x = Pos(root, k, Rung(F, D, 0), start, n)
  PROVE  \E e \in 0 .. N :
           /\ Rounds(At(ts, T, O, x, x, k + 1, n), k, N, F, D)
                = RunAt(ts, T, O, root, start, n, k, F, D, N, e)
           /\ ~(e + (Modulus - CounterAfter(ts[k], e)) <= N)
<1>0. k \in Timer /\ D \in Nat \ {0} /\ F \in Nat /\ N \in Nat \ {0} /\ N \in Nat
  BY DEF Ticking
<1> DEFINE R(e) == RunAt(ts, T, O, root, start, n, k, F, D, N, e)
           G(e) == Modulus - CounterAfter(ts[k], e)
<1>1. PICK acc, a : acc = At(ts, T, O, x, x, k + 1, n) /\ a = [acc |-> acc, ticks |-> N, next |-> F]
  OBVIOUS
<1>2. R(0) = a
  <2>1. N - 0 = N /\ F + 0 * D = F
    BY <1>0
  <2>2. QED
    BY <1>1, <2>1 DEF RunAt
<1>3. PICK f : RoundsOf(f, a, k, N, D) /\ Rounds(acc, k, N, F, D) = f[N]
  <2> DEFINE f == CHOOSE f : RoundsOf(f, a, k, N, D)
  <2>1. RoundsOf(f, a, k, N, D)
    BY <1>0, RoundsExist
  <2>2. Rounds(acc, k, N, F, D) = f[N]
    BY <1>1 DEF Rounds, RoundsOf
  <2>3. QED
    BY <2>1, <2>2
<1>4. ASSUME NEW e \in 0 .. N
      PROVE  /\ G(e) \in Nat \ {0}
             /\ ~(e + G(e) <= N) => Round(R(e), k, D) = R(e)
             /\ e + G(e) <= N => Round(R(e), k, D) = R(e + G(e))
  <2>1. PICK g, run : g = G(e) /\ run = R(e)
    OBVIOUS
  <2>2. g \in Nat \ {0}
    BY <2>1, Rungs
  <2>3. /\ ~(e + g <= N) => Round(run, k, D) = run
        /\ e + g <= N => Round(run, k, D) = R(e + g)
    BY <2>1, RoundIs
  <2>4. QED
    BY <2>1, <2>2, <2>3
<1> DEFINE Reached(m) == \E e \in 0 .. N : f[m] = R(e) /\ (e >= m \/ ~(e + G(e) <= N))
           S == {m \in 0 .. N : ~Reached(m)}
<1>5. f[0] = a /\ \A m \in 1 .. N : f[m] = Round(f[m - 1], k, D)
  <2>1. f = [m \in 0 .. N |-> IF m = 0 THEN a ELSE Round(f[m - 1], k, D)]
    BY <1>3 DEF RoundsOf
  <2>2. \A m \in 0 .. N : f[m] = IF m = 0 THEN a ELSE Round(f[m - 1], k, D)
    BY <2>1
  <2>3. QED
    BY <1>0, <2>2
<1> HIDE DEF R, G
<1>6. Reached(0)
  BY <1>0, <1>2, <1>5
<1>7. ASSUME NEW m \in 1 .. N, Reached(m - 1)
      PROVE  Reached(m)
  <2>1. PICK e \in 0 .. N : f[m - 1] = R(e) /\ (e >= m - 1 \/ ~(e + G(e) <= N))
    BY <1>7
  <2>2. f[m] = Round(R(e), k, D)
    BY <1>5, <2>1
  <2>3. CASE e + G(e) <= N
    <3>1. f[m] = R(e + G(e)) /\ e + G(e) \in 0 .. N /\ e + G(e) >= m
      BY <1>0, <1>4, <2>1, <2>2, <2>3
    <3>2. QED
      BY <3>1
  <2>4. CASE ~(e + G(e) <= N)
    BY <1>4, <2>2, <2>4
  <2>5. QED
    BY <2>3, <2>4
<1>8. S = {}
  <2>1. SUFFICES ASSUME S # {} PROVE FALSE
    OBVIOUS
  <2>2. S \in SUBSET Nat
    OBVIOUS
  <2>3. PICK m \in S : \A y \in S : m <= y
    <3> HIDE DEF S
    <3>1. QED
      BY <2>1, <2>2, Least
  <2>4. m \in 0 .. N /\ ~Reached(m)
    BY <2>3
  <2> HIDE DEF Reached
  <2>5. m # 0
    BY <1>6, <2>4
  <2>6. m \in 1 .. N /\ m - 1 \in 0 .. N /\ ~(m <= m - 1)
    BY <1>0, <2>4, <2>5
  <2>7. Reached(m - 1)
    BY <2>3, <2>6
  <2>8. QED
    BY <1>7, <2>4, <2>6, <2>7
<1>9. Reached(N)
  BY <1>0, <1>8
<1>10. PICK e \in 0 .. N : f[N] = R(e) /\ (e >= N \/ ~(e + G(e) <= N))
  BY <1>9
<1>11. ~(e + G(e) <= N)
  BY <1>0, <1>4, <1>10
<1>12. QED
  BY <1>1, <1>3, <1>10, <1>11 DEF R, G

\* While timer k has no tick left, its cascade stands still.
LEMMA CascadeStill ==
  ASSUME NEW ts, NEW T, NEW O, NEW root, NEW start, NEW n, Window(ts, T, O, root, start, n),
         NEW k \in Timer, NEW p, NEW q,
         \A c \in T[k] : c <= p <=> c <= q
  PROVE  LET x == Pos(root, k, p, start, n)
             y == Pos(root, k, q, start, n)
         IN Still(T, x, y) /\ Still(O, x, y)
<1> DEFINE x == Pos(root, k, p, start, n)
           y == Pos(root, k, q, start, n)
<1>1. ASSUME NEW i \in Timer
      PROVE  /\ O[i] \subseteq T[i]
             /\ root[i] = k => T[i] \subseteq T[k] /\ O[i] \subseteq T[k]
             /\ root[i] # k => x[i] = y[i]
             /\ root[i] = k => x[i] = p /\ y[i] = q
  <2>1. O[i] \subseteq T[i] /\ O[k] \subseteq T[k]
    BY Roots
  <2>2. ASSUME root[i] = k PROVE T[i] \subseteq T[k]
    <3>1. CASE i = k
      BY <3>1
    <3>2. CASE i # k
      <4>1. T[i] \subseteq O[root[i]]
        BY <2>2, <3>2, Roots
      <4>2. QED
        BY <2>1, <2>2, <4>1
    <3>3. QED
      BY <3>1, <3>2
  <2>3. k \in Int /\ root[i] \in Int
    BY DEF Window, Timer, TimerCount
  <2>4. x[i] = (IF root[i] < k THEN start + n ELSE IF root[i] = k THEN p ELSE start)
        /\ y[i] = (IF root[i] < k THEN start + n ELSE IF root[i] = k THEN q ELSE start)
    BY DEF Pos
  <2>5. QED
    BY <2>1, <2>2, <2>3, <2>4
<1>2. QED
  BY <1>1 DEF Still

\* Where a cascade has no ticks its position does not matter.
LEMMA AtStays ==
  ASSUME NEW ts, NEW T, NEW O, NEW x, NEW y, NEW q, NEW n, Still(T, x, y), Still(O, x, y)
  PROVE  At(ts, T, O, x, x, q, n) = At(ts, T, O, y, y, q, n)
BY CountsStay, AskedStays DEF At

\* increment_timer moves the cascade of its timer to the end of the window.
LEMMA IncrementTimerIs ==
  ASSUME NEW ts, NEW T, NEW O, NEW root, NEW start, NEW n, Window(ts, T, O, root, start, n),
         NEW k, NEW F, NEW D, NEW N, Ticking(ts, T, root, k, F, D, N), NEW x, NEW y,
         x = Pos(root, k, start, start, n), y = Pos(root, k, start + n, start, n)
  PROVE  IncrementTimer(At(ts, T, O, x, x, k + 1, n), k, N, F, D)
           = At(ts, T, O, y, y, k + 1, n)
<1>0. /\ k \in Timer /\ D \in Nat \ {0} /\ F \in Nat /\ N \in Nat \ {0} /\ root[k] = k
      /\ ts[k] \in TimerRecord /\ k \in Int /\ k + 1 \in Nat
      /\ root \in [Timer -> Timer] /\ start \in Nat /\ n \in Nat
      /\ T \in [Timer -> Cycles(start, n)] /\ O \in [Timer -> Cycles(start, n)]
  BY DEF Ticking, Window, Timer, TimerCount
<1>1. \A c \in T[k] : c \in Int /\ c <= start + n /\ ~(c <= start)
  <2>1. T[k] \in SUBSET (start + 1 .. start + n)
    BY <1>0 DEF Cycles
  <2>2. QED
    BY <1>0, <2>1
<1>2. ASSUME NEW c \in T[k]
      PROVE  \E f \in 1 .. N : c = Rung(F, D, f)
  <2>1. PICK m \in 0 .. N - 1 : c = F + m * D
    BY <1>0 DEF Ticking, Ladder
  <2>2. m + 1 \in 1 .. N /\ (m + 1) - 1 = m
    BY <1>0
  <2>3. c = Rung(F, D, m + 1)
    BY <2>1, <2>2 DEF Rung
  <2>4. QED
    BY <2>2, <2>3
<1>3. ASSUME NEW e \in 0 .. N
      PROVE  /\ Rung(F, D, e) \in Int /\ Modulus - CounterAfter(ts[k], e) \in Nat \ {0}
             /\ Cardinality(Upto(T[k], Rung(F, D, e))) = e
             /\ \A d \in O[k] : Rung(F, D, e) < d =>
                  \E f \in 0 .. N : f >= e + (Modulus - CounterAfter(ts[k], e))
             /\ \A f \in 0 .. N : e < f => Rung(F, D, e) < Rung(F, D, f)
  <2>1. PICK g : g = Modulus - CounterAfter(ts[k], e)
    OBVIOUS
  <2>2. QED
    BY <2>1, Rungs
<1>4. PICK w : w = Pos(root, k, Rung(F, D, 0), start, n)
  OBVIOUS
<1>5. At(ts, T, O, x, x, k + 1, n) = At(ts, T, O, w, w, k + 1, n)
  <2>1. \A c \in T[k] : ~(c <= Rung(F, D, 0))
    <3>1. SUFFICES ASSUME NEW c \in T[k] PROVE ~(c <= Rung(F, D, 0))
      OBVIOUS
    <3>2. PICK f \in 1 .. N : c = Rung(F, D, f)
      BY <1>2
    <3>3. 0 \in 0 .. N /\ f \in 0 .. N /\ 0 < f
      BY <1>0
    <3>4. Rung(F, D, 0) < Rung(F, D, f) /\ Rung(F, D, 0) \in Int /\ Rung(F, D, f) \in Int
      BY <1>3, <3>3
    <3>5. QED
      BY <3>2, <3>4
  <2>2. \A c \in T[k] : c <= start <=> c <= Rung(F, D, 0)
    BY <1>1, <2>1
  <2>3. Still(T, x, w) /\ Still(O, x, w)
    BY <1>0, <1>4, <2>2, CascadeStill
  <2>4. QED
    BY <2>3, AtStays
<1>6. PICK e \in 0 .. N :
        /\ Rounds(At(ts, T, O, w, w, k + 1, n), k, N, F, D)
             = RunAt(ts, T, O, root, start, n, k, F, D, N, e)
        /\ ~(e + (Modulus - CounterAfter(ts[k], e)) <= N)
  BY <1>4, RoundsAre
<1>7. PICK p, u, acc : /\ p = Rung(F, D, e) /\ u = Pos(root, k, p, start, n)
                       /\ acc = At(ts, T, O, u, u, k + 1, n)
  OBVIOUS
<1>8. IncrementTimer(At(ts, T, O, x, x, k + 1, n), k, N, F, D)
        = WithCounter(acc, k, acc.timers[k].counter + (N - e))
  <2>1. RunAt(ts, T, O, root, start, n, k, F, D, N, e)
          = [acc |-> acc, ticks |-> N - e, next |-> F + e * D]
    BY <1>7 DEF RunAt
  <2>2. PICK run : /\ run = Rounds(At(ts, T, O, x, x, k + 1, n), k, N, F, D)
                   /\ run.acc = acc /\ run.ticks = N - e
    BY <1>5, <1>6, <2>1
  <2>3. IncrementTimer(At(ts, T, O, x, x, k + 1, n), k, N, F, D)
          = WithCounter(run.acc, k, run.acc.timers[k].counter + run.ticks)
    BY <2>2 DEF IncrementTimer, WithCounter
  <2>4. QED
    BY <2>2, <2>3
<1>9. /\ acc.timers[k].counter = CounterAfter(ts[k], e)
      /\ WithCounter(acc, k, CounterAfter(ts[k], N))
           = Rec(ts, Put(Counts(T, u), k, N), Counts(O, u), k + 1, Asked(ts, O, u), n)
  <2>1. PICK q \in Nat, l \in Nat, h \in Nat : q = k + 1 /\ l = N /\ h = e
    BY <1>0
  <2>2. u[k] = p
    BY <1>0, <1>7 DEF Pos
  <2>3. Cardinality(Upto(T[k], u[k])) = h /\ acc = At(ts, T, O, u, u, q, n)
    BY <1>3, <1>7, <2>1, <2>2
  <2>4. CounterFacts(acc, ts, T, O, u, u, q, n, k, h, l)
    BY <1>0, <2>3, AtCounter
  <2>5. QED
    BY <2>1, <2>4 DEF CounterFacts
<1>10. CounterAfter(ts[k], e) + (N - e) = CounterAfter(ts[k], N)
  <2>1. PICK t \in TimerRecord : t = ts[k]
    BY <1>0
  <2>2. PICK g : g = Modulus - CounterAfter(t, e)
    OBVIOUS
  <2>3. /\ CounterAfter(t, e) \in 0 .. Modulus - 1 /\ g \in Nat \ {0}
        /\ \A j \in 1 .. g - 1 : CounterAfter(t, e + j) = CounterAfter(t, e) + j
    <3>1. e \in Nat
      BY <1>0
    <3>2. QED
      BY <2>2, <3>1, Jump
  <2>4. CASE e = N
    BY <1>0, <2>1, <2>3, <2>4
  <2>5. CASE e # N
    <3>1. N - e \in 1 .. g - 1 /\ e + (N - e) = N
      BY <1>0, <1>6, <2>1, <2>2, <2>3, <2>5
    <3>2. QED
      BY <2>1, <2>3, <3>1
  <2>6. QED
    BY <2>4, <2>5
<1>11. ASSUME NEW c \in O[k] PROVE c \in Int /\ c <= p /\ c <= start + n
  <2>1. c \in T[k]
    BY <1>0, <1>11, Roots
  <2>2. c \in Int /\ c <= start + n /\ p \in Int
    BY <1>1, <1>3, <1>7, <2>1
  <2>3. SUFFICES ASSUME p < c PROVE FALSE
    BY <2>2
  <2>4. PICK f \in 0 .. N : f >= e + (Modulus - CounterAfter(ts[k], e))
    BY <1>3, <1>7, <1>11, <2>3
  <2>5. Modulus - CounterAfter(ts[k], e) \in Nat
    BY <1>3
  <2>6. QED
    BY <1>0, <1>6, <2>4, <2>5
<1>12. ASSUME NEW i \in Timer
       PROVE  /\ root[i] # k => u[i] = y[i]
              /\ root[i] = k => u[i] = p /\ y[i] = start + n /\ O[i] \subseteq O[k]
              /\ root[i] = k /\ i # k => T[i] \subseteq O[k]
  <2>1. root[i] = k /\ i # k => T[i] \subseteq O[k] /\ O[i] \subseteq O[k]
    BY Roots
  <2>2. u[i] = (IF root[i] < k THEN start + n ELSE IF root[i] = k THEN p ELSE start)
        /\ y[i] = (IF root[i] < k THEN start + n ELSE IF root[i] = k THEN start + n ELSE start)
    BY <1>7 DEF Pos
  <2>3. root[i] \in Int
    BY <1>0 DEF Timer, TimerCount
  <2>4. QED
    BY <1>0, <2>1, <2>2, <2>3
<1>13. Still(O, u, y)
  <2>1. ASSUME NEW i \in Timer, NEW c \in O[i] PROVE c <= u[i] <=> c <= y[i]
    <3>1. CASE root[i] = k
      <4>1. c \in O[k] /\ u[i] = p /\ y[i] = start + n
        BY <1>12, <3>1
      <4>2. QED
        BY <1>11, <4>1
    <3>2. CASE root[i] # k
      BY <1>12, <3>2
    <3>3. QED
      BY <3>1, <3>2
  <2>2. QED
    BY <2>1 DEF Still
<1>14. Counts(T, y) = Put(Counts(T, u), k, N)
  <2>1. ASSUME NEW i \in Timer, i # k PROVE Upto(T[i], y[i]) = Upto(T[i], u[i])
    <3>1. CASE root[i] = k
      <4>1. T[i] \subseteq O[k] /\ u[i] = p /\ y[i] = start + n
        BY <1>12, <2>1, <3>1
      <4>2. \A c \in T[i] : c <= p /\ c <= start + n
        BY <1>11, <4>1
      <4>3. QED
        BY <4>1, <4>2 DEF Upto
    <3>2. CASE root[i] # k
      BY <1>12, <3>2
    <3>3. QED
      BY <3>1, <3>2
  <2>2. Cardinality(Upto(T[k], y[k])) = N
    <3>1. PICK last : last = Rung(F, D, N)
      OBVIOUS
    <3>2. N \in 0 .. N /\ y[k] = start + n
      BY <1>0, <1>12
    <3>3. Cardinality(Upto(T[k], last)) = N /\ last \in Int
      BY <1>3, <3>1, <3>2
    <3>4. ASSUME NEW c \in T[k] PROVE c <= last
      <4>1. PICK f \in 1 .. N : c = Rung(F, D, f)
        BY <1>2
      <4>2. f \in 0 .. N /\ (f = N \/ f < N)
        BY <1>0
      <4>3. Rung(F, D, f) \in Int /\ (f < N => Rung(F, D, f) < last)
        BY <1>3, <3>1, <3>2, <4>2
      <4>4. QED
        BY <3>1, <3>3, <4>1, <4>2, <4>3
    <3>5. Upto(T[k], last) = T[k] /\ Upto(T[k], start + n) = T[k]
      BY <1>1, <3>4 DEF Upto
    <3>6. QED
      BY <3>2, <3>3, <3>5
  <2>3. QED
    BY <2>1, <2>2 DEF Counts, Put
<1>15. /\ Counts(O, y) = Counts(O, u) /\ Asked(ts, O, y) = Asked(ts, O, u)
  BY <1>13, CountsStay, AskedStays
<1>16. QED
  BY <1>8, <1>9, <1>10, <1>14, <1>15 DEF At

\* What tick does to a timer before it counts.
LEMMA SettleIs ==
  ASSUME NEW ts, NEW T, NEW O, NEW root, NEW start, NEW n, Window(ts, T, O, root, start, n),
         NEW k \in Timer, NEW x, NEW acc, acc = At(ts, T, O, x, x, k, n)
  PROVE  /\ acc.timers[k].control = ts[k].control /\ acc.timers[k].delay = ts[k].delay
         /\ Settled(acc, k, Skipped(ts[k], n))
              = At(ts, T, O, x, x, k + 1, n)
<1>0. /\ ts \in [Timer -> TimerRecord] /\ n \in Nat /\ start \in Nat /\ k \in Nat
      /\ T \in [Timer -> Cycles(start, n)] /\ O \in [Timer -> Cycles(start, n)]
  BY DEF Window, Timer, TimerCount
<1>1. PICK K \in [Timer -> Nat], M \in [Timer -> Nat] : K = Counts(T, x) /\ M = Counts(O, x)
  BY <1>0, CountsType
<1>2. PICK q \in Nat : q = k
  BY <1>0
<1>3. PICK R, s, later : /\ R = Asked(ts, O, x) /\ s = (k < q)
                         /\ later = Rec(ts, K, M, q + 1, R, n)
  OBVIOUS
<1>4. acc = Rec(ts, K, M, q, R, n) /\ At(ts, T, O, x, x, k + 1, n) = later
  BY <1>1, <1>2, <1>3 DEF At
<1>5. RecFacts(acc, ts, K, M, q, R, n, k, s)
  BY <1>0, <1>2, <1>3, <1>4, RecIs
<1>6. s = FALSE
  <2>1. (k < q) = FALSE
    BY <1>2
  <2>2. QED
    BY <1>3, <2>1
<1>7. PICK h : h = acc.timers[k]
  OBVIOUS
<1>8. PICK v : v = Skipped(ts[k], n)
  OBVIOUS
<1>9. /\ h.control = ts[k].control /\ h.delay = ts[k].delay
      /\ [h EXCEPT !.delay = h.delay - v, !.justEnabled = FALSE] = Held(ts[k], K[k], M[k], TRUE, n)
  BY <1>5, <1>6, <1>7, <1>8 DEF RecFacts, HeldFacts, Skipped
<1>10. PICK w : w = [h EXCEPT !.delay = h.delay - v, !.justEnabled = FALSE]
  OBVIOUS
<1>11. /\ acc = [timers |-> acc.timers, requests |-> R] /\ k \in DOMAIN acc.timers
       /\ [acc.timers EXCEPT ![k] = w] = later.timers
  BY <1>2, <1>3, <1>5, <1>9, <1>10 DEF RecFacts
<1>12. Settled(acc, k, v) = [timers |-> [acc.timers EXCEPT ![k] = w], requests |-> R]
  <2>1. PICK A : A = [acc EXCEPT !.timers[k].delay = @ - v]
    OBVIOUS
  <2>2. A = [timers |-> [acc.timers EXCEPT ![k] = [h EXCEPT !.delay = h.delay - v]],
             requests |-> R]
    BY <1>7, <1>11, <2>1
  <2>3. PICK B : B = [A EXCEPT !.timers[k].justEnabled = FALSE]
    OBVIOUS
  <2>4. PICK g : g = [h EXCEPT !.delay = h.delay - v]
    OBVIOUS
  <2>5. A = [timers |-> [acc.timers EXCEPT ![k] = g], requests |-> R] /\ A.timers[k] = g
        /\ w = [g EXCEPT !.justEnabled = FALSE]
    BY <1>10, <1>11, <2>2, <2>4
  <2>6. B = [timers |-> [acc.timers EXCEPT ![k] = [g EXCEPT !.justEnabled = FALSE]],
             requests |-> R]
    BY <2>3, <2>5
  <2>7. Settled(acc, k, v) = B
    BY <2>1, <2>3 DEF Settled
  <2>8. QED
    BY <2>5, <2>6, <2>7
<1>13. later = [timers |-> later.timers, requests |-> R]
  BY <1>3 DEF Rec
<1>14. QED
  BY <1>4, <1>7, <1>8, <1>9, <1>11, <1>12, <1>13

\* What the main loop leaves when it has been at timer k.
LEMMA StageIs ==
  ASSUME NEW ts, NEW T, NEW O, NEW root, NEW start, NEW n, Window(ts, T, O, root, start, n),
         NEW k \in Timer, NEW x, NEW y,
         x = Pos(root, k, start, start, n), y = Pos(root, k, start + n, start, n)
  PROVE  TickTimer(At(ts, T, O, x, x, k, n), k, start, n) = At(ts, T, O, y, y, k + 1, n)
<1>0. /\ ts[k] \in TimerRecord /\ n \in Nat \ {0} /\ start \in Nat /\ k \in Int
      /\ T[k] \in SUBSET (start + 1 .. start + n)
      /\ T[k] = TicksOf(ts[k], IF k = 0 THEN {} ELSE O[k - 1], start, n)
      /\ root \in [Timer -> Timer]
  BY DEF Window, Timer, TimerCount, Cycles
<1>1. PICK acc, settled : /\ acc = At(ts, T, O, x, x, k, n)
                          /\ settled = At(ts, T, O, x, x, k + 1, n)
  OBVIOUS
<1>2. PICK t : t = ts[k]
  OBVIOUS
<1>3. PICK skipped, D : /\ skipped = Skipped(t, n)
                        /\ D = Divisors[t.control.prescaler]
  OBVIOUS
<1>4. PICK a, F, N : /\ a = start + skipped /\ F = ((a + D) \div D) * D
                     /\ N = ((start + n) - F) \div D + 1
  OBVIOUS
<1>5. skipped \in 0 .. n /\ D \in Nat \ {0} /\ a \in Nat
  <2>1. t.delay \in Nat /\ t.control.prescaler \in Prescaler
    BY <1>0, <1>2 DEF TimerRecord, Control
  <2>2. Min2(t.delay, n) \in 0 .. n
    BY <1>0, <2>1 DEF Min2
  <2>3. skipped \in 0 .. n
    BY <1>0, <1>3, <2>2 DEF Skipped
  <2>4. QED
    BY <1>0, <1>3, <1>4, <2>1, <2>3, DivisorAssumption
<1>6. TickTimer(acc, k, start, n)
        = IF ~Enabled(t) \/ t.control.countUp \/ skipped = n THEN settled
          ELSE CountTicks(settled, k, a, start + n, D)
  <2>1. PICK u : u = acc.timers[k]
    OBVIOUS
  <2>2. PICK v : v = Skipped(ts[k], n)
    OBVIOUS
  <2>3. u.control = ts[k].control /\ u.delay = ts[k].delay /\ Settled(acc, k, v) = settled
    BY <1>1, <2>1, <2>2, SettleIs
  <2>4. u.control = t.control /\ (Enabled(u) <=> Enabled(t))
        /\ v = skipped /\ skipped = Skipped(u, n)
    BY <1>2, <1>3, <2>2, <2>3 DEF Enabled, Skipped
  <2>5. TickTimer(acc, k, start, n)
          = IF ~Enabled(u) \/ u.control.countUp \/ skipped = n THEN settled
            ELSE CountTicks(settled, k, start + skipped, start + n, Divisors[u.control.prescaler])
    BY <2>1, <2>3, <2>4 DEF TickTimer
  <2>6. QED
    BY <1>3, <1>4, <2>4, <2>5
<1>7. ASSUME T[k] = {}
      PROVE  settled = At(ts, T, O, y, y, k + 1, n)
  <2>1. Still(T, x, y) /\ Still(O, x, y)
    BY <1>7, CascadeStill
  <2>2. QED
    BY <1>1, <2>1, AtStays
<1>8. ASSUME Enabled(t), ~t.control.countUp
      PROVE  T[k] = {c \in a + 1 .. start + n : c % D = 0}
  BY <1>0, <1>2, <1>3, <1>4, <1>8 DEF TicksOf, PrescalerTicks, Skipped
<1>9. root[k] = k <=> ~Fed(t)
  BY <1>2, Roots
<1>10. CASE ~Enabled(t)
  <2>1. T[k] = {}
    BY <1>0, <1>2, <1>10 DEF TicksOf
  <2>2. QED
    BY <1>1, <1>6, <1>7, <1>10, <2>1
<1>11. CASE Enabled(t) /\ t.control.countUp
  <2>1. root[k] # k
    BY <1>11, <1>9 DEF Fed
  <2>2. \A i \in Timer : root[i] # k
    BY <2>1, Roots
  <2>3. \A i \in Timer : x[i] = y[i]
    BY <2>2 DEF Pos
  <2>4. Still(T, x, y) /\ Still(O, x, y)
    BY <2>3 DEF Still
  <2>5. settled = At(ts, T, O, y, y, k + 1, n)
    BY <1>1, <2>4, AtStays
  <2>6. QED
    BY <1>1, <1>6, <1>11, <2>5
<1>12. CASE Enabled(t) /\ ~t.control.countUp /\ skipped = n
  <2>1. a + 1 .. start + n = {}
    BY <1>0, <1>4, <1>12
  <2>2. T[k] = {}
    BY <1>12, <1>8, <2>1
  <2>3. QED
    BY <1>1, <1>6, <1>7, <1>12, <2>2
<1>13. CASE Enabled(t) /\ ~t.control.countUp /\ skipped # n
  <2>1. PICK b : b = start + n /\ N = (b - F) \div D + 1
    BY <1>4, Zenon
  <2>2. a \in Nat /\ b \in Nat /\ a <= b /\ F = ((a + D) \div D) * D
    BY <1>0, <1>4, <1>5, <2>1
  <2>3. /\ F \in Nat
        /\ F > b => {c \in a + 1 .. b : c % D = 0} = {}
        /\ F <= b => /\ (b - F) \div D + 1 \in Nat \ {0}
                     /\ Ladder({c \in a + 1 .. b : c % D = 0}, F, D, (b - F) \div D + 1)
    BY <1>5, <2>2, TicksAreLadder
  <2>4. T[k] = {c \in a + 1 .. b : c % D = 0} /\ N = (b - F) \div D + 1
    <3>1. T[k] = {c \in a + 1 .. b : c % D = 0}
      BY <1>13, <1>8, <2>1, Zenon
    <3>2. N = (b - F) \div D + 1
      BY <2>1
    <3>3. QED
      BY <3>1, <3>2
  <2>5. CountTicks(settled, k, a, b, D)
          = IF F > b THEN settled ELSE IncrementTimer(settled, k, N, F, D)
    BY <2>2, <2>4 DEF CountTicks
  <2>6. CASE F > b
    BY <1>1, <1>6, <1>7, <1>13, <2>1, <2>3, <2>4, <2>5, <2>6
  <2>7. CASE ~(F > b)
    <3>1. F <= b
      BY <2>2, <2>3, <2>7
    <3>2. root[k] = k
      BY <1>13, <1>9 DEF Fed
    <3>3. Ticking(ts, T, root, k, F, D, N)
      BY <1>5, <2>3, <2>4, <3>1, <3>2 DEF Ticking
    <3>4. IncrementTimer(settled, k, N, F, D) = At(ts, T, O, y, y, k + 1, n)
      BY <1>1, <3>3, IncrementTimerIs
    <3>5. QED
      BY <1>1, <1>6, <1>13, <2>1, <2>5, <2>7, <3>4
  <2>8. QED
    BY <2>6, <2>7
<1>14. QED
  BY <1>10, <1>11, <1>12, <1>13

\* Before the main loop nothing has happened yet.
LEMMA BeginIs ==
  ASSUME NEW ts, NEW T, NEW O, NEW root, NEW start, NEW n, Window(ts, T, O, root, start, n),
         NEW x, x = Pos(root, 0, start, start, n)
  PROVE  At(ts, T, O, x, x, 0, n) = [timers |-> ts, requests |-> {}]
<1>0. /\ ts \in [Timer -> TimerRecord] /\ n \in Nat /\ start \in Nat
      /\ T \in [Timer -> Cycles(start, n)] /\ O \in [Timer -> Cycles(start, n)]
      /\ root \in [Timer -> Timer]
  BY DEF Window
<1>1. ASSUME NEW j \in Timer PROVE x[j] = start
  <2>1. root[j] \in Timer
    BY <1>0
  <2>2. (root[j] < 0) = FALSE
    BY <2>1 DEF Timer, TimerCount
  <2>3. x[j] = IF root[j] < 0 THEN start + n ELSE IF root[j] = 0 THEN start ELSE start
    BY DEF Pos
  <2>4. QED
    BY <2>2, <2>3
<1>2. ASSUME NEW S \in [Timer -> Cycles(start, n)], NEW j \in Timer
      PROVE  Upto(S[j], x[j]) = {}
  <2>1. S[j] \subseteq start + 1 .. start + n /\ x[j] = start
    BY <1>1 DEF Cycles
  <2>2. QED
    BY <1>0, <2>1 DEF Upto
<1>3. ASSUME NEW S \in [Timer -> Cycles(start, n)], NEW j \in Timer
      PROVE  Counts(S, x)[j] = 0
  BY <1>2, FS_EmptySet DEF Counts
<1>4. Asked(ts, O, x) = {}
  <2>1. \A j \in Timer : {j} \X Upto(O[j], x[j]) = {}
    BY <1>0, <1>2
  <2>2. QED
    BY <2>1 DEF Asked
<1>5. ASSUME NEW t \in TimerRecord PROVE Held(t, 0, 0, FALSE, n) = t
  <2>1. CounterAfter(t, 0) = t.counter /\ t.overflows + 0 = t.overflows
    BY CounterAfterNone DEF TimerRecord
  <2>2. Held(t, 0, 0, FALSE, n)
          = [t EXCEPT !.counter = t.counter, !.overflows = t.overflows, !.delay = t.delay,
                      !.justEnabled = t.justEnabled]
    BY <2>1 DEF Held
  <2>3. QED
    BY <2>2 DEF TimerRecord
<1>6. ASSUME NEW j \in Timer
      PROVE  Held(ts[j], Counts(T, x)[j], Counts(O, x)[j], j < 0, n) = ts[j]
  <2>1. (j < 0) = FALSE
    BY DEF Timer, TimerCount
  <2>2. Counts(T, x)[j] = 0 /\ Counts(O, x)[j] = 0 /\ ts[j] \in TimerRecord
    BY <1>0, <1>3
  <2>3. QED
    BY <1>5, <2>1, <2>2
<1>7. At(ts, T, O, x, x, 0, n)
        = [timers |-> [j \in Timer |->
                         Held(ts[j], Counts(T, x)[j], Counts(O, x)[j], j < 0, n)],
           requests |-> {}]
  BY <1>4 DEF At, Rec
<1>8. [j \in Timer |-> Held(ts[j], Counts(T, x)[j], Counts(O, x)[j], j < 0, n)] = ts
  BY <1>0, <1>6
<1>9. QED
  BY <1>7, <1>8

\* All timers incremented at the cycles T of a window, with what they request.
TickedTogether(ts, T, n) ==
  [timers |-> [j \in Timer |-> Advance(ts[j], T[j], n)],
   requests |-> UNION {{j} \X OverflowsAt(ts[j], T[j]) :
                         j \in {i \in Timer : ts[i].control.irq}}]

\* After it every timer has had its window.
LEMMA EndIs ==
  ASSUME NEW ts, NEW T, NEW O, NEW root, NEW start, NEW n, Window(ts, T, O, root, start, n),
         NEW y, y = Pos(root, 3, start + n, start, n)
  PROVE  At(ts, T, O, y, y, 4, n)
           = TickedTogether(ts, T, n)
<1>0. /\ ts \in [Timer -> TimerRecord] /\ n \in Nat /\ start \in Nat
      /\ T \in [Timer -> Cycles(start, n)] /\ O \in [Timer -> Cycles(start, n)]
      /\ root \in [Timer -> Timer]
      /\ \A j \in Timer : O[j] = OverflowsAt(ts[j], T[j])
  BY DEF Window
<1>1. ASSUME NEW j \in Timer PROVE y[j] = start + n
  <2>1. root[j] \in Timer
    BY <1>0
  <2>2. root[j] < 3 \/ root[j] = 3
    BY <2>1 DEF Timer, TimerCount
  <2>3. y[j] = IF root[j] < 3 THEN start + n ELSE IF root[j] = 3 THEN start + n ELSE start
    BY DEF Pos
  <2>4. QED
    BY <2>2, <2>3
<1>2. ASSUME NEW S \in [Timer -> Cycles(start, n)], NEW j \in Timer
      PROVE  Upto(S[j], y[j]) = S[j]
  <2>1. S[j] \subseteq start + 1 .. start + n /\ y[j] = start + n
    BY <1>1 DEF Cycles
  <2>2. QED
    BY <1>0, <2>1 DEF Upto
<1>3. ASSUME NEW j \in Timer
      PROVE  /\ Counts(T, y)[j] = Cardinality(T[j])
             /\ Counts(O, y)[j] = Cardinality(OverflowsAt(ts[j], T[j]))
  BY <1>0, <1>2 DEF Counts
<1>4. Asked(ts, O, y)
        = UNION {{j} \X OverflowsAt(ts[j], T[j]) : j \in {i \in Timer : ts[i].control.irq}}
  <2>1. \A j \in Timer : {j} \X Upto(O[j], y[j]) = {j} \X OverflowsAt(ts[j], T[j])
    BY <1>0, <1>2
  <2>2. QED
    BY <2>1 DEF Asked
<1>5. ASSUME NEW j \in Timer
      PROVE  Held(ts[j], Counts(T, y)[j], Counts(O, y)[j], j < 4, n) = Advance(ts[j], T[j], n)
  <2>1. (j < 4) = TRUE
    BY DEF Timer, TimerCount
  <2>2. PICK k, m : k = Counts(T, y)[j] /\ m = Counts(O, y)[j]
    OBVIOUS
  <2>3. k = Cardinality(T[j]) /\ m = Cardinality(OverflowsAt(ts[j], T[j]))
    BY <1>3, <2>2
  <2>4. Held(ts[j], k, m, TRUE, n) = Advance(ts[j], T[j], n)
    BY <2>3, AdvanceIs DEF Held
  <2>5. QED
    BY <2>1, <2>2, <2>4
<1>6. QED
  BY <1>4, <1>5 DEF At, Rec, TickedTogether

\* Where the main loop leaves timer k it comes to the next.
LEMMA PosNext ==
  ASSUME NEW root \in [Timer -> Timer], NEW k \in Timer, NEW start \in Nat, NEW n \in Nat
  PROVE  Pos(root, k, start + n, start, n) = Pos(root, k + 1, start, start, n)
<1>1. ASSUME NEW j \in Timer
      PROVE  (IF root[j] < k THEN start + n ELSE IF root[j] = k THEN start + n ELSE start)
               = (IF root[j] < k + 1 THEN start + n ELSE IF root[j] = k + 1 THEN start ELSE start)
  <2>1. root[j] \in Int /\ k \in Int
    BY DEF Timer, TimerCount
  <2>2. QED
    BY <2>1
<1>2. QED
  BY <1>1 DEF Pos

\* The main loop, timer by timer.
LEMMA TickLoopIs ==
  ASSUME NEW ts, NEW T, NEW O, NEW root, NEW start, NEW n, Window(ts, T, O, root, start, n)
  PROVE  TickLoop(ts, start, n)
           = TickedTogether(ts, T, n)
<1>0. /\ start \in Nat /\ n \in Nat /\ root \in [Timer -> Timer]
      /\ 0 \in Timer /\ 1 \in Timer /\ 2 \in Timer /\ 3 \in Timer
  BY DEF Window, Timer, TimerCount
<1>1. PICK x0, x1, x2, x3, x4 :
        /\ x0 = Pos(root, 0, start, start, n) /\ x1 = Pos(root, 1, start, start, n)
        /\ x2 = Pos(root, 2, start, start, n) /\ x3 = Pos(root, 3, start, start, n)
        /\ x4 = Pos(root, 3, start + n, start, n)
  OBVIOUS
<1>2. /\ x1 = Pos(root, 0, start + n, start, n) /\ x2 = Pos(root, 1, start + n, start, n)
      /\ x3 = Pos(root, 2, start + n, start, n)
  <2>1. /\ Pos(root, 0, start + n, start, n) = Pos(root, 0 + 1, start, start, n)
        /\ Pos(root, 1, start + n, start, n) = Pos(root, 1 + 1, start, start, n)
        /\ Pos(root, 2, start + n, start, n) = Pos(root, 2 + 1, start, start, n)
    BY <1>0, PosNext
  <2>2. 0 + 1 = 1 /\ 1 + 1 = 2 /\ 2 + 1 = 3
    OBVIOUS
  <2>3. QED
    BY <1>1, <2>1, <2>2
<1>3. PICK a0, a1, a2, a3, a4 :
        /\ a0 = At(ts, T, O, x0, x0, 0, n) /\ a1 = At(ts, T, O, x1, x1, 1, n)
        /\ a2 = At(ts, T, O, x2, x2, 2, n) /\ a3 = At(ts, T, O, x3, x3, 3, n)
        /\ a4 = At(ts, T, O, x4, x4, 4, n)
  OBVIOUS
<1>4. 0 + 1 = 1 /\ 1 + 1 = 2 /\ 2 + 1 = 3 /\ 3 + 1 = 4
  OBVIOUS
<1>5. TickTimer(a0, 0, start, n) = a1
  <2>1. TickTimer(At(ts, T, O, x0, x0, 0, n), 0, start, n) = At(ts, T, O, x1, x1, 0 + 1, n)
    BY <1>0, <1>1, <1>2, StageIs
  <2>2. QED
    BY <1>3, <1>4, <2>1
<1>6. TickTimer(a1, 1, start, n) = a2
  <2>1. TickTimer(At(ts, T, O, x1, x1, 1, n), 1, start, n) = At(ts, T, O, x2, x2, 1 + 1, n)
    BY <1>0, <1>1, <1>2, StageIs
  <2>2. QED
    BY <1>3, <1>4, <2>1
<1>7. TickTimer(a2, 2, start, n) = a3
  <2>1. TickTimer(At(ts, T, O, x2, x2, 2, n), 2, start, n) = At(ts, T, O, x3, x3, 2 + 1, n)
    BY <1>0, <1>1, <1>2, StageIs
  <2>2. QED
    BY <1>3, <1>4, <2>1
<1>8. TickTimer(a3, 3, start, n) = a4
  <2>1. TickTimer(At(ts, T, O, x3, x3, 3, n), 3, start, n) = At(ts, T, O, x4, x4, 3 + 1, n)
    BY <1>0, <1>1, <1>2, StageIs
  <2>2. QED
    BY <1>3, <1>4, <2>1
<1>9. a0 = [timers |-> ts, requests |-> {}]
  BY <1>1, <1>3, BeginIs
<1>10. TickLoop(ts, start, n) = a4
  BY <1>5, <1>6, <1>7, <1>8, <1>9 DEF TickLoop
<1>11. a4 = TickedTogether(ts, T, n)
  BY <1>1, <1>3, EndIs
<1>12. QED
  BY <1>10, <1>11

\* Every window of a state in which timer 0 does not count up is one.
LEMMA WindowIs ==
  ASSUME NEW ts \in [Timer -> TimerRecord], ~ts[0].control.countUp,
         NEW start \in Nat, NEW n \in Nat \ {0}
  PROVE  \E O, root : Window(ts, Ticks(ts, start, n), O, root, start, n)
<1>0. Timer = {0, 1, 2, 3} /\ n \in Nat
  BY DEF Timer, TimerCount
<1>1. PICK T : T = Ticks(ts, start, n)
  OBVIOUS
<1>2. PICK O : O = [j \in Timer |-> OverflowsAt(ts[j], T[j])]
  OBVIOUS
<1>3. PICK r1 : r1 = IF Fed(ts[1]) THEN 0 ELSE 1
  OBVIOUS
<1>4. PICK r2 : r2 = IF Fed(ts[2]) THEN r1 ELSE 2
  OBVIOUS
<1>5. PICK r3 : r3 = IF Fed(ts[3]) THEN r2 ELSE 3
  OBVIOUS
<1>6. PICK root : root = [j \in Timer |-> IF j = 0 THEN 0 ELSE IF j = 1 THEN r1
                                          ELSE IF j = 2 THEN r2 ELSE r3]
  OBVIOUS
<1>7. root \in [Timer -> Timer] /\ root[0] = 0 /\ root[1] = r1 /\ root[2] = r2 /\ root[3] = r3
  BY <1>0, <1>3, <1>4, <1>5, <1>6
<1>8. ASSUME NEW j \in Timer
      PROVE  /\ Fed(ts[j]) => j # 0
             /\ root[j] = IF Fed(ts[j]) THEN root[j - 1] ELSE j
  <2>1. CASE j = 0
    BY <1>7, <2>1 DEF Fed
  <2>2. CASE j = 1
    BY <1>3, <1>7, <2>2
  <2>3. CASE j = 2
    BY <1>4, <1>7, <2>3
  <2>4. CASE j = 3
    BY <1>5, <1>7, <2>4
  <2>5. QED
    BY <1>0, <2>1, <2>2, <2>3, <2>4
<1>9. /\ T = [j \in Timer |-> T[j]]
      /\ T[0] = TicksOf(ts[0], {}, start, n)
      /\ T[1] = TicksOf(ts[1], OverflowsAt(ts[0], T[0]), start, n)
      /\ T[2] = TicksOf(ts[2], OverflowsAt(ts[1], T[1]), start, n)
      /\ T[3] = TicksOf(ts[3], OverflowsAt(ts[2], T[2]), start, n)
  <2> DEFINE t0 == TicksOf(ts[0], {}, start, n)
             t1 == TicksOf(ts[1], OverflowsAt(ts[0], t0), start, n)
             t2 == TicksOf(ts[2], OverflowsAt(ts[1], t1), start, n)
             t3 == TicksOf(ts[3], OverflowsAt(ts[2], t2), start, n)
  <2>1. T = [i \in Timer |-> IF i = 0 THEN t0 ELSE IF i = 1 THEN t1 ELSE IF i = 2 THEN t2 ELSE t3]
    BY <1>1 DEF Ticks
  <2> HIDE DEF t0, t1, t2, t3
  <2>2. T[0] = t0 /\ T[1] = t1 /\ T[2] = t2 /\ T[3] = t3 /\ T = [j \in Timer |-> T[j]]
    BY <1>0, <2>1
  <2>3. QED
    BY <2>2 DEF t0, t1, t2, t3
<1>10. ASSUME NEW j \in Timer
       PROVE  T[j] = TicksOf(ts[j], IF j = 0 THEN {} ELSE O[j - 1], start, n)
  <2>1. O[0] = OverflowsAt(ts[0], T[0]) /\ O[1] = OverflowsAt(ts[1], T[1])
        /\ O[2] = OverflowsAt(ts[2], T[2])
    BY <1>0, <1>2
  <2>2. CASE j = 0
    BY <1>9, <2>2
  <2>3. CASE j = 1
    BY <1>9, <2>1, <2>3
  <2>4. CASE j = 2
    BY <1>9, <2>1, <2>4
  <2>5. CASE j = 3
    BY <1>9, <2>1, <2>5
  <2>6. QED
    BY <1>0, <2>2, <2>3, <2>4, <2>5
<1>11. ASSUME NEW j \in Timer
       PROVE  T[j] \subseteq start + 1 .. start + n /\ O[j] \subseteq start + 1 .. start + n
  <2>1. T[j] \subseteq start + 1 .. start + n
    BY <1>0, <1>1, TicksInWindow
  <2>2. O[j] \subseteq T[j]
    BY <1>2, OverflowsAreTicks
  <2>3. QED
    BY <2>1, <2>2
<1>12. T \in [Timer -> Cycles(start, n)] /\ O \in [Timer -> Cycles(start, n)]
  BY <1>2, <1>9, <1>11 DEF Cycles
<1>13. \A j \in Timer : O[j] = OverflowsAt(ts[j], T[j])
  BY <1>2
<1>14. Window(ts, T, O, root, start, n)
  BY <1>7, <1>8, <1>10, <1>12, <1>13 DEF Window
<1>15. QED
  BY <1>1, <1>14

\* The loops of increment_timer and handle_overflow compute what the closed form
\* of tick says: after any window of any reachable state the same counters,
\* overflow counts and delays, and the same interrupt requests in the same
\* cycles, whichever way the overflows cascade from timer to timer.
THEOREM LoopsAreClosedForm == Spec => []LoopsMatchClosedForm
<1>1. IInv => LoopsMatchClosedForm
  <2>1. SUFFICES ASSUME IInv, NEW n \in 1 .. MaxTick
                 PROVE  /\ TickLoop(timers, cycle, n).timers = Ticked(timers, cycle, n)
                        /\ TickLoop(timers, cycle, n).requests = Requests(timers, cycle, n)
    BY DEF LoopsMatchClosedForm
  <2>2. n \in Nat \ {0} /\ n # 0
    BY BoundsAssumption
  <2>3. timers \in [Timer -> TimerRecord] /\ cycle \in Nat /\ ~timers[0].control.countUp
    BY <2>1 DEF IInv, TypeOK, NoCountUp0
  <2>4. PICK T : T = Ticks(timers, cycle, n)
    OBVIOUS
  <2>5. PICK O, root : Window(timers, T, O, root, cycle, n)
    BY <2>2, <2>3, <2>4, WindowIs
  <2>6. TickLoop(timers, cycle, n)
          = [timers |-> [j \in Timer |-> Advance(timers[j], T[j], n)],
             requests |-> UNION {{j} \X OverflowsAt(timers[j], T[j]) :
                                   j \in {i \in Timer : timers[i].control.irq}}]
    BY <2>5, TickLoopIs DEF TickedTogether
  <2>7. Ticked(timers, cycle, n) = [j \in Timer |-> Advance(timers[j], T[j], n)]
    BY <2>2, <2>4 DEF Ticked
  <2>8. Requests(timers, cycle, n)
          = UNION {{j} \X OverflowsAt(timers[j], T[j]) :
                     j \in {i \in Timer : timers[i].control.irq}}
    BY <2>4 DEF Requests
  <2>9. QED
    BY <2>6, <2>7, <2>8
<1>2. QED
  BY <1>1, InductiveIInv, PTL
=============================================================================
