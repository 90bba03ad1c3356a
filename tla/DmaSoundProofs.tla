-------------------------- MODULE DmaSoundProofs --------------------------
(***************************************************************************)
(* For every word count, every set of programmed channels and every control *)
(* word: an enabled channel is armed, and the flag the fast paths test is  *)
(* exact as long as no transfer writes a control register.                 *)
(*                                                                         *)
(* For every capacity, word and generator: the FIFOs and the ring of       *)
(* samples lose only their oldest items, and however a span of time is cut *)
(* into ticks the sound unit ends the same.                                *)
(***************************************************************************)
EXTENDS DmaController, Apu, FiniteSetTheorems, SequenceTheorems, WellFoundedInduction, TLAPS

Armed(ch) == ch.control.enable => ch.count # 0

AllArmed == \A c \in Channel : Armed(channels[c])

\* Where the call in progress can be.
RunShape ==
  /\ run.trigger = "none" => run = Idle
  /\ run.busy => run.trigger # "none" /\ run.channel < ChannelCount

\* The start timing that the call in progress serves.
TimingOf(t) == IF Fifo(t) THEN "special" ELSE t

\* Before a transfer writes a control register: the channel being served is
\* the one that was selected, an immediate call has left nothing immediate
\* behind it, and outside such a call the flag is exact.
Untouched ==
  /\ run.busy => /\ channels[run.channel].control.enable
                 /\ channels[run.channel].control.timing = TimingOf(run.trigger)
  /\ run.trigger = "immediate" =>
       /\ ~run.still
       /\ \A c \in Channel : c < run.channel => ~Immediate(channels[c])
  /\ run.trigger # "immediate" => (pending <=> AnyImmediate(channels))

IInv == TypeOK /\ AllArmed /\ RunShape /\ (~rewritten => Untouched)

LEMMA NormalizedType ==
  ASSUME NEW ch \in ChannelRecord PROVE Normalized(ch) \in 1 .. MaxCount
BY CountAssumption DEF Normalized, ChannelRecord

LEMMA InitHolds == Init => IInv
<1> SUFFICES ASSUME Init PROVE IInv
  OBVIOUS
<1>1. Off \in Control /\ ~Off.enable
  BY DEF Off, Control, Timings
<1>2. \A c \in Channel : /\ channels[c] \in ChannelRecord
                         /\ channels[c].control = Off
  BY <1>1, CountAssumption DEF Init, ChannelRecord, Destinations
<1>3. TypeOK
  <2>1. Idle \in RunRecord
    BY DEF Idle, RunRecord, ChannelCount
  <2>2. channels \in [Channel -> ChannelRecord]
    BY <1>2 DEF Init
  <2>3. QED
    BY <2>1, <2>2 DEF Init, TypeOK
<1>4. AllArmed /\ ~AnyImmediate(channels)
  BY <1>1, <1>2 DEF AllArmed, Armed, AnyImmediate, Immediate
<1>5. QED
  BY <1>3, <1>4 DEF Init, IInv, RunShape, Untouched, Idle

\* What write_control leaves of a channel: a channel of the same shape,
\* under the new control word, armed if it was.
LEMMA ControlledHolds ==
  ASSUME TypeOK, AllArmed, NEW c \in Channel, NEW value \in Control
  PROVE  /\ Controlled(c, value) \in ChannelRecord
         /\ Armed(Controlled(c, value))
         /\ Controlled(c, value).control = value
<1>1. channels[c] \in ChannelRecord /\ Armed(channels[c])
  BY DEF TypeOK, AllArmed
<1>2. Normalized(channels[c]) \in 1 .. MaxCount
  BY <1>1, NormalizedType
<1> DEFINE updated(n) == [channels[c] EXCEPT !.control = value, !.count = n]
<1>3. PICK n \in 0 .. MaxCount : Controlled(c, value) = updated(n) /\ (value.enable => n # 0)
  <2>1. channels[c].count \in 0 .. MaxCount /\ 0 \in 0 .. MaxCount
    BY <1>1, CountAssumption DEF ChannelRecord
  <2>2. CASE ~value.enable
    <3>1. Controlled(c, value) = updated(0)
      BY <2>2 DEF Controlled
    <3>2. QED
      BY <2>1, <2>2, <3>1
  <2>3. CASE value.enable /\ ~channels[c].control.enable
    <3>1. Controlled(c, value) = updated(Normalized(channels[c]))
      BY <2>3 DEF Controlled
    <3>2. Normalized(channels[c]) \in 0 .. MaxCount /\ Normalized(channels[c]) # 0
      BY <1>2, CountAssumption
    <3>3. QED
      BY <3>1, <3>2
  <2>4. CASE value.enable /\ channels[c].control.enable
    <3>1. channels[c].count # 0 /\ Normalized(channels[c]) # 0
      BY <1>1, <1>2, <2>4, CountAssumption DEF Armed
    <3>2. Controlled(c, value) \in {updated(Normalized(channels[c])), updated(channels[c].count)}
      BY <2>4 DEF Controlled
    <3>3. Normalized(channels[c]) \in 0 .. MaxCount
      BY <1>2
    <3>4. QED
      BY <2>1, <3>1, <3>2, <3>3
  <2>5. QED
    BY <2>2, <2>3, <2>4
<1>4. updated(n) \in ChannelRecord /\ updated(n).control = value /\ updated(n).count = n
  BY <1>1 DEF ChannelRecord
<1>5. QED
  BY <1>3, <1>4 DEF Armed

\* write_control keeps every channel armed and an exact flag exact.
LEMMA WriteControlHolds ==
  ASSUME TypeOK, AllArmed, NEW c \in Programmed, NEW value \in Controls, WriteControlOf(c, value)
  PROVE  /\ channels' \in [Channel -> ChannelRecord] /\ pending' \in BOOLEAN
         /\ AllArmed'
         /\ (pending <=> AnyImmediate(channels)) => (pending' <=> AnyImmediate(channels'))
<1>1. c \in Channel /\ value \in Control
  BY ProgrammedAssumption, ControlsAssumption
<1> DEFINE new == Controlled(c, value)
<1>2. new \in ChannelRecord /\ Armed(new)
  BY <1>1, ControlledHolds
<1> HIDE DEF new
<1>3. channels' = [channels EXCEPT ![c] = new]
  BY DEF WriteControlOf, new
<1>4. channels' \in [Channel -> ChannelRecord] /\ channels'[c] = new
        /\ \A d \in Channel \ {c} : channels'[d] = channels[d]
  BY <1>1, <1>2, <1>3 DEF TypeOK
<1>5. AllArmed'
  BY <1>2, <1>4 DEF AllArmed
<1>6. pending' \in BOOLEAN
  BY DEF WriteControlOf, TypeOK, Immediate, AnyImmediate
<1>7. ASSUME pending <=> AnyImmediate(channels) PROVE pending' <=> AnyImmediate(channels')
  <2>1. CASE Immediate(channels'[c])
    BY <1>1, <2>1 DEF WriteControlOf, AnyImmediate
  <2>2. CASE ~Immediate(channels'[c]) /\ Immediate(channels[c])
    BY <2>2 DEF WriteControlOf
  <2>3. CASE ~Immediate(channels'[c]) /\ ~Immediate(channels[c])
    <3>1. AnyImmediate(channels') <=> AnyImmediate(channels)
      BY <1>1, <1>4, <2>3 DEF AnyImmediate
    <3>2. pending' = pending
      BY <2>3 DEF WriteControlOf
    <3>3. QED
      BY <3>1, <3>2, <1>7
  <2>4. QED
    BY <2>1, <2>2, <2>3
<1>8. QED
  BY <1>4, <1>5, <1>6, <1>7

\* A write of a count or destination register reaches no control word.
LEMMA RegisterHolds ==
  ASSUME TypeOK, AllArmed, NEW c \in Programmed,
         \/ \E words \in Counts : channels' = [channels EXCEPT ![c].words = words]
         \/ \E d \in Destinations : channels' = [channels EXCEPT ![c].destination = d]
  PROVE  /\ channels' \in [Channel -> ChannelRecord]
         /\ AllArmed'
         /\ \A d \in Channel : channels'[d].control = channels[d].control
<1>1. c \in Channel /\ Counts \subseteq 0 .. MaxCount - 1
  BY ProgrammedAssumption, CountAssumption
<1>2. channels[c] \in ChannelRecord
  BY <1>1 DEF TypeOK
<1>3. CASE \E words \in Counts : channels' = [channels EXCEPT ![c].words = words]
  BY <1>1, <1>2, <1>3 DEF TypeOK, AllArmed, Armed, ChannelRecord
<1>4. CASE \E d \in Destinations : channels' = [channels EXCEPT ![c].destination = d]
  BY <1>1, <1>2, <1>4 DEF TypeOK, AllArmed, Armed, ChannelRecord
<1>5. QED
  BY <1>3, <1>4

---------------------------------------------------------------------------
(* The steps.                                                               *)

\* A call moves only between channels of the controller.
LEMMA NextChannel ==
  ASSUME RunShape, TypeOK, NEW still \in BOOLEAN, run.channel < ChannelCount
  PROVE  /\ [run EXCEPT !.channel = @ + 1] \in RunRecord
         /\ [run EXCEPT !.busy = FALSE, !.unit = 0, !.channel = @ + 1, !.still = still] \in RunRecord
<1>1. run \in RunRecord /\ run.channel + 1 \in 0 .. ChannelCount
  BY DEF TypeOK, RunRecord, ChannelCount
<1>2. [run EXCEPT !.channel = @ + 1] \in RunRecord
  BY <1>1 DEF RunRecord
<1>3. [run EXCEPT !.busy = FALSE, !.unit = 0, !.channel = @ + 1, !.still = still] \in RunRecord
  BY <1>1 DEF RunRecord
<1>4. QED
  BY <1>2, <1>3

\* What the completion of the channel being served does to it: it stays
\* enabled only if it repeats, with its count latched again.
LEMMA CompleteHolds ==
  ASSUME IInv, Complete
  PROVE  /\ channels' \in [Channel -> ChannelRecord]
         /\ AllArmed'
         /\ \A c \in Channel \ {run.channel} : channels'[c] = channels[c]
         /\ channels'[run.channel].control.timing = channels[run.channel].control.timing
         /\ (~Fifo(run.trigger) /\ channels[run.channel].control.timing = "immediate")
              => ~channels'[run.channel].control.enable
         /\ run'.still = (run.still \/ (run.trigger = "immediate" /\ Immediate(channels'[run.channel])))
<1> DEFINE c == run.channel
           ch == channels[c]
           again == ch.control.repeat /\ (Fifo(run.trigger) \/ ch.control.timing # "immediate")
           count == IF again THEN Normalized(ch) ELSE 0
           done == [ch EXCEPT !.count = count, !.control.enable = IF again THEN @ ELSE FALSE]
<1>1. c \in Channel /\ ch \in ChannelRecord /\ ch.control \in Control
  BY DEF IInv, TypeOK, RunShape, Complete, RunRecord, Channel, ChannelCount, ChannelRecord
<1>2. channels' = [channels EXCEPT ![c] = done] /\ run'.still = (run.still \/ (run.trigger = "immediate" /\ Immediate(done)))
  BY DEF Complete, IInv, TypeOK, RunRecord
<1>3. count \in 0 .. MaxCount /\ (again => count # 0)
  BY <1>1, NormalizedType, CountAssumption
<1>4. /\ done \in ChannelRecord
      /\ done.count = count
      /\ done.control.timing = ch.control.timing
      /\ done.control.enable = (IF again THEN ch.control.enable ELSE FALSE)
  <2> HIDE DEF count, again
  <2>1. QED
    BY <1>1, <1>3 DEF ChannelRecord, Control
<1>5. Armed(done)
  BY <1>3, <1>4 DEF Armed
<1>6. ~Fifo(run.trigger) /\ ch.control.timing = "immediate" => ~done.control.enable
  BY <1>4
<1> HIDE DEF done
<1>7. channels' \in [Channel -> ChannelRecord] /\ channels'[c] = done
        /\ \A d \in Channel \ {c} : channels'[d] = channels[d]
  BY <1>1, <1>2, <1>4 DEF IInv, TypeOK
<1>8. AllArmed'
  BY <1>5, <1>7 DEF IInv, AllArmed
<1>9. QED
  BY <1>2, <1>4, <1>6, <1>7, <1>8

\* The invariant survives every step that leaves the call in progress and the
\* control words of all channels alone.
LEMMA QuietHolds ==
  ASSUME IInv, AllArmed', channels' \in [Channel -> ChannelRecord], flags' \subseteq Channel,
         \A c \in Channel : channels'[c].control = channels[c].control,
         UNCHANGED <<pending, run, rewritten>>
  PROVE  IInv'
<1>1. TypeOK' /\ RunShape'
  BY DEF IInv, TypeOK, RunShape
<1>2. \A c \in Channel : Immediate(channels'[c]) <=> Immediate(channels[c])
  BY DEF Immediate
<1>3. AnyImmediate(channels') <=> AnyImmediate(channels)
  BY <1>2 DEF AnyImmediate
<1>4. ASSUME ~rewritten' PROVE Untouched'
  <2>1. Untouched
    BY <1>4 DEF IInv
  <2>2. run.busy => run.channel \in Channel
    BY DEF IInv, TypeOK, RunShape, RunRecord, Channel, ChannelCount
  <2>3. QED
    BY <1>2, <1>3, <2>1, <2>2 DEF Untouched
<1>5. QED
  BY <1>1, <1>4 DEF IInv

\* The invariant survives a step that ends the call in progress without
\* touching a channel and leaves the flag exact.
LEMMA EndHolds ==
  ASSUME IInv, run' = Idle, pending' \in BOOLEAN, UNCHANGED <<channels, flags, rewritten>>,
         ~rewritten => (pending' <=> AnyImmediate(channels))
  PROVE  IInv'
<1>1. Idle \in RunRecord
  BY DEF Idle, RunRecord, ChannelCount
<1>2. TypeOK' /\ AllArmed' /\ RunShape'
  BY <1>1 DEF IInv, TypeOK, AllArmed, RunShape, Idle
<1>3. ~rewritten' => Untouched'
  BY DEF Untouched, Idle
<1>4. QED
  BY <1>2, <1>3 DEF IInv

\* One step per operation of the controller.
LEMMA StepHolds == IInv /\ [Next]_vars => IInv'
<1> SUFFICES ASSUME IInv, [Next]_vars PROVE IInv'
  OBVIOUS
<1>1. ASSUME NEW c \in Programmed, NEW value \in Controls, WriteControl(c, value) PROVE IInv'
  <2>1. /\ channels' \in [Channel -> ChannelRecord] /\ pending' \in BOOLEAN /\ AllArmed'
        /\ (pending <=> AnyImmediate(channels)) => (pending' <=> AnyImmediate(channels'))
    BY <1>1, WriteControlHolds DEF WriteControl, IInv
  <2>2. TypeOK' /\ RunShape'
    BY <1>1, <2>1 DEF WriteControl, IInv, TypeOK, RunShape
  <2>3. ~rewritten => Untouched'
    BY <1>1, <2>1 DEF WriteControl, IInv, Untouched, Idle
  <2>4. QED
    BY <1>1, <2>1, <2>2, <2>3 DEF WriteControl, IInv
<1>2. ASSUME NEW c \in Programmed, NEW words \in Counts, WriteWordCount(c, words) PROVE IInv'
  <2>1. /\ channels' \in [Channel -> ChannelRecord] /\ AllArmed'
        /\ \A d \in Channel : channels'[d].control = channels[d].control
    BY <1>2, RegisterHolds DEF WriteWordCount, IInv
  <2>2. QED
    BY <1>2, <2>1, QuietHolds DEF WriteWordCount, IInv, TypeOK
<1>3. ASSUME NEW c \in Programmed, NEW d \in Destinations, WriteDestination(c, d) PROVE IInv'
  <2>1. /\ channels' \in [Channel -> ChannelRecord] /\ AllArmed'
        /\ \A e \in Channel : channels'[e].control = channels[e].control
    BY <1>3, RegisterHolds DEF WriteDestination, IInv
  <2>2. QED
    BY <1>3, <2>1, QuietHolds DEF WriteDestination, IInv, TypeOK
<1>4. CASE Acknowledge
  BY <1>4, QuietHolds DEF Acknowledge, IInv, TypeOK, AllArmed
<1>5. ASSUME NEW t \in Triggers, Trigger(t) PROVE IInv'
  <2>1. run' \in RunRecord /\ run'.trigger = t /\ ~run'.busy /\ run'.channel = 0 /\ ~run'.still
    <3>1. Idle \in RunRecord
      BY DEF Idle, RunRecord, ChannelCount
    <3>2. QED
      BY <1>5, <3>1 DEF Trigger, Idle, RunRecord
  <2>2. t # "none"
    BY DEF Triggers
  <2>3. TypeOK' /\ AllArmed' /\ RunShape'
    BY <1>5, <2>1, <2>2 DEF Trigger, IInv, TypeOK, AllArmed, RunShape
  <2>4. ~rewritten => Untouched'
    BY <1>5, <2>1 DEF Trigger, IInv, Untouched, Idle, Channel
  <2>5. QED
    BY <1>5, <2>3, <2>4 DEF Trigger, IInv
<1>6. CASE Skip
  <2>1. run.channel < ChannelCount /\ run.channel \in Channel /\ run.trigger # "none" /\ ~run.busy
    BY <1>6 DEF Skip, Scanning, IInv, TypeOK, RunRecord, Channel, ChannelCount
  <2>2. run' \in RunRecord
    BY <1>6, <2>1, NextChannel DEF Skip, IInv
  <2>3. run'.trigger = run.trigger /\ run'.busy = run.busy /\ run'.still = run.still
          /\ run'.channel = run.channel + 1
    BY <1>6 DEF Skip, IInv, TypeOK, RunRecord
  <2>4. TypeOK' /\ AllArmed' /\ RunShape'
    BY <1>6, <2>1, <2>2, <2>3 DEF Skip, IInv, TypeOK, AllArmed, RunShape
  <2>5. run.trigger = "immediate" => ~Immediate(channels[run.channel])
    BY <1>6 DEF Skip, Selected, Immediate, Fifo
  <2>6. ASSUME ~rewritten PROVE Untouched'
    <3>1. Untouched
      BY <2>6 DEF IInv
    <3>2. ASSUME run.trigger = "immediate", NEW c \in Channel, c < run.channel + 1
          PROVE  ~Immediate(channels[c])
      <4>1. c < run.channel \/ c = run.channel
        BY <2>1, <3>2 DEF Channel, ChannelCount
      <4>2. QED
        BY <2>5, <3>1, <3>2, <4>1 DEF Untouched
    <3>3. QED
      BY <1>6, <2>1, <2>3, <3>1, <3>2 DEF Skip, Untouched
  <2>7. QED
    BY <1>6, <2>4, <2>6 DEF Skip, IInv
<1>7. CASE Refuse
  <2>1. run.channel \in Channel
    BY <1>7 DEF Refuse, Scanning, IInv, TypeOK, RunRecord, Channel, ChannelCount
  <2>2. run.trigger = "immediate" => AnyImmediate(channels)
    BY <1>7, <2>1 DEF Refuse, Selected, Fifo, Immediate, AnyImmediate
  <2>3. ASSUME ~rewritten PROVE pending' <=> AnyImmediate(channels)
    BY <1>7, <2>2, <2>3 DEF Refuse, IInv, Untouched
  <2>4. QED
    BY <1>7, <2>3, EndHolds DEF Refuse, IInv, TypeOK
<1>8. CASE Start
  <2>1. run.channel \in Channel /\ run.channel < ChannelCount /\ run.trigger # "none"
    BY <1>8 DEF Start, Scanning, IInv, TypeOK, RunRecord, Channel, ChannelCount
  <2>2. run' \in RunRecord /\ run'.trigger = run.trigger /\ run'.busy /\ run'.still = run.still
          /\ run'.channel = run.channel
    BY <1>8 DEF Start, IInv, TypeOK, RunRecord
  <2>3. TypeOK' /\ AllArmed' /\ RunShape'
    BY <1>8, <2>1, <2>2 DEF Start, IInv, TypeOK, AllArmed, RunShape
  <2>4. ASSUME ~rewritten PROVE Untouched'
    <3>1. Untouched
      BY <2>4 DEF IInv
    <3>2. channels[run.channel].control.enable
            /\ channels[run.channel].control.timing = TimingOf(run.trigger)
      BY <1>8 DEF Start, Selected, TimingOf
    <3>3. QED
      BY <1>8, <2>2, <3>1, <3>2 DEF Start, Untouched
  <2>5. QED
    BY <1>8, <2>3, <2>4 DEF Start, IInv
<1>9. CASE Unreadable
  <2>1. ~rewritten => (pending <=> AnyImmediate(channels))
    BY <1>9 DEF Unreadable, Fifo, IInv, Untouched
  <2>2. QED
    BY <1>9, <2>1, EndHolds DEF Unreadable, IInv, TypeOK
<1>10. CASE Transfer
  <2>1. run' \in RunRecord /\ run'.trigger = run.trigger /\ run'.busy = run.busy /\ run.busy
          /\ run'.still = run.still /\ run'.channel = run.channel
    <3>1. run' = [run EXCEPT !.unit = @ + 1] /\ run.busy
      BY <1>10 DEF Transfer
    <3>2. run \in RunRecord /\ run.unit + 1 \in Nat
      BY DEF IInv, TypeOK, RunRecord
    <3>3. QED
      BY <3>1, <3>2 DEF RunRecord
  <2>2. run.channel \in Channel
    BY <2>1 DEF IInv, TypeOK, RunShape, RunRecord, Channel, ChannelCount
  <2>3. RunShape' /\ flags' = flags
    BY <1>10, <2>1 DEF Transfer, IInv, RunShape
  <2>4. ASSUME channels' \in [Channel -> ChannelRecord], AllArmed', UNCHANGED <<pending, rewritten>>,
               \A d \in Channel : channels'[d].control = channels[d].control
        PROVE  IInv'
    <3>1. TypeOK'
      BY <2>1, <2>3, <2>4 DEF IInv, TypeOK
    <3>2. \A d \in Channel : Immediate(channels'[d]) <=> Immediate(channels[d])
      BY <2>4 DEF Immediate
    <3>3. AnyImmediate(channels') <=> AnyImmediate(channels)
      BY <3>2 DEF AnyImmediate
    <3>4. ASSUME ~rewritten PROVE Untouched'
      BY <2>1, <2>2, <2>4, <3>2, <3>3, <3>4 DEF IInv, Untouched
    <3>5. QED
      BY <2>3, <2>4, <3>1, <3>4 DEF IInv
  <2>5. CASE UNCHANGED <<channels, pending, rewritten>>
    BY <2>4, <2>5 DEF IInv, TypeOK, AllArmed
  <2>6. ASSUME NEW c \in Programmed, UNCHANGED <<pending, rewritten>>,
               \/ \E words \in Counts : channels' = [channels EXCEPT ![c].words = words]
               \/ \E d \in Destinations : channels' = [channels EXCEPT ![c].destination = d]
        PROVE  IInv'
    <3>1. /\ channels' \in [Channel -> ChannelRecord] /\ AllArmed'
          /\ \A d \in Channel : channels'[d].control = channels[d].control
      BY <2>6, RegisterHolds DEF IInv
    <3>2. QED
      BY <2>4, <2>6, <3>1
  <2>7. ASSUME NEW c \in Programmed, NEW value \in Rewrites, WriteControlOf(c, value), rewritten' = TRUE
        PROVE  IInv'
    <3>1. value \in Controls
      BY RewritesAssumption
    <3>2. channels' \in [Channel -> ChannelRecord] /\ pending' \in BOOLEAN /\ AllArmed'
      BY <2>7, <3>1, WriteControlHolds DEF IInv
    <3>3. QED
      BY <2>1, <2>3, <2>7, <3>2 DEF IInv, TypeOK
  <2>8. QED
    BY <1>10, <2>5, <2>6, <2>7 DEF Transfer
<1>11. CASE Complete
  <2> DEFINE c == run.channel
  <2>1. c \in Channel /\ c < ChannelCount /\ run.busy /\ run.trigger # "none"
    BY <1>11 DEF Complete, IInv, TypeOK, RunShape, RunRecord, Channel, ChannelCount
  <2>2. /\ channels' \in [Channel -> ChannelRecord] /\ AllArmed'
        /\ \A d \in Channel \ {c} : channels'[d] = channels[d]
        /\ channels'[c].control.timing = channels[c].control.timing
        /\ (~Fifo(run.trigger) /\ channels[c].control.timing = "immediate") => ~channels'[c].control.enable
        /\ run'.still = (run.still \/ (run.trigger = "immediate" /\ Immediate(channels'[c])))
    BY <1>11, CompleteHolds
  <2>3. run'.trigger = run.trigger /\ ~run'.busy /\ run'.channel = c + 1
    BY <1>11 DEF Complete, IInv, TypeOK, RunRecord
  <2>4. run' \in RunRecord
    <3>1. PICK still \in BOOLEAN :
            run' = [run EXCEPT !.busy = FALSE, !.unit = 0, !.channel = @ + 1, !.still = still]
      BY <1>11 DEF Complete, IInv, TypeOK, RunRecord, Immediate
    <3>2. QED
      BY <2>1, <3>1, NextChannel DEF IInv
  <2>5. flags' \subseteq Channel /\ UNCHANGED <<pending, rewritten>>
    BY <1>11, <2>1 DEF Complete, IInv, TypeOK
  <2>6. TypeOK' /\ RunShape'
    BY <2>1, <2>2, <2>3, <2>4, <2>5 DEF IInv, TypeOK, RunShape
  <2>7. ASSUME ~rewritten PROVE Untouched'
    <3>1. Untouched /\ channels[c].control.enable /\ channels[c].control.timing = TimingOf(run.trigger)
      BY <2>1, <2>7 DEF IInv, Untouched
    <3>2. CASE run.trigger = "immediate"
      <4>1. ~Immediate(channels'[c])
        BY <2>2, <3>1, <3>2 DEF TimingOf, Fifo, Immediate
      <4>2. ASSUME NEW d \in Channel, d < c + 1 PROVE ~Immediate(channels'[d])
        <5>1. d < c \/ d = c
          BY <2>1, <4>2 DEF Channel, ChannelCount
        <5>2. d < c => d \in Channel \ {c}
          BY <2>1 DEF Channel, ChannelCount
        <5>3. QED
          BY <2>2, <3>1, <3>2, <4>1, <5>1, <5>2 DEF Untouched
      <4>3. ~run'.still
        BY <2>2, <3>1, <3>2, <4>1 DEF Untouched
      <4>4. QED
        BY <2>3, <3>2, <4>2, <4>3 DEF Untouched
    <3>3. CASE run.trigger # "immediate"
      <4>1. ~Immediate(channels[c]) /\ ~Immediate(channels'[c])
        BY <2>2, <3>1, <3>3 DEF TimingOf, Immediate
      <4>2. AnyImmediate(channels') <=> AnyImmediate(channels)
        BY <2>1, <2>2, <4>1 DEF AnyImmediate
      <4>3. QED
        BY <2>3, <2>5, <3>1, <3>3, <4>2 DEF Untouched
    <3>4. QED
      BY <3>2, <3>3
  <2>8. QED
    BY <2>2, <2>5, <2>6, <2>7 DEF IInv
<1>12. CASE Return
  <2>1. ASSUME ~rewritten PROVE pending' <=> AnyImmediate(channels)
    <3>1. Untouched
      BY <2>1 DEF IInv
    <3>2. CASE run.trigger = "immediate"
      <4>1. \A c \in Channel : c < run.channel
        BY <1>12 DEF Return, Channel, ChannelCount
      <4>2. QED
        BY <1>12, <3>1, <3>2, <4>1 DEF Return, Untouched, AnyImmediate
    <3>3. CASE run.trigger # "immediate"
      BY <1>12, <3>1, <3>3 DEF Return, Untouched
    <3>4. QED
      BY <3>2, <3>3
  <2>2. pending' \in BOOLEAN
    BY <1>12 DEF Return, IInv, TypeOK, RunRecord
  <2>3. QED
    BY <1>12, <2>1, <2>2, EndHolds DEF Return
<1>13. CASE SaveAndLoad
  BY <1>13, EndHolds DEF SaveAndLoad, AnyImmediate
<1>14. CASE UNCHANGED vars
  BY <1>14, QuietHolds DEF vars, IInv, TypeOK, AllArmed
<1>15. QED
  BY <1>1, <1>2, <1>3, <1>4, <1>5, <1>6, <1>7, <1>8, <1>9, <1>10, <1>11, <1>12, <1>13, <1>14
     DEF Next

LEMMA InvariantHolds == Spec => []IInv
BY InitHolds, StepHolds, PTL DEF Spec

---------------------------------------------------------------------------
(* Theorems.                                                                *)

\* Every reachable state of the controller is well typed: a count never
\* exceeds the size of its register and a call never leaves the channels.
THEOREM TypeCorrect == Spec => []TypeOK
<1>1. IInv => TypeOK
  BY DEF IInv
<1>2. QED
  BY <1>1, InvariantHolds, PTL

\* An enabled channel is armed for its next trigger: whatever a transfer
\* writes to the controller while execute_channel reads the live registers.
THEOREM EnabledChannelsAreArmed == Spec => []EnabledIsArmed
<1>1. IInv => EnabledIsArmed
  BY DEF IInv, AllArmed, Armed, EnabledIsArmed
<1>2. QED
  BY <1>1, InvariantHolds, PTL

\* immediate_pending_ says exactly whether an immediate transfer waits, after
\* any sequence of register writes, triggers and state loads, unless a
\* transfer has written a control register: the fast paths that skip the
\* controller when the flag is clear skip nothing.
THEOREM PendingFlagIsExact == Spec => []PendingIsExact
<1>1. IInv => PendingIsExact
  BY DEF IInv, Untouched, PendingIsExact, Idle
<1>2. QED
  BY <1>1, InvariantHolds, PTL

---------------------------------------------------------------------------
(* The sound unit. Division with remainder:                                 *)

LEMMA MultiplesOrder ==
  ASSUME NEW F \in Nat \ {0}, NEW m \in Int, NEW p \in Int, m * F < p * F
  PROVE  m < p
<1> SUFFICES ASSUME m >= p PROVE FALSE
  OBVIOUS
<1>1. (m - p) * F >= 0
  OBVIOUS
<1>2. (m - p) * F = m * F - p * F
  OBVIOUS
<1> QED
  BY <1>1, <1>2

LEMMA Division ==
  ASSUME NEW F \in Nat \ {0}, NEW a \in Int
  PROVE  /\ a \div F \in Int
         /\ a % F \in 0 .. F - 1
         /\ a = (a \div F) * F + (a % F)
<1>1. F \in Int /\ F > 0
  OBVIOUS
<1>2. a = F * (a \div F) + (a % F)
  BY <1>1, Z3
<1>3. a % F \in 0 .. F - 1 /\ a \div F \in Int
  OBVIOUS
<1> DEFINE q == a \div F
           r == a % F
<1> HIDE DEF q, r
<1>4. q \in Int /\ r \in Int /\ a = F * q + r
  BY <1>2, <1>3 DEF q, r
<1>5. a = q * F + r
  BY <1>4
<1> QED
  BY <1>3, <1>5, Zenon DEF q, r

\* Quotient and remainder are unique.
LEMMA Remainder ==
  ASSUME NEW F \in Nat \ {0}, NEW a \in Int, NEW k \in Int, NEW r \in 0 .. F - 1,
         a = k * F + r
  PROVE  a % F = r /\ a \div F = k
<1> DEFINE q == a \div F
           s == a % F
<1>1. q \in Int /\ s \in 0 .. F - 1 /\ a = q * F + s
  BY Division
<1> HIDE DEF q, s
<1>2. (k + 1) * F = k * F + F /\ (q + 1) * F = q * F + F
  BY <1>1
<1>3. k * F \in Int /\ q * F \in Int
  BY <1>1
<1>4. k < q + 1
  <2>1. k * F < (q + 1) * F /\ q + 1 \in Int
    BY <1>1, <1>2, <1>3
  <2> QED
    BY <1>1, <2>1, MultiplesOrder
<1>5. q < k + 1
  <2>1. q * F < (k + 1) * F /\ k + 1 \in Int
    BY <1>1, <1>2, <1>3
  <2> QED
    BY <1>1, <2>1, MultiplesOrder
<1>6. q = k
  BY <1>1, <1>4, <1>5
<1>7. s = r
  BY <1>1, <1>3, <1>6
<1> QED
  BY <1>6, <1>7 DEF q, s

LEMMA Congruent ==
  ASSUME NEW F \in Nat \ {0}, NEW a \in Int, NEW b \in Int, NEW k \in Int, a = b + k * F
  PROVE  a % F = b % F
<1> DEFINE q == b \div F
           s == b % F
<1>1. q \in Int /\ s \in 0 .. F - 1 /\ b = q * F + s
  BY Division
<1> HIDE DEF q, s
<1>2. (q + k) * F = q * F + k * F /\ q * F \in Int /\ k * F \in Int
  BY <1>1
<1>3. q + k \in Int /\ a = (q + k) * F + s
  BY <1>1, <1>2
<1>4. a % F = s
  BY <1>1, <1>3, Remainder
<1> QED
  BY <1>4 DEF s

LEMMA AddRemainder ==
  ASSUME NEW F \in Nat \ {0}, NEW a \in Int, NEW b \in Int
  PROVE  ((a % F) + b) % F = (a + b) % F
<1> DEFINE q == a \div F
           s == a % F
<1>1. q \in Int /\ s \in 0 .. F - 1 /\ a = q * F + s
  BY Division
<1> HIDE DEF q, s
<1>2. q * F \in Int /\ a + b \in Int /\ s + b \in Int
  BY <1>1
<1>3. a + b = (s + b) + q * F
  BY <1>1, <1>2
<1>4. (a + b) % F = (s + b) % F
  BY <1>1, <1>2, <1>3, Congruent
<1> QED
  BY <1>4 DEF s

\* The least of a nonempty set of natural numbers.
LEMMA LeastElement ==
  ASSUME NEW S \in SUBSET Nat, S # {}
  PROVE  \E x \in S : \A y \in S : x <= y
<1> DEFINE R == {ss \in Nat \X Nat : ss[1] < ss[2]}
<1>1. IsWellFoundedOn(R, Nat)
  BY NatLessThanWellFounded DEF OpToRel
<1> HIDE DEF R
<1>2. PICK x \in S : \A y \in S : ~(<<y, x>> \in R)
  BY <1>1, WFMin
<1>3. ASSUME NEW y \in S PROVE x <= y
  <2>1. x \in Nat /\ y \in Nat /\ <<y, x>> \in Nat \X Nat
    OBVIOUS
  <2>2. ~(y < x)
    BY <1>2, <2>1 DEF R
  <2>3. QED
    BY <2>1, <2>2
<1>4. QED
  BY <1>3

\* Two numbers less than F apart have different remainders.
LEMMA DistinctRemainders ==
  ASSUME NEW F \in Nat \ {0}, NEW a \in Int, NEW b \in Int, a < b, b < a + F
  PROVE  a % F # b % F
<1>1. PICK q \in Int, s \in 0 .. F - 1 : s = a % F /\ a = q * F + s
  BY Division
<1>2. PICK p \in Int, u \in 0 .. F - 1 : u = b % F /\ b = p * F + u
  BY Division
<1>3. SUFFICES ASSUME s = u PROVE FALSE
  BY <1>1, <1>2
<1>4. /\ q * F \in Int /\ p * F \in Int
      /\ (q + 1) * F = q * F + F /\ q + 1 \in Int
  BY <1>1, <1>2
<1>5. q * F < p * F /\ p * F < (q + 1) * F
  BY <1>1, <1>2, <1>3, <1>4
<1>6. q < p
  BY <1>5, MultiplesOrder
<1>7. p < q + 1
  BY <1>4, <1>5, MultiplesOrder
<1>8. QED
  BY <1>6, <1>7

LEMMA SmallRemainder ==
  ASSUME NEW F \in Nat \ {0}, NEW a \in 0 .. F - 1
  PROVE  a % F = a
<1>1. a = 0 * F + a /\ a \in Int /\ 0 \in Int
  OBVIOUS
<1>2. QED
  BY <1>1, Remainder

---------------------------------------------------------------------------
(* The circular buffers.                                                    *)

\* A buffer of C slots.
IsBuffer(b, C) ==
  /\ b = [samples |-> b.samples, head |-> b.head, size |-> b.size]
  /\ b.samples = [i \in 0 .. C - 1 |-> b.samples[i]]
  /\ b.head \in 0 .. C - 1 /\ b.size \in 0 .. C

\* The i-th of its items, oldest first.
Item(b, i, C) == b.samples[(b.head + i - 1) % C]

\* d is the buffer b after n items were pushed: it lacks the oldest ones, as
\* many as had no room, and the others have kept their order.
Pushes(b, d, n, C) ==
  /\ IsBuffer(d, C)
  /\ d.size = IF b.size + n <= C THEN b.size + n ELSE C
  /\ \A i \in 1 .. d.size :
       i <= d.size - n => Item(d, i, C) = Item(b, i + b.size + n - d.size, C)

LEMMA SlotsIs == ASSUME NEW C \in Nat \ {0}, NEW b, IsBuffer(b, C) PROVE Slots(b) = C
<1>1. DOMAIN b.samples = 0 .. C - 1
  BY DEF IsBuffer
<1>2. Cardinality(0 .. C - 1) = C
  <2>1. 0 \in Int /\ C - 1 \in Int /\ C - 1 - 0 + 1 = C /\ 0 <= C - 1
    OBVIOUS
  <2>2. QED
    BY <2>1, FS_Interval
<1>3. QED
  BY <1>1, <1>2 DEF Slots

\* The updates of a buffer, field by field.
Stored(b, slot, x) == [b EXCEPT !.samples[slot] = x, !.size = @ + 1]

LEMMA ItemStored ==
  ASSUME NEW b, NEW slot, NEW x,
         b = [samples |-> b.samples, head |-> b.head, size |-> b.size]
  PROVE  Stored(b, slot, x)
           = [samples |-> [b.samples EXCEPT ![slot] = x], head |-> b.head, size |-> b.size + 1]
<1>1. DOMAIN b = {"samples", "head", "size"}
  OBVIOUS
<1>2. PICK e : e = [b EXCEPT !.samples[slot] = x, !.size = @ + 1] /\ e = Stored(b, slot, x)
  BY DEF Stored
<1>3. e = [f \in {"samples", "head", "size"} |->
            IF f = "size" THEN b.size + 1
            ELSE IF f = "samples" THEN [b.samples EXCEPT ![slot] = x] ELSE b[f]]
  BY <1>1, <1>2
<1>4. e.samples = [b.samples EXCEPT ![slot] = x] /\ e.head = b.head /\ e.size = b.size + 1
  BY <1>1, <1>3
<1>5. e = [samples |-> [b.samples EXCEPT ![slot] = x], head |-> b.head, size |-> b.size + 1]
  BY <1>3, <1>4
<1>6. QED
  BY <1>2, <1>5

LEMMA HeadMoved ==
  ASSUME NEW b, NEW g, b = [samples |-> b.samples, head |-> b.head, size |-> b.size]
  PROVE  [b EXCEPT !.head = g, !.size = @ - 1]
           = [samples |-> b.samples, head |-> g, size |-> b.size - 1]
<1>1. DOMAIN b = {"samples", "head", "size"}
  OBVIOUS
<1>2. PICK e : e = [b EXCEPT !.head = g, !.size = @ - 1]
  OBVIOUS
<1>3. e = [f \in {"samples", "head", "size"} |->
            IF f = "size" THEN b.size - 1 ELSE IF f = "head" THEN g ELSE b[f]]
  BY <1>1, <1>2
<1>4. e.samples = b.samples /\ e.head = g /\ e.size = b.size - 1
  BY <1>1, <1>3
<1>5. e = [samples |-> b.samples, head |-> g, size |-> b.size - 1]
  BY <1>3, <1>4
<1>6. QED
  BY <1>2, <1>5

LEMMA PushOne ==
  ASSUME NEW C \in Nat \ {0}, NEW b, IsBuffer(b, C), NEW x
  PROVE  Pushes(b, Pushed(b, x), 1, C)
<1>0. PICK s : s = b.samples
  OBVIOUS
<1>1. PICK h \in 0 .. C - 1, n \in 0 .. C :
        /\ h = b.head /\ n = b.size /\ s = b.samples
        /\ b = [samples |-> s, head |-> h, size |-> n]
        /\ s = [i \in 0 .. C - 1 |-> s[i]]
  BY <1>0 DEF IsBuffer
<1>2. Slots(b) = C
  BY SlotsIs
<1>3. CASE n < C
  <2>1. PICK tail : tail = (h + n) % C
    OBVIOUS
  <2>2. tail \in 0 .. C - 1
    <3>1. h + n \in Int
      OBVIOUS
    <3>2. QED
      BY <2>1, <3>1, Division
  <2>3. PICK d : d = [samples |-> [s EXCEPT ![tail] = x], head |-> h, size |-> n + 1]
    OBVIOUS
  <2>4. Pushed(b, x) = d
    <3>1. Room(b) = b
      BY <1>1, <1>2, <1>3 DEF Room
    <3>2. (b.head + b.size) % Slots(b) = tail
      BY <1>1, <1>2, <2>1
    <3>3. Stored(b, tail, x) = d
      <4>1. b = [samples |-> b.samples, head |-> b.head, size |-> b.size]
        BY DEF IsBuffer
      <4>2. Stored(b, tail, x)
              = [samples |-> [b.samples EXCEPT ![tail] = x], head |-> b.head, size |-> b.size + 1]
        BY <4>1, ItemStored
      <4>3. QED
        BY <1>1, <2>3, <4>2
    <3>4. QED
      BY <3>1, <3>2, <3>3 DEF Pushed, Stored
  <2>5. d.head = h /\ d.size = n + 1 /\ d.samples = [s EXCEPT ![tail] = x]
    BY <2>3
  <2>6. IsBuffer(d, C)
    <3>1. [s EXCEPT ![tail] = x] = [i \in 0 .. C - 1 |-> [s EXCEPT ![tail] = x][i]]
      BY <1>1
    <3>2. d = [samples |-> d.samples, head |-> d.head, size |-> d.size]
      BY <2>3
    <3>3. n + 1 \in 0 .. C
      BY <1>3
    <3>4. QED
      BY <2>5, <3>1, <3>2, <3>3 DEF IsBuffer
  <2>7. ASSUME NEW i \in 1 .. n PROVE Item(d, i, C) = Item(b, i, C)
    <3>1. /\ h + i - 1 \in Int /\ h + n \in Int /\ h + i - 1 < h + n
          /\ h + n < (h + i - 1) + C
      BY <1>3
    <3>2. (h + i - 1) % C # tail
      BY <2>1, <3>1, DistinctRemainders
    <3>3. (h + i - 1) % C \in 0 .. C - 1
      BY <3>1, Division
    <3>4. [s EXCEPT ![tail] = x][(h + i - 1) % C] = s[(h + i - 1) % C]
      BY <1>1, <3>2, <3>3
    <3>5. QED
      BY <1>1, <2>5, <3>4 DEF Item
  <2>8. ASSUME NEW i \in 1 .. d.size, i <= d.size - 1
        PROVE  Item(d, i, C) = Item(b, i + b.size + 1 - d.size, C)
    <3>1. i \in 1 .. n /\ i + b.size + 1 - d.size = i
      BY <1>1, <2>5, <2>8
    <3>2. QED
      BY <2>7, <3>1
  <2>9. d.size = IF b.size + 1 <= C THEN b.size + 1 ELSE C
    BY <1>1, <1>3, <2>5
  <2>10. QED
    BY <2>4, <2>6, <2>8, <2>9 DEF Pushes
<1>4. CASE n = C
  <2>1. PICK g : g = (h + 1) % C
    OBVIOUS
  <2>2. PICK tail : tail = (g + (C - 1)) % C
    OBVIOUS
  <2>3. g \in 0 .. C - 1 /\ tail \in 0 .. C - 1
    <3>1. h + 1 \in Int
      OBVIOUS
    <3>2. g \in 0 .. C - 1
      BY <2>1, <3>1, Division
    <3>3. g + (C - 1) \in Int
      BY <3>2
    <3>4. QED
      BY <2>2, <3>2, <3>3, Division
  <2>4. PICK d : d = [samples |-> [s EXCEPT ![tail] = x], head |-> g, size |-> C]
    OBVIOUS
  <2>5. Pushed(b, x) = d
    <3>1. PICK r : r = [samples |-> s, head |-> g, size |-> C - 1]
      OBVIOUS
    <3>2. Room(b) = r
      <4>1. Room(b) = [b EXCEPT !.head = (@ + 1) % C, !.size = @ - 1]
        <5>1. ~(b.size < Slots(b))
          BY <1>1, <1>2, <1>4
        <5>2. QED
          BY <1>2, <5>1, Zenon DEF Room
      <4>2. [b EXCEPT !.head = (@ + 1) % C, !.size = @ - 1] = [b EXCEPT !.head = g, !.size = @ - 1]
        BY <1>1, <2>1
      <4>3. [b EXCEPT !.head = g, !.size = @ - 1] = [samples |-> s, head |-> g, size |-> n - 1]
        <5>1. b = [samples |-> b.samples, head |-> b.head, size |-> b.size]
          BY DEF IsBuffer
        <5>2. [b EXCEPT !.head = g, !.size = @ - 1]
                = [samples |-> b.samples, head |-> g, size |-> b.size - 1]
          BY <5>1, HeadMoved
        <5>3. QED
          BY <1>1, <5>2
      <4>4. QED
        BY <1>4, <3>1, <4>1, <4>2, <4>3
    <3>3. IsBuffer(r, C)
      BY <1>1, <2>3, <3>1 DEF IsBuffer
    <3>4. (r.head + r.size) % Slots(b) = tail
      BY <1>2, <2>2, <3>1
    <3>5. Stored(r, tail, x) = d
      <4>1. r = [samples |-> r.samples, head |-> r.head, size |-> r.size]
        BY <3>3 DEF IsBuffer
      <4>2. Stored(r, tail, x)
              = [samples |-> [r.samples EXCEPT ![tail] = x], head |-> r.head, size |-> r.size + 1]
        BY <4>1, ItemStored
      <4>3. r.samples = s /\ r.head = g /\ r.size + 1 = C
        BY <3>1
      <4>4. QED
        BY <2>4, <4>2, <4>3
    <3>6. QED
      BY <3>2, <3>4, <3>5 DEF Pushed, Stored
  <2>6. d.head = g /\ d.size = C /\ d.samples = [s EXCEPT ![tail] = x]
    BY <2>4
  <2>7. IsBuffer(d, C)
    <3>1. [s EXCEPT ![tail] = x] = [i \in 0 .. C - 1 |-> [s EXCEPT ![tail] = x][i]]
      BY <1>1
    <3>2. d = [samples |-> d.samples, head |-> d.head, size |-> d.size]
      BY <2>4
    <3>3. QED
      BY <2>3, <2>6, <3>1, <3>2 DEF IsBuffer
  <2>8. ASSUME NEW i \in 1 .. C - 1 PROVE Item(d, i, C) = Item(b, i + 1, C)
    <3>1. (g + (i - 1)) % C = (h + 1 + (i - 1)) % C
      <4>1. h + 1 \in Int /\ i - 1 \in Int
        OBVIOUS
      <4>2. QED
        BY <2>1, <4>1, AddRemainder
    <3>2. (g + i - 1) % C = (h + (i + 1) - 1) % C
      <4>1. g + (i - 1) = g + i - 1 /\ h + 1 + (i - 1) = h + (i + 1) - 1
        BY <2>3
      <4>2. QED
        BY <3>1, <4>1
    <3>3. /\ g + i - 1 \in Int /\ g + (C - 1) \in Int
          /\ g + i - 1 < g + (C - 1) /\ g + (C - 1) < (g + i - 1) + C
      BY <2>3
    <3>4. (g + i - 1) % C # tail /\ (g + i - 1) % C \in 0 .. C - 1
      <4>1. (g + i - 1) % C # tail
        BY <2>2, <3>3, DistinctRemainders
      <4>2. (g + i - 1) % C \in 0 .. C - 1
        BY <3>3, Division
      <4>3. QED
        BY <4>1, <4>2
    <3>5. [s EXCEPT ![tail] = x][(g + i - 1) % C] = s[(g + i - 1) % C]
      BY <1>1, <3>4
    <3>6. QED
      BY <1>1, <2>6, <3>2, <3>5 DEF Item
  <2>9. ASSUME NEW i \in 1 .. d.size, i <= d.size - 1
        PROVE  Item(d, i, C) = Item(b, i + b.size + 1 - d.size, C)
    <3>1. i \in 1 .. C - 1 /\ i + b.size + 1 - d.size = i + 1
      BY <1>1, <1>4, <2>6, <2>9
    <3>2. QED
      BY <2>8, <3>1
  <2>10. d.size = IF b.size + 1 <= C THEN b.size + 1 ELSE C
    BY <1>1, <1>4, <2>6
  <2>11. QED
    BY <2>5, <2>7, <2>9, <2>10 DEF Pushes
<1>5. QED
  BY <1>3, <1>4

\* No push at all, and pushes one after the other.
LEMMA PushNone ==
  ASSUME NEW C \in Nat \ {0}, NEW b, IsBuffer(b, C)
  PROVE  Pushes(b, b, 0, C)
<1>1. b.size \in 0 .. C
  BY DEF IsBuffer
<1>2. \A i \in 1 .. b.size : i + b.size + 0 - b.size = i
  BY <1>1
<1>3. b.size = IF b.size + 0 <= C THEN b.size + 0 ELSE C
  BY <1>1
<1>4. QED
  BY <1>2, <1>3 DEF Pushes

LEMMA PushMore ==
  ASSUME NEW C \in Nat \ {0}, NEW b, NEW d, NEW e, NEW n \in Nat, NEW m \in Nat,
         IsBuffer(b, C), Pushes(b, d, n, C), Pushes(d, e, m, C)
  PROVE  Pushes(b, e, n + m, C)
<1>1. b.size \in 0 .. C /\ d.size \in 0 .. C /\ e.size \in 0 .. C /\ IsBuffer(e, C)
  BY DEF IsBuffer, Pushes
<1>2. /\ d.size = IF b.size + n <= C THEN b.size + n ELSE C
      /\ e.size = IF d.size + m <= C THEN d.size + m ELSE C
  BY DEF Pushes
<1>3. e.size = IF b.size + (n + m) <= C THEN b.size + (n + m) ELSE C
  BY <1>1, <1>2
<1>4. ASSUME NEW i \in 1 .. e.size, i <= e.size - (n + m)
      PROVE  Item(e, i, C) = Item(b, i + b.size + (n + m) - e.size, C)
  <2>1. PICK j \in Int : j = i + d.size + m - e.size
    BY <1>1
  <2>2. j \in 1 .. d.size /\ j <= d.size - n /\ i <= e.size - m
    BY <1>1, <1>2, <1>4, <2>1
  <2>3. Item(e, i, C) = Item(d, j, C)
    BY <2>1, <2>2 DEF Pushes
  <2>4. Item(d, j, C) = Item(b, j + b.size + n - d.size, C)
    BY <2>2 DEF Pushes
  <2>5. j + b.size + n - d.size = i + b.size + (n + m) - e.size
    BY <1>1, <2>1
  <2>6. QED
    BY <2>3, <2>4, <2>5
<1>5. QED
  BY <1>1, <1>3, <1>4 DEF Pushes

\* d is the buffer b after its oldest item was taken.
Pops(b, d, C) ==
  /\ IsBuffer(d, C) /\ d.size = b.size - 1
  /\ \A i \in 1 .. d.size : Item(d, i, C) = Item(b, i + 1, C)

LEMMA PopOne ==
  ASSUME NEW C \in Nat \ {0}, NEW b, IsBuffer(b, C), b.size # 0
  PROVE  Pops(b, Popped(b), C)
<1>1. PICK g : g = (b.head + 1) % C
  OBVIOUS
<1>2. b.head \in 0 .. C - 1 /\ b.size \in 1 .. C
  BY DEF IsBuffer
<1>3. g \in 0 .. C - 1
  <2>1. b.head + 1 \in Int
    BY <1>2
  <2>2. QED
    BY <1>1, <2>1, Division
<1>4. PICK d : d = [samples |-> b.samples, head |-> g, size |-> b.size - 1]
  OBVIOUS
<1>5. Popped(b) = d
  <2>1. Popped(b) = [b EXCEPT !.head = g, !.size = @ - 1]
    BY <1>1, SlotsIs DEF Popped
  <2>2. b = [samples |-> b.samples, head |-> b.head, size |-> b.size]
    BY DEF IsBuffer
  <2>3. [b EXCEPT !.head = g, !.size = @ - 1]
          = [samples |-> b.samples, head |-> g, size |-> b.size - 1]
    BY <2>2, HeadMoved
  <2>4. QED
    BY <1>4, <2>1, <2>3
<1>6. d.samples = b.samples /\ d.head = g /\ d.size = b.size - 1
  BY <1>4
<1>7. IsBuffer(d, C)
  BY <1>2, <1>3, <1>4, <1>6 DEF IsBuffer
<1>8. ASSUME NEW i \in 1 .. d.size PROVE Item(d, i, C) = Item(b, i + 1, C)
  <2>1. b.head + 1 \in Int /\ i \in Int /\ i - 1 \in Int
    BY <1>2, <1>6
  <2>2. (g + (i - 1)) % C = (b.head + 1 + (i - 1)) % C
    BY <1>1, <2>1, AddRemainder
  <2>3. g + (i - 1) = g + i - 1 /\ b.head + 1 + (i - 1) = b.head + (i + 1) - 1
    BY <1>2, <1>3, <2>1
  <2>4. (g + i - 1) % C = (b.head + (i + 1) - 1) % C
    BY <2>2, <2>3
  <2>5. QED
    BY <1>6, <2>4 DEF Item
<1>9. QED
  BY <1>5, <1>6, <1>7, <1>8 DEF Pops

---------------------------------------------------------------------------
(* The buffers as queues.                                                   *)

\* What is in a buffer, as a sequence over any set that has its samples.
LEMMA ContentsIs ==
  ASSUME NEW C \in Nat \ {0}, NEW b, IsBuffer(b, C),
         NEW S, \A i \in 0 .. C - 1 : b.samples[i] \in S
  PROVE  /\ Contents(b) \in Seq(S) /\ Len(Contents(b)) = b.size
         /\ \A i \in 1 .. b.size : Contents(b)[i] = Item(b, i, C)
<1>1. b.size \in Nat /\ b.head \in 0 .. C - 1
  BY DEF IsBuffer
<1>2. Contents(b) = [n \in 1 .. b.size |-> Item(b, n, C)]
  BY SlotsIs DEF Contents, Item
<1>3. ASSUME NEW n \in 1 .. b.size PROVE Item(b, n, C) \in S
  <2>1. b.head + n - 1 \in Int
    BY <1>1
  <2>2. (b.head + n - 1) % C \in 0 .. C - 1
    BY <2>1, Division
  <2>3. QED
    BY <2>2 DEF Item
<1>4. Contents(b) \in Seq(S)
  BY <1>1, <1>2, <1>3
<1>5. QED
  BY <1>1, <1>2, <1>4

\* The newest C of items, as LossyQueue has them.
NewestOf(items, C) ==
  IF Len(items) <= C THEN items ELSE SubSeq(items, Len(items) - C + 1, Len(items))

\* p is the queue q, of C items at most, after at most G items were put.
IsPut(q, p, C, G) ==
  \E k \in {m \in 1 .. Len(p) + 1 : Len(p) + 1 - m <= G} :
    p = NewestOf(q \o SubSeq(p, k, Len(p)), C)

\* A queue that has lost what had no room ends in the items it was given.
LEMMA PutForm ==
  ASSUME NEW S, NEW q \in Seq(S), NEW p \in Seq(S), NEW C \in Nat \ {0}, NEW n \in Nat,
         NEW G \in Nat, n <= G,
         Len(q) <= C, Len(p) = IF Len(q) + n <= C THEN Len(q) + n ELSE C,
         \A i \in 1 .. Len(p) : i <= Len(p) - n => p[i] = q[i + Len(q) + n - Len(p)]
  PROVE  IsPut(q, p, C, G)
<1>1. PICK lq \in Nat, lp \in Nat :
        /\ lq = Len(q) /\ lp = Len(p) /\ lq <= C
        /\ lq + n <= C => lp = lq + n
        /\ lq + n > C => lp = C
  <2>1. Len(q) \in Nat /\ Len(p) \in Nat
    OBVIOUS
  <2>2. /\ Len(q) + n <= C => Len(p) = Len(q) + n
        /\ Len(q) + n > C => Len(p) = C
    BY <2>1
  <2>3. QED
    BY <2>1, <2>2
<1>2. PICK k \in Int : /\ n <= lp => k = lp + 1 - n
                       /\ ~(n <= lp) => k = 1
  <2>1. CASE n <= lp
    <3>1. lp + 1 - n \in Int
      OBVIOUS
    <3>2. QED
      BY <2>1, <3>1
  <2>2. CASE ~(n <= lp)
    BY <2>2
  <2>3. QED
    BY <2>1, <2>2
<1>3. k \in 1 .. lp + 1 /\ lp + 1 - k <= G
  BY <1>2
<1>4. PICK g : g = SubSeq(p, k, lp) /\ g = SubSeq(p, k, Len(p))
  BY <1>1
<1>5. /\ g \in Seq(S) /\ Len(g) = lp + 1 - k
      /\ \A i \in 1 .. Len(g) : g[i] = p[k + i - 1]
  <2>1. \A i \in k .. lp : p[i] \in S
    BY <1>1, <1>3, ElementOfSeq
  <2>2. lp \in Int /\ k \in Int
    BY <1>1
  <2>3. /\ g \in Seq(S) /\ Len(g) = (IF k <= lp THEN lp - k + 1 ELSE 0)
        /\ \A i \in 1 .. lp - k + 1 : g[i] = p[k + i - 1]
    <3>1. /\ SubSeq(p, k, lp) \in Seq(S)
          /\ Len(SubSeq(p, k, lp)) = (IF k <= lp THEN lp - k + 1 ELSE 0)
          /\ \A i \in 1 .. lp - k + 1 : SubSeq(p, k, lp)[i] = p[k + i - 1]
      BY <2>1, <2>2, SubSeqProperties
    <3>2. QED
      BY <1>4, <3>1
  <2>4. Len(g) = lp + 1 - k /\ lp - k + 1 = Len(g)
    BY <1>1, <1>3, <2>3
  <2>5. QED
    BY <2>3, <2>4
<1>6. PICK items : items = q \o g
  OBVIOUS
<1>13. PICK lg \in Nat, li \in Nat : lg = lp + 1 - k /\ li = lq + lg
  <2>1. lp + 1 - k \in Nat /\ lq + (lp + 1 - k) \in Nat
    BY <1>3
  <2>2. QED
    BY <2>1
<1>7. /\ lg = Len(g) /\ li = Len(items)
      /\ items \in Seq(S) /\ Len(items) = lq + Len(g)
      /\ \A i \in 1 .. lq + Len(g) :
           items[i] = IF i <= lq THEN q[i] ELSE g[i - lq]
  <2>1. /\ items \in Seq(S) /\ Len(items) = Len(q) + Len(g)
        /\ \A i \in 1 .. Len(q) + Len(g) :
             items[i] = IF i <= Len(q) THEN q[i] ELSE g[i - Len(q)]
    BY <1>5, <1>6, ConcatProperties
  <2>2. Len(g) \in Nat /\ Len(items) \in Nat
    BY <1>5, <2>1
  <2>3. QED
    BY <1>1, <1>5, <1>13, <2>1, <2>2
<1>14. \A i \in 1 .. lp : i <= lp - n => p[i] = q[i + lq + n - lp]
  BY <1>1
<1>8. PICK L \in Int : L = li - lp
  OBVIOUS
<1>9. /\ L >= 0 /\ (li <= C => L = 0) /\ (li > C => lp = C)
  BY <1>1, <1>2, <1>13, <1>8, SMTT(60)
<1>10. ASSUME NEW i \in 1 .. lp PROVE items[L + i] = p[i]
  <2>1. L + i \in 1 .. lq + lg
    BY <1>3, <1>13, <1>8, <1>9
  <2>2. CASE n <= lp
    <3>1. lg = n /\ k = lp + 1 - n /\ L = lq + n - lp
      BY <1>1, <1>2, <1>13, <1>8, <2>2, SMTT(60)
    <3>2. CASE i <= lp - n
      <4>1. L + i <= lq /\ L + i = i + lq + n - lp
        BY <1>13, <3>1, <3>2
      <4>2. items[L + i] = q[L + i]
        BY <1>7, <2>1, <4>1
      <4>3. p[i] = q[i + lq + n - lp]
        BY <1>14, <3>2
      <4>4. QED
        BY <4>1, <4>2, <4>3
    <3>3. CASE ~(i <= lp - n)
      <4>1. ~(L + i <= lq) /\ L + i - lq \in 1 .. lg /\ k + (L + i - lq) - 1 = i
        <5>1. L + i - lq = i - (lp - n)
          BY <3>1, SMTT(60)
        <5>2. i - (lp - n) \in 1 .. n
          BY <3>3
        <5>3. k + (i - (lp - n)) - 1 = i
          BY <3>1
        <5>4. QED
          BY <3>1, <5>1, <5>2, <5>3
      <4>2. items[L + i] = g[L + i - lq]
        BY <1>7, <2>1, <4>1
      <4>3. QED
        BY <1>5, <1>7, <4>1, <4>2
    <3>4. QED
      BY <3>2, <3>3
  <2>3. CASE ~(n <= lp)
    <3>1. k = 1 /\ lg = lp /\ L = lq
      <4>1. k = 1
        BY <1>2, <2>3
      <4>2. QED
        BY <1>13, <1>8, <4>1
    <3>2. ~(L + i <= lq) /\ L + i - lq \in 1 .. lg /\ k + (L + i - lq) - 1 = i
      BY <1>13, <3>1
    <3>3. items[L + i] = g[L + i - lq]
      BY <1>7, <2>1, <3>2
    <3>4. QED
      BY <1>5, <1>7, <3>2, <3>3
  <2>4. QED
    BY <2>2, <2>3
<1>11. p = NewestOf(items, C)
  <2>1. CASE li <= C
    <3>1. L = 0 /\ li = lp /\ \A i \in 1 .. lp : L + i = i
      BY <1>13, <1>8, <1>9, <2>1
    <3>2. \A i \in 1 .. lp : p[i] = items[i]
      BY <1>10, <3>1
    <3>3. p = items
      BY <1>1, <1>7, <3>1, <3>2, SeqEqual
    <3>4. QED
      BY <1>7, <2>1, <3>3 DEF NewestOf
  <2>2. CASE ~(li <= C)
    <3>1. /\ li \in Nat /\ lp = C
          /\ L = li - C
      BY <1>13, <1>8, <1>9, <2>2
    <3>2. PICK s : s = SubSeq(items, li - C + 1, li)
      OBVIOUS
    <3>3. /\ s \in Seq(S) /\ Len(s) = C
          /\ \A i \in 1 .. C : s[i] = items[L + i]
      <4>1. \A i \in li - C + 1 .. li : items[i] \in S
        <5>1. \A i \in li - C + 1 .. li : i \in 1 .. li
          BY <2>2, <3>1
        <5>2. QED
          BY <1>7, <5>1, ElementOfSeq
      <4>2. li - C + 1 \in Int /\ li \in Int
        BY <3>1
      <4>3. /\ s \in Seq(S)
            /\ Len(s) = (IF li - C + 1 <= li
                         THEN li - (li - C + 1) + 1 ELSE 0)
            /\ \A i \in 1 .. li - (li - C + 1) + 1 :
                 s[i] = items[li - C + 1 + i - 1]
        BY <3>2, <4>1, <4>2, SubSeqProperties
      <4>4. /\ li - (li - C + 1) + 1 = C
            /\ \A i \in 1 .. C : li - C + 1 + i - 1 = L + i
        BY <3>1
      <4>5. Len(s) = C
        BY <2>2, <3>1, <4>3
      <4>6. QED
        BY <4>3, <4>4, <4>5
    <3>4. p = s
      <4>1. lp = Len(s) /\ \A i \in 1 .. lp : p[i] = s[i]
        BY <1>1, <1>10, <3>1, <3>3
      <4>2. QED
        BY <1>1, <3>3, <4>1, SeqEqual
    <3>5. QED
      BY <1>7, <2>2, <3>2, <3>4 DEF NewestOf
  <2>3. QED
    BY <2>1, <2>2
<1>12. QED
  BY <1>1, <1>3, <1>4, <1>6, <1>11 DEF IsPut

\* A step that pushes n items, and one that takes one before.
LEMMA PushIsPut ==
  ASSUME NEW C \in Nat \ {0}, NEW b, NEW d, NEW n \in Nat, NEW G \in Nat, n <= G,
         IsBuffer(b, C), Pushes(b, d, n, C)
  PROVE  IsPut(Contents(b), Contents(d), C, G)
<1>1. IsBuffer(d, C)
  BY DEF Pushes
<1> DEFINE S == {b.samples[i] : i \in 0 .. C - 1} \cup {d.samples[i] : i \in 0 .. C - 1}
<1>2. \A i \in 0 .. C - 1 : b.samples[i] \in S /\ d.samples[i] \in S
  OBVIOUS
<1> HIDE DEF S
<1>3. PICK q \in Seq(S) : /\ q = Contents(b) /\ Len(q) = b.size
                          /\ \A i \in 1 .. b.size : q[i] = Item(b, i, C)
  BY <1>2, ContentsIs
<1>4. PICK p \in Seq(S) : /\ p = Contents(d) /\ Len(p) = d.size
                          /\ \A i \in 1 .. d.size : p[i] = Item(d, i, C)
  BY <1>1, <1>2, ContentsIs
<1>5. /\ b.size \in 0 .. C /\ d.size \in 0 .. C
      /\ d.size = IF b.size + n <= C THEN b.size + n ELSE C
  BY <1>1 DEF IsBuffer, Pushes
<1>6. ASSUME NEW i \in 1 .. d.size, i <= d.size - n
      PROVE  p[i] = q[i + b.size + n - d.size]
  <2>1. i + b.size + n - d.size \in 1 .. b.size
    <3>1. PICK m \in Nat, l \in Nat : m = b.size /\ l = d.size
      BY <1>5
    <3>2. l <= m + n
      BY <1>5, <3>1
    <3>5. i \in Int /\ i >= 1 /\ i <= l - n
      BY <1>6, <3>1
    <3>3. i + m + n - l \in 1 .. m
      BY <3>2, <3>5
    <3>4. QED
      BY <3>1, <3>3
  <2>2. Item(d, i, C) = Item(b, i + b.size + n - d.size, C)
    BY <1>6 DEF Pushes
  <2>3. QED
    BY <1>3, <1>4, <2>1, <2>2
<1>7. IsPut(q, p, C, G)
  <2>1. Len(q) <= C /\ Len(p) = IF Len(q) + n <= C THEN Len(q) + n ELSE C
    BY <1>3, <1>4, <1>5
  <2>2. \A i \in 1 .. Len(p) : i <= Len(p) - n => p[i] = q[i + Len(q) + n - Len(p)]
    BY <1>3, <1>4, <1>6
  <2>3. QED
    BY <2>1, <2>2, PutForm
<1>8. QED
  BY <1>3, <1>4, <1>7

LEMMA PopIsTail ==
  ASSUME NEW C \in Nat \ {0}, NEW b, NEW d, IsBuffer(b, C), b.size # 0, Pops(b, d, C)
  PROVE  Contents(b) # <<>> /\ Tail(Contents(b)) = Contents(d)
<1>1. IsBuffer(d, C) /\ d.size = b.size - 1 /\ b.size \in Nat
  BY DEF Pops, IsBuffer
<1> DEFINE S == {b.samples[i] : i \in 0 .. C - 1} \cup {d.samples[i] : i \in 0 .. C - 1}
<1>2. \A i \in 0 .. C - 1 : b.samples[i] \in S /\ d.samples[i] \in S
  OBVIOUS
<1> HIDE DEF S
<1>3. PICK q \in Seq(S) : /\ q = Contents(b) /\ Len(q) = b.size
                          /\ \A i \in 1 .. b.size : q[i] = Item(b, i, C)
  BY <1>2, ContentsIs
<1>4. PICK p \in Seq(S) : /\ p = Contents(d) /\ Len(p) = d.size
                          /\ \A i \in 1 .. d.size : p[i] = Item(d, i, C)
  BY <1>1, <1>2, ContentsIs
<1>5. q # <<>>
  BY <1>3, EmptySeq
<1>6. /\ Tail(q) \in Seq(S) /\ Len(Tail(q)) = Len(q) - 1
      /\ \A i \in 1 .. Len(Tail(q)) : Tail(q)[i] = q[i + 1]
  BY <1>5, HeadTailProperties
<1>7. ASSUME NEW i \in 1 .. d.size PROVE p[i] = Tail(q)[i]
  <2>1. i + 1 \in 1 .. b.size
    BY <1>1
  <2>2. Item(d, i, C) = Item(b, i + 1, C)
    BY DEF Pops
  <2>3. Tail(q)[i] = q[i + 1]
    BY <1>1, <1>3, <1>6
  <2>4. QED
    BY <1>3, <1>4, <2>1, <2>2, <2>3
<1>8. Len(p) = Len(Tail(q)) /\ \A i \in 1 .. Len(p) : p[i] = Tail(q)[i]
  BY <1>1, <1>3, <1>4, <1>6, <1>7
<1>9. p = Tail(q)
  BY <1>6, <1>8, SeqEqual
<1>10. QED
  BY <1>3, <1>4, <1>5, <1>9

---------------------------------------------------------------------------
(* Several pushes.                                                          *)

\* f holds what is left of b after each of the first N bytes of a word.
WordPushes(f, b, word, N) ==
  f = [i \in 0 .. N |-> IF i = 0 THEN b ELSE Pushed(f[i - 1], word[i])]

LEMMA WordPushesExists ==
  ASSUME NEW b, NEW word, NEW N \in Nat
  PROVE  \E f : WordPushes(f, b, word, N)
<1> DEFINE S == {k \in Nat : ~\E f : WordPushes(f, b, word, k)}
<1>1. SUFFICES ASSUME S # {} PROVE FALSE
  OBVIOUS
<1>2. PICK k \in S : \A y \in S : k <= y
  BY <1>1, LeastElement
<1>3. k # 0
  <2>1. WordPushes([i \in 0 .. 0 |-> b], b, word, 0)
    BY DEF WordPushes
  <2>2. QED
    BY <1>2, <2>1
<1>4. k \in Nat /\ k - 1 \in Nat /\ k - 1 \notin S
  BY <1>2, <1>3
<1>5. PICK f : WordPushes(f, b, word, k - 1)
  BY <1>4
<1>6. PICK e : e = [i \in 0 .. k |-> IF i < k THEN f[i] ELSE Pushed(f[k - 1], word[k])]
  OBVIOUS
<1>7. ASSUME NEW i \in 0 .. k
      PROVE  e[i] = IF i = 0 THEN b ELSE Pushed(e[i - 1], word[i])
  <2>1. CASE i = 0
    <3>1. e[0] = f[0] /\ f[0] = b
      BY <1>3, <1>4, <1>5, <1>6 DEF WordPushes
    <3>2. QED
      BY <2>1, <3>1
  <2>2. CASE i # 0 /\ i < k
    <3>1. i \in 0 .. k - 1 /\ i - 1 \in 0 .. k /\ i - 1 < k
      BY <1>4, <2>2
    <3>2. e[i] = f[i] /\ e[i - 1] = f[i - 1]
      BY <1>6, <2>2, <3>1
    <3>3. f[i] = Pushed(f[i - 1], word[i])
      BY <1>5, <2>2, <3>1 DEF WordPushes
    <3>4. QED
      BY <2>2, <3>2, <3>3
  <2>3. CASE i = k
    <3>1. e[k] = Pushed(f[k - 1], word[k]) /\ e[k - 1] = f[k - 1]
      BY <1>4, <1>6
    <3>2. QED
      BY <1>3, <2>3, <3>1
  <2>4. QED
    BY <1>4, <2>1, <2>2, <2>3
<1>8. WordPushes(e, b, word, k)
  <2>1. e = [i \in 0 .. k |-> e[i]]
    BY <1>6
  <2>2. QED
    BY <1>7, <2>1 DEF WordPushes
<1>9. QED
  BY <1>2, <1>8

\* f holds what is left of b after each of N words.
Burst(f, b, word, N) ==
  f = [i \in 0 .. N |-> IF i = 0 THEN b ELSE Written(f[i - 1], word)]

LEMMA BurstExists ==
  ASSUME NEW b, NEW word, NEW N \in Nat
  PROVE  \E f : Burst(f, b, word, N)
<1> DEFINE S == {k \in Nat : ~\E f : Burst(f, b, word, k)}
<1>1. SUFFICES ASSUME S # {} PROVE FALSE
  OBVIOUS
<1>2. PICK k \in S : \A y \in S : k <= y
  BY <1>1, LeastElement
<1>3. k # 0
  <2>1. Burst([i \in 0 .. 0 |-> b], b, word, 0)
    BY DEF Burst
  <2>2. QED
    BY <1>2, <2>1
<1>4. k \in Nat /\ k - 1 \in Nat /\ k - 1 \notin S
  BY <1>2, <1>3
<1>5. PICK f : Burst(f, b, word, k - 1)
  BY <1>4
<1>6. PICK e : e = [i \in 0 .. k |-> IF i < k THEN f[i] ELSE Written(f[k - 1], word)]
  OBVIOUS
<1>7. ASSUME NEW i \in 0 .. k
      PROVE  e[i] = IF i = 0 THEN b ELSE Written(e[i - 1], word)
  <2>1. CASE i = 0
    <3>1. e[0] = f[0] /\ f[0] = b
      BY <1>3, <1>4, <1>5, <1>6 DEF Burst
    <3>2. QED
      BY <2>1, <3>1
  <2>2. CASE i # 0 /\ i < k
    <3>1. i \in 0 .. k - 1 /\ i - 1 \in 0 .. k /\ i - 1 < k
      BY <1>4, <2>2
    <3>2. e[i] = f[i] /\ e[i - 1] = f[i - 1]
      BY <1>6, <2>2, <3>1
    <3>3. f[i] = Written(f[i - 1], word)
      BY <1>5, <2>2, <3>1 DEF Burst
    <3>4. QED
      BY <2>2, <3>2, <3>3
  <2>3. CASE i = k
    <3>1. e[k] = Written(f[k - 1], word) /\ e[k - 1] = f[k - 1]
      BY <1>4, <1>6
    <3>2. QED
      BY <1>3, <2>3, <3>1
  <2>4. QED
    BY <1>4, <2>1, <2>2, <2>3
<1>8. Burst(e, b, word, k)
  <2>1. e = [i \in 0 .. k |-> e[i]]
    BY <1>6
  <2>2. QED
    BY <1>7, <2>1 DEF Burst
<1>9. QED
  BY <1>2, <1>8

LEMMA WrittenPushes ==
  ASSUME NEW C \in Nat \ {0}, NEW b, IsBuffer(b, C), NEW word, Len(word) \in Nat
  PROVE  Pushes(b, Written(b, word), Len(word), C)
<1> DEFINE N == Len(word)
<1>1. PICK f : WordPushes(f, b, word, N) /\ Written(b, word) = f[N]
  <2> DEFINE f == CHOOSE f : WordPushes(f, b, word, N)
  <2>1. WordPushes(f, b, word, N)
    BY WordPushesExists
  <2>2. Written(b, word) = f[N]
    BY DEF Written, WordPushes
  <2>3. QED
    BY <2>1, <2>2
<1> DEFINE S == {k \in 0 .. N : ~Pushes(b, f[k], k, C)}
<1>2. S = {}
  <2>1. SUFFICES ASSUME S # {} PROVE FALSE
    OBVIOUS
  <2>2. S \in SUBSET Nat
    OBVIOUS
  <2>3. PICK k \in S : \A y \in S : k <= y
    <3> HIDE DEF S
    <3>1. QED
      BY <2>1, <2>2, LeastElement
  <2>4. k \in 0 .. N /\ ~Pushes(b, f[k], k, C)
    BY <2>3
  <2>5. k # 0
    <3>1. f[0] = b
      BY <1>1 DEF WordPushes
    <3>2. QED
      BY <2>4, <3>1, PushNone
  <2>6. k - 1 \in 0 .. N /\ k - 1 \in Nat /\ Pushes(b, f[k - 1], k - 1, C)
    BY <2>3, <2>4, <2>5
  <2>7. f[k] = Pushed(f[k - 1], word[k])
    BY <1>1, <2>4, <2>5 DEF WordPushes
  <2>8. Pushes(f[k - 1], f[k], 1, C)
    <3>1. IsBuffer(f[k - 1], C)
      BY <2>6 DEF Pushes
    <3>2. QED
      BY <2>7, <3>1, PushOne
  <2>9. Pushes(b, f[k], (k - 1) + 1, C)
    BY <2>6, <2>8, PushMore
  <2>10. (k - 1) + 1 = k
    BY <2>4
  <2>11. QED
    BY <2>4, <2>9, <2>10
<1>3. N \in 0 .. N
  OBVIOUS
<1>4. QED
  BY <1>1, <1>2, <1>3

LEMMA RefilledPushes ==
  ASSUME NEW C \in Nat \ {0}, NEW b, IsBuffer(b, C), NEW word, Len(word) \in Nat,
         NEW servers, BurstWords * Cardinality(servers) \in Nat
  PROVE  Pushes(b, Refilled(b, servers, word), BurstWords * Cardinality(servers) * Len(word), C)
<1> DEFINE N == BurstWords * Cardinality(servers)
           w == Len(word)
<1>1. PICK f : Burst(f, b, word, N) /\ Refilled(b, servers, word) = f[N]
  <2> DEFINE f == CHOOSE f : Burst(f, b, word, N)
  <2>1. Burst(f, b, word, N)
    BY BurstExists
  <2>2. Refilled(b, servers, word) = f[N]
    BY DEF Refilled, Burst
  <2>3. QED
    BY <2>1, <2>2
<1> HIDE DEF N
<1>2. N \in Nat /\ w \in Nat
  BY DEF N
<1> DEFINE S == {k \in 0 .. N : ~Pushes(b, f[k], k * w, C)}
<1>3. S = {}
  <2>1. SUFFICES ASSUME S # {} PROVE FALSE
    OBVIOUS
  <2>2. S \in SUBSET Nat
    BY <1>2
  <2>3. PICK k \in S : \A y \in S : k <= y
    <3> HIDE DEF S
    <3>1. QED
      BY <2>1, <2>2, LeastElement
  <2>4. k \in 0 .. N /\ ~Pushes(b, f[k], k * w, C)
    BY <2>3
  <2>5. k # 0
    <3>1. f[0] = b
      BY <1>1, <1>2 DEF Burst
    <3>2. 0 * w = 0
      BY <1>2
    <3>3. Pushes(b, f[0], 0 * w, C)
      BY <3>1, <3>2, PushNone
    <3>4. QED
      BY <2>4, <3>3
  <2>6. k - 1 \in 0 .. N /\ k - 1 \in Nat /\ Pushes(b, f[k - 1], (k - 1) * w, C)
    BY <1>2, <2>3, <2>4, <2>5
  <2>7. f[k] = Written(f[k - 1], word)
    BY <1>1, <1>2, <2>4, <2>5 DEF Burst
  <2>8. Pushes(f[k - 1], f[k], w, C)
    <3>1. IsBuffer(f[k - 1], C)
      BY <2>6 DEF Pushes
    <3>2. QED
      BY <2>7, <3>1, WrittenPushes
  <2>9. (k - 1) * w \in Nat /\ (k - 1) * w + w = k * w
    BY <1>2, <2>4, <2>6
  <2>10. Pushes(b, f[k], (k - 1) * w + w, C)
    BY <1>2, <2>6, <2>8, <2>9, PushMore
  <2>11. QED
    BY <2>4, <2>9, <2>10
<1>4. N \in 0 .. N
  BY <1>2
<1>5. Pushes(b, f[N], N * w, C)
  BY <1>3, <1>4
<1>6. QED
  BY <1>1, <1>5 DEF N

---------------------------------------------------------------------------
(* Ticks.                                                                   *)

\* The sample that a state of the generators makes.
Sample(p) == [side \in Sides |-> Mixed(p, side)]

\* Both clocks run for a span of cycles.
Clocked(s, cycles) ==
  [s EXCEPT !.out.frame = (s.out.frame + cycles) % StepCycles,
            !.out.audio = (s.out.audio + cycles) % SampleCycles,
            !.out.step = (@ + (s.out.frame + cycles) \div StepCycles) % FrameSteps]

OutOf(r, m, f, a, t) == [ring |-> r, mixed |-> m, frame |-> f, audio |-> a, step |-> t]
StateOf(p, o) == [psg |-> p, out |-> o]

LEMMA ClockedIs ==
  ASSUME NEW p, NEW r, NEW m, NEW f, NEW a, NEW t, NEW c
  PROVE  Clocked(StateOf(p, OutOf(r, m, f, a, t)), c)
          = StateOf(p, OutOf(r, m, (f + c) % StepCycles, (a + c) % SampleCycles,
                  (t + (f + c) \div StepCycles) % FrameSteps))
<1>1. PICK s : s = StateOf(p, OutOf(r, m, f, a, t))
  OBVIOUS
<1>2. /\ DOMAIN s = {"psg", "out"} /\ s.psg = p /\ s.out = OutOf(r, m, f, a, t)
      /\ s.out.frame = f /\ s.out.audio = a /\ s.out.step = t
      /\ s.out.ring = r /\ s.out.mixed = m
      /\ DOMAIN s.out = {"ring", "mixed", "frame", "audio", "step"}
  BY <1>1 DEF StateOf, OutOf
<1>3. PICK x, y, z : /\ x = (f + c) % StepCycles /\ y = (a + c) % SampleCycles
                     /\ z = (t + (f + c) \div StepCycles) % FrameSteps
  OBVIOUS
<1>4. PICK o : o = [s.out EXCEPT !.frame = x, !.audio = y, !.step = z]
  OBVIOUS
<1>5. o = [d \in {"ring", "mixed", "frame", "audio", "step"} |->
            IF d = "step" THEN z ELSE IF d = "audio" THEN y ELSE IF d = "frame" THEN x ELSE s.out[d]]
  BY <1>2, <1>4
<1>6. o.ring = r /\ o.mixed = m /\ o.frame = x /\ o.audio = y /\ o.step = z
  BY <1>2, <1>5
<1>7. o = OutOf(r, m, x, y, z)
  BY <1>5, <1>6 DEF OutOf
<1>8. PICK e : e = Clocked(s, c) /\ e = [s EXCEPT !.out.frame = x, !.out.audio = y, !.out.step = z]
  BY <1>2, <1>3 DEF Clocked
<1>9. e = [d \in {"psg", "out"} |-> IF d = "out" THEN o ELSE s[d]]
  BY <1>2, <1>4, <1>8
<1>10. e.psg = p /\ e.out = o
  BY <1>2, <1>9
<1>11. e = StateOf(p, o)
  BY <1>9, <1>10 DEF StateOf
<1>12. QED
  BY <1>1, <1>3, <1>7, <1>8, <1>11

LEMMA GeneratedIs ==
  ASSUME NEW p, NEW r, NEW m, NEW f, NEW a, NEW t
  PROVE  Generated(StateOf(p, OutOf(r, m, f, a, t)))
          = StateOf(Advanced(p), OutOf(Pushed(r, Sample(p)), Sample(p), f, a, t))
<1>1. PICK s : s = StateOf(p, OutOf(r, m, f, a, t))
  OBVIOUS
<1>2. /\ s.psg = p
      /\ s.out.frame = f /\ s.out.audio = a /\ s.out.step = t
      /\ s.out.ring = r /\ s.out.mixed = m
      /\ DOMAIN s.out = {"ring", "mixed", "frame", "audio", "step"}
  BY <1>1 DEF StateOf, OutOf
<1>3. PICK x, y, z : x = Sample(p) /\ y = Pushed(r, x) /\ z = Advanced(p)
  OBVIOUS
<1>4. PICK o : o = [s.out EXCEPT !.mixed = x, !.ring = Pushed(@, x)]
  OBVIOUS
<1>5. o = [d \in {"ring", "mixed", "frame", "audio", "step"} |->
            IF d = "ring" THEN y ELSE IF d = "mixed" THEN x ELSE s.out[d]]
  BY <1>2, <1>3, <1>4
<1>6. o.ring = y /\ o.mixed = x /\ o.frame = f /\ o.audio = a /\ o.step = t
  BY <1>2, <1>5
<1>7. o = OutOf(y, x, f, a, t)
  BY <1>5, <1>6 DEF OutOf
<1>8. Generated(s) = [psg |-> z, out |-> o]
  BY <1>2, <1>3, <1>4 DEF Generated, Sample
<1>9. QED
  BY <1>1, <1>3, <1>7, <1>8 DEF StateOf

\* f holds the state s after each of N samples.
SampleChain(f, s, N) ==
  f = [i \in 0 .. N |-> IF i = 0 THEN s ELSE Generated(f[i - 1])]

LEMMA SampleChainExists ==
  ASSUME NEW s, NEW N \in Nat
  PROVE  \E f : SampleChain(f, s, N)
<1> DEFINE S == {k \in Nat : ~\E f : SampleChain(f, s, k)}
<1>1. SUFFICES ASSUME S # {} PROVE FALSE
  OBVIOUS
<1>2. PICK k \in S : \A y \in S : k <= y
  BY <1>1, LeastElement
<1>3. k # 0
  <2>1. SampleChain([i \in 0 .. 0 |-> s], s, 0)
    BY DEF SampleChain
  <2>2. QED
    BY <1>2, <2>1
<1>4. k \in Nat /\ k - 1 \in Nat /\ k - 1 \notin S
  BY <1>2, <1>3
<1>5. PICK f : SampleChain(f, s, k - 1)
  BY <1>4
<1>6. PICK e : e = [i \in 0 .. k |-> IF i < k THEN f[i] ELSE Generated(f[k - 1])]
  OBVIOUS
<1>7. ASSUME NEW i \in 0 .. k
      PROVE  e[i] = IF i = 0 THEN s ELSE Generated(e[i - 1])
  <2>1. CASE i = 0
    <3>1. e[0] = f[0] /\ f[0] = s
      BY <1>3, <1>4, <1>5, <1>6 DEF SampleChain
    <3>2. QED
      BY <2>1, <3>1
  <2>2. CASE i # 0 /\ i < k
    <3>1. i \in 0 .. k - 1 /\ i - 1 \in 0 .. k /\ i - 1 < k
      BY <1>4, <2>2
    <3>2. e[i] = f[i] /\ e[i - 1] = f[i - 1]
      BY <1>6, <2>2, <3>1
    <3>3. f[i] = Generated(f[i - 1])
      BY <1>5, <2>2, <3>1 DEF SampleChain
    <3>4. QED
      BY <2>2, <3>2, <3>3
  <2>3. CASE i = k
    <3>1. e[k] = Generated(f[k - 1]) /\ e[k - 1] = f[k - 1]
      BY <1>4, <1>6
    <3>2. QED
      BY <1>3, <2>3, <3>1
  <2>4. QED
    BY <1>4, <2>1, <2>2, <2>3
<1>8. SampleChain(e, s, k)
  <2>1. e = [i \in 0 .. k |-> e[i]]
    BY <1>6
  <2>2. QED
    BY <1>7, <2>1 DEF SampleChain
<1>9. QED
  BY <1>2, <1>8

\* The state s after n samples.
Sampled(s, n) == (CHOOSE f : SampleChain(f, s, n))[n]

LEMMA SampledStep ==
  ASSUME NEW s
  PROVE  Sampled(s, 0) = s /\ \A n \in Nat : Sampled(s, n + 1) = Generated(Sampled(s, n))
<1>1. \A n \in Nat : \E f : SampleChain(f, s, n) /\ Sampled(s, n) = f[n]
  <2> TAKE n \in Nat
  <2>1. SampleChain(CHOOSE f : SampleChain(f, s, n), s, n)
    BY SampleChainExists
  <2>2. QED
    BY <2>1 DEF Sampled
<1>2. Sampled(s, 0) = s
  <2>1. PICK f : SampleChain(f, s, 0) /\ Sampled(s, 0) = f[0]
    BY <1>1
  <2>2. QED
    BY <2>1 DEF SampleChain
<1>3. ASSUME NEW n \in Nat PROVE Sampled(s, n + 1) = Generated(Sampled(s, n))
  <2>1. PICK f : SampleChain(f, s, n + 1) /\ Sampled(s, n + 1) = f[n + 1]
    BY <1>1
  <2>2. PICK g : SampleChain(g, s, n) /\ Sampled(s, n) = g[n]
    BY <1>1
  <2> DEFINE S == {k \in 0 .. n : f[k] # g[k]}
  <2>3. S = {}
    <3>1. SUFFICES ASSUME S # {} PROVE FALSE
      OBVIOUS
    <3>2. S \in SUBSET Nat
      OBVIOUS
    <3>3. PICK k \in S : \A y \in S : k <= y
      <4> HIDE DEF S
      <4>1. QED
        BY <3>1, <3>2, LeastElement
    <3>4. k \in 0 .. n /\ f[k] # g[k]
      BY <3>3
    <3>5. k # 0
      BY <2>1, <2>2, <3>4 DEF SampleChain
    <3>6. k - 1 \in 0 .. n /\ f[k - 1] = g[k - 1]
      BY <3>3, <3>4, <3>5
    <3>7. k \in 0 .. n + 1 /\ k \in 0 .. n
      BY <3>4
    <3>8. f[k] = Generated(f[k - 1])
      BY <2>1, <3>5, <3>7 DEF SampleChain
    <3>9. g[k] = Generated(g[k - 1])
      BY <2>2, <3>5, <3>7 DEF SampleChain
    <3>10. QED
      BY <3>4, <3>6, <3>8, <3>9
  <2>4. f[n] = g[n]
    BY <2>3
  <2>5. f[n + 1] = Generated(f[n])
    <3>1. n + 1 \in 0 .. n + 1 /\ n + 1 # 0 /\ n + 1 - 1 = n
      OBVIOUS
    <3>2. f[n + 1] = Generated(f[n + 1 - 1])
      BY <2>1, <3>1 DEF SampleChain
    <3>3. QED
      BY <3>1, <3>2
  <2>6. QED
    BY <2>1, <2>2, <2>4, <2>5
<1>4. QED
  BY <1>2, <1>3

\* Samples after samples.
LEMMA SampledMore ==
  ASSUME NEW s, NEW m \in Nat, NEW n \in Nat
  PROVE  Sampled(Sampled(s, m), n) = Sampled(s, m + n)
<1> DEFINE S == {k \in Nat : Sampled(Sampled(s, m), k) # Sampled(s, m + k)}
<1>1. S = {}
  <2>1. SUFFICES ASSUME S # {} PROVE FALSE
    OBVIOUS
  <2>2. PICK k \in S : \A y \in S : k <= y
    <3>1. S \in SUBSET Nat
      OBVIOUS
    <3> HIDE DEF S
    <3>2. QED
      BY <2>1, <3>1, LeastElement
  <2>3. k \in Nat /\ Sampled(Sampled(s, m), k) # Sampled(s, m + k)
    BY <2>2
  <2>4. k # 0
    <3>1. m + 0 = m /\ Sampled(Sampled(s, m), 0) = Sampled(s, m)
      BY SampledStep
    <3>2. QED
      BY <2>3, <3>1
  <2>5. k - 1 \in Nat /\ Sampled(Sampled(s, m), k - 1) = Sampled(s, m + (k - 1))
    BY <2>2, <2>3, <2>4
  <2>6. (k - 1) + 1 = k /\ m + (k - 1) \in Nat /\ (m + (k - 1)) + 1 = m + k
    BY <2>3, <2>5
  <2>7. Sampled(Sampled(s, m), (k - 1) + 1) = Generated(Sampled(Sampled(s, m), k - 1))
    BY <2>5, SampledStep
  <2>8. Sampled(s, (m + (k - 1)) + 1) = Generated(Sampled(s, m + (k - 1)))
    BY <2>6, SampledStep
  <2>9. QED
    BY <2>3, <2>5, <2>6, <2>7, <2>8
<1>2. QED
  BY <1>1

\* A tick first runs the clocks and then takes its samples.
LEMMA TickedIs ==
  ASSUME NEW s, NEW c, (s.out.audio + c) \div SampleCycles \in Nat
  PROVE  Ticked(s, c) = Sampled(Clocked(s, c), (s.out.audio + c) \div SampleCycles)
<1> DEFINE N == (s.out.audio + c) \div SampleCycles
           k == Clocked(s, c)
           f == CHOOSE f : SampleChain(f, k, N)
<1>1. Ticked(s, c) = f[N]
  BY DEF Ticked, SampleChain, Clocked
<1>2. QED
  BY <1>1 DEF Sampled

\* The quotients of two spans add up to the quotient of both.
LEMMA AddQuotient ==
  ASSUME NEW F \in Nat \ {0}, NEW a \in Int, NEW b \in Int
  PROVE  (a \div F) + (((a % F) + b) \div F) = (a + b) \div F
<1>1. PICK q \in Int, u \in 0 .. F - 1 : q = a \div F /\ u = a % F /\ a = q * F + u
  BY Division
<1>2. u + b \in Int
  OBVIOUS
<1>3. PICK p \in Int, v \in 0 .. F - 1 : p = (u + b) \div F /\ u + b = p * F + v
  BY <1>2, Division
<1>4. q + p \in Int /\ q * F \in Int /\ p * F \in Int
  OBVIOUS
<1>8. (q + p) * F = q * F + p * F
  OBVIOUS
<1>5. a + b = (q + p) * F + v /\ a + b \in Int
  <2>1. PICK x \in Int, y \in Int : x = q * F /\ y = p * F
    BY <1>4
  <2>2. a = x + u /\ u + b = y + v
    BY <1>1, <1>3, <2>1
  <2>3. a + b = (x + y) + v
    BY <2>2
  <2>4. QED
    BY <1>8, <2>1, <2>3
<1>6. (a + b) \div F = q + p
  <2>1. PICK k \in Int : k = q + p
    BY <1>4
  <2>2. a + b = k * F + v /\ a + b \in Int
    BY <1>5, <2>1
  <2>3. (a + b) \div F = k
    BY <2>2, Remainder
  <2>4. QED
    BY <2>1, <2>3
<1>7. QED
  BY <1>1, <1>3, <1>6

LEMMA NaturalDivision ==
  ASSUME NEW F \in Nat \ {0}, NEW a \in Nat
  PROVE  a \div F \in Nat /\ a % F \in 0 .. F - 1 /\ (\A k \in Nat : a < k * F => a \div F < k)
<1>1. PICK q \in Int, u \in 0 .. F - 1 : q = a \div F /\ u = a % F /\ a = q * F + u
  BY Division
<1>2. q * F \in Int /\ (q + 1) * F = q * F + F /\ q + 1 \in Int /\ 0 \in Int /\ 0 * F = 0
  BY <1>1
<1>3. 0 * F < (q + 1) * F
  BY <1>1, <1>2
<1>4. 0 < q + 1
  BY <1>2, <1>3, MultiplesOrder
<1>5. ASSUME NEW k \in Nat, a < k * F PROVE q < k
  <2>1. k * F \in Int /\ k \in Int
    OBVIOUS
  <2>2. q * F < k * F
    BY <1>1, <1>2, <1>5, <2>1
  <2>3. QED
    BY <2>1, <2>2, MultiplesOrder
<1>6. QED
  BY <1>1, <1>4, <1>5

LEMMA SoundSizes ==
  /\ FifoCapacity \in Nat \ {0} /\ RingCapacity \in Nat \ {0} /\ SampleCycles \in Nat \ {0}
  /\ StepCycles \in Nat \ {0} /\ FrameSteps \in Nat \ {0} /\ BurstWords \in Nat \ {0}
BY SizesAssumption

\* The samples go into the ring; the clocks stay.
LEMMA SampledState ==
  ASSUME NEW p, NEW r, NEW m, NEW f, NEW a, NEW t, NEW s, NEW n \in Nat,
         s = StateOf(p, OutOf(r, m, f, a, t)), IsBuffer(r, RingCapacity)
  PROVE  \E p2, r2, m2 : /\ Sampled(s, n) = StateOf(p2, OutOf(r2, m2, f, a, t))
                         /\ Pushes(r, r2, n, RingCapacity)
<1> DEFINE Good(k) == \E p2, r2, m2 : /\ Sampled(s, k) = StateOf(p2, OutOf(r2, m2, f, a, t))
                                      /\ Pushes(r, r2, k, RingCapacity)
           S == {k \in Nat : ~Good(k)}
<1>1. S = {}
  <2>1. SUFFICES ASSUME S # {} PROVE FALSE
    OBVIOUS
  <2>2. PICK k \in S : \A y \in S : k <= y
    <3>1. S \in SUBSET Nat
      OBVIOUS
    <3> HIDE DEF S
    <3>2. QED
      BY <2>1, <3>1, LeastElement
  <2>3. k \in Nat /\ ~Good(k)
    BY <2>2
  <2>4. k # 0
    <3>1. Sampled(s, 0) = s
      BY SampledStep
    <3>2. Pushes(r, r, 0, RingCapacity)
      BY SoundSizes, PushNone
    <3>3. QED
      BY <2>3, <3>1, <3>2
  <2>5. k - 1 \in Nat /\ (k - 1) + 1 = k /\ Good(k - 1)
    BY <2>2, <2>3, <2>4
  <2>6. PICK p2, r2, m2 : /\ Sampled(s, k - 1) = StateOf(p2, OutOf(r2, m2, f, a, t))
                          /\ Pushes(r, r2, k - 1, RingCapacity)
    BY <2>5
  <2>7. Sampled(s, k) = Generated(Sampled(s, k - 1))
    <3>1. Sampled(s, (k - 1) + 1) = Generated(Sampled(s, k - 1))
      BY <2>5, SampledStep
    <3>2. QED
      BY <2>5, <3>1
  <2>8. Sampled(s, k) = StateOf(Advanced(p2), OutOf(Pushed(r2, Sample(p2)), Sample(p2), f, a, t))
    BY <2>6, <2>7, GeneratedIs
  <2>9. Pushes(r2, Pushed(r2, Sample(p2)), 1, RingCapacity)
    <3>1. IsBuffer(r2, RingCapacity)
      BY <2>6 DEF Pushes
    <3>2. QED
      BY <3>1, SoundSizes, PushOne
  <2>10. Pushes(r, Pushed(r2, Sample(p2)), (k - 1) + 1, RingCapacity)
    BY <2>5, <2>6, <2>9, SoundSizes, PushMore
  <2>11. QED
    BY <2>3, <2>5, <2>8, <2>10
<1>2. QED
  BY <1>1

\* It makes no difference whether the clocks run before the samples or after.
LEMMA ClocksAndSamples ==
  ASSUME NEW p, NEW r, NEW m, NEW f, NEW a, NEW t, NEW s, NEW n \in Nat, NEW c,
         s = StateOf(p, OutOf(r, m, f, a, t)), IsBuffer(r, RingCapacity)
  PROVE  Sampled(Clocked(s, c), n) = Clocked(Sampled(s, n), c)
<1> DEFINE S == {k \in Nat : Sampled(Clocked(s, c), k) # Clocked(Sampled(s, k), c)}
<1>1. S = {}
  <2>1. SUFFICES ASSUME S # {} PROVE FALSE
    OBVIOUS
  <2>2. PICK k \in S : \A y \in S : k <= y
    <3>1. S \in SUBSET Nat
      OBVIOUS
    <3> HIDE DEF S
    <3>2. QED
      BY <2>1, <3>1, LeastElement
  <2>3. k \in Nat /\ Sampled(Clocked(s, c), k) # Clocked(Sampled(s, k), c)
    BY <2>2
  <2>4. k # 0
    <3>1. Sampled(s, 0) = s /\ Sampled(Clocked(s, c), 0) = Clocked(s, c)
      BY SampledStep
    <3>2. QED
      BY <2>3, <3>1
  <2>5. /\ k - 1 \in Nat /\ (k - 1) + 1 = k
        /\ Sampled(Clocked(s, c), k - 1) = Clocked(Sampled(s, k - 1), c)
    BY <2>2, <2>3, <2>4
  <2>6. /\ Sampled(s, k) = Generated(Sampled(s, k - 1))
        /\ Sampled(Clocked(s, c), k) = Generated(Sampled(Clocked(s, c), k - 1))
    <3>1. /\ Sampled(s, (k - 1) + 1) = Generated(Sampled(s, k - 1))
          /\ Sampled(Clocked(s, c), (k - 1) + 1) = Generated(Sampled(Clocked(s, c), k - 1))
      BY <2>5, SampledStep
    <3>2. QED
      BY <2>5, <3>1
  <2>7. PICK p2, r2, m2 : Sampled(s, k - 1) = StateOf(p2, OutOf(r2, m2, f, a, t))
    BY <2>5, SampledState
  <2>8. Generated(Clocked(Sampled(s, k - 1), c)) = Clocked(Generated(Sampled(s, k - 1)), c)
    BY <2>7, ClockedIs, GeneratedIs
  <2>9. QED
    BY <2>3, <2>5, <2>6, <2>8
<1>2. QED
  BY <1>1

\* The clocks run for one span and then for another.
LEMMA ClockedTwice ==
  ASSUME NEW p, NEW r, NEW m, NEW f \in Nat, NEW a \in Nat, NEW t \in Nat, NEW s,
         NEW b \in Nat, NEW c \in Nat, s = StateOf(p, OutOf(r, m, f, a, t))
  PROVE  Clocked(Clocked(s, b), c) = Clocked(s, b + c)
<1>1. PICK f1, a1, t1 : /\ f1 = (f + b) % StepCycles /\ a1 = (a + b) % SampleCycles
                        /\ t1 = (t + (f + b) \div StepCycles) % FrameSteps
  OBVIOUS
<1>2. Clocked(s, b) = StateOf(p, OutOf(r, m, f1, a1, t1))
  BY <1>1, ClockedIs
<1>3. Clocked(Clocked(s, b), c)
        = StateOf(p, OutOf(r, m, (f1 + c) % StepCycles, (a1 + c) % SampleCycles,
                           (t1 + (f1 + c) \div StepCycles) % FrameSteps))
  BY <1>2, ClockedIs
<1>4. Clocked(s, b + c)
        = StateOf(p, OutOf(r, m, (f + (b + c)) % StepCycles, (a + (b + c)) % SampleCycles,
                           (t + (f + (b + c)) \div StepCycles) % FrameSteps))
  BY ClockedIs
<1>5. f + b \in Int /\ a + b \in Int /\ f + (b + c) = f + b + c /\ a + (b + c) = a + b + c
  OBVIOUS
<1>10. /\ StepCycles \in Nat \ {0} /\ SampleCycles \in Nat \ {0} /\ FrameSteps \in Nat \ {0}
       /\ f + b \in Int /\ a + b \in Int /\ c \in Int
  BY SoundSizes
<1>6. (f1 + c) % StepCycles = (f + b + c) % StepCycles
  <2>1. (((f + b) % StepCycles) + c) % StepCycles = (f + b + c) % StepCycles
    BY <1>10, AddRemainder
  <2>2. QED
    BY <1>1, <2>1
<1>7. (a1 + c) % SampleCycles = (a + b + c) % SampleCycles
  <2>1. (((a + b) % SampleCycles) + c) % SampleCycles = (a + b + c) % SampleCycles
    BY <1>10, AddRemainder
  <2>2. QED
    BY <1>1, <2>1
<1>8. (t1 + (f1 + c) \div StepCycles) % FrameSteps
        = (t + (f + b + c) \div StepCycles) % FrameSteps
  <2>1. PICK u \in Int : u = (f + b) \div StepCycles
    BY <1>5, SoundSizes, Division
  <2>2. PICK v \in Int : v = (f1 + c) \div StepCycles
    <3>1. f1 \in Int
      BY <1>1, <1>5, SoundSizes, Division
    <3>2. f1 + c \in Int
      BY <3>1
    <3>3. QED
      BY <3>2, SoundSizes, Division
  <2>3. u + v = (f + b + c) \div StepCycles
    <3>1. ((f + b) \div StepCycles) + ((((f + b) % StepCycles) + c) \div StepCycles)
            = (f + b + c) \div StepCycles
      BY <1>10, AddQuotient
    <3>2. QED
      BY <1>1, <2>1, <2>2, <3>1
  <2>4. t + u \in Int /\ t + u + v = t + (u + v)
    OBVIOUS
  <2>5. (((t + u) % FrameSteps) + v) % FrameSteps = (t + u + v) % FrameSteps
    BY <2>4, SoundSizes, AddRemainder
  <2>6. QED
    BY <1>1, <2>1, <2>2, <2>3, <2>4, <2>5
<1>9. QED
  BY <1>3, <1>4, <1>5, <1>6, <1>7, <1>8

\* Two ticks are one.
JoinsTicks(s, b, c) == Ticked(Ticked(s, b), c) = Ticked(s, b + c)

LEMMA TicksJoin ==
  ASSUME NEW p, NEW r, NEW m, NEW f \in Nat, NEW a \in Nat, NEW t \in Nat, NEW s,
         NEW b \in Nat, NEW c \in Nat, s = StateOf(p, OutOf(r, m, f, a, t)),
         IsBuffer(r, RingCapacity)
  PROVE  JoinsTicks(s, b, c)
<1> USE DEF JoinsTicks
<1>1. PICK a1 \in Nat, n1 \in Nat, n2 \in Nat :
        /\ a1 = (a + b) % SampleCycles
        /\ n1 = (a + b) \div SampleCycles /\ n2 = (a1 + c) \div SampleCycles
        /\ n1 + n2 = (a + (b + c)) \div SampleCycles
  <2>3. /\ SampleCycles \in Nat \ {0} /\ a + b \in Nat /\ a + b \in Int /\ c \in Int
        /\ a + b + c = a + (b + c)
    BY SoundSizes
  <2>1. /\ (a + b) % SampleCycles \in 0 .. SampleCycles - 1
        /\ (a + b) \div SampleCycles \in Nat
    BY <2>3, NaturalDivision
  <2>2. (((a + b) % SampleCycles) + c) \div SampleCycles \in Nat
    <3>1. ((a + b) % SampleCycles) + c \in Nat
      BY <2>1, <2>3
    <3>2. QED
      BY <2>3, <3>1, NaturalDivision
  <2>4. ((a + b) \div SampleCycles) + ((((a + b) % SampleCycles) + c) \div SampleCycles)
          = (a + (b + c)) \div SampleCycles
    <3>1. ((a + b) \div SampleCycles) + ((((a + b) % SampleCycles) + c) \div SampleCycles)
            = (a + b + c) \div SampleCycles
      BY <2>3, AddQuotient
    <3>2. QED
      BY <2>3, <3>1
  <2>5. QED
    BY <2>1, <2>2, <2>4
<1>2. s.out.audio = a
  BY DEF StateOf, OutOf
<1>3. PICK h : h = Sampled(s, n1)
  OBVIOUS
<1>4. PICK p2, r2, m2 : /\ h = StateOf(p2, OutOf(r2, m2, f, a, t))
                        /\ IsBuffer(r2, RingCapacity)
  <2>1. PICK p2, r2, m2 : /\ Sampled(s, n1) = StateOf(p2, OutOf(r2, m2, f, a, t))
                          /\ Pushes(r, r2, n1, RingCapacity)
    BY SampledState
  <2>2. QED
    BY <1>3, <2>1 DEF Pushes
<1>5. Ticked(s, b) = Clocked(h, b)
  <2>1. Ticked(s, b) = Sampled(Clocked(s, b), n1)
    BY <1>1, <1>2, TickedIs
  <2>2. Sampled(Clocked(s, b), n1) = Clocked(Sampled(s, n1), b)
    BY ClocksAndSamples
  <2>3. QED
    BY <1>3, <2>1, <2>2
<1>6. Clocked(h, b).out.audio = a1
  <2>1. Clocked(h, b) = StateOf(p2, OutOf(r2, m2, (f + b) % StepCycles, a1,
                                          (t + (f + b) \div StepCycles) % FrameSteps))
    BY <1>1, <1>4, ClockedIs
  <2>2. QED
    BY <2>1 DEF StateOf, OutOf
<1>7. Ticked(Ticked(s, b), c) = Sampled(Clocked(Clocked(h, b), c), n2)
  BY <1>1, <1>5, <1>6, TickedIs
<1>8. Clocked(Clocked(h, b), c) = Clocked(h, b + c)
  BY <1>4, ClockedTwice
<1>9. Sampled(Clocked(h, b + c), n2) = Clocked(Sampled(h, n2), b + c)
  BY <1>4, ClocksAndSamples
<1>10. Sampled(h, n2) = Sampled(s, n1 + n2)
  BY <1>3, SampledMore
<1>11. n1 + n2 \in Nat
  OBVIOUS
<1>12. Ticked(s, b + c) = Clocked(Sampled(s, n1 + n2), b + c)
  <2>1. Ticked(s, b + c) = Sampled(Clocked(s, b + c), n1 + n2)
    BY <1>1, <1>2, <1>11, TickedIs
  <2>2. Sampled(Clocked(s, b + c), n1 + n2) = Clocked(Sampled(s, n1 + n2), b + c)
    BY <1>11, ClocksAndSamples
  <2>3. QED
    BY <2>1, <2>2
<1>13. QED
  BY <1>7, <1>8, <1>9, <1>10, <1>12

---------------------------------------------------------------------------
(* The sound unit.                                                          *)

\* The shape of the ring with the clocks, of the FIFOs and of the DMA set-up.
OutShape(o) ==
  /\ o = OutOf(o.ring, o.mixed, o.frame, o.audio, o.step)
  /\ IsBuffer(o.ring, RingCapacity)
  /\ o.frame \in Nat /\ o.audio \in 0 .. SampleCycles - 1 /\ o.step \in Nat

FifoShape(f) ==
  /\ f = [c \in Channels |-> f[c]]
  /\ \A c \in Channels : IsBuffer(f[c], FifoCapacity)

DmaShape(d) == d \in [Channels -> [served : SUBSET (1 .. 2), repeat : SUBSET (1 .. 2)]]

SoundShape == OutShape(out) /\ FifoShape(fifo) /\ DmaShape(dma)

\* The bytes that one timer overflow can put into a FIFO.
MostGiven == 2 * BurstWords * MaxLen(Words)

\* What a step does to a buffer of C slots: it stays, is cleared, or loses an
\* item at most and then gets G at most.
BufferStep(b, d, G, C) ==
  \/ d = b
  \/ IsBuffer(d, C) /\ d.size = 0
  \/ \E n \in Nat : n <= G /\ Pushes(b, d, n, C)
  \/ b.size # 0 /\ \E e : Pops(b, e, C) /\ \E n \in Nat : n <= G /\ Pushes(e, d, n, C)

LEMMA EmptyIsBuffer ==
  ASSUME NEW C \in Nat \ {0}, NEW x
  PROVE  IsBuffer(EmptyBuffer(C, x), C) /\ EmptyBuffer(C, x).size = 0
<1>1. PICK s : s = [i \in 0 .. C - 1 |-> x]
  OBVIOUS
<1>2. PICK b : b = [samples |-> s, head |-> 0, size |-> 0] /\ b = EmptyBuffer(C, x)
  BY <1>1 DEF EmptyBuffer
<1>3. b.samples = s /\ b.head = 0 /\ b.size = 0 /\ s = [i \in 0 .. C - 1 |-> s[i]]
  BY <1>1, <1>2
<1>4. QED
  BY <1>2, <1>3 DEF IsBuffer

LEMMA WordLength ==
  /\ MaxLen(Words) \in Nat
  /\ \A word \in Words : Len(word) \in Nat /\ Len(word) = MaxLen(Words)
<1>1. PICK v \in Words : \A word \in Words : Len(word) \in Nat /\ Len(word) = Len(v)
  <2>1. \A word \in Words : Len(word) \in Nat
    BY WordsAssumption
  <2>2. QED
    BY <2>1, WordsAssumption
<1>2. {Len(q) : q \in Words} = {Len(v)}
  BY <1>1
<1>3. MaxLen(Words) = Len(v)
  <2>1. MaxLen(Words) = CHOOSE n \in {Len(v)} : \A q \in Words : Len(q) <= n
    BY <1>2 DEF MaxLen
  <2>2. \A q \in Words : Len(q) <= Len(v)
    BY <1>1
  <2>3. QED
    BY <2>1, <2>2
<1>4. QED
  BY <1>1, <1>3

LEMMA SetupCounts ==
  ASSUME NEW servers \in SUBSET (1 .. 2)
  PROVE  Cardinality(servers) \in 0 .. 2
<1>1. IsFiniteSet(1 .. 2) /\ Cardinality(1 .. 2) = 2
  <2>1. 1 \in Int /\ 2 \in Int /\ (IF 1 > 2 THEN 0 ELSE 2 - 1 + 1) = 2
    OBVIOUS
  <2>2. QED
    BY <2>1, FS_Interval
<1>2. IsFiniteSet(servers) /\ Cardinality(servers) <= 2
  BY <1>1, FS_Subset
<1>3. Cardinality(servers) \in Nat
  BY <1>2, FS_CardinalityType
<1>4. QED
  BY <1>2, <1>3

LEMMA ShapeInit == SoundInit => SoundShape
<1>1. SUFFICES ASSUME SoundInit PROVE SoundShape
  OBVIOUS
<1>2. IsBuffer(EmptyRing, RingCapacity) /\ IsBuffer(EmptyFifo, FifoCapacity)
  BY SoundSizes, EmptyIsBuffer DEF EmptyRing, EmptyFifo
<1>3. out = OutOf(EmptyRing, Silence, 0, 0, 0)
  BY <1>1 DEF SoundInit, OutOff, OutOf
<1>4. /\ out.ring = EmptyRing /\ out.mixed = Silence /\ out.frame = 0 /\ out.audio = 0
      /\ out.step = 0
  BY <1>3 DEF OutOf
<1>5. 0 \in 0 .. SampleCycles - 1
  BY SoundSizes
<1>6. fifo = [c \in Channels |-> EmptyFifo]
  BY <1>1 DEF SoundInit
<1>7. fifo = [c \in Channels |-> fifo[c]] /\ \A c \in Channels : fifo[c] = EmptyFifo
  BY <1>6
<1>8. dma \in [Channels -> [served : SUBSET (1 .. 2), repeat : SUBSET (1 .. 2)]]
  BY <1>1, DmaSetupsAssumption DEF SoundInit
<1>9. QED
  BY <1>2, <1>3, <1>4, <1>5, <1>7, <1>8 DEF SoundShape, OutShape, FifoShape, DmaShape

\* The ring in a step, with its clocks.
OutStep(o, u) == OutShape(u) /\ BufferStep(o.ring, u.ring, RingCapacity - 1, RingCapacity)

FifoStep(f, g) ==
  FifoShape(g) /\ \A c \in Channels : BufferStep(f[c], g[c], MostGiven, FifoCapacity)

LEMMA OutStays == OutShape(out) => OutStep(out, out)
BY DEF OutStep, BufferStep

LEMMA FifoStays == FifoShape(fifo) => FifoStep(fifo, fifo)
BY DEF FifoStep, BufferStep

LEMMA RingCleared ==
  ASSUME OutShape(out), NEW u, NEW m, NEW f \in Nat, NEW a \in 0 .. SampleCycles - 1,
         NEW t \in Nat, u = OutOf(EmptyRing, m, f, a, t)
  PROVE  OutStep(out, u)
<1>1. IsBuffer(EmptyRing, RingCapacity) /\ EmptyRing.size = 0
  BY SoundSizes, EmptyIsBuffer DEF EmptyRing
<1>2. u.ring = EmptyRing /\ u.mixed = m /\ u.frame = f /\ u.audio = a /\ u.step = t
  BY DEF OutOf
<1>3. QED
  BY <1>1, <1>2 DEF OutStep, OutShape, BufferStep

LEMMA OutTurnsOff == OutShape(out) => OutStep(out, OutOff)
<1>1. OutOff = OutOf(EmptyRing, Silence, 0, 0, 0)
  BY DEF OutOff, OutOf
<1>2. 0 \in 0 .. SampleCycles - 1 /\ 0 \in Nat
  BY SoundSizes
<1>3. QED
  BY <1>1, <1>2, RingCleared

LEMMA BufferIsCleared == ASSUME OutShape(out), ClearAudioBuffer PROVE OutStep(out, out')
<1>1. out' = [out EXCEPT !.ring = EmptyRing]
  BY DEF ClearAudioBuffer
<1>2. out' = OutOf(EmptyRing, out.mixed, out.frame, out.audio, out.step)
  BY <1>1 DEF OutShape, OutOf
<1>3. out.frame \in Nat /\ out.audio \in 0 .. SampleCycles - 1 /\ out.step \in Nat
  BY DEF OutShape
<1>4. QED
  BY <1>2, <1>3, RingCleared

LEMMA SampleIsPopped == ASSUME OutShape(out), PopAudioSample PROVE OutStep(out, out')
<1>1. out' = [out EXCEPT !.ring = Popped(@)] /\ out.ring.size # 0
  BY DEF PopAudioSample
<1>2. PICK r : r = Popped(out.ring)
  OBVIOUS
<1>3. out' = OutOf(r, out.mixed, out.frame, out.audio, out.step)
  BY <1>1, <1>2 DEF OutShape, OutOf
<1>4. /\ out'.ring = r /\ out'.mixed = out.mixed /\ out'.frame = out.frame
      /\ out'.audio = out.audio /\ out'.step = out.step
  BY <1>3 DEF OutOf
<1>5. Pops(out.ring, r, RingCapacity)
  BY <1>1, <1>2, SoundSizes, PopOne DEF OutShape
<1>6. IsBuffer(r, RingCapacity) /\ Pushes(r, r, 0, RingCapacity)
  <2>1. IsBuffer(r, RingCapacity)
    BY <1>5 DEF Pops
  <2>2. QED
    BY <2>1, SoundSizes, PushNone
<1>7. OutShape(out')
  BY <1>3, <1>4, <1>6 DEF OutShape
<1>8. 0 \in Nat /\ 0 <= RingCapacity - 1
  BY SoundSizes
<1>9. BufferStep(out.ring, out'.ring, RingCapacity - 1, RingCapacity)
  BY <1>1, <1>4, <1>5, <1>6, <1>8 DEF BufferStep
<1>10. QED
  BY <1>7, <1>9 DEF OutStep

LEMMA TickStep ==
  ASSUME OutShape(out), NEW cycles \in Windows, Tick(cycles)
  PROVE  OutStep(out, out')
<1>1. PICK p, r, m, f, a, t, s :
        /\ p = psg /\ r = out.ring /\ m = out.mixed /\ f = out.frame /\ a = out.audio /\ t = out.step
        /\ s = [psg |-> psg, out |-> out]
  OBVIOUS
<1>2. /\ IsBuffer(r, RingCapacity) /\ out = OutOf(r, m, f, a, t)
      /\ f \in Nat /\ a \in 0 .. SampleCycles - 1 /\ t \in Nat
  BY <1>1 DEF OutShape
<1>3. s = StateOf(p, OutOf(r, m, f, a, t)) /\ s.out.audio = a
  BY <1>1, <1>2 DEF StateOf
<1>4. /\ cycles \in Nat /\ cycles <= (RingCapacity - 1) * SampleCycles
  BY WindowsAssumption
<1>5. a + cycles \in Nat /\ f + cycles \in Nat /\ a + cycles < RingCapacity * SampleCycles
  <2>1. (RingCapacity - 1) * SampleCycles = RingCapacity * SampleCycles - SampleCycles
    BY SoundSizes
  <2>2. RingCapacity * SampleCycles \in Int
    BY SoundSizes
  <2>3. QED
    BY <1>2, <1>4, <2>1, <2>2, SoundSizes
<1>6. PICK n \in Nat : n = (a + cycles) \div SampleCycles /\ n <= RingCapacity - 1
  <2>1. /\ (a + cycles) \div SampleCycles \in Nat
        /\ (a + cycles) \div SampleCycles < RingCapacity
    <3>1. SampleCycles \in Nat \ {0} /\ RingCapacity \in Nat
      BY SoundSizes
    <3>2. PICK sum \in Nat : sum = a + cycles
      BY <1>5
    <3>3. sum \div SampleCycles \in Nat
      BY <3>1, <3>2, NaturalDivision
    <3>4. sum < RingCapacity * SampleCycles
      BY <1>5, <3>2
    <3>5. sum \div SampleCycles < RingCapacity
      BY <3>1, <3>2, <3>4, NaturalDivision
    <3>6. QED
      BY <3>2, <3>3, <3>5
  <2>2. QED
    BY <2>1, SoundSizes
<1>7. PICK f1 \in Nat, a1 \in 0 .. SampleCycles - 1, t1 \in Nat :
        /\ f1 = (f + cycles) % StepCycles /\ a1 = (a + cycles) % SampleCycles
        /\ t1 = (t + (f + cycles) \div StepCycles) % FrameSteps
  <2>1. /\ SampleCycles \in Nat \ {0} /\ StepCycles \in Nat \ {0} /\ FrameSteps \in Nat \ {0}
    BY SoundSizes
  <2>2. /\ (f + cycles) % StepCycles \in Nat /\ (f + cycles) \div StepCycles \in Nat
        /\ (a + cycles) % SampleCycles \in 0 .. SampleCycles - 1
    <3>1. PICK sum \in Nat, span \in Nat : sum = a + cycles /\ span = f + cycles
      BY <1>5
    <3>2. sum % SampleCycles \in 0 .. SampleCycles - 1
      BY <2>1, <3>1, NaturalDivision
    <3>3. span \div StepCycles \in Nat
      BY <2>1, <3>1, NaturalDivision
    <3>4. span % StepCycles \in 0 .. StepCycles - 1
      BY <2>1, <3>1, NaturalDivision
    <3>5. span % StepCycles \in Nat
      BY <2>1, <3>4
    <3>6. QED
      BY <3>1, <3>2, <3>3, <3>5
  <2>3. (t + (f + cycles) \div StepCycles) \in Nat
    BY <1>2, <2>2
  <2>4. (t + (f + cycles) \div StepCycles) % FrameSteps \in Nat
    <3>1. PICK steps \in Nat : steps = t + (f + cycles) \div StepCycles
      BY <2>3
    <3>2. steps % FrameSteps \in 0 .. FrameSteps - 1
      BY <2>1, NaturalDivision
    <3>3. steps % FrameSteps \in Nat
      BY <2>1, <3>2
    <3>4. QED
      BY <3>1, <3>3
  <2>5. QED
    BY <2>2, <2>4
<1>8. Clocked(s, cycles) = StateOf(p, OutOf(r, m, f1, a1, t1))
  BY <1>3, <1>7, ClockedIs
<1>9. Ticked(s, cycles) = Sampled(Clocked(s, cycles), n)
  BY <1>3, <1>6, TickedIs
<1>10. PICK p2, r2, m2 :
         /\ Ticked(s, cycles) = StateOf(p2, OutOf(r2, m2, f1, a1, t1))
         /\ Pushes(r, r2, n, RingCapacity)
  BY <1>2, <1>8, <1>9, SampledState
<1>11. out' = OutOf(r2, m2, f1, a1, t1)
  <2>1. out' = Ticked(s, cycles).out
    BY <1>1 DEF Tick
  <2>2. QED
    BY <1>10, <2>1 DEF StateOf
<1>12. /\ out'.ring = r2 /\ out'.mixed = m2 /\ out'.frame = f1 /\ out'.audio = a1 /\ out'.step = t1
  BY <1>11 DEF OutOf
<1>13. OutShape(out')
  <2>1. IsBuffer(r2, RingCapacity)
    BY <1>10 DEF Pushes
  <2>2. QED
    BY <1>11, <1>12, <2>1 DEF OutShape
<1>14. BufferStep(out.ring, out'.ring, RingCapacity - 1, RingCapacity)
  BY <1>1, <1>6, <1>10, <1>12 DEF BufferStep
<1>15. QED
  BY <1>13, <1>14 DEF OutStep

\* The FIFOs.
LEMMA FifosCleared ==
  ASSUME FifoShape(fifo), NEW g, NEW cleared,
         g = [c \in Channels |-> IF c \in cleared THEN EmptyFifo ELSE fifo[c]]
  PROVE  FifoStep(fifo, g)
<1>1. IsBuffer(EmptyFifo, FifoCapacity) /\ EmptyFifo.size = 0
  BY SoundSizes, EmptyIsBuffer DEF EmptyFifo
<1>2. ASSUME NEW c \in Channels
      PROVE  IsBuffer(g[c], FifoCapacity) /\ BufferStep(fifo[c], g[c], MostGiven, FifoCapacity)
  <2>1. CASE c \in cleared
    BY <1>1, <2>1 DEF BufferStep
  <2>2. CASE c \notin cleared
    BY <2>2 DEF BufferStep, FifoShape
  <2>3. QED
    BY <2>1, <2>2
<1>3. QED
  BY <1>2 DEF FifoStep, FifoShape

LEMMA FifosTurnOff ==
  ASSUME FifoShape(fifo), NEW g, g = [c \in Channels |-> EmptyFifo]
  PROVE  FifoStep(fifo, g)
<1>1. g = [c \in Channels |-> IF c \in Channels THEN EmptyFifo ELSE fifo[c]]
  OBVIOUS
<1>2. QED
  BY <1>1, FifosCleared

LEMMA MostGivenIs ==
  /\ MostGiven \in Nat
  /\ \A word \in Words, k \in 0 .. 2 : /\ BurstWords * k \in Nat
                                       /\ BurstWords * k * Len(word) \in Nat
                                       /\ BurstWords * k * Len(word) <= MostGiven
<1>1. PICK n \in Nat, bw \in Nat : n = MaxLen(Words) /\ bw = BurstWords
  BY WordLength, SoundSizes
<1>2. ASSUME NEW k \in 0 .. 2
      PROVE  bw * k \in Nat /\ bw * k * n \in Nat /\ bw * k * n <= 2 * bw * n
  <2>1. CASE k = 0
    BY <2>1
  <2>2. CASE k = 1
    <3>1. bw * k = bw /\ 2 * bw * n = bw * n + bw * n /\ bw * n \in Nat
      BY <2>2
    <3>2. QED
      BY <3>1
  <2>3. CASE k = 2
    BY <2>3
  <2>4. QED
    BY <2>1, <2>2, <2>3
<1>3. MostGiven = 2 * bw * n /\ 2 * bw * n \in Nat
  BY <1>1 DEF MostGiven
<1>4. \A word \in Words : Len(word) = n
  BY <1>1, WordLength
<1>5. QED
  BY <1>1, <1>2, <1>3, <1>4

LEMMA WordIsWritten ==
  ASSUME FifoShape(fifo), NEW c \in Channels, NEW word \in Words, WriteFifo(c, word)
  PROVE  FifoStep(fifo, fifo')
<1>1. fifo' = [fifo EXCEPT ![c] = Written(@, word)]
  BY DEF WriteFifo
<1>2. PICK n \in Nat : n = Len(word)
  BY WordLength
<1>3. Pushes(fifo[c], Written(fifo[c], word), n, FifoCapacity)
  BY <1>2, SoundSizes, WrittenPushes DEF FifoShape
<1>4. n <= MostGiven
  <2>1. MostGiven = 2 * BurstWords * n /\ BurstWords * n \in Nat
    BY <1>2, WordLength, SoundSizes DEF MostGiven
  <2>2. (BurstWords - 1) * n >= 0 /\ (BurstWords - 1) * n = BurstWords * n - n
    BY SoundSizes
  <2>3. 2 * BurstWords * n = BurstWords * n + BurstWords * n
    BY SoundSizes
  <2>4. QED
    BY <2>1, <2>2, <2>3
<1>5. ASSUME NEW d \in Channels
      PROVE  IsBuffer(fifo'[d], FifoCapacity) /\ BufferStep(fifo[d], fifo'[d], MostGiven, FifoCapacity)
  <2>1. CASE d = c
    <3>1. fifo'[d] = Written(fifo[c], word)
      BY <1>1, <2>1 DEF FifoShape
    <3>2. IsBuffer(fifo'[d], FifoCapacity)
      BY <1>3, <3>1 DEF Pushes
    <3>3. QED
      BY <1>2, <1>3, <1>4, <2>1, <3>1, <3>2 DEF BufferStep
  <2>2. CASE d # c
    <3>1. fifo'[d] = fifo[d]
      BY <1>1, <2>2 DEF FifoShape
    <3>2. QED
      BY <3>1 DEF BufferStep, FifoShape
  <2>3. QED
    BY <2>1, <2>2
<1>6. fifo' = [d \in Channels |-> fifo'[d]]
  BY <1>1 DEF FifoShape
<1>7. QED
  BY <1>5, <1>6 DEF FifoStep, FifoShape

LEMMA OverflowOfFifos ==
  ASSUME FifoShape(fifo), DmaShape(dma), NEW timer \in 0 .. 1, NEW allowDma \in BOOLEAN,
         NEW word \in Words, TimerOverflow(timer, allowDma, word)
  PROVE  FifoStep(fifo, fifo') /\ DmaShape(dma')
<1> DEFINE used == {c \in Channels : UsesTimer(c, timer)}
           left == [c \in Channels |-> IF c \in used THEN Drained(fifo[c]) ELSE fifo[c]]
           asks == {c \in used : allowDma /\ RefillNeeded(left[c])}
           given(c) == Refilled(left[c], dma[c].served, word)
           bursts(c) == BurstWords * Cardinality(dma[c].served)
<1>1. /\ fifo' = [c \in Channels |-> IF c \in asks THEN given(c) ELSE left[c]]
      /\ dma' = [c \in Channels |-> IF c \in asks
                                    THEN [dma[c] EXCEPT !.served = dma[c].repeat] ELSE dma[c]]
  BY DEF TimerOverflow
<1>2. DmaShape(dma')
  <2>1. ASSUME NEW c \in Channels
        PROVE  [dma[c] EXCEPT !.served = dma[c].repeat]
                 \in [served : SUBSET (1 .. 2), repeat : SUBSET (1 .. 2)]
    BY DEF DmaShape
  <2>2. ASSUME NEW c \in Channels
        PROVE  dma[c] \in [served : SUBSET (1 .. 2), repeat : SUBSET (1 .. 2)]
    BY DEF DmaShape
  <2> HIDE DEF asks
  <2>3. QED
    BY <1>1, <2>1, <2>2 DEF DmaShape
<1>3. ASSUME NEW c \in Channels
      PROVE  /\ IsBuffer(left[c], FifoCapacity)
             /\ \/ left[c] = fifo[c]
                \/ fifo[c].size # 0 /\ Pops(fifo[c], left[c], FifoCapacity)
  <2>1. IsBuffer(fifo[c], FifoCapacity)
    BY DEF FifoShape
  <2>2. left[c] = fifo[c] \/ (fifo[c].size # 0 /\ left[c] = Popped(fifo[c]))
    BY DEF Drained
  <2>3. CASE left[c] = fifo[c]
    BY <2>1, <2>3
  <2>4. CASE fifo[c].size # 0 /\ left[c] = Popped(fifo[c])
    <3>1. Pops(fifo[c], Popped(fifo[c]), FifoCapacity)
      BY <2>1, <2>4, SoundSizes, PopOne
    <3>2. QED
      BY <2>4, <3>1 DEF Pops
  <2>5. QED
    BY <2>2, <2>3, <2>4
<1>4. ASSUME NEW c \in Channels
      PROVE  \E n \in Nat : n <= MostGiven /\ Pushes(left[c], fifo'[c], n, FifoCapacity)
  <2> HIDE DEF left
  <2>1. PICK k \in 0 .. 2 : k = Cardinality(dma[c].served)
    BY SetupCounts DEF DmaShape
  <2>2. PICK n \in Nat : n = bursts(c) * Len(word) /\ n <= MostGiven
    BY <2>1, MostGivenIs
  <2>3. CASE c \in asks
    <3>1. BurstWords * Cardinality(dma[c].served) \in Nat
      BY <2>1, MostGivenIs
    <3>2. Len(word) \in Nat
      BY WordLength
    <3>3. Pushes(left[c], given(c), BurstWords * Cardinality(dma[c].served) * Len(word), FifoCapacity)
      BY <1>3, <3>1, <3>2, SoundSizes, RefilledPushes
    <3>4. fifo'[c] = given(c)
      <4> HIDE DEF asks, given
      <4>1. QED
        BY <1>1, <2>3
    <3>5. QED
      BY <2>2, <3>3, <3>4
  <2>4. CASE c \notin asks
    <3>1. fifo'[c] = left[c]
      <4> HIDE DEF asks, given
      <4>1. QED
        BY <1>1, <2>4
    <3>2. Pushes(left[c], left[c], 0, FifoCapacity)
      BY <1>3, SoundSizes, PushNone
    <3>3. 0 \in Nat /\ 0 <= MostGiven
      BY MostGivenIs
    <3>4. QED
      BY <3>1, <3>2, <3>3
  <2>5. QED
    BY <2>3, <2>4
<1>5. ASSUME NEW c \in Channels
      PROVE  IsBuffer(fifo'[c], FifoCapacity) /\ BufferStep(fifo[c], fifo'[c], MostGiven, FifoCapacity)
  <2> HIDE DEF left
  <2>1. IsBuffer(fifo'[c], FifoCapacity)
    BY <1>4 DEF Pushes
  <2>2. CASE left[c] = fifo[c]
    BY <1>4, <2>1, <2>2 DEF BufferStep
  <2>3. CASE fifo[c].size # 0 /\ Pops(fifo[c], left[c], FifoCapacity)
    BY <1>4, <2>1, <2>3 DEF BufferStep
  <2>4. QED
    BY <1>3, <2>1, <2>2, <2>3
<1>6. fifo' = [c \in Channels |-> fifo'[c]]
  <2> HIDE DEF asks, given, left
  <2>1. QED
    BY <1>1
<1>7. QED
  BY <1>2, <1>5, <1>6 DEF FifoStep, FifoShape

\* Every step, and the shape.
LEMMA SoundSteps ==
  ASSUME SoundShape, [SoundNext]_soundVars
  PROVE  OutStep(out, out') /\ FifoStep(fifo, fifo') /\ DmaShape(dma')
<1>1. OutStep(out, out) /\ FifoStep(fifo, fifo) /\ DmaShape(dma)
  BY OutStays, FifoStays DEF SoundShape
<1>2. CASE UNCHANGED <<fifo, out, dma>>
  BY <1>1, <1>2
<1>3. CASE UNCHANGED soundVars
  BY <1>2, <1>3 DEF soundVars
<1>4. ASSUME NEW value \in CntL, WriteSoundcntL(value) PROVE UNCHANGED <<fifo, out, dma>>
  BY <1>4 DEF WriteSoundcntL
<1>5. ASSUME NEW value \in CntH, WriteSoundcntH(value)
      PROVE  FifoStep(fifo, fifo') /\ UNCHANGED <<out, dma>>
  <2>1. /\ fifo' = [c \in Channels |-> IF c \in value.clear THEN EmptyFifo ELSE fifo[c]]
        /\ UNCHANGED <<out, dma>>
    BY <1>5 DEF WriteSoundcntH
  <2>2. FifoStep(fifo, fifo')
    BY <2>1, FifosCleared DEF SoundShape
  <2>3. QED
    BY <2>1, <2>2
<1>6. CASE EnableMaster \/ SetWaveBankSelect
  BY <1>2, <1>6 DEF EnableMaster, SetWaveBankSelect
<1>7. CASE DisableMaster \/ Reset
  <2>1. fifo' = [c \in Channels |-> EmptyFifo] /\ out' = OutOff /\ dma' = dma
    BY <1>7 DEF DisableMaster, Reset
  <2>2. FifoStep(fifo, fifo') /\ OutStep(out, out')
    BY <2>1, FifosTurnOff, OutTurnsOff DEF SoundShape
  <2>3. QED
    BY <1>1, <2>1, <2>2
<1>8. ASSUME NEW i \in 0 .. WaveHalfwords - 1, NEW value \in Halfwords, WriteWaveRam(i, value)
      PROVE  UNCHANGED <<fifo, out, dma>>
  BY <1>8 DEF WriteWaveRam
<1>9. ASSUME NEW c \in Channels, NEW word \in Words, WriteFifo(c, word)
      PROVE  FifoStep(fifo, fifo') /\ UNCHANGED <<out, dma>>
  <2>1. UNCHANGED <<out, dma>>
    BY <1>9 DEF WriteFifo
  <2>2. FifoStep(fifo, fifo')
    BY <1>9, WordIsWritten DEF SoundShape
  <2>3. QED
    BY <2>1, <2>2
<1>10. CASE \/ \E g \in Squares : ConfigureSquare(g)
            \/ \E g \in Waves : ConfigureWave(g)
            \/ \E g \in Noises : ConfigureNoise(g)
  <2>1. UNCHANGED <<fifo, out, dma>>
    BY <1>10 DEF ConfigureSquare, ConfigureWave, ConfigureNoise, Configure
  <2>2. QED
    BY <1>2, <2>1
<1>11. ASSUME NEW g \in 0 .. 3, DisablePsgChannel(g) PROVE UNCHANGED <<fifo, out, dma>>
  BY <1>11 DEF DisablePsgChannel
<1>12. ASSUME NEW cycles \in Windows, Tick(cycles)
       PROVE  OutStep(out, out') /\ UNCHANGED <<fifo, dma>>
  <2>1. UNCHANGED <<fifo, dma>>
    BY <1>12 DEF Tick
  <2>2. OutStep(out, out')
    BY <1>12, TickStep DEF SoundShape
  <2>3. QED
    BY <2>1, <2>2
<1>13. ASSUME NEW timer \in 0 .. 1, NEW allowDma \in BOOLEAN, NEW word \in Words,
              TimerOverflow(timer, allowDma, word)
       PROVE  FifoStep(fifo, fifo') /\ DmaShape(dma') /\ out' = out
  <2>1. out' = out
    BY <1>13 DEF TimerOverflow
  <2>2. QED
    BY <1>13, <2>1, OverflowOfFifos DEF SoundShape
<1>14. CASE PopAudioSample
  <2>1. UNCHANGED <<fifo, dma>>
    BY <1>14 DEF PopAudioSample
  <2>2. OutStep(out, out')
    BY <1>14, SampleIsPopped DEF SoundShape
  <2>3. QED
    BY <1>1, <2>1, <2>2
<1>15. CASE ClearAudioBuffer
  <2>1. UNCHANGED <<fifo, dma>>
    BY <1>15 DEF ClearAudioBuffer
  <2>2. OutStep(out, out')
    BY <1>15, BufferIsCleared DEF SoundShape
  <2>3. QED
    BY <1>1, <2>1, <2>2
<1>16. QED
  BY <1>1, <1>3, <1>4, <1>5, <1>6, <1>7, <1>8, <1>9, <1>10, <1>11, <1>12, <1>13, <1>14, <1>15
     DEF SoundNext

LEMMA ShapeStep == SoundShape /\ [SoundNext]_soundVars => SoundShape'
<1>1. SUFFICES ASSUME SoundShape, [SoundNext]_soundVars PROVE SoundShape'
  OBVIOUS
<1>2. OutShape(out') /\ FifoShape(fifo') /\ DmaShape(dma')
  BY <1>1, SoundSteps DEF OutStep, FifoStep
<1>3. QED
  BY <1>2 DEF SoundShape, OutShape, FifoShape, DmaShape

\* The contents of a buffer in a step.
QueueStep(q, p, G, C) ==
  \/ p = q
  \/ p = <<>>
  \/ IsPut(q, p, C, G)
  \/ q # <<>> /\ IsPut(Tail(q), p, C, G)

LEMMA EmptyContents ==
  ASSUME NEW C \in Nat \ {0}, NEW b, IsBuffer(b, C), b.size = 0
  PROVE  Contents(b) = <<>>
BY DEF Contents

LEMMA BufferStepIsQueueStep ==
  ASSUME NEW C \in Nat \ {0}, NEW G \in Nat, NEW b, NEW d, IsBuffer(b, C), BufferStep(b, d, G, C)
  PROVE  QueueStep(Contents(b), Contents(d), G, C)
<1>1. CASE d = b
  BY <1>1 DEF QueueStep
<1>2. CASE IsBuffer(d, C) /\ d.size = 0
  BY <1>2, EmptyContents DEF QueueStep
<1>3. CASE \E n \in Nat : n <= G /\ Pushes(b, d, n, C)
  <2>1. IsPut(Contents(b), Contents(d), C, G)
    BY <1>3, PushIsPut
  <2>2. QED
    BY <2>1 DEF QueueStep
<1>4. CASE b.size # 0 /\ \E e : Pops(b, e, C) /\ \E n \in Nat : n <= G /\ Pushes(e, d, n, C)
  <2>1. PICK e : Pops(b, e, C) /\ \E n \in Nat : n <= G /\ Pushes(e, d, n, C)
    BY <1>4
  <2>2. IsBuffer(e, C)
    BY <2>1 DEF Pops
  <2>3. IsPut(Contents(e), Contents(d), C, G)
    BY <2>1, <2>2, PushIsPut
  <2>4. Contents(b) # <<>> /\ Tail(Contents(b)) = Contents(e)
    BY <1>4, <2>1, PopIsTail
  <2>5. QED
    BY <2>3, <2>4 DEF QueueStep
<1>5. QED
  BY <1>1, <1>2, <1>3, <1>4 DEF BufferStep

LEMMA QueuesStep ==
  ASSUME SoundShape, [SoundNext]_soundVars
  PROVE  /\ QueueStep(Contents(out.ring), Contents(out'.ring), RingCapacity - 1, RingCapacity)
         /\ \A c \in Channels :
              QueueStep(Contents(fifo[c]), Contents(fifo'[c]), MostGiven, FifoCapacity)
<1>1. OutStep(out, out') /\ FifoStep(fifo, fifo')
  BY SoundSteps
<1>2. /\ BufferStep(out.ring, out'.ring, RingCapacity - 1, RingCapacity)
      /\ IsBuffer(out.ring, RingCapacity)
  BY <1>1 DEF OutStep, SoundShape, OutShape
<1>3. RingCapacity \in Nat \ {0} /\ RingCapacity - 1 \in Nat /\ FifoCapacity \in Nat \ {0}
  BY SoundSizes
<1>4. QueueStep(Contents(out.ring), Contents(out'.ring), RingCapacity - 1, RingCapacity)
  BY <1>2, <1>3, BufferStepIsQueueStep
<1>5. MostGiven \in Nat
  BY MostGivenIs
<1>6. ASSUME NEW c \in Channels
      PROVE  QueueStep(Contents(fifo[c]), Contents(fifo'[c]), MostGiven, FifoCapacity)
  <2>1. IsBuffer(fifo[c], FifoCapacity) /\ BufferStep(fifo[c], fifo'[c], MostGiven, FifoCapacity)
    BY <1>1 DEF FifoStep, SoundShape, FifoShape
  <2>2. QED
    BY <1>3, <1>5, <2>1, BufferStepIsQueueStep
<1>7. QED
  BY <1>4, <1>6

\* Each buffer is one of the lossy queues.
LEMMA FifoAStep ==
  ASSUME QueueStep(Contents(fifo["a"]), Contents(fifo'["a"]), MostGiven, FifoCapacity)
  PROVE  [FifoA!Clear \/ FifoA!Put \/ FifoA!TakeAndPut]_(Contents(fifo["a"]))
<1>1. Contents(fifo["a"])' = Contents(fifo'["a"])
  BY DEF Contents, Slots
<1>2. QED
  BY <1>1 DEF QueueStep, IsPut, NewestOf, MostGiven, FifoA!Clear, FifoA!Put, FifoA!TakeAndPut,
              FifoA!Given, FifoA!Newest

LEMMA FifoBStep ==
  ASSUME QueueStep(Contents(fifo["b"]), Contents(fifo'["b"]), MostGiven, FifoCapacity)
  PROVE  [FifoB!Clear \/ FifoB!Put \/ FifoB!TakeAndPut]_(Contents(fifo["b"]))
<1>1. Contents(fifo["b"])' = Contents(fifo'["b"])
  BY DEF Contents, Slots
<1>2. QED
  BY <1>1 DEF QueueStep, IsPut, NewestOf, MostGiven, FifoB!Clear, FifoB!Put, FifoB!TakeAndPut,
              FifoB!Given, FifoB!Newest

LEMMA RingStep ==
  ASSUME QueueStep(Contents(out.ring), Contents(out'.ring), RingCapacity - 1, RingCapacity)
  PROVE  [RingQueue!Clear \/ RingQueue!Put \/ RingQueue!TakeAndPut]_(Contents(out.ring))
<1>1. Contents(out.ring)' = Contents(out'.ring)
  BY DEF Contents, Slots
<1>2. QED
  BY <1>1 DEF QueueStep, IsPut, NewestOf, RingQueue!Clear, RingQueue!Put, RingQueue!TakeAndPut,
              RingQueue!Given, RingQueue!Newest

LEMMA QueuesInit == SoundInit => FifoA!Init /\ FifoB!Init /\ RingQueue!Init
<1>1. SUFFICES ASSUME SoundInit PROVE FifoA!Init /\ FifoB!Init /\ RingQueue!Init
  OBVIOUS
<1>2. fifo["a"] = EmptyFifo /\ fifo["b"] = EmptyFifo /\ out.ring = EmptyRing
  BY <1>1 DEF SoundInit, OutOff, Channels
<1>3. Contents(EmptyFifo) = <<>> /\ Contents(EmptyRing) = <<>>
  BY SoundSizes, EmptyIsBuffer, EmptyContents DEF EmptyFifo, EmptyRing
<1>4. QED
  BY <1>2, <1>3 DEF FifoA!Init, FifoB!Init, RingQueue!Init

LEMMA QueuesNext ==
  SoundShape /\ [SoundNext]_soundVars =>
    /\ [FifoA!Clear \/ FifoA!Put \/ FifoA!TakeAndPut]_(Contents(fifo["a"]))
    /\ [FifoB!Clear \/ FifoB!Put \/ FifoB!TakeAndPut]_(Contents(fifo["b"]))
    /\ [RingQueue!Clear \/ RingQueue!Put \/ RingQueue!TakeAndPut]_(Contents(out.ring))
<1>1. SUFFICES ASSUME SoundShape, [SoundNext]_soundVars
               PROVE  /\ [FifoA!Clear \/ FifoA!Put \/ FifoA!TakeAndPut]_(Contents(fifo["a"]))
                      /\ [FifoB!Clear \/ FifoB!Put \/ FifoB!TakeAndPut]_(Contents(fifo["b"]))
                      /\ [RingQueue!Clear \/ RingQueue!Put \/ RingQueue!TakeAndPut]_(Contents(out.ring))
  OBVIOUS
<1>2. "a" \in Channels /\ "b" \in Channels
  BY DEF Channels
<1>3. QED
  BY <1>1, <1>2, QueuesStep, FifoAStep, FifoBStep, RingStep

\* The clocks and buffers of the sound unit keep their shape in every state.
THEOREM SoundShapeHolds == SoundSpec => []SoundShape
<1>1. QED
  BY ShapeInit, ShapeStep, PTL DEF SoundSpec

\* The FIFOs and the ring of samples lose only their oldest items, and only
\* when full, however pushes, refills and pops interleave: each implements the
\* abstract queue.
THEOREM QueuesLoseOldestHolds == SoundSpec => QueuesLoseOldest
<1>1. SoundInit => FifoA!Init /\ FifoB!Init /\ RingQueue!Init
  BY QueuesInit
<1>2. QED
  BY <1>1, ShapeInit, ShapeStep, QueuesNext, PTL
     DEF SoundSpec, QueuesLoseOldest, FifoA!Spec, FifoB!Spec, RingQueue!Spec

LEMMA ShapeTicks == SoundShape => TicksAddUp
<1>1. SUFFICES ASSUME SoundShape, NEW first \in Windows, NEW second \in Windows
               PROVE  LET s == [psg |-> psg, out |-> out]
                      IN  Ticked(Ticked(s, first), second) = Ticked(s, first + second)
  BY DEF TicksAddUp
<1>2. PICK s : s = [psg |-> psg, out |-> out]
  OBVIOUS
<1>3. PICK p, r, m, f, a, t :
        /\ p = psg /\ r = out.ring /\ m = out.mixed /\ f = out.frame /\ a = out.audio /\ t = out.step
  OBVIOUS
<1>4. /\ IsBuffer(r, RingCapacity) /\ out = OutOf(r, m, f, a, t)
      /\ f \in Nat /\ a \in Nat /\ t \in Nat
  BY <1>1, <1>3, SoundSizes DEF SoundShape, OutShape
<1>5. s = StateOf(p, OutOf(r, m, f, a, t))
  BY <1>2, <1>3, <1>4 DEF StateOf
<1>6. first \in Nat /\ second \in Nat
  BY WindowsAssumption
<1>7. PICK b \in Nat, c \in Nat : b = first /\ c = second
  BY <1>6
<1>8. JoinsTicks(s, b, c)
  BY <1>4, <1>5, TicksJoin
<1>9. QED
  BY <1>2, <1>7, <1>8 DEF JoinsTicks

\* However a span of time is cut into ticks, the samples, the generators and
\* the clocks end the same.
THEOREM TicksAddUpHold == SoundSpec => []TicksAddUp
<1>1. QED
  BY SoundShapeHolds, ShapeTicks, PTL
=============================================================================
