--------------------------- MODULE DmaController ---------------------------
(***************************************************************************)
(* The four DMA channels of src/core/dma_controller.cpp: the register      *)
(* writes with their latches, the triggers (immediate, VBlank, HBlank and  *)
(* the two sound FIFOs), transfers unit by unit, repeat and completion,    *)
(* the immediate_pending_ flag the scheduler's fast paths rely on, and     *)
(* save/load of the state.                                                 *)
(*                                                                         *)
(* A transfer writes through the memory bus, and a write to the IO region  *)
(* comes back into the register writes while the transfer and the loop of  *)
(* run_trigger are in progress; `run` is where they are. Addresses are     *)
(* abstracted: the write of a unit has no effect on the controller or hits *)
(* a count, destination or control register of some channel.               *)
(***************************************************************************)
EXTENDS Integers

CONSTANTS
  MaxCount,    \* dma_word_count_mask + 1
  Programmed,  \* the channels software uses
  Controls,    \* the control words software writes
  Counts,      \* the word counts software writes
  Rewrites     \* the control words that transfers write to DMA registers

ChannelCount == 4
Channel == 0 .. ChannelCount - 1
SoundChannel == {1, 2}
SoundFifoWords == 4

Timings == {"immediate", "vblank", "hblank", "special"}
Triggers == {"immediate", "vblank", "hblank", "fifo_a", "fifo_b"}
Destinations == {"memory", "fifo_a", "fifo_b"}

\* badSource: the source control increment_reload, which no transfer supports.
Control == [enable : BOOLEAN, repeat : BOOLEAN, timing : Timings, irq : BOOLEAN,
            badSource : BOOLEAN]

ASSUME CountAssumption == MaxCount \in Nat \ {0} /\ Counts \subseteq 0 .. MaxCount - 1
ASSUME ControlsAssumption == Controls \subseteq Control
ASSUME ProgrammedAssumption == Programmed \subseteq Channel
ASSUME RewritesAssumption == Rewrites \subseteq Controls

VARIABLES
  channels,
  pending,   \* immediate_pending_
  run,       \* the run_trigger or run_sound_fifo call in progress
  flags,     \* the DMA bits of IF
  rewritten  \* a transfer has written a DMA control register

vars == <<channels, pending, run, flags, rewritten>>

ChannelRecord == [destination : Destinations, words : 0 .. MaxCount - 1,
                  control : Control, count : 0 .. MaxCount]

Idle == [trigger |-> "none", channel |-> 0, unit |-> 0, busy |-> FALSE, still |-> FALSE]

RunRecord == [trigger : Triggers \cup {"none"}, channel : 0 .. ChannelCount,
              unit : Nat, busy : BOOLEAN, still : BOOLEAN]

TypeOK ==
  /\ channels \in [Channel -> ChannelRecord]
  /\ pending \in BOOLEAN
  /\ run \in RunRecord
  /\ flags \subseteq Channel
  /\ rewritten \in BOOLEAN

Off == [enable |-> FALSE, repeat |-> FALSE, timing |-> "immediate", irq |-> FALSE,
        badSource |-> FALSE]

Init ==
  /\ channels = [c \in Channel |-> [destination |-> "memory", words |-> 0,
                                    control |-> Off, count |-> 0]]
  /\ pending = FALSE
  /\ run = Idle
  /\ flags = {}
  /\ rewritten = FALSE

Normalized(ch) == IF ch.words = 0 THEN MaxCount ELSE ch.words

Immediate(ch) == ch.control.enable /\ ch.control.timing = "immediate"

\* refresh_immediate_pending
AnyImmediate(chs) == \E c \in Channel : Immediate(chs[c])

---------------------------------------------------------------------------
(* Register writes.                                                         *)

\* The channel after write_control: a start latches the count, the FIFO stop
\* sequence (still enabled, now immediate) latches it again, a stop clears it.
Controlled(c, value) ==
  LET ch == channels[c]
      wasFifo == /\ ch.control.enable /\ c \in SoundChannel
                 /\ ch.control.timing = "special" /\ ch.destination # "memory"
  IN [ch EXCEPT !.control = value,
                !.count = IF ~value.enable THEN 0
                          ELSE IF ~ch.control.enable THEN Normalized(ch)
                          ELSE IF wasFifo /\ value.timing = "immediate" THEN Normalized(ch)
                          ELSE @]

\* write_control, by the CPU or by a transfer.
WriteControlOf(c, value) ==
  /\ channels' = [channels EXCEPT ![c] = Controlled(c, value)]
  /\ pending' = IF Immediate(channels'[c]) THEN TRUE
                ELSE IF Immediate(channels[c]) THEN AnyImmediate(channels')
                ELSE pending

WriteControl(c, value) ==
  /\ run = Idle
  /\ WriteControlOf(c, value)
  /\ UNCHANGED <<run, flags, rewritten>>

WriteWordCount(c, words) ==
  /\ run = Idle
  /\ channels' = [channels EXCEPT ![c].words = words]
  /\ UNCHANGED <<pending, run, flags, rewritten>>

WriteDestination(c, destination) ==
  /\ run = Idle
  /\ channels' = [channels EXCEPT ![c].destination = destination]
  /\ UNCHANGED <<pending, run, flags, rewritten>>

Acknowledge ==
  /\ run = Idle
  /\ flags' = {}
  /\ UNCHANGED <<channels, pending, run, rewritten>>

---------------------------------------------------------------------------
(* run_trigger and run_sound_fifo.                                          *)

Trigger(t) ==
  /\ run = Idle
  /\ run' = [Idle EXCEPT !.trigger = t]
  /\ UNCHANGED <<channels, pending, flags, rewritten>>

Fifo(t) == t \in {"fifo_a", "fifo_b"}

\* Does the loop of the call in progress execute channel c?
Selected(c) ==
  /\ channels[c].control.enable
  /\ IF Fifo(run.trigger)
     THEN /\ c \in SoundChannel /\ channels[c].control.timing = "special"
          /\ channels[c].destination = run.trigger
     ELSE channels[c].control.timing = run.trigger

Scanning == run.trigger # "none" /\ ~run.busy /\ run.channel < ChannelCount

Skip ==
  /\ Scanning /\ ~Selected(run.channel)
  /\ run' = [run EXCEPT !.channel = @ + 1]
  /\ UNCHANGED <<channels, pending, flags, rewritten>>

\* BUG: a refused immediate transfer drops the queue.
RefuseForgets ==
  /\ Scanning /\ Selected(run.channel) /\ channels[run.channel].control.badSource
  /\ pending' = IF run.trigger = "immediate" THEN FALSE ELSE pending
  /\ run' = Idle
  /\ UNCHANGED <<channels, flags, rewritten>>

\* An unsupported transfer (or, for a FIFO, an unreadable source) ends the call.
Refuse ==
  /\ Scanning /\ Selected(run.channel) /\ channels[run.channel].control.badSource
  /\ pending' = (pending \/ run.trigger = "immediate")
  /\ run' = Idle
  /\ UNCHANGED <<channels, flags, rewritten>>

Start ==
  /\ Scanning /\ Selected(run.channel) /\ ~channels[run.channel].control.badSource
  /\ run' = [run EXCEPT !.busy = TRUE, !.unit = 0]
  /\ UNCHANGED <<channels, pending, flags, rewritten>>

\* The loop bound of a transfer is the live count of the channel.
Units == IF Fifo(run.trigger) THEN SoundFifoWords ELSE channels[run.channel].count

\* A unit of a FIFO burst whose source cannot be read ends the call.
Unreadable ==
  /\ run.busy /\ Fifo(run.trigger) /\ run.unit < Units
  /\ run' = Idle
  /\ UNCHANGED <<channels, pending, flags, rewritten>>

Transfer ==
  /\ run.busy /\ run.unit < Units
  /\ run' = [run EXCEPT !.unit = @ + 1]
  /\ \/ UNCHANGED <<channels, pending, rewritten>>
     \/ /\ ~Fifo(run.trigger)
        /\ \E c \in Programmed :
             \/ \E words \in Counts : channels' = [channels EXCEPT ![c].words = words]
             \/ \E destination \in Destinations :
                  channels' = [channels EXCEPT ![c].destination = destination]
        /\ UNCHANGED <<pending, rewritten>>
     \/ /\ ~Fifo(run.trigger)
        /\ \E c \in Programmed, value \in Rewrites : WriteControlOf(c, value)
        /\ rewritten' = TRUE
  /\ UNCHANGED flags

\* BUG: a repeated transfer is not armed again.
CompleteUnarmed ==
  /\ run.busy /\ run.unit >= Units
  /\ LET c == run.channel
         ch == channels[c]
         again == ch.control.repeat /\ (Fifo(run.trigger) \/ ch.control.timing # "immediate")
         done == [ch EXCEPT !.count = 0,
                            !.control.enable = IF again THEN @ ELSE FALSE]
     IN /\ channels' = [channels EXCEPT ![c] = done]
        /\ flags' = IF ch.control.irq THEN flags \cup {c} ELSE flags
        /\ run' = [run EXCEPT !.busy = FALSE, !.unit = 0, !.channel = @ + 1,
                              !.still = @ \/ (run.trigger = "immediate" /\ Immediate(done))]
  /\ UNCHANGED <<pending, rewritten>>

\* Completion: the interrupt, then repeat (never for an immediate transfer)
\* or disable.
Complete ==
  /\ run.busy /\ run.unit >= Units
  /\ LET c == run.channel
         ch == channels[c]
         again == ch.control.repeat /\ (Fifo(run.trigger) \/ ch.control.timing # "immediate")
         done == [ch EXCEPT !.count = IF again THEN Normalized(ch) ELSE 0,
                            !.control.enable = IF again THEN @ ELSE FALSE]
     IN /\ channels' = [channels EXCEPT ![c] = done]
        /\ flags' = IF ch.control.irq THEN flags \cup {c} ELSE flags
        /\ run' = [run EXCEPT !.busy = FALSE, !.unit = 0, !.channel = @ + 1,
                              !.still = @ \/ (run.trigger = "immediate" /\ Immediate(done))]
  /\ UNCHANGED <<pending, rewritten>>

Return ==
  /\ run.trigger # "none" /\ ~run.busy /\ run.channel = ChannelCount
  /\ pending' = IF run.trigger = "immediate" THEN run.still ELSE pending
  /\ run' = Idle
  /\ UNCHANGED <<channels, flags, rewritten>>

---------------------------------------------------------------------------
(* load_state: what it accepts, and what it leaves.                         *)

Acceptable(chs) ==
  \A c \in Channel : /\ ~chs[c].control.enable => chs[c].count = 0
                     /\ chs[c].count <= MaxCount

SaveAndLoad ==
  /\ run = Idle /\ Acceptable(channels)
  /\ pending' = AnyImmediate(channels)
  /\ UNCHANGED <<channels, run, flags, rewritten>>

Next ==
  \/ \E c \in Programmed : \/ \E value \in Controls : WriteControl(c, value)
                           \/ \E words \in Counts : WriteWordCount(c, words)
                           \/ \E destination \in Destinations : WriteDestination(c, destination)
  \/ Acknowledge
  \/ \E t \in Triggers : Trigger(t)
  \/ Skip \/ Refuse \/ Start \/ Unreadable \/ Transfer \/ Complete \/ Return
  \/ SaveAndLoad

Spec == Init /\ [][Next]_vars

---------------------------------------------------------------------------
(* Properties.                                                              *)

\* An enabled channel is always armed for its next trigger, even when
\* transfers stop, restart and reprogram channels, themselves included,
\* while they run (execute_channel reads the live count and control).
EnabledIsArmed ==
  run = Idle => \A c \in Channel : channels[c].control.enable => channels[c].count # 0

\* The flag the fast paths test says exactly whether an immediate transfer
\* waits, unless a transfer has written a control register.
PendingIsExact == run = Idle /\ ~rewritten => (pending <=> AnyImmediate(channels))

\* "immediate_pending is a pure function of channel state" (load_state),
\* whoever wrote the control registers.
PendingIsPure == run = Idle => (pending <=> AnyImmediate(channels))

=============================================================================
