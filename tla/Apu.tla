-------------------------------- MODULE Apu --------------------------------
(***************************************************************************)
(* The sound unit (src/core/apu.cpp) with the part of the scheduler that   *)
(* feeds it: the two Direct Sound FIFOs, which timer overflows empty and   *)
(* DMA refills, the programmable generators, and the ring of mixed samples *)
(* that the host drains once per frame.                                    *)
(*                                                                         *)
(* Samples are small integers, a wave RAM halfword is the tuple of its     *)
(* nibbles, and SOUNDCNT values are records of their fields. SOUNDBIAS is  *)
(* stored and used nowhere, and the two event counters only count: all     *)
(* three are left out. The save state is module SaveStateCodec's.          *)
(***************************************************************************)
EXTENDS Integers, Sequences, FiniteSets, FiniteSetsExt, Functions

CONSTANTS
  FifoCapacity,      \* kFifoCapacity
  RefillThreshold,   \* kFifoRefillThreshold
  BurstWords,        \* kSoundFifoWordsPerRequest
  RingCapacity,      \* kAudioBufferCapacity
  SampleCycles,      \* kCpuCyclesPerAudioSample
  StepCycles,        \* kCpuCyclesPerFrameSequencerStep
  FrameSteps,        \* kFrameSequencerSteps
  WaveHalfwords,     \* kWaveRamHalfwords
  Nibbles,           \* the nibbles of a halfword
  DutySteps,         \* the steps of a square period, 8
  DutyHigh,          \* kSquareDutyHighSamples, by duty
  LfsrWidth, NarrowTap,             \* 15 and 6
  PsgScale, DirectScale, MaxMixed,  \* scales, and the bound of a mixed sample
  Words,             \* tuples of bytes that software or DMA writes to a FIFO
  CntL, CntH,        \* values written to SOUNDCNT_L and SOUNDCNT_H [route, clear]
  Halfwords,         \* values written to wave RAM
  Squares, Waves, Noises,  \* arguments of the configure operations
  DmaSetups,         \* how DMA channels 1 and 2 are set to feed the FIFOs
  Windows,           \* lengths of ticks
  MaxWrites          \* bound on the register writes of software

ASSUME SizesAssumption ==
  /\ {FifoCapacity, BurstWords, RingCapacity, SampleCycles, StepCycles, FrameSteps, Nibbles,
      WaveHalfwords, DutySteps, LfsrWidth} \subseteq Nat \ {0}
  /\ {RefillThreshold, NarrowTap, MaxWrites} \subseteq Nat
  /\ NarrowTap > 0 /\ NarrowTap < LfsrWidth - 1

\* A word has its bytes, and advance_devices ticks to the next edge of the
\* display at most, which does not fill the ring.
ASSUME WordsAssumption ==
  Words # {} /\ Words \subseteq Seq(Int) /\ \A v, w \in Words : Len(v) = Len(w)
ASSUME WindowsAssumption ==
  Windows \subseteq Nat /\ \A cycles \in Windows : cycles <= (RingCapacity - 1) * SampleCycles

VARIABLES
  master,   \* bit 7 of SOUNDCNT_X
  cntL,     \* [left, right: the generators routed there, volume: of each side]
  cntH,     \* per FIFO [sides, full, timer]
  waveRam,  \* two banks of halfwords
  bank,     \* wave_bank_select_: bank 1 plays and bank 0 is written, or the reverse
  fifo,     \* per channel [samples, head, size]
  latched,  \* direct_sound_latched_samples_
  psg,      \* [square, wave, noise]
  out,      \* [ring, mixed, frame, audio, step]
  dma,      \* per FIFO the channels that serve it, 1 and 2, and the ones that repeat
  writes    \* register writes so far, the master switch aside

soundVars == <<master, cntL, cntH, waveRam, bank, fifo, latched, psg, out, dma, writes>>

Channels == {"a", "b"}
Sides == {"left", "right"}

\* Only DMA channels 1 and 2 serve the FIFOs.
ASSUME DmaSetupsAssumption ==
  DmaSetups \subseteq [Channels -> [served : SUBSET (1 .. 2), repeat : SUBSET (1 .. 2)]]

Ones == 2 ^ LfsrWidth - 1
SquareOff == [enabled |-> FALSE, duty |-> 0, volume |-> 0, period |-> 1, phase |-> 0]
WaveOff == [enabled |-> FALSE, shift |-> 0, period |-> 1, phase |-> 0]
NoiseOff == [enabled |-> FALSE, volume |-> 0, period |-> 1, phase |-> 0,
             lfsr |-> Ones, narrow |-> FALSE]
PsgOff == [square |-> [i \in 0 .. 1 |-> SquareOff], wave |-> WaveOff, noise |-> NoiseOff]

EmptyBuffer(capacity, silence) ==
  [samples |-> [i \in 0 .. capacity - 1 |-> silence], head |-> 0, size |-> 0]
EmptyFifo == EmptyBuffer(FifoCapacity, 0)
Silence == [s \in Sides |-> 0]
EmptyRing == EmptyBuffer(RingCapacity, Silence)
OutOff == [ring |-> EmptyRing, mixed |-> Silence, frame |-> 0, audio |-> 0, step |-> 0]

CntLOff == [left |-> {}, right |-> {}, volume |-> [s \in Sides |-> 0]]
CntHOff == [c \in Channels |-> [sides |-> {}, full |-> FALSE, timer |-> 0]]

SoundInit ==
  /\ master = FALSE
  /\ cntL = CntLOff /\ cntH = CntHOff
  /\ waveRam = [b \in BOOLEAN |-> [i \in 0 .. WaveHalfwords - 1 |-> [n \in 1 .. Nibbles |-> 0]]]
  /\ bank = FALSE
  /\ fifo = [c \in Channels |-> EmptyFifo]
  /\ latched = [c \in Channels |-> 0]
  /\ psg = PsgOff /\ out = OutOff
  /\ dma \in DmaSetups
  /\ writes = 0

---------------------------------------------------------------------------
(* The circular buffers.                                                    *)

Slots(buffer) == Cardinality(DOMAIN buffer.samples)

RoomKeepsHead(buffer) ==
  IF buffer.size < Slots(buffer) THEN buffer
  ELSE [buffer EXCEPT !.size = @ - 1]

\* push_fifo and push_audio_sample: a full buffer first drops its oldest item.
Room(buffer) ==
  IF buffer.size < Slots(buffer) THEN buffer
  ELSE [buffer EXCEPT !.head = (@ + 1) % Slots(buffer), !.size = @ - 1]

Pushed(buffer, item) ==
  LET room == Room(buffer)
      tail == (room.head + room.size) % Slots(buffer)
  IN [room EXCEPT !.samples[tail] = item, !.size = @ + 1]

Popped(buffer) == [buffer EXCEPT !.head = (@ + 1) % Slots(buffer), !.size = @ - 1]

\* write_fifo: the bytes of a word, lowest first.
Written(buffer, word) ==
  LET after[n \in 0 .. Len(word)] ==
        IF n = 0 THEN buffer ELSE Pushed(after[n - 1], word[n])
  IN after[Len(word)]

\* What a reader of the buffer still gets, oldest first.
Contents(buffer) ==
  [n \in 1 .. buffer.size |-> buffer.samples[(buffer.head + n - 1) % Slots(buffer)]]

---------------------------------------------------------------------------
(* The generators and the mixer.                                            *)

DutyStep(square) == (square.phase * DutySteps) \div square.period
WaveIndex(wave) == (wave.phase * WaveHalfwords * Nibbles) \div wave.period

Sign(high) == IF high THEN 1 ELSE -1

SquareOutput(square) ==
  IF square.enabled
  THEN Sign(DutyStep(square) < DutyHigh[square.duty]) * square.volume * PsgScale ELSE 0

\* A nibble is centred, scaled and shifted right arithmetically; shift 0 mutes.
WaveOutput(wave) ==
  IF wave.enabled /\ wave.shift # 0
  THEN LET index == WaveIndex(wave)
           nibble == waveRam[bank][index \div Nibbles][(index % Nibbles) + 1]
       IN ((nibble - 8) * PsgScale) \div 2 ^ (wave.shift - 1)
  ELSE 0

NoiseOutput(noise) ==
  IF noise.enabled THEN Sign(noise.lfsr % 2 = 0) * noise.volume * PsgScale ELSE 0

PsgOutput(p, generator) ==
  IF generator \in 0 .. 1 THEN SquareOutput(p.square[generator])
  ELSE IF generator = 2 THEN WaveOutput(p.wave) ELSE NoiseOutput(p.noise)

Clamp(value) ==
  IF value > MaxMixed THEN MaxMixed ELSE IF value < -MaxMixed - 1 THEN -MaxMixed - 1 ELSE value

\* mix_sample for one side.
Mixed(p, side) ==
  LET generators == IF side = "left" THEN cntL.left ELSE cntL.right
      direct == {c \in Channels : side \in cntH[c].sides}
      psgSum == FoldFunctionOnSet(LAMBDA v, sum : v + sum, 0,
                                  [g \in 0 .. 3 |-> PsgOutput(p, g)], generators)
      directSum == FoldFunctionOnSet(LAMBDA v, sum : v + sum, 0,
                     [c \in Channels |-> latched[c] * DirectScale * (IF cntH[c].full THEN 2 ELSE 1)],
                     direct)
  IN Clamp(psgSum * (cntL.volume[side] + 1) + directSum)

\* The shift register: the two lowest bits decide the bit that enters at the
\* top and, in narrow mode, also at NarrowTap.
Shifted(lfsr, narrow) ==
  LET bit == ((lfsr % 2) + ((lfsr \div 2) % 2)) % 2
      wide == (lfsr \div 2) + bit * 2 ^ (LfsrWidth - 1)
      old == (wide \div 2 ^ NarrowTap) % 2
  IN IF narrow THEN wide + (bit - old) * 2 ^ NarrowTap ELSE wide

Turned(gen) ==
  IF gen.enabled THEN [gen EXCEPT !.phase = (@ + 1) % gen.period] ELSE gen

\* advance_psg_generators.
Advanced(p) ==
  LET noise == Turned(p.noise)
  IN [square |-> [i \in 0 .. 1 |-> Turned(p.square[i])],
      wave |-> Turned(p.wave),
      noise |-> IF noise.enabled /\ noise.phase = 0
                THEN [noise EXCEPT !.lfsr = Shifted(@, noise.narrow)] ELSE noise]

\* generate_audio_sample.
Generated(s) ==
  LET sample == [side \in Sides |-> Mixed(s.psg, side)]
  IN [psg |-> Advanced(s.psg),
      out |-> [s.out EXCEPT !.mixed = sample, !.ring = Pushed(@, sample)]]

\* A fault: the remainder of the sample clock is dropped.
TickedFromZero(s, cycles) ==
  LET frame == s.out.frame + cycles
      clocked == [s EXCEPT !.out.frame = frame % StepCycles, !.out.audio = 0,
                           !.out.step = (@ + frame \div StepCycles) % FrameSteps]
      samples == (s.out.audio + cycles) \div SampleCycles
      after[n \in 0 .. samples] == IF n = 0 THEN clocked ELSE Generated(after[n - 1])
  IN after[samples]

\* Apu::tick: both clocks run, whole steps and whole samples are taken out.
Ticked(s, cycles) ==
  LET frame == s.out.frame + cycles
      audio == s.out.audio + cycles
      clocked == [s EXCEPT !.out.frame = frame % StepCycles, !.out.audio = audio % SampleCycles,
                           !.out.step = (@ + frame \div StepCycles) % FrameSteps]
      after[n \in 0 .. audio \div SampleCycles] ==
        IF n = 0 THEN clocked ELSE Generated(after[n - 1])
  IN after[audio \div SampleCycles]

---------------------------------------------------------------------------
(* The registers.                                                           *)

Software == writes < MaxWrites /\ writes' = writes + 1

WriteSoundcntL(value) ==
  /\ Software /\ master
  /\ cntL' = value
  /\ UNCHANGED <<master, cntH, waveRam, bank, fifo, latched, psg, out, dma>>

\* The two reset bits of the value act at once and are not stored.
WriteSoundcntH(value) ==
  /\ Software /\ master
  /\ fifo' = [c \in Channels |-> IF c \in value.clear THEN EmptyFifo ELSE fifo[c]]
  /\ cntH' = value.route
  /\ UNCHANGED <<master, cntL, waveRam, bank, latched, psg, out, dma>>

EnableMaster ==
  /\ ~master
  /\ master' = TRUE
  /\ UNCHANGED <<cntL, cntH, waveRam, bank, fifo, latched, psg, out, dma, writes>>

\* clear_sound_circuit keeps the wave RAM only.
DisableMaster ==
  /\ Software
  /\ master' = FALSE
  /\ cntL' = CntLOff /\ cntH' = CntHOff
  /\ bank' = FALSE
  /\ fifo' = [c \in Channels |-> EmptyFifo]
  /\ latched' = [c \in Channels |-> 0]
  /\ psg' = PsgOff /\ out' = OutOff
  /\ UNCHANGED <<waveRam, dma>>

SetWaveBankSelect ==
  /\ Software
  /\ bank' = ~bank
  /\ UNCHANGED <<master, cntL, cntH, waveRam, fifo, latched, psg, out, dma>>

WriteWaveRam(index, value) ==
  /\ Software
  /\ waveRam' = [waveRam EXCEPT ![~bank][index] = value]
  /\ UNCHANGED <<master, cntL, cntH, bank, fifo, latched, psg, out, dma>>

WriteFifo(c, word) ==
  /\ Software
  /\ fifo' = [fifo EXCEPT ![c] = Written(@, word)]
  /\ UNCHANGED <<master, cntL, cntH, waveRam, bank, latched, psg, out, dma>>

AtLeastOne(period) == IF period = 0 THEN 1 ELSE period

\* The configure operations start a generator anew.
NewSquare(g) == [enabled |-> TRUE, duty |-> g.duty, volume |-> g.volume,
                 period |-> AtLeastOne(g.period), phase |-> 0]
NewWave(g) == [enabled |-> TRUE, shift |-> g.shift, period |-> AtLeastOne(g.period), phase |-> 0]
NewNoise(g) == [enabled |-> TRUE, volume |-> g.volume, period |-> AtLeastOne(g.period),
                phase |-> 0, lfsr |-> Ones, narrow |-> g.narrow]

Configure(next) ==
  /\ Software /\ master
  /\ psg' = next
  /\ UNCHANGED <<master, cntL, cntH, waveRam, bank, fifo, latched, out, dma>>

ConfigureSquare(g) == Configure([psg EXCEPT !.square[g.channel] = NewSquare(g)])
ConfigureWave(g) == Configure([psg EXCEPT !.wave = NewWave(g)])
ConfigureNoise(g) == Configure([psg EXCEPT !.noise = NewNoise(g)])

DisablePsgChannel(g) ==
  /\ Software
  /\ psg' = IF g \in 0 .. 1 THEN [psg EXCEPT !.square[g].enabled = FALSE]
            ELSE IF g = 2 THEN [psg EXCEPT !.wave.enabled = FALSE]
            ELSE [psg EXCEPT !.noise.enabled = FALSE]
  /\ UNCHANGED <<master, cntL, cntH, waveRam, bank, fifo, latched, out, dma>>

---------------------------------------------------------------------------
(* Time.                                                                    *)

Tick(cycles) ==
  /\ master
  /\ LET after == Ticked([psg |-> psg, out |-> out], cycles)
     IN psg' = after.psg /\ out' = after.out
  /\ UNCHANGED <<master, cntL, cntH, waveRam, bank, fifo, latched, dma, writes>>

UsesTimer(c, timer) == cntH[c].sides # {} /\ cntH[c].timer = timer

RefillNeeded(buffer) == buffer.size <= RefillThreshold

\* What pop_fifo and the refill it requests leave in a FIFO: every DMA channel
\* that serves it writes BurstWords words. An empty FIFO asks as well.
Drained(buffer) == IF buffer.size = 0 THEN buffer ELSE Popped(buffer)

Refilled(buffer, servers, word) ==
  LET bursts == BurstWords * Cardinality(servers)
      after[n \in 0 .. bursts] == IF n = 0 THEN buffer ELSE Written(after[n - 1], word)
  IN after[bursts]

\* consume_direct_sound_timer, when the chain guard allows new transfers.
TimerOverflow(timer, allowDma, word) ==
  /\ master
  /\ LET used == {c \in Channels : UsesTimer(c, timer)}
         left == [c \in Channels |-> IF c \in used THEN Drained(fifo[c]) ELSE fifo[c]]
         asks == {c \in used : allowDma /\ RefillNeeded(left[c])}
     IN /\ fifo' = [c \in Channels |-> IF c \in asks THEN Refilled(left[c], dma[c].served, word)
                                       ELSE left[c]]
        /\ latched' = [c \in Channels |->
                         IF c \notin used THEN latched[c]
                         ELSE IF fifo[c].size = 0 THEN 0 ELSE Contents(fifo[c])[1]]
        /\ dma' = [c \in Channels |-> IF c \in asks
                                      THEN [dma[c] EXCEPT !.served = dma[c].repeat] ELSE dma[c]]
  /\ UNCHANGED <<master, cntL, cntH, waveRam, bank, psg, out, writes>>

\* pop_audio_sample, by the host.
PopAudioSample ==
  /\ out.ring.size # 0
  /\ out' = [out EXCEPT !.ring = Popped(@)]
  /\ UNCHANGED <<master, cntL, cntH, waveRam, bank, fifo, latched, psg, dma, writes>>

\* reset, which also clears the wave RAM, and clear_audio_buffer.
Reset ==
  /\ Software
  /\ master' = FALSE
  /\ cntL' = CntLOff /\ cntH' = CntHOff
  /\ waveRam' = [b \in BOOLEAN |-> [i \in 0 .. WaveHalfwords - 1 |-> [n \in 1 .. Nibbles |-> 0]]]
  /\ bank' = FALSE
  /\ fifo' = [c \in Channels |-> EmptyFifo]
  /\ latched' = [c \in Channels |-> 0]
  /\ psg' = PsgOff /\ out' = OutOff
  /\ UNCHANGED dma

ClearAudioBuffer ==
  /\ Software
  /\ out' = [out EXCEPT !.ring = EmptyRing]
  /\ UNCHANGED <<master, cntL, cntH, waveRam, bank, fifo, latched, psg, dma>>

SoundNext ==
  \/ \E value \in CntL : WriteSoundcntL(value)
  \/ \E value \in CntH : WriteSoundcntH(value)
  \/ EnableMaster \/ DisableMaster \/ SetWaveBankSelect
  \/ \E index \in 0 .. WaveHalfwords - 1, value \in Halfwords : WriteWaveRam(index, value)
  \/ \E c \in Channels, word \in Words : WriteFifo(c, word)
  \/ \E g \in Squares : ConfigureSquare(g)
  \/ \E g \in Waves : ConfigureWave(g)
  \/ \E g \in Noises : ConfigureNoise(g)
  \/ \E g \in 0 .. 3 : DisablePsgChannel(g)
  \/ \E cycles \in Windows : Tick(cycles)
  \/ \E timer \in 0 .. 1, allowDma \in BOOLEAN, word \in Words : TimerOverflow(timer, allowDma, word)
  \/ PopAudioSample \/ Reset \/ ClearAudioBuffer

SoundSpec == SoundInit /\ [][SoundNext]_soundVars

---------------------------------------------------------------------------
(* Properties.                                                              *)

\* Samples may be read in whatever slots the head wraps to: each FIFO and the
\* ring are queues that lose only their oldest items, and only when full.
MaxLen(seqs) == CHOOSE n \in {Len(q) : q \in seqs} : \A q \in seqs : Len(q) <= n
FifoA == INSTANCE LossyQueue
  WITH queue <- Contents(fifo["a"]), Capacity <- FifoCapacity,
       MaxGiven <- 2 * BurstWords * MaxLen(Words)
FifoB == INSTANCE LossyQueue
  WITH queue <- Contents(fifo["b"]), Capacity <- FifoCapacity,
       MaxGiven <- 2 * BurstWords * MaxLen(Words)
RingQueue == INSTANCE LossyQueue
  WITH queue <- Contents(out.ring), Capacity <- RingCapacity, MaxGiven <- RingCapacity - 1
QueuesLoseOldest == FifoA!Spec /\ FifoB!Spec /\ RingQueue!Spec

\* However a span of time is cut into ticks, the samples, the generators and
\* the clocks end the same.
TicksAddUp ==
  master => \A first, second \in Windows :
    LET s == [psg |-> psg, out |-> out]
    IN Ticked(Ticked(s, first), second) = Ticked(s, first + second)

=============================================================================
