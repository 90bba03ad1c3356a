--------------------------- MODULE SaveStateCodec ---------------------------
(***************************************************************************)
(* SaveStateCodec (src/core/save_state_codec.cpp): a machine is written as *)
(* a header and a body of bytes, files may be damaged or come from an      *)
(* older version, and decode_into either commits a whole machine or leaves *)
(* the session alone.                                                      *)
(*                                                                         *)
(* The layouts are module SaveStateLayout's. A byte is a digit below Base, *)
(* and the widths keep their order. The 64 bit hash is taken to have no    *)
(* collisions: it is the function of the values it covers.                 *)
(***************************************************************************)
EXTENDS SaveStateLayout, Integers, FiniteSets, SequencesExt

CONSTANTS
  Base,            \* values of a byte
  Width,           \* bytes of "u8", "u16", "u32" and "u64"
  FixedSize,       \* bytes of a memory dump
  RegisterCount,   \* registers saved for an interrupt
  BlobLimit,       \* the largest blob accepted, by kind: "rom", "save" and "text"
  Modes,           \* CPU modes that exist
  SaveSize,        \* size of the save memory by type
  BankedType,      \* flash128k
  FlashStates,     \* flash commands states that exist
  IrqMask, KeyMask, KeycntMask, WaitcntMask, TimerMask, DmaMask,  \* largest register values
  MaxCount,        \* largest DMA count
  Lines, CyclesPerLine, FrameSteps, FifoCapacity, RingCapacity, MaxDuty, MaxShift, BiosModes,
  ByteErrors,      \* what damage adds to a byte
  Machines,        \* machines the program is in when it is saved
  NewSession       \* the machine of a session that was just created

ASSUME BaseAssumption == Base \in Nat /\ Base > 1 /\ \A k \in DOMAIN Width : Width[k] \in Nat \ {0}

\* The fields of a machine.
FieldNames == UNION {{Written[s][i].field : i \in DOMAIN Written[s]} : s \in DOMAIN Written}

ASSUME MachinesAssumption ==
  NewSession \in Machines /\ \A m \in Machines : m = [f \in FieldNames |-> m[f]]

Version == 6
Versions == 3 .. Version

VARIABLES
  session,   \* the machine of the session
  file,      \* [whole, magic, version, hash, body]
  origin     \* [machine, version, intact]: what the file was written from

codecVars == <<session, file, origin>>

---------------------------------------------------------------------------
(* Writing values.                                                          *)

\* The sequences one after the other, half by half.
Joined(seqs) ==
  LET joined[r \in Nat \X Nat] ==
        LET half == (r[1] + r[2]) \div 2
        IN IF r[1] > r[2] THEN <<>>
           ELSE IF r[1] = r[2] THEN seqs[r[1]]
           ELSE joined[<<r[1], half>>] \o joined[<<half + 1, r[2]>>]
  IN joined[<<1, Len(seqs)>>]

Number(value, width) == [i \in 1 .. width |-> (value \div Base ^ (i - 1)) % Base]
Numbers(values, width) == Joined([i \in DOMAIN values |-> Number(values[i], width)])
Flag(condition) == IF condition THEN <<1>> ELSE <<0>>
Present(optional, bytes) == Flag(optional # <<>>) \o bytes
Counted(items, bytes) == Number(Len(items), Width["u32"]) \o bytes

OuterFrame(f) ==
  Number(f.return_lr, Width["u32"])
  \o Present(f.saved, Numbers(f.saved, Width["u32"])) \o Flag(f.long_timer) \o Flag(f.slow_timer0)
WorkFrame(f) == Number(f.remaining, Width["u64"]) \o Number(f.owner, Width["u32"])

\* An optional value is a sequence of at most one value.
Encoded(kind, v) ==
  CASE kind \in DOMAIN Width -> Number(v, Width[kind])
    [] kind = "bool" -> Flag(v)
    [] kind = "fixed" -> v
    [] kind \in DOMAIN BlobLimit -> Counted(v, v)
    [] kind = "optional_u8" -> Present(v, Numbers(v, Width["u8"]))
    [] kind = "optional_u16" -> Present(v, Numbers(v, Width["u16"]))
    [] kind = "optional_u32" -> Present(v, Numbers(v, Width["u32"]))
    [] kind = "saved_registers" -> Present(v, Numbers(v, Width["u32"]))
    [] kind = "outer_frames" -> Counted(v, Joined([i \in DOMAIN v |-> OuterFrame(v[i])]))
    [] kind = "work_frames" -> Counted(v, Joined([i \in DOMAIN v |-> WorkFrame(v[i])]))

Section(machine, layout) ==
  Joined([i \in DOMAIN layout |-> Encoded(layout[i].kind, machine[layout[i].field])])
Body(machine, layouts) == Joined([i \in DOMAIN layouts |-> Section(machine, layouts[i])])

---------------------------------------------------------------------------
(* Reading values: [ok, at, value], at being the offset of the next byte.    *)

Failed(at) == [ok |-> FALSE, at |-> at, value |-> 0]
Value(bytes) ==
  LET sum[i \in 0 .. Len(bytes)] == IF i = 0 THEN 0 ELSE sum[i - 1] + bytes[i] * Base ^ (i - 1)
  IN sum[Len(bytes)]

ReadBytes(body, at, n) ==
  IF Len(body) - at < n THEN Failed(at)
  ELSE [ok |-> TRUE, at |-> at + n, value |-> SubSeq(body, at + 1, at + n)]

NumberOf(r) == IF r.ok THEN [r EXCEPT !.value = Value(@)] ELSE r
ReadNumber(body, at, width) == NumberOf(ReadBytes(body, at, width))

BoolOf(r, at) == IF r.ok /\ r.value <= 1 THEN [r EXCEPT !.value = (@ = 1)] ELSE Failed(at)
ReadBool(body, at) == BoolOf(ReadNumber(body, at, 1), at)

BlobOf(body, at, size, limit) ==
  IF size.ok /\ size.value <= limit THEN ReadBytes(body, size.at, size.value) ELSE Failed(at)
ReadBlob(body, at, limit) == BlobOf(body, at, ReadNumber(body, at, Width["u32"]), limit)

NumbersOf(r, n, width) ==
  IF r.ok
  THEN [r EXCEPT !.value = [i \in 1 .. n |-> Value(SubSeq(r.value, (i - 1) * width + 1, i * width))]]
  ELSE r
ReadNumbers(body, at, n, width) == NumbersOf(ReadBytes(body, at, n * width), n, width)

OptionalOf(body, present, n, width) ==
  IF present.ok /\ present.value THEN ReadNumbers(body, present.at, n, width)
  ELSE [present EXCEPT !.value = <<>>]
ReadOptional(body, at, n, width) == OptionalOf(body, ReadBool(body, at), n, width)

\* A frame of an interrupt or of pending work from its values.
OuterFrameKinds == <<"u32", "saved_registers", "bool", "bool">>
WorkFrameKinds == <<"u64", "u32">>
ReadOuterFrame(v) == [return_lr |-> v[1], saved |-> v[2], long_timer |-> v[3], slow_timer0 |-> v[4]]
ReadWorkFrame(v) == [remaining |-> v[1], owner |-> v[2]]

FramesOf(r, kinds) ==
  IF ~r.ok THEN r
  ELSE [r EXCEPT !.value =
         [i \in 1 .. Len(@) \div Len(kinds) |->
            LET values == SubSeq(r.value, (i - 1) * Len(kinds) + 1, i * Len(kinds))
            IN IF kinds = WorkFrameKinds THEN ReadWorkFrame(values) ELSE ReadOuterFrame(values)]]

After(done, r) == [ok |-> r.ok, at |-> r.at, value |-> Append(done.value, r.value)]

\* Values of the given kinds one after the other from an offset on, up to the
\* first that cannot be read, half by half, which keeps the recursion shallow.
ReadAll(read(_, _, _), body, start, kinds) ==
  LET all[r \in Nat \X Nat \X Nat] ==
        LET half == (r[1] + r[2]) \div 2
            first == all[<<r[1], half, r[3]>>]
            rest == all[<<half + 1, r[2], first.at>>]
            none == [ok |-> TRUE, at |-> r[3], value |-> <<>>]
        IN IF r[1] > r[2] THEN none
           ELSE IF r[1] = r[2] THEN After(none, read(body, r[3], kinds[r[1]]))
           ELSE IF first.ok THEN [rest EXCEPT !.value = first.value \o @]
           ELSE first
  IN all[<<1, Len(kinds), start>>]

\* The values a frame consists of.
ReadPlain(body, at, kind) ==
  CASE kind \in DOMAIN Width -> ReadNumber(body, at, Width[kind])
    [] kind = "bool" -> ReadBool(body, at)
    [] kind = "saved_registers" -> ReadOptional(body, at, RegisterCount, Width["u32"])

\* A count that the remaining bytes cannot hold is refused before the loop.
CountedFrames(body, count, least, kinds) ==
  IF count.ok /\ count.value <= (Len(body) - count.at) \div least
  THEN FramesOf(ReadAll(ReadPlain, body, count.at,
                        [i \in 1 .. count.value * Len(kinds) |-> kinds[1 + ((i - 1) % Len(kinds))]]),
                kinds)
  ELSE Failed(count.at)
ReadFrames(body, at, least, kinds) ==
  CountedFrames(body, ReadNumber(body, at, Width["u32"]), least, kinds)

Read(body, at, kind) ==
  CASE kind \in DOMAIN Width \cup {"bool", "saved_registers"} -> ReadPlain(body, at, kind)
    [] kind = "fixed" -> ReadBytes(body, at, FixedSize)
    [] kind \in DOMAIN BlobLimit -> ReadBlob(body, at, BlobLimit[kind])
    [] kind = "optional_u8" -> ReadOptional(body, at, 1, Width["u8"])
    [] kind = "optional_u16" -> ReadOptional(body, at, 1, Width["u16"])
    [] kind = "optional_u32" -> ReadOptional(body, at, 1, Width["u32"])
    [] kind = "outer_frames" -> ReadFrames(body, at, Width["u32"] + 3, OuterFrameKinds)
    [] kind = "work_frames" -> ReadFrames(body, at, Width["u64"] + Width["u32"], WorkFrameKinds)

ParseSection(body, done, layout) ==
  IF done.ok
  THEN After(done, ReadAll(Read, body, done.at, [i \in DOMAIN layout |-> layout[i].kind]))
  ELSE done

Parse(body, layouts) ==
  LET section(done, layout) == ParseSection(body, done, layout)
  IN FoldLeft(section, [ok |-> TRUE, at |-> 0, value |-> <<>>], layouts)

\* What a version does not have stays as it is in a new scheduler state: empty.
Machine(layouts, values) ==
  LET held == [s \in DOMAIN layouts |-> {layouts[s][i].field : i \in DOMAIN layouts[s]}]
  IN [f \in DOMAIN NewSession |->
        LET holding == {s \in DOMAIN layouts : f \in held[s]}
        IN IF holding = {} THEN <<>>
           ELSE LET s == CHOOSE s \in holding : TRUE
                IN values[s][CHOOSE i \in DOMAIN layouts[s] : layouts[s][i].field = f]]

---------------------------------------------------------------------------
(* Validation.                                                              *)

At(m, name) == m[<<name, 0>>]
Both(m, name) == {m[<<name, n>>] : n \in 1 .. 2}

WorkFits(m) ==
  LET work == At(m, "work_frames")
      depth == Len(At(m, "outer_frames")) + (IF At(m, "saved_registers") # <<>> THEN 1 ELSE 0)
  IN \A i \in DOMAIN work :
       /\ work[i].remaining # 0 /\ work[i].owner <= depth
       /\ i > 1 => work[i].owner > work[i - 1].owner

\* What the parsers refuse.
WellFormed(m) ==
  /\ At(m, "save_type") < Len(SaveSize) /\ At(m, "flash_command_state") < FlashStates
  /\ At(m, "flash_bank") <= 1
  /\ At(m, "ie") <= IrqMask /\ At(m, "if") <= IrqMask
  /\ At(m, "line") < Lines /\ At(m, "line_cycle") < CyclesPerLine
  /\ (\A d \in Both(m, "duty") : d <= MaxDuty) /\ At(m, "volume_shift") <= MaxShift
  /\ At(m, "frame_step") < FrameSteps
  /\ At(m, "bios_mode") < BiosModes
  /\ At(m, "outer_frames") # <<>> => At(m, "return_lr") # <<>>
  /\ WorkFits(m)

\* What the loaders of the components refuse.
CpuLoads(m) == At(m, "mode") \in Modes

MemoryLoads(m) ==
  /\ Len(At(m, "game_pak_save")) = SaveSize[At(m, "save_type") + 1]
  /\ At(m, "flash_bank") # 0 => At(m, "save_type") = BankedType

Enabled(control) == control % 2 = 1
TimersLoad(m) ==
  \A n \in 1 .. 2 :
    LET control == m[<<"timer_control", n>>]
    IN /\ control <= TimerMask /\ (n = 1 => control < 2)
       /\ m[<<"enable_delay", n>>] <= 1
       /\ m[<<"just_enabled", n>>] \/ m[<<"enable_delay", n>>] # 0 => Enabled(control)

DmaLoads(m) ==
  \A n \in 1 .. 2 :
    /\ m[<<"dma_control", n>>] <= DmaMask
    /\ ~Enabled(m[<<"dma_control", n>>]) => m[<<"current_count", n>>] = 0
    /\ m[<<"current_count", n>>] <= MaxCount

ApuLoads(m) ==
  /\ \A h \in Both(m, "fifo_head") : h < FifoCapacity
  /\ \A s \in Both(m, "fifo_size") : s <= FifoCapacity
  /\ At(m, "ring_head") < RingCapacity /\ At(m, "ring_size") <= RingCapacity

Loads(m) ==
  CpuLoads(m) /\ MemoryLoads(m) /\ TimersLoad(m) /\ DmaLoads(m) /\ ApuLoads(m)
  /\ At(m, "pressed") <= KeyMask

\* A loaded machine: registers keep their writable bits, and the pending flag of
\* the immediate transfers is computed from the channels, enabled and not
\* waiting for an event.
Immediate(m) == \E c \in Both(m, "dma_control") : c = 1

Loaded(m) ==
  [m EXCEPT ![<<"keycnt", 0>>] = @ % (KeycntMask + 1), ![<<"waitcnt", 0>>] = @ % (WaitcntMask + 1),
            ![<<"immediate_pending", 0>>] = Immediate(m)]

---------------------------------------------------------------------------
(* The hash of a machine. Until version 4 it saw only the low bytes of wave  *)
(* RAM and of the registers saved for interrupts.                           *)

Low(values) == [i \in DOMAIN values |-> values[i] % Base]
LegacyView(f, v) ==
  CASE f[1] = "wave_ram" -> v % Base
    [] f[1] = "saved_registers" -> Low(v)
    [] f[1] = "outer_frames" -> [i \in DOMAIN v |-> [v[i] EXCEPT !.saved = Low(v[i].saved)]]
    [] OTHER -> v

Hash(m, legacy) ==
  [legacy |-> legacy,
   values |-> [f \in {g \in DOMAIN m : g[1] \in Hashed} |->
                 IF legacy THEN LegacyView(f, m[f]) ELSE m[f]]]

---------------------------------------------------------------------------
(* encode and decode_into.                                                  *)

\* encode writes the current version. An older program wrote the layout that
\* this one still reads for its version, with that version's hash.
FileOf(m, version) ==
  [whole |-> TRUE, magic |-> TRUE, version |-> version, hash |-> Hash(m, version < 5),
   body |-> Body(m, IF version = Version THEN Written ELSE Parsed(version))]

Representable(m, version) ==
  /\ version < 6 => At(m, "work_frames") = <<>>
  /\ version < 4 => At(m, "outer_frames") = <<>>

Rejected(why) == [status |-> why, machine |-> NewSession]

Restored(m) ==
  IF ~WellFormed(m) THEN Rejected("corrupt_payload")
  ELSE IF ~Loads(m) THEN Rejected("restore_rejected")
  ELSE [status |-> "ok", machine |-> Loaded(m)]

Built(parsed, layout, size) ==
  IF ~parsed.ok \/ parsed.at # size THEN Rejected("corrupt_payload")
  ELSE Restored(Machine(layout, parsed.value))

DecodedBody(f) ==
  IF ~f.whole THEN Rejected("too_small")
  ELSE IF ~f.magic THEN Rejected("bad_magic")
  ELSE IF f.version \notin Versions THEN Rejected("unsupported_version")
  ELSE Built(Parse(f.body, Parsed(f.version)), Parsed(f.version), Len(f.body))

Gated(next, f) ==
  IF next.status = "ok" /\ Hash(next.machine, f.version < 5) # f.hash
  THEN Rejected("state_hash_mismatch") ELSE next

Decoded(f) == Gated(DecodedBody(f), f)

CodecInit ==
  /\ session \in Machines
  /\ file = FileOf(NewSession, Version)
  /\ origin = [machine |-> NewSession, version |-> Version, intact |-> TRUE]

Encode(version) ==
  /\ session \in Machines /\ Representable(session, version)
  /\ file' = FileOf(session, version)
  /\ origin' = [machine |-> session, version |-> version, intact |-> TRUE]
  /\ UNCHANGED session

\* The program runs on, and is in any of the machines when the file is damaged.
Play(m) ==
  /\ origin.intact
  /\ session \in Machines /\ m # session
  /\ session' = m
  /\ UNCHANGED <<file, origin>>

\* Storage damages a file once: a byte is changed, the end is lost or grows, or
\* the header is changed.
ByteDamages(f) == {[f EXCEPT !.body[i] = (@ + d) % Base] : i \in DOMAIN f.body, d \in ByteErrors}
EndDamages(f) ==
  {[f EXCEPT !.body = SubSeq(@, 1, n)] : n \in 0 .. Len(f.body) - 1}
  \cup {[f EXCEPT !.body = Append(@, d)] : d \in 0 .. 1}
HeaderDamages(f) ==
  {[f EXCEPT !.whole = FALSE], [f EXCEPT !.magic = FALSE]}
  \cup {[f EXCEPT !.version = v] : v \in (1 .. Version + 1) \ {f.version}}
  \cup {[f EXCEPT !.hash = Hash(m, f.version < 5)] : m \in Machines \ {origin.machine}}
Damages(f) == ByteDamages(f) \cup EndDamages(f) \cup HeaderDamages(f)

Damage ==
  /\ origin.intact
  /\ origin' = [origin EXCEPT !.intact = FALSE]
  /\ file' \in Damages(file)
  /\ UNCHANGED session

Committed(result) == IF result.status = "ok" THEN result.machine ELSE session

DecodeInto ==
  /\ session' = Committed(Decoded(file))
  /\ UNCHANGED <<file, origin>>

CodecNext ==
  \/ \E version \in Versions : Encode(version)
  \/ \E m \in Machines : Play(m)
  \/ Damage
  \/ DecodeInto

CodecSpec == CodecInit /\ [][CodecNext]_codecVars

---------------------------------------------------------------------------
(* Properties.                                                              *)

\* Every field that is written is read back in its place, whatever is present
\* or absent and whichever version wrote it: an intact file restores the
\* machine it was written from.
RoundTrip ==
  origin.intact => Decoded(file) = [status |-> "ok", machine |-> origin.machine]

\* No damage to a file ends up in the session: it holds a machine the program
\* was in. A file from before version 5 may change only what its hash ignored.
SessionIsGenuine ==
  \/ session \in Machines
  \/ origin.version < 5 /\ \E m \in Machines : Hash(session, TRUE) = Hash(m, TRUE)
=============================================================================
