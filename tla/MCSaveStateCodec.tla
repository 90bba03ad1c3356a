-------------------------- MODULE MCSaveStateCodec --------------------------
(* Machines whose fields differ from their neighbours, so that a field read *)
(* in another's place shows: nested interrupts with pending work, a plain   *)
(* interrupt, and a session with nothing optional. Bytes have four values.  *)
EXTENDS SaveStateCodec, TLC

MCWidth == [u8 |-> 1, u16 |-> 2, u32 |-> 3, u64 |-> 4]
MCBlobLimit == [rom |-> 2, save |-> 2, text |-> 63]
MCSaveSize == <<0, 1, 2>>

Kinds == {"u8", "u16", "u32", "u64"}
Pattern(kind, i) ==
  CASE kind \in Kinds -> (5 * i + 6) % Base ^ MCWidth[kind]
    [] kind = "bool" -> i % 2 = 0
    [] kind = "fixed" -> [k \in 1 .. FixedSize |-> (i + k) % Base]
    [] kind \in {"rom", "save", "text"} -> <<i % Base, 3>>
    [] kind = "optional_u8" -> <<i % Base>>
    [] kind \in {"optional_u16", "optional_u32"} -> <<i % 16>>
    [] kind = "saved_registers" -> <<9, 6>>
    [] kind = "outer_frames" -> <<[return_lr |-> 11, saved |-> <<7, 13>>, long_timer |-> TRUE,
                                   slow_timer0 |-> FALSE]>>
    [] kind = "work_frames" -> <<[remaining |-> 5, owner |-> 0], [remaining |-> 2, owner |-> 2]>>

Nothing(kind) ==
  CASE kind \in Kinds -> 0
    [] kind = "bool" -> FALSE
    [] kind = "fixed" -> [k \in 1 .. FixedSize |-> 0]
    [] OTHER -> <<>>

Items == UNION {{[item |-> Written[s][i], index |-> 7 * s + i] : i \in DOMAIN Written[s]} : s \in DOMAIN Written}
Item(f) == CHOOSE x \in Items : x.item.field = f
Names == {x.item.field : x \in Items}

MCBlank == [f \in Names |-> Nothing(Item(f).item.kind)]

Special ==
  <<"mode", 0>> :> 0 @@ <<"save_type", 0>> :> 2 @@ <<"flash_command_state", 0>> :> 1
  @@ <<"flash_bank", 0>> :> 1 @@ <<"ie", 0>> :> 5 @@ <<"if", 0>> :> 2
  @@ <<"line", 0>> :> 3 @@ <<"line_cycle", 0>> :> 6
  @@ <<"duty", 1>> :> 2 @@ <<"duty", 2>> :> 1 @@ <<"volume_shift", 0>> :> 2
  @@ <<"frame_step", 0>> :> 1 @@ <<"bios_mode", 0>> :> 1
  @@ <<"timer_control", 1>> :> 1 @@ <<"timer_control", 2>> :> 3
  @@ <<"enable_delay", 1>> :> 1 @@ <<"enable_delay", 2>> :> 0
  @@ <<"just_enabled", 1>> :> TRUE @@ <<"just_enabled", 2>> :> FALSE
  @@ <<"dma_control", 1>> :> 1 @@ <<"dma_control", 2>> :> 0
  @@ <<"current_count", 1>> :> 2 @@ <<"current_count", 2>> :> 0
  @@ <<"immediate_pending", 0>> :> TRUE
  @@ <<"fifo_head", 1>> :> 1 @@ <<"fifo_size", 1>> :> 2
  @@ <<"fifo_head", 2>> :> 0 @@ <<"fifo_size", 2>> :> 1
  @@ <<"ring_head", 0>> :> 1 @@ <<"ring_size", 0>> :> 0
  @@ <<"pressed", 0>> :> 6 @@ <<"keycnt", 0>> :> 9 @@ <<"waitcnt", 0>> :> 4

Nested == Special @@ [f \in Names |-> Pattern(Item(f).item.kind, Item(f).index)]
Single == [Nested EXCEPT ![<<"outer_frames", 0>>] = <<>>, ![<<"work_frames", 0>>] = <<>>,
                         ![<<"save_type", 0>>] = 1, ![<<"game_pak_save", 0>>] = <<3>>,
                         ![<<"flash_bank", 0>>] = 0, ![<<"last_fetch_address", 0>>] = <<>>]
MCMachines == {MCBlank, Single, Nested}
=============================================================================
