-------------------------- MODULE SaveStateLayout --------------------------
(***************************************************************************)
(* The fields of the machine in the order in which save_state_codec.cpp    *)
(* writes them, in the order in which it reads them, and the fields that   *)
(* the state hash covers. The code keeps these three enumerations in       *)
(* different functions and files; each is transcribed from its own.        *)
(*                                                                         *)
(* A field is <<name, copy>>. An array of registers, timers, channels or   *)
(* samples is represented by two copies of its element.                    *)
(***************************************************************************)
EXTENDS Naturals, Sequences

Fields(kind, names) == [i \in DOMAIN names |-> [field |-> <<names[i], 0>>, kind |-> kind]]

Copies(layout) ==
  LET copy(n) == [i \in DOMAIN layout |-> [layout[i] EXCEPT !.field = <<layout[i].field[1], n>>]]
  IN copy(1) \o copy(2)

Array(kind, name) == Copies(Fields(kind, <<name>>))

---------------------------------------------------------------------------
(* What encode writes.                                                      *)

WriteCpu ==
  Fields("u64", <<"elapsed">>) \o Array("u32", "register")
  \o Fields("bool", <<"negative", "zero", "carry", "overflow", "irq_disabled", "fiq_disabled",
                      "thumb_state">>)
  \o Fields("u8", <<"mode">>) \o Array("u32", "shared_r8_r12") \o Array("u32", "fiq_r8_r12")
  \o Fields("u32", <<"user_sp", "user_lr", "fiq_sp", "fiq_lr", "irq_sp", "irq_lr",
                     "supervisor_sp", "supervisor_lr", "abort_sp", "abort_lr", "undefined_sp",
                     "undefined_lr", "fiq_spsr", "supervisor_spsr", "abort_spsr", "irq_spsr",
                     "undefined_spsr">>)

WriteMemory ==
  Fields("fixed", <<"ewram", "iwram", "palette", "vram", "oam">>)
  \o Fields("rom", <<"game_pak_rom">>) \o Fields("save", <<"game_pak_save">>)
  \o Fields("u8", <<"save_type", "flash_command_state">>) \o Fields("bool", <<"flash_id_mode">>)
  \o Fields("u8", <<"flash_bank">>) \o Fields("u32", <<"open_bus_latch">>)
  \o Fields("bool", <<"open_bus_latch_valid">>) \o Fields("fixed", <<"mgba_debug_string">>)
  \o Fields("text", <<"debug_output">>)

WriteInterrupts == Fields("u16", <<"ie", "if">>) \o Fields("bool", <<"ime">>)

WriteTimers ==
  Fields("u64", <<"cycle_counter">>)
  \o Copies(Fields("u16", <<"counter", "reload", "timer_control">>)
            \o Fields("u64", <<"overflow_count">>) \o Fields("u32", <<"enable_delay">>)
            \o Fields("u16", <<"last_enable_phase">>) \o Fields("bool", <<"just_enabled">>))

WriteDma ==
  Copies(Fields("u32", <<"source", "destination">>) \o Fields("u16", <<"word_count", "dma_control">>)
         \o Fields("u32", <<"current_source", "current_destination", "current_count",
                            "data_latch">>))
  \o Fields("bool", <<"immediate_pending">>)

WritePpu == Fields("u16", <<"line", "line_cycle", "dispstat_control">>) \o Array("u16", "lcd_control")

WriteApu ==
  Fields("u16", <<"soundcnt_l", "soundcnt_h", "soundcnt_x", "soundbias">>) \o Array("u16", "wave_ram")
  \o Fields("bool", <<"wave_bank_select">>)
  \o Copies(Fields("fixed", <<"fifo">>) \o Fields("u32", <<"fifo_head", "fifo_size">>))
  \o Array("u8", "latched")
  \o Copies(Fields("bool", <<"square_enabled">>) \o Fields("u8", <<"duty", "square_volume">>)
            \o Fields("u16", <<"square_period", "square_phase">>))
  \o Fields("bool", <<"wave_enabled">>) \o Fields("u8", <<"volume_shift">>)
  \o Fields("u16", <<"wave_period", "wave_phase">>)
  \o Fields("bool", <<"noise_enabled">>) \o Fields("u8", <<"noise_volume">>)
  \o Fields("u16", <<"noise_period", "noise_phase", "lfsr">>) \o Fields("bool", <<"narrow">>)
  \o Copies(Fields("u16", <<"ring_left", "ring_right">>))
  \o Fields("u32", <<"ring_head", "ring_size">>)
  \o Fields("u64", <<"frame_step_count", "audio_sample_count">>)
  \o Fields("u32", <<"frame_remainder", "audio_remainder">>) \o Fields("u8", <<"frame_step">>)
  \o Fields("u16", <<"mixed_left", "mixed_right">>)

WriteIo ==
  Array("u16", "serial") \o Fields("bool", <<"sio_active">>) \o Fields("u32", <<"sio_remaining">>)

WriteScheduler ==
  Fields("u64", <<"scheduler_cycles">>) \o Fields("bool", <<"halted">>)
  \o Fields("optional_u32", <<"last_fetch_address">>)
  \o Fields("optional_u8", <<"last_fetch_width", "last_fetch_window">>)
  \o Fields("u8", <<"prefetch_halfwords">>)
  \o Fields("bool", <<"suppress_prefetch", "recover_fetch", "suppress_bubble", "internal_load">>)
  \o Fields("optional_u16", <<"last_waitcnt">>) \o Fields("optional_u32", <<"return_lr">>)
  \o Fields("saved_registers", <<"saved_registers">>)
  \o Fields("bool", <<"reentry", "return_latency", "post_return_armed", "post_return", "chained",
                      "chained_data", "chained_spaced", "long_timer", "slow_timer0",
                      "chain_active">>)
  \o Fields("u8", <<"spaced_count">>) \o Fields("bool", <<"auto_irq_line_high">>)
  \o Fields("u8", <<"auto_irq_latency">>) \o Fields("u32", <<"timer_io_gap", "misfetch_recovery">>)
  \o Fields("outer_frames", <<"outer_frames">>) \o Fields("work_frames", <<"work_frames">>)

WriteDevices ==
  Fields("u16", <<"pressed", "keycnt", "waitcnt">>) \o Fields("u8", <<"bios_mode">>)

\* The sections of the body, in order.
Written ==
  <<WriteCpu, WriteMemory, WriteInterrupts, WriteTimers, WriteDma, WritePpu, WriteApu,
    WriteDevices, WriteIo, WriteScheduler>>

---------------------------------------------------------------------------
(* What decode_into reads.                                                  *)

ParseCpu ==
  Fields("u64", <<"elapsed">>) \o Array("u32", "register")
  \o Fields("bool", <<"negative", "zero", "carry", "overflow", "irq_disabled", "fiq_disabled",
                      "thumb_state">>)
  \o Fields("u8", <<"mode">>) \o Array("u32", "shared_r8_r12") \o Array("u32", "fiq_r8_r12")
  \o Fields("u32", <<"user_sp", "user_lr", "fiq_sp", "fiq_lr", "irq_sp", "irq_lr",
                     "supervisor_sp", "supervisor_lr", "abort_sp", "abort_lr", "undefined_sp",
                     "undefined_lr", "fiq_spsr", "supervisor_spsr", "abort_spsr", "irq_spsr",
                     "undefined_spsr">>)

ParseMemory ==
  Fields("fixed", <<"ewram", "iwram", "palette", "vram", "oam">>)
  \o Fields("rom", <<"game_pak_rom">>) \o Fields("save", <<"game_pak_save">>)
  \o Fields("u8", <<"save_type", "flash_command_state">>) \o Fields("bool", <<"flash_id_mode">>)
  \o Fields("u8", <<"flash_bank">>) \o Fields("u32", <<"open_bus_latch">>)
  \o Fields("bool", <<"open_bus_latch_valid">>) \o Fields("fixed", <<"mgba_debug_string">>)
  \o Fields("text", <<"debug_output">>)

ParseInterrupts == Fields("u16", <<"ie", "if">>) \o Fields("bool", <<"ime">>)

ParseTimers ==
  Fields("u64", <<"cycle_counter">>)
  \o Copies(Fields("u16", <<"counter", "reload", "timer_control">>)
            \o Fields("u64", <<"overflow_count">>) \o Fields("u32", <<"enable_delay">>)
            \o Fields("u16", <<"last_enable_phase">>) \o Fields("bool", <<"just_enabled">>))

\* A fault: two halfwords of a channel are read in the other order.
ParseDmaSwapped ==
  Copies(Fields("u32", <<"source", "destination">>) \o Fields("u16", <<"dma_control", "word_count">>)
         \o Fields("u32", <<"current_source", "current_destination", "current_count",
                            "data_latch">>))
  \o Fields("bool", <<"immediate_pending">>)

ParseDma ==
  Copies(Fields("u32", <<"source", "destination">>) \o Fields("u16", <<"word_count", "dma_control">>)
         \o Fields("u32", <<"current_source", "current_destination", "current_count",
                            "data_latch">>))
  \o Fields("bool", <<"immediate_pending">>)

ParsePpu == Fields("u16", <<"line", "line_cycle", "dispstat_control">>) \o Array("u16", "lcd_control")

ParseApu ==
  Fields("u16", <<"soundcnt_l", "soundcnt_h", "soundcnt_x", "soundbias">>) \o Array("u16", "wave_ram")
  \o Fields("bool", <<"wave_bank_select">>)
  \o Copies(Fields("fixed", <<"fifo">>) \o Fields("u32", <<"fifo_head", "fifo_size">>))
  \o Array("u8", "latched")
  \o Copies(Fields("bool", <<"square_enabled">>) \o Fields("u8", <<"duty", "square_volume">>)
            \o Fields("u16", <<"square_period", "square_phase">>))
  \o Fields("bool", <<"wave_enabled">>) \o Fields("u8", <<"volume_shift">>)
  \o Fields("u16", <<"wave_period", "wave_phase">>)
  \o Fields("bool", <<"noise_enabled">>) \o Fields("u8", <<"noise_volume">>)
  \o Fields("u16", <<"noise_period", "noise_phase", "lfsr">>) \o Fields("bool", <<"narrow">>)
  \o Copies(Fields("u16", <<"ring_left", "ring_right">>))
  \o Fields("u32", <<"ring_head", "ring_size">>)
  \o Fields("u64", <<"frame_step_count", "audio_sample_count">>)
  \o Fields("u32", <<"frame_remainder", "audio_remainder">>) \o Fields("u8", <<"frame_step">>)
  \o Fields("u16", <<"mixed_left", "mixed_right">>)

ParseIo ==
  Array("u16", "serial") \o Fields("bool", <<"sio_active">>) \o Fields("u32", <<"sio_remaining">>)

\* Version 4 added the frames of nested interrupts, version 6 the pending work.
ParseScheduler(version) ==
  Fields("u64", <<"scheduler_cycles">>) \o Fields("bool", <<"halted">>)
  \o Fields("optional_u32", <<"last_fetch_address">>)
  \o Fields("optional_u8", <<"last_fetch_width", "last_fetch_window">>)
  \o Fields("u8", <<"prefetch_halfwords">>)
  \o Fields("bool", <<"suppress_prefetch", "recover_fetch", "suppress_bubble", "internal_load">>)
  \o Fields("optional_u16", <<"last_waitcnt">>) \o Fields("optional_u32", <<"return_lr">>)
  \o Fields("saved_registers", <<"saved_registers">>)
  \o Fields("bool", <<"reentry", "return_latency", "post_return_armed", "post_return", "chained",
                      "chained_data", "chained_spaced", "long_timer", "slow_timer0",
                      "chain_active">>)
  \o Fields("u8", <<"spaced_count">>) \o Fields("bool", <<"auto_irq_line_high">>)
  \o Fields("u8", <<"auto_irq_latency">>) \o Fields("u32", <<"timer_io_gap", "misfetch_recovery">>)
  \o (IF version >= 4 THEN Fields("outer_frames", <<"outer_frames">>) ELSE <<>>)
  \o (IF version >= 6 THEN Fields("work_frames", <<"work_frames">>) ELSE <<>>)

ParseDevices ==
  Fields("u16", <<"pressed", "keycnt", "waitcnt">>) \o Fields("u8", <<"bios_mode">>)

Parsed(version) ==
  <<ParseCpu, ParseMemory, ParseInterrupts, ParseTimers, ParseDma, ParsePpu, ParseApu,
    ParseDevices, ParseIo, ParseScheduler(version)>>

---------------------------------------------------------------------------
(* What the state hashes of the components cover. An optional value hashes  *)
(* its presence first; empty frames hash as if the field did not exist.     *)

HashCpu ==
  {"register", "elapsed", "negative", "zero", "carry", "overflow", "irq_disabled", "fiq_disabled",
   "thumb_state", "mode", "shared_r8_r12", "fiq_r8_r12", "user_sp", "user_lr", "fiq_sp", "fiq_lr",
   "irq_sp", "irq_lr", "supervisor_sp", "supervisor_lr", "abort_sp", "abort_lr", "undefined_sp",
   "undefined_lr", "fiq_spsr", "supervisor_spsr", "abort_spsr", "irq_spsr", "undefined_spsr"}

HashMemory ==
  {"ewram", "iwram", "palette", "vram", "oam", "game_pak_rom", "save_type", "flash_command_state",
   "flash_id_mode", "flash_bank", "open_bus_latch_valid", "open_bus_latch", "game_pak_save",
   "mgba_debug_string", "debug_output"}

HashTimers ==
  {"cycle_counter", "counter", "reload", "timer_control", "overflow_count", "enable_delay",
   "last_enable_phase", "just_enabled"}

HashDma ==
  {"source", "destination", "word_count", "dma_control", "current_source", "current_destination",
   "current_count", "data_latch", "immediate_pending"}

HashPpu == {"line", "line_cycle", "dispstat_control", "lcd_control"}

\* A fault: the ring of samples is not covered.
HashApuWithoutRing ==
  {"soundcnt_l", "soundcnt_h", "soundcnt_x", "soundbias", "wave_ram", "wave_bank_select", "fifo",
   "fifo_head", "fifo_size", "latched", "square_enabled", "duty", "square_volume", "square_period",
   "square_phase", "wave_enabled", "volume_shift", "wave_period", "wave_phase", "noise_enabled",
   "noise_volume", "noise_period", "noise_phase", "lfsr", "narrow", "frame_step_count",
   "audio_sample_count", "frame_remainder", "audio_remainder", "frame_step", "mixed_left",
   "mixed_right"}

HashApu ==
  {"soundcnt_l", "soundcnt_h", "soundcnt_x", "soundbias", "wave_ram", "wave_bank_select", "fifo",
   "fifo_head", "fifo_size", "latched", "square_enabled", "duty", "square_volume", "square_period",
   "square_phase", "wave_enabled", "volume_shift", "wave_period", "wave_phase", "noise_enabled",
   "noise_volume", "noise_period", "noise_phase", "lfsr", "narrow", "ring_left", "ring_right",
   "ring_head", "ring_size", "frame_step_count", "audio_sample_count", "frame_remainder",
   "audio_remainder", "frame_step", "mixed_left", "mixed_right"}

HashScheduler ==
  {"scheduler_cycles", "halted", "last_fetch_address", "last_fetch_width", "last_fetch_window",
   "prefetch_halfwords", "suppress_prefetch", "recover_fetch", "suppress_bubble", "internal_load",
   "last_waitcnt", "return_lr", "saved_registers", "reentry", "return_latency",
   "post_return_armed", "post_return", "chained", "chained_data", "chained_spaced", "long_timer",
   "slow_timer0", "chain_active", "spaced_count", "auto_irq_line_high", "auto_irq_latency",
   "timer_io_gap", "misfetch_recovery", "outer_frames", "work_frames"}

HashIo == {"serial", "sio_active", "sio_remaining"}

HashInterrupts == {"ie", "if", "ime"}
HashKeypad == {"pressed", "keycnt"}
HashWaitcnt == {"waitcnt"}

Hashed ==
  HashCpu \cup HashMemory \cup HashTimers \cup HashDma \cup HashPpu \cup HashApu
  \cup HashInterrupts \cup HashKeypad \cup HashWaitcnt \cup {"bios_mode"} \cup HashIo
  \cup HashScheduler
=============================================================================
