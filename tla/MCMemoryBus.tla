---------------------------- MODULE MCMemoryBus ----------------------------
(* Regions of four bytes seen through two mirrors, VRAM of 12 bytes folded to *)
(* 16, a ROM that ends within a word; two banks of Flash of four bytes in two *)
(* sectors, the command bytes of the protocol and one more value. The save    *)
(* and the rest of the bus share nothing, so one of them moves at a time.     *)
EXTENDS MemoryBus

MCBytes == {170, 85, 144, 160, 128, 176, 240, 16, 48, 1}

MCImages == {Filled(SizeOf(t), 0) : t \in Types}

\* States of every kind of backing, taken in the middle of every command.
MCSnapshots ==
  {[type |-> t, data |-> Filled(SizeOf(t), 1), cmd |-> c, id |-> i, bank |-> b] :
     t \in FlashTypes, c \in CommandStates, i \in BOOLEAN, b \in {0, 1}}

MCAddresses ==
  {b * Span + o : b \in {2, 3, 5, 7}, o \in 0 .. RamSize}
    \cup {6 * Span + o : o \in 4 .. VramBank} \cup {4 * Span + o : o \in 0 .. IoEnd + 2}
    \cup {b * Span + o : b \in {0, 1, 10, 16}, o \in 4 .. 7} \cup {14 * Span + o : o \in 0 .. 3}
    \cup {b * Span - 1 : b \in {4, 5}}

MCNext ==
  \/ type = "none" /\ OfRamAndIo
  \/ ram = FilledRam /\ io = NewIo /\ stores = 0 /\ OfSave
  \/ BusReset

MCSpec == BusInit /\ [][MCNext]_<<vars, busVars>>

\* The last store matters to the step it is made in.
Seen == <<vars, ram, io, acked, stores>>
=============================================================================
