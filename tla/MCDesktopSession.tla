-------------------------- MODULE MCDesktopSession --------------------------
(* The desktop host with three games, of which the player owns two: in an   *)
(* execution without save states the two that have a cartridge save, with   *)
(* everything that can go wrong when a ROM is loaded; in one with F5 and F8 *)
(* one of those and the one without, where a state of a game may still be   *)
(* written, or lie in the other's place, while the other is played.         *)
EXTENDS DesktopSession, TLC

VARIABLE owned

SaveSymmetry == Permutations(SaveRoms)

SavesInit ==
  /\ Init
  /\ \/ owned = SaveRoms /\ \A r \in Roms : states[r] = Absent
     \/ \E r \in SaveRoms : owned = {r} \cup (Roms \ SaveRoms)
  /\ \A r \in Roms : states[r] # Absent => {r, states[r].rom} \subseteq owned
  /\ \A r \in Roms \ (owned \cap SaveRoms) : sav[r] = Absent

Play ==
  \/ \E r \in owned : Launch(r) \/ SwitchRom(r)
  \/ \E current \in Contents \cup {Empty}, ok \in BOOLEAN : Frame(current, ok)
  \/ Stop \/ Exit \/ Crash

Rejections == SwitchRefused \/ SwitchRejected \/ Reset

SaveStates ==
  \/ SaveState \/ LoadState \/ (Reset /\ ~lost')
  \/ \E ok \in BOOLEAN : WorkerWrite(ok)

SavesNext ==
  /\ Play \/ (owned = SaveRoms /\ Rejections) \/ (owned # SaveRoms /\ SaveStates)
  /\ UNCHANGED owned

SavesSpec == SavesInit /\ [][SavesNext]_<<vars, owned>>
=============================================================================
