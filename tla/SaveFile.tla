------------------------------ MODULE SaveFile ------------------------------
(***************************************************************************)
(* What persistence::write_file_atomic can leave of a file, as seen by a   *)
(* caller who does not look at the file-system calls: pairs of the file    *)
(* and its .old sibling. AtomicWrite, which makes the calls one by one,    *)
(* leaves nothing else (OutcomesAreKnown); DesktopSession writes its files *)
(* with these outcomes.                                                    *)
(***************************************************************************)

CONSTANT Absent   \* the file does not exist

\* An orphan of an earlier crash is put back before anything is written.
Readied(file, old) ==
  IF file = Absent /\ old # Absent THEN <<old, Absent>> ELSE <<file, old>>

\* A write that returns true. The remove of what is left beside the new file,
\* a stale .old or the previous file moved aside, is not looked at.
AfterWrite(bytes, file, old) ==
  {bytes} \X {Absent, Readied(file, old)[1], Readied(file, old)[2]}

\* A write that returns false or is cut off before its replacement is in
\* place: nothing was touched, the orphan was put back, the stale .old was
\* cleared, or the file moved aside could not be moved back.
AfterFailure(file, old) ==
  LET ready == Readied(file, old)
  IN {<<file, old>>, ready, <<ready[1], Absent>>, <<Absent, ready[1]>>}
=============================================================================
