----------------------------- MODULE HostProofs -----------------------------
(***************************************************************************)
(* Proofs about AtomicWrite, FrameStepping and SaveStateCodec. For any set *)
(* of byte vectors, if the existence probes answer truthfully, no sequence *)
(* of failed file-system calls and crashes loses the file, the write       *)
(* refines the atomic SaveSlot, and it leaves no files but those SaveFile  *)
(* lists. For any screen, any budget and steps of any length, what the     *)
(* runtime publishes is one frame of one machine. For any machines and any *)
(* damage to a file, a load commits one of the machines or nothing.        *)
(***************************************************************************)
EXTENDS AtomicWrite, FrameStepping, SaveStateCodec, SequenceTheorems, WellFoundedInduction, TLAPS

\* The inductive invariant: the types and where the good copy is.
IInv == TypeOK /\ GoodCopy

\* The type invariant and the location of the good copy hold initially.
LEMMA InitIInv == Init => IInv
BY SentinelAssumption DEF Init, IInv, TypeOK, GoodCopy, Steps

\* One step per action of the write, the crash and the load-time recovery.
LEMMA NextIInv ==
  ASSUME ProbeMayFail = FALSE, IInv, [Next]_vars
  PROVE  IInv'
<1> USE SentinelAssumption DEF IInv, TypeOK, GoodCopy, Steps
<1>1. CASE \E b \in Data : Call(b)
  BY <1>1 DEF Call
<1>2. CASE OpenTemp
  BY <1>2 DEF OpenTemp, Return
<1>3. CASE WriteTemp
  BY <1>3 DEF WriteTemp
<1>4. CASE Unwind
  BY <1>4 DEF Unwind, Return
<1>5. CASE RecoverOrphan
  <2>1. PICK there \in Exists(target), saved \in Exists(backup) :
          IF ~there /\ saved
          THEN \/ target' = backup /\ backup' = Absent /\ pc' = "replace"
               \/ UNCHANGED <<target, backup>> /\ pc' = "unwind"
          ELSE UNCHANGED <<target, backup>> /\ pc' = "replace"
    BY <1>5 DEF RecoverOrphan
  <2>2. (there <=> target # Absent) /\ (saved <=> backup # Absent)
    BY <2>1, Zenon DEF Exists
  <2> QED
    BY <1>5, <2>1, <2>2 DEF RecoverOrphan
<1>6. CASE Replace
  BY <1>6 DEF Replace
<1>7. CASE Reclaim
  BY <1>7 DEF Reclaim, Return
<1>8. CASE ClearBackup
  BY <1>8 DEF ClearBackup
<1>9. CASE MoveAside
  BY <1>9 DEF MoveAside
<1>10. CASE Install
  BY <1>10 DEF Install
<1>11. CASE Restore
  BY <1>11 DEF Restore
<1>12. CASE Crash
  BY <1>12 DEF Crash
<1>13. CASE RecoverAtLoad
  BY <1>13 DEF RecoverAtLoad
<1>14. CASE UNCHANGED vars
  BY <1>14 DEF vars
<1> QED
  BY <1>1, <1>2, <1>3, <1>4, <1>5, <1>6, <1>7, <1>8, <1>9, <1>10, <1>11,
     <1>12, <1>13, <1>14 DEF Next

\* Type correctness, for every set of byte vectors.
THEOREM TypeCorrect == ProbeMayFail = FALSE => (Spec => []TypeOK)
<1> SUFFICES ASSUME ProbeMayFail = FALSE PROVE Spec => []TypeOK
  OBVIOUS
<1>1. Init => IInv
  BY InitIInv
<1>2. IInv /\ [Next]_vars => IInv'
  BY NextIInv
<1>3. IInv => TypeOK
  BY DEF IInv
<1> QED
  BY <1>1, <1>2, <1>3, PTL DEF Spec

\* At every step of the write the only good copy is where the next failure
\* or crash leaves it recoverable.
THEOREM GoodCopyHolds == ProbeMayFail = FALSE => (Spec => []GoodCopy)
<1> SUFFICES ASSUME ProbeMayFail = FALSE PROVE Spec => []GoodCopy
  OBVIOUS
<1>1. Init => IInv
  BY InitIInv
<1>2. IInv /\ [Next]_vars => IInv'
  BY NextIInv
<1>3. IInv => GoodCopy
  BY DEF IInv
<1> QED
  BY <1>1, <1>2, <1>3, PTL DEF Spec

\* What a launch would load is what it was, or the bytes being written.
LEMMA StepNeverLost ==
  ASSUME ProbeMayFail = FALSE, IInv, [Next]_vars
  PROVE  [Recoverable' \in {Recoverable, bytes}]_vars
<1> SUFFICES ASSUME Next PROVE Recoverable' \in {Recoverable, bytes}
  OBVIOUS
<1> USE SentinelAssumption DEF IInv, TypeOK, GoodCopy, Recoverable
<1>1. CASE (\E b \in Data : Call(b)) \/ OpenTemp \/ WriteTemp \/ Unwind \/ Crash
  BY <1>1 DEF Call, OpenTemp, WriteTemp, Unwind, Crash
<1>2. CASE RecoverOrphan
  <2>1. Exists(target) = {target # Absent} /\ Exists(backup) = {backup # Absent}
    BY Zenon DEF Exists
  <2>2. \/ UNCHANGED <<target, backup>>
        \/ target = Absent /\ target' = backup /\ backup' = Absent
    BY <1>2, <2>1, Zenon DEF RecoverOrphan
  <2> QED
    BY <2>2
<1>3. CASE Replace \/ Install
  BY <1>3 DEF Replace, Install
<1>4. CASE Reclaim \/ ClearBackup
  BY <1>4 DEF Reclaim, ClearBackup
<1>5. CASE MoveAside
  BY <1>5 DEF MoveAside
<1>6. CASE Restore
  BY <1>6 DEF Restore
<1>7. CASE RecoverAtLoad
  <2>1. Exists(target) = {target # Absent}
    BY Zenon DEF Exists
  <2>2. target = Absent
    BY <1>7, <2>1, Zenon DEF RecoverAtLoad
  <2> QED
    BY <1>7, <2>2 DEF RecoverAtLoad
<1> QED
  BY <1>1, <1>2, <1>3, <1>4, <1>5, <1>6, <1>7 DEF Next

\* No failed file-system call and no crash loses the file.
THEOREM FileNeverLost == ProbeMayFail = FALSE => (Spec => NeverLost)
<1> SUFFICES ASSUME ProbeMayFail = FALSE PROVE Spec => NeverLost
  OBVIOUS
<1>1. Init => IInv
  BY InitIInv
<1>2. IInv /\ [Next]_vars => IInv'
  BY NextIInv
<1>3. IInv /\ [Next]_vars => [Recoverable' \in {Recoverable, bytes}]_vars
  BY StepNeverLost
<1> QED
  BY <1>1, <1>2, <1>3, PTL DEF Spec, NeverLost

\* Every step of the write is a step of the abstract slot, or a stutter.
LEMMA StepRefines ==
  ASSUME ProbeMayFail = FALSE, IInv, [Next]_vars
  PROVE  [Slot!SlotNext]_(Slot!slotVars)
<1> USE SentinelAssumption DEF IInv, TypeOK, GoodCopy, Recoverable
<1>1. CASE \E b \in Data : Call(b)
  BY <1>1 DEF Call, Slot!SlotNext, Slot!Begin, Slot!slotVars
<1>2. CASE OpenTemp
  BY <1>2 DEF OpenTemp, Return, Slot!SlotNext, Slot!ReturnFalse, Slot!slotVars
<1>3. CASE WriteTemp
  BY <1>3 DEF WriteTemp, Slot!slotVars
<1>4. CASE Unwind
  BY <1>4 DEF Unwind, Return, Slot!SlotNext, Slot!ReturnFalse, Slot!slotVars
<1>5. CASE RecoverOrphan
  <2>1. Exists(target) = {target # Absent} /\ Exists(backup) = {backup # Absent}
    BY Zenon DEF Exists
  <2>2. \/ UNCHANGED <<target, backup>>
        \/ target = Absent /\ target' = backup /\ backup' = Absent
    BY <1>5, <2>1, Zenon DEF RecoverOrphan
  <2>3. pc' \in {"replace", "unwind"}
    BY <1>5 DEF RecoverOrphan
  <2> QED
    BY <1>5, <2>2, <2>3 DEF RecoverOrphan, Slot!slotVars
<1>6. CASE Replace \/ Install
  BY <1>6 DEF Replace, Install, Slot!SlotNext, Slot!Commit, Slot!slotVars
<1>7. CASE Reclaim
  BY <1>7 DEF Reclaim, Return, Slot!SlotNext, Slot!ReturnTrue
<1>8. CASE ClearBackup
  BY <1>8 DEF ClearBackup, Slot!slotVars
<1>9. CASE MoveAside
  BY <1>9 DEF MoveAside, Slot!slotVars
<1>10. CASE Restore
  BY <1>10 DEF Restore, Slot!slotVars
<1>11. CASE Crash
  BY <1>11 DEF Crash, Slot!SlotNext, Slot!SlotCrash, Steps
<1>12. CASE RecoverAtLoad
  <2>1. Exists(target) = {target # Absent}
    BY Zenon DEF Exists
  <2>2. target = Absent
    BY <1>12, <2>1, Zenon DEF RecoverAtLoad
  <2> QED
    BY <1>12, <2>2 DEF RecoverAtLoad, Slot!slotVars
<1>13. CASE UNCHANGED vars
  BY <1>13 DEF vars, Slot!slotVars
<1> QED
  BY <1>1, <1>2, <1>3, <1>4, <1>5, <1>6, <1>7, <1>8, <1>9, <1>10, <1>11,
     <1>12, <1>13 DEF Next

\* write_file_atomic implements the atomic slot of SaveSlot.
THEOREM WriteRefinesSlot == ProbeMayFail = FALSE => (Spec => AtomicReplacement)
<1> SUFFICES ASSUME ProbeMayFail = FALSE PROVE Spec => AtomicReplacement
  OBVIOUS
<1>1. Init => IInv
  BY InitIInv
<1>2. IInv /\ [Next]_vars => IInv'
  BY NextIInv
<1>3. Init => Slot!SlotInit
  BY SentinelAssumption DEF Init, Slot!SlotInit, Recoverable
<1>4. IInv /\ [Next]_vars => [Slot!SlotNext]_(Slot!slotVars)
  BY StepRefines
<1> QED
  BY <1>1, <1>2, <1>3, <1>4, PTL DEF Spec, AtomicReplacement, Slot!SlotSpec

---------------------------------------------------------------------------
(* The outcomes of SaveFile.                                                *)

\* Where the file and its .old of the time of the call are at each step.
Traced ==
  LET ready == Readied(found[1], found[2])
  IN /\ pc \in {"open", "write", "probe"} => target = found[1] /\ backup = found[2]
     /\ pc \in {"replace", "clear"} => target = ready[1] /\ backup = ready[2]
     /\ pc = "aside" => target = ready[1] /\ backup \in {ready[2], Absent}
     /\ pc \in {"install", "restore"} => target = Absent /\ backup = ready[1]
     /\ pc = "reclaim" => target = bytes /\ backup \in {ready[1], ready[2], Absent}
     /\ pc = "unwind" => <<target, backup>> \in AfterFailure(found[1], found[2])

LEMMA ReadiedIs ==
  ASSUME NEW f, NEW o
  PROVE  /\ f = Absent /\ o # Absent => Readied(f, o)[1] = o /\ Readied(f, o)[2] = Absent
         /\ f # Absent \/ o = Absent => Readied(f, o)[1] = f /\ Readied(f, o)[2] = o
BY DEF Readied

LEMMA FailureIs ==
  ASSUME NEW f, NEW o, NEW t, NEW b
  PROVE  <<t, b>> \in AfterFailure(f, o) <=>
           \/ t = f /\ b = o
           \/ t = Readied(f, o)[1] /\ b \in {Readied(f, o)[2], Absent}
           \/ t = Absent /\ b = Readied(f, o)[1]
<1>1. Readied(f, o) = <<Readied(f, o)[1], Readied(f, o)[2]>>
  BY DEF Readied
<1>2. PICK ready : ready = Readied(f, o)
  OBVIOUS
<1>3. QED
  BY <1>1, <1>2 DEF AfterFailure

LEMMA WrittenIs ==
  ASSUME NEW d, NEW f, NEW o, NEW b
  PROVE  <<d, b>> \in AfterWrite(d, f, o) <=> b \in {Absent, Readied(f, o)[1], Readied(f, o)[2]}
BY DEF AfterWrite

LEMMA TracedStep ==
  ASSUME ProbeMayFail = FALSE, IInv, Traced, [Next]_vars
  PROVE  Traced'
<1>1. PICK ready : ready = Readied(found[1], found[2])
  OBVIOUS
<1>2. CASE \E b \in Data : Call(b)
  BY <1>2 DEF Call, Traced
<1>3. ASSUME found' = found, bytes' = bytes,
             \/ pc' = "idle"
             \/ /\ pc' \in {"write", "probe"}
                /\ target' = found[1] /\ backup' = found[2]
             \/ /\ pc' \in {"replace", "clear"}
                /\ target' = ready[1] /\ backup' = ready[2]
             \/ pc' = "aside" /\ target' = ready[1] /\ backup' \in {ready[2], Absent}
             \/ pc' \in {"install", "restore"} /\ target' = Absent /\ backup' = ready[1]
             \/ pc' = "reclaim" /\ target' = bytes /\ backup' \in {ready[1], ready[2], Absent}
             \/ pc' = "unwind" /\ <<target', backup'>> \in AfterFailure(found[1], found[2])
      PROVE  Traced'
  BY <1>1, <1>3 DEF Traced
<1>4. CASE OpenTemp
  BY <1>3, <1>4 DEF OpenTemp, Return, Traced
<1>5. CASE WriteTemp
  <2>1. target = found[1] /\ backup = found[2]
    BY <1>5 DEF WriteTemp, Traced
  <2>2. <<target, backup>> \in AfterFailure(found[1], found[2])
    BY <2>1, FailureIs
  <2>3. QED
    BY <1>3, <1>5, <2>1, <2>2 DEF WriteTemp
<1>6. CASE Unwind \/ Reclaim \/ Crash
  BY <1>3, <1>6 DEF Unwind, Reclaim, Crash, Return
<1>7. CASE RecoverOrphan
  <2>1. target = found[1] /\ backup = found[2] /\ found' = found /\ bytes' = bytes
    BY <1>7 DEF RecoverOrphan, Traced
  <2>2. Exists(target) = {target # Absent} /\ Exists(backup) = {backup # Absent}
    BY Zenon DEF Exists
  <2>3. \/ /\ target = Absent /\ backup # Absent
           /\ \/ target' = backup /\ backup' = Absent /\ pc' = "replace"
              \/ UNCHANGED <<target, backup>> /\ pc' = "unwind"
        \/ /\ ~(target = Absent /\ backup # Absent)
           /\ UNCHANGED <<target, backup>> /\ pc' = "replace"
    BY <1>7, <2>2, Zenon DEF RecoverOrphan
  <2>4. <<target, backup>> \in AfterFailure(found[1], found[2])
    BY <2>1, FailureIs
  <2>5. pc' = "replace" => target' = ready[1] /\ backup' = ready[2]
    BY <1>1, <2>1, <2>3, ReadiedIs
  <2>6. QED
    BY <1>3, <2>1, <2>3, <2>4, <2>5
<1>8. CASE Replace
  <2>1. target = ready[1] /\ backup = ready[2] /\ temp = bytes
    BY <1>1, <1>8 DEF Replace, Traced, IInv, GoodCopy
  <2>2. QED
    BY <1>3, <1>8, <2>1 DEF Replace
<1>9. CASE ClearBackup
  <2>1. target = ready[1] /\ backup = ready[2]
    BY <1>1, <1>9 DEF ClearBackup, Traced
  <2>2. QED
    BY <1>3, <1>9, <2>1 DEF ClearBackup
<1>10. CASE MoveAside
  <2>1. target = ready[1] /\ backup \in {ready[2], Absent}
    BY <1>1, <1>10 DEF MoveAside, Traced
  <2>2. <<target, backup>> \in AfterFailure(found[1], found[2])
    BY <1>1, <2>1, FailureIs
  <2>3. QED
    BY <1>3, <1>10, <2>1, <2>2 DEF MoveAside
<1>11. CASE Install
  <2>1. target = Absent /\ backup = ready[1] /\ temp = bytes
    BY <1>1, <1>11 DEF Install, Traced, IInv, GoodCopy
  <2>2. QED
    BY <1>3, <1>11, <2>1 DEF Install
<1>12. CASE Restore
  <2>1. target = Absent /\ backup = ready[1]
    BY <1>1, <1>12 DEF Restore, Traced
  <2>2. /\ <<target, backup>> \in AfterFailure(found[1], found[2])
        /\ <<backup, Absent>> \in AfterFailure(found[1], found[2])
    BY <1>1, <2>1, FailureIs
  <2>3. QED
    BY <1>3, <1>12, <2>2 DEF Restore
<1>13. CASE RecoverAtLoad
  BY <1>3, <1>13 DEF RecoverAtLoad
<1>14. CASE UNCHANGED vars
  BY <1>14 DEF vars, Traced
<1>15. QED
  BY <1>2, <1>4, <1>5, <1>6, <1>7, <1>8, <1>9, <1>10, <1>11, <1>12, <1>13, <1>14 DEF Next

LEMMA TracedIsKnown ==
  ASSUME IInv, Traced
  PROVE  OutcomesAreKnown
<1>1. PICK ready : ready = Readied(found[1], found[2])
  OBVIOUS
<1>2. pc = "reclaim" => /\ target = bytes
                        /\ \A left \in {backup, Absent} : left \in {Absent, ready[1], ready[2]}
  BY <1>1 DEF Traced
<1>3. pc = "reclaim" => \A left \in {backup, Absent} :
                          <<target, left>> \in AfterWrite(bytes, found[1], found[2])
  BY <1>1, <1>2, WrittenIs
<1>4. pc \in Steps \ {"idle", "reclaim"} => <<target, backup>> \in AfterFailure(found[1], found[2])
  BY <1>1, FailureIs DEF Traced, Steps
<1>5. QED
  BY <1>3, <1>4 DEF OutcomesAreKnown, IInv, TypeOK, Steps

\* For any bytes, where a write may fail, stop or succeed, the file and its
\* .old are a pair of SaveFile, the outcomes that DesktopSession writes with
\* (write_file_atomic).
THEOREM WriteLeavesKnownFiles == ProbeMayFail = FALSE => (Spec => []OutcomesAreKnown)
<1> SUFFICES ASSUME ProbeMayFail = FALSE PROVE Spec => []OutcomesAreKnown
  OBVIOUS
<1>1. Init => IInv /\ Traced
  BY InitIInv DEF Init, Traced
<1>2. IInv /\ Traced /\ [Next]_vars => IInv' /\ Traced'
  BY NextIInv, TracedStep
<1>3. IInv /\ Traced => OutcomesAreKnown
  BY TracedIsKnown
<1> QED
  BY <1>1, <1>2, <1>3, PTL DEF Spec

---------------------------------------------------------------------------
(* Frames. Division with remainder by the length of a line or a frame:      *)

LEMMA MultiplesOrder ==
  ASSUME NEW F \in Nat \ {0}, NEW m \in Int, NEW p \in Int, m * F < p * F
  PROVE  m < p
<1> SUFFICES ASSUME m >= p PROVE FALSE
  OBVIOUS
<1>1. (m - p) * F >= 0
  OBVIOUS
<1>2. (m - p) * F = m * F - p * F
  OBVIOUS
<1> QED
  BY <1>1, <1>2

LEMMA Division ==
  ASSUME NEW F \in Nat \ {0}, NEW a \in Int
  PROVE  /\ a \div F \in Int
         /\ a % F \in 0 .. F - 1
         /\ a = (a \div F) * F + (a % F)
<1>1. F \in Int /\ F > 0
  OBVIOUS
<1>2. a = F * (a \div F) + (a % F)
  BY <1>1, Z3
<1>3. a % F \in 0 .. F - 1 /\ a \div F \in Int
  OBVIOUS
<1> DEFINE q == a \div F
           r == a % F
<1> HIDE DEF q, r
<1>4. q \in Int /\ r \in Int /\ a = F * q + r
  BY <1>2, <1>3 DEF q, r
<1>5. a = q * F + r
  BY <1>4
<1> QED
  BY <1>3, <1>5, Zenon DEF q, r

\* Quotient and remainder are unique.
LEMMA Remainder ==
  ASSUME NEW F \in Nat \ {0}, NEW a \in Int, NEW k \in Int, NEW r \in 0 .. F - 1,
         a = k * F + r
  PROVE  a % F = r /\ a \div F = k
<1> DEFINE q == a \div F
           s == a % F
<1>1. q \in Int /\ s \in 0 .. F - 1 /\ a = q * F + s
  BY Division
<1> HIDE DEF q, s
<1>2. (k + 1) * F = k * F + F /\ (q + 1) * F = q * F + F
  BY <1>1
<1>3. k * F \in Int /\ q * F \in Int
  BY <1>1
<1>4. k < q + 1
  <2>1. k * F < (q + 1) * F /\ q + 1 \in Int
    BY <1>1, <1>2, <1>3
  <2> QED
    BY <1>1, <2>1, MultiplesOrder
<1>5. q < k + 1
  <2>1. q * F < (k + 1) * F /\ k + 1 \in Int
    BY <1>1, <1>2, <1>3
  <2> QED
    BY <1>1, <2>1, MultiplesOrder
<1>6. q = k
  BY <1>1, <1>4, <1>5
<1>7. s = r
  BY <1>1, <1>3, <1>6
<1> QED
  BY <1>6, <1>7 DEF q, s


---------------------------------------------------------------------------
(* The lines that begin their HBlank as the clock passes.                   *)

LEMMA ScreenFacts ==
  /\ TotalLines \in Nat \ {0} /\ LineCycles \in Nat \ {0} /\ FrameCycles \in Nat \ {0}
  /\ ScreenHeight \in Nat \ {0} /\ ScreenHeight < TotalLines
  /\ HblankCycle \in 0 .. LineCycles - 1
  /\ FrameCycles = TotalLines * LineCycles
  /\ CountLimit \in Nat \ {0} /\ MaxSteps \in Nat /\ Longest \in Nat
  /\ Rows = 0 .. ScreenHeight - 1
<1>1. /\ TotalLines \in Nat \ {0} /\ LineCycles \in Nat \ {0}
      /\ ScreenHeight \in Nat \ {0} /\ ScreenHeight < TotalLines
      /\ HblankCycle \in 0 .. LineCycles - 1 /\ MaxSteps \in Nat /\ Longest \in Nat
  BY ScreenAssumption
<1>2. TotalLines * LineCycles \in Nat \ {0}
  BY <1>1
<1>3. QED
  BY <1>1, <1>2 DEF FrameCycles, CountLimit, Rows

\* The line and the frame of a cycle, and the number of the line since the
\* first.
LEMMA Place ==
  ASSUME NEW c \in Nat
  PROVE  /\ c \div LineCycles \in Nat /\ c % LineCycles \in 0 .. LineCycles - 1
         /\ c = (c \div LineCycles) * LineCycles + (c % LineCycles)
         /\ c \div FrameCycles = (c \div LineCycles) \div TotalLines
         /\ (c % FrameCycles) \div LineCycles = (c \div LineCycles) % TotalLines
         /\ c \div FrameCycles \in Nat
         /\ (c % FrameCycles) \div LineCycles \in 0 .. TotalLines - 1
<1>1. PICK q \in Int, k \in 0 .. LineCycles - 1 :
        /\ q = c \div LineCycles /\ k = c % LineCycles /\ c = q * LineCycles + k
  <2>1. c \in Int /\ LineCycles \in Nat \ {0}
    BY ScreenFacts
  <2>2. /\ c \div LineCycles \in Int /\ c % LineCycles \in 0 .. LineCycles - 1
        /\ c = (c \div LineCycles) * LineCycles + (c % LineCycles)
    BY <2>1, Division
  <2>3. QED
    BY <2>2
<1>2. q \in Nat
  <2>1. CASE q <= -1
    <3>1. (q + 1) * LineCycles <= 0 /\ (q + 1) * LineCycles = q * LineCycles + LineCycles
      BY <2>1, ScreenFacts
    <3>2. q * LineCycles \in Int
      BY ScreenFacts
    <3>3. QED
      BY <1>1, <3>1, <3>2, ScreenFacts
  <2>2. QED
    BY <2>1
<1>3. PICK f \in Int, l \in 0 .. TotalLines - 1 :
        /\ f = q \div TotalLines /\ l = q % TotalLines /\ q = f * TotalLines + l
  BY ScreenFacts, Division, ZenonT(60)
<1>4. f \in Nat
  <2>1. CASE f <= -1
    <3>1. (f + 1) * TotalLines <= 0 /\ (f + 1) * TotalLines = f * TotalLines + TotalLines
      BY <2>1, ScreenFacts
    <3>2. f * TotalLines \in Int
      BY ScreenFacts
    <3>3. QED
      BY <1>2, <1>3, <3>1, <3>2, ScreenFacts
  <2>2. QED
    BY <2>1
<1>5. PICK r : r = l * LineCycles + k
  OBVIOUS
<1>6. c = f * FrameCycles + r
  <2>1. q * LineCycles = (f * TotalLines) * LineCycles + l * LineCycles
    BY <1>3, ScreenFacts
  <2>2. (f * TotalLines) * LineCycles = f * (TotalLines * LineCycles)
    BY <1>3, ScreenFacts
  <2>3. f * (TotalLines * LineCycles) \in Int /\ l * LineCycles \in Int
    BY <1>3, ScreenFacts
  <2>4. QED
    BY <1>1, <1>5, <2>1, <2>2, <2>3, ScreenFacts, SMTT(60)
<1>7. r \in 0 .. FrameCycles - 1
  <2>1. (l + 1) * LineCycles <= TotalLines * LineCycles /\ (l + 1) * LineCycles = l * LineCycles + LineCycles
    <3>1. (TotalLines - (l + 1)) * LineCycles >= 0
      BY <1>3, ScreenFacts
    <3>2. (TotalLines - (l + 1)) * LineCycles = TotalLines * LineCycles - (l + 1) * LineCycles
      BY <1>3, ScreenFacts
    <3>3. (l + 1) * LineCycles \in Int /\ TotalLines * LineCycles \in Int
      BY <1>3, ScreenFacts
    <3>4. (l + 1) * LineCycles = l * LineCycles + LineCycles
      BY <1>3, ScreenFacts
    <3>5. QED
      BY <3>1, <3>2, <3>3, <3>4
  <2>2. l * LineCycles \in Nat
    BY <1>3, ScreenFacts
  <2>3. QED
    BY <1>1, <1>5, <2>1, <2>2, ScreenFacts
<1>8. c % FrameCycles = r /\ c \div FrameCycles = f
  <2>1. FrameCycles \in Nat \ {0} /\ c \in Int /\ f \in Int
    BY ScreenFacts
  <2>2. QED
    BY <1>6, <1>7, <2>1, Remainder
<1>9. r \div LineCycles = l
  <2>1. r \in Int /\ l \in Int /\ LineCycles \in Nat \ {0}
    BY <1>7, ScreenFacts
  <2>2. QED
    BY <1>5, <2>1, Remainder
<1>10. QED
  BY <1>1, <1>2, <1>3, <1>4, <1>8, <1>9

\* A later cycle is of a later frame, or of the same.
LEMMA FramesGrow ==
  ASSUME NEW c \in Nat, NEW d \in Nat, c <= d
  PROVE  c \div FrameCycles <= d \div FrameCycles
<1>1. FrameCycles \in Nat \ {0} /\ c \in Int /\ d \in Int
  BY ScreenFacts
<1>2. PICK p \in Int, k \in 0 .. FrameCycles - 1 :
        p = c \div FrameCycles /\ c = p * FrameCycles + k
  BY <1>1, Division
<1>3. PICK q \in Int, j \in 0 .. FrameCycles - 1 :
        q = d \div FrameCycles /\ d = q * FrameCycles + j
  BY <1>1, Division
<1>4. p * FrameCycles \in Int /\ q * FrameCycles \in Int /\ (q + 1) * FrameCycles = q * FrameCycles + FrameCycles
  BY <1>1
<1>5. p * FrameCycles < (q + 1) * FrameCycles
  BY <1>1, <1>2, <1>3, <1>4
<1>6. p < q + 1
  BY <1>1, <1>5, MultiplesOrder
<1>7. QED
  BY <1>2, <1>3, <1>6

---------------------------------------------------------------------------
(* The collection of rows.                                                  *)

\* What the observer does in cycle c of machine g.
Ticked(r, c, g) ==
  IF Passed(c) < ScreenHeight THEN Captured(r, Passed(c), <<g, c \div FrameCycles>>) ELSE r

Raster == [rows : [Rows -> Nat \X Int], next : 0 .. ScreenHeight, ready : BOOLEAN]

\* The rows collected by cycle c are of one frame of machine g, and unless they
\* are complete c lies between the last of them and the next.
Fresh(r, c, g) ==
  /\ r \in Raster
  /\ \E F \in Nat :
       /\ F <= c \div FrameCycles
       /\ \A row \in Rows : row < r.next => r.rows[row] = <<g, F>>
       /\ r.ready => r.next = ScreenHeight
       /\ ~r.ready /\ r.next > 0 =>
            /\ r.next < ScreenHeight
            /\ (F * TotalLines + r.next - 1) * LineCycles + HblankCycle <= c
            /\ c < (F * TotalLines + r.next) * LineCycles + HblankCycle

\* HBlank of the m-th line since the first begins at one cycle.
LEMMA OneHblank ==
  ASSUME NEW m \in Int, NEW q \in Int,
         m * LineCycles + HblankCycle <= q * LineCycles + HblankCycle - 1,
         q * LineCycles + HblankCycle - 1 < (m + 1) * LineCycles + HblankCycle
  PROVE  q = m + 1
<1>1. LineCycles \in Nat \ {0} /\ HblankCycle \in Int
  BY ScreenFacts
<1>2. /\ m * LineCycles \in Int /\ q * LineCycles \in Int /\ (m + 1) * LineCycles \in Int
      /\ (m + 2) * LineCycles = (m + 1) * LineCycles + LineCycles
  BY <1>1
<1>3. m * LineCycles < q * LineCycles /\ q * LineCycles < (m + 2) * LineCycles
  BY <1>1, <1>2
<1>4. m < q
  BY <1>1, <1>3, MultiplesOrder
<1>5. q < m + 2
  BY <1>1, <1>3, MultiplesOrder
<1>6. QED
  BY <1>4, <1>5

\* Every cycle keeps the collection fresh.
LEMMA TickFresh ==
  ASSUME NEW r, NEW c \in Nat \ {0}, NEW g \in Nat, Fresh(r, c - 1, g)
  PROVE  Fresh(Ticked(r, c, g), c, g)
<1> DEFINE t == Ticked(r, c, g)
<1>1. r \in Raster /\ c \in Nat /\ c - 1 \in Nat
  BY DEF Fresh
<1>2. /\ r.rows \in [Rows -> Nat \X Int] /\ r.next \in 0 .. ScreenHeight /\ r.ready \in BOOLEAN
  BY <1>1 DEF Raster
<1>3. PICK F \in Nat :
       /\ F <= (c - 1) \div FrameCycles
       /\ \A row \in Rows : row < r.next => r.rows[row] = <<g, F>>
       /\ r.ready => r.next = ScreenHeight
       /\ ~r.ready /\ r.next > 0 =>
            /\ r.next < ScreenHeight
            /\ (F * TotalLines + r.next - 1) * LineCycles + HblankCycle <= c - 1
            /\ c - 1 < (F * TotalLines + r.next) * LineCycles + HblankCycle
  BY DEF Fresh
<1>4. PICK q \in Nat, k \in 0 .. LineCycles - 1, f \in Nat, line \in 0 .. TotalLines - 1 :
        /\ k = c % LineCycles /\ c = q * LineCycles + k
        /\ f = c \div FrameCycles /\ line = (c % FrameCycles) \div LineCycles
        /\ f = q \div TotalLines /\ line = q % TotalLines
  BY <1>1, Place, ZenonT(60)
<1>5. q = f * TotalLines + line
  <2>1. q \in Int /\ TotalLines \in Nat \ {0}
    BY ScreenFacts
  <2>2. QED
    BY <1>4, <2>1, Division, ZenonT(60)
<1>6. F <= f
  <2>1. (c - 1) \div FrameCycles <= c \div FrameCycles
    BY <1>1, FramesGrow
  <2>2. (c - 1) \div FrameCycles \in Nat
    BY <1>1, Place
  <2>3. QED
    BY <1>3, <1>4, <2>1, <2>2
<1>7. Passed(c) = IF k = HblankCycle THEN line ELSE TotalLines
  BY <1>4 DEF Passed
<1>8. ASSUME t = r, r.ready \/ r.next = 0 \/ k # HblankCycle
      PROVE  Fresh(t, c, g)
  <2>1. ASSUME ~r.ready, r.next > 0
        PROVE  /\ (F * TotalLines + r.next - 1) * LineCycles + HblankCycle <= c
               /\ c < (F * TotalLines + r.next) * LineCycles + HblankCycle
    <3>1. PICK m \in Int : m = F * TotalLines + r.next
      BY <1>2, ScreenFacts
    <3>2. F * TotalLines + r.next - 1 = m - 1
      <4>1. PICK x \in Int : x = F * TotalLines
        BY <1>2, ScreenFacts
      <4>2. PICK y \in Int : y = r.next
        BY <1>2, ScreenFacts
      <4>3. QED
        BY <3>1, <4>1, <4>2
    <3>3. /\ (m - 1) * LineCycles + HblankCycle <= c - 1
          /\ c - 1 < m * LineCycles + HblankCycle
      BY <1>3, <2>1, <3>1, <3>2
    <3>4. m * LineCycles \in Int /\ (m - 1) * LineCycles \in Int /\ HblankCycle \in Int
      BY ScreenFacts
    <3>5. c # m * LineCycles + HblankCycle
      <4>1. c \in Int /\ LineCycles \in Nat \ {0} /\ HblankCycle \in 0 .. LineCycles - 1
        BY ScreenFacts
      <4>2. c = m * LineCycles + HblankCycle => c % LineCycles = HblankCycle
        BY <4>1, Remainder
      <4>3. QED
        BY <1>4, <1>8, <2>1, <4>2
    <3>6. (m - 1) * LineCycles + HblankCycle <= c /\ c < m * LineCycles + HblankCycle
      BY <3>3, <3>4, <3>5
    <3>7. QED
      BY <3>1, <3>2, <3>6
  <2>2. QED
    BY <1>1, <1>3, <1>4, <1>6, <1>8, <2>1 DEF Fresh
<1>9. CASE r.ready
  <2>1. t = r
    BY <1>9 DEF Ticked, Captured
  <2>2. QED
    BY <1>8, <1>9, <2>1
<1>10. CASE k # HblankCycle
  <2>1. t = r
    BY <1>7, <1>10, ScreenFacts DEF Ticked
  <2>2. QED
    BY <1>8, <1>10, <2>1
<1>11. CASE ~r.ready /\ k = HblankCycle /\ r.next = 0
  <2>1. Passed(c) = line
    BY <1>7, <1>11
  <2>2. CASE line = 0
    <3>1. t = [rows |-> [r.rows EXCEPT ![0] = <<g, f>>], next |-> 1, ready |-> 1 = ScreenHeight]
      <4>1. Passed(c) = 0 /\ c \div FrameCycles = f
        BY <1>4, <2>1, <2>2, Zenon
      <4>4. 0 < ScreenHeight /\ 0 + 1 = 1
        BY ScreenFacts
      <4>2. Captured(r, 0, <<g, f>>)
              = [rows |-> [r.rows EXCEPT ![0] = <<g, f>>], next |-> 0 + 1, ready |-> 0 + 1 = ScreenHeight]
        BY <1>11 DEF Captured
      <4>3. QED
        BY <4>1, <4>2, <4>4 DEF Ticked
    <3>2. t \in Raster
      <4>1. <<g, f>> \in Nat \X Int
        OBVIOUS
      <4>2. [r.rows EXCEPT ![0] = <<g, f>>] \in [Rows -> Nat \X Int]
        BY <1>2, <4>1
      <4>3. QED
        BY <3>1, <4>2, ScreenFacts DEF Raster
    <3>3. \A row \in Rows : row < t.next => t.rows[row] = <<g, f>>
      BY <1>2, <3>1, ScreenFacts
    <3>4. /\ (f * TotalLines + t.next - 1) * LineCycles + HblankCycle <= c
          /\ c < (f * TotalLines + t.next) * LineCycles + HblankCycle
      <4>1. f * TotalLines + t.next - 1 = q /\ f * TotalLines + t.next = q + 1
        BY <1>5, <2>2, <3>1, ScreenFacts
      <4>2. c = q * LineCycles + HblankCycle
        BY <1>4, <1>11
      <4>3. (q + 1) * LineCycles = q * LineCycles + LineCycles /\ q * LineCycles \in Int
        BY ScreenFacts
      <4>4. c < (q + 1) * LineCycles + HblankCycle
        BY <4>2, <4>3, ScreenFacts
      <4>5. QED
        BY <4>1, <4>2, <4>4
    <3>5. t.next = 1 /\ (t.ready => 1 = ScreenHeight) /\ (~t.ready => 1 # ScreenHeight)
      <4> HIDE DEF t
      <4>1. t.next = 1 /\ t.ready = (1 = ScreenHeight)
        BY <3>1
      <4>2. QED
        BY <4>1, Zenon
    <3>6. f <= c \div FrameCycles
      BY <1>4
    <3>7. QED
      <4>1. t.ready => t.next = ScreenHeight
        BY <3>5
      <4>2. ~t.ready => t.next < ScreenHeight
        BY <3>5, ScreenFacts
      <4> HIDE DEF t
      <4>3. Fresh(t, c, g)
        BY <3>2, <3>3, <3>4, <3>6, <4>1, <4>2 DEF Fresh
      <4>4. QED
        BY <4>3 DEF t
  <2>3. CASE line # 0
    <3>1. t = r
      <4>1. [r EXCEPT !.next = 0] = r
        BY <1>1, <1>11 DEF Raster
      <4>2. QED
        BY <1>11, <2>1, <2>3, <4>1 DEF Ticked, Captured
    <3>2. QED
      BY <1>8, <1>11, <3>1
  <2>4. QED
    BY <2>2, <2>3
<1>12. CASE ~r.ready /\ k = HblankCycle /\ r.next > 0
  <2>1. PICK m \in Int : m = F * TotalLines + r.next
    BY <1>2, ScreenFacts
  <2>2. q = m
    <3>1. m - 1 \in Int /\ m - 1 + 1 = m /\ F * TotalLines + r.next - 1 = m - 1
      BY <1>2, <2>1, ScreenFacts, SMTT(60)
    <3>2. c - 1 = q * LineCycles + HblankCycle - 1
      <4>1. q * LineCycles \in Int /\ HblankCycle \in Int
        BY ScreenFacts
      <4>2. c = q * LineCycles + HblankCycle
        BY <1>4, <1>12, Zenon
      <4>3. QED
        BY <4>1, <4>2
    <3>3. /\ (m - 1) * LineCycles + HblankCycle <= q * LineCycles + HblankCycle - 1
          /\ q * LineCycles + HblankCycle - 1 < (m - 1 + 1) * LineCycles + HblankCycle
      BY <1>3, <1>12, <2>1, <3>1, <3>2
    <3>4. QED
      BY <3>1, <3>3, OneHblank
  <2>3. r.next < ScreenHeight
    BY <1>3, <1>12
  <2>4. f = F /\ line = r.next
    <3>1. r.next \in 0 .. TotalLines - 1 /\ q = F * TotalLines + r.next
      BY <1>2, <2>1, <2>2, <2>3, ScreenFacts
    <3>2. q \in Int /\ F \in Int /\ TotalLines \in Nat \ {0}
      BY ScreenFacts
    <3>3. q % TotalLines = r.next /\ q \div TotalLines = F
      BY <3>1, <3>2, Remainder
    <3>4. QED
      BY <1>4, <3>3
  <2>5. t = [rows |-> [r.rows EXCEPT ![line] = <<g, f>>], next |-> line + 1, ready |-> line + 1 = ScreenHeight]
    <3>1. Passed(c) = line /\ line < ScreenHeight
      BY <1>7, <1>12, <2>3, <2>4
    <3>2. QED
      BY <1>4, <1>12, <2>4, <3>1 DEF Ticked, Captured
  <2>6. t \in Raster
    <3>1. <<g, f>> \in Nat \X Int
      OBVIOUS
    <3>2. [r.rows EXCEPT ![line] = <<g, f>>] \in [Rows -> Nat \X Int]
      BY <1>2, <3>1
    <3>3. line + 1 \in 0 .. ScreenHeight
      BY <2>3, <2>4, ScreenFacts
    <3>4. QED
      BY <2>5, <3>2, <3>3 DEF Raster
  <2>7. \A row \in Rows : row < t.next => t.rows[row] = <<g, f>>
    <3>1. ASSUME NEW row \in Rows, row < line + 1
          PROVE  [r.rows EXCEPT ![line] = <<g, f>>][row] = <<g, f>>
      <4>1. CASE row = line
        BY <1>2, <4>1
      <4>2. CASE row # line
        <5>1. row < r.next
          BY <2>4, <3>1, <4>2, ScreenFacts
        <5>2. QED
          BY <1>2, <1>3, <2>4, <4>2, <5>1
      <4>3. QED
        BY <4>1, <4>2
    <3>2. t.next = line + 1 /\ t.rows = [r.rows EXCEPT ![line] = <<g, f>>]
      BY <2>5
    <3>3. QED
      BY <3>1, <3>2
  <2>8. t.next = line + 1 /\ (t.ready => line + 1 = ScreenHeight) /\ (~t.ready => line + 1 # ScreenHeight)
    <3> HIDE DEF t
    <3>1. t.next = line + 1 /\ t.ready = (line + 1 = ScreenHeight)
      BY <2>5
    <3>2. QED
      BY <3>1, Zenon
  <2>9. /\ (f * TotalLines + t.next - 1) * LineCycles + HblankCycle <= c
        /\ c < (f * TotalLines + t.next) * LineCycles + HblankCycle
    <3>1. f * TotalLines + t.next - 1 = q /\ f * TotalLines + t.next = q + 1
      BY <1>5, <2>8, ScreenFacts
    <3>2. c = q * LineCycles + HblankCycle
      BY <1>4, <1>12
    <3>3. (q + 1) * LineCycles = q * LineCycles + LineCycles /\ q * LineCycles \in Int
      BY ScreenFacts
    <3>4. c < (q + 1) * LineCycles + HblankCycle
      BY <3>2, <3>3, ScreenFacts
    <3>5. QED
      BY <3>1, <3>2, <3>4
  <2>10. f <= c \div FrameCycles
    BY <1>4
  <2>11. t.ready => t.next = ScreenHeight
    BY <2>8
  <2>12. ~t.ready => t.next < ScreenHeight
    BY <2>3, <2>4, <2>8, ScreenFacts
  <2> HIDE DEF t
  <2>13. Fresh(t, c, g)
    BY <2>6, <2>7, <2>9, <2>10, <2>11, <2>12 DEF Fresh
  <2>14. QED
    BY <2>13 DEF t
<1>13. QED
  <2>1. r.next = 0 \/ r.next > 0
    BY <1>2, ScreenFacts
  <2>2. QED
    BY <1>9, <1>10, <1>11, <1>12, <2>1

\* The least of a nonempty set of natural numbers.
LEMMA Least ==
  ASSUME NEW S \in SUBSET Nat, S # {}
  PROVE  \E x \in S : \A y \in S : x <= y
<1> DEFINE R == {ss \in Nat \X Nat : ss[1] < ss[2]}
<1>1. IsWellFoundedOn(R, Nat)
  BY NatLessThanWellFounded DEF OpToRel
<1> HIDE DEF R
<1>2. PICK x \in S : \A y \in S : ~(<<y, x>> \in R)
  BY <1>1, WFMin
<1>3. ASSUME NEW y \in S PROVE x <= y
  <2>1. x \in Nat /\ y \in Nat /\ <<y, x>> \in Nat \X Nat
    OBVIOUS
  <2>2. ~(y < x)
    BY <1>2, <2>1 DEF R
  <2>3. QED
    BY <2>1, <2>2
<1>4. QED
  BY <1>3

\* f holds what is collected after each of n cycles.
Collection(f, r, n) ==
  f = [i \in 0 .. n |-> IF i = 0 THEN r ELSE Ticked(f[i - 1], clock + i, generation)]

\* The recursive definition has a value.
LEMMA CollectionExists ==
  ASSUME NEW r, NEW n \in Nat
  PROVE  \E f : Collection(f, r, n)
<1> DEFINE S == {k \in Nat : ~\E f : Collection(f, r, k)}
<1>1. SUFFICES ASSUME S # {} PROVE FALSE
  OBVIOUS
<1>2. PICK k \in S : \A y \in S : k <= y
  BY <1>1, Least
<1>3. k # 0
  <2>1. Collection([i \in 0 .. 0 |-> r], r, 0)
    BY DEF Collection
  <2>2. QED
    BY <1>2, <2>1
<1>4. k \in Nat /\ k - 1 \in Nat /\ k - 1 \notin S
  BY <1>2, <1>3
<1>5. PICK f : Collection(f, r, k - 1)
  BY <1>4
<1>6. PICK b : b = [i \in 0 .. k |-> IF i < k THEN f[i] ELSE Ticked(f[k - 1], clock + k, generation)]
  OBVIOUS
<1>7. ASSUME NEW i \in 0 .. k
      PROVE  b[i] = IF i = 0 THEN r ELSE Ticked(b[i - 1], clock + i, generation)
  <2>1. CASE i = 0
    <3>1. b[0] = f[0] /\ f[0] = r
      BY <1>3, <1>4, <1>5, <1>6 DEF Collection
    <3>2. QED
      BY <2>1, <3>1
  <2>2. CASE i # 0 /\ i < k
    <3>1. i \in 0 .. k - 1 /\ i - 1 \in 0 .. k /\ i - 1 < k
      BY <1>4, <2>2
    <3>2. b[i] = f[i] /\ b[i - 1] = f[i - 1]
      BY <1>6, <2>2, <3>1
    <3>3. f[i] = Ticked(f[i - 1], clock + i, generation)
      BY <1>5, <2>2, <3>1 DEF Collection
    <3>4. QED
      BY <2>2, <3>2, <3>3
  <2>3. CASE i = k
    <3>1. b[k] = Ticked(f[k - 1], clock + k, generation) /\ b[k - 1] = f[k - 1]
      BY <1>4, <1>6
    <3>2. QED
      BY <1>3, <2>3, <3>1
  <2>4. QED
    BY <1>4, <2>1, <2>2, <2>3
<1>8. Collection(b, r, k)
  <2>1. b = [i \in 0 .. k |-> b[i]]
    BY <1>6
  <2>2. QED
    BY <1>7, <2>1 DEF Collection
<1>9. QED
  BY <1>2, <1>8

LEMMA CollectedValue ==
  ASSUME NEW r, NEW n \in Nat
  PROVE  \E f : Collection(f, r, n) /\ Collected(r, n) = f[n]
<1> DEFINE f == CHOOSE f : Collection(f, r, n)
<1>1. Collection(f, r, n)
  BY CollectionExists
<1>2. Collected(r, n) = f[n]
  BY DEF Collected, Collection, Ticked
<1>3. QED
  BY <1>1, <1>2

\* The cycles of a step keep the collection fresh.
LEMMA CollectedFresh ==
  ASSUME NEW r, NEW n \in Nat, clock \in Nat, generation \in Nat, Fresh(r, clock, generation)
  PROVE  Fresh(Collected(r, n), clock + n, generation)
<1>1. PICK f : Collection(f, r, n) /\ Collected(r, n) = f[n]
  BY CollectedValue
<1> DEFINE S == {k \in 0 .. n : ~Fresh(f[k], clock + k, generation)}
<1>2. S = {}
  <2>1. SUFFICES ASSUME S # {} PROVE FALSE
    OBVIOUS
  <2>2. PICK k \in S : \A y \in S : k <= y
    <3>1. S \in SUBSET Nat
      OBVIOUS
    <3> HIDE DEF S
    <3>2. QED
      BY <2>1, <3>1, Least
  <2>3. k \in 0 .. n /\ ~Fresh(f[k], clock + k, generation)
    BY <2>2
  <2>4. k # 0
    <3>1. f[0] = r /\ clock + 0 = clock
      BY <1>1 DEF Collection
    <3>2. QED
      BY <2>3, <3>1
  <2>5. k - 1 \in 0 .. n /\ k - 1 \notin S
    BY <2>2, <2>3, <2>4
  <2>6. Fresh(f[k - 1], clock + (k - 1), generation)
    BY <2>5
  <2>7. clock + k \in Nat \ {0} /\ clock + (k - 1) = (clock + k) - 1
    BY <2>3, <2>4
  <2>8. Fresh(Ticked(f[k - 1], clock + k, generation), clock + k, generation)
    BY <2>6, <2>7, TickFresh
  <2>9. f[k] = Ticked(f[k - 1], clock + k, generation)
    BY <1>1, <2>3, <2>4 DEF Collection
  <2>10. QED
    BY <2>3, <2>8, <2>9
<1>3. n \in 0 .. n
  OBVIOUS
<1>4. QED
  BY <1>1, <1>2, <1>3

---------------------------------------------------------------------------
(* The frames of the runtime.                                               *)

\* During a call the rows are of the machine that runs, up to the present
\* cycle. Between calls they are, if the machine is still the one that was last
\* seen, up to the cycle it was seen in.
RowsAreOfMachine ==
  /\ clock \in Nat /\ generation \in Nat
  /\ call \in [target : Nat, steps : Int] /\ (call # NoCall => call.target # 0)
  /\ raster \in Raster
  /\ seen \in [generation : Nat, clock : Nat] /\ seen.generation <= generation
  /\ ~Idle => seen.generation = generation /\ Fresh(raster, clock, generation)
  /\ Idle /\ seen.generation = generation =>
       seen.clock <= clock /\ Fresh(raster, seen.clock, generation)

LEMMA EmptyFresh ==
  ASSUME NEW r \in Raster, NEW c \in Nat, NEW g \in Nat, r.next = 0, ~r.ready
  PROVE  Fresh(r, c, g)
<1>1. 0 <= c \div FrameCycles
  BY Place
<1>2. \A row \in Rows : ~(row < 0)
  BY ScreenFacts
<1>3. QED
  BY <1>1, <1>2 DEF Fresh

\* A collection is abandoned.
LEMMA Abandoned ==
  ASSUME NEW r \in Raster, NEW e, e = [r EXCEPT !.next = 0, !.ready = FALSE]
  PROVE  e \in Raster /\ e.next = 0 /\ ~e.ready
<1>1. r.rows \in [Rows -> Nat \X Int] /\ DOMAIN r = {"rows", "next", "ready"}
  BY DEF Raster
<1>2. e = [rows |-> r.rows, next |-> 0, ready |-> FALSE]
  BY DEF Raster
<1>3. 0 \in 0 .. ScreenHeight
  BY ScreenFacts
<1>4. QED
  BY <1>1, <1>2, <1>3 DEF Raster

LEMMA RowsInit == FrameInit => RowsAreOfMachine
<1>1. SUFFICES ASSUME FrameInit PROVE RowsAreOfMachine
  OBVIOUS
<1>2. raster \in Raster /\ raster.next = 0 /\ ~raster.ready
  <2>1. NoRows.rows \in [Rows -> Nat \X Int]
    BY DEF NoRows, Blank
  <2>2. NoRows \in Raster /\ NoRows.next = 0 /\ ~NoRows.ready
    BY <2>1, ScreenFacts DEF NoRows, Raster
  <2>3. QED
    BY <1>1, <2>2 DEF FrameInit
<1>3. clock = 0 /\ generation = 0 /\ seen = [generation |-> 0, clock |-> 0] /\ call = NoCall
  BY <1>1 DEF FrameInit
<1>4. Fresh(raster, 0, 0)
  BY <1>2, EmptyFresh
<1>5. call \in [target : Nat, steps : Int]
  BY <1>3 DEF NoCall
<1>6. QED
  BY <1>2, <1>3, <1>4, <1>5 DEF RowsAreOfMachine, Idle

\* Cycles pass in a call.
LEMMA PassKeeps ==
  ASSUME RowsAreOfMachine, ~Idle, NEW n \in Nat, Pass(n),
         call' \in [target : Nat, steps : Int], call'.target = call.target
  PROVE  RowsAreOfMachine'
<1>1. /\ clock \in Nat /\ generation \in Nat /\ call.target # 0
      /\ seen.generation = generation /\ Fresh(raster, clock, generation)
  BY DEF RowsAreOfMachine, Idle
<1>2. Fresh(Collected(raster, n), clock + n, generation)
  BY <1>1, CollectedFresh
<1>3. /\ clock' = clock + n /\ raster' = Collected(raster, n)
      /\ generation' = generation /\ seen' = seen
  BY DEF Pass
<1>4. Fresh(raster', clock', generation') /\ raster' \in Raster
  BY <1>2, <1>3 DEF Fresh
<1>5. ~Idle' /\ call'.target # 0
  BY <1>1 DEF Idle, NoCall
<1>6. QED
  BY <1>1, <1>3, <1>4, <1>5 DEF RowsAreOfMachine

\* A call begins.
LEMMA BeginKeeps == RowsAreOfMachine /\ BeginFrame => RowsAreOfMachine'
<1>1. SUFFICES ASSUME RowsAreOfMachine, BeginFrame PROVE RowsAreOfMachine'
  OBVIOUS
<1>2. /\ clock \in Nat /\ generation \in Nat /\ raster \in Raster
      /\ seen \in [generation : Nat, clock : Nat]
  BY <1>1 DEF RowsAreOfMachine
<1>3. /\ clock' = clock /\ generation' = generation
      /\ raster' = IF Continues THEN raster ELSE [raster EXCEPT !.next = 0, !.ready = FALSE]
      /\ seen' = [seen EXCEPT !.generation = generation]
      /\ call' = [target |-> (clock \div FrameCycles + 1) * FrameCycles, steps |-> 0]
  BY <1>1 DEF BeginFrame, machineVars
<1>4. PICK m \in Nat : m = clock \div FrameCycles
  BY <1>2, Place
<1>5. (m + 1) * FrameCycles \in Nat /\ (m + 1) * FrameCycles # 0
  BY ScreenFacts
<1>6. call' \in [target : Nat, steps : Int] /\ call'.target # 0
  BY <1>3, <1>4, <1>5
<1>7. ~Idle'
  BY <1>6 DEF Idle, NoCall
<1>8. seen' \in [generation : Nat, clock : Nat] /\ seen'.generation = generation
  BY <1>2, <1>3
<1>9. Fresh(raster', clock, generation)
  <2>1. CASE Continues
    <3>1. seen.generation = generation /\ seen.clock = clock
      BY <2>1 DEF Continues
    <3>2. Idle
      BY <1>1 DEF BeginFrame
    <3>3. Fresh(raster, clock, generation)
      BY <1>1, <3>1, <3>2 DEF RowsAreOfMachine
    <3>4. QED
      BY <1>3, <2>1, <3>3
  <2>2. CASE ~Continues
    <3>1. raster' = [raster EXCEPT !.next = 0, !.ready = FALSE]
      BY <1>3, <2>2
    <3>2. raster' \in Raster /\ raster'.next = 0 /\ ~raster'.ready
      BY <1>2, <3>1, Abandoned
    <3>3. QED
      BY <1>2, <3>2, EmptyFresh
  <2>3. QED
    BY <2>1, <2>2
<1>10. raster' \in Raster
  BY <1>9 DEF Fresh
<1>11. QED
  BY <1>2, <1>3, <1>6, <1>7, <1>8, <1>9, <1>10 DEF RowsAreOfMachine

\* A call ends.
LEMMA EndKeeps ==
  ASSUME RowsAreOfMachine, ~Idle, NEW complete \in BOOLEAN, EndFrame(complete)
  PROVE  RowsAreOfMachine'
<1>1. /\ clock \in Nat /\ generation \in Nat /\ raster \in Raster
      /\ seen \in [generation : Nat, clock : Nat] /\ seen.generation = generation
      /\ Fresh(raster, clock, generation)
  BY DEF RowsAreOfMachine
<1>2. /\ clock' = clock /\ generation' = generation /\ call' = NoCall
      /\ seen' = [seen EXCEPT !.clock = clock]
      /\ raster' = IF complete /\ raster.ready THEN [raster EXCEPT !.next = 0, !.ready = FALSE]
                   ELSE raster
  BY DEF EndFrame, machineVars
<1>3. Fresh(raster', clock, generation) /\ raster' \in Raster
  <2>1. CASE complete /\ raster.ready
    <3>1. raster' = [raster EXCEPT !.next = 0, !.ready = FALSE]
      BY <1>2, <2>1
    <3>2. raster' \in Raster /\ raster'.next = 0 /\ ~raster'.ready
      BY <1>1, <3>1, Abandoned
    <3>3. QED
      BY <1>1, <3>2, EmptyFresh
  <2>2. CASE ~(complete /\ raster.ready)
    BY <1>1, <1>2, <2>2
  <2>3. QED
    BY <2>1, <2>2
<1>4. /\ seen' \in [generation : Nat, clock : Nat]
      /\ seen'.generation = generation /\ seen'.clock = clock
  BY <1>1, <1>2
<1>5. Idle' /\ call' \in [target : Nat, steps : Int]
  BY <1>2 DEF Idle, NoCall
<1>6. QED
  BY <1>1, <1>2, <1>3, <1>4, <1>5 DEF RowsAreOfMachine, Idle

\* The machine is replaced between calls.
LEMMA NewMachineKeeps ==
  ASSUME RowsAreOfMachine, NEW at \in Nat, NewMachine(at)
  PROVE  RowsAreOfMachine'
<1>1. /\ generation' = generation + 1 /\ clock' = at
      /\ call' = call /\ raster' = raster /\ seen' = seen /\ Idle /\ Idle'
  BY DEF NewMachine, Idle
<1>2. generation \in Nat /\ seen.generation \in Nat /\ seen.generation <= generation
  BY DEF RowsAreOfMachine
<1>3. generation' \in Nat /\ seen'.generation <= generation' /\ seen'.generation # generation'
  BY <1>1, <1>2
<1>4. QED
  BY <1>1, <1>3 DEF RowsAreOfMachine

LEMMA RowsKept == RowsAreOfMachine /\ [FrameNext]_frameVars => RowsAreOfMachine'
<1>1. SUFFICES ASSUME RowsAreOfMachine, [FrameNext]_frameVars PROVE RowsAreOfMachine'
  OBVIOUS
<1>2. /\ clock \in Nat /\ generation \in Nat
      /\ call \in [target : Nat, steps : Int] /\ (call # NoCall => call.target # 0)
  BY <1>1 DEF RowsAreOfMachine
<1>3. CASE BeginFrame
  BY <1>1, <1>3, BeginKeeps
<1>4. ASSUME NEW n \in 0 .. Longest, Executed(n) PROVE RowsAreOfMachine'
  <2>1. /\ ~Idle /\ Pass(n) /\ n \in Nat
        /\ call' = [call EXCEPT !.steps = (@ + 1) % CountLimit]
    BY <1>4, ScreenFacts DEF Executed, Stepping
  <2>2. (call.steps + 1) % CountLimit \in Int
    BY <1>2, ScreenFacts
  <2>3. call' \in [target : Nat, steps : Int] /\ call'.target = call.target
    BY <1>2, <2>1, <2>2
  <2>4. QED
    BY <1>1, <2>1, <2>3, PassKeeps
<1>5. ASSUME NEW n \in 1 .. Longest, Charged(n) PROVE RowsAreOfMachine'
  <2>1. ~Idle /\ Pass(n) /\ n \in Nat /\ call' = call
    BY <1>5, ScreenFacts DEF Charged, Stepping
  <2>2. QED
    BY <1>1, <1>2, <2>1, PassKeeps
<1>6. CASE Entered \/ ReturnRefused
  <2>1. /\ clock' = clock /\ generation' = generation /\ call' = call
        /\ raster' = raster /\ seen' = seen
    BY <1>6 DEF Entered, ReturnRefused
  <2>2. QED
    BY <1>1, <2>1 DEF RowsAreOfMachine, Idle
<1>7. CASE FinishFrame
  <2>1. ~Idle /\ EndFrame(clock >= call.target) /\ (clock >= call.target) \in BOOLEAN
    BY <1>7 DEF FinishFrame
  <2>2. QED
    BY <1>1, <2>1, EndKeeps
<1>8. CASE StopFrame
  BY <1>1, <1>8, EndKeeps DEF StopFrame, Stepping
<1>9. CASE Reset
  BY <1>1, <1>9, NewMachineKeeps DEF Reset
<1>10. ASSUME NEW accepted \in BOOLEAN, LoadRom(accepted) PROVE RowsAreOfMachine'
  BY <1>1, <1>10, NewMachineKeeps DEF LoadRom
<1>11. ASSUME NEW at \in 0 .. MaxClock, LoadState(at) PROVE RowsAreOfMachine'
  BY <1>1, <1>11, NewMachineKeeps DEF LoadState
<1>12. ASSUME NEW n \in 1 .. Longest, StepSession(n) PROVE RowsAreOfMachine'
  <2>1. /\ clock' = clock + n /\ n \in Nat /\ generation' = generation /\ call' = call
        /\ raster' = raster /\ seen' = seen /\ Idle
    BY <1>12, ScreenFacts DEF StepSession
  <2>2. clock' \in Nat /\ (seen.clock \in Nat /\ seen.clock <= clock => seen.clock <= clock')
    BY <1>2, <2>1
  <2>3. Idle' /\ (seen \in [generation : Nat, clock : Nat] => seen.clock \in Nat)
    BY <2>1 DEF Idle
  <2>4. QED
    BY <1>1, <2>1, <2>2, <2>3 DEF RowsAreOfMachine
<1>13. CASE UNCHANGED frameVars
  BY <1>1, <1>13 DEF frameVars, RowsAreOfMachine, Idle
<1>14. QED
  BY <1>1, <1>3, <1>4, <1>5, <1>6, <1>7, <1>8, <1>9, <1>10, <1>11, <1>12, <1>13
     DEF FrameNext, Advances

\* What a step publishes is one frame of the machine that runs, or blank.
LEMMA StepPublishesWhole ==
  ASSUME RowsAreOfMachine, FrameNext, picture' # picture
  PROVE  \/ picture' = NoRows.rows
         \/ \E frame \in 0 .. clock \div FrameCycles :
              \A row \in Rows : picture'[row] = <<generation, frame>>
<1>1. ASSUME NEW complete, EndFrame(complete), ~Idle
      PROVE  \E frame \in 0 .. clock \div FrameCycles :
               \A row \in Rows : picture'[row] = <<generation, frame>>
  <2>1. picture' = raster.rows /\ raster.ready
    BY <1>1 DEF EndFrame
  <2>2. clock \in Nat /\ Fresh(raster, clock, generation)
    BY <1>1 DEF RowsAreOfMachine
  <2>3. PICK F \in Nat :
          /\ F <= clock \div FrameCycles
          /\ \A row \in Rows : row < raster.next => raster.rows[row] = <<generation, F>>
          /\ raster.next = ScreenHeight
    BY <2>1, <2>2 DEF Fresh
  <2>4. F \in 0 .. clock \div FrameCycles
    BY <2>2, <2>3, Place
  <2>5. \A row \in Rows : raster.rows[row] = <<generation, F>>
    BY <2>3, ScreenFacts
  <2>6. QED
    BY <2>1, <2>4, <2>5
<1>2. CASE FinishFrame
  BY <1>1, <1>2 DEF FinishFrame
<1>3. CASE StopFrame
  BY <1>1, <1>3 DEF StopFrame, Stepping
<1>4. CASE Reset
  BY <1>4 DEF Reset
<1>5. CASE \E accepted \in BOOLEAN : LoadRom(accepted)
  BY <1>5 DEF LoadRom
<1>6. CASE BeginFrame
  BY <1>6 DEF BeginFrame
<1>7. CASE Advances
  BY <1>7 DEF Advances, Executed, Charged, Entered, ReturnRefused, Pass
<1>8. CASE \E at \in 0 .. MaxClock : LoadState(at)
  BY <1>8 DEF LoadState
<1>9. CASE \E n \in 1 .. Longest : StepSession(n)
  BY <1>9 DEF StepSession
<1>10. QED
  BY <1>2, <1>3, <1>4, <1>5, <1>6, <1>7, <1>8, <1>9 DEF FrameNext

\* Whatever the screen, the budget and the length of a step, and whatever the
\* host does between calls, a picture that AndroidRuntime publishes is one frame
\* of the machine that is running, or blank.
THEOREM PublishedIsWholeHolds == FrameSpec => PublishedIsWhole
<1>1. FrameInit => RowsAreOfMachine
  BY RowsInit
<1>2. RowsAreOfMachine /\ [FrameNext]_frameVars => RowsAreOfMachine'
  BY RowsKept
<1>3. RowsAreOfMachine /\ [FrameNext]_frameVars =>
        [picture' # picture =>
           \/ picture' = NoRows.rows
           \/ \E frame \in 0 .. clock \div FrameCycles :
                \A row \in Rows : picture'[row] = <<generation, frame>>]_frameVars
  BY StepPublishesWhole
<1>4. QED
  BY <1>1, <1>2, <1>3, PTL DEF FrameSpec, PublishedIsWhole

---------------------------------------------------------------------------
(* The layouts. Every field that is written has its name in the hash.       *)

Kinds ==
  {"u8", "u16", "u32", "u64", "bool", "fixed", "rom", "save", "text", "optional_u8", "optional_u16",
   "optional_u32", "saved_registers", "outer_frames", "work_frames"}
HashedItem == [field : Hashed \X Nat, kind : Kinds]
Covered(layout) == layout \in Seq(HashedItem)

LEMMA FieldsCovered ==
  ASSUME NEW kind \in Kinds, NEW names \in Seq(Hashed)
  PROVE  Covered(Fields(kind, names))
<1>1. DOMAIN names = 1 .. Len(names) /\ Len(names) \in Nat /\ \A i \in DOMAIN names : names[i] \in Hashed
  OBVIOUS
<1>2. \A i \in DOMAIN names : [field |-> <<names[i], 0>>, kind |-> kind] \in HashedItem
  BY <1>1 DEF HashedItem
<1>3. Fields(kind, names) \in [1 .. Len(names) -> HashedItem]
  BY <1>1, <1>2 DEF Fields
<1>4. QED
  BY <1>1, <1>3, SeqDef DEF Covered

LEMMA JoinCovered ==
  ASSUME NEW a, NEW b, Covered(a), Covered(b)
  PROVE  Covered(a \o b)
BY DEF Covered

LEMMA CopiesCovered ==
  ASSUME NEW layout, Covered(layout)
  PROVE  Covered(Copies(layout))
<1> DEFINE copy(n) == [i \in DOMAIN layout |-> [layout[i] EXCEPT !.field = <<layout[i].field[1], n>>]]
<1>1. ASSUME NEW n \in Nat PROVE Covered(copy(n))
  <2>1. DOMAIN layout = 1 .. Len(layout) /\ Len(layout) \in Nat
    BY DEF Covered
  <2>2. ASSUME NEW i \in DOMAIN layout
        PROVE  [layout[i] EXCEPT !.field = <<layout[i].field[1], n>>] \in HashedItem
    <3>1. PICK x \in HashedItem : x = layout[i]
      BY <2>1, <2>2 DEF Covered
    <3>2. x.field[1] \in Hashed
      BY DEF HashedItem
    <3>3. PICK y : y = <<x.field[1], n>>
      OBVIOUS
    <3>4. y \in Hashed \X Nat
      BY <3>2, <3>3
    <3>5. [x EXCEPT !.field = y] \in HashedItem
      BY <3>4 DEF HashedItem
    <3>6. QED
      BY <3>1, <3>3, <3>5
  <2>3. copy(n) \in [1 .. Len(layout) -> HashedItem]
    BY <2>1, <2>2
  <2>4. QED
    BY <2>1, <2>3, SeqDef DEF Covered
<1>2. Copies(layout) = copy(1) \o copy(2)
  BY DEF Copies
<1> HIDE DEF copy
<1>3. QED
  BY <1>1, <1>2, JoinCovered

LEMMA ArrayCovered ==
  ASSUME NEW kind \in Kinds, NEW name \in Hashed
  PROVE  Covered(Array(kind, name))
<1>1. <<name>> \in Seq(Hashed)
  OBVIOUS
<1>2. QED
  BY <1>1, FieldsCovered, CopiesCovered DEF Array

LEMMA CpuCovered == Covered(WriteCpu)
<1>1. /\ <<"elapsed">> \in Seq(Hashed)
      /\ <<"negative", "zero", "carry", "overflow", "irq_disabled", "fiq_disabled", "thumb_state">>
        \in Seq(Hashed)
      /\ <<"mode">> \in Seq(Hashed)
      /\ <<"user_sp", "user_lr", "fiq_sp", "fiq_lr", "irq_sp", "irq_lr", "supervisor_sp",
        "supervisor_lr", "abort_sp", "abort_lr", "undefined_sp", "undefined_lr", "fiq_spsr",
        "supervisor_spsr", "abort_spsr", "irq_spsr", "undefined_spsr">> \in Seq(Hashed)
  BY DEF Hashed, HashCpu
<1>2. /\ Covered(Fields("u64", <<"elapsed">>))
      /\ Covered(Fields("bool", <<"negative", "zero", "carry", "overflow", "irq_disabled",
        "fiq_disabled", "thumb_state">>))
      /\ Covered(Fields("u8", <<"mode">>))
      /\ Covered(Fields("u32", <<"user_sp", "user_lr", "fiq_sp", "fiq_lr", "irq_sp", "irq_lr",
        "supervisor_sp", "supervisor_lr", "abort_sp", "abort_lr", "undefined_sp", "undefined_lr",
        "fiq_spsr", "supervisor_spsr", "abort_spsr", "irq_spsr", "undefined_spsr">>))
  BY <1>1, FieldsCovered DEF Kinds
<1>3. /\ Covered(Array("u32", "register"))
      /\ Covered(Array("u32", "shared_r8_r12"))
      /\ Covered(Array("u32", "fiq_r8_r12"))
  BY ArrayCovered DEF Kinds, Hashed, HashCpu
<1>4. QED
  BY <1>2, <1>3, JoinCovered DEF WriteCpu

LEMMA MemoryCovered == Covered(WriteMemory)
<1>1. /\ <<"ewram", "iwram", "palette", "vram", "oam">> \in Seq(Hashed)
      /\ <<"game_pak_rom">> \in Seq(Hashed)
      /\ <<"game_pak_save">> \in Seq(Hashed)
      /\ <<"save_type", "flash_command_state">> \in Seq(Hashed)
      /\ <<"flash_id_mode">> \in Seq(Hashed)
      /\ <<"flash_bank">> \in Seq(Hashed)
      /\ <<"open_bus_latch">> \in Seq(Hashed)
      /\ <<"open_bus_latch_valid">> \in Seq(Hashed)
      /\ <<"mgba_debug_string">> \in Seq(Hashed)
      /\ <<"debug_output">> \in Seq(Hashed)
  BY DEF Hashed, HashMemory
<1>2. /\ Covered(Fields("fixed", <<"ewram", "iwram", "palette", "vram", "oam">>))
      /\ Covered(Fields("rom", <<"game_pak_rom">>))
      /\ Covered(Fields("save", <<"game_pak_save">>))
      /\ Covered(Fields("u8", <<"save_type", "flash_command_state">>))
      /\ Covered(Fields("bool", <<"flash_id_mode">>))
      /\ Covered(Fields("u8", <<"flash_bank">>))
      /\ Covered(Fields("u32", <<"open_bus_latch">>))
      /\ Covered(Fields("bool", <<"open_bus_latch_valid">>))
      /\ Covered(Fields("fixed", <<"mgba_debug_string">>))
      /\ Covered(Fields("text", <<"debug_output">>))
  BY <1>1, FieldsCovered DEF Kinds
<1>3. QED
  BY <1>2, JoinCovered DEF WriteMemory

LEMMA InterruptsCovered == Covered(WriteInterrupts)
<1>1. /\ <<"ie", "if">> \in Seq(Hashed)
      /\ <<"ime">> \in Seq(Hashed)
  BY DEF Hashed, HashInterrupts
<1>2. /\ Covered(Fields("u16", <<"ie", "if">>))
      /\ Covered(Fields("bool", <<"ime">>))
  BY <1>1, FieldsCovered DEF Kinds
<1>3. QED
  BY <1>2, JoinCovered DEF WriteInterrupts

LEMMA TimersCovered == Covered(WriteTimers)
<1>1. <<"cycle_counter">> \in Seq(Hashed)
  BY DEF Hashed, HashTimers
<1>2. Covered(Fields("u64", <<"cycle_counter">>))
  BY <1>1, FieldsCovered DEF Kinds
<1>3. Covered(Copies(Fields("u16", <<"counter", "reload", "timer_control">>) \o Fields("u64",
  <<"overflow_count">>) \o Fields("u32", <<"enable_delay">>) \o Fields("u16",
  <<"last_enable_phase">>) \o Fields("bool", <<"just_enabled">>)))
  <2>1. /\ <<"counter", "reload", "timer_control">> \in Seq(Hashed)
        /\ <<"overflow_count">> \in Seq(Hashed)
        /\ <<"enable_delay">> \in Seq(Hashed)
        /\ <<"last_enable_phase">> \in Seq(Hashed)
        /\ <<"just_enabled">> \in Seq(Hashed)
    BY DEF Hashed, HashTimers
  <2>2. /\ Covered(Fields("u16", <<"counter", "reload", "timer_control">>))
        /\ Covered(Fields("u64", <<"overflow_count">>))
        /\ Covered(Fields("u32", <<"enable_delay">>))
        /\ Covered(Fields("u16", <<"last_enable_phase">>))
        /\ Covered(Fields("bool", <<"just_enabled">>))
    BY <2>1, FieldsCovered DEF Kinds
  <2>3. QED
    BY <2>2, JoinCovered, CopiesCovered
<1>4. QED
  BY <1>2, <1>3, JoinCovered DEF WriteTimers

LEMMA DmaCovered == Covered(WriteDma)
<1>1. <<"immediate_pending">> \in Seq(Hashed)
  BY DEF Hashed, HashDma
<1>2. Covered(Fields("bool", <<"immediate_pending">>))
  BY <1>1, FieldsCovered DEF Kinds
<1>3. Covered(Copies(Fields("u32", <<"source", "destination">>) \o Fields("u16", <<"word_count",
  "dma_control">>) \o Fields("u32", <<"current_source", "current_destination", "current_count",
  "data_latch">>)))
  <2>1. /\ <<"source", "destination">> \in Seq(Hashed)
        /\ <<"word_count", "dma_control">> \in Seq(Hashed)
        /\ <<"current_source", "current_destination", "current_count", "data_latch">> \in
          Seq(Hashed)
    BY DEF Hashed, HashDma
  <2>2. /\ Covered(Fields("u32", <<"source", "destination">>))
        /\ Covered(Fields("u16", <<"word_count", "dma_control">>))
        /\ Covered(Fields("u32", <<"current_source", "current_destination", "current_count",
          "data_latch">>))
    BY <2>1, FieldsCovered DEF Kinds
  <2>3. QED
    BY <2>2, JoinCovered, CopiesCovered
<1>4. QED
  BY <1>2, <1>3, JoinCovered DEF WriteDma

LEMMA PpuCovered == Covered(WritePpu)
<1>1. <<"line", "line_cycle", "dispstat_control">> \in Seq(Hashed)
  BY DEF Hashed, HashPpu
<1>2. Covered(Fields("u16", <<"line", "line_cycle", "dispstat_control">>))
  BY <1>1, FieldsCovered DEF Kinds
<1>3. Covered(Array("u16", "lcd_control"))
  BY ArrayCovered DEF Kinds, Hashed, HashPpu
<1>4. QED
  BY <1>2, <1>3, JoinCovered DEF WritePpu

LEMMA ApuCovered == Covered(WriteApu)
<1>1. /\ <<"soundcnt_l", "soundcnt_h", "soundcnt_x", "soundbias">> \in Seq(Hashed)
      /\ <<"wave_bank_select">> \in Seq(Hashed)
      /\ <<"wave_enabled">> \in Seq(Hashed)
      /\ <<"volume_shift">> \in Seq(Hashed)
      /\ <<"wave_period", "wave_phase">> \in Seq(Hashed)
      /\ <<"noise_enabled">> \in Seq(Hashed)
      /\ <<"noise_volume">> \in Seq(Hashed)
      /\ <<"noise_period", "noise_phase", "lfsr">> \in Seq(Hashed)
      /\ <<"narrow">> \in Seq(Hashed)
      /\ <<"ring_head", "ring_size">> \in Seq(Hashed)
      /\ <<"frame_step_count", "audio_sample_count">> \in Seq(Hashed)
      /\ <<"frame_remainder", "audio_remainder">> \in Seq(Hashed)
      /\ <<"frame_step">> \in Seq(Hashed)
      /\ <<"mixed_left", "mixed_right">> \in Seq(Hashed)
  BY DEF Hashed, HashApu
<1>2. /\ Covered(Fields("u16", <<"soundcnt_l", "soundcnt_h", "soundcnt_x", "soundbias">>))
      /\ Covered(Fields("bool", <<"wave_bank_select">>))
      /\ Covered(Fields("bool", <<"wave_enabled">>))
      /\ Covered(Fields("u8", <<"volume_shift">>))
      /\ Covered(Fields("u16", <<"wave_period", "wave_phase">>))
      /\ Covered(Fields("bool", <<"noise_enabled">>))
      /\ Covered(Fields("u8", <<"noise_volume">>))
      /\ Covered(Fields("u16", <<"noise_period", "noise_phase", "lfsr">>))
      /\ Covered(Fields("bool", <<"narrow">>))
      /\ Covered(Fields("u32", <<"ring_head", "ring_size">>))
      /\ Covered(Fields("u64", <<"frame_step_count", "audio_sample_count">>))
      /\ Covered(Fields("u32", <<"frame_remainder", "audio_remainder">>))
      /\ Covered(Fields("u8", <<"frame_step">>))
      /\ Covered(Fields("u16", <<"mixed_left", "mixed_right">>))
  BY <1>1, FieldsCovered DEF Kinds
<1>3. /\ Covered(Array("u16", "wave_ram"))
      /\ Covered(Array("u8", "latched"))
  BY ArrayCovered DEF Kinds, Hashed, HashApu
<1>4. Covered(Copies(Fields("fixed", <<"fifo">>) \o Fields("u32", <<"fifo_head", "fifo_size">>)))
  <2>1. /\ <<"fifo">> \in Seq(Hashed)
        /\ <<"fifo_head", "fifo_size">> \in Seq(Hashed)
    BY DEF Hashed, HashApu
  <2>2. /\ Covered(Fields("fixed", <<"fifo">>))
        /\ Covered(Fields("u32", <<"fifo_head", "fifo_size">>))
    BY <2>1, FieldsCovered DEF Kinds
  <2>3. QED
    BY <2>2, JoinCovered, CopiesCovered
<1>5. Covered(Copies(Fields("bool", <<"square_enabled">>) \o Fields("u8", <<"duty",
  "square_volume">>) \o Fields("u16", <<"square_period", "square_phase">>)))
  <2>1. /\ <<"square_enabled">> \in Seq(Hashed)
        /\ <<"duty", "square_volume">> \in Seq(Hashed)
        /\ <<"square_period", "square_phase">> \in Seq(Hashed)
    BY DEF Hashed, HashApu
  <2>2. /\ Covered(Fields("bool", <<"square_enabled">>))
        /\ Covered(Fields("u8", <<"duty", "square_volume">>))
        /\ Covered(Fields("u16", <<"square_period", "square_phase">>))
    BY <2>1, FieldsCovered DEF Kinds
  <2>3. QED
    BY <2>2, JoinCovered, CopiesCovered
<1>6. Covered(Copies(Fields("u16", <<"ring_left", "ring_right">>)))
  <2>1. <<"ring_left", "ring_right">> \in Seq(Hashed)
    BY DEF Hashed, HashApu
  <2>2. Covered(Fields("u16", <<"ring_left", "ring_right">>))
    BY <2>1, FieldsCovered DEF Kinds
  <2>3. QED
    BY <2>2, JoinCovered, CopiesCovered
<1>7. QED
  BY <1>2, <1>3, <1>4, <1>5, <1>6, JoinCovered DEF WriteApu

LEMMA DevicesCovered == Covered(WriteDevices)
<1>1. /\ <<"pressed", "keycnt", "waitcnt">> \in Seq(Hashed)
      /\ <<"bios_mode">> \in Seq(Hashed)
  BY DEF Hashed, HashKeypad, HashWaitcnt
<1>2. /\ Covered(Fields("u16", <<"pressed", "keycnt", "waitcnt">>))
      /\ Covered(Fields("u8", <<"bios_mode">>))
  BY <1>1, FieldsCovered DEF Kinds
<1>3. QED
  BY <1>2, JoinCovered DEF WriteDevices

LEMMA IoCovered == Covered(WriteIo)
<1>1. /\ <<"sio_active">> \in Seq(Hashed)
      /\ <<"sio_remaining">> \in Seq(Hashed)
  BY DEF Hashed, HashIo
<1>2. /\ Covered(Fields("bool", <<"sio_active">>))
      /\ Covered(Fields("u32", <<"sio_remaining">>))
  BY <1>1, FieldsCovered DEF Kinds
<1>3. Covered(Array("u16", "serial"))
  BY ArrayCovered DEF Kinds, Hashed, HashIo
<1>4. QED
  BY <1>2, <1>3, JoinCovered DEF WriteIo

LEMMA SchedulerCovered == Covered(WriteScheduler)
<1>1. /\ <<"scheduler_cycles">> \in Seq(Hashed)
      /\ <<"halted">> \in Seq(Hashed)
      /\ <<"last_fetch_address">> \in Seq(Hashed)
      /\ <<"last_fetch_width", "last_fetch_window">> \in Seq(Hashed)
      /\ <<"prefetch_halfwords">> \in Seq(Hashed)
      /\ <<"suppress_prefetch", "recover_fetch", "suppress_bubble", "internal_load">> \in
        Seq(Hashed)
      /\ <<"last_waitcnt">> \in Seq(Hashed)
      /\ <<"return_lr">> \in Seq(Hashed)
      /\ <<"saved_registers">> \in Seq(Hashed)
      /\ <<"reentry", "return_latency", "post_return_armed", "post_return", "chained",
        "chained_data", "chained_spaced", "long_timer", "slow_timer0", "chain_active">> \in
        Seq(Hashed)
      /\ <<"spaced_count">> \in Seq(Hashed)
      /\ <<"auto_irq_line_high">> \in Seq(Hashed)
      /\ <<"auto_irq_latency">> \in Seq(Hashed)
      /\ <<"timer_io_gap", "misfetch_recovery">> \in Seq(Hashed)
      /\ <<"outer_frames">> \in Seq(Hashed)
      /\ <<"work_frames">> \in Seq(Hashed)
  BY DEF Hashed, HashScheduler
<1>2. /\ Covered(Fields("u64", <<"scheduler_cycles">>))
      /\ Covered(Fields("bool", <<"halted">>))
      /\ Covered(Fields("optional_u32", <<"last_fetch_address">>))
      /\ Covered(Fields("optional_u8", <<"last_fetch_width", "last_fetch_window">>))
      /\ Covered(Fields("u8", <<"prefetch_halfwords">>))
      /\ Covered(Fields("bool", <<"suppress_prefetch", "recover_fetch", "suppress_bubble",
        "internal_load">>))
      /\ Covered(Fields("optional_u16", <<"last_waitcnt">>))
      /\ Covered(Fields("optional_u32", <<"return_lr">>))
      /\ Covered(Fields("saved_registers", <<"saved_registers">>))
      /\ Covered(Fields("bool", <<"reentry", "return_latency", "post_return_armed", "post_return",
        "chained", "chained_data", "chained_spaced", "long_timer", "slow_timer0",
        "chain_active">>))
      /\ Covered(Fields("u8", <<"spaced_count">>))
      /\ Covered(Fields("bool", <<"auto_irq_line_high">>))
      /\ Covered(Fields("u8", <<"auto_irq_latency">>))
      /\ Covered(Fields("u32", <<"timer_io_gap", "misfetch_recovery">>))
      /\ Covered(Fields("outer_frames", <<"outer_frames">>))
      /\ Covered(Fields("work_frames", <<"work_frames">>))
  BY <1>1, FieldsCovered DEF Kinds
<1>3. QED
  BY <1>2, JoinCovered DEF WriteScheduler

LEMMA WrittenIsCovered == \A s \in DOMAIN Written : Covered(Written[s])
<1>1. DOMAIN Written = 1 .. 10
  BY DEF Written
<1>2. SUFFICES ASSUME NEW s \in 1 .. 10 PROVE Covered(Written[s])
  BY <1>1
<1>3. QED
  BY CpuCovered, MemoryCovered, InterruptsCovered, TimersCovered, DmaCovered, PpuCovered,
     ApuCovered, DevicesCovered, IoCovered, SchedulerCovered DEF Written

LEMMA EveryFieldIsHashed == \A f \in FieldNames : f[1] \in Hashed
<1>1. SUFFICES ASSUME NEW s \in DOMAIN Written, NEW i \in DOMAIN Written[s]
               PROVE  Written[s][i].field[1] \in Hashed
  BY DEF FieldNames
<1>2. PICK layout : layout = Written[s]
  OBVIOUS
<1>3. layout \in Seq(HashedItem)
  BY <1>2, WrittenIsCovered DEF Covered
<1>4. PICK x \in HashedItem : x = layout[i]
  BY <1>2, <1>3
<1>5. QED
  BY <1>2, <1>4 DEF HashedItem

---------------------------------------------------------------------------
(* The codec.                                                               *)

IsMachine(m) == m = [f \in FieldNames |-> m[f]]

LEMMA MachinesAreMachines == NewSession \in Machines /\ \A m \in Machines : IsMachine(m)
BY MachinesAssumption DEF IsMachine

\* The hash of the current version tells two machines apart.
LEMMA HashIsWhole ==
  ASSUME NEW m, NEW n, IsMachine(m), IsMachine(n), Hash(m, FALSE) = Hash(n, FALSE)
  PROVE  m = n
<1>1. DOMAIN m = FieldNames /\ DOMAIN n = FieldNames
  BY DEF IsMachine
<1> DEFINE values(x) == [f \in {g \in DOMAIN x : g[1] \in Hashed} |-> x[f]]
<1>2. Hash(m, FALSE).values = values(m) /\ Hash(n, FALSE).values = values(n)
  BY DEF Hash
<1>3. {g \in FieldNames : g[1] \in Hashed} = FieldNames
  BY EveryFieldIsHashed
<1>4. values(m) = [f \in FieldNames |-> m[f]] /\ values(n) = [f \in FieldNames |-> n[f]]
  BY <1>1, <1>3
<1>5. QED
  BY <1>2, <1>4 DEF IsMachine

\* The hash tells which of the two hashes it is.
LEMMA HashesDiffer ==
  ASSUME NEW m, NEW n, NEW a, NEW b, Hash(m, a) = Hash(n, b)
  PROVE  a = b
BY DEF Hash

LEMMA LoadedIsMachine ==
  ASSUME NEW layouts, NEW values
  PROVE  IsMachine(Loaded(Machine(layouts, values)))
<1>1. DOMAIN NewSession = FieldNames
  BY MachinesAreMachines DEF IsMachine
<1>2. PICK m : m = Machine(layouts, values)
  OBVIOUS
<1>3. m = [f \in FieldNames |-> m[f]]
  <2> DEFINE held == [s \in DOMAIN layouts |-> {layouts[s][i].field : i \in DOMAIN layouts[s]}]
             value(f) ==
               LET holding == {s \in DOMAIN layouts : f \in held[s]}
               IN IF holding = {} THEN <<>>
                  ELSE LET s == CHOOSE s \in holding : TRUE
                       IN values[s][CHOOSE i \in DOMAIN layouts[s] : layouts[s][i].field = f]
  <2>1. m = [f \in DOMAIN NewSession |-> value(f)]
    BY <1>2, Zenon DEF Machine
  <2> HIDE DEF value
  <2>2. QED
    BY <1>1, <2>1
<1>4. QED
  BY <1>2, <1>3 DEF Loaded, IsMachine

\* What is committed is a machine with the hash of the file.
LEMMA CommittedIsChecked ==
  ASSUME NEW f, Decoded(f).status = "ok"
  PROVE  /\ IsMachine(Decoded(f).machine)
         /\ Hash(Decoded(f).machine, f.version < 5) = f.hash
<1>1. PICK next : next = DecodedBody(f)
  OBVIOUS
<1>2. Decoded(f) = Gated(next, f)
  BY <1>1 DEF Decoded
<1>3. next.status = "ok" /\ Decoded(f) = next /\ Hash(next.machine, f.version < 5) = f.hash
  BY <1>2 DEF Gated, Rejected
<1>4. next = Built(Parse(f.body, Parsed(f.version)), Parsed(f.version), Len(f.body))
  BY <1>1, <1>3 DEF DecodedBody, Rejected
<1>5. PICK parsed, layouts, size : next = Built(parsed, layouts, size)
  BY <1>4
<1>6. PICK m : m = Machine(layouts, parsed.value)
  OBVIOUS
<1>7. next = Restored(m)
  BY <1>3, <1>5, <1>6 DEF Built, Rejected
<1>8. next.machine = Loaded(m)
  BY <1>3, <1>7 DEF Restored, Rejected
<1>9. QED
  BY <1>3, <1>6, <1>8, LoadedIsMachine

\* The file carries the hash of a machine the program was in, of the kind of
\* the version that wrote it, whatever was damaged.
FileIsOfMachine ==
  /\ "hash" \in DOMAIN file
  /\ \E m \in Machines : file.hash = Hash(m, origin.version < 5)
  /\ origin.intact => file.version = origin.version
  /\ origin.version \in Versions /\ origin.intact \in BOOLEAN

CodecInv == FileIsOfMachine /\ SessionIsGenuine

LEMMA CodecInvInit == CodecInit => CodecInv
<1> SUFFICES ASSUME CodecInit PROVE CodecInv
  OBVIOUS
<1>1. Version \in Versions
  BY DEF Version, Versions
<1>2. file.hash = Hash(NewSession, Version < 5) /\ file.version = Version /\ "hash" \in DOMAIN file
  BY DEF CodecInit, FileOf
<1>3. QED
  BY <1>1, <1>2, MachinesAreMachines DEF CodecInit, CodecInv, FileIsOfMachine, SessionIsGenuine

LEMMA EncodeStep ==
  ASSUME CodecInv, NEW version \in Versions, Encode(version)
  PROVE  CodecInv'
<1>1. file'.hash = Hash(session, version < 5) /\ file'.version = version /\ "hash" \in DOMAIN file'
  BY DEF Encode, FileOf
<1>2. QED
  BY <1>1 DEF Encode, CodecInv, FileIsOfMachine, SessionIsGenuine

LEMMA DamageStep ==
  ASSUME CodecInv, Damage
  PROVE  CodecInv'
<1>1. origin.intact /\ file.version = origin.version /\ file' \in Damages(file)
  BY DEF Damage, CodecInv, FileIsOfMachine
<1>2. origin'.version = origin.version /\ origin'.intact \in BOOLEAN /\ ~origin'.intact
  BY DEF Damage
<1>3. /\ "hash" \in DOMAIN file'
      /\ \E m \in Machines : file'.hash = Hash(m, origin.version < 5)
  <2>1. CASE \E b : file' = [file EXCEPT !.body = b]
    BY <1>1, <2>1 DEF CodecInv, FileIsOfMachine
  <2>2. CASE file' = [file EXCEPT !.whole = FALSE] \/ file' = [file EXCEPT !.magic = FALSE]
    BY <1>1, <2>2 DEF CodecInv, FileIsOfMachine
  <2>3. CASE \E v : file' = [file EXCEPT !.version = v]
    BY <1>1, <2>3 DEF CodecInv, FileIsOfMachine
  <2>4. CASE \E m \in Machines : file' = [file EXCEPT !.hash = Hash(m, file.version < 5)]
    BY <1>1, <2>4 DEF CodecInv, FileIsOfMachine
  <2>5. CASE file' \in ByteDamages(file)
    <3>1. PICK i \in DOMAIN file.body, d \in ByteErrors :
            file' = [file EXCEPT !.body[i] = (@ + d) % Base]
      BY <2>5 DEF ByteDamages
    <3>2. PICK b : b = [file.body EXCEPT ![i] = (@ + d) % Base]
      OBVIOUS
    <3>3. file' = [file EXCEPT !.body = b]
      BY <3>1, <3>2
    <3>4. QED
      BY <2>1, <3>3
  <2>6. CASE file' \in EndDamages(file)
    BY <2>1, <2>6 DEF EndDamages
  <2>7. CASE file' \in HeaderDamages(file)
    BY <2>2, <2>3, <2>4, <2>7 DEF HeaderDamages
  <2>8. QED
    BY <1>1, <2>5, <2>6, <2>7 DEF Damages
<1>4. QED
  BY <1>2, <1>3 DEF Damage, CodecInv, FileIsOfMachine, SessionIsGenuine

LEMMA DecodeStep ==
  ASSUME CodecInv, DecodeInto
  PROVE  CodecInv'
<1>1. CASE Decoded(file).status # "ok"
  BY <1>1 DEF DecodeInto, Committed, CodecInv, FileIsOfMachine, SessionIsGenuine
<1>2. CASE Decoded(file).status = "ok"
  <2>1. session' = Decoded(file).machine
    BY <1>2 DEF DecodeInto, Committed
  <2>2. IsMachine(session') /\ Hash(session', file.version < 5) = file.hash
    BY <1>2, <2>1, CommittedIsChecked
  <2>3. PICK m \in Machines : file.hash = Hash(m, origin.version < 5)
    BY DEF CodecInv, FileIsOfMachine
  <2>4. Hash(session', origin.version < 5) = Hash(m, origin.version < 5)
    BY <2>2, <2>3, HashesDiffer
  <2>5. CASE origin.version < 5
    BY <2>4, <2>5 DEF DecodeInto, CodecInv, FileIsOfMachine, SessionIsGenuine
  <2>6. CASE ~(origin.version < 5)
    <3>1. (origin.version < 5) = FALSE
      BY <2>6 DEF CodecInv, FileIsOfMachine, Versions, Version
    <3>2. Hash(session', FALSE) = Hash(m, FALSE)
      BY <2>4, <3>1
    <3>3. session' = m
      BY <2>2, <3>2, HashIsWhole, MachinesAreMachines
    <3>4. QED
      BY <3>3 DEF DecodeInto, CodecInv, FileIsOfMachine, SessionIsGenuine
  <2>7. QED
    BY <2>5, <2>6
<1>3. QED
  BY <1>1, <1>2

LEMMA CodecInvStep == CodecInv /\ [CodecNext]_codecVars => CodecInv'
<1> SUFFICES ASSUME CodecInv, [CodecNext]_codecVars PROVE CodecInv'
  OBVIOUS
<1>1. CASE \E version \in Versions : Encode(version)
  BY <1>1, EncodeStep
<1>2. CASE \E m \in Machines : Play(m)
  BY <1>2 DEF Play, CodecInv, FileIsOfMachine, SessionIsGenuine
<1>3. CASE Damage
  BY <1>3, DamageStep
<1>4. CASE DecodeInto
  BY <1>4, DecodeStep
<1>5. CASE UNCHANGED codecVars
  BY <1>5 DEF codecVars, CodecInv, FileIsOfMachine, SessionIsGenuine
<1>6. QED
  BY <1>1, <1>2, <1>3, <1>4, <1>5 DEF CodecNext

\* Whatever machines there are and whatever storage does to a file, a load
\* commits one of the machines the program was in, or leaves the session alone;
\* only a file from before version 5 may change what its hash ignored.
THEOREM SessionStaysGenuine == CodecSpec => []SessionIsGenuine
<1>1. CodecInv => SessionIsGenuine
  BY DEF CodecInv
<1>2. QED
  BY CodecInvInit, CodecInvStep, <1>1, PTL DEF CodecSpec
=============================================================================
