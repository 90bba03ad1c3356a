------------------------------ MODULE MCTimers ------------------------------
(* Timers that wrap at 2 instead of 0x10000, with prescalers 1 and 2: *)
(* a free-running timer, a prescaled one and two levels of cascade.         *)
EXTENDS TimersLoop

MCDivisors == [p \in {0, 1} |-> IF p = 0 THEN 1 ELSE 2]

Word(enable, irq, countUp, prescaler) ==
  [enable |-> enable, irq |-> irq, countUp |-> countUp, prescaler |-> prescaler]

MCControls == {Word(FALSE, FALSE, FALSE, 0), Word(TRUE, TRUE, FALSE, 0),
               Word(TRUE, FALSE, FALSE, 1), Word(TRUE, TRUE, TRUE, 0)}
=============================================================================
