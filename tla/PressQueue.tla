----------------------------- MODULE PressQueue -----------------------------
(* What the buttons promise to the safety task: every press that is accepted *)
(* is handled once, in the order of the presses, and nothing else is.        *)
EXTENDS Sequences

CONSTANT Presses

VARIABLES waiting, taken        \* taken: <<p>> while press p is handled

Press(p) ==
  /\ waiting' = Append(waiting, p)
  /\ UNCHANGED taken

Take ==
  /\ waiting # <<>>
  /\ taken = <<>>
  /\ taken' = <<Head(waiting)>>
  /\ waiting' = Tail(waiting)

Handled ==
  /\ taken # <<>>
  /\ taken' = <<>>
  /\ UNCHANGED waiting

QueueInit == waiting = <<>> /\ taken = <<>>

QueueNext == (\E p \in Presses : Press(p)) \/ Take \/ Handled

QueueSpec == QueueInit /\ [][QueueNext]_<<waiting, taken>>
=============================================================================
