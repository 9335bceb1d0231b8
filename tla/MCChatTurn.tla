---------------------------- MODULE MCChatTurn ----------------------------
(* ChatTurn for model checking: turns and conversations are interchangeable. *)
EXTENDS ChatTurn, TLC

TurnSymmetry == Permutations(Turn)

Symmetry == Permutations(Conv) \cup Permutations(Turn)

=============================================================================
