----------------------------- MODULE MessageLog -----------------------------
(***************************************************************************)
(* What the conversation store promises: per conversation a log of         *)
(* messages that only ever grows at its end.                               *)
(***************************************************************************)
EXTENDS Sequences, SequencesExt

CONSTANTS Conversation, Entry

VARIABLE log

Init == log = [c \in Conversation |-> <<>>]

\* The log of one conversation grows by the entries that were not yet in it.
Extend(c) ==
  /\ log'[c] \in Seq(Entry)
  /\ IsStrictPrefix(log[c], log'[c])
  /\ log' = [log EXCEPT ![c] = log'[c]]

Next == \E c \in Conversation : Extend(c)

Spec == Init /\ [][Next]_log

=============================================================================
