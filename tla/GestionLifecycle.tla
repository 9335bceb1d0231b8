------------------------- MODULE GestionLifecycle -------------------------
(***************************************************************************)
(* What gestion tracking promises about the snapshot table: a conversation *)
(* is open until it receives a verdict, it receives exactly one, and a     *)
(* closed conversation never changes its verdict ("first close wins",      *)
(* shared/persistence/persistence.py and gestion_sweep.py).                *)
(***************************************************************************)

CONSTANTS Conversation, FinalVerdict, Open

VARIABLE verdict   \* verdict[c] = Open until c is closed

TypeOK == verdict \in [Conversation -> FinalVerdict \cup {Open}]

Init == verdict = [c \in Conversation |-> Open]

\* One statement may close several open conversations (the sweep's UPDATE does).
Close(S) ==
  /\ \A c \in S : verdict[c] = Open
  /\ verdict' \in [Conversation -> FinalVerdict \cup {Open}]
  /\ \A c \in Conversation :
       IF c \in S THEN verdict'[c] \in FinalVerdict ELSE verdict'[c] = verdict[c]

Next == \E S \in SUBSET Conversation : Close(S)

Spec == Init /\ [][Next]_verdict

=============================================================================
