--------------------------- MODULE ResponseGuard ---------------------------
(***************************************************************************)
(* The guard every assistant message passes before it is stored and shown: *)
(* it drops the sentences that ask for data already given or already asked *)
(* for in the two previous assistant messages.  A message is the set of    *)
(* its sentences; a sentence is told apart by the contact fields its words *)
(* match.                                                                  *)
(***************************************************************************)

CONSTANTS
  Field,      \* the contact fields the patterns look for
  Sentence,   \* the sentences of the catalogue and of generated replies
  Asks        \* Asks[s]: the fields whose pattern matches the sentence

ASSUME GuardAssumption == Asks \in [Sentence -> SUBSET Field]

Message == SUBSET Sentence

detect_fields(m) == UNION {Asks[s] : s \in m}

\* A guard that strips everything gives the message back.
strip_sentences(m, fields) ==
  LET kept == {s \in m : Asks[s] \cap fields = {}} IN
  IF kept = {} THEN m ELSE kept

guard_response(m, collected, asked) ==
  strip_sentences(m, detect_fields(m) \cap (collected \cup asked))

=============================================================================
