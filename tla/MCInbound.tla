----------------------------- MODULE MCInbound -----------------------------
(* Inbound for model checking: a customer who may write anything, one whose number is a    *)
(* saved contact, one on the exclusion list, and a ChatHub conversation.                    *)
EXTENDS Inbound, TLC

CONSTANTS customer, contact, excluded, chat

Numbers == {customer, contact, excluded}

Write(p, body) ==
  [channel |-> "wa", upsert |-> TRUE, fromMe |-> "no", place |-> "person", mapped |-> TRUE,
   sender |-> p, body |-> body]

Turn(token, photo, text) ==
  [channel |-> "chathub", authorised |-> TRUE, known |-> TRUE, sender |-> chat,
   token |-> token, photo |-> photo, text |-> text]

\* What the webhook has to skip: our own messages, groups, receipts, foreign instances.
Noise ==
  { [Write(customer, "plain") EXCEPT !.fromMe = "absent"],
    [Write(customer, "plain") EXCEPT !.place = "group"],
    [Write(customer, "plain") EXCEPT !.upsert = FALSE],
    [Write(customer, "plain") EXCEPT !.mapped = FALSE],
    Write(excluded, "plain") }

ChatHubTurns ==
  { Turn("none", TRUE, FALSE), Turn("good", TRUE, TRUE), Turn("stale", FALSE, TRUE),
    [Turn("none", FALSE, TRUE) EXCEPT !.authorised = FALSE] }

Everything ==
  {Write(customer, b) : b \in Body} \cup {Write(contact, "plain")} \cup Noise \cup ChatHubTurns

Leads == {Write(customer, b) : b \in {"plain", "trigger", "reset"}}

Symmetry == Permutations(Job)

=============================================================================
