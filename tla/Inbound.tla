------------------------------ MODULE Inbound ------------------------------
(***************************************************************************)
(* The two inbound WhatsApp channels: the Evolution webhook, which filters *)
(* what it is sent and hands the rest to a background task, and ChatHub's  *)
(* /{bot_path}/chat, which answers in its response.  Every delivery is a   *)
(* job; all jobs share one event loop and one conversation store, and      *)
(* every `await` (contact lookup, database, language model, Evolution      *)
(* call) ends a step.  The provider may deliver an event again: a          *)
(* redelivery is one more job with the same event, since no message id is  *)
(* ever compared.                                                          *)
(*                                                                         *)
(* A history is the set of its entries: what is decided from it here is    *)
(* only whether it is empty.  A conversation object is named after the job *)
(* that created it.  The language model's turn is one step; Dialogue and   *)
(* Gestion look inside it.                                                 *)
(***************************************************************************)
EXTENDS Naturals, FiniteSets

CONSTANTS
  Job,         \* deliveries (bounds their number)
  Phone,       \* WhatsApp numbers that write to a tenant's instance
  Chat,        \* ChatHub conversation ids
  None,
  Inbox,       \* the events that may be delivered
  Excluded,    \* the tenant's excluded_phones
  Contacts,    \* numbers saved in the address book of the instance
  LeadsOnly,   \* numbers writing to an instance in mode "website_leads_only"
  DailyLimit,  \* daily_message_limit
  Faults       \* may database reads and writes fail, or never return?

-----------------------------------------------------------------------------
(* Deliveries. *)

\* The chat an event happened in: a number, or something the webhook skips.
Place == {"person", "group", "broadcast", "malformed"}

Body == {"plain", "trigger", "empty", "media", "reset", "menu"}

WaEvent ==
  [channel : {"wa"}, upsert : BOOLEAN, fromMe : {"yes", "no", "absent"}, place : Place,
   mapped : BOOLEAN, sender : Phone, body : Body]

ChatHubEvent ==
  [channel : {"chathub"}, authorised : BOOLEAN, known : BOOLEAN, sender : Chat,
   token : {"none", "stale", "good"}, photo : BOOLEAN, text : BOOLEAN]

Event == WaEvent \cup ChatHubEvent

ASSUME InboundAssumption ==
  /\ None \notin Job \cup Phone \cup Chat \cup Event
  /\ Inbox \subseteq Event
  /\ Phone \cap Chat = {}
  /\ Excluded \subseteq Phone /\ Contacts \subseteq Phone
  /\ LeadsOnly \subseteq Phone
  /\ Faults \in BOOLEAN
  /\ DailyLimit \in Nat

Conversation == Phone \cup Chat

\* Mutant: the conversation is the tenant's instance, whoever writes.
ConversationOf_instance(e) ==
  IF e \in WaEvent THEN CHOOSE p \in Phone : TRUE ELSE e.sender

\* f"wa-{tenant_id}-{phone}", f"chathub-{tenant_id}-{chathub_conversation_id}"
ConversationOf(e) == e.sender

-----------------------------------------------------------------------------

VARIABLES
  job,      \* the deliveries, each with the locals of its handler or task
  cache,    \* StateStore._conversations
  object,   \* the ConversationState objects
  stored,   \* the history column of the conversations table
  visitor,  \* the rows of the visitors table
  shown,    \* how often the answer to a delivery reached the customer's screen
  photos    \* deliveries whose voucher photo is in the register

vars == <<job, cache, object, stored, visitor, shown, photos>>

Entry == [role : {"user", "assistant"}, job : Job]

User(j) == [role |-> "user", job |-> j]

Assistant(j) == [role |-> "assistant", job |-> j]

PC == {"idle", "arrived", "contact", "load", "limit", "saveUser", "visitor", "model", "saveReply",
       "count", "send", "extras", "canned", "done", "hung", "lost"}

\* What a delivery was answered with.
Answer == {"media", "menu", "reset", "fallback", "limit", "engine"}

\* What an opened conversation is wanted for.
Purpose == {"reset", "leads", "turn"}

JobState ==
  [pc : PC, event : Inbox \cup {None}, conv : Conversation \cup {None},
   want : Purpose \cup {None}, object : Job \cup {None}, payload : SUBSET Entry,
   answer : Answer \cup {None}]

Object == [conv : Conversation \cup {None}, history : SUBSET Entry, verified : BOOLEAN]

Visitor == [known : BOOLEAN, count : Nat]

Idle == [pc |-> "idle", event |-> None, conv |-> None, want |-> None,
         object |-> None, payload |-> {}, answer |-> None]

NoObject == [conv |-> None, history |-> {}, verified |-> FALSE]

Init ==
  /\ job = [j \in Job |-> Idle]
  /\ cache = [c \in Conversation |-> None]
  /\ object = [j \in Job |-> NoObject]
  /\ stored = [c \in Conversation |-> {}]
  /\ visitor = [p \in Phone |-> [known |-> FALSE, count |-> 0]]
  /\ shown = [j \in Job |-> 0]
  /\ photos = {}

At(j, pc) == job[j].pc = pc

EventOf(j) == job[j].event

ObjectOf(j) == object[job[j].object]

Goto(j, pc) == job' = [job EXCEPT ![j].pc = pc]

\* The handler or task goes no further: its locals are gone.
Ended(j, pc) == [Idle EXCEPT !.pc = pc, !.event = job[j].event, !.conv = job[j].conv]

Finished(j, answer) == [Ended(j, "done") EXCEPT !.answer = answer]

Finish(j, answer) == job' = [job EXCEPT ![j] = Finished(j, answer)]

\* A canned text: sent, and nothing looks at whether it arrived.
Say(j, answer) == job' = [job EXCEPT ![j].pc = "canned", ![j].answer = answer]

StoreUnchanged == UNCHANGED <<cache, object, stored>>

-----------------------------------------------------------------------------
(* The webhook, up to its first await. *)

\* Mutant: fromMe defaults to False.
Own_if_said(e) == e.fromMe = "yes"

\* key.get("fromMe", True): an event that does not say is taken for our own.
Own(e) == e.fromMe # "no"

Ignored(e) ==
  \/ ~e.upsert
  \/ Own(e)
  \/ e.place # "person"
  \/ ~e.mapped
  \/ e.sender \in Excluded

Delivery(j, e, pc) ==
  /\ At(j, "idle")
  /\ job' = [job EXCEPT ![j] =
               [Idle EXCEPT !.pc = pc, !.event = e, !.conv = ConversationOf(e)]]
  /\ StoreUnchanged
  /\ UNCHANGED <<visitor, shown, photos>>

WebhookIgnores(j) ==
  \E e \in Inbox : e \in WaEvent /\ Ignored(e) /\ Delivery(j, e, "done")

WebhookAdmits(j) ==
  \E e \in Inbox : e \in WaEvent /\ ~Ignored(e) /\ Delivery(j, e, "contact")

-----------------------------------------------------------------------------
(* get_or_create_async, and what each caller does with the conversation between two  *)
(* awaits.  `o` is the conversation's object, `objs` the objects with it among them. *)

\* /nuevo empties the object's history.  Nothing is saved and the identity stays.
Reset(j, o, objs) ==
  /\ object' = [objs EXCEPT ![o].history = {}]
  /\ Say(j, "reset")

\* Mutant: a conversation the store already holds in memory is not new.
NewConversation_uncached(c, h) == h = {} /\ cache[c] = None

NewConversation(c, h) == h = {}

\* The leads filter: a new conversation has to open with a trigger phrase.
FilterLead(j, o, objs) ==
  /\ object' = objs
  /\ IF NewConversation(job[j].conv, objs[o].history) /\ EventOf(j).body # "trigger"
       THEN Say(j, "fallback")
       ELSE Goto(j, "limit")

\* add_user_message appends and hands a copy of the history to the database.
AddUser(j, o, objs) ==
  /\ object' = [objs EXCEPT ![o].history = @ \cup {User(j)}]
  /\ job' = [job EXCEPT ![j].pc = "saveUser", ![j].object = o,
                        ![j].payload = objs[o].history \cup {User(j)}]

With(j, want, o, objs) ==
  \/ want = "reset" /\ Reset(j, o, objs)
  \/ want = "leads" /\ FilterLead(j, o, objs)
  \/ want = "turn" /\ AddUser(j, o, objs)

\* A conversation in the store's memory costs no await; for another, the row is read first.
Opening(j, want) ==
  LET c == job[j].conv IN
  \/ cache[c] # None /\ With(j, want, cache[c], object)
  \/ /\ cache[c] = None
     /\ job' = [job EXCEPT ![j].pc = "load", ![j].want = want]
     /\ UNCHANGED object

\* The row was read, or could not be and the conversation starts fresh.
Rows(c) == {stored[c]} \cup (IF Faults THEN {{}} ELSE {})

\* The object made from the row replaces whatever another job has cached meanwhile.
Load(j) ==
  LET c == job[j].conv IN
  /\ At(j, "load")
  /\ \E h \in Rows(c) :
       With(j, job[j].want, j,
            [object EXCEPT ![j] = [conv |-> c, history |-> h, verified |-> FALSE]])
  /\ cache' = [cache EXCEPT ![c] = j]
  /\ UNCHANGED <<stored, visitor, shown, photos>>

-----------------------------------------------------------------------------
(* The webhook after the contact lookup. *)

\* What the contact lookup may answer: a failure is a no.
is_saved_contact(e) == IF e.sender \in Contacts THEN BOOLEAN ELSE {FALSE}

\* A saved contact is left alone; for others, the body decides.
ContactChecked(j) ==
  LET e == EventOf(j) IN
  /\ At(j, "contact")
  /\ \/ TRUE \in is_saved_contact(e) /\ Finish(j, None) /\ UNCHANGED object
     \/ e.body = "empty" /\ Finish(j, None) /\ UNCHANGED object
     \/ e.body \in {"media", "menu"} /\ Say(j, e.body) /\ UNCHANGED object
     \/ e.body = "reset" /\ Opening(j, "reset")
     \/ e.body \in {"plain", "trigger"} /\ e.sender \in LeadsOnly /\ Opening(j, "leads")
     \/ /\ e.body \in {"plain", "trigger"} /\ e.sender \notin LeadsOnly
        /\ Goto(j, "limit") /\ UNCHANGED object
  /\ UNCHANGED <<cache, stored, visitor, shown, photos>>

\* send_text has returned, whatever it returned.
Said(j) ==
  /\ At(j, "canned")
  /\ Finish(j, job[j].answer)
  /\ StoreUnchanged
  /\ UNCHANGED <<visitor, shown, photos>>

-----------------------------------------------------------------------------
(* _process_whatsapp_message, up to the language model. *)

\* check_daily_limit; a number without a row, and a failing check, are let through.
LimitAllows(p) == visitor[p].known => visitor[p].count < DailyLimit

RefusedByLimit(j) ==
  /\ At(j, "limit")
  /\ ~LimitAllows(EventOf(j).sender)
  /\ Say(j, "limit")
  /\ StoreUnchanged
  /\ UNCHANGED <<visitor, shown, photos>>

PassesLimit(j) ==
  /\ At(j, "limit")
  /\ LimitAllows(EventOf(j).sender) \/ Faults
  /\ Opening(j, "turn")
  /\ UNCHANGED <<cache, stored, visitor, shown, photos>>

\* save_conversation writes the copy it was given; a failing write is only logged.
Written(j) ==
  \/ stored' = [stored EXCEPT ![job[j].conv] = job[j].payload]
  \/ Faults /\ UNCHANGED stored

WhatsAppUserSaved(j) ==
  /\ At(j, "saveUser") /\ EventOf(j) \in WaEvent
  /\ Written(j)
  /\ Goto(j, "visitor")
  /\ UNCHANGED <<cache, object, visitor, shown, photos>>

\* upsert_visitor: the number has a row from now on.
Known(j) ==
  \/ visitor' = [visitor EXCEPT ![EventOf(j).sender].known = TRUE]
  \/ Faults /\ UNCHANGED visitor

\* get_visitor, and upsert_visitor for a number seen for the first time.
GreetVisitor(j) ==
  /\ At(j, "visitor")
  /\ Known(j)
  /\ Goto(j, "model")
  /\ StoreUnchanged
  /\ UNCHANGED <<shown, photos>>

-----------------------------------------------------------------------------
(* ChatHub. *)

\* check_auth and resolve_tenant: a 401 or a 404.
ChatHubRefuses(j) ==
  \E e \in Inbox : e \in ChatHubEvent /\ ~(e.authorised /\ e.known) /\ Delivery(j, e, "done")

ChatHubAdmits(j) ==
  \E e \in Inbox : e \in ChatHubEvent /\ e.authorised /\ e.known /\ Delivery(j, e, "arrived")

ChatHubOpens(j) ==
  /\ At(j, "arrived")
  /\ Opening(j, "turn")
  /\ UNCHANGED <<cache, stored, visitor, shown, photos>>

\* resolve_token is asked for the raw and the bare token until the conversation is verified.
Proven(j) == ObjectOf(j).verified \/ EventOf(j).token = "good"

\* add_assistant_message on an object whose identity may just have been proven.
Reply(j, verified) ==
  LET h == ObjectOf(j).history \cup {Assistant(j)} IN
  /\ object' = [object EXCEPT ![job[j].object] = [@ EXCEPT !.history = h, !.verified = verified]]
  /\ job' = [job EXCEPT ![j].pc = "saveReply", ![j].payload = h]

\* A voucher photo is registered for an identified debtor, if the register can be written.
Photographed(j) ==
  \/ /\ EventOf(j).photo /\ Proven(j)
     /\ photos' = photos \cup {j}
  \/ ~(EventOf(j).photo /\ Proven(j)) /\ UNCHANGED photos
  \/ Faults /\ UNCHANGED photos

\* After the save: the token, the photo, and a photo without text is answered at once,
\* with the receipt or with the question for the DNI.
ChatHubUserSaved(j) ==
  /\ At(j, "saveUser") /\ EventOf(j) \in ChatHubEvent
  /\ Written(j)
  /\ Photographed(j)
  /\ IF EventOf(j).photo /\ ~EventOf(j).text
       THEN Reply(j, Proven(j))
       ELSE /\ Goto(j, "model")
            /\ object' = [object EXCEPT ![job[j].object].verified = Proven(j)]
  /\ UNCHANGED <<cache, visitor, shown>>

-----------------------------------------------------------------------------
(* The language model's turn and the answer, on both channels. *)

\* Mutant: what the engine raises ends the task.
Answers_uncaught(j) ==
  /\ At(j, "model")
  /\ \/ \E proven \in BOOLEAN : Reply(j, ObjectOf(j).verified \/ proven)
     \/ Finish(j, None) /\ UNCHANGED object
  /\ UNCHANGED <<cache, stored, visitor, shown, photos>>

\* process_message answers, perhaps after identificar_cliente; an exception becomes an
\* apology, so there always is an answer.
Answers(j) ==
  /\ At(j, "model")
  /\ \E proven \in BOOLEAN : Reply(j, ObjectOf(j).verified \/ proven)
  /\ UNCHANGED <<cache, stored, visitor, shown, photos>>

WhatsAppReplySaved(j) ==
  /\ At(j, "saveReply") /\ EventOf(j) \in WaEvent
  /\ Written(j)
  /\ Goto(j, "count")
  /\ UNCHANGED <<cache, object, visitor, shown, photos>>

\* increment_daily_count updates the number's row, if there is one.
Counted(j) ==
  LET p == EventOf(j).sender IN
  \/ visitor' = IF visitor[p].known THEN [visitor EXCEPT ![p].count = @ + 1] ELSE visitor
  \/ Faults /\ UNCHANGED visitor

Count(j) ==
  /\ At(j, "count")
  /\ Counted(j)
  /\ Goto(j, "send")
  /\ StoreUnchanged
  /\ UNCHANGED <<shown, photos>>

\* send_text posts once.  A refused post shows nothing, a timed out one may have shown the
\* text, and nobody looks at the result.
Sends(j) ==
  /\ At(j, "send")
  /\ \E n \in {0, 1} : shown' = [shown EXCEPT ![j] = @ + n]
  /\ Goto(j, "extras")
  /\ StoreUnchanged
  /\ UNCHANGED <<visitor, photos>>

\* send_formatted and upsert_debtor, which change nothing here, and upsert_visitor.
WrapUp(j) ==
  /\ At(j, "extras")
  /\ Known(j)
  /\ Finish(j, "engine")
  /\ StoreUnchanged
  /\ UNCHANGED <<shown, photos>>

\* ChatHub has the answer in the response, unless it has hung up.
ChatHubResponds(j) ==
  /\ At(j, "saveReply") /\ EventOf(j) \in ChatHubEvent
  /\ Written(j)
  /\ \E n \in {0, 1} : shown' = [shown EXCEPT ![j] = @ + n]
  /\ Finish(j, "engine")
  /\ UNCHANGED <<cache, object, visitor, photos>>

-----------------------------------------------------------------------------
(* The environment. *)

NewDay ==
  /\ \E p \in Phone : visitor[p].count > 0
  /\ visitor' = [p \in Phone |-> [visitor[p] EXCEPT !.count = 0]]
  /\ StoreUnchanged
  /\ UNCHANGED <<job, shown, photos>>

InFlight(j) == job[j].pc \notin {"idle", "done", "lost"}

\* A redeploy: the store's memory and every handler and task are gone, also the tasks
\* whose webhook has already been answered "queued".
Restart ==
  /\ cache # [c \in Conversation |-> None]
  /\ cache' = [c \in Conversation |-> None]
  /\ object' = [j \in Job |-> NoObject]
  /\ job' = [j \in Job |->
               IF InFlight(j) THEN Ended(j, "lost") ELSE job[j]]
  /\ UNCHANGED <<stored, visitor, shown, photos>>

\* What the statement a job waits for may have done to the database.
Statement(j) ==
  \/ job[j].pc \in {"load", "limit"} /\ UNCHANGED <<stored, visitor>>
  \/ job[j].pc \in {"saveUser", "saveReply"} /\ Written(j) /\ UNCHANGED visitor
  \/ job[j].pc \in {"visitor", "extras"} /\ Known(j) /\ UNCHANGED stored
  \/ At(j, "count") /\ Counted(j) /\ UNCHANGED stored

\* Neither pool sets a time limit, for a statement or for a free connection: a job may wait
\* for the database for ever, its statement executed or not.
Hangs(j) ==
  /\ Faults
  /\ Statement(j)
  /\ job' = [job EXCEPT ![j] = Ended(j, "hung")]
  /\ UNCHANGED <<cache, object, shown, photos>>

Arrival(j) == WebhookIgnores(j) \/ WebhookAdmits(j) \/ ChatHubRefuses(j) \/ ChatHubAdmits(j)

Webhook(j) == ContactChecked(j) \/ Said(j)

Task(j) ==
  \/ RefusedByLimit(j) \/ PassesLimit(j) \/ WhatsAppUserSaved(j) \/ GreetVisitor(j)
  \/ WhatsAppReplySaved(j) \/ Count(j) \/ Sends(j) \/ WrapUp(j)

ChatHub(j) == ChatHubOpens(j) \/ ChatHubUserSaved(j) \/ ChatHubResponds(j)

Work(j) == Webhook(j) \/ Task(j) \/ ChatHub(j) \/ Load(j) \/ Answers(j)

Next == (\E j \in Job : Arrival(j) \/ Work(j) \/ Hangs(j)) \/ NewDay \/ Restart

\* An await of the language model's client, or of an Evolution call, ends: each has a time
\* limit, and what they raise is caught.  An await of the database ends or is in Hangs.
Spec == Init /\ [][Next]_vars /\ \A j \in Job : WF_vars(Work(j))

-----------------------------------------------------------------------------
(* Properties. *)

\* Every variable stays in its type, and whoever holds a conversation object, a job in its
\* turn or the store's cache, holds one of the conversation of its own customer.
TypeOK ==
  /\ job \in [Job -> JobState]
  /\ cache \in [Conversation -> Job \cup {None}]
  /\ object \in [Job -> Object]
  /\ stored \in [Conversation -> SUBSET Entry]
  /\ visitor \in [Phone -> Visitor]
  /\ shown \in [Job -> Nat]
  /\ photos \subseteq Job
  /\ \A c \in Conversation : cache[c] # None => object[cache[c]].conv = c
  /\ \A j \in Job : job[j].object # None => ObjectOf(j).conv = EventOf(j).sender

\* Each delivery is answered by the engine at most once, however often sends time out, and
\* none is answered that the webhook has to skip, our own messages before all: the bot
\* never talks to itself.
OneAnswerPerDelivery ==
  \A j \in Job :
    /\ shown[j] <= 1
    /\ shown[j] = 1 /\ EventOf(j) \in WaEvent =>
         /\ EventOf(j).fromMe = "no"
         /\ EventOf(j).place = "person"
         /\ EventOf(j).sender \notin Excluded

\* The number has sent a trigger phrase, in a message the webhook let through.
Triggered(p) ==
  \E k \in Job : /\ EventOf(k) \in WaEvent
                 /\ EventOf(k).sender = p
                 /\ EventOf(k).body = "trigger"
                 /\ ~Ignored(EventOf(k))

\* With the leads filter on, the engine is given, and the store keeps, only messages of
\* numbers that have sent a trigger phrase, through resets, restarts, failing reads and
\* writes, and messages that overtake each other.
LeadsOnlyAnswered ==
  /\ \A j \in Job :
       EventOf(j) \in WaEvent /\ EventOf(j).sender \in LeadsOnly /\ (At(j, "model") \/ shown[j] > 0)
         => Triggered(EventOf(j).sender)
  /\ \A p \in LeadsOnly : stored[p] # {} => Triggered(p)

\* What leaves the channels is one answer to a delivery that is due one, both halves of it
\* under the same filters: those of the event, and the one of its number's history.
OnlyDueAnswers == OneAnswerPerDelivery /\ LeadsOnlyAnswered

\* A message that was queued, or a ChatHub turn that was admitted, is worked off to its end,
\* whatever fails on the way and whoever else is at work: the engine's answer, or the text of
\* the daily limit, has been handed to Evolution, or to ChatHub's response, unless the process
\* stops or the database never returns.  Whether it is shown is not the service's to know.
QueuedIsWorkedOff ==
  \A j \in Job :
    job[j].pc \in {"limit", "arrived"}
      ~> \/ job[j].pc \in {"lost", "hung"}
         \/ At(j, "done") /\ job[j].answer \in {"engine", "limit"}

\* webhooks.py:164-165: "the agent only responds to conversations whose first message
\* matches a trigger phrase".  A message given to the engine as part of a history has a
\* trigger phrase in that history.
RespondsToTriggered ==
  \A j \in Job :
    /\ At(j, "model")
    /\ EventOf(j) \in WaEvent /\ EventOf(j).sender \in LeadsOnly
    /\ User(j) \in ObjectOf(j).history
    => \E k \in Job : User(k) \in ObjectOf(j).history /\ EventOf(k).body = "trigger"

=============================================================================
