------------------------------ MODULE ChatTurn ------------------------------
(***************************************************************************)
(* The web chat turn and the conversation store under it: the handler of   *)
(* POST /api/v1/chat from its daily limits to its last write, interleaved  *)
(* with other turns and history reads of the same client on one event      *)
(* loop.  Every `await` on the database or the language model ends a step. *)
(*                                                                         *)
(* A ConversationState object is named after the turn that created it; a   *)
(* message is named after the turn that said or answered it.               *)
(***************************************************************************)
EXTENDS Naturals, Sequences, SequencesExt

CONSTANTS
  Conv,        \* conversation ids
  Turn,        \* chat turns and history reads (bounds their number)
  None,
  DailyLimit,  \* daily_message_limit
  CostCap,     \* daily_cost_cap_usd, in units of cost
  TurnCost,    \* what a turn of the language model costs
  Overlap,     \* may turns overlap in time?
  WriteFaults, \* may database writes raise?
  ReadFaults,  \* may database reads raise?
  Restarts,    \* may the process restart?
  ServerAhead, \* may the server's date be ahead of the database's?
  MaxDay       \* the dates stop here

ASSUME ChatTurnAssumption ==
  /\ None \notin Conv \cup Turn
  /\ DailyLimit \in Nat /\ CostCap \in Nat /\ TurnCost \in Nat
  /\ {Overlap, WriteFaults, ReadFaults, Restarts, ServerAhead} \subseteq BOOLEAN
  /\ MaxDay \in Nat

VARIABLES
  cache,     \* StateStore._conversations
  object,    \* the ConversationState objects
  stored,    \* the history column of the conversations table
  task,      \* the turns
  visitor,   \* the client's row of the visitors table
  spent,     \* the address's daily cost bucket
  clock,     \* today's date for the server, for the database and in UTC
  tally,     \* history: replies and uncounted replies of the database's date, cost of the UTC date
  proved,    \* history: conversations whose identity was resolved in this process
  projected  \* rows of the debtors table, per conversation

vars == <<cache, object, stored, task, visitor, spent, clock, tally, proved, projected>>

-----------------------------------------------------------------------------

Entry == [role : {"user", "assistant"}, turn : Turn]

User(t) == [role |-> "user", turn |-> t]

Assistant(t) == [role |-> "assistant", turn |-> t]

PC == {"idle", "limit", "load", "readLoad", "saveUser", "visitor", "model", "saveReply",
       "count", "project", "insert", "done"}

Idle == [pc |-> "idle", conv |-> None, object |-> None, payload |-> <<>>,
         prompt |-> <<>>, gate |-> FALSE]

NoObject == [history |-> <<>>, verified |-> FALSE]

NoCost == [date |-> 0, sum |-> 0]

Init ==
  /\ cache = [c \in Conv |-> None]
  /\ object = [t \in Turn |-> NoObject]
  /\ stored = [c \in Conv |-> <<>>]
  /\ task = [t \in Turn |-> Idle]
  /\ visitor = [known |-> FALSE, count |-> 0, date |-> 0]
  /\ spent = NoCost
  /\ clock = [server |-> 0, database |-> 0, utc |-> 0]
  /\ tally = [replies |-> 0, lost |-> 0, cost |-> 0]
  /\ proved = {}
  /\ projected = [c \in Conv |-> 0]

InFlight(t) == task[t].pc \notin {"idle", "done"}

Quiet == \A t \in Turn : ~InFlight(t)

CanStart(t) == task[t].pc = "idle" /\ (Overlap \/ Quiet)

Goto(t, pc) == task' = [task EXCEPT ![t].pc = pc]

\* The handler returns: its locals are gone.
Finished(t) == [Idle EXCEPT !.pc = "done", !.conv = task[t].conv]

Finish(t) == task' = [task EXCEPT ![t] = Finished(t)]

ObjectOf(t) == object[task[t].object]

-----------------------------------------------------------------------------
(* Admission. *)

\* check_daily_cost: deny once the cost accumulated on today's UTC date is over the cap.
CostAllows == spent.date = clock.utc => spent.sum <= CostCap

Arrive(t, c) ==
  /\ CanStart(t)
  /\ CostAllows
  /\ task' = [task EXCEPT ![t] = [Idle EXCEPT !.pc = "limit", !.conv = c]]
  /\ UNCHANGED <<cache, object, stored, visitor, spent, clock, tally, proved, projected>>

RefusedByCost(t, c) ==
  /\ CanStart(t)
  /\ ~CostAllows
  /\ task' = [task EXCEPT ![t] = [Idle EXCEPT !.pc = "done", !.conv = c]]
  /\ UNCHANGED <<cache, object, stored, visitor, spent, clock, tally, proved, projected>>

\* Mutant: one message too many.
LimitAllows_at_limit == visitor.known /\ visitor.date >= clock.server => visitor.count <= DailyLimit

\* check_daily_limit: a count of an earlier date, on the server's calendar, is no longer one.
LimitAllows == visitor.known /\ visitor.date >= clock.server => visitor.count < DailyLimit

RefusedByLimit(t) ==
  /\ task[t].pc = "limit"
  /\ ~LimitAllows
  /\ Finish(t)
  /\ UNCHANGED <<cache, object, stored, visitor, spent, clock, tally, proved, projected>>

-----------------------------------------------------------------------------
(* The conversation store. *)

\* add_user_message / add_assistant_message, and the copy _persist will write.
Said(t, o, h, e) ==
  /\ object' = [object EXCEPT ![o].history = Append(h, e)]
  /\ task' = [task EXCEPT ![t].object = o, ![t].payload = Append(h, e),
                          ![t].prompt = <<>>, ![t].pc = IF e.role = "user" THEN "saveUser" ELSE "saveReply"]

\* The daily limit lets the turn in (a failing check does too) and
\* get_or_create_async finds the conversation in memory.
OpenCached(t) ==
  LET o == cache[task[t].conv] IN
  /\ task[t].pc = "limit"
  /\ LimitAllows \/ ReadFaults
  /\ o # None
  /\ Said(t, o, object[o].history, User(t))
  /\ UNCHANGED <<cache, stored, visitor, spent, clock, tally, proved, projected>>

\* ... or has to load it first.
OpenMissing(t) ==
  /\ task[t].pc = "limit"
  /\ LimitAllows \/ ReadFaults
  /\ cache[task[t].conv] = None
  /\ Goto(t, "load")
  /\ UNCHANGED <<cache, object, stored, visitor, spent, clock, tally, proved, projected>>

\* Mutant: the row is never looked up.
Loaded_fresh(c) == {<<>>}

\* What a load yields; an error is logged and the conversation starts fresh.
Loaded(c) == {stored[c]} \cup (IF ReadFaults THEN {<<>>} ELSE {})

\* Mutant: the cache is keyed by the client, who may have several conversations.
CacheKey_client(t) == CHOOSE c \in Conv : TRUE

CacheKey(t) == task[t].conv

\* The loaded conversation becomes an object, which replaces whatever object another
\* turn put into the cache meanwhile.  Identity is not stored, so it starts unverified.
Load(t) ==
  LET c == task[t].conv IN
  /\ task[t].pc = "load"
  /\ \E h \in Loaded(c) : Said(t, t, h, User(t))
  /\ cache' = [cache EXCEPT ![CacheKey(t)] = t]
  /\ UNCHANGED <<stored, visitor, spent, clock, tally, proved, projected>>

\* GET .../messages goes through the same get_or_create_async.
Read(t, c) ==
  /\ CanStart(t)
  /\ task' = [task EXCEPT ![t] =
                [Idle EXCEPT !.pc = IF cache[c] = None THEN "readLoad" ELSE "done", !.conv = c]]
  /\ UNCHANGED <<cache, object, stored, visitor, spent, clock, tally, proved, projected>>

ReadLoad(t) ==
  LET c == task[t].conv IN
  /\ task[t].pc = "readLoad"
  /\ \E h \in Loaded(c) : object' = [object EXCEPT ![t].history = h]
  /\ cache' = [cache EXCEPT ![CacheKey(t)] = t]
  /\ Finish(t)
  /\ UNCHANGED <<stored, visitor, spent, clock, tally, proved, projected>>

\* save_conversation overwrites the whole row; _persist swallows an error.
Save(t, pc) ==
  /\ \/ stored' = [stored EXCEPT ![task[t].conv] = task[t].payload]
     \/ WriteFaults /\ UNCHANGED stored
  /\ task' = [task EXCEPT ![t].pc = pc, ![t].payload = <<>>]

SaveUser(t) ==
  /\ task[t].pc = "saveUser"
  /\ Save(t, "visitor")
  /\ UNCHANGED <<cache, object, visitor, spent, clock, tally, proved, projected>>

-----------------------------------------------------------------------------
(* The turn proper. *)

\* Mutant: the whole history is handed on, the new message included.
PromptOf_whole(h) == h

\* conv.history[:-1]: "exclude the message we just added".
PromptOf(h) == Front(h)

\* Mutant: a token opens the gate without being resolved.
Verify_any_token(t, token, resolves) == ObjectOf(t).verified \/ token

\* The campaign token is looked up only while the conversation is unverified.
Verify(t, token, resolves) == ObjectOf(t).verified \/ (token /\ resolves)

\* The columns' defaults, on the database's calendar.
NewVisitor == [known |-> TRUE, count |-> 0, date |-> clock.database]

\* The client's visitor row is made on the first visit.  Then, with no await between:
\* the token gate, the tool registry's copy of the identity, and the prompt.
Prepare(t) ==
  /\ task[t].pc = "visitor"
  /\ \/ visitor' = IF visitor.known THEN visitor ELSE NewVisitor
     \/ WriteFaults /\ UNCHANGED visitor
  /\ \E token, resolves \in BOOLEAN :
       LET verified == Verify(t, token, resolves) IN
       /\ object' = [object EXCEPT ![task[t].object].verified = verified]
       /\ proved' = IF ~ObjectOf(t).verified /\ token /\ resolves THEN proved \cup {task[t].conv} ELSE proved
       /\ task' = [task EXCEPT ![t].pc = "model", ![t].gate = verified,
                               ![t].prompt = PromptOf(ObjectOf(t).history)]
  /\ UNCHANGED <<cache, stored, spent, clock, tally, projected>>

\* Mutant: only the tool registry of the turn learns of the identity.
Identify_registry_only(t) ==
  /\ proved' = proved \cup {task[t].conv}
  /\ UNCHANGED object

\* on_identity_resolved: a document number resolved during the turn opens the gate on
\* the turn's own object.
Identify(t) ==
  /\ object' = [object EXCEPT ![task[t].object].verified = TRUE]
  /\ proved' = proved \cup {task[t].conv}

\* identificar_cliente resolves; the turn goes on.
ModelIdentifies(t) ==
  /\ task[t].pc = "model"
  /\ ~ObjectOf(t).verified
  /\ Identify(t)
  /\ UNCHANGED <<cache, stored, task, visitor, spent, clock, tally, projected>>

\* Mutant: the reply goes to the object that is in the cache now.
ReplyObject_cached(t) == cache[task[t].conv]

ReplyObject(t) == task[t].object

\* add_cost: the bucket is today's in UTC, or a new one.
Charge(cost) ==
  /\ spent' = IF cost = 0 THEN spent
              ELSE IF spent.date = clock.utc THEN [spent EXCEPT !.sum = @ + cost]
              ELSE [date |-> clock.utc, sum |-> cost]
  /\ tally' = [tally EXCEPT !.cost = @ + cost]

\* The turn is answered.  It costs nothing when the answer is canned or when the fallback
\* answers after a recoverable error, whose spending is never accounted.
ModelAnswers(t) ==
  /\ task[t].pc = "model"
  /\ \E cost \in {0, TurnCost} : Charge(cost)
  /\ Said(t, ReplyObject(t), object[ReplyObject(t)].history, Assistant(t))
  /\ UNCHANGED <<cache, stored, visitor, clock, proved, projected>>

\* An unexpected error propagates: no reply, and the message is not counted.
ModelRaises(t) ==
  /\ task[t].pc = "model"
  /\ Finish(t)
  /\ UNCHANGED <<cache, object, stored, visitor, spent, clock, tally, proved, projected>>

SaveReply(t) ==
  /\ task[t].pc = "saveReply"
  /\ Save(t, "count")
  /\ UNCHANGED <<cache, object, visitor, spent, clock, tally, proved, projected>>

\* The visitor's row after one more message, on the database's calendar.
Counted == [visitor EXCEPT !.count = IF visitor.date < clock.database THEN 1 ELSE @ + 1,
                           !.date = clock.database]

\* increment_daily_count updates the visitor's row.  An update that fails, or finds no row,
\* is not noticed, and the client gets its reply all the same.
Count(t) ==
  /\ task[t].pc = "count"
  /\ \/ /\ visitor.known
        /\ visitor' = Counted
        /\ tally' = [tally EXCEPT !.replies = @ + 1]
     \/ /\ ~visitor.known \/ WriteFaults
        /\ UNCHANGED visitor
        /\ tally' = [tally EXCEPT !.replies = @ + 1, !.lost = @ + 1]
  /\ Goto(t, "project")
  /\ UNCHANGED <<cache, object, stored, spent, clock, proved, projected>>

\* Mutant: the row is inserted without looking for one.
HasProjection_no_lookup(c) == FALSE

\* upsert_debtor looks for a row of the conversation, which has no unique key.
HasProjection(c) == projected[c] > 0

ProjectRead(t) ==
  /\ task[t].pc = "project"
  /\ IF HasProjection(task[t].conv) THEN Finish(t) ELSE Goto(t, "insert")
  /\ UNCHANGED <<cache, object, stored, visitor, spent, clock, tally, proved, projected>>

ProjectInsert(t) ==
  /\ task[t].pc = "insert"
  /\ \/ projected' = [projected EXCEPT ![task[t].conv] = @ + 1]
     \/ WriteFaults /\ UNCHANGED projected
  /\ Finish(t)
  /\ UNCHANGED <<cache, object, stored, visitor, spent, clock, tally, proved>>

\* Midnight comes to the server, to the database and to the UTC calendar at times of
\* their own; what was counted stays until it is next looked at.
NewServerDay ==
  /\ clock.server < MaxDay
  /\ ServerAhead \/ clock.server < clock.database
  /\ clock' = [clock EXCEPT !.server = @ + 1]
  /\ UNCHANGED <<cache, object, stored, task, visitor, spent, tally, proved, projected>>

NewDatabaseDay ==
  /\ clock.database < MaxDay
  /\ clock' = [clock EXCEPT !.database = @ + 1]
  /\ tally' = [tally EXCEPT !.replies = 0, !.lost = 0]
  /\ UNCHANGED <<cache, object, stored, task, visitor, spent, proved, projected>>

NewUtcDay ==
  /\ clock.utc < MaxDay
  /\ clock' = [clock EXCEPT !.utc = @ + 1]
  /\ tally' = [tally EXCEPT !.cost = 0]
  /\ UNCHANGED <<cache, object, stored, task, visitor, spent, proved, projected>>

NewDay == NewServerDay \/ NewDatabaseDay \/ NewUtcDay

\* Memory is lost: cache, identities, running turns and the cost bucket.
Restart ==
  /\ Restarts
  /\ cache' = [c \in Conv |-> None]
  /\ task' = [t \in Turn |-> IF InFlight(t) THEN Finished(t) ELSE task[t]]
  /\ spent' = NoCost
  /\ tally' = [tally EXCEPT !.cost = 0]
  /\ proved' = {}
  /\ UNCHANGED <<object, stored, visitor, clock, projected>>

TurnStep(t) ==
  \/ RefusedByLimit(t) \/ OpenCached(t) \/ OpenMissing(t) \/ Load(t) \/ ReadLoad(t)
  \/ SaveUser(t) \/ Prepare(t) \/ ModelIdentifies(t) \/ ModelAnswers(t) \/ ModelRaises(t)
  \/ SaveReply(t) \/ Count(t) \/ ProjectRead(t) \/ ProjectInsert(t)

Next ==
  \/ \E t \in Turn, c \in Conv : Arrive(t, c) \/ RefusedByCost(t, c) \/ Read(t, c)
  \/ \E t \in Turn : TurnStep(t)
  \/ NewDay
  \/ Restart

Spec == Init /\ [][Next]_vars

-----------------------------------------------------------------------------
(* Properties. *)

\* Every variable stays in its type, and a cached object is one of its conversation.
TypeOK ==
  /\ cache \in [Conv -> Turn \cup {None}]
  /\ \A t \in Turn : object[t].history \in Seq(Entry) /\ object[t].verified \in BOOLEAN
  /\ \A c \in Conv : stored[c] \in Seq(Entry) /\ projected[c] \in Nat
  /\ \A t \in Turn :
       /\ task[t].pc \in PC /\ task[t].gate \in BOOLEAN
       /\ task[t].conv \in Conv \cup {None} /\ task[t].object \in Turn \cup {None}
       /\ task[t].payload \in Seq(Entry) /\ task[t].prompt \in Seq(Entry)
  /\ visitor \in [known : BOOLEAN, count : Nat, date : Nat]
  /\ spent \in [date : Nat, sum : Nat]
  /\ clock \in [server : Nat, database : Nat, utc : Nat]
  /\ tally \in [replies : Nat, lost : Nat, cost : Nat]
  /\ proved \subseteq Conv
  /\ \A c \in Conv : cache[c] # None => task[cache[c]].conv = c

Coherent(h, c) ==
  /\ IsInjective(h)
  /\ \A i \in 1..Len(h) :
       /\ task[h[i].turn].conv = c
       /\ h[i].role = "assistant" => \E j \in 1..(i - 1) : h[j] = User(h[i].turn)

\* However turns, loads and restarts interleave, a conversation's history, in memory and
\* in the database, holds its own messages only, each once, and no reply before the
\* message it answers.
HistoriesCoherent ==
  /\ \A c \in Conv : Coherent(stored[c], c)
  /\ \A t \in Turn : Coherent(object[t].history, task[t].conv)

\* The identity gate is open for a turn, or on an object in use, only in a conversation
\* whose identity was resolved since the process started.
GateNeedsProof ==
  /\ \A c \in Conv : cache[c] # None /\ object[cache[c]].verified => c \in proved
  /\ \A t \in Turn : task[t].pc = "model" /\ task[t].gate => task[t].conv \in proved

\* "so the next turn starts already verified (gate stays open across turns)".
GateStaysOpen ==
  [][\A t \in Turn :
       task'[t].pc = "model" /\ task[t].pc # "model" /\ task[t].conv \in proved => task'[t].gate]_vars

\* The model is given everything said before the turn's message, and not the message.
PromptExact ==
  \A t \in Turn : task[t].pc = "model" =>
    LET h == ObjectOf(t).history IN
    \E i \in 1..Len(h) : h[i] = User(t) /\ task[t].prompt = SubSeq(h, 1, i - 1)

\* On no date does one client get more replies than its daily limit and those whose
\* count was lost, and without failing writes none is lost.  Nor does its address spend
\* more than one turn over the cap on a UTC date, as far as the process has seen it.
LimitsHold ==
  /\ tally.replies <= DailyLimit + tally.lost
  /\ ~WriteFaults => tally.lost = 0
  /\ tally.cost <= CostCap + TurnCost

\* A conversation has one row in the debtors table at most.
OneProjection == \A c \in Conv : projected[c] <= 1

\* The stored histories implement a log that only grows: failed writes and restarts may
\* delay a message's storage or lose the newest ones, but never take back a stored one.
Log == INSTANCE MessageLog WITH Conversation <- Conv, Entry <- Entry, log <- stored

StoredLogGrows == Log!Spec

=============================================================================
