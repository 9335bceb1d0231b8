--------------------------- MODULE InboundProofs ---------------------------
(***************************************************************************)
(* Theorems about Inbound, for any number of deliveries, numbers and       *)
(* conversations, with failing databases and restarts.                     *)
(***************************************************************************)
EXTENDS Inbound, TLAPS

-----------------------------------------------------------------------------
(* The inductive invariant. *)

\* Where a background task past the filters can be.
TaskPC == {"limit", "saveUser", "visitor", "model", "saveReply", "count", "send", "extras"}

\* What the webhook let through, or ChatHub.
Admitted(e) == e \in ChatHubEvent \/ (e \in WaEvent /\ ~Ignored(e))

\* What a job knows of its delivery at each of its steps.
JobShape(j) ==
  /\ At(j, "idle") => job[j] = Idle
  /\ ~At(j, "idle") => EventOf(j) \in Inbox /\ job[j].conv = EventOf(j).sender
  /\ job[j].pc \notin {"idle", "done", "hung", "lost"} => Admitted(EventOf(j))
  /\ job[j].pc \in {"contact", "limit", "visitor", "count", "send", "extras", "canned"}
       => EventOf(j) \in WaEvent
  /\ At(j, "arrived") => EventOf(j) \in ChatHubEvent
  /\ At(j, "load") => job[j].want \in Purpose
  /\ At(j, "load") /\ job[j].want # "turn" => EventOf(j) \in WaEvent
  /\ job[j].pc \in TaskPC \ {"limit"} => job[j].object \in Job
  /\ job[j].pc \in {"done", "hung", "lost"} => job[j].object = None
  /\ object[j].conv \in {None, job[j].conv}

\* An answer is shown by the last step before the task wraps up, to a delivery let through.
ShownShape(j) ==
  /\ shown[j] \in {0, 1}
  /\ job[j].pc \notin {"extras", "done", "hung", "lost"} => shown[j] = 0
  /\ shown[j] = 1 => Admitted(EventOf(j))

\* Past the leads filter, and on record, are only numbers that have sent a trigger phrase.
PastFilter(j) ==
  job[j].pc \in TaskPC \/ (At(j, "load") /\ job[j].want = "turn") \/ shown[j] = 1

LeadsShape ==
  /\ \A j \in Job : EventOf(j) \in WaEvent /\ EventOf(j).sender \in LeadsOnly /\ PastFilter(j)
                      => Triggered(EventOf(j).sender)
  /\ \A k \in Job : object[k].conv \in LeadsOnly /\ object[k].history # {}
                      => Triggered(object[k].conv)
  /\ \A p \in LeadsOnly : stored[p] # {} => Triggered(p)

IInv ==
  /\ TypeOK
  /\ \A j \in Job : JobShape(j) /\ ShownShape(j)
  /\ LeadsShape

USE InboundAssumption

-----------------------------------------------------------------------------
(* Deliveries. *)

\* The two channels' events are told apart, and each has a sender.
LEMMA Channels ==
  ASSUME NEW e \in Event
  PROVE  /\ e \in WaEvent => e \notin ChatHubEvent /\ e.sender \in Phone
         /\ e \in ChatHubEvent => e.sender \in Chat
         /\ e \in WaEvent \/ e \in ChatHubEvent
         /\ e # None /\ e.sender \in Conversation /\ e.sender # None
BY DEF Event, WaEvent, ChatHubEvent, Conversation

LEMMA NoneIsNoEvent == None \notin WaEvent /\ None \notin ChatHubEvent
BY DEF Event

\* Once sent, a trigger phrase stays sent: a delivery never changes.
LEMMA TriggeredStays ==
  ASSUME NEW p, Triggered(p), \A k \in Job : EventOf(k) # None => EventOf(k)' = EventOf(k)
  PROVE  Triggered(p)'
BY NoneIsNoEvent DEF Triggered, Ignored, Own

-----------------------------------------------------------------------------
(* One lemma per action. *)

LEMMA Initially == Init => IInv
<1> SUFFICES ASSUME Init PROVE IInv
  OBVIOUS
<1>1. TypeOK
  BY DEF Init, TypeOK, JobState, Object, Visitor, Idle, NoObject, PC, ObjectOf, Conversation
<1>2. \A j \in Job : JobShape(j) /\ ShownShape(j)
  BY DEF Init, JobShape, ShownShape, At, EventOf, Idle, NoObject, TaskPC
<1>3. LeadsShape
  BY NoneIsNoEvent DEF Init, LeadsShape, EventOf, Idle, NoObject, Conversation
<1> QED BY <1>1, <1>2, <1>3 DEF IInv

LEMMA DeliveryStep ==
  ASSUME NEW j \in Job, NEW e \in Inbox, NEW pc \in {"done", "contact", "arrived"}, IInv,
         Delivery(j, e, pc),
         pc = "contact" => e \in WaEvent /\ ~Ignored(e),
         pc = "arrived" => e \in ChatHubEvent
  PROVE  IInv'
<1> USE DEF IInv
<1>1. /\ job' = [job EXCEPT ![j] = [Idle EXCEPT !.pc = pc, !.event = e, !.conv = e.sender]]
      /\ job \in [Job -> JobState] /\ job[j].pc = "idle"
      /\ UNCHANGED <<cache, object, stored, visitor, shown, photos>>
  BY DEF Delivery, ConversationOf, StoreUnchanged, At, TypeOK
<1>2. e \in Event /\ e # None /\ e.sender \in Conversation
  BY Channels
<1>3. TypeOK'
  BY <1>1, <1>2 DEF TypeOK, JobState, Idle, PC, ObjectOf, EventOf
<1>4. \A k \in Job : JobShape(k)' /\ ShownShape(k)'
  <2>1. ASSUME NEW k \in Job, k # j PROVE JobShape(k)' /\ ShownShape(k)'
    BY <1>1, <2>1 DEF JobShape, ShownShape, At, EventOf, Admitted, Ignored, Own
  <2>2. job'[j] = [Idle EXCEPT !.pc = pc, !.event = e, !.conv = e.sender] /\ job[j] = Idle
    BY <1>1 DEF JobShape, At
  <2>3. JobShape(j)'
    BY <1>1, <1>2, <2>2 DEF JobShape, At, EventOf, Idle, TaskPC, Admitted, Ignored, Own
  <2>4. ShownShape(j)'
    BY <1>1, <2>2 DEF ShownShape, At, Idle
  <2> QED BY <2>1, <2>3, <2>4
<1>5. LeadsShape'
  <2>1. \A k \in Job : EventOf(k) # None => EventOf(k)' = EventOf(k)
    BY <1>1 DEF EventOf, JobShape, At, Idle
  <2>2. \A p : Triggered(p) => Triggered(p)'
    BY <2>1, TriggeredStays
  <2>3. ASSUME NEW k \in Job, PastFilter(k)' PROVE k # j /\ PastFilter(k)
    BY <1>1, <2>3 DEF PastFilter, TaskPC, At, Idle, ShownShape, JobState
  <2> QED BY <1>1, <2>1, <2>2, <2>3 DEF LeadsShape, EventOf
<1> QED BY <1>3, <1>4, <1>5


\* A step of one job that keeps its delivery and its conversation: what is left to show is
\* about that job alone.
JobMoves(j) ==
  /\ job' = [job EXCEPT ![j] = job'[j]]
  /\ job'[j] \in JobState
  /\ job'[j].event = job[j].event /\ job'[j].conv = job[j].conv

LEMMA MoveKeeps ==
  ASSUME NEW j \in Job, IInv, JobMoves(j)
  PROVE  /\ job' \in [Job -> JobState]
         /\ \A k \in Job : EventOf(k)' = EventOf(k)
         /\ \A k \in Job : k # j => job'[k] = job[k]
         /\ \A p : Triggered(p) => Triggered(p)'
<1>1. job \in [Job -> JobState]
  BY DEF IInv, TypeOK
<1>2. \A k \in Job : k # j => job'[k] = job[k]
  BY <1>1 DEF JobMoves
<1>3. job' \in [Job -> JobState]
  BY <1>1 DEF JobMoves
<1>4. \A k \in Job : EventOf(k)' = EventOf(k)
  BY <1>2 DEF JobMoves, EventOf
<1>5. \A p : Triggered(p) => Triggered(p)'
  BY <1>4, TriggeredStays
<1> QED BY <1>2, <1>3, <1>4, <1>5

\* The invariant of a whole step, from what it says of the job that moves and of what is
\* recorded.
LEMMA Moves ==
  ASSUME NEW j \in Job, IInv, JobMoves(j),
         TypeOK', JobShape(j)', ShownShape(j)',
         \A k \in Job : k # j => shown'[k] = shown[k] /\ object'[k].conv = object[k].conv,
         PastFilter(j)' /\ EventOf(j) \in WaEvent /\ EventOf(j).sender \in LeadsOnly
           => Triggered(EventOf(j).sender),
         \A k \in Job : object'[k].conv \in LeadsOnly /\ object'[k].history # {}
           => Triggered(object'[k].conv),
         \A p \in LeadsOnly : stored'[p] # {} => Triggered(p)
  PROVE  IInv'
<1>1. \A k \in Job : k # j => JobShape(k)' /\ ShownShape(k)'
  BY MoveKeeps DEF IInv, JobShape, ShownShape, At, EventOf, Admitted, Ignored, Own
<1>2. LeadsShape'
  <2>1. ASSUME NEW k \in Job, EventOf(k) \in WaEvent, EventOf(k).sender \in LeadsOnly,
               PastFilter(k)'
        PROVE  Triggered(EventOf(k).sender)
    <3>1. k # j => PastFilter(k)
      BY <2>1, MoveKeeps DEF PastFilter, At
    <3> QED BY <2>1, <3>1 DEF IInv, LeadsShape
  <2> QED BY <2>1, MoveKeeps DEF LeadsShape
<1> QED BY <1>1, <1>2 DEF IInv

\* Whoever has opened a conversation, from the store's memory or from its row, keeps the
\* invariant with whatever it wanted it for.
LEMMA WithStep ==
  ASSUME NEW j \in Job, NEW o \in Job, NEW want \in Purpose, NEW objs \in [Job -> Object],
         IInv, With(j, want, o, objs),
         job[j].pc \in {"contact", "arrived", "limit", "load"},
         want # "turn" => EventOf(j) \in WaEvent,
         want = "turn" /\ EventOf(j) \in WaEvent /\ EventOf(j).sender \in LeadsOnly
           => Triggered(EventOf(j).sender),
         objs[o].conv = job[j].conv,
         objs[j].conv \in {None, job[j].conv},
         \A k \in Job : k # j => objs[k] = object[k],
         \A k \in Job : objs[k].conv \in LeadsOnly /\ objs[k].history # {} => Triggered(objs[k].conv),
         \A k \in Job : job[k].object # None => objs[job[k].object].conv = EventOf(k).sender,
         cache' \in [Conversation -> Job \cup {None}],
         \A c \in Conversation : cache'[c] # None => objs[cache'[c]].conv = c,
         UNCHANGED <<stored, visitor, shown, photos>>
  PROVE  IInv'
<1>1. /\ job[j] \in JobState /\ job \in [Job -> JobState]
      /\ Admitted(EventOf(j)) /\ job[j].conv = EventOf(j).sender
      /\ EventOf(j) \in Inbox /\ EventOf(j) \in Event /\ job[j].conv \in Conversation
      /\ shown[j] = 0
  BY Channels DEF IInv, TypeOK, JobShape, ShownShape, At
<1>2. /\ object' \in [Job -> Object]
      /\ \A k \in Job : object'[k].conv = objs[k].conv
      /\ \A k \in Job : object'[k].history # {} =>
           objs[k].history # {} \/ (want = "turn" /\ k = o)
      /\ JobMoves(j)
      /\ job'[j].object \in {job[j].object, o}
      /\ \/ job'[j].pc = "canned" /\ want # "turn"
         \/ /\ job'[j].pc = "limit" /\ want = "leads"
            /\ EventOf(j).body = "trigger" \/ objs[o].history # {}
         \/ job'[j].pc = "saveUser" /\ want = "turn" /\ job'[j].object = o
  <2>1. CASE want = "reset"
    <3>1. object' = [objs EXCEPT ![o].history = {}]
          /\ job' = [job EXCEPT ![j].pc = "canned", ![j].answer = "reset"]
      BY <2>1 DEF With, Reset, Say
    <3>2. object' \in [Job -> Object] /\ \A k \in Job : object'[k].conv = objs[k].conv
      BY <3>1 DEF Object
    <3>3. \A k \in Job : object'[k].history # {} => objs[k].history # {}
      BY <3>1 DEF Object
    <3>4. job'[j] = [job[j] EXCEPT !.pc = "canned", !.answer = "reset"]
      BY <1>1, <3>1
    <3>5. JobMoves(j) /\ job'[j].object = job[j].object /\ job'[j].pc = "canned"
      BY <1>1, <3>1, <3>4 DEF JobMoves, JobState, PC, Answer
    <3> QED BY <2>1, <3>2, <3>3, <3>5
  <2>2. CASE want = "leads"
    BY <1>1, <2>2 DEF With, FilterLead, NewConversation, Say, Goto, JobMoves, JobState, PC, Answer
  <2>3. CASE want = "turn"
    <3>1. objs[o].history \cup {User(j)} \in SUBSET Entry
      BY DEF Object, User, Entry
    <3>2. /\ object' = [objs EXCEPT ![o].history = @ \cup {User(j)}]
          /\ job' = [job EXCEPT ![j].pc = "saveUser", ![j].object = o,
                                ![j].payload = objs[o].history \cup {User(j)}]
      BY <2>3, Zenon DEF With, AddUser
    <3>3. object' \in [Job -> Object] /\ \A k \in Job : object'[k].conv = objs[k].conv
      <4> DEFINE h == objs[o].history \cup {User(j)}
      <4>1. object' = [objs EXCEPT ![o].history = h]
        BY <3>2
      <4>2. h \in SUBSET Entry
        BY <3>1
      <4> HIDE DEF h
      <4>3. object' = [objs EXCEPT ![o] = [objs[o] EXCEPT !.history = h]]
        BY <4>1
      <4>4. [objs[o] EXCEPT !.history = h] \in Object /\ [objs[o] EXCEPT !.history = h].conv = objs[o].conv
        BY <4>2 DEF Object
      <4> QED BY <4>3, <4>4
    <3>4. \A k \in Job : k # o => object'[k].history = objs[k].history
      BY <3>2 DEF Object
    <3>5. /\ JobMoves(j) /\ job'[j].object = o /\ job'[j].pc = "saveUser"
      BY <1>1, <3>1, <3>2 DEF JobMoves, JobState, PC
    <3> QED BY <2>3, <3>3, <3>4, <3>5
  <2> QED BY <2>1, <2>2, <2>3 DEF Purpose
<1>3. TypeOK'
  <2>1. job' \in [Job -> JobState] /\ \A k \in Job : k # j => job'[k] = job[k]
    BY <1>2, MoveKeeps
  <2>2. \A k \in Job : job'[k].object # None => object'[job'[k].object].conv = EventOf(k)'.sender
    BY <1>1, <1>2, <2>1, MoveKeeps DEF JobState
  <2>3. \A c \in Conversation : cache'[c] # None => object'[cache'[c]].conv = c
    BY <1>2
  <2> QED BY <1>2, <2>1, <2>2, <2>3 DEF IInv, TypeOK, ObjectOf
<1>4. JobShape(j)' /\ ShownShape(j)'
  BY <1>1, <1>2 DEF JobShape, ShownShape, At, EventOf, JobMoves, Admitted, Ignored, Own, TaskPC
<1>5. EventOf(j) \in WaEvent /\ EventOf(j).sender \in LeadsOnly /\ PastFilter(j)'
        => Triggered(EventOf(j).sender)
  <2>1. EventOf(j) \in WaEvent => ~Ignored(EventOf(j))
    BY <1>1, Channels DEF Admitted
  <2>2. EventOf(j) \in WaEvent /\ EventOf(j).body = "trigger" => Triggered(EventOf(j).sender)
    BY <2>1 DEF Triggered
  <2>3. PastFilter(j)' => job'[j].pc \in {"limit", "saveUser"}
    BY <1>1, <1>2 DEF PastFilter, At, TaskPC
  <2>4. objs[o].history # {} /\ EventOf(j).sender \in LeadsOnly => Triggered(EventOf(j).sender)
    BY <1>1
  <2> QED BY <1>2, <2>2, <2>3, <2>4
<1>6. \A k \in Job : object'[k].conv \in LeadsOnly /\ object'[k].history # {}
                       => Triggered(object'[k].conv)
  <2>1. job[j].conv \in LeadsOnly => EventOf(j) \in WaEvent
    BY <1>1, Channels
  <2> QED BY <1>1, <1>2, <2>1
<1>7. \A k \in Job : k # j => object'[k].conv = object[k].conv
  BY <1>2
<1> QED BY <1>2, <1>3, <1>4, <1>5, <1>6, <1>7, Moves DEF IInv, LeadsShape


LEMMA OpeningStep ==
  ASSUME NEW j \in Job, NEW want \in Purpose, IInv, Opening(j, want),
         job[j].pc \in {"contact", "arrived", "limit"},
         want # "turn" => EventOf(j) \in WaEvent,
         want = "turn" /\ EventOf(j) \in WaEvent /\ EventOf(j).sender \in LeadsOnly
           => Triggered(EventOf(j).sender),
         UNCHANGED <<cache, stored, visitor, shown, photos>>
  PROVE  IInv'
<1> DEFINE c == job[j].conv
<1>1. /\ job[j] \in JobState /\ job \in [Job -> JobState] /\ object \in [Job -> Object]
      /\ Admitted(EventOf(j)) /\ c = EventOf(j).sender /\ EventOf(j) \in Inbox
      /\ c \in Conversation /\ shown[j] = 0 /\ JobShape(j)
  BY Channels DEF IInv, TypeOK, JobShape, ShownShape, At
<1>2. CASE cache[c] # None
  <2>1. With(j, want, cache[c], object) /\ cache[c] \in Job /\ object[cache[c]].conv = c
    BY <1>1, <1>2 DEF Opening, IInv, TypeOK
  <2>2. /\ object[j].conv \in {None, c}
        /\ \A k \in Job : job[k].object # None => object[job[k].object].conv = EventOf(k).sender
        /\ \A k \in Job : object[k].conv \in LeadsOnly /\ object[k].history # {}
                             => Triggered(object[k].conv)
        /\ cache' \in [Conversation -> Job \cup {None}]
        /\ \A d \in Conversation : cache'[d] # None => object[cache'[d]].conv = d
    BY <1>1 DEF IInv, TypeOK, LeadsShape, JobShape, ObjectOf
  <2> QED BY <1>1, <2>1, <2>2, WithStep
<1>3. CASE cache[c] = None
  <2>1. job' = [job EXCEPT ![j].pc = "load", ![j].want = want] /\ UNCHANGED object
    <3>1. Opening(j, want) => \/ cache[c] # None
                              \/ job' = [job EXCEPT ![j].pc = "load", ![j].want = want] /\ UNCHANGED object
      BY DEF Opening
    <3> QED BY <1>3, <3>1
  <2>2. JobMoves(j) /\ job'[j].pc = "load" /\ job'[j].want = want /\ job'[j].object = job[j].object
    BY <1>1, <2>1 DEF JobMoves, JobState, PC
  <2>3. TypeOK'
    BY <2>1, <2>2, MoveKeeps DEF IInv, TypeOK, ObjectOf
  <2>4. JobShape(j)' /\ ShownShape(j)'
    BY <1>1, <2>1, <2>2 DEF JobShape, ShownShape, At, EventOf, JobMoves, Admitted, Ignored, Own, TaskPC
  <2>5. EventOf(j) \in WaEvent /\ EventOf(j).sender \in LeadsOnly /\ PastFilter(j)'
          => Triggered(EventOf(j).sender)
    BY <1>1, <2>2 DEF PastFilter, At, TaskPC
  <2> QED BY <2>1, <2>2, <2>3, <2>4, <2>5, Moves DEF IInv, LeadsShape
<1> QED BY <1>2, <1>3

\* The object a row is made into: it holds nothing but that row.
LEMMA LoadStep ==
  ASSUME NEW j \in Job, IInv, Load(j)
  PROVE  IInv'
<1> DEFINE c == job[j].conv
<1>1. /\ job[j] \in JobState /\ object \in [Job -> Object] /\ JobShape(j) /\ job[j].pc = "load"
      /\ Admitted(EventOf(j)) /\ c = EventOf(j).sender /\ EventOf(j) \in Inbox
      /\ c \in Conversation /\ c # None /\ job[j].want \in Purpose
  BY Channels DEF Load, IInv, TypeOK, JobShape, ShownShape, At
<1>2. PICK h \in Rows(c) :
        With(j, job[j].want, j, [object EXCEPT ![j] = [conv |-> c, history |-> h, verified |-> FALSE]])
  BY DEF Load
<1> DEFINE objs == [object EXCEPT ![j] = [conv |-> c, history |-> h, verified |-> FALSE]]
<1>3. h \in SUBSET Entry /\ (h # {} => h = stored[c])
  BY <1>1, <1>2 DEF Rows, IInv, TypeOK
<1>4. /\ objs \in [Job -> Object]
      /\ objs[j] = [conv |-> c, history |-> h, verified |-> FALSE]
      /\ \A k \in Job : k # j => objs[k] = object[k]
      /\ \A k \in Job : object[k].conv # None => objs[k].conv = object[k].conv
  BY <1>1, <1>3 DEF Object, JobShape
<1>5. With(j, job[j].want, j, objs)
  BY <1>2
<1>6. /\ cache' = [cache EXCEPT ![c] = j]
      /\ UNCHANGED <<stored, visitor, shown, photos>>
  BY DEF Load
<1>7. \A k \in Job : objs[k].conv \in LeadsOnly /\ objs[k].history # {} => Triggered(objs[k].conv)
  BY <1>1, <1>3, <1>4 DEF IInv, LeadsShape
<1>8. \A k \in Job : job[k].object # None => objs[job[k].object].conv = EventOf(k).sender
  <2> SUFFICES ASSUME NEW k \in Job, job[k].object # None
               PROVE  objs[job[k].object].conv = EventOf(k).sender
    OBVIOUS
  <2>1. job[k].object \in Job /\ object[job[k].object].conv = EventOf(k).sender
    BY DEF IInv, TypeOK, JobState, ObjectOf
  <2>2. EventOf(k) # None
    BY Channels DEF IInv, JobShape, At, Idle, EventOf
  <2>3. EventOf(k).sender # None
    BY <2>2, Channels DEF IInv, TypeOK, JobState, EventOf
  <2> QED BY <1>4, <2>1, <2>3
<1>9. \A d \in Conversation : cache'[d] # None => objs[cache'[d]].conv = d
  <2>1. \A d \in Conversation : d # None
    BY DEF Conversation
  <2> QED BY <1>1, <1>4, <1>6, <2>1 DEF IInv, TypeOK
<1>10. cache' \in [Conversation -> Job \cup {None}]
  BY <1>6 DEF IInv, TypeOK
<1>11. job[j].want # "turn" => EventOf(j) \in WaEvent
  BY <1>1 DEF JobShape, At
<1>12. job[j].want = "turn" /\ EventOf(j) \in WaEvent /\ EventOf(j).sender \in LeadsOnly
         => Triggered(EventOf(j).sender)
  BY <1>1 DEF IInv, LeadsShape, PastFilter, At
<1> HIDE DEF objs
<1> QED BY <1>1, <1>4, <1>5, <1>6, <1>7, <1>8, <1>9, <1>10, <1>11, <1>12, WithStep


LEMMA ContactCheckedStep ==
  ASSUME NEW j \in Job, IInv, ContactChecked(j)
  PROVE  IInv'
<1>1. /\ job[j] \in JobState /\ job \in [Job -> JobState] /\ job[j].pc = "contact"
      /\ JobShape(j) /\ ShownShape(j) /\ EventOf(j) \in WaEvent
  BY DEF ContactChecked, IInv, TypeOK, JobShape, At
<1>2. UNCHANGED <<cache, stored, visitor, shown, photos>>
  BY DEF ContactChecked
<1>3. CASE Opening(j, "reset") \/ (EventOf(j).sender \in LeadsOnly /\ Opening(j, "leads"))
  BY <1>1, <1>2, <1>3, OpeningStep DEF Purpose
<1>4. CASE /\ UNCHANGED object
           /\ \/ Finish(j, None)
              \/ EventOf(j).body \in {"media", "menu"} /\ Say(j, EventOf(j).body)
              \/ EventOf(j).sender \notin LeadsOnly /\ Goto(j, "limit")
  <2>1. /\ JobMoves(j) /\ job'[j].object \in {None, job[j].object}
        /\ job'[j].pc = "done" => job'[j].object = None
        /\ \/ job'[j].pc \in {"done", "canned"}
           \/ job'[j].pc = "limit" /\ EventOf(j).sender \notin LeadsOnly
    <3>1. CASE Finish(j, None)
      BY <1>1, <3>1 DEF Finish, Finished, Ended, Idle, JobMoves, JobState, PC
    <3>2. CASE EventOf(j).body \in {"media", "menu"} /\ Say(j, EventOf(j).body)
      BY <1>1, <3>2 DEF Say, JobMoves, JobState, PC, Answer
    <3>3. CASE EventOf(j).sender \notin LeadsOnly /\ Goto(j, "limit")
      BY <1>1, <3>3 DEF Goto, JobMoves, JobState, PC
    <3> QED BY <1>4, <3>1, <3>2, <3>3
  <2>2. TypeOK'
    BY <1>2, <1>4, <2>1, MoveKeeps DEF IInv, TypeOK, ObjectOf
  <2>3. JobShape(j)' /\ ShownShape(j)'
    BY <1>1, <1>2, <1>4, <2>1 DEF JobShape, ShownShape, At, EventOf, JobMoves, Admitted, Ignored, Own, TaskPC
  <2>4. EventOf(j).sender \in LeadsOnly => ~PastFilter(j)'
    BY <1>1, <1>2, <2>1 DEF PastFilter, At, TaskPC, ShownShape
  <2> QED BY <1>2, <1>4, <2>1, <2>2, <2>3, <2>4, Moves DEF IInv, LeadsShape
<1> QED BY <1>3, <1>4 DEF ContactChecked

\* A step of a job that is past its conversation's opening: it writes at most its own copy
\* of the history, its visitor's row and its own answer.
LEMMA TaskStep ==
  ASSUME NEW j \in Job, IInv, JobMoves(j),
         job[j].pc \in TaskPC \cup {"canned", "load"},
         job'[j].pc \in (TaskPC \ {"limit"}) \cup {"canned", "done", "hung"},
         job[j].pc = "load" => job'[j].pc = "hung",
         job'[j].pc \in TaskPC => job[j].pc \in TaskPC \ {"limit"},
         job'[j].object = IF job'[j].pc \in {"done", "hung"} THEN None ELSE job[j].object,
         job'[j].pc \in {"visitor", "count", "send", "extras", "canned"} => EventOf(j) \in WaEvent,
         shown'[j] # shown[j] => job[j].pc \in TaskPC /\ job'[j].pc \in {"extras", "done"},
         job[j].pc = "extras" => job'[j].pc \in {"done", "hung"},
         \A k \in Job : k # j => shown'[k] = shown[k],
         shown' \in [Job -> {0, 1}],
         object' \in [Job -> Object],
         \A k \in Job : /\ object'[k].conv = object[k].conv
                        /\ object'[k].history = object[k].history \/ k = job[j].object,
         object' # object => job[j].pc \in TaskPC \ {"limit"},
         stored' \in [Conversation -> SUBSET Entry],
         stored' # stored => job[j].pc \in TaskPC \ {"limit"},
         \A c \in Conversation : c # job[j].conv => stored'[c] = stored[c],
         visitor' \in [Phone -> Visitor], photos' \subseteq Job, UNCHANGED cache
  PROVE  IInv'
<1>1. /\ job[j] \in JobState /\ JobShape(j) /\ ShownShape(j)
      /\ Admitted(EventOf(j)) /\ EventOf(j) \in Event /\ job[j].conv = EventOf(j).sender
  BY Channels DEF IInv, TypeOK, JobShape, At, TaskPC
<1>2. TypeOK'
  <2>1. job' \in [Job -> JobState] /\ \A k \in Job : EventOf(k)' = EventOf(k)
    BY MoveKeeps
  <2>2. \A k \in Job : job'[k].object # None => job'[k].object = job[k].object
    BY MoveKeeps
  <2>3. \A k \in Job : job'[k].object # None => object'[job'[k].object].conv = EventOf(k)'.sender
    BY <2>1, <2>2 DEF IInv, TypeOK, ObjectOf, JobState
  <2>4. \A c \in Conversation : cache'[c] # None => object'[cache'[c]].conv = c
    BY DEF IInv, TypeOK
  <2>5. shown' \in [Job -> Nat]
    OBVIOUS
  <2>6. cache' \in [Conversation -> Job \cup {None}]
    BY DEF IInv, TypeOK
  <2> QED BY <2>1, <2>3, <2>4, <2>5, <2>6 DEF TypeOK, ObjectOf
<1>3. JobShape(j)'
  BY <1>1 DEF JobShape, At, EventOf, JobMoves, Admitted, Ignored, Own, TaskPC
<1>4. ShownShape(j)'
  BY <1>1 DEF ShownShape, At, EventOf, JobMoves, Admitted, Ignored, Own, TaskPC
<1>5. job[j].pc \in TaskPC /\ EventOf(j) \in WaEvent /\ EventOf(j).sender \in LeadsOnly
        => Triggered(EventOf(j).sender)
  BY DEF IInv, LeadsShape, PastFilter
<1>6. EventOf(j) \in WaEvent /\ EventOf(j).sender \in LeadsOnly /\ PastFilter(j)'
        => Triggered(EventOf(j).sender)
  <2>1. PastFilter(j)' => job[j].pc \in TaskPC
    BY <1>1 DEF PastFilter, At, ShownShape, TaskPC
  <2> QED BY <2>1, <1>5
<1>7. EventOf(j).sender \in LeadsOnly => EventOf(j) \in WaEvent
  BY <1>1, Channels
<1>8. \A k \in Job : object'[k].conv \in LeadsOnly /\ object'[k].history # {}
                       => Triggered(object'[k].conv)
  <2>1. job[j].object # None => object[job[j].object].conv = EventOf(j).sender
    BY DEF IInv, TypeOK, ObjectOf
  <2> QED BY <1>1, <1>5, <1>7, <2>1 DEF IInv, LeadsShape
<1>9. \A p \in LeadsOnly : stored'[p] # {} => Triggered(p)
  BY <1>1, <1>5, <1>7 DEF IInv, LeadsShape, Conversation
<1> QED BY <1>2, <1>3, <1>4, <1>6, <1>8, <1>9, Moves


\* What a job at work knows.
LEMMA AtWork ==
  ASSUME NEW j \in Job, IInv, ~At(j, "idle")
  PROVE  /\ job[j] \in JobState /\ job \in [Job -> JobState] /\ object \in [Job -> Object]
         /\ stored \in [Conversation -> SUBSET Entry] /\ visitor \in [Phone -> Visitor]
         /\ shown \in [Job -> {0, 1}] /\ photos \subseteq Job
         /\ job[j].conv \in Conversation /\ job[j].payload \in SUBSET Entry
         /\ EventOf(j) \in WaEvent => EventOf(j).sender \in Phone
         /\ job[j].pc \in TaskPC \ {"limit"} => job[j].object \in Job
         /\ job[j].pc \notin {"extras", "done", "hung", "lost"} => shown[j] = 0
BY Channels DEF IInv, TypeOK, JobShape, ShownShape, JobState, At, EventOf

\* The ways a job moves on.
LEMMA GotoMoves ==
  ASSUME NEW j \in Job, NEW pc \in PC, IInv, ~At(j, "idle"), Goto(j, pc)
  PROVE  JobMoves(j) /\ job'[j].pc = pc /\ job'[j].object = job[j].object
BY AtWork DEF Goto, JobMoves, JobState

LEMMA SayMoves ==
  ASSUME NEW j \in Job, NEW answer \in Answer, IInv, ~At(j, "idle"), Say(j, answer)
  PROVE  JobMoves(j) /\ job'[j].pc = "canned" /\ job'[j].object = job[j].object
<1>1. job \in [Job -> JobState] /\ job[j] \in JobState
  BY AtWork
<1>2. job' = [job EXCEPT ![j] = [job[j] EXCEPT !.pc = "canned", !.answer = answer]]
  BY <1>1 DEF Say
<1>3. [job[j] EXCEPT !.pc = "canned", !.answer = answer] \in JobState
  BY <1>1 DEF JobState, PC
<1> QED BY <1>1, <1>2, <1>3 DEF JobMoves, JobState

LEMMA FinishMoves ==
  ASSUME NEW j \in Job, NEW answer \in Answer \cup {None}, IInv, ~At(j, "idle"),
         Finish(j, answer)
  PROVE  JobMoves(j) /\ job'[j].pc = "done" /\ job'[j].object = None
BY AtWork DEF Finish, Finished, Ended, Idle, JobMoves, JobState, PC

\* save_conversation writes the job's own row.
LEMMA WrittenRow ==
  ASSUME NEW j \in Job, IInv, ~At(j, "idle"), Written(j)
  PROVE  /\ stored' \in [Conversation -> SUBSET Entry]
         /\ \A c \in Conversation : c # job[j].conv => stored'[c] = stored[c]
BY AtWork DEF Written

\* One visitor's row changes, within its type.
LEMMA VisitorRow ==
  ASSUME NEW j \in Job, IInv, ~At(j, "idle"), EventOf(j) \in WaEvent,
         \/ visitor' = [visitor EXCEPT ![EventOf(j).sender].known = TRUE]
         \/ visitor' = [visitor EXCEPT ![EventOf(j).sender].count = @ + 1]
         \/ UNCHANGED visitor
  PROVE  visitor' \in [Phone -> Visitor]
<1>1. visitor \in [Phone -> Visitor] /\ EventOf(j).sender \in Phone
  BY AtWork
<1> DEFINE p == EventOf(j).sender
<1>2. visitor[p].count + 1 \in Nat
  BY <1>1 DEF Visitor
<1>3. CASE visitor' = [visitor EXCEPT ![p].known = TRUE]
  BY <1>1, <1>3 DEF Visitor
<1>4. CASE visitor' = [visitor EXCEPT ![p].count = @ + 1]
  <2>1. visitor' = [visitor EXCEPT ![p] = [visitor[p] EXCEPT !.count = visitor[p].count + 1]]
    BY <1>4
  <2>2. [visitor[p] EXCEPT !.count = visitor[p].count + 1] \in Visitor
    BY <1>1, <1>2 DEF Visitor
  <2> QED BY <1>1, <2>1, <2>2
<1> QED BY <1>1, <1>3, <1>4

\* add_assistant_message.
LEMMA ReplyObject ==
  ASSUME NEW j \in Job, NEW verified \in BOOLEAN, IInv, job[j].pc \in TaskPC \ {"limit"},
         Reply(j, verified)
  PROVE  /\ JobMoves(j) /\ job'[j].pc = "saveReply" /\ job'[j].object = job[j].object
         /\ object' \in [Job -> Object]
         /\ \A k \in Job : /\ object'[k].conv = object[k].conv
                           /\ object'[k].history = object[k].history \/ k = job[j].object
<1> DEFINE o == job[j].object
           h == object[o].history \cup {Assistant(j)}
<1>1. /\ job[j] \in JobState /\ job \in [Job -> JobState] /\ object \in [Job -> Object] /\ o \in Job
  BY AtWork DEF At, TaskPC
<1>2. h \in SUBSET Entry
  BY <1>1 DEF Object, Assistant, Entry
<1>3. /\ object' = [object EXCEPT ![o] = [object[o] EXCEPT !.history = h, !.verified = verified]]
      /\ job' = [job EXCEPT ![j].pc = "saveReply", ![j].payload = h]
  BY <1>1 DEF Reply, ObjectOf
<1> HIDE DEF h
<1>4. /\ [object[o] EXCEPT !.history = h, !.verified = verified] \in Object
      /\ [object[o] EXCEPT !.history = h, !.verified = verified].conv = object[o].conv
  BY <1>1, <1>2 DEF Object
<1>5. JobMoves(j) /\ job'[j].pc = "saveReply" /\ job'[j].object = o
  BY <1>1, <1>2, <1>3 DEF JobMoves, JobState, PC
<1> QED BY <1>1, <1>3, <1>4, <1>5

LEMMA SaidStep ==
  ASSUME NEW j \in Job, IInv, Said(j)
  PROVE  IInv'
<1>1. job[j].pc = "canned" /\ ~At(j, "idle")
  BY DEF Said, At
<1>2. JobMoves(j) /\ job'[j].pc = "done" /\ job'[j].object = None
  BY <1>1, AtWork, FinishMoves DEF Said, JobState
<1> QED BY <1>1, <1>2, AtWork, TaskStep DEF Said, StoreUnchanged, TaskPC

LEMMA RefusedByLimitStep ==
  ASSUME NEW j \in Job, IInv, RefusedByLimit(j)
  PROVE  IInv'
<1>1. job[j].pc = "limit" /\ ~At(j, "idle") /\ EventOf(j) \in WaEvent
  BY DEF RefusedByLimit, At, IInv, JobShape
<1>2. JobMoves(j) /\ job'[j].pc = "canned" /\ job'[j].object = job[j].object
  BY <1>1, SayMoves DEF RefusedByLimit, Answer
<1> QED BY <1>1, <1>2, AtWork, TaskStep DEF RefusedByLimit, StoreUnchanged, TaskPC

LEMMA PassesLimitStep ==
  ASSUME NEW j \in Job, IInv, PassesLimit(j)
  PROVE  IInv'
<1>1. /\ EventOf(j) \in WaEvent /\ EventOf(j).sender \in LeadsOnly => Triggered(EventOf(j).sender)
      /\ job[j].pc = "limit"
  BY DEF PassesLimit, At, IInv, LeadsShape, PastFilter, TaskPC
<1> QED BY <1>1, OpeningStep DEF PassesLimit, Purpose

LEMMA ChatHubOpensStep ==
  ASSUME NEW j \in Job, IInv, ChatHubOpens(j)
  PROVE  IInv'
<1>1. job[j].pc = "arrived" /\ EventOf(j) \in ChatHubEvent
  BY DEF ChatHubOpens, At, IInv, JobShape
<1>2. EventOf(j) \notin WaEvent
  BY <1>1 DEF WaEvent, ChatHubEvent
<1> QED BY <1>1, <1>2, OpeningStep DEF ChatHubOpens, Purpose

LEMMA SavedSteps ==
  ASSUME NEW j \in Job, IInv, WhatsAppUserSaved(j) \/ WhatsAppReplySaved(j)
  PROVE  IInv'
<1>1. /\ job[j].pc \in {"saveUser", "saveReply"} /\ ~At(j, "idle") /\ EventOf(j) \in WaEvent
      /\ Written(j) /\ UNCHANGED <<cache, object, visitor, shown, photos>>
  BY DEF WhatsAppUserSaved, WhatsAppReplySaved, At
<1>2. JobMoves(j) /\ job'[j].pc \in {"visitor", "count"} /\ job'[j].object = job[j].object
  BY <1>1, GotoMoves DEF WhatsAppUserSaved, WhatsAppReplySaved, PC
<1> QED BY <1>1, <1>2, AtWork, WrittenRow, TaskStep DEF TaskPC

LEMMA VisitorSteps ==
  ASSUME NEW j \in Job, IInv, GreetVisitor(j) \/ Count(j)
  PROVE  IInv'
<1>1. job[j].pc \in {"visitor", "count"} /\ ~At(j, "idle") /\ EventOf(j) \in WaEvent
  BY DEF GreetVisitor, Count, At, IInv, JobShape
<1>2. JobMoves(j) /\ job'[j].pc \in {"model", "send"} /\ job'[j].object = job[j].object
  BY <1>1, GotoMoves DEF GreetVisitor, Count, PC
<1>3. visitor' \in [Phone -> Visitor]
  BY <1>1, VisitorRow DEF GreetVisitor, Count, Known, Counted
<1>4. UNCHANGED <<cache, object, stored, shown, photos>>
  BY DEF GreetVisitor, Count, StoreUnchanged
<1> QED BY <1>1, <1>2, <1>3, <1>4, AtWork, TaskStep DEF TaskPC

LEMMA SendsStep ==
  ASSUME NEW j \in Job, IInv, Sends(j)
  PROVE  IInv'
<1>1. job[j].pc = "send" /\ ~At(j, "idle") /\ EventOf(j) \in WaEvent
  BY DEF Sends, At, IInv, JobShape
<1>2. JobMoves(j) /\ job'[j].pc = "extras" /\ job'[j].object = job[j].object
  BY <1>1, GotoMoves DEF Sends, PC
<1>3. shown' \in [Job -> {0, 1}] /\ \A k \in Job : k # j => shown'[k] = shown[k]
  BY <1>1, AtWork DEF Sends
<1>4. UNCHANGED <<cache, object, stored, visitor, photos>>
  BY DEF Sends, StoreUnchanged
<1> QED BY <1>1, <1>2, <1>3, <1>4, AtWork, TaskStep DEF TaskPC

LEMMA WrapUpStep ==
  ASSUME NEW j \in Job, IInv, WrapUp(j)
  PROVE  IInv'
<1>1. job[j].pc = "extras" /\ ~At(j, "idle") /\ EventOf(j) \in WaEvent
  BY DEF WrapUp, At, IInv, JobShape
<1>2. JobMoves(j) /\ job'[j].pc = "done" /\ job'[j].object = None
  BY <1>1, FinishMoves DEF WrapUp, Answer
<1>3. visitor' \in [Phone -> Visitor]
  BY <1>1, VisitorRow DEF WrapUp, Known
<1>4. UNCHANGED <<cache, object, stored, shown, photos>>
  BY DEF WrapUp, StoreUnchanged
<1> QED BY <1>1, <1>2, <1>3, <1>4, AtWork, TaskStep DEF TaskPC

LEMMA AnswersStep ==
  ASSUME NEW j \in Job, IInv, Answers(j)
  PROVE  IInv'
<1>1. job[j].pc = "model" /\ job[j].pc \in TaskPC \ {"limit"} /\ ~At(j, "idle")
  BY DEF Answers, At, TaskPC
<1>2. ObjectOf(j).verified \in BOOLEAN
  BY <1>1, AtWork DEF ObjectOf, Object
<1>3. PICK verified \in BOOLEAN : Reply(j, verified)
  BY <1>2 DEF Answers
<1>4. UNCHANGED <<cache, stored, visitor, shown, photos>>
  BY DEF Answers
<1> QED BY <1>1, <1>3, <1>4, ReplyObject, AtWork, TaskStep DEF TaskPC

LEMMA ChatHubUserSavedStep ==
  ASSUME NEW j \in Job, IInv, ChatHubUserSaved(j)
  PROVE  IInv'
<1>1. job[j].pc = "saveUser" /\ job[j].pc \in TaskPC \ {"limit"} /\ ~At(j, "idle")
  BY DEF ChatHubUserSaved, At, TaskPC
<1>2. Written(j) /\ photos' \subseteq Job /\ UNCHANGED <<cache, visitor, shown>>
  BY <1>1, AtWork DEF ChatHubUserSaved, Photographed
<1>3. Proven(j) \in BOOLEAN
  BY <1>1, AtWork DEF Proven, ObjectOf, Object
<1>4. /\ JobMoves(j) /\ job'[j].pc \in {"saveReply", "model"} /\ job'[j].object = job[j].object
      /\ object' \in [Job -> Object]
      /\ \A k \in Job : /\ object'[k].conv = object[k].conv
                        /\ object'[k].history = object[k].history \/ k = job[j].object
  <2>1. CASE Reply(j, Proven(j))
    BY <1>1, <1>3, <2>1, ReplyObject
  <2>2. CASE /\ Goto(j, "model")
             /\ object' = [object EXCEPT ![job[j].object].verified = Proven(j)]
    <3> DEFINE proven == Proven(j)
    <3>1. object' = [object EXCEPT ![job[j].object].verified = proven] /\ proven \in BOOLEAN
      BY <1>3, <2>2
    <3> HIDE DEF proven
    <3>2. /\ object' \in [Job -> Object]
          /\ \A k \in Job : /\ object'[k].conv = object[k].conv
                            /\ object'[k].history = object[k].history
      BY <1>1, <3>1, AtWork DEF Object
    <3>3. JobMoves(j) /\ job'[j].pc = "model" /\ job'[j].object = job[j].object
      BY <1>1, <2>2, GotoMoves DEF PC
    <3> QED BY <3>2, <3>3
  <2> QED BY <2>1, <2>2 DEF ChatHubUserSaved
<1> QED BY <1>1, <1>2, <1>4, AtWork, WrittenRow, TaskStep DEF TaskPC

LEMMA ChatHubRespondsStep ==
  ASSUME NEW j \in Job, IInv, ChatHubResponds(j)
  PROVE  IInv'
<1>1. job[j].pc = "saveReply" /\ ~At(j, "idle")
  BY DEF ChatHubResponds, At
<1>2. JobMoves(j) /\ job'[j].pc = "done" /\ job'[j].object = None
  BY <1>1, FinishMoves DEF ChatHubResponds, Answer
<1>3. shown' \in [Job -> {0, 1}] /\ \A k \in Job : k # j => shown'[k] = shown[k]
  BY <1>1, AtWork DEF ChatHubResponds
<1>4. Written(j) /\ UNCHANGED <<cache, object, visitor, photos>>
  BY DEF ChatHubResponds
<1> QED BY <1>1, <1>2, <1>3, <1>4, AtWork, WrittenRow, TaskStep DEF TaskPC


\* A job whose statement never returns has at most had it executed.
LEMMA HangsStep ==
  ASSUME NEW j \in Job, IInv, Hangs(j)
  PROVE  IInv'
<1>1. /\ job[j].pc \in TaskPC \cup {"load"} /\ ~At(j, "idle")
      /\ job' = [job EXCEPT ![j] = Ended(j, "hung")] /\ UNCHANGED <<cache, object, shown, photos>>
  BY DEF Hangs, Statement, TaskPC, At
<1>2. JobMoves(j) /\ job'[j].pc = "hung" /\ job'[j].object = None
  BY <1>1, AtWork DEF Ended, Idle, JobMoves, JobState, PC
<1>3. /\ stored' \in [Conversation -> SUBSET Entry]
      /\ \A c \in Conversation : c # job[j].conv => stored'[c] = stored[c]
      /\ stored' # stored => job[j].pc \in TaskPC \ {"limit"}
  BY <1>1, AtWork, WrittenRow DEF Hangs, Statement, TaskPC, At
<1>4. visitor' \in [Phone -> Visitor]
  <2>1. CASE UNCHANGED visitor
    BY <1>1, <2>1, AtWork
  <2>2. CASE job[j].pc \in {"visitor", "extras", "count"} /\ (Known(j) \/ Counted(j))
    <3>1. EventOf(j) \in WaEvent
      BY <2>2 DEF IInv, JobShape
    <3> QED BY <1>1, <2>2, <3>1, VisitorRow DEF Known, Counted
  <2> QED BY <2>1, <2>2 DEF Hangs, Statement, At
<1> QED BY <1>1, <1>2, <1>3, <1>4, AtWork, TaskStep DEF TaskPC

\* A new day resets counts only.
LEMMA NewDayStep ==
  ASSUME IInv, NewDay
  PROVE  IInv'
<1>1. UNCHANGED <<job, cache, object, stored, shown, photos>>
  BY DEF NewDay, StoreUnchanged
<1>2. visitor' \in [Phone -> Visitor]
  BY DEF NewDay, IInv, TypeOK, Visitor
<1>3. TypeOK'
  BY <1>1, <1>2 DEF IInv, TypeOK, ObjectOf, EventOf
<1>4. \A j \in Job : JobShape(j)' /\ ShownShape(j)'
  BY <1>1 DEF IInv, JobShape, ShownShape, At, EventOf
<1>5. LeadsShape'
  BY <1>1 DEF IInv, LeadsShape, PastFilter, Triggered, At, EventOf
<1> QED BY <1>3, <1>4, <1>5 DEF IInv

\* A restart leaves deliveries, rows and what was shown.
LEMMA RestartStep ==
  ASSUME IInv, Restart
  PROVE  IInv'
<1>1. /\ object' = [j \in Job |-> NoObject] /\ cache' = [c \in Conversation |-> None]
      /\ UNCHANGED <<stored, visitor, shown, photos>>
  BY DEF Restart
<1>2. \A j \in Job : /\ job'[j].event = job[j].event /\ job'[j].conv = job[j].conv
                     /\ \/ job'[j] = job[j] /\ job[j].pc \in {"idle", "done", "lost"}
                        \/ job'[j].pc = "lost" /\ job'[j].object = None /\ ~At(j, "idle")
  BY DEF Restart, InFlight, Ended, Idle, At
<1>3. job' \in [Job -> JobState]
  BY DEF Restart, Ended, Idle, IInv, TypeOK, JobState, PC
<1>4. TypeOK'
  <2>1. object' \in [Job -> Object] /\ \A j \in Job : object'[j] = NoObject
    BY <1>1 DEF Object, NoObject
  <2>2. \A j \in Job : job'[j].object = None
    BY <1>2 DEF IInv, JobShape, At, Idle
  <2> QED BY <1>1, <1>3, <2>1, <2>2 DEF IInv, TypeOK
<1>5. \A j \in Job : JobShape(j)' /\ ShownShape(j)'
  BY <1>1, <1>2 DEF IInv, JobShape, ShownShape, At, EventOf, NoObject, TaskPC, Admitted, Ignored, Own
<1>6. LeadsShape'
  <2>1. \A p : Triggered(p) => Triggered(p)'
    BY <1>2, TriggeredStays DEF EventOf
  <2>2. \A j \in Job : PastFilter(j)' => PastFilter(j)
    BY <1>1, <1>2 DEF PastFilter, At, TaskPC
  <2> QED BY <1>1, <1>2, <2>1, <2>2 DEF IInv, LeadsShape, EventOf, NoObject
<1> QED BY <1>4, <1>5, <1>6 DEF IInv


LEMMA ArrivalStep ==
  ASSUME NEW j \in Job, IInv, Arrival(j)
  PROVE  IInv'
BY DeliveryStep DEF Arrival, WebhookIgnores, WebhookAdmits, ChatHubRefuses, ChatHubAdmits

LEMMA WorkStep ==
  ASSUME NEW j \in Job, IInv, Work(j)
  PROVE  IInv'
<1>1. CASE Webhook(j)
  BY <1>1, ContactCheckedStep, SaidStep DEF Webhook
<1>2. CASE Task(j)
  BY <1>2, RefusedByLimitStep, PassesLimitStep, SavedSteps, VisitorSteps, SendsStep, WrapUpStep
     DEF Task
<1>3. CASE ChatHub(j)
  BY <1>3, ChatHubOpensStep, ChatHubUserSavedStep, ChatHubRespondsStep DEF ChatHub
<1> QED BY <1>1, <1>2, <1>3, LoadStep, AnswersStep DEF Work

LEMMA Stuttering ==
  ASSUME IInv, UNCHANGED vars
  PROVE  IInv'
<1>1. TypeOK'
  BY DEF vars, IInv, TypeOK, ObjectOf, EventOf
<1>2. \A j \in Job : JobShape(j)' /\ ShownShape(j)'
  BY DEF vars, IInv, JobShape, ShownShape, At, EventOf
<1>3. LeadsShape'
  BY DEF vars, IInv, LeadsShape, PastFilter, Triggered, At, EventOf
<1> QED BY <1>1, <1>2, <1>3 DEF IInv

LEMMA Inductive == Spec => []IInv
<1>1. IInv /\ [Next]_vars => IInv'
  BY ArrivalStep, WorkStep, HangsStep, NewDayStep, RestartStep, Stuttering DEF Next
<1> QED BY Initially, <1>1, PTL DEF Spec

-----------------------------------------------------------------------------
(* The theorems. *)

\* Every job and the cache hold an object of their own customer's conversation, however the
\* jobs' reads and writes interleave: StateStore.get_or_create_async, state.py:121-159.
THEOREM TypeCorrect == Spec => []TypeOK
<1>1. IInv => TypeOK
  BY DEF IInv
<1> QED BY Inductive, <1>1, PTL

\* No delivery is answered twice and the bot never answers itself, a group or an excluded
\* number: the filters of whatsapp_webhook and the one send of _process_whatsapp_message.
LEMMA AnsweredOnce == Spec => []OneAnswerPerDelivery
<1>1. IInv => OneAnswerPerDelivery
  <2> SUFFICES ASSUME IInv, NEW j \in Job
               PROVE  /\ shown[j] <= 1
                      /\ shown[j] = 1 /\ EventOf(j) \in WaEvent =>
                           /\ EventOf(j).fromMe = "no"
                           /\ EventOf(j).place = "person"
                           /\ EventOf(j).sender \notin Excluded
    BY DEF OneAnswerPerDelivery
  <2>1. shown[j] \in {0, 1} /\ (shown[j] = 1 => Admitted(EventOf(j)))
    BY DEF IInv, ShownShape
  <2>2. EventOf(j) \in WaEvent => EventOf(j) \notin ChatHubEvent
    BY DEF WaEvent, ChatHubEvent
  <2> QED BY <2>1, <2>2 DEF Admitted, Ignored, Own
<1> QED BY Inductive, <1>1, PTL

\* The leads filter holds for any number of messages, resets, restarts and failing reads and
\* writes: what reaches the engine, or a row, is of a number that has sent a trigger phrase.
LEMMA LeadsFilterHolds == Spec => []LeadsOnlyAnswered
<1>1. IInv => LeadsOnlyAnswered
  BY DEF IInv, LeadsShape, LeadsOnlyAnswered, PastFilter, TaskPC, At, ShownShape
<1> QED BY Inductive, <1>1, PTL

\* The webhook's filters and the task's one send, for any number of numbers, jobs and events:
\* what leaves the channels is one answer to a delivery that is due one.
THEOREM OnlyDueAnswersLeave == Spec => []OnlyDueAnswers
<1> QED BY AnsweredOnce, LeadsFilterHolds, PTL DEF OnlyDueAnswers

=============================================================================
