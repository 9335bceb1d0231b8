------------------------ MODULE ChatTurnSerialProofs ------------------------
(***************************************************************************)
(* Theorems about ChatTurn when one turn at a time is in progress: a       *)
(* client that waits for each answer.  Writes may fail and the process may *)
(* restart; what needs reads that do not fail says so.                     *)
(***************************************************************************)
EXTENDS ChatTurnProofs

-----------------------------------------------------------------------------
(* The inductive invariant. *)

Alone == \A t, u \in Turn : InFlight(t) /\ InFlight(u) => t = u

\* The turn's message is the last one of the history.
Ends(h, t) == Len(h) > 0 /\ h[Len(h)] = User(t)

\* What a turn that is alone can rely on: its object is the cached one, and nobody adds
\* to its history or inserts its row.
Own(t) ==
  /\ task[t].pc \in {"load", "readLoad"} => cache[task[t].conv] = None
  /\ task[t].pc \in Holding => cache[task[t].conv] = task[t].object
  /\ task[t].pc \in {"saveUser", "visitor", "model"} => Ends(object[task[t].object].history, t)
  /\ task[t].pc = "model" => task[t].prompt = Front(object[task[t].object].history)
  /\ task[t].pc = "insert" => projected[task[t].conv] = 0

\* A resolved identity is on the cached object.
Recognised == \A c \in proved : cache[c] # None /\ object[cache[c]].verified

SerialInv == Alone /\ (\A t \in Turn : Own(t)) /\ Recognised /\ OneProjection

-----------------------------------------------------------------------------
(* Steps. *)

Starts(t) == \E c \in Conv : Arrive(t, c) \/ RefusedByCost(t, c) \/ Read(t, c)

LEMMA TurnState ==
  ASSUME IInv, NEW t \in Turn
  PROVE  /\ task \in [Turn -> TaskState] /\ task[t] \in TaskState
         /\ object \in [Turn -> ObjectState] /\ cache \in [Conv -> Turn \cup {None}]
         /\ task[t].pc # "idle" => task[t].conv \in Conv
         /\ task[t].pc \in Holding => task[t].object \in Turn
         /\ task[t].pc \in Early => object[t] = NoObject /\ \A c \in Conv : cache[c] # t
         /\ None \notin Turn
<1>1. task \in [Turn -> TaskState] /\ object \in [Turn -> ObjectState] /\ cache \in [Conv -> Turn \cup {None}]
  BY DEF IInv, TypeCore
<1>2. None \notin Turn
  BY ChatTurnAssumption
<1>3. Shape(t)
  BY DEF IInv
<1>4. task[t].pc \in Early => \A c \in Conv : cache[c] # t
  BY <1>2 DEF IInv, CacheOK, Begun
<1> QED BY <1>1, <1>2, <1>3, <1>4 DEF Shape

\* The other turns stay where they are, none of them in flight.
LEMMA OthersRest ==
  ASSUME IInv, Alone, ~Overlap, NEW t \in Turn, Starts(t) \/ TurnStep(t)
  PROVE  /\ task' = [task EXCEPT ![t] = task'[t]]
         /\ \A u \in Turn : u # t => task'[u] = task[u] /\ ~InFlight(u)
<1>1. task \in [Turn -> TaskState]
  BY TurnState
<1>2. ASSUME NEW x, task' = [task EXCEPT ![t] = x]
      PROVE  task' = [task EXCEPT ![t] = task'[t]] /\ \A u \in Turn : u # t => task'[u] = task[u]
  BY <1>1, <1>2
<1>3. CASE Starts(t)
  <2>1. Quiet /\ \E x : task' = [task EXCEPT ![t] = x]
    BY <1>3 DEF Starts, Arrive, RefusedByCost, Read, CanStart
  <2> QED BY <1>2, <2>1 DEF Quiet
<1>4. CASE TurnStep(t)
  <2>1. InFlight(t)
    BY <1>4 DEF TurnStep, RefusedByLimit, OpenCached, OpenMissing, Load, ReadLoad, SaveUser,
                Prepare, ModelIdentifies, ModelAnswers, ModelRaises, SaveReply, Count,
                ProjectRead, ProjectInsert, InFlight
  <2>2. task' = task \/ \E x : task' = [task EXCEPT ![t] = x]
    <3>1. ASSUME NEW o, NEW h, NEW e, Said(t, o, h, e)
          PROVE  \E x : task' = [task EXCEPT ![t] = x]
      BY <3>1 DEF Said
    <3>2. ASSUME NEW pc, Goto(t, pc) \/ Finish(t) \/ Save(t, pc)
          PROVE  \E x : task' = [task EXCEPT ![t] = x]
      BY <3>2 DEF Goto, Finish, Save
    <3>3. CASE RefusedByLimit(t) \/ OpenMissing(t) \/ ReadLoad(t) \/ SaveUser(t) \/ ModelRaises(t)
               \/ SaveReply(t) \/ Count(t) \/ ProjectRead(t) \/ ProjectInsert(t)
      BY <3>2, <3>3 DEF RefusedByLimit, OpenMissing, ReadLoad, SaveUser, ModelRaises,
                        SaveReply, Count, ProjectRead, ProjectInsert
    <3>4. CASE OpenCached(t) \/ Load(t) \/ ModelAnswers(t)
      BY <3>1, <3>4 DEF OpenCached, Load, ModelAnswers
    <3>5. CASE Prepare(t)
      BY <3>5 DEF Prepare
    <3>6. CASE ModelIdentifies(t)
      BY <3>6 DEF ModelIdentifies
    <3> QED BY <1>4, <3>3, <3>4, <3>5, <3>6 DEF TurnStep
  <2>3. \A u \in Turn : u # t => ~InFlight(u)
    BY <2>1 DEF Alone
  <2> QED BY <1>1, <1>2, <2>2, <2>3
<1> QED BY <1>3, <1>4

\* So only the turn that steps has to be looked at.
LEMMA OnlyOne ==
  ASSUME NEW t \in Turn, \A u \in Turn : u # t => task'[u] = task[u] /\ ~InFlight(u)
  PROVE  Alone' /\ \A u \in Turn : u # t => Own(u)'
<1>1. \A u \in Turn : u # t => task'[u].pc \in {"idle", "done"}
  BY DEF InFlight
<1>2. Alone'
  BY <1>1 DEF Alone, InFlight
<1>3. \A u \in Turn : u # t => Own(u)'
  BY <1>1 DEF Own, Holding
<1> QED BY <1>2, <1>3

LEMMA RecognisedStays ==
  ASSUME IInv, Recognised, UNCHANGED <<cache, proved>>,
         \A u \in Turn : object[u].verified => object'[u].verified
  PROVE  Recognised'
<1>1. \A c \in proved : c \in Conv /\ cache[c] \in Turn \cup {None}
  BY DEF IInv, TypeCore
<1> QED BY <1>1 DEF Recognised

LEMMA AppendedEntry ==
  ASSUME NEW h \in Seq(Entry), NEW e \in Entry
  PROVE  /\ Append(h, e) \in Seq(Entry) /\ Len(h) \in Nat
         /\ Len(Append(h, e)) = Len(h) + 1
         /\ \A i \in 1..Len(h) : Append(h, e)[i] = h[i]
         /\ Append(h, e)[Len(Append(h, e))] = e
BY AppendProperties, LenProperties

\* What a turn's message or reply does to its locals and to the object it is said on.
LEMMA SaidEffect ==
  ASSUME IInv, NEW t \in Turn, NEW o \in Turn, NEW h, NEW e, Said(t, o, h, e)
  PROVE  /\ task'[t].pc = IF e.role = "user" THEN "saveUser" ELSE "saveReply"
         /\ task'[t].conv = task[t].conv /\ task'[t].object = o
         /\ task'[t].payload = Append(h, e)
         /\ object'[o].history = Append(h, e)
         /\ \A u \in Turn : object'[u].verified = object[u].verified
         /\ \A u \in Turn : u # o => object'[u] = object[u]
<1>1. task \in [Turn -> TaskState] /\ object \in [Turn -> ObjectState]
  BY TurnState
<1>2. \A u \in Turn : object[u] \in ObjectState
  BY <1>1
<1>3. task[t] \in TaskState
  BY <1>1
<1> DEFINE g == Append(h, e)
<1>4. /\ object' = [object EXCEPT ![o].history = g]
      /\ task' = [task EXCEPT ![t].object = o, ![t].payload = g,
                  ![t].prompt = <<>>, ![t].pc = IF e.role = "user" THEN "saveUser" ELSE "saveReply"]
  BY DEF Said
<1> HIDE DEF g
<1>5. object'[o] = [object[o] EXCEPT !.history = g] /\ \A u \in Turn : u # o => object'[u] = object[u]
  BY <1>1, <1>4
<1>6. object'[o].history = g /\ object'[o].verified = object[o].verified
  BY <1>2, <1>5 DEF ObjectState
<1>7. task'[t] = [task[t] EXCEPT !.object = o, !.payload = g, !.prompt = <<>>,
                  !.pc = IF e.role = "user" THEN "saveUser" ELSE "saveReply"]
  BY <1>1, <1>4
<1>8. /\ task'[t].pc = IF e.role = "user" THEN "saveUser" ELSE "saveReply"
      /\ task'[t].conv = task[t].conv /\ task'[t].object = o
      /\ task'[t].payload = g
  BY <1>3, <1>7 DEF TaskState
<1> QED BY <1>5, <1>6, <1>8 DEF g

\* The same of the client's message, and of the reply.
LEMMA UserSaid ==
  ASSUME IInv, NEW t \in Turn, NEW o \in Turn, NEW h, Said(t, o, h, User(t))
  PROVE  /\ task'[t].pc = "saveUser" /\ task'[t].conv = task[t].conv /\ task'[t].object = o
         /\ object'[o].history = Append(h, User(t))
         /\ \A u \in Turn : object'[u].verified = object[u].verified
         /\ \A u \in Turn : u # o => object'[u] = object[u]
<1> DEFINE e == User(t)
<1>1. Said(t, o, h, e) /\ e.role = "user"
  BY Messages
<1> HIDE DEF e
<1>2. /\ task'[t].pc = IF e.role = "user" THEN "saveUser" ELSE "saveReply"
      /\ task'[t].conv = task[t].conv /\ task'[t].object = o
      /\ object'[o].history = Append(h, e)
      /\ \A u \in Turn : object'[u].verified = object[u].verified
      /\ \A u \in Turn : u # o => object'[u] = object[u]
  BY <1>1, SaidEffect
<1>3. task'[t].pc = "saveUser"
  BY <1>1, <1>2
<1> QED BY <1>2, <1>3 DEF e

LEMMA ReplySaid ==
  ASSUME IInv, NEW t \in Turn, NEW o \in Turn, NEW h, Said(t, o, h, Assistant(t))
  PROVE  /\ task'[t].pc = "saveReply" /\ task'[t].conv = task[t].conv /\ task'[t].object = o
         /\ object'[o].history = Append(h, Assistant(t))
         /\ \A u \in Turn : object'[u].verified = object[u].verified
         /\ \A u \in Turn : u # o => object'[u] = object[u]
<1> DEFINE e == Assistant(t)
<1>1. Said(t, o, h, e) /\ e.role = "assistant"
  BY Messages
<1> HIDE DEF e
<1>2. /\ task'[t].pc = IF e.role = "user" THEN "saveUser" ELSE "saveReply"
      /\ task'[t].conv = task[t].conv /\ task'[t].object = o
      /\ object'[o].history = Append(h, e)
      /\ \A u \in Turn : object'[u].verified = object[u].verified
      /\ \A u \in Turn : u # o => object'[u] = object[u]
  BY <1>1, SaidEffect
<1>3. task'[t].pc = "saveReply"
  BY <1>1, <1>2
<1> QED BY <1>2, <1>3 DEF e

\* The same of the steps that only go on.
LEMMA GotoEffect ==
  ASSUME IInv, NEW t \in Turn
  PROVE  /\ \A pc : Goto(t, pc) \/ Save(t, pc) =>
              /\ task'[t].pc = pc /\ task'[t].conv = task[t].conv
              /\ task'[t].object = task[t].object
         /\ Finish(t) => task'[t].pc = "done" /\ task'[t].conv = task[t].conv
<1>1. task \in [Turn -> TaskState] /\ task[t] \in TaskState
  BY TurnState
<1>2. ASSUME NEW pc, Goto(t, pc)
      PROVE  /\ task'[t].pc = pc /\ task'[t].conv = task[t].conv
             /\ task'[t].object = task[t].object
  BY <1>1, <1>2 DEF Goto, TaskState
<1>3. ASSUME NEW pc, Save(t, pc)
      PROVE  /\ task'[t].pc = pc /\ task'[t].conv = task[t].conv
             /\ task'[t].object = task[t].object
  <2>1. task'[t] = [task[t] EXCEPT !.pc = pc, !.payload = <<>>]
    BY <1>1, <1>3 DEF Save
  <2> QED BY <1>1, <2>1 DEF TaskState
<1>4. ASSUME Finish(t)
      PROVE  task'[t].pc = "done" /\ task'[t].conv = task[t].conv
  <2>1. task'[t] = Finished(t)
    BY <1>1, <1>4 DEF Finish
  <2> QED BY <2>1 DEF Finished, Idle
<1> QED BY <1>2, <1>3, <1>4

LEMMA StartsEffect ==
  ASSUME IInv, NEW t \in Turn, Starts(t)
  PROVE  /\ UNCHANGED <<cache, object, stored, visitor, spent, clock, tally, proved, projected>>
         /\ task'[t].pc \in {"limit", "done", "readLoad"}
         /\ task'[t].pc = "readLoad" => cache[task'[t].conv] = None
         /\ task'[t].pc = "limit" => CostAllows
<1>1. task \in [Turn -> TaskState]
  BY TurnState
<1>2. PICK c \in Conv : Arrive(t, c) \/ RefusedByCost(t, c) \/ Read(t, c)
  BY DEF Starts
<1>3. CASE Arrive(t, c)
  BY <1>1, <1>3 DEF Arrive, Idle
<1>4. CASE RefusedByCost(t, c)
  BY <1>1, <1>4 DEF RefusedByCost, Idle
<1>5. CASE Read(t, c)
  BY <1>1, <1>5 DEF Read, Idle
<1> QED BY <1>2, <1>3, <1>4, <1>5

LEMMA StartsSerial ==
  ASSUME IInv, SerialInv, ~Overlap, NEW t \in Turn, Starts(t)
  PROVE  SerialInv'
<1>1. Alone' /\ \A u \in Turn : u # t => Own(u)'
  BY OthersRest, OnlyOne DEF SerialInv
<1>2. UNCHANGED <<cache, object, stored, visitor, spent, clock, tally, proved, projected>>
  BY DEF Starts, Arrive, RefusedByCost, Read
<1>3. Recognised' /\ OneProjection'
  BY <1>2 DEF SerialInv, Recognised, OneProjection
<1>4. Own(t)'
  BY <1>2, StartsEffect DEF Own, Holding
<1> QED BY <1>1, <1>3, <1>4 DEF SerialInv

\* Steps that only go on: no object, nothing cached.
LEMMA QuietSerial ==
  ASSUME IInv, SerialInv, ~Overlap, NEW t \in Turn,
         \/ RefusedByLimit(t) \/ OpenMissing(t) \/ SaveUser(t) \/ ModelRaises(t)
         \/ SaveReply(t) \/ Count(t) \/ ProjectRead(t) \/ ProjectInsert(t)
  PROVE  SerialInv'
<1>1. Alone' /\ \A u \in Turn : u # t => Own(u)'
  <2>1. TurnStep(t)
    BY DEF TurnStep
  <2> QED BY <2>1, OthersRest, OnlyOne DEF SerialInv
<1>2. UNCHANGED <<cache, object, proved>>
  BY DEF RefusedByLimit, OpenMissing, SaveUser, ModelRaises, SaveReply, Count, ProjectRead, ProjectInsert
<1>3. Recognised'
  BY <1>2 DEF SerialInv, Recognised
<1>4. projected \in [Conv -> Nat] /\ (task[t].pc # "idle" => task[t].conv \in Conv)
  BY TurnState DEF IInv, TypeCore
<1>5. CASE RefusedByLimit(t) \/ ModelRaises(t)
  <2>1. task'[t].pc = "done" /\ projected' = projected
    BY <1>5, GotoEffect DEF RefusedByLimit, ModelRaises
  <2>2. Own(t)'
    BY <2>1 DEF Own, Holding
  <2> QED BY <1>1, <1>3, <2>1, <2>2 DEF SerialInv, OneProjection
<1>6. CASE OpenMissing(t)
  <2>1. /\ task'[t].pc = "load" /\ task'[t].conv = task[t].conv
        /\ cache[task[t].conv] = None /\ projected' = projected
    BY <1>6, GotoEffect DEF OpenMissing
  <2>2. Own(t)'
    BY <1>2, <2>1 DEF Own, Holding
  <2> QED BY <1>1, <1>3, <2>1, <2>2 DEF SerialInv, OneProjection
<1>7. CASE SaveUser(t)
  <2>1. /\ task[t].pc = "saveUser" /\ task'[t].pc = "visitor" /\ task'[t].conv = task[t].conv
        /\ task'[t].object = task[t].object /\ projected' = projected
    BY <1>7, GotoEffect DEF SaveUser
  <2>2. Own(t)
    BY DEF SerialInv
  <2>3. Own(t)'
    BY <1>2, <2>1, <2>2 DEF Own, Holding
  <2> QED BY <1>1, <1>3, <2>1, <2>3 DEF SerialInv, OneProjection
<1>8. CASE SaveReply(t) \/ Count(t)
  <2>1. task'[t].pc \in {"count", "project"} /\ projected' = projected
    BY <1>8, GotoEffect DEF SaveReply, Count
  <2>2. Own(t)'
    BY <2>1 DEF Own, Holding
  <2> QED BY <1>1, <1>3, <2>1, <2>2 DEF SerialInv, OneProjection
<1>9. CASE ProjectRead(t)
  <2>1. /\ task[t].pc = "project" /\ projected' = projected /\ task'[t].conv = task[t].conv
        /\ \/ task'[t].pc = "done"
           \/ task'[t].pc = "insert" /\ ~(projected[task[t].conv] > 0)
    BY <1>9, GotoEffect DEF ProjectRead, HasProjection
  <2>2. task'[t].pc = "insert" => projected[task[t].conv] = 0
    <3>1. projected[task[t].conv] \in Nat
      BY <1>4, <2>1
    <3> QED BY <2>1, <3>1
  <2>3. Own(t)'
    BY <2>1, <2>2 DEF Own, Holding
  <2> QED BY <1>1, <1>3, <2>1, <2>3 DEF SerialInv, OneProjection
<1>10. CASE ProjectInsert(t)
  <2>1. /\ task[t].pc = "insert" /\ task'[t].pc = "done"
        /\ \/ projected' = projected
           \/ projected' = [projected EXCEPT ![task[t].conv] = @ + 1]
    BY <1>10, GotoEffect DEF ProjectInsert
  <2>2. projected[task[t].conv] = 0
    BY <2>1 DEF SerialInv, Own
  <2>3. OneProjection'
    <3>1. task[t].conv \in Conv /\ projected \in [Conv -> Nat] /\ OneProjection
      BY <1>4, <2>1 DEF SerialInv
    <3>2. \A c \in Conv : projected'[c] = projected[c] \/ projected'[c] = 1
      BY <2>1, <2>2, <3>1
    <3> QED BY <3>1, <3>2 DEF OneProjection
  <2>4. Own(t)'
    BY <2>1 DEF Own, Holding
  <2> QED BY <1>1, <1>3, <2>3, <2>4 DEF SerialInv
<1> QED BY <1>5, <1>6, <1>7, <1>8, <1>9, <1>10

\* Messages, replies and loads.
LEMMA SayingSerial ==
  ASSUME IInv, SerialInv, ~Overlap, NEW t \in Turn,
         \/ OpenCached(t) \/ Load(t) \/ ModelAnswers(t) \/ ReadLoad(t)
  PROVE  SerialInv'
<1>1. Alone' /\ \A u \in Turn : u # t => Own(u)'
  <2>1. TurnStep(t)
    BY DEF TurnStep
  <2> QED BY <2>1, OthersRest, OnlyOne DEF SerialInv
<1>2. proved' = proved /\ projected' = projected
  BY DEF OpenCached, Load, ModelAnswers, ReadLoad
<1>3. OneProjection'
  BY <1>2 DEF SerialInv, OneProjection
<1>4. /\ task \in [Turn -> TaskState] /\ object \in [Turn -> ObjectState]
      /\ cache \in [Conv -> Turn \cup {None}] /\ None \notin Turn /\ proved \subseteq Conv
      /\ task[t].pc # "idle" => task[t].conv \in Conv
      /\ \A u \in Turn : object[u].history \in Seq(Entry)
  BY TurnState DEF IInv, TypeCore, ObjectState
<1>5. Own(t) /\ Recognised
  BY DEF SerialInv
<1>6. CASE OpenCached(t)
  <2> DEFINE o == cache[task[t].conv]
  <2>1. /\ task[t].pc = "limit" /\ o # None /\ cache' = cache
        /\ Said(t, o, object[o].history, User(t))
    BY <1>6 DEF OpenCached
  <2>2. o \in Turn
    BY <1>4, <2>1
  <2>3. /\ task'[t].pc = "saveUser" /\ task'[t].conv = task[t].conv /\ task'[t].object = o
        /\ object'[o].history = Append(object[o].history, User(t))
        /\ \A u \in Turn : object'[u].verified = object[u].verified
    <3> DEFINE h == object[o].history
    <3>1. o \in Turn /\ Said(t, o, h, User(t))
      BY <2>1, <2>2
    <3> HIDE DEF o, h
    <3>2. /\ task'[t].pc = "saveUser" /\ task'[t].conv = task[t].conv /\ task'[t].object = o
          /\ object'[o].history = Append(h, User(t))
          /\ \A u \in Turn : object'[u].verified = object[u].verified
      BY <3>1, UserSaid
    <3> QED BY <3>2 DEF h
  <2>4. Ends(object'[o].history, t)
    <3> DEFINE h == object[o].history
               e == User(t)
    <3>1. h \in Seq(Entry) /\ e \in Entry /\ object'[o].history = Append(h, e)
      BY <1>4, <2>2, <2>3, Messages
    <3>2. Ends(Append(h, e), t)
      <4>1. e = User(t)
        OBVIOUS
      <4> HIDE DEF h, e
      <4>2. Len(Append(h, e)) > 0 /\ Append(h, e)[Len(Append(h, e))] = e
        BY <3>1, AppendedEntry
      <4> QED BY <4>1, <4>2 DEF Ends
    <3> QED BY <3>1, <3>2
  <2>5. Own(t)'
    BY <2>1, <2>3, <2>4 DEF Own, Holding
  <2>6. Recognised'
    BY <1>2, <1>5, <2>1, <2>3, RecognisedStays
  <2> QED BY <1>1, <1>3, <2>5, <2>6 DEF SerialInv
<1>7. CASE ModelAnswers(t)
  <2> DEFINE o == task[t].object
  <2>1. /\ task[t].pc = "model" /\ cache' = cache
        /\ Said(t, o, object[o].history, Assistant(t))
    BY <1>7 DEF ModelAnswers, ReplyObject
  <2>2. o \in Turn /\ cache[task[t].conv] = o
    BY <1>5, <2>1, TurnState DEF Own, Holding
  <2>3. /\ task'[t].pc = "saveReply" /\ task'[t].conv = task[t].conv /\ task'[t].object = o
        /\ \A u \in Turn : object'[u].verified = object[u].verified
    <3> DEFINE h == object[o].history
    <3>1. o \in Turn /\ Said(t, o, h, Assistant(t))
      BY <2>1, <2>2
    <3> HIDE DEF o, h
    <3> QED BY <3>1, ReplySaid
  <2>4. Own(t)'
    BY <2>1, <2>2, <2>3 DEF Own, Holding
  <2>5. Recognised'
    BY <1>2, <1>5, <2>1, <2>3, RecognisedStays
  <2> QED BY <1>1, <1>3, <2>4, <2>5 DEF SerialInv
\* The conversation was not in memory, so its identity is not resolved.
<1>8. ASSUME task[t].pc \in {"load", "readLoad"}, cache' = [cache EXCEPT ![task[t].conv] = t],
             \A u \in Turn : u # t => object'[u] = object[u]
      PROVE  Recognised'
  <2>1. task[t].conv \in Conv /\ cache[task[t].conv] = None
    BY <1>4, <1>5, <1>8 DEF Own
  <2>2. \A c \in proved : c # task[t].conv
    BY <1>5, <2>1 DEF Recognised
  <2>3. \A c \in proved : cache'[c] = cache[c] /\ cache[c] \in Turn /\ cache[c] # t
    <3>1. \A c \in Conv : cache[c] # t
      BY <1>8, TurnState DEF Early
    <3> QED BY <1>4, <1>5, <1>8, <2>2, <3>1 DEF Recognised
  <2> QED BY <1>2, <1>5, <1>8, <2>3 DEF Recognised
<1>9. CASE Load(t)
  <2>1. task[t].pc = "load" /\ cache' = [cache EXCEPT ![task[t].conv] = t]
    BY <1>9 DEF Load, CacheKey
  <2>2. PICK h \in Loaded(task[t].conv) : Said(t, t, h, User(t))
    BY <1>9 DEF Load
  <2>3. task[t].conv \in Conv /\ h \in Seq(Entry)
    BY <1>4, <2>1, <2>2, LoadedClean DEF Clean
  <2>4. /\ task'[t].pc = "saveUser" /\ task'[t].conv = task[t].conv /\ task'[t].object = t
        /\ object'[t].history = Append(h, User(t))
        /\ \A u \in Turn : u # t => object'[u] = object[u]
    BY <2>2, UserSaid
  <2>5. Ends(object'[t].history, t)
    <3>1. Len(Append(h, User(t))) > 0
      BY <2>3, AppendedEntry, Messages
    <3> QED BY <2>3, <2>4, <3>1, AppendedEntry, Messages DEF Ends
  <2>6. cache'[task[t].conv] = t
    BY <1>4, <2>1, <2>3
  <2>7. Own(t)'
    BY <2>4, <2>5, <2>6 DEF Own, Holding
  <2> QED BY <1>1, <1>3, <1>8, <2>1, <2>4, <2>7 DEF SerialInv
<1>10. CASE ReadLoad(t)
  <2>1. /\ task[t].pc = "readLoad" /\ cache' = [cache EXCEPT ![task[t].conv] = t]
        /\ task'[t].pc = "done" /\ \E h : object' = [object EXCEPT ![t].history = h]
    BY <1>10, GotoEffect DEF ReadLoad, CacheKey
  <2>2. \A u \in Turn : u # t => object'[u] = object[u]
    BY <1>4, <2>1
  <2>3. Own(t)'
    BY <2>1 DEF Own, Holding
  <2> QED BY <1>1, <1>3, <1>8, <2>1, <2>2, <2>3 DEF SerialInv
<1> QED BY <1>6, <1>7, <1>9, <1>10

\* Where an identity resolved in this process shows: the gate of the turn being prepared.
LEMMA PrepareEffect ==
  ASSUME IInv, SerialInv, NEW t \in Turn, Prepare(t)
  PROVE  /\ task[t].pc = "visitor" /\ task[t].object \in Turn /\ task[t].conv \in Conv
         /\ task'[t].pc = "model" /\ task'[t].conv = task[t].conv
         /\ task'[t].object = task[t].object
         /\ task'[t].prompt = Front(object[task[t].object].history)
         /\ cache' = cache /\ projected' = projected
         /\ \A u \in Turn : /\ object'[u].history = object[u].history
                            /\ object[u].verified => object'[u].verified
         /\ task[t].conv \in proved' => object'[task[t].object].verified
         /\ task[t].conv \in proved => task'[t].gate
         /\ \A c \in proved' : c \in proved \/ c = task[t].conv
<1> DEFINE o == task[t].object
<1>1. /\ task[t].pc = "visitor" /\ o \in Turn /\ task[t].conv \in Conv
      /\ cache' = cache /\ projected' = projected
      /\ task \in [Turn -> TaskState] /\ object \in [Turn -> ObjectState]
  BY TurnState DEF Prepare, Holding
<1>2. PICK token, resolves \in BOOLEAN :
        LET verified == Verify(t, token, resolves) IN
        /\ object' = [object EXCEPT ![o].verified = verified]
        /\ proved' = IF ~ObjectOf(t).verified /\ token /\ resolves THEN proved \cup {task[t].conv} ELSE proved
        /\ task' = [task EXCEPT ![t].pc = "model", ![t].gate = verified,
                                ![t].prompt = PromptOf(ObjectOf(t).history)]
  BY DEF Prepare
<1> DEFINE v == Verify(t, token, resolves)
           p == PromptOf(ObjectOf(t).history)
<1>3. task'[t] = [task[t] EXCEPT !.pc = "model", !.gate = v, !.prompt = p]
  BY <1>1, <1>2
<1>4. object'[o] = [object[o] EXCEPT !.verified = v] /\ \A u \in Turn : u # o => object'[u] = object[u]
  BY <1>1, <1>2
<1>5. v = (object[o].verified \/ (token /\ resolves)) /\ p = Front(object[o].history)
  BY DEF Verify, ObjectOf, PromptOf
<1>6. proved' = IF ~object[o].verified /\ token /\ resolves THEN proved \cup {task[t].conv} ELSE proved
  BY <1>2 DEF ObjectOf
<1>7. task[t].conv \in proved => object[o].verified
  <2>1. cache[task[t].conv] = o
    BY <1>1 DEF SerialInv, Own, Holding
  <2> QED BY <2>1 DEF SerialInv, Recognised
<1> HIDE DEF v, p
<1>8. /\ task'[t].pc = "model" /\ task'[t].conv = task[t].conv /\ task'[t].object = o
      /\ task'[t].prompt = p /\ task'[t].gate = v
  BY <1>1, <1>3 DEF TaskState
<1>9. object'[o].history = object[o].history /\ object'[o].verified = v
  BY <1>1, <1>4 DEF ObjectState
<1>10. \A u \in Turn : /\ object'[u].history = object[u].history
                       /\ object[u].verified => object'[u].verified
  BY <1>4, <1>5, <1>9
<1>11. task[t].conv \in proved' => object'[o].verified
  BY <1>5, <1>6, <1>7, <1>9
<1>12. task[t].conv \in proved => task'[t].gate
  BY <1>5, <1>7, <1>8
<1>13. \A c \in proved' : c \in proved \/ c = task[t].conv
  BY <1>6
<1> QED BY <1>1, <1>5, <1>8, <1>10, <1>11, <1>12, <1>13

LEMMA VerifyingSerial ==
  ASSUME IInv, SerialInv, ~Overlap, NEW t \in Turn, Prepare(t) \/ ModelIdentifies(t)
  PROVE  SerialInv'
<1>1. Alone' /\ \A u \in Turn : u # t => Own(u)'
  <2>1. TurnStep(t)
    BY DEF TurnStep
  <2> QED BY <2>1, OthersRest, OnlyOne DEF SerialInv
<1>2. Own(t) /\ Recognised /\ OneProjection
  BY DEF SerialInv
<1> DEFINE o == task[t].object
<1>3. ASSUME /\ cache' = cache /\ projected' = projected
             /\ \A u \in Turn : /\ object'[u].history = object[u].history
                                /\ object[u].verified => object'[u].verified
             /\ o \in Turn /\ cache[task[t].conv] = o
             /\ task[t].conv \in proved' => object'[o].verified
             /\ \A c \in proved' : c \in proved \/ c = task[t].conv
      PROVE  Recognised' /\ OneProjection'
  <2>1. \A c \in proved : cache[c] \in Turn
    BY DEF IInv, TypeCore, SerialInv, Recognised
  <2>2. None \notin Turn
    BY ChatTurnAssumption
  <2> QED BY <1>2, <1>3, <2>1, <2>2 DEF Recognised, OneProjection
<1>4. CASE Prepare(t)
  <2>1. cache[task[t].conv] = o
    BY <1>2, <1>4, PrepareEffect DEF Own, Holding
  <2>2. Recognised' /\ OneProjection'
    BY <1>3, <1>4, <2>1, PrepareEffect
  <2>3. Ends(object[o].history, t)
    BY <1>2, <1>4, PrepareEffect DEF Own
  <2>4. Own(t)'
    BY <1>4, <2>1, <2>3, PrepareEffect DEF Own, Holding
  <2> QED BY <1>1, <2>2, <2>4 DEF SerialInv
<1>5. CASE ModelIdentifies(t)
  <2>1. /\ task[t].pc = "model" /\ task' = task /\ cache' = cache /\ projected' = projected
        /\ object' = [object EXCEPT ![o].verified = TRUE]
        /\ proved' = proved \cup {task[t].conv}
    BY <1>5 DEF ModelIdentifies, Identify
  <2>2. o \in Turn /\ object \in [Turn -> ObjectState] /\ object[o] \in ObjectState
    BY <2>1, TurnState DEF Holding
  <2>3. object'[o] = [object[o] EXCEPT !.verified = TRUE] /\ \A u \in Turn : u # o => object'[u] = object[u]
    BY <2>1, <2>2
  <2>4. object'[o].history = object[o].history /\ object'[o].verified
    BY <2>2, <2>3 DEF ObjectState
  <2>5. cache[task[t].conv] = o
    BY <1>2, <2>1 DEF Own, Holding
  <2>6. Recognised' /\ OneProjection'
    BY <1>3, <2>1, <2>2, <2>3, <2>4, <2>5
  <2>7. Own(t)'
    BY <1>2, <2>1, <2>4 DEF Own, Holding
  <2> QED BY <1>1, <2>6, <2>7 DEF SerialInv
<1> QED BY <1>4, <1>5

\* A restart ends every turn and forgets every identity.
LEMMA RestartEffect ==
  ASSUME IInv, Restart
  PROVE  /\ \A t \in Turn : task'[t].pc \in {"idle", "done"}
         /\ cache' = [c \in Conv |-> None] /\ proved' = {} /\ UNCHANGED <<object, stored, projected>>
<1>1. task' = [t \in Turn |-> IF InFlight(t) THEN Finished(t) ELSE task[t]]
  BY DEF Restart
<1>2. \A t \in Turn : Finished(t).pc = "done"
  BY DEF Finished, Idle
<1>3. \A t \in Turn : task'[t].pc \in {"idle", "done"}
  BY <1>1, <1>2 DEF InFlight
<1> QED BY <1>3 DEF Restart

LEMMA SerialStep ==
  ASSUME ~Overlap, IInv, SerialInv, [Next]_vars
  PROVE  SerialInv'
<1>1. ASSUME NEW t \in Turn, Starts(t) PROVE SerialInv'
  BY <1>1, StartsSerial
<1>2. ASSUME NEW t \in Turn, TurnStep(t) PROVE SerialInv'
  BY <1>2, QuietSerial, SayingSerial, VerifyingSerial DEF TurnStep
<1>3. ASSUME UNCHANGED <<cache, object, task, proved, projected>> PROVE SerialInv'
  BY <1>3 DEF SerialInv, Alone, InFlight, Own, Ends, Recognised, OneProjection
<1>4. CASE Restart
  <2>1. Alone' /\ \A t \in Turn : Own(t)'
    BY <1>4, RestartEffect DEF Alone, InFlight, Own, Holding
  <2>2. Recognised' /\ OneProjection'
    BY <1>4, RestartEffect DEF Recognised, OneProjection, SerialInv
  <2> QED BY <2>1, <2>2 DEF SerialInv
<1>5. CASE NewDay
  BY <1>3, <1>5 DEF NewDay, NewServerDay, NewDatabaseDay, NewUtcDay
<1>6. CASE UNCHANGED vars
  BY <1>3, <1>6 DEF vars
<1> QED BY <1>1, <1>2, <1>4, <1>5, <1>6 DEF Next, Starts

LEMMA SerialInvariance ==
  ASSUME ~Overlap
  PROVE  Spec => []SerialInv
<1>1. Init => SerialInv
  BY DEF Init, SerialInv, Alone, InFlight, Own, Holding, Idle, Recognised, OneProjection
<1>2. IInv /\ SerialInv /\ [Next]_vars => SerialInv'
  BY SerialStep
<1> QED BY <1>1, <1>2, Invariance, PTL DEF Spec

\* The model is given everything said before the turn's message, and not the message.
THEOREM PromptIsExact ==
  ASSUME ~Overlap
  PROVE  Spec => []PromptExact
<1>1. IInv /\ SerialInv => PromptExact
  <2> SUFFICES ASSUME IInv, SerialInv, NEW t \in Turn, task[t].pc = "model"
               PROVE  LET h == ObjectOf(t).history IN
                      \E i \in 1..Len(h) : h[i] = User(t) /\ task[t].prompt = SubSeq(h, 1, i - 1)
    BY DEF PromptExact
  <2> DEFINE h == object[task[t].object].history
  <2>1. Ends(h, t) /\ task[t].prompt = Front(h)
    BY DEF SerialInv, Own
  <2>2. h \in Seq(Entry)
    <3>1. task[t].object \in Turn /\ object \in [Turn -> ObjectState]
      BY TurnState DEF Holding
    <3> QED BY <3>1 DEF ObjectState
  <2>3. Len(h) \in 1..Len(h)
    <3> HIDE DEF h
    <3> QED BY <2>1, <2>2, LenProperties DEF Ends
  <2>4. h[Len(h)] = User(t) /\ task[t].prompt = SubSeq(h, 1, Len(h) - 1)
    BY <2>1 DEF Ends, Front
  <2>5. h = ObjectOf(t).history
    BY DEF ObjectOf
  <2> HIDE DEF h
  <2> QED BY <2>3, <2>4, <2>5
<1> QED BY <1>1, Invariance, SerialInvariance, PTL

\* A conversation has one row in the debtors table at most.
THEOREM ProjectedOnce ==
  ASSUME ~Overlap
  PROVE  Spec => []OneProjection
<1>1. SerialInv => OneProjection
  BY DEF SerialInv
<1> QED BY <1>1, SerialInvariance, PTL

\* Once an identity is resolved, every later turn of the conversation starts verified,
\* until the process restarts.
THEOREM GateKeptOpen ==
  ASSUME ~Overlap
  PROVE  Spec => GateStaysOpen
<1> DEFINE Kept == \A t \in Turn :
             task'[t].pc = "model" /\ task[t].pc # "model" /\ task[t].conv \in proved => task'[t].gate
<1>1. IInv /\ SerialInv /\ [Next]_vars => [Kept]_vars
  <2> SUFFICES ASSUME IInv, SerialInv, Next, NEW t \in Turn,
                      task'[t].pc = "model", task[t].pc # "model", task[t].conv \in proved
               PROVE  task'[t].gate
    OBVIOUS
  <2>1. ASSUME NEW u \in Turn, Starts(u) \/ TurnStep(u)
        PROVE  task'[t].gate
    <3>1. u = t
      BY <2>1, OthersRest DEF SerialInv
    <3>2. ~Starts(t)
      BY StartsEffect
    <3>3. ~(RefusedByLimit(t) \/ OpenMissing(t) \/ SaveUser(t) \/ ModelRaises(t)
            \/ SaveReply(t) \/ Count(t) \/ ProjectRead(t) \/ ProjectInsert(t) \/ ReadLoad(t))
      BY GotoEffect DEF RefusedByLimit, OpenMissing, SaveUser, ModelRaises, SaveReply, Count,
                        ProjectRead, ProjectInsert, ReadLoad
    <3>4. ASSUME NEW o, NEW h, NEW e
          PROVE  ~Said(t, o, h, e)
      BY TurnState DEF Said, TaskState
    <3>5. ~(OpenCached(t) \/ Load(t) \/ ModelAnswers(t) \/ ModelIdentifies(t))
      BY <3>4 DEF OpenCached, Load, ModelAnswers, ModelIdentifies
    <3>6. Prepare(t)
      BY <2>1, <3>1, <3>2, <3>3, <3>5 DEF TurnStep
    <3> QED BY <3>6, PrepareEffect
  <2>2. ~Restart
    BY RestartEffect
  <2>3. ~NewDay
    BY DEF NewDay, NewServerDay, NewDatabaseDay, NewUtcDay
  <2> QED BY <2>1, <2>2, <2>3 DEF Next, Starts
<1> QED BY <1>1, Invariance, SerialInvariance, PTL DEF Spec, GateStaysOpen

-----------------------------------------------------------------------------
(* The daily limits.  A turn that was let in may still be counted, and still cost.  The     *)
(* limit is at least one message, since a visitor's first message is never refused.         *)

\* What the visitor's row says of the database's date, and the bucket of the UTC date.
CountToday == IF visitor.known /\ visitor.date = clock.database THEN visitor.count ELSE 0

CostToday == IF spent.date = clock.utc THEN spent.sum ELSE 0

\* No date is ahead of the calendar it was taken from, nor the server of the database.
Calendar ==
  /\ visitor.date <= clock.database /\ clock.server <= clock.database
  /\ spent.date <= clock.utc

Admitted == {"load", "saveUser", "visitor", "model", "saveReply", "count"}

Spending == {"limit", "load", "saveUser", "visitor", "model"}

\* What the limits are to a turn that has come to pc.
Fits(pc) ==
  /\ pc \in Admitted => CountToday < DailyLimit
  /\ pc \in Spending => CostToday <= CostCap
  /\ pc \in {"model", "saveReply", "count"} /\ ~WriteFaults => visitor.known

\* The row and the bucket know of all that was replied and spent today.
Accounted ==
  /\ Calendar
  /\ tally.replies <= CountToday + tally.lost /\ CountToday <= DailyLimit
  /\ ~WriteFaults => tally.lost = 0
  /\ tally.cost <= CostToday /\ CostToday <= CostCap + TurnCost

LimitInv == Accounted /\ \A t \in Turn : Fits(task[t].pc)

LEMMA AccountTypes ==
  ASSUME IInv
  PROVE  /\ visitor \in [known : BOOLEAN, count : Nat, date : Nat]
         /\ spent \in [date : Nat, sum : Nat]
         /\ clock \in [server : Nat, database : Nat, utc : Nat]
         /\ tally \in [replies : Nat, lost : Nat, cost : Nat]
         /\ CountToday \in Nat /\ CostToday \in Nat
         /\ DailyLimit \in Nat /\ CostCap \in Nat /\ TurnCost \in Nat
BY ChatTurnAssumption DEF IInv, TypeCore, Account, CountToday, CostToday

LEMMA AccountKept ==
  ASSUME UNCHANGED <<visitor, spent, clock, tally>>
  PROVE  /\ Accounted => Accounted'
         /\ CountToday' = CountToday /\ CostToday' = CostToday
BY DEF Accounted, Calendar, CountToday, CostToday

\* Passing the checks.
LEMMA LimitPassed ==
  ASSUME IInv, Calendar, DailyLimit > 0, LimitAllows
  PROVE  CountToday < DailyLimit
BY AccountTypes DEF LimitAllows, CountToday, Calendar

LEMMA CostPassed ==
  ASSUME IInv, CostAllows
  PROVE  CostToday <= CostCap
BY AccountTypes DEF CostAllows, CostToday

\* The visitor's row is made, if it is missing.
LEMMA GreetedAccount ==
  ASSUME IInv, Accounted, UNCHANGED <<spent, clock, tally>>,
         \/ visitor' = IF visitor.known THEN visitor ELSE NewVisitor
         \/ WriteFaults /\ visitor' = visitor
  PROVE  /\ Accounted' /\ CountToday' = CountToday /\ CostToday' = CostToday
         /\ ~WriteFaults => visitor'.known
<1>1. CASE visitor' = visitor
  <2>1. ~WriteFaults => visitor.known
    BY <1>1, AccountTypes DEF NewVisitor
  <2> QED BY <1>1, <2>1, AccountKept
<1>2. CASE ~visitor.known /\ visitor' = NewVisitor
  <2>1. visitor'.known /\ visitor'.count = 0 /\ visitor'.date = clock.database
    BY <1>2 DEF NewVisitor
  <2>2. CountToday' = 0 /\ CountToday = 0 /\ CostToday' = CostToday
    BY <1>2, <2>1 DEF CountToday, CostToday
  <2> QED BY <2>1, <2>2, AccountTypes DEF Accounted, Calendar
<1> QED BY <1>1, <1>2

\* A reply is counted, or its count is lost.
LEMMA CountedAccount ==
  ASSUME IInv, Accounted, CountToday < DailyLimit, ~WriteFaults => visitor.known,
         NEW t \in Turn, Count(t)
  PROVE  Accounted' /\ CostToday' = CostToday
<1>1. /\ visitor.count + 1 \in Nat /\ tally.replies + 1 \in Nat /\ tally.lost + 1 \in Nat
      /\ UNCHANGED <<spent, clock>>
  BY AccountTypes DEF Count
<1>2. CASE visitor.known /\ visitor' = Counted /\ tally' = [tally EXCEPT !.replies = @ + 1]
  <2>1. /\ visitor'.known = visitor.known /\ visitor'.date = clock.database
        /\ visitor'.count = IF visitor.date < clock.database THEN 1 ELSE visitor.count + 1
        /\ tally'.replies = tally.replies + 1 /\ tally'.lost = tally.lost /\ tally'.cost = tally.cost
    BY <1>2, AccountTypes DEF Counted
  <2>2. CountToday' = CountToday + 1 /\ CostToday' = CostToday
    BY <1>1, <1>2, <2>1, AccountTypes DEF CountToday, CostToday, Accounted, Calendar
  <2> QED BY <1>1, <2>1, <2>2, AccountTypes DEF Accounted, Calendar
<1>3. CASE /\ ~visitor.known \/ WriteFaults
           /\ visitor' = visitor /\ tally' = [tally EXCEPT !.replies = @ + 1, !.lost = @ + 1]
  <2>1. tally'.replies = tally.replies + 1 /\ tally'.lost = tally.lost + 1 /\ tally'.cost = tally.cost
    BY <1>3, AccountTypes
  <2>2. CountToday' = CountToday /\ CostToday' = CostToday
    BY <1>1, <1>3 DEF CountToday, CostToday
  <2>3. WriteFaults
    BY <1>3
  <2> QED BY <1>1, <1>3, <2>1, <2>2, <2>3, AccountTypes DEF Accounted, Calendar
<1> QED BY <1>2, <1>3 DEF Count

\* The cost of an answer is added to the bucket.
LEMMA ChargedAccount ==
  ASSUME IInv, Accounted, CostToday <= CostCap, NEW cost \in {0, TurnCost}, Charge(cost),
         UNCHANGED <<visitor, clock>>
  PROVE  Accounted' /\ CountToday' = CountToday
<1>1. cost \in Nat /\ cost <= TurnCost /\ spent.sum + cost \in Nat /\ tally.cost + cost \in Nat
  BY AccountTypes
<1>2. tally'.replies = tally.replies /\ tally'.lost = tally.lost /\ tally'.cost = tally.cost + cost
  BY <1>1, AccountTypes DEF Charge
<1>3. spent'.date <= clock.utc /\ CostToday' = CostToday + cost
  <2>1. CASE cost = 0
    BY <2>1, AccountTypes DEF Charge, CostToday, Accounted, Calendar
  <2>2. CASE cost # 0 /\ spent.date = clock.utc
    <3>1. spent'.date = clock.utc /\ spent'.sum = spent.sum + cost
      BY <2>2, AccountTypes DEF Charge
    <3> QED BY <2>2, <3>1, AccountTypes DEF CostToday
  <2>3. CASE cost # 0 /\ spent.date # clock.utc
    <3>1. spent'.date = clock.utc /\ spent'.sum = cost
      BY <2>3, AccountTypes DEF Charge
    <3> QED BY <1>1, <2>3, <3>1, AccountTypes DEF CostToday
  <2> QED BY <2>1, <2>2, <2>3
<1>4. CountToday' = CountToday
  BY DEF CountToday
<1> QED BY <1>1, <1>2, <1>3, <1>4, AccountTypes DEF Accounted, Calendar

\* A new date on any calendar, or a restart: what was counted of the old one is gone.
LEMMA DatedAccount ==
  ASSUME ~ServerAhead, DailyLimit > 0, IInv, Accounted, NewDay \/ Restart
  PROVE  /\ Accounted' /\ visitor' = visitor
         /\ CountToday' \in {CountToday, 0} /\ CostToday' \in {CostToday, 0}
<1>0. /\ clock.server + 1 \in Nat /\ clock.database + 1 \in Nat /\ clock.utc + 1 \in Nat
      /\ Accounted
  BY AccountTypes
<1>1. CASE NewServerDay
  <2>1. /\ clock'.server = clock.server + 1 /\ clock'.database = clock.database /\ clock'.utc = clock.utc
        /\ clock.server < clock.database /\ UNCHANGED <<visitor, spent, tally>>
    BY <1>1, AccountTypes DEF NewServerDay
  <2>2. CountToday' = CountToday /\ CostToday' = CostToday
    BY <2>1 DEF CountToday, CostToday
  <2> QED BY <2>1, <2>2, AccountTypes DEF Accounted, Calendar
<1>2. CASE NewDatabaseDay
  <2>1. /\ clock'.database = clock.database + 1 /\ clock'.server = clock.server /\ clock'.utc = clock.utc
        /\ tally'.replies = 0 /\ tally'.lost = 0 /\ tally'.cost = tally.cost
        /\ UNCHANGED <<visitor, spent>>
    BY <1>2, AccountTypes DEF NewDatabaseDay
  <2>2. CountToday' = 0 /\ CostToday' = CostToday
    BY <2>1, AccountTypes DEF CountToday, CostToday, Accounted, Calendar
  <2> QED BY <2>1, <2>2, AccountTypes DEF Accounted, Calendar
<1>3. CASE NewUtcDay
  <2>1. /\ clock'.utc = clock.utc + 1 /\ clock'.server = clock.server /\ clock'.database = clock.database
        /\ tally'.replies = tally.replies /\ tally'.lost = tally.lost /\ tally'.cost = 0
        /\ UNCHANGED <<visitor, spent>>
    BY <1>3, AccountTypes DEF NewUtcDay
  <2>2. CountToday' = CountToday /\ CostToday' = 0
    BY <2>1, AccountTypes DEF CountToday, CostToday, Accounted, Calendar
  <2> QED BY <2>1, <2>2, AccountTypes DEF Accounted, Calendar
<1>4. CASE Restart
  <2>1. /\ tally'.replies = tally.replies /\ tally'.lost = tally.lost /\ tally'.cost = 0
        /\ spent'.date = 0 /\ spent'.sum = 0 /\ UNCHANGED <<visitor, clock>>
    BY <1>4, AccountTypes DEF Restart, NoCost
  <2>2. CountToday' = CountToday /\ CostToday' = 0
    BY <2>1 DEF CountToday, CostToday
  <2> QED BY <2>1, <2>2, AccountTypes DEF Accounted, Calendar
<1> QED BY <1>1, <1>2, <1>3, <1>4 DEF NewDay

LEMMA LimitStep ==
  ASSUME ~Overlap, ~ReadFaults, ~ServerAhead, DailyLimit > 0, IInv, SerialInv, LimitInv, [Next]_vars
  PROVE  LimitInv'
<1>1. /\ CountToday \in Nat /\ CostToday \in Nat
      /\ DailyLimit \in Nat /\ CostCap \in Nat /\ TurnCost \in Nat
  BY AccountTypes
<1>2. ASSUME NEW t \in Turn, Starts(t) \/ TurnStep(t), Accounted', Fits(task[t].pc)'
      PROVE  LimitInv'
  <2>1. \A u \in Turn : u # t => task'[u].pc \in {"idle", "done"}
    BY <1>2, OthersRest DEF SerialInv, InFlight
  <2>2. \A u \in Turn : u # t => Fits(task[u].pc)'
    BY <2>1 DEF Fits, Admitted, Spending
  <2> QED BY <1>2, <2>2 DEF LimitInv
<1>3. Accounted /\ Calendar /\ \A t \in Turn : Fits(task[t].pc)
  BY DEF LimitInv, Accounted
<1>4. ASSUME NEW t \in Turn, Starts(t) PROVE LimitInv'
  <2>1. /\ UNCHANGED <<visitor, spent, clock, tally>>
        /\ task'[t].pc \in {"limit", "done", "readLoad"}
        /\ task'[t].pc = "limit" => CostAllows
    BY <1>4, StartsEffect
  <2>2. Accounted' /\ CostToday' = CostToday
    BY <1>3, <2>1, AccountKept
  <2>3. Fits(task[t].pc)'
    BY <2>1, <2>2, CostPassed DEF Fits, Admitted, Spending
  <2> QED BY <1>2, <1>4, <2>2, <2>3
<1>5. ASSUME NEW t \in Turn, TurnStep(t) PROVE LimitInv'
  <2>1. ASSUME UNCHANGED <<visitor, spent, clock, tally>>, Fits(task'[t].pc)
        PROVE  LimitInv'
    <3>1. Accounted' /\ CountToday' = CountToday /\ CostToday' = CostToday
      BY <1>3, <2>1, AccountKept
    <3>2. Fits(task[t].pc)'
      BY <2>1, <3>1 DEF Fits
    <3> QED BY <1>2, <1>5, <3>1, <3>2
  <2>2. CASE RefusedByLimit(t) \/ ModelRaises(t) \/ ReadLoad(t) \/ ProjectRead(t) \/ ProjectInsert(t)
    <3>1. task'[t].pc \in {"done", "insert"} /\ UNCHANGED <<visitor, spent, clock, tally>>
      BY <2>2, GotoEffect DEF RefusedByLimit, ModelRaises, ReadLoad, ProjectRead, ProjectInsert
    <3> QED BY <2>1, <3>1 DEF Fits, Admitted, Spending
  <2>3. CASE OpenMissing(t)
    <3>1. /\ task[t].pc = "limit" /\ task'[t].pc = "load" /\ LimitAllows
          /\ UNCHANGED <<visitor, spent, clock, tally>>
      BY <2>3, GotoEffect DEF OpenMissing
    <3>2. Fits("load")
      BY <1>3, <3>1, LimitPassed DEF Fits, Spending
    <3> QED BY <2>1, <3>1, <3>2
  <2>4. CASE OpenCached(t)
    <3>1. task[t].pc = "limit" /\ LimitAllows /\ UNCHANGED <<visitor, spent, clock, tally>>
      BY <2>4 DEF OpenCached
    <3>2. task'[t].pc = "saveUser"
      <4>1. task[t].conv \in Conv /\ cache[task[t].conv] \in Turn
        BY <2>4, TurnState DEF OpenCached
      <4> QED BY <2>4, <4>1, UserSaid DEF OpenCached
    <3>3. Fits("saveUser")
      BY <1>3, <3>1, LimitPassed DEF Fits, Spending
    <3> QED BY <2>1, <3>1, <3>2, <3>3
  <2>5. CASE Load(t)
    <3>1. task[t].pc = "load" /\ UNCHANGED <<visitor, spent, clock, tally>>
      BY <2>5 DEF Load
    <3>2. task'[t].pc = "saveUser"
      BY <2>5, UserSaid DEF Load
    <3>3. Fits("saveUser")
      BY <1>3, <3>1 DEF Fits, Admitted, Spending
    <3> QED BY <2>1, <3>1, <3>2, <3>3
  <2>6. CASE SaveUser(t) \/ SaveReply(t)
    <3>1. /\ \/ task[t].pc = "saveUser" /\ task'[t].pc = "visitor"
             \/ task[t].pc = "saveReply" /\ task'[t].pc = "count"
          /\ UNCHANGED <<visitor, spent, clock, tally>>
      BY <2>6, GotoEffect DEF SaveUser, SaveReply
    <3>2. Fits(task'[t].pc)
      BY <1>3, <3>1 DEF Fits, Admitted, Spending
    <3> QED BY <2>1, <3>1, <3>2
  <2>7. CASE ModelIdentifies(t)
    <3>1. task' = task /\ UNCHANGED <<visitor, spent, clock, tally>>
      BY <2>7 DEF ModelIdentifies
    <3> QED BY <1>3, <2>1, <3>1
  <2>8. CASE Prepare(t)
    <3>1. /\ task[t].pc = "visitor" /\ task'[t].pc = "model" /\ UNCHANGED <<spent, clock, tally>>
          /\ \/ visitor' = IF visitor.known THEN visitor ELSE NewVisitor
             \/ WriteFaults /\ visitor' = visitor
      BY <2>8, PrepareEffect DEF Prepare
    <3>2. /\ Accounted' /\ CountToday' = CountToday /\ CostToday' = CostToday
          /\ ~WriteFaults => visitor'.known
      BY <1>3, <3>1, GreetedAccount
    <3>3. Fits(task[t].pc)'
      BY <1>3, <3>1, <3>2 DEF Fits, Admitted, Spending
    <3> QED BY <1>2, <1>5, <3>2, <3>3
  <2>9. CASE ModelAnswers(t)
    <3>1. task[t].pc = "model" /\ UNCHANGED <<visitor, clock>> /\ \E cost \in {0, TurnCost} : Charge(cost)
      BY <2>9 DEF ModelAnswers
    <3>2. task'[t].pc = "saveReply"
      <4>1. task[t].object \in Turn
        BY <3>1, TurnState DEF Holding
      <4> QED BY <2>9, <4>1, ReplySaid DEF ModelAnswers, ReplyObject
    <3>3. CostToday <= CostCap
      BY <1>3, <3>1 DEF Fits, Spending
    <3>4. Accounted' /\ CountToday' = CountToday
      BY <1>3, <3>1, <3>3, ChargedAccount
    <3>5. Fits(task[t].pc)'
      BY <1>3, <3>1, <3>2, <3>4 DEF Fits, Admitted, Spending
    <3> QED BY <1>2, <1>5, <3>4, <3>5
  <2>10. CASE Count(t)
    <3>1. task[t].pc = "count" /\ task'[t].pc = "project"
      BY <2>10, GotoEffect DEF Count
    <3>2. CountToday < DailyLimit /\ (~WriteFaults => visitor.known)
      BY <1>3, <3>1 DEF Fits, Admitted
    <3>3. Accounted'
      BY <1>3, <2>10, <3>2, CountedAccount
    <3>4. Fits(task[t].pc)'
      BY <3>1 DEF Fits, Admitted, Spending
    <3> QED BY <1>2, <1>5, <3>3, <3>4
  <2> QED BY <1>5, <2>2, <2>3, <2>4, <2>5, <2>6, <2>7, <2>8, <2>9, <2>10 DEF TurnStep
<1>6. CASE NewDay \/ Restart
  <2>1. /\ Accounted' /\ visitor' = visitor
        /\ CountToday' \in {CountToday, 0} /\ CostToday' \in {CostToday, 0}
    BY <1>3, <1>6, DatedAccount
  <2>2. ASSUME NEW t \in Turn PROVE Fits(task[t].pc)'
    <3>1. task'[t].pc \in {task[t].pc, "idle", "done"}
      <4>1. CASE NewDay
        BY <4>1 DEF NewDay, NewServerDay, NewDatabaseDay, NewUtcDay
      <4>2. CASE Restart
        BY <4>2, RestartEffect
      <4> QED BY <1>6, <4>1, <4>2
    <3> QED BY <1>1, <1>3, <2>1, <3>1 DEF Fits, Admitted, Spending
  <2> QED BY <2>1, <2>2 DEF LimitInv
<1>7. CASE UNCHANGED vars
  <2>1. Accounted' /\ CountToday' = CountToday /\ CostToday' = CostToday /\ task' = task /\ visitor' = visitor
    BY <1>3, <1>7, AccountKept DEF vars
  <2> QED BY <1>3, <2>1 DEF LimitInv, Fits
<1> QED BY <1>4, <1>5, <1>6, <1>7 DEF Next, Starts

\* With one turn at a time, no client gets more replies on a date than its daily limit and
\* those whose count was lost to a failing write, nor spends more than one turn over the cap.
THEOREM LimitsAreHeld ==
  ASSUME ~Overlap, ~ReadFaults, ~ServerAhead, DailyLimit > 0
  PROVE  Spec => []LimitsHold
<1>1. Init => LimitInv
  <2> SUFFICES ASSUME Init PROVE LimitInv
    OBVIOUS
  <2>1. DailyLimit \in Nat /\ CostCap \in Nat /\ TurnCost \in Nat
    BY ChatTurnAssumption
  <2>2. CountToday = 0 /\ CostToday = 0
    BY DEF Init, CountToday, CostToday, NoCost
  <2>3. Accounted
    BY <2>1, <2>2 DEF Init, Accounted, Calendar, NoCost
  <2>4. \A t \in Turn : Fits(task[t].pc)
    BY DEF Init, Fits, Admitted, Spending, Idle
  <2> QED BY <2>3, <2>4 DEF LimitInv
<1>2. IInv /\ SerialInv /\ LimitInv /\ [Next]_vars => LimitInv'
  BY LimitStep
<1>3. IInv /\ LimitInv => LimitsHold
  BY AccountTypes DEF LimitInv, Accounted, LimitsHold
<1> QED BY <1>1, <1>2, <1>3, Invariance, SerialInvariance, PTL DEF Spec

-----------------------------------------------------------------------------
(* The stored histories only grow. *)

\* s is how h begins.
Begins(s, h) == Len(s) <= Len(h) /\ \A i \in 1..Len(s) : h[i] = s[i]

\* A conversation in memory has everything that is stored, and a turn that is about to
\* write has more.
StoredInv ==
  /\ \A c \in Conv : cache[c] # None => Begins(stored[c], object[cache[c]].history)
  /\ \A t \in Turn : task[t].pc \in {"saveUser", "saveReply"} =>
       /\ task[t].payload = object[task[t].object].history
       /\ Len(stored[task[t].conv]) < Len(task[t].payload)

LEMMA BeginsAppend ==
  ASSUME NEW s \in Seq(Entry), NEW h \in Seq(Entry), NEW e \in Entry, Begins(s, h)
  PROVE  Begins(s, Append(h, e)) /\ Len(s) < Len(Append(h, e))
<1> DEFINE g == Append(h, e)
<1>1. /\ Len(s) \in Nat /\ Len(h) \in Nat /\ Len(g) = Len(h) + 1
      /\ \A i \in 1..Len(h) : g[i] = h[i]
  BY AppendedEntry, LenProperties
<1> HIDE DEF g
<1>2. \A i \in 1..Len(s) : i \in 1..Len(h)
  BY <1>1 DEF Begins
<1>3. Begins(s, g) /\ Len(s) < Len(g)
  BY <1>1, <1>2 DEF Begins
<1> QED BY <1>3 DEF g

LEMMA BeginsItself ==
  ASSUME NEW s \in Seq(Entry)
  PROVE  Begins(s, s)
BY LenProperties DEF Begins

LEMMA Initial ==
  ASSUME NEW h \in Seq(Entry), NEW n \in Nat, n <= Len(h)
  PROVE  /\ SubSeq(h, 1, n) \in Seq(Entry) /\ Len(SubSeq(h, 1, n)) = n
         /\ \A i \in 1..n : SubSeq(h, 1, n)[i] = h[i]
<1>1. 1 \in Int /\ n \in Int /\ \A i \in 1..n : h[i] \in Entry
  BY ElementOfSeq, LenProperties
<1>2. /\ SubSeq(h, 1, n) \in Seq(Entry)
      /\ Len(SubSeq(h, 1, n)) = IF 1 <= n THEN n - 1 + 1 ELSE 0
      /\ \A i \in 1..(n - 1 + 1) : SubSeq(h, 1, n)[i] = h[1 + i - 1]
  BY <1>1, SubSeqProperties
<1> QED BY <1>1, <1>2

LEMMA BeginsIsPrefix ==
  ASSUME NEW s \in Seq(Entry), NEW h \in Seq(Entry), Begins(s, h), Len(s) < Len(h)
  PROVE  IsStrictPrefix(s, h)
<1> DEFINE n == Len(s)
           a == SubSeq(s, 1, n)
           b == SubSeq(h, 1, n)
<1>1. n \in Nat /\ Len(h) \in Nat /\ n <= Len(h)
  BY LenProperties
<1>2. a \in Seq(Entry) /\ Len(a) = n /\ \A i \in 1..n : a[i] = s[i]
  <2>1. Len(s) \in Nat /\ Len(s) <= Len(s)
    BY <1>1
  <2> QED BY <2>1, Initial
<1>3. b \in Seq(Entry) /\ Len(b) = n /\ \A i \in 1..n : b[i] = h[i]
  BY <1>1, Initial
<1>4. a = b
  <2> HIDE DEF a, b
  <2>1. Len(a) = Len(b) /\ \A i \in 1..Len(a) : a[i] = b[i]
    BY <1>2, <1>3 DEF Begins
  <2> QED BY <1>2, <1>3, <2>1, SeqEqual
<1>5. Len(s) <= Len(h) /\ s # h
  BY <1>1
<1> QED BY <1>4, <1>5 DEF IsStrictPrefix, IsPrefix

\* One conversation's log grows, or nothing is written.
Grows ==
  \/ stored' = stored
  \/ \E c \in Conv :
       /\ stored'[c] \in Seq(Entry)
       /\ IsStrictPrefix(stored[c], stored'[c])
       /\ stored' = [stored EXCEPT ![c] = stored'[c]]

LEMMA StoredTypes ==
  ASSUME IInv
  PROVE  /\ stored \in [Conv -> Seq(Entry)] /\ \A c \in Conv : stored[c] \in Seq(Entry)
         /\ \A u \in Turn : object[u].history \in Seq(Entry) /\ task[u].payload \in Seq(Entry)
<1>1. /\ stored \in [Conv -> Seq(Entry)]
      /\ object \in [Turn -> ObjectState] /\ task \in [Turn -> TaskState]
  BY DEF IInv, TypeCore
<1>2. \A u \in Turn : object[u] \in ObjectState /\ task[u] \in TaskState
  BY <1>1
<1> QED BY <1>1, <1>2 DEF ObjectState, TaskState

\* A message or a reply is added to the object o, which is the cached one afterwards.
LEMMA SaidGrows ==
  ASSUME IInv, StoredInv, NEW t \in Turn, NEW o \in Turn, NEW h \in Seq(Entry), NEW e \in Entry,
         Said(t, o, h, e), stored' = stored, task[t].conv \in Conv,
         Begins(stored[task[t].conv], h),
         \A c \in Conv : cache'[c] # None =>
           \/ c = task[t].conv /\ cache'[c] = o
           \/ cache[c] = cache'[c] /\ cache[c] # o
  PROVE  /\ \A c \in Conv : cache'[c] # None => Begins(stored'[c], object'[cache'[c]].history)
         /\ task'[t].payload = object'[task'[t].object].history
         /\ Len(stored'[task'[t].conv]) < Len(task'[t].payload)
<1>1. /\ task'[t].conv = task[t].conv /\ task'[t].object = o
      /\ task'[t].payload = Append(h, e) /\ object'[o].history = Append(h, e)
      /\ \A u \in Turn : u # o => object'[u] = object[u]
  BY SaidEffect
<1>2. Begins(stored[task[t].conv], Append(h, e)) /\ Len(stored[task[t].conv]) < Len(Append(h, e))
  BY StoredTypes, BeginsAppend
<1>3. ASSUME NEW c \in Conv, cache'[c] # None
      PROVE  Begins(stored'[c], object'[cache'[c]].history)
  <2>1. CASE c = task[t].conv /\ cache'[c] = o
    BY <1>1, <1>2, <2>1
  <2>2. CASE cache[c] = cache'[c] /\ cache[c] # o
    <3>1. cache[c] \in Turn
      BY <1>3, <2>2 DEF IInv, TypeCore
    <3> QED BY <1>1, <1>3, <2>2, <3>1 DEF StoredInv
  <2> QED BY <1>3, <2>1, <2>2
<1> QED BY <1>1, <1>2, <1>3

LEMMA StoredStep ==
  ASSUME ~Overlap, ~ReadFaults, IInv, SerialInv, StoredInv, Next
  PROVE  StoredInv' /\ Grows
<1> DEFINE Cached == \A c \in Conv : cache[c] # None => Begins(stored[c], object[cache[c]].history)
           Saving(t) == task[t].pc \in {"saveUser", "saveReply"} =>
                          /\ task[t].payload = object[task[t].object].history
                          /\ Len(stored[task[t].conv]) < Len(task[t].payload)
<1>1. ASSUME NEW t \in Turn, Starts(t) \/ TurnStep(t), Cached', Saving(t)'
      PROVE  StoredInv'
  <2>1. \A u \in Turn : u # t => task'[u].pc \in {"idle", "done"}
    BY <1>1, OthersRest DEF SerialInv, InFlight
  <2> QED BY <1>1, <2>1 DEF StoredInv
<1>2. Cached /\ \A t \in Turn : Saving(t)
  BY DEF StoredInv
<1>3. /\ stored \in [Conv -> Seq(Entry)] /\ \A c \in Conv : stored[c] \in Seq(Entry)
      /\ \A u \in Turn : object[u].history \in Seq(Entry) /\ task[u].payload \in Seq(Entry)
      /\ cache \in [Conv -> Turn \cup {None}] /\ None \notin Turn
  BY StoredTypes, ChatTurnAssumption DEF IInv, TypeCore
<1>4. ASSUME UNCHANGED <<cache, stored>>, \A u \in Turn : object'[u].history = object[u].history
      PROVE  Cached' /\ Grows
  <2>1. \A c \in Conv : cache[c] # None => cache[c] \in Turn
    BY <1>3
  <2> QED BY <1>2, <1>4, <2>1 DEF Grows
<1>5. ASSUME NEW t \in Turn, Starts(t) PROVE StoredInv' /\ Grows
  <2>1. Saving(t)' /\ UNCHANGED <<cache, stored, object>>
    BY <1>5, StartsEffect
  <2> QED BY <1>1, <1>4, <1>5, <2>1
<1>6. ASSUME NEW t \in Turn, TurnStep(t) PROVE StoredInv' /\ Grows
  <2>1. task[t].pc # "idle" => task[t].conv \in Conv
    BY TurnState
  <2>2. CASE RefusedByLimit(t) \/ ModelRaises(t) \/ ProjectRead(t) \/ ProjectInsert(t)
             \/ OpenMissing(t) \/ Count(t)
    <3>1. /\ task'[t].pc \in {"done", "insert", "load", "project"}
          /\ UNCHANGED <<cache, stored, object>>
      BY <2>2, GotoEffect DEF RefusedByLimit, ModelRaises, ProjectRead, ProjectInsert, OpenMissing, Count
    <3> QED BY <1>1, <1>4, <1>6, <3>1
  <2>3. CASE Prepare(t) \/ ModelIdentifies(t)
    <3>1. CASE Prepare(t)
      <4>1. /\ task'[t].pc = "model" /\ cache' = cache
            /\ \A u \in Turn : object'[u].history = object[u].history
        BY <3>1, PrepareEffect
      <4>2. stored' = stored
        BY <3>1 DEF Prepare
      <4> QED BY <1>1, <1>4, <1>6, <4>1, <4>2
    <3>2. CASE ModelIdentifies(t)
      <4>1. /\ task[t].pc = "model" /\ task' = task /\ UNCHANGED <<cache, stored>>
            /\ object' = [object EXCEPT ![task[t].object].verified = TRUE]
        BY <3>2 DEF ModelIdentifies, Identify
      <4>2. object \in [Turn -> [history : Seq(Entry), verified : BOOLEAN]]
        BY TurnState DEF ObjectState
      <4>3. \A u \in Turn : object'[u].history = object[u].history
        BY <4>1, <4>2
      <4> QED BY <1>1, <1>4, <1>6, <4>1, <4>3
    <3> QED BY <2>3, <3>1, <3>2
  <2>4. CASE OpenCached(t) \/ ModelAnswers(t)
    <3> DEFINE o == cache[task[t].conv]
               h == object[o].history
    <3>1. /\ task[t].pc \in {"limit", "model"} /\ cache' = cache /\ stored' = stored
          /\ \E e \in {User(t), Assistant(t)} : Said(t, o, h, e)
          /\ o # None
      <4>1. CASE OpenCached(t)
        BY <4>1 DEF OpenCached
      <4>2. CASE ModelAnswers(t)
        <5>1. task[t].pc = "model" /\ o = task[t].object /\ o \in Turn
          BY <4>2, TurnState DEF ModelAnswers, SerialInv, Own, Holding
        <5> QED BY <1>3, <4>2, <5>1 DEF ModelAnswers, ReplyObject
      <4> QED BY <2>4, <4>1, <4>2
    <3>2. PICK e \in {User(t), Assistant(t)} : Said(t, o, h, e)
      BY <3>1
    <3>3. /\ task[t].conv \in Conv /\ o \in Turn /\ h \in Seq(Entry) /\ e \in Entry
          /\ Begins(stored[task[t].conv], h)
      BY <1>2, <1>3, <2>1, <3>1, Messages
    <3>4. \A c \in Conv : cache[c] = o => c = task[t].conv
      BY <3>1, <3>3 DEF IInv, CacheOK
    <3> HIDE DEF o, h
    <3>5. \A c \in Conv : cache'[c] # None =>
            \/ c = task[t].conv /\ cache'[c] = o
            \/ cache[c] = cache'[c] /\ cache[c] # o
      BY <3>1, <3>4
    <3>6. Cached' /\ Saving(t)'
      BY <3>1, <3>2, <3>3, <3>5, SaidGrows
    <3>7. Grows
      BY <3>1 DEF Grows
    <3> QED BY <1>1, <1>6, <3>6, <3>7
  <2>5. CASE Load(t)
    <3>1. /\ task[t].pc = "load" /\ task[t].conv \in Conv /\ stored' = stored
          /\ cache' = [cache EXCEPT ![task[t].conv] = t]
          /\ Said(t, t, stored[task[t].conv], User(t))
      BY <2>1, <2>5 DEF Load, Loaded, CacheKey
    <3>2. \A c \in Conv : cache[c] # t
      BY <3>1, TurnState DEF Early
    <3>3. \A c \in Conv : cache'[c] # None =>
            \/ c = task[t].conv /\ cache'[c] = t
            \/ cache[c] = cache'[c] /\ cache[c] # t
      BY <1>3, <3>1, <3>2
    <3>4. Begins(stored[task[t].conv], stored[task[t].conv])
      BY <1>3, <3>1, BeginsItself
    <3>5. Cached' /\ Saving(t)'
      <4> DEFINE h == stored[task[t].conv]
                 e == User(t)
      <4>1. /\ h \in Seq(Entry) /\ e \in Entry /\ Said(t, t, h, e)
            /\ Begins(stored[task[t].conv], h)
        BY <1>3, <3>1, <3>4, Messages
      <4> HIDE DEF h, e
      <4> QED BY <3>1, <3>3, <4>1, SaidGrows
    <3>6. Grows
      BY <3>1 DEF Grows
    <3> QED BY <1>1, <1>6, <3>5, <3>6
  <2>6. CASE ReadLoad(t)
    <3>1. /\ task[t].pc = "readLoad" /\ task[t].conv \in Conv /\ stored' = stored
          /\ cache' = [cache EXCEPT ![task[t].conv] = t] /\ task'[t].pc = "done"
          /\ object' = [object EXCEPT ![t].history = stored[task[t].conv]]
      BY <2>1, <2>6, GotoEffect DEF ReadLoad, Loaded, CacheKey
    <3>2. \A c \in Conv : cache[c] # t
      BY <3>1, TurnState DEF Early
    <3>3. /\ object'[t].history = stored[task[t].conv]
          /\ \A u \in Turn : u # t => object'[u] = object[u]
      <4>1. object \in [Turn -> [history : Seq(Entry), verified : BOOLEAN]]
        BY TurnState DEF ObjectState
      <4> QED BY <3>1, <4>1
    <3>4. ASSUME NEW c \in Conv, cache'[c] # None
          PROVE  Begins(stored'[c], object'[cache'[c]].history)
      <4>1. CASE c = task[t].conv
        <5>1. cache'[c] = t
          BY <1>3, <3>1, <4>1
        <5> QED BY <1>3, <3>1, <3>3, <4>1, <5>1, BeginsItself
      <4>2. CASE c # task[t].conv
        <5>1. cache'[c] = cache[c] /\ cache[c] \in Turn /\ cache[c] # t
          BY <1>3, <3>1, <3>2, <3>4, <4>2
        <5> QED BY <1>2, <3>1, <3>3, <3>4, <5>1
      <4> QED BY <4>1, <4>2
    <3>5. Cached' /\ Saving(t)' /\ Grows
      BY <3>1, <3>4 DEF Grows
    <3> QED BY <1>1, <1>6, <3>5
  <2>7. CASE SaveUser(t) \/ SaveReply(t)
    <3> DEFINE c0 == task[t].conv
               p == task[t].payload
    <3>1. /\ task[t].pc \in {"saveUser", "saveReply"} /\ task'[t].pc \in {"visitor", "count"}
          /\ UNCHANGED <<cache, object>>
          /\ stored' = stored \/ stored' = [stored EXCEPT ![c0] = p]
      BY <2>7, GotoEffect DEF SaveUser, SaveReply, Save
    <3>2. /\ c0 \in Conv /\ p \in Seq(Entry) /\ p = object[task[t].object].history
          /\ Len(stored[c0]) < Len(p) /\ cache[c0] = task[t].object /\ task[t].object \in Turn
      BY <1>2, <1>3, <2>1, <3>1, TurnState DEF SerialInv, Own, Holding
    <3>3. Begins(stored[c0], p)
      BY <1>2, <1>3, <3>2
    <3> HIDE DEF c0, p
    <3>4. Saving(t)'
      BY <3>1
    <3>5. CASE stored' = stored
      BY <1>1, <1>4, <1>6, <3>1, <3>4, <3>5
    <3>6. CASE stored' = [stored EXCEPT ![c0] = p]
      <4>1. stored'[c0] = p /\ \A c \in Conv : c # c0 => stored'[c] = stored[c]
        BY <1>3, <3>2, <3>6
      <4>2. Cached'
        BY <1>2, <3>1, <3>2, <4>1, BeginsItself
      <4>3. IsStrictPrefix(stored[c0], p)
        BY <1>3, <3>2, <3>3, BeginsIsPrefix
      <4>4. Grows
        BY <3>2, <3>6, <4>1, <4>3 DEF Grows
      <4> QED BY <1>1, <1>6, <3>4, <4>2, <4>4
    <3> QED BY <3>1, <3>5, <3>6
  <2> QED BY <1>6, <2>2, <2>3, <2>4, <2>5, <2>6, <2>7 DEF TurnStep
<1>7. CASE NewDay
  BY <1>7 DEF NewDay, NewServerDay, NewDatabaseDay, NewUtcDay, StoredInv, Grows
<1>8. CASE Restart
  <2>1. StoredInv'
    BY <1>8, RestartEffect DEF StoredInv
  <2> QED BY <1>8, <2>1 DEF Restart, Grows
<1> QED BY <1>5, <1>6, <1>7, <1>8 DEF Next, Starts

\* The stored histories implement a log that only grows: failed writes and restarts may
\* lose or delay the newest messages, never take back a stored one.
THEOREM StoredHistoriesGrow ==
  ASSUME ~Overlap, ~ReadFaults
  PROVE  Spec => StoredLogGrows
<1>1. Init => StoredInv
  BY DEF Init, StoredInv, Idle
<1>2. IInv /\ SerialInv /\ StoredInv /\ [Next]_vars => StoredInv'
  <2>1. CASE Next
    BY <2>1, StoredStep
  <2>2. CASE UNCHANGED vars
    BY <2>2 DEF vars, StoredInv
  <2> QED BY <2>1, <2>2
<1>3. Init => Log!Init
  BY DEF Init, Log!Init
<1>4. IInv /\ SerialInv /\ StoredInv /\ [Next]_vars => [Log!Next]_stored
  <2> SUFFICES ASSUME IInv, SerialInv, StoredInv, [Next]_vars PROVE [Log!Next]_stored
    OBVIOUS
  <2>1. CASE Next
    <3>1. Grows
      BY <2>1, StoredStep
    <3> QED BY <3>1 DEF Grows, Log!Next, Log!Extend, Log!IsStrictPrefix, Log!IsPrefix, IsStrictPrefix, IsPrefix
  <2>2. CASE UNCHANGED vars
    BY <2>2 DEF vars
  <2> QED BY <2>1, <2>2
<1> QED BY <1>1, <1>2, <1>3, <1>4, Invariance, SerialInvariance, PTL DEF Spec, StoredLogGrows, Log!Spec

=============================================================================
