------------------------- MODULE RateLimiterProofs -------------------------
(***************************************************************************)
(* Theorems about RateLimiter, for all limits, lengths, document numbers   *)
(* and any number of requests.                                             *)
(***************************************************************************)
EXTENDS RateLimiter, SequenceTheorems, FunctionTheorems, FiniteSetTheorems, WellFoundedInduction, TLAPS

USE RateLimiterAssumption

LEMMA Lengths ==
  /\ Second \in Nat \ {0} /\ Minute \in Nat \ {0} /\ Hour \in Nat \ {0} /\ Block \in Nat \ {0}
  /\ \A w \in Window : Span(w) \in Nat \ {0}
BY DEF Span

-----------------------------------------------------------------------------
(* Pruning. *)

LEMMA Least ==
  ASSUME NEW S, S \subseteq Nat, S # {}
  PROVE  \E x \in S : \A y \in S : x <= y
<1>1. PICK x \in S : \A y \in S : ~(<<y, x>> \in OpToRel(<, Nat))
  BY NatLessThanWellFounded, WFMin, Zenon
<1>2. \A y \in S : ~(y < x)
  BY <1>1 DEF OpToRel
<1> QED BY <1>2

LEMMA FirstProperties ==
  ASSUME NEW len \in Nat, NEW live, live \subseteq 1..len
  PROVE  /\ First(live, len) \in live \cup {len + 1}
         /\ \A i \in live : First(live, len) <= i
<1>1. \E k \in live \cup {len + 1} : \A i \in live : k <= i
  <2>1. CASE live = {}
    BY <2>1
  <2>2. CASE live # {}
    <3>1. live \subseteq Nat
      OBVIOUS
    <3> QED BY <2>2, <3>1, Least
  <2> QED BY <2>1, <2>2
<1> QED BY <1>1 DEF First

\* What popping from the left leaves: the tail from the first live entry on.
LEMMA PoppedProperties ==
  ASSUME NEW S, NEW s \in Seq(S), NEW live, live \subseteq 1..Len(s)
  PROVE  \E k \in 1..(Len(s) + 1) :
           /\ Popped(s, live) \in Seq(S) /\ Len(s) \in Nat
           /\ Len(Popped(s, live)) = Len(s) - k + 1
           /\ \A i \in 1..(Len(s) - k + 1) : Popped(s, live)[i] = s[k + i - 1]
           /\ \A i \in 1..(k - 1) : i \notin live
           /\ k <= Len(s) => k \in live
<1> DEFINE k == First(live, Len(s))
<1>1. Len(s) \in Nat /\ \A i \in 1..Len(s) : s[i] \in S
  BY LenProperties, ElementOfSeq
<1>2. k \in live \cup {Len(s) + 1} /\ \A i \in live : k <= i
  BY <1>1, FirstProperties
<1> HIDE DEF k
<1>3. k \in 1..(Len(s) + 1)
  BY <1>1, <1>2
<1>4. \A i \in 1..(k - 1) : i \notin live
  BY <1>2, <1>3
<1>5. k <= Len(s) => k \in live
  BY <1>1, <1>2, <1>3
<1>6. /\ Popped(s, live) \in Seq(S)
      /\ Len(Popped(s, live)) = Len(s) - k + 1
      /\ \A i \in 1..(Len(s) - k + 1) : Popped(s, live)[i] = s[k + i - 1]
  <2>1. k \in Int /\ Len(s) \in Int /\ \A i \in k..Len(s) : s[i] \in S
    BY <1>1, <1>3
  <2>2. /\ SubSeq(s, k, Len(s)) \in Seq(S)
        /\ Len(SubSeq(s, k, Len(s))) = IF k <= Len(s) THEN Len(s) - k + 1 ELSE 0
        /\ \A i \in 1..(Len(s) - k + 1) : SubSeq(s, k, Len(s))[i] = s[k + i - 1]
    BY <2>1, SubSeqProperties
  <2>3. Popped(s, live) = SubSeq(s, k, Len(s))
    BY DEF Popped, k
  <2> QED BY <1>1, <1>3, <2>2, <2>3
<1> QED BY <1>1, <1>3, <1>4, <1>5, <1>6

\* _prune keeps the tail of the list from the first entry that has not expired.
LEMMA Pruned ==
  ASSUME NEW s \in Seq(Nat), NEW span \in Nat, now \in Nat
  PROVE  \E k \in 1..(Len(s) + 1) :
           /\ Live(s, span) \in Seq(Nat) /\ Len(s) \in Nat
           /\ Len(Live(s, span)) = Len(s) - k + 1
           /\ \A i \in 1..(Len(s) - k + 1) : Live(s, span)[i] = s[k + i - 1]
           /\ \A i \in 1..(k - 1) : s[i] + span <= now
           /\ k <= Len(s) => s[k] + span > now
<1> DEFINE live == {i \in 1..Len(s) : s[i] + span > now}
           N == Nat
<1>1. Len(s) \in Nat /\ \A i \in 1..Len(s) : s[i] \in Nat
  BY LenProperties, ElementOfSeq
<1>2. \A i \in 1..Len(s) : i \in live <=> s[i] + span > now
  OBVIOUS
<1>3. live \subseteq 1..Len(s) /\ Live(s, span) = Popped(s, live)
  BY DEF Live
<1> HIDE DEF live, N
<1>4. PICK k \in 1..(Len(s) + 1) :
        /\ Popped(s, live) \in Seq(N) /\ Len(s) \in Nat
        /\ Len(Popped(s, live)) = Len(s) - k + 1
        /\ \A i \in 1..(Len(s) - k + 1) : Popped(s, live)[i] = s[k + i - 1]
        /\ \A i \in 1..(k - 1) : i \notin live
        /\ k <= Len(s) => k \in live
  <2>1. s \in Seq(N) /\ live \subseteq 1..Len(s)
    BY <1>3 DEF N
  <2> QED BY <2>1, PoppedProperties, Zenon
<1>5. \A i \in 1..(k - 1) : s[i] + span <= now
  <2>1. \A i \in 1..(k - 1) : i \in 1..Len(s)
    BY <1>1
  <2>2. \A i \in 1..(k - 1) : ~(s[i] + span > now)
    BY <1>2, <1>4, <2>1
  <2> QED BY <1>1, <2>1, <2>2
<1>6. k <= Len(s) => s[k] + span > now
  BY <1>1, <1>2, <1>4
<1> QED BY <1>1, <1>3, <1>4, <1>5, <1>6 DEF N

LEMMA RecentPruned ==
  ASSUME dnis \in Seq([at : Nat, dni : Dni]), now \in Nat
  PROVE  \E k \in 1..(Len(dnis) + 1) :
           /\ Recent \in Seq([at : Nat, dni : Dni]) /\ Len(dnis) \in Nat
           /\ Len(Recent) = Len(dnis) - k + 1
           /\ \A i \in 1..(Len(dnis) - k + 1) : Recent[i] = dnis[k + i - 1]
           /\ \A i \in 1..(k - 1) : dnis[i].at + Hour <= now
<1> DEFINE live == {i \in 1..Len(dnis) : dnis[i].at + Hour > now}
           E == [at : Nat, dni : Dni]
<1>1. Len(dnis) \in Nat /\ \A i \in 1..Len(dnis) : dnis[i] \in E
  BY LenProperties, ElementOfSeq
<1>2. \A i \in 1..Len(dnis) : i \in live <=> dnis[i].at + Hour > now
  OBVIOUS
<1>3. live \subseteq 1..Len(dnis) /\ Recent = Popped(dnis, live)
  BY DEF Recent
<1> HIDE DEF live, E
<1>4. PICK k \in 1..(Len(dnis) + 1) :
        /\ Popped(dnis, live) \in Seq(E) /\ Len(dnis) \in Nat
        /\ Len(Popped(dnis, live)) = Len(dnis) - k + 1
        /\ \A i \in 1..(Len(dnis) - k + 1) : Popped(dnis, live)[i] = dnis[k + i - 1]
        /\ \A i \in 1..(k - 1) : i \notin live
        /\ k <= Len(dnis) => k \in live
  <2>1. dnis \in Seq(E) /\ live \subseteq 1..Len(dnis)
    BY <1>3 DEF E
  <2> QED BY <2>1, PoppedProperties, Zenon
<1>5. \A i \in 1..(k - 1) : dnis[i].at + Hour <= now
  <2> SUFFICES ASSUME NEW i \in 1..(k - 1)
               PROVE  dnis[i].at + Hour <= now
    OBVIOUS
  <2>1. i \in 1..Len(dnis)
    BY <1>1
  <2>2. ~(dnis[i].at + Hour > now)
    BY <1>2, <1>4, <2>1
  <2>3. dnis[i].at \in Nat
    BY <1>1, <2>1 DEF E
  <2> QED BY <2>2, <2>3, Lengths
<1> QED BY <1>1, <1>3, <1>4, <1>5 DEF E

-----------------------------------------------------------------------------
(* A window h of length span with limit n, what it has served, and the time. *)

Ordered(s) == \A i, j \in 1..Len(s) : i <= j => s[i] <= s[j]

Past(s, time) == \A i \in 1..Len(s) : s[i] <= time

\* The window is the tail of what was served, and only expired entries are missing.
Tail_of(h, s, span, time) ==
  /\ Len(h) <= Len(s)
  /\ \A i \in 1..Len(h) : h[i] = s[Len(s) - Len(h) + i]
  /\ \A i \in 1..(Len(s) - Len(h)) : s[i] + span <= time

\* No n + 1 of them within span.
Spaced(s, n, span) ==
  \A i \in 1..Len(s) : i + n <= Len(s) => s[i + n] >= s[i] + span

Tracks(h, s, n, span, time) ==
  /\ h \in Times /\ s \in Times
  /\ Ordered(s) /\ Past(s, time)
  /\ Tail_of(h, s, span, time)
  /\ Spaced(s, n, span)

LEMMA TimesProperties ==
  ASSUME NEW s \in Times
  PROVE  /\ Len(s) \in Nat
         /\ \A i \in 1..Len(s) : s[i] \in Nat
         /\ \A t \in Nat : /\ Append(s, t) \in Times /\ Len(Append(s, t)) = Len(s) + 1
                           /\ \A i \in 1..Len(s) : Append(s, t)[i] = s[i]
                           /\ Append(s, t)[Len(s) + 1] = t
BY LenProperties, ElementOfSeq, AppendProperties DEF Times

LEMMA OrderedAppend ==
  ASSUME NEW s \in Times, NEW t \in Nat, Ordered(s), Past(s, t)
  PROVE  Ordered(Append(s, t)) /\ Past(Append(s, t), t)
<1> DEFINE r == Append(s, t)
<1>1. /\ Len(s) \in Nat /\ Len(r) = Len(s) + 1
      /\ \A i \in 1..Len(s) : r[i] = s[i] /\ s[i] \in Nat
      /\ r[Len(s) + 1] = t
  BY TimesProperties
<1>2. \A i \in 1..Len(r) : i \in 1..Len(s) \/ i = Len(s) + 1
  BY <1>1
<1> HIDE DEF r
<1>3. Past(r, t)
  BY <1>1, <1>2 DEF Past
<1>4. Ordered(r)
  <2> SUFFICES ASSUME NEW i \in 1..Len(r), NEW j \in 1..Len(r), i <= j
               PROVE  r[i] <= r[j]
    BY DEF Ordered
  <2>1. CASE j \in 1..Len(s)
    <3>1. i \in 1..Len(s)
      BY <1>1, <2>1
    <3> QED BY <1>1, <2>1, <3>1 DEF Ordered
  <2>2. CASE j = Len(s) + 1
    BY <1>1, <1>3, <2>2 DEF Past
  <2> QED BY <1>2, <2>1, <2>2
<1> QED BY <1>3, <1>4 DEF r

LEMMA TracksLater ==
  ASSUME NEW h, NEW s, NEW n, NEW span \in Nat, NEW t1 \in Nat, NEW t2 \in Nat, t1 <= t2,
         Tracks(h, s, n, span, t1)
  PROVE  Tracks(h, s, n, span, t2)
<1>1. s \in Times /\ h \in Times
  BY DEF Tracks
<1>2. Len(s) \in Nat /\ Len(h) \in Nat /\ \A i \in 1..Len(s) : s[i] \in Nat
  BY <1>1, TimesProperties
<1>3. Past(s, t2)
  BY <1>2 DEF Tracks, Past
<1>4. Tail_of(h, s, span, t2)
  <2>1. \A i \in 1..(Len(s) - Len(h)) : i \in 1..Len(s)
    BY <1>2
  <2> QED BY <1>2, <2>1 DEF Tracks, Tail_of
<1> QED BY <1>3, <1>4 DEF Tracks

LEMMA TracksPruned ==
  ASSUME NEW h, NEW s, NEW n, NEW span \in Nat, now \in Nat, Tracks(h, s, n, span, now)
  PROVE  Tracks(Live(h, span), s, n, span, now)
<1> DEFINE g == Live(h, span)
<1>1. h \in Times /\ s \in Times /\ Len(s) \in Nat /\ Len(h) \in Nat /\ Len(h) <= Len(s)
  BY TimesProperties DEF Tracks, Tail_of
<1>2. PICK k \in 1..(Len(h) + 1) :
        /\ g \in Times
        /\ Len(g) = Len(h) - k + 1
        /\ \A i \in 1..(Len(h) - k + 1) : g[i] = h[k + i - 1]
        /\ \A i \in 1..(k - 1) : h[i] + span <= now
  BY <1>1, Pruned DEF Times
<1> HIDE DEF g
<1>3. Len(g) <= Len(s) /\ Len(s) - Len(g) = Len(s) - Len(h) + k - 1
  BY <1>1, <1>2
<1>4. \A i \in 1..Len(g) : g[i] = s[Len(s) - Len(g) + i]
  <2> SUFFICES ASSUME NEW i \in 1..Len(g) PROVE g[i] = s[Len(s) - Len(g) + i]
    OBVIOUS
  <2>1. k + i - 1 \in 1..Len(h) /\ g[i] = h[k + i - 1]
    BY <1>1, <1>2
  <2>2. \A j \in 1..Len(h) : h[j] = s[Len(s) - Len(h) + j]
    BY DEF Tracks, Tail_of
  <2>3. Len(s) - Len(h) + (k + i - 1) = Len(s) - Len(g) + i
    BY <1>1, <1>2, <1>3
  <2>4. h[k + i - 1] = s[Len(s) - Len(h) + (k + i - 1)]
    BY <2>1, <2>2
  <2> QED BY <2>1, <2>3, <2>4
<1>5. \A i \in 1..(Len(s) - Len(g)) : s[i] + span <= now
  <2> SUFFICES ASSUME NEW i \in 1..(Len(s) - Len(g)) PROVE s[i] + span <= now
    OBVIOUS
  <2>1. CASE i <= Len(s) - Len(h)
    BY <1>1, <2>1 DEF Tracks, Tail_of
  <2>2. CASE i > Len(s) - Len(h)
    <3> DEFINE j == i - (Len(s) - Len(h))
    <3>1. j \in 1..(k - 1) /\ j \in 1..Len(h) /\ Len(s) - Len(h) + j = i
      BY <1>1, <1>2, <1>3, <2>2
    <3> HIDE DEF j
    <3>2. h[j] = s[i]
      BY <3>1 DEF Tracks, Tail_of
    <3> QED BY <1>2, <3>1, <3>2
  <2> QED BY <1>1, <2>1, <2>2
<1> QED BY <1>2, <1>3, <1>4, <1>5 DEF Tracks, Tail_of, g

LEMMA TracksEntered ==
  ASSUME NEW h, NEW s, NEW n \in Nat, NEW span \in Nat, now \in Nat, Tracks(h, s, n, span, now),
         Len(Live(h, span)) < n
  PROVE  Tracks(Append(Live(h, span), now), Append(s, now), n, span, now)
<1> DEFINE g == Live(h, span)
<1>1. Tracks(g, s, n, span, now)
  BY TracksPruned
<1> HIDE DEF g
<1> DEFINE g2 == Append(g, now)
           s2 == Append(s, now)
<1>2. g \in Times /\ s \in Times
  BY <1>1 DEF Tracks
<1>3. /\ Len(g) \in Nat /\ Len(s) \in Nat /\ Len(g) <= Len(s) /\ Len(g) < n
      /\ \A i \in 1..Len(s) : s[i] \in Nat
  BY <1>1, <1>2, TimesProperties DEF Tracks, Tail_of, g
<1>4. /\ g2 \in Times /\ Len(g2) = Len(g) + 1
      /\ \A i \in 1..Len(g) : g2[i] = g[i]
      /\ g2[Len(g) + 1] = now
  BY <1>2, TimesProperties
<1>5. /\ s2 \in Times /\ Len(s2) = Len(s) + 1
      /\ \A i \in 1..Len(s) : s2[i] = s[i]
      /\ s2[Len(s) + 1] = now
  BY <1>2, TimesProperties
<1>6. Ordered(s2) /\ Past(s2, now)
  BY <1>1, <1>2, OrderedAppend DEF Tracks
<1> HIDE DEF g2, s2
<1>7. Tail_of(g2, s2, span, now)
  <2>1. \A i \in 1..Len(g2) : g2[i] = s2[Len(s2) - Len(g2) + i]
    <3> SUFFICES ASSUME NEW i \in 1..Len(g2) PROVE g2[i] = s2[Len(s2) - Len(g2) + i]
      OBVIOUS
    <3>1. CASE i = Len(g) + 1
      BY <1>3, <1>4, <1>5, <3>1
    <3>2. CASE i \in 1..Len(g)
      <4>1. g[i] = s[Len(s) - Len(g) + i]
        BY <1>1, <3>2 DEF Tracks, Tail_of
      <4>2. Len(s) - Len(g) + i \in 1..Len(s) /\ Len(s2) - Len(g2) + i = Len(s) - Len(g) + i
        BY <1>3, <1>4, <1>5, <3>2
      <4> QED BY <1>4, <1>5, <3>2, <4>1, <4>2
    <3> QED BY <1>3, <1>4, <3>1, <3>2
  <2>2. \A i \in 1..(Len(s2) - Len(g2)) : s2[i] + span <= now
    <3> SUFFICES ASSUME NEW i \in 1..(Len(s2) - Len(g2)) PROVE s2[i] + span <= now
      OBVIOUS
    <3>1. i \in 1..(Len(s) - Len(g)) /\ i \in 1..Len(s)
      BY <1>3, <1>4, <1>5
    <3> QED BY <1>1, <1>5, <3>1 DEF Tracks, Tail_of
  <2> QED BY <1>3, <1>4, <1>5, <2>1, <2>2 DEF Tail_of
<1>8. Spaced(s2, n, span)
  <2> SUFFICES ASSUME NEW i \in 1..Len(s2), i + n <= Len(s2)
               PROVE  s2[i + n] >= s2[i] + span
    BY DEF Spaced
  <2>1. i \in 1..Len(s) /\ s2[i] = s[i]
    BY <1>3, <1>5
  <2>2. CASE i + n <= Len(s)
    <3>1. i + n \in 1..Len(s) /\ s2[i + n] = s[i + n]
      BY <1>3, <1>5, <2>1, <2>2
    <3> QED BY <1>1, <2>1, <2>2, <3>1 DEF Tracks, Spaced
  <2>3. CASE i + n = Len(s) + 1
    <3>1. i \in 1..(Len(s) - Len(g))
      BY <1>3, <2>1, <2>3
    <3>2. s[i] + span <= now
      BY <1>1, <3>1 DEF Tracks, Tail_of
    <3>3. s2[i + n] = now
      BY <1>5, <2>3
    <3> QED BY <1>3, <2>1, <3>2, <3>3
  <2>4. i + n <= Len(s) \/ i + n = Len(s) + 1
    <3>1. i \in Int /\ Len(s2) = Len(s) + 1 /\ Len(s) \in Int
      BY <1>3, <1>5
    <3> QED BY <3>1
  <2> QED BY <2>2, <2>3, <2>4
<1> QED BY <1>4, <1>5, <1>6, <1>7, <1>8 DEF Tracks, g, g2, s2

-----------------------------------------------------------------------------
(* What a step does to a window. *)

LEMMA Limits ==
  ASSUME limit \in Config
  PROVE  /\ limit["coarse"] \in Nat \ {0}
         /\ \A w \in Window : limit[w] \in Nat
         /\ \A h \in Handler : h \in Window /\ h # "coarse"
         /\ limit.coarse = limit["coarse"] /\ limit.chat = limit["chat"]
         /\ limit.distinct \in Nat /\ limit.ident \in Nat
<1>1. limit \in [coarse : Nat \ {0}, chat : Nat, upload : Nat, ident : Nat, distinct : Nat]
  BY DEF RateLimiterAssumption
<1> QED BY <1>1 DEF Window, Handler

WindowInv(w) == limit[w] > 0 => Tracks(window[w], served[w], limit[w], Span(w), now)

WindowEffect(w) ==
  \/ window'[w] = window[w] /\ served'[w] = served[w]
  \/ window'[w] = Live(window[w], Span(w)) /\ served'[w] = served[w]
  \/ /\ window'[w] = Append(Live(window[w], Span(w)), now)
     /\ served'[w] = Append(served[w], now)
     /\ ~Full(w)

TimesOf == window \in [Window -> Times] /\ served \in [Window -> Times]

LEMMA LiveTimes ==
  ASSUME now \in Nat, NEW s \in Times, NEW w \in Window
  PROVE  Live(s, Span(w)) \in Times /\ Append(Live(s, Span(w)), now) \in Times /\ Append(s, now) \in Times
<1>1. Live(s, Span(w)) \in Times
  BY Pruned, Lengths DEF Times
<1> QED BY <1>1, TimesProperties

LEMMA EnterEffect ==
  ASSUME now \in Nat, TimesOf, NEW W \in SUBSET Window, Enter(W),
         \A w \in W : limit[w] = 0 \/ ~Full(w)
  PROVE  /\ TimesOf'
         /\ \A w \in Window : limit[w] # 0 => WindowEffect(w)
         /\ \A w \in Window : served'[w] = IF w \in W THEN Append(served[w], now) ELSE served[w]
<1>1. /\ window' = [w \in Window |->
                      IF w \notin W THEN window[w]
                      ELSE IF limit[w] = 0 THEN window[w]
                      ELSE Append(Live(window[w], Span(w)), now)]
      /\ served' = [w \in Window |-> IF w \in W THEN Append(served[w], now) ELSE served[w]]
  BY DEF Enter
<1>2. \A w \in Window : /\ window[w] \in Times /\ served[w] \in Times
                        /\ Append(Live(window[w], Span(w)), now) \in Times
                        /\ Append(served[w], now) \in Times
  BY LiveTimes DEF TimesOf
<1>3. TimesOf'
  BY <1>1, <1>2 DEF TimesOf
<1>4. \A w \in Window : limit[w] # 0 => WindowEffect(w)
  BY <1>1 DEF WindowEffect
<1> QED BY <1>1, <1>3, <1>4

\* A refused request leaves every window that is on as it was, or pruned.
LEMMA RefusedEffect ==
  ASSUME limit \in Config, now \in Nat, TimesOf, NEW h \in Handler, RefusedBy(h)
  PROVE  /\ TimesOf'
         /\ \A w \in Window : limit[w] # 0 => WindowEffect(w)
         /\ served' = served
<1> DEFINE live == Live(window[h], Span(h))
<1>1. served' = served /\ h \in Window
  BY Limits DEF RefusedBy
<1>2. CASE UNCHANGED window
  BY <1>1, <1>2 DEF TimesOf, WindowEffect
<1>3. CASE window' = [window EXCEPT ![h] = live]
  <2>1. live \in Times
    BY <1>1, LiveTimes DEF TimesOf
  <2> HIDE DEF live
  <2>2. TimesOf'
    BY <1>1, <1>3, <2>1 DEF TimesOf
  <2>3. window'[h] = live /\ \A w \in Window \ {h} : window'[w] = window[w]
    BY <1>1, <1>3 DEF TimesOf
  <2>4. \A w \in Window : WindowEffect(w)
    BY <1>1, <2>3 DEF WindowEffect, live
  <2> QED BY <1>1, <2>2, <2>4
<1> QED BY <1>2, <1>3 DEF RefusedBy

LEMMA PassingEffect ==
  ASSUME limit \in Config, now \in Nat, TimesOf, NEW h \in Handler, Passes(h), Enter({h})
  PROVE  /\ TimesOf'
         /\ \A w \in Window : limit[w] # 0 => WindowEffect(w)
         /\ \A w \in Window : served'[w] = IF w = h THEN Append(served[w], now) ELSE served[w]
<1>1. {h} \in SUBSET Window
  BY Limits
<1>2. \A w \in {h} : limit[w] = 0 \/ ~Full(w)
  BY DEF Passes
<1> QED BY <1>1, <1>2, EnterEffect

LEMMA AdmittedEffect ==
  ASSUME limit \in Config, now \in Nat, TimesOf, NEW h \in Handler, Admitted(h)
  PROVE  /\ TimesOf'
         /\ \A w \in Window : limit[w] # 0 => WindowEffect(w)
         /\ \A w \in Handler : served'[w] = served[w]
<1>1. {"coarse"} \in SUBSET Window /\ Enter({"coarse"})
  BY DEF Window, Admitted
<1>2. \A w \in {"coarse"} : limit[w] = 0 \/ ~Full(w)
  BY DEF Admitted
<1> QED BY <1>1, <1>2, EnterEffect, Limits

LEMMA WindowStep ==
  ASSUME limit \in Config, now \in Nat, TimesOf, Next
  PROVE  /\ TimesOf'
         /\ limit' = limit
         /\ \/ now' = now + 1 /\ UNCHANGED <<window, served, attempts, dnis, resolved, reply>>
            \/ now' = now /\ \A w \in Window : limit[w] # 0 => WindowEffect(w)
<1>1. CASE Tick
  BY <1>1 DEF Tick, TimesOf
<1>2. CASE RefusedByMiddleware
  <2>1. /\ window' = [window EXCEPT !["coarse"] = Live(@, Minute)]
        /\ served' = served /\ now' = now /\ limit' = limit
    BY <1>2 DEF RefusedByMiddleware, Request
  <2>2. "coarse" \in Window /\ Span("coarse") = Minute
    BY DEF Window, Span
  <2>3. Live(window["coarse"], Minute) \in Times
    BY <2>2, LiveTimes DEF TimesOf
  <2>4. TimesOf'
    BY <2>1, <2>3 DEF TimesOf
  <2>5. \A w \in Window : WindowEffect(w)
    BY <2>1, <2>2 DEF WindowEffect, TimesOf
  <2> QED BY <2>1, <2>4, <2>5
<1>3. ASSUME NEW h \in Handler, Admitted(h) \/ Dropped(h) \/ RefusedBy(h)
      PROVE  /\ TimesOf' /\ limit' = limit /\ now' = now
             /\ \A w \in Window : limit[w] # 0 => WindowEffect(w)
  <2>1. now' = now /\ limit' = limit
    BY <1>3 DEF Admitted, Dropped, RefusedBy, Request, Handled
  <2>2. CASE Dropped(h)
    BY <2>1, <2>2 DEF Dropped, TimesOf, WindowEffect
  <2> QED BY <1>3, <2>1, <2>2, AdmittedEffect, RefusedEffect
<1>4. ASSUME NEW h \in Handler, Passes(h), Enter({h}), Handled(h)
      PROVE  /\ TimesOf' /\ limit' = limit /\ now' = now
             /\ \A w \in Window : limit[w] # 0 => WindowEffect(w)
  BY <1>4, PassingEffect DEF Handled
<1>5. CASE Chat
  BY <1>4, <1>5 DEF Chat, Handler
<1>6. CASE UploadMalformed
  BY <1>4, <1>6 DEF UploadMalformed, Handler
<1>7. ASSUME NEW d \in Dni, Upload(d)
      PROVE  /\ TimesOf' /\ limit' = limit /\ now' = now
             /\ \A w \in Window : limit[w] # 0 => WindowEffect(w)
  BY <1>4, <1>7 DEF Upload, Handler
<1>8. ASSUME NEW d \in Dni, Identify(d)
      PROVE  /\ TimesOf' /\ limit' = limit /\ now' = now
             /\ \A w \in Window : limit[w] # 0 => WindowEffect(w)
  BY <1>8 DEF Identify, Request, TimesOf, WindowEffect
<1> QED BY <1>1, <1>2, <1>3, <1>5, <1>6, <1>7, <1>8 DEF Next

LEMMA WindowInvStep ==
  ASSUME limit \in Config, now \in Nat, TimesOf, [Next]_vars, NEW w \in Window, WindowInv(w)
  PROVE  WindowInv(w)'
<1>1. CASE Next
  <2>1. limit' = limit /\ limit[w] \in Nat /\ Span(w) \in Nat
    BY <1>1, WindowStep, Limits, Lengths
  <2> SUFFICES ASSUME limit[w] > 0
               PROVE  Tracks(window'[w], served'[w], limit[w], Span(w), now')
    BY <2>1 DEF WindowInv, Span
  <2>2. Tracks(window[w], served[w], limit[w], Span(w), now)
    BY DEF WindowInv
  <2>3. CASE now' = now + 1 /\ UNCHANGED <<window, served>>
    BY <2>1, <2>2, <2>3, TracksLater
  <2>4. CASE now' = now /\ WindowEffect(w)
    <3>1. CASE window'[w] = Live(window[w], Span(w)) /\ served'[w] = served[w]
      BY <2>1, <2>2, <2>4, <3>1, TracksPruned
    <3>2. CASE /\ window'[w] = Append(Live(window[w], Span(w)), now)
               /\ served'[w] = Append(served[w], now)
               /\ ~Full(w)
      <4>1. Len(Live(window[w], Span(w))) < limit[w]
        <5>1. Live(window[w], Span(w)) \in Times
          BY LiveTimes DEF TimesOf
        <5>2. Len(Live(window[w], Span(w))) \in Nat
          BY <5>1, TimesProperties
        <5> QED BY <2>1, <3>2, <5>2 DEF Full
      <4> QED BY <2>1, <2>2, <2>4, <3>2, <4>1, TracksEntered
    <3> QED BY <2>2, <2>4, <3>1, <3>2 DEF WindowEffect
  <2> QED BY <1>1, <2>1, <2>3, <2>4, WindowStep
<1>2. CASE UNCHANGED vars
  BY <1>2 DEF vars, WindowInv, Span
<1> QED BY <1>1, <1>2

-----------------------------------------------------------------------------
(* Types. *)

DniAt == [at : Nat, dni : Dni]

LEMMA DniSeq ==
  ASSUME NEW s \in Seq(DniAt)
  PROVE  /\ Len(s) \in Nat
         /\ \A i \in 1..Len(s) : s[i] \in DniAt /\ s[i].at \in Nat /\ s[i].dni \in Dni
         /\ \A e \in DniAt : /\ Append(s, e) \in Seq(DniAt) /\ Len(Append(s, e)) = Len(s) + 1
                             /\ \A i \in 1..Len(s) : Append(s, e)[i] = s[i]
                             /\ Append(s, e)[Len(s) + 1] = e
<1>1. \A i \in 1..Len(s) : s[i] \in DniAt
  BY ElementOfSeq
<1>2. \A e \in DniAt : s[1] = s[1] => e.at \in Nat /\ e.dni \in Dni
  BY DEF DniAt
<1> QED BY <1>1, <1>2, LenProperties, AppendProperties

LEMMA SecondsPositive ==
  ASSUME NEW t \in Nat
  PROVE  Seconds(t) \in Nat \ {0}
<1>1. CASE t < Second
  BY <1>1 DEF Seconds
<1>2. CASE t >= Second
  <2>1. Second \in Nat \ {0}
    BY Lengths
  <2>2. t \div Second \in Nat \ {0}
    BY <1>2, <2>1
  <2> QED BY <1>2, <2>1, <2>2 DEF Seconds
<1> QED BY <1>1, <1>2, Lengths

LEMMA AnswerType ==
  ASSUME now \in Nat, NEW r \in Reason, NEW w \in Nat, NEW b \in BOOLEAN, Answer(r, w, b),
         r \in {"none", "ok"} <=> w = 0
  PROVE  /\ reply' \in [reason : Reason, retry : Nat, repeat : BOOLEAN]
         /\ reply'.reason \in {"none", "ok"} <=> reply'.retry = 0
         /\ reply'.reason = r
BY DEF Answer

LEMMA NewDnisType ==
  ASSUME now \in Nat, dnis \in Seq(DniAt), NEW d \in Dni
  PROVE  Recent \in Seq(DniAt) /\ NewDnis(d) \in Seq(DniAt) /\ [at |-> now, dni |-> d] \in DniAt
<1>1. Recent \in Seq(DniAt)
  BY RecentPruned DEF DniAt
<1>2. [at |-> now, dni |-> d] \in DniAt
  BY DEF DniAt
<1> QED BY <1>1, <1>2, DniSeq DEF NewDnis

LEMMA LiveAttempts ==
  ASSUME now \in Nat, attempts \in Times
  PROVE  /\ Live(attempts, Hour) \in Times
         /\ Append(Live(attempts, Hour), now) \in Times
<1>1. Live(attempts, Hour) \in Times
  BY Pruned, Lengths DEF Times
<1> QED BY <1>1, TimesProperties

\* The client always has to wait for the first attempt that counts to expire.
LEMMA HeadAttempt ==
  ASSUME now \in Nat, attempts \in Times, NEW d, ~IsRepeat(d)
  PROVE  Head(NewAttempts(d)) + Hour - now \in Nat
<1> DEFINE live == Live(attempts, Hour)
<1>1. NewAttempts(d) = Append(live, now)
  BY DEF NewAttempts
<1>2. live \in Times
  BY LiveAttempts
<1>3. Head(Append(live, now)) = IF live = <<>> THEN now ELSE Head(live)
  BY <1>2, HeadTailAppend DEF Times
<1>4. CASE live = <<>>
  BY <1>1, <1>3, <1>4, Lengths
<1>5. CASE live # <<>>
  <2>1. PICK k \in 1..(Len(attempts) + 1) :
          /\ Len(attempts) \in Nat
          /\ Len(live) = Len(attempts) - k + 1
          /\ \A i \in 1..(Len(attempts) - k + 1) : live[i] = attempts[k + i - 1]
          /\ k <= Len(attempts) => attempts[k] + Hour > now
    BY Pruned, Lengths DEF Times
  <2> HIDE DEF live
  <2>2. Len(live) \in Nat \ {0} /\ Head(live) = live[1] /\ live[1] \in Nat
    <3>1. live \in Seq(Nat)
      BY <1>2 DEF Times
    <3>2. Len(live) \in Nat \ {0}
      BY <1>5, <3>1, EmptySeq
    <3>3. Head(live) = live[1]
      BY <1>5, <3>1
    <3> QED BY <3>1, <3>2, <3>3, ElementOfSeq
  <2>3. live[1] = attempts[k] /\ k <= Len(attempts)
    BY <2>1, <2>2
  <2>4. live[1] + Hour > now
    BY <2>1, <2>3
  <2>5. Head(NewAttempts(d)) = live[1]
    BY <1>1, <1>3, <1>5, <2>2 DEF live
  <2> QED BY <2>2, <2>4, <2>5, Lengths
<1> QED BY <1>4, <1>5

\* The same of a window that is full.
LEMMA HeadWindow ==
  ASSUME limit \in Config, now \in Nat, TimesOf, NEW w \in Window, Full(w)
  PROVE  Head(Live(window[w], Span(w))) + Span(w) - now \in Nat
<1> DEFINE s == window[w]
           live == Live(s, Span(w))
<1>0. s \in Times /\ Span(w) \in Nat
  BY Lengths DEF TimesOf
<1>1. PICK k \in 1..(Len(s) + 1) :
        /\ live \in Seq(Nat) /\ Len(s) \in Nat
        /\ Len(live) = Len(s) - k + 1
        /\ \A i \in 1..(Len(s) - k + 1) : live[i] = s[k + i - 1]
        /\ k <= Len(s) => s[k] + Span(w) > now
  BY <1>0, Pruned DEF Times
<1>2. limit[w] \in Nat \ {0} /\ Len(live) >= limit[w]
  BY Limits DEF Full
<1> HIDE DEF live, s
<1>3. Len(live) \in Nat \ {0}
  <2>1. Len(live) \in Nat
    BY <1>1, LenProperties
  <2> QED BY <1>2, <2>1
<1>4. live # <<>> /\ live[1] \in Nat
  <2>1. live \in Seq(Nat)
    BY <1>1
  <2>2. live # <<>>
    BY <1>3, <2>1, EmptySeq
  <2>3. 1 \in 1..Len(live)
    BY <1>3
  <2> QED BY <2>1, <2>2, <2>3, ElementOfSeq
<1>5. Head(live) = live[1]
  BY <1>4
<1>6. live[1] = s[k] /\ k <= Len(s)
  BY <1>1, <1>3
<1>7. Head(live) + Span(w) - now \in Nat
  <2>1. s[k] + Span(w) > now
    BY <1>1, <1>6
  <2> QED BY <1>0, <1>4, <1>5, <1>6, <2>1
<1> QED BY <1>7 DEF live, s

ReplyOK ==
  /\ reply \in [reason : Reason, retry : Nat, repeat : BOOLEAN]
  /\ reply.reason \in {"none", "ok"} <=> reply.retry = 0

LEMMA IdentificationType ==
  ASSUME TypeOK, NEW d \in Dni, check_identification(d)
  PROVE  /\ attempts' \in Times
         /\ dnis' \in Seq(DniAt) /\ resolved' \in Seq(DniAt)
         /\ blockedUntil' \in Nat
         /\ ReplyOK'
<1>1. /\ now \in Nat /\ blockedUntil \in Nat /\ attempts \in Times
      /\ dnis \in Seq(DniAt) /\ resolved \in Seq(DniAt)
  BY DEF TypeOK, DniAt
<1>2. IsRepeat(d) \in BOOLEAN
  BY DEF IsRepeat
<1>3. CASE RefuseBlocked(d)
  <2>1. blockedUntil - now \in Nat
    BY <1>1, <1>3 DEF RefuseBlocked, Blocked
  <2>2. Seconds(blockedUntil - now) \in Nat \ {0}
    BY <2>1, SecondsPositive
  <2>3. Answer("temp_block", Seconds(blockedUntil - now), IsRepeat(d))
    BY <1>3 DEF RefuseBlocked
  <2>4. ReplyOK'
    <3> DEFINE r == Seconds(blockedUntil - now)
               b == IsRepeat(d)
    <3>1. r \in Nat \ {0} /\ b \in BOOLEAN /\ Answer("temp_block", r, b)
      BY <1>2, <2>2, <2>3
    <3> HIDE DEF r, b
    <3> QED BY <1>1, <3>1 DEF ReplyOK, Answer, Reason
  <2> QED BY <1>1, <1>3, <2>4 DEF RefuseBlocked
<1>4. ASSUME RecordAttempt(d)
      PROVE  attempts' \in Times /\ dnis' \in Seq(DniAt)
  <2>1. NewAttempts(d) \in Times
    BY <1>1, LiveAttempts DEF NewAttempts
  <2>2. NewDnis(d) \in Seq(DniAt)
    BY <1>1, NewDnisType
  <2> QED BY <1>4, <2>1, <2>2 DEF RecordAttempt
<1>5. CASE RefuseSweep(d)
  <2>1. Seconds(Block) \in Nat \ {0} /\ now + Block \in Nat
    BY <1>1, SecondsPositive, Lengths
  <2>2. ReplyOK'
    <3> DEFINE r == Seconds(Block)
               b == IsRepeat(d)
    <3>1. r \in Nat \ {0} /\ b \in BOOLEAN /\ Answer("dni_sweep_block", r, b)
      BY <1>2, <1>5, <2>1 DEF RefuseSweep
    <3> HIDE DEF r, b
    <3> QED BY <1>1, <3>1 DEF ReplyOK, Answer, Reason
  <2> QED BY <1>1, <1>4, <1>5, <2>1, <2>2 DEF RefuseSweep
<1>6. CASE RefuseRate(d)
  <2>1. Head(NewAttempts(d)) + Hour - now \in Nat
    BY <1>1, <1>6, HeadAttempt DEF RefuseRate, TooManyNew
  <2>2. ReplyOK'
    <3> DEFINE r == Seconds(Head(NewAttempts(d)) + Hour - now)
    <3>1. r \in Nat \ {0} /\ Answer("ident_per_hour", r, FALSE)
      BY <1>6, <2>1, SecondsPositive DEF RefuseRate
    <3> HIDE DEF r
    <3> QED BY <1>1, <3>1 DEF ReplyOK, Answer, Reason
  <2> QED BY <1>1, <1>4, <1>6, <2>2 DEF RefuseRate
<1>7. CASE Resolve(d)
  <2>1. resolved' \in Seq(DniAt)
    <3>1. resolved' = Append(resolved, [at |-> now, dni |-> d])
      BY <1>7 DEF Resolve
    <3>2. [at |-> now, dni |-> d] \in DniAt
      BY <1>1 DEF DniAt
    <3> QED BY <1>1, <3>1, <3>2, DniSeq
  <2>2. ReplyOK'
    <3> DEFINE b == IsRepeat(d)
    <3>1. b \in BOOLEAN /\ Answer("ok", 0, b)
      BY <1>2, <1>7 DEF Resolve
    <3> HIDE DEF b
    <3> QED BY <1>1, <3>1 DEF ReplyOK, Answer, Reason
  <2> QED BY <1>4, <1>7, <2>1, <2>2 DEF Resolve
<1> QED BY <1>3, <1>5, <1>6, <1>7 DEF check_identification

\* The part of the state only the coming and going of requests changes.
Counted == /\ limit \in Config /\ now \in Nat /\ requests \in Nat
           /\ admitted \in [Handler -> Nat]

LEMMA CountedStep ==
  ASSUME TypeOK, Next
  PROVE  Counted'
<1>1. limit \in Config /\ now \in Nat /\ requests \in Nat /\ admitted \in [Handler -> Nat]
  BY DEF TypeOK
<1>2. ASSUME NEW h \in Handler, Handled(h)
      PROVE  Counted'
  <2> DEFINE n == admitted[h] - 1
  <2>1. n \in Nat
    BY <1>1, <1>2 DEF Handled
  <2>2. /\ admitted' = [admitted EXCEPT ![h] = n]
        /\ limit' = limit /\ now' = now /\ requests' = requests
    BY <1>2 DEF Handled
  <2> HIDE DEF n
  <2> QED BY <1>1, <2>1, <2>2 DEF Counted
<1>3. CASE Tick
  <2>1. now + 1 \in Nat /\ now' = now + 1
    BY <1>1, <1>3 DEF Tick
  <2> QED BY <1>1, <1>3, <2>1 DEF Tick, Counted
<1>9. CASE RefusedByMiddleware
  <2>1. requests + 1 \in Nat /\ requests' = requests + 1
    BY <1>1, <1>9 DEF RefusedByMiddleware, Request
  <2>2. UNCHANGED <<limit, now, admitted>>
    BY <1>9 DEF RefusedByMiddleware, Request
  <2> QED BY <1>1, <2>1, <2>2 DEF Counted
<1>4. ASSUME NEW h \in Handler, Admitted(h)
      PROVE  Counted'
  BY <1>1, <1>4 DEF Admitted, Request, Counted
<1>5. ASSUME NEW h \in Handler, Dropped(h) \/ RefusedBy(h)
      PROVE  Counted'
  BY <1>2, <1>5 DEF Dropped, RefusedBy
<1>6. CASE Chat \/ UploadMalformed
  BY <1>2, <1>6 DEF Chat, UploadMalformed, Handler
<1>7. ASSUME NEW d \in Dni, Upload(d)
      PROVE  Counted'
  BY <1>2, <1>7 DEF Upload, Handler
<1>8. ASSUME NEW d \in Dni, Identify(d)
      PROVE  Counted'
  BY <1>1, <1>8 DEF Identify, Request, Counted
<1> QED BY <1>3, <1>4, <1>5, <1>6, <1>7, <1>8, <1>9 DEF Next

LEMMA TypeInductive == TypeOK /\ [Next]_vars => TypeOK'
<1> SUFFICES ASSUME TypeOK, [Next]_vars PROVE TypeOK'
  OBVIOUS
<1>1. /\ Counted /\ blockedUntil \in Nat
      /\ TimesOf /\ attempts \in Times
      /\ dnis \in Seq(DniAt) /\ resolved \in Seq(DniAt) /\ ReplyOK
  BY DEF TypeOK, TimesOf, DniAt, ReplyOK, Counted
<1>0. limit \in Config /\ now \in Nat
  BY <1>1 DEF Counted
<1>2. ASSUME /\ Counted' /\ blockedUntil' \in Nat
             /\ TimesOf' /\ attempts' \in Times
             /\ dnis' \in Seq(DniAt) /\ resolved' \in Seq(DniAt) /\ ReplyOK'
      PROVE  TypeOK'
  BY <1>2 DEF TypeOK, TimesOf, DniAt, ReplyOK, Counted
<1>3. ASSUME Next PROVE TimesOf' /\ Counted'
  BY <1>0, <1>1, <1>3, WindowStep, CountedStep
<1>4. CASE Tick
  <2>1. TimesOf' /\ Counted'
    BY <1>3, <1>4 DEF Next
  <2> QED BY <1>1, <1>2, <1>4, <2>1 DEF Tick, ReplyOK
<1>5. CASE RefusedByMiddleware
  <2>1. Seconds(Minute) \in Nat \ {0}
    BY SecondsPositive, Lengths
  <2>2. Answer("coarse", Seconds(Minute), FALSE)
    BY <1>5 DEF RefusedByMiddleware
  <2>3. ReplyOK'
    <3> DEFINE r == Seconds(Minute)
    <3>1. r \in Nat \ {0} /\ Answer("coarse", r, FALSE)
      BY <2>1, <2>2
    <3> HIDE DEF r
    <3> QED BY <1>1, <3>1 DEF ReplyOK, Answer, Reason
  <2>4. UNCHANGED <<attempts, dnis, blockedUntil, resolved>>
    BY <1>5 DEF RefusedByMiddleware
  <2>5. TimesOf' /\ Counted'
    BY <1>3, <1>5 DEF Next
  <2> QED BY <1>1, <1>2, <2>3, <2>4, <2>5
<1>6. ASSUME NEW h \in Handler, Admitted(h) \/ Dropped(h)
      PROVE  TypeOK'
  <2>1. TimesOf' /\ Counted'
    BY <1>3, <1>6 DEF Next
  <2>2. UNCHANGED <<attempts, dnis, blockedUntil, reply, resolved>>
    BY <1>6 DEF Admitted, Dropped
  <2> QED BY <1>1, <1>2, <2>1, <2>2 DEF ReplyOK
<1>7. ASSUME NEW h \in Handler, RefusedBy(h)
      PROVE  TypeOK'
  <2>1. TimesOf' /\ Counted' /\ UNCHANGED <<attempts, dnis, resolved>>
    BY <1>3, <1>7 DEF Next, RefusedBy
  <2>2. h \in Window
    BY <1>0, Limits
  <2>3. ASSUME NEW r \in Nat \ {0}, NEW why \in {"temp_block", h}, Answer(why, r, FALSE)
        PROVE  ReplyOK'
    BY <1>1, <2>3 DEF ReplyOK, Answer, Reason, Handler
  <2>4. CASE Blocked /\ Answer("temp_block", Seconds(blockedUntil - now), FALSE) /\ UNCHANGED blockedUntil
    <3>1. Seconds(blockedUntil - now) \in Nat \ {0}
      <4>1. blockedUntil - now \in Nat
        BY <1>0, <1>1, <2>4 DEF Blocked
      <4> QED BY <4>1, SecondsPositive
    <3>2. ReplyOK'
      BY <2>3, <2>4, <3>1
    <3> QED BY <1>1, <1>2, <2>1, <2>4, <3>2
  <2>5. CASE /\ Full(h) /\ blockedUntil' = 0
             /\ Answer(h, Seconds(Head(Live(window[h], Span(h))) + Span(h) - now), FALSE)
    <3>1. Seconds(Head(Live(window[h], Span(h))) + Span(h) - now) \in Nat \ {0}
      BY <1>0, <1>1, <2>2, <2>5, HeadWindow, SecondsPositive
    <3>2. ReplyOK'
      BY <2>3, <2>5, <3>1
    <3> QED BY <1>1, <1>2, <2>1, <2>5, <3>2
  <2> QED BY <1>7, <2>4, <2>5 DEF RefusedBy
<1>8. CASE Chat \/ UploadMalformed
  <2>1. TimesOf' /\ Counted'
    BY <1>3, <1>8 DEF Next
  <2>2. /\ Answer("ok", 0, FALSE) /\ UNCHANGED <<attempts, dnis, resolved>>
        /\ blockedUntil' \in {0, blockedUntil}
    BY <1>8 DEF Chat, UploadMalformed, Unblock
  <2>3. ReplyOK'
    BY <1>1, <2>2 DEF ReplyOK, Answer, Reason
  <2> QED BY <1>1, <1>2, <2>1, <2>2, <2>3
<1>9. ASSUME NEW d \in Dni, Upload(d) \/ Identify(d)
      PROVE  TypeOK'
  <2>1. TimesOf' /\ Counted' /\ check_identification(d)
    BY <1>3, <1>9 DEF Next, Upload, Identify
  <2> QED BY <1>1, <1>2, <2>1, IdentificationType
<1>10. CASE UNCHANGED vars
  BY <1>1, <1>2, <1>10 DEF vars, TimesOf, ReplyOK, Counted
<1> QED BY <1>4, <1>5, <1>6, <1>7, <1>8, <1>9, <1>10 DEF Next

LEMMA EmptyTimes == <<>> \in Times /\ Len(<<>>) = 0
BY EmptySeq DEF Times

\* Every value keeps its type, and every refusal names a wait of at least one second.
THEOREM TypeCorrect == Spec => []TypeOK
<1>1. Init => TypeOK
  BY EmptyTimes, EmptySeq DEF Init, TypeOK, Reason
<1> QED BY <1>1, TypeInductive, PTL DEF Spec

-----------------------------------------------------------------------------
(* The sliding windows hold. *)

WindowsInv == \A w \in Window : WindowInv(w)

LEMMA WindowsInvariant == Spec => []WindowsInv
<1>1. Init => WindowsInv
  BY EmptyTimes
     DEF Init, WindowsInv, WindowInv, Tracks, Ordered, Past, Tail_of, Spaced
<1>2. TypeOK /\ WindowsInv /\ [Next]_vars => WindowsInv'
  <2> SUFFICES ASSUME TypeOK, WindowsInv, [Next]_vars, NEW w \in Window
               PROVE  WindowInv(w)'
    BY DEF WindowsInv
  <2>1. limit \in Config /\ now \in Nat /\ TimesOf /\ WindowInv(w)
    BY DEF TypeOK, TimesOf, WindowsInv
  <2> QED BY <2>1, WindowInvStep
<1> QED BY <1>1, <1>2, TypeCorrect, PTL DEF Spec

\* No window ever lets more than its limit through in a stretch of time of its length.
THEOREM WindowsCap == Spec => []WindowsHold
<1>1. WindowsInv => WindowsHold
  BY DEF WindowsInv, WindowInv, Tracks, Spaced, WindowsHold
<1> QED BY <1>1, WindowsInvariant, PTL

-----------------------------------------------------------------------------
(* Blocks. *)

\* While an address is blocked nothing is resolved, no chat message is let through
\* and the block stays.
THEOREM BlocksHold == Spec => BlockHolds
<1> DEFINE Held == now < blockedUntil =>
                     /\ blockedUntil' = blockedUntil
                     /\ resolved' = resolved
                     /\ limit.chat > 0 => served'["chat"] = served["chat"]
<1>1. TypeOK /\ [Next]_vars => [Held]_vars
  <2> SUFFICES ASSUME TypeOK, Next, Blocked
               PROVE  /\ blockedUntil' = blockedUntil
                      /\ resolved' = resolved
                      /\ limit["chat"] > 0 => served'["chat"] = served["chat"]
    BY Limits DEF Blocked, TypeOK
  <2>1. /\ limit \in Config /\ now \in Nat /\ TimesOf
        /\ "chat" \in Handler /\ "upload" \in Handler /\ "chat" \in Window /\ limit["chat"] \in Nat
    BY Limits DEF TypeOK, TimesOf, Window, Handler
  <2>2. CASE Tick \/ RefusedByMiddleware
    BY <2>2 DEF Tick, RefusedByMiddleware
  <2>3. ASSUME NEW h \in Handler, Admitted(h) \/ Dropped(h) \/ RefusedBy(h)
        PROVE  /\ blockedUntil' = blockedUntil
               /\ resolved' = resolved
               /\ served'["chat"] = served["chat"]
    <3>1. CASE Admitted(h)
      BY <2>1, <3>1, AdmittedEffect DEF Admitted
    <3> QED BY <2>3, <3>1 DEF Dropped, RefusedBy
  <2>4. ASSUME NEW h \in Handler, Passes(h), Enter({h}), Unblock(h)
        PROVE  /\ limit[h] = 0
               /\ blockedUntil' = blockedUntil
               /\ h = "upload" => served'["chat"] = served["chat"]
    <3>1. limit[h] = 0 /\ blockedUntil' = blockedUntil
      BY <2>4 DEF Passes, Unblock
    <3> QED BY <2>1, <2>4, <3>1, PassingEffect
  <2>5. CASE Chat
    BY <2>1, <2>4, <2>5 DEF Chat
  <2>6. CASE UploadMalformed
    BY <2>1, <2>4, <2>6 DEF UploadMalformed
  <2>7. ASSUME NEW d \in Dni, check_identification(d)
        PROVE  blockedUntil' = blockedUntil /\ resolved' = resolved
    BY <2>7 DEF check_identification, RefuseBlocked, RefuseSweep, RefuseRate, Resolve, RecordAttempt
  <2>8. ASSUME NEW d \in Dni, Upload(d)
        PROVE  served'["chat"] = served["chat"]
    BY <2>1, <2>8, PassingEffect DEF Upload
  <2>9. ASSUME NEW d \in Dni, Upload(d) \/ Identify(d)
        PROVE  /\ blockedUntil' = blockedUntil
               /\ resolved' = resolved
               /\ served'["chat"] = served["chat"]
    BY <2>7, <2>8, <2>9 DEF Upload, Identify
  <2> QED BY <2>2, <2>3, <2>5, <2>6, <2>9 DEF Next
<1> QED BY <1>1, TypeCorrect, PTL DEF Spec, BlockHolds

-----------------------------------------------------------------------------
(* Identifications. *)

LEMMA DnisOfFinite ==
  ASSUME NEW s \in Seq(DniAt)
  PROVE  IsFiniteSet(DnisOf(s)) /\ Cardinality(DnisOf(s)) \in Nat
<1> DEFINE f == [i \in 1..Len(s) |-> s[i].dni]
           T == DnisOf(s)
           I == 1..Len(s)
<1>1. f \in [I -> T] /\ \A t \in T : \E i \in I : f[i] = t
  BY DEF DnisOf
<1>2. IsFiniteSet(I)
  BY DniSeq, FS_Interval
<1> HIDE DEF f, T, I
<1>3. f \in Surjection(I, T)
  BY <1>1, Fun_IsSurj
<1>4. IsFiniteSet(T)
  BY <1>2, <1>3, FS_Surjection
<1> QED BY <1>4, FS_CardinalityType DEF T

\* An attempt of the last hour outlives pruning.
LEMMA RecentHas ==
  ASSUME now \in Nat, dnis \in Seq(DniAt), NEW d \in Dni,
         NEW m \in 1..Len(dnis), dnis[m].at + Hour > now
  PROVE  /\ \E n \in 1..Len(Recent) : Recent[n] = dnis[m]
         /\ \E n \in 1..Len(NewDnis(d)) : NewDnis(d)[n] = dnis[m]
<1>1. PICK k \in 1..(Len(dnis) + 1) :
        /\ Len(dnis) \in Nat
        /\ Len(Recent) = Len(dnis) - k + 1
        /\ \A i \in 1..(Len(dnis) - k + 1) : Recent[i] = dnis[k + i - 1]
        /\ \A i \in 1..(k - 1) : dnis[i].at + Hour <= now
  BY RecentPruned DEF DniAt
<1>2. dnis[m].at \in Nat
  BY DniSeq
<1>3. ~(m \in 1..(k - 1))
  BY <1>1, <1>2, Lengths
<1> DEFINE n == m - k + 1
<1>4. n \in 1..(Len(dnis) - k + 1) /\ k + n - 1 = m
  BY <1>1, <1>3
<1> HIDE DEF n
<1>5. n \in 1..Len(Recent) /\ Recent[n] = dnis[m]
  BY <1>1, <1>4
<1>6. n \in 1..Len(NewDnis(d)) /\ NewDnis(d)[n] = dnis[m]
  <2> DEFINE e == [at |-> now, dni |-> d]
             r == Recent
  <2>1. r \in Seq(DniAt) /\ e \in DniAt /\ NewDnis(d) = Append(r, e)
    BY NewDnisType DEF NewDnis
  <2> HIDE DEF e, r
  <2>2. Len(r) \in Nat /\ Len(Append(r, e)) = Len(r) + 1
        /\ \A i \in 1..Len(r) : Append(r, e)[i] = r[i]
    BY <2>1, DniSeq
  <2>3. n \in 1..Len(r) /\ r[n] = dnis[m]
    BY <1>5 DEF r
  <2>4. n \in 1..(Len(r) + 1)
    BY <2>2, <2>3
  <2> QED BY <2>1, <2>2, <2>3, <2>4
<1> QED BY <1>5, <1>6

\* The attempt itself is the last entry.
LEMMA NewDnisLast ==
  ASSUME now \in Nat, dnis \in Seq(DniAt), NEW d \in Dni
  PROVE  \E n \in 1..Len(NewDnis(d)) : NewDnis(d)[n] = [at |-> now, dni |-> d]
<1> DEFINE e == [at |-> now, dni |-> d]
           r == Recent
<1>1. r \in Seq(DniAt) /\ e \in DniAt /\ NewDnis(d) = Append(r, e)
  BY NewDnisType DEF NewDnis
<1> HIDE DEF e, r
<1>2. Len(r) \in Nat /\ Len(Append(r, e)) = Len(r) + 1 /\ Append(r, e)[Len(r) + 1] = e
  BY <1>1, DniSeq
<1>3. Len(r) + 1 \in 1..(Len(r) + 1)
  BY <1>2
<1> QED BY <1>1, <1>2, <1>3 DEF e

\* What a step does to the identifications.
LEMMA IdentificationEffect ==
  ASSUME TypeOK, Next
  PROVE  /\ limit' = limit
         /\ \/ now' \in {now, now + 1} /\ UNCHANGED <<attempts, dnis, resolved>>
            \/ /\ now' = now
               /\ \E d \in Dni :
                    /\ attempts' = NewAttempts(d) /\ dnis' = NewDnis(d)
                    /\ \/ resolved' = resolved
                       \/ ~Sweep(d) /\ resolved' = Append(resolved, [at |-> now, dni |-> d])
<1>1. CASE Tick
  BY <1>1 DEF Tick
<1>2. CASE RefusedByMiddleware \/ (\E h \in Handler : Admitted(h) \/ Dropped(h) \/ RefusedBy(h))
           \/ Chat \/ UploadMalformed
  BY <1>2 DEF RefusedByMiddleware, Admitted, Dropped, RefusedBy, Chat, UploadMalformed, Request, Handled
<1>3. ASSUME NEW d \in Dni, Upload(d) \/ Identify(d)
      PROVE  /\ limit' = limit /\ now' = now
             /\ \/ UNCHANGED <<attempts, dnis, resolved>>
                \/ /\ attempts' = NewAttempts(d) /\ dnis' = NewDnis(d)
                   /\ \/ resolved' = resolved
                      \/ ~Sweep(d) /\ resolved' = Append(resolved, [at |-> now, dni |-> d])
  <2>1. limit' = limit /\ now' = now /\ check_identification(d)
    BY <1>3 DEF Upload, Identify, Request, Handled
  <2> QED BY <2>1 DEF check_identification, RefuseBlocked, RefuseSweep, RefuseRate, Resolve, RecordAttempt
<1> QED BY <1>1, <1>2, <1>3 DEF Next

\* What was resolved within the last hour is still on the list of attempts.
ResolvedKnown ==
  \A k \in 1..Len(resolved) :
    /\ resolved[k].at <= now
    /\ resolved[k].at + Hour > now => \E m \in 1..Len(dnis) : dnis[m] = resolved[k]

\* The numbers resolved within the hour before the j-th.
Numbers(s, j) == {s[i].dni : i \in {k \in 1..j : s[k].at + Hour > s[j].at}}

LEMMA NumbersSame ==
  ASSUME NEW s, NEW r, NEW j \in Nat, \A i \in 1..j : r[i] = s[i], j > 0
  PROVE  Numbers(r, j) = Numbers(s, j)
<1>1. r[j] = s[j]
  OBVIOUS
<1>2. {k \in 1..j : r[k].at + Hour > r[j].at} = {k \in 1..j : s[k].at + Hour > s[j].at}
  BY <1>1
<1> QED BY <1>2 DEF Numbers

FewInv == limit.distinct > 0 =>
            \A j \in 1..Len(resolved) : Cardinality(Numbers(resolved, j)) <= limit.distinct

LEMMA ResolvedKnownInductive == TypeOK /\ ResolvedKnown /\ [Next]_vars => ResolvedKnown'
<1> SUFFICES ASSUME TypeOK, ResolvedKnown, [Next]_vars PROVE ResolvedKnown'
  OBVIOUS
<1>1. now \in Nat /\ dnis \in Seq(DniAt) /\ resolved \in Seq(DniAt) /\ Hour \in Nat
  BY Lengths DEF TypeOK, DniAt
<1>2. Len(resolved) \in Nat /\ \A k \in 1..Len(resolved) : resolved[k].at \in Nat
  BY <1>1, DniSeq
<1>3. CASE now' \in {now, now + 1} /\ UNCHANGED <<attempts, dnis, resolved>>
  BY <1>1, <1>2, <1>3 DEF ResolvedKnown
<1>4. ASSUME now' = now, NEW d \in Dni, dnis' = NewDnis(d),
             \/ resolved' = resolved
             \/ resolved' = Append(resolved, [at |-> now, dni |-> d])
      PROVE  ResolvedKnown'
  <2>1. ASSUME NEW k \in 1..Len(resolved)
        PROVE  /\ resolved[k].at <= now
               /\ resolved[k].at + Hour > now => \E m \in 1..Len(dnis') : dnis'[m] = resolved[k]
    <3>1. resolved[k].at <= now
      BY DEF ResolvedKnown
    <3>2. ASSUME resolved[k].at + Hour > now
          PROVE  \E m \in 1..Len(dnis') : dnis'[m] = resolved[k]
      <4>1. PICK m \in 1..Len(dnis) : dnis[m] = resolved[k]
        BY <3>2 DEF ResolvedKnown
      <4>2. dnis[m].at + Hour > now
        BY <3>2, <4>1
      <4> QED BY <1>1, <1>4, <4>1, <4>2, RecentHas
    <3> QED BY <3>1, <3>2
  <2>2. CASE resolved' = resolved
    BY <1>4, <2>1, <2>2 DEF ResolvedKnown
  <2>3. CASE resolved' = Append(resolved, [at |-> now, dni |-> d])
    <3> DEFINE e == [at |-> now, dni |-> d]
    <3>1. e \in DniAt /\ e.at = now
      BY <1>1 DEF DniAt
    <3>2. \E m \in 1..Len(dnis') : dnis'[m] = e
      BY <1>1, <1>4, NewDnisLast
    <3> HIDE DEF e
    <3>3. /\ Len(resolved') = Len(resolved) + 1
          /\ \A k \in 1..Len(resolved) : resolved'[k] = resolved[k]
          /\ resolved'[Len(resolved) + 1] = e
      BY <1>1, <2>3, <3>1, DniSeq DEF e
    <3> SUFFICES ASSUME NEW k \in 1..Len(resolved')
                 PROVE  /\ resolved'[k].at <= now'
                        /\ resolved'[k].at + Hour > now' =>
                             \E m \in 1..Len(dnis') : dnis'[m] = resolved'[k]
      BY DEF ResolvedKnown
    <3>4. k \in 1..Len(resolved) \/ k = Len(resolved) + 1
      BY <1>2, <3>3
    <3>5. CASE k \in 1..Len(resolved)
      BY <1>4, <2>1, <3>3, <3>5
    <3>6. CASE k = Len(resolved) + 1
      BY <1>1, <1>4, <3>1, <3>2, <3>3, <3>6
    <3> QED BY <3>4, <3>5, <3>6
  <2> QED BY <1>4, <2>2, <2>3
<1>5. CASE UNCHANGED vars
  BY <1>5 DEF vars, ResolvedKnown
<1> QED BY <1>3, <1>4, <1>5, IdentificationEffect

LEMMA FewInductive == TypeOK /\ ResolvedKnown /\ FewInv /\ [Next]_vars => FewInv'
<1> SUFFICES ASSUME TypeOK, ResolvedKnown, FewInv, [Next]_vars PROVE FewInv'
  OBVIOUS
<1>1. /\ now \in Nat /\ dnis \in Seq(DniAt) /\ resolved \in Seq(DniAt) /\ Hour \in Nat
      /\ limit.distinct \in Nat
  BY Lengths, Limits DEF TypeOK, DniAt
<1>2. Len(resolved) \in Nat /\ \A k \in 1..Len(resolved) : resolved[k].at \in Nat
  BY <1>1, DniSeq
<1>3. CASE limit' = limit /\ resolved' = resolved
  BY <1>3 DEF FewInv, Numbers
<1>4. ASSUME limit' = limit, NEW d \in Dni, ~Sweep(d),
             resolved' = Append(resolved, [at |-> now, dni |-> d])
      PROVE  FewInv'
  <2> DEFINE e == [at |-> now, dni |-> d]
  <2>1. e \in DniAt /\ e.at = now /\ e.dni = d
    BY <1>1 DEF DniAt
  <2> HIDE DEF e
  <2>2. /\ Len(resolved') = Len(resolved) + 1
        /\ \A k \in 1..Len(resolved) : resolved'[k] = resolved[k]
        /\ resolved'[Len(resolved) + 1] = e
    BY <1>1, <1>4, <2>1, DniSeq DEF e
  <2> SUFFICES ASSUME limit.distinct > 0, NEW j \in 1..Len(resolved')
               PROVE  Cardinality(Numbers(resolved', j)) <= limit.distinct
    BY <1>4 DEF FewInv, Numbers
  <2>3. CASE j \in 1..Len(resolved)
    <3>1. j \in Nat /\ j > 0 /\ \A i \in 1..j : resolved'[i] = resolved[i]
      BY <1>2, <2>2, <2>3
    <3>2. Numbers(resolved', j) = Numbers(resolved, j)
      BY <3>1, NumbersSame
    <3> QED BY <2>3, <3>2 DEF FewInv
  <2>4. CASE j = Len(resolved) + 1
    <3> DEFINE new == DnisOf(NewDnis(d))
    <3>1. IsFiniteSet(new) /\ Cardinality(new) \in Nat /\ Cardinality(new) <= limit.distinct
      <4>1. NewDnis(d) \in Seq(DniAt)
        BY <1>1, NewDnisType
      <4>2. IsFiniteSet(new) /\ Cardinality(new) \in Nat
        BY <4>1, DnisOfFinite
      <4> QED BY <1>1, <1>4, <4>2 DEF Sweep
    <3>2. ASSUME NEW i \in 1..j, resolved'[i].at + Hour > resolved'[j].at
          PROVE  resolved'[i].dni \in new
      <4>1. resolved'[j].at = now
        BY <2>1, <2>2, <2>4
      <4>2. \E n \in 1..Len(NewDnis(d)) : NewDnis(d)[n] = resolved'[i]
        <5>1. CASE i = Len(resolved) + 1
          BY <1>1, <2>2, <5>1, NewDnisLast DEF e
        <5>2. CASE i \in 1..Len(resolved)
          <6>1. resolved'[i] = resolved[i] /\ resolved[i].at + Hour > now
            BY <2>2, <3>2, <4>1, <5>2
          <6>2. PICK m \in 1..Len(dnis) : dnis[m] = resolved[i]
            BY <5>2, <6>1 DEF ResolvedKnown
          <6> QED BY <1>1, <6>1, <6>2, RecentHas
        <5> QED BY <1>2, <2>4, <5>1, <5>2
      <4> QED BY <4>2 DEF DnisOf
    <3> HIDE DEF new
    <3>3. Numbers(resolved', j) \in SUBSET new
      BY <3>2 DEF Numbers
    <3> DEFINE some == Numbers(resolved', j)
    <3>4. IsFiniteSet(some) /\ Cardinality(some) <= Cardinality(new)
      BY <3>1, <3>3, FS_Subset
    <3>5. Cardinality(some) \in Nat
      BY <3>4, FS_CardinalityType
    <3> QED BY <1>1, <3>1, <3>4, <3>5
  <2> QED BY <1>2, <2>2, <2>3, <2>4
<1>5. CASE UNCHANGED vars
  BY <1>3, <1>5 DEF vars
<1> QED BY <1>3, <1>4, <1>5, IdentificationEffect

\* No address gets more than `distinct` numbers resolved within an hour.
THEOREM FewResolved == Spec => []FewNumbersResolved
<1>1. Init => ResolvedKnown /\ FewInv
  <2> SUFFICES ASSUME Init PROVE ResolvedKnown /\ FewInv
    OBVIOUS
  <2>1. resolved = <<>> /\ Len(resolved) = 0
    BY EmptyTimes DEF Init
  <2>2. 1..Len(resolved) = {}
    BY <2>1
  <2> QED BY <2>2 DEF ResolvedKnown, FewInv
<1>2. FewInv => FewNumbersResolved
  BY DEF FewInv, FewNumbersResolved, Numbers
<1> QED BY <1>1, <1>2, ResolvedKnownInductive, FewInductive, TypeCorrect, PTL DEF Spec

-----------------------------------------------------------------------------
(* Limits that can never be the one to trip. *)

AllLive(a, time) == \A i \in 1..Len(a) : a[i] + Hour > time

\* g names the number of each attempt in a: one of those in ds, and another one for any
\* two attempts within an hour.
Names(g, a, ds, time) ==
  /\ g \in [1..Len(a) -> Dni]
  /\ \A i \in 1..Len(a) : a[i] + Hour > time =>
       \E m \in 1..Len(ds) : ds[m] = [at |-> a[i], dni |-> g[i]]
  /\ \A i, j \in 1..Len(a) : i < j /\ g[i] = g[j] => a[i] + Hour <= a[j]

Known(a, ds, time) ==
  /\ a \in Times /\ Ordered(a) /\ Past(a, time)
  /\ \E g : Names(g, a, ds, time)

LEMMA KnownLater ==
  ASSUME NEW a, NEW ds, NEW t1 \in Nat, NEW t2 \in Nat, t1 <= t2, Known(a, ds, t1)
  PROVE  Known(a, ds, t2)
<1>1. a \in Times /\ Len(a) \in Nat /\ \A i \in 1..Len(a) : a[i] \in Nat
  BY TimesProperties DEF Known
<1>2. Past(a, t2)
  BY <1>1 DEF Known, Past
<1>3. PICK g : Names(g, a, ds, t1)
  BY DEF Known
<1>4. \A i \in 1..Len(a) : a[i] + Hour > t2 => a[i] + Hour > t1
  BY <1>1, Lengths
<1>5. Names(g, a, ds, t2)
  BY <1>3, <1>4 DEF Names
<1> QED BY <1>2, <1>5 DEF Known

LEMMA KnownPruned ==
  ASSUME now \in Nat, dnis \in Seq(DniAt), Known(attempts, dnis, now)
  PROVE  /\ Known(Live(attempts, Hour), Recent, now)
         /\ AllLive(Live(attempts, Hour), now)
<1> DEFINE a == attempts
           b == Live(attempts, Hour)
<1>1. /\ a \in Times /\ Ordered(a) /\ Past(a, now) /\ Len(a) \in Nat
      /\ \A i \in 1..Len(a) : a[i] \in Nat
  BY TimesProperties DEF Known
<1>2. PICK k \in 1..(Len(a) + 1) :
        /\ b \in Times
        /\ Len(b) = Len(a) - k + 1
        /\ \A i \in 1..(Len(a) - k + 1) : b[i] = a[k + i - 1]
        /\ k <= Len(a) => a[k] + Hour > now
  BY <1>1, Pruned, Lengths DEF Times
<1>3. PICK g : Names(g, a, dnis, now)
  BY DEF Known
<1> HIDE DEF b, a
<1>4. \A i \in 1..Len(b) : k + i - 1 \in 1..Len(a) /\ b[i] = a[k + i - 1] /\ k <= k + i - 1
  <2> SUFFICES ASSUME NEW i \in 1..Len(b)
               PROVE  k + i - 1 \in 1..Len(a) /\ b[i] = a[k + i - 1] /\ k <= k + i - 1
    OBVIOUS
  <2>1. i \in 1..(Len(a) - k + 1)
    BY <1>2
  <2>2. k + i - 1 \in 1..Len(a) /\ k <= k + i - 1
    BY <1>1, <2>1
  <2> QED BY <1>2, <2>1, <2>2
<1>5. Ordered(b)
  <2> SUFFICES ASSUME NEW i \in 1..Len(b), NEW j \in 1..Len(b), i <= j PROVE b[i] <= b[j]
    BY DEF Ordered
  <2>1. k + i - 1 <= k + j - 1
    BY <1>1, <1>2
  <2> QED BY <1>1, <1>4, <2>1 DEF Ordered
<1>6. Past(b, now)
  BY <1>1, <1>4 DEF Past
<1>7. AllLive(b, now)
  <2> SUFFICES ASSUME NEW i \in 1..Len(b) PROVE b[i] + Hour > now
    BY DEF AllLive
  <2>1. k + i - 1 \in 1..Len(a) /\ b[i] = a[k + i - 1] /\ k <= k + i - 1 /\ k \in 1..Len(a)
    BY <1>1, <1>2, <1>4
  <2>2. a[k] <= a[k + i - 1]
    BY <1>1, <2>1 DEF Ordered
  <2> QED BY <1>1, <1>2, <2>1, <2>2, Lengths
<1> DEFINE h == [i \in 1..Len(b) |-> g[k + i - 1]]
<1>8. Names(h, b, Recent, now)
  <2>1. h \in [1..Len(b) -> Dni]
    BY <1>3, <1>4 DEF Names
  <2>2. \A i \in 1..Len(b) : h[i] = g[k + i - 1]
    OBVIOUS
  <2> HIDE DEF h
  <2>3. ASSUME NEW i \in 1..Len(b)
        PROVE  \E m \in 1..Len(Recent) : Recent[m] = [at |-> b[i], dni |-> h[i]]
    <3>1. a[k + i - 1] + Hour > now
      BY <1>4, <1>7 DEF AllLive
    <3>2. PICK m \in 1..Len(dnis) : dnis[m] = [at |-> a[k + i - 1], dni |-> g[k + i - 1]]
      BY <1>3, <1>4, <3>1 DEF Names
    <3>3. dnis[m].at + Hour > now
      BY <3>1, <3>2
    <3>4. g[k + i - 1] \in Dni
      BY <1>3, <1>4 DEF Names
    <3>5. \E n \in 1..Len(Recent) : Recent[n] = dnis[m]
      BY <3>3, <3>4, RecentHas
    <3> QED BY <1>4, <2>2, <3>2, <3>5
  <2>4. ASSUME NEW i \in 1..Len(b), NEW j \in 1..Len(b), i < j, h[i] = h[j]
        PROVE  b[i] + Hour <= b[j]
    <3>1. k + i - 1 < k + j - 1
      BY <1>1, <1>2, <2>4
    <3>2. g[k + i - 1] = g[k + j - 1]
      BY <2>2, <2>4
    <3> QED BY <1>3, <1>4, <3>1, <3>2 DEF Names
  <2> QED BY <2>1, <2>3, <2>4 DEF Names
<1> QED BY <1>2, <1>5, <1>6, <1>7, <1>8 DEF Known, a, b

\* A new number joins the attempts and the list of numbers together.
LEMMA KnownAppended ==
  ASSUME NEW a, NEW r \in Seq(DniAt), NEW d \in Dni, now \in Nat, Known(a, r, now)
  PROVE  /\ Known(a, Append(r, [at |-> now, dni |-> d]), now)
         /\ AllLive(a, now) /\ d \notin DnisOf(r) =>
              /\ Known(Append(a, now), Append(r, [at |-> now, dni |-> d]), now)
              /\ AllLive(Append(a, now), now)
<1> DEFINE e == [at |-> now, dni |-> d]
           q == Append(r, e)
           b == Append(a, now)
<1>1. e \in DniAt
  BY DEF DniAt
<1>2. /\ Len(r) \in Nat /\ Len(q) = Len(r) + 1
      /\ \A i \in 1..Len(r) : q[i] = r[i]
      /\ q[Len(r) + 1] = e
  <2> HIDE DEF e
  <2> QED BY <1>1, DniSeq
<1>3. /\ a \in Times /\ Ordered(a) /\ Past(a, now) /\ Len(a) \in Nat
      /\ \A i \in 1..Len(a) : a[i] \in Nat
  BY TimesProperties DEF Known
<1>4. PICK g : Names(g, a, r, now)
  BY DEF Known
<1> HIDE DEF q
<1>5. \A i \in 1..Len(r) : i \in 1..Len(q)
  BY <1>2
<1>6. Names(g, a, q, now)
  <2> SUFFICES ASSUME NEW i \in 1..Len(a), a[i] + Hour > now
               PROVE  \E m \in 1..Len(q) : q[m] = [at |-> a[i], dni |-> g[i]]
    BY <1>4 DEF Names
  <2>1. PICK m \in 1..Len(r) : r[m] = [at |-> a[i], dni |-> g[i]]
    BY <1>4 DEF Names
  <2> QED BY <1>2, <1>5, <2>1
<1>7. Known(a, q, now)
  BY <1>3, <1>6 DEF Known
<1>8. ASSUME AllLive(a, now), d \notin DnisOf(r)
      PROVE  Known(b, q, now) /\ AllLive(b, now)
  <2>1. Ordered(b) /\ Past(b, now)
    BY <1>3, OrderedAppend
  <2>2. /\ b \in Times /\ Len(b) = Len(a) + 1
        /\ \A i \in 1..Len(a) : b[i] = a[i]
        /\ b[Len(a) + 1] = now
    BY <1>3, TimesProperties
  <2> HIDE DEF b
  <2>3. \A i \in 1..Len(b) : i \in 1..Len(a) \/ i = Len(a) + 1
    BY <1>3, <2>2
  <2>4. AllLive(b, now)
    BY <1>8, <2>2, <2>3, Lengths DEF AllLive
  <2> DEFINE h == [i \in 1..Len(b) |-> IF i = Len(a) + 1 THEN d ELSE g[i]]
  <2>5. /\ h \in [1..Len(b) -> Dni]
        /\ h[Len(a) + 1] = d
        /\ \A i \in 1..Len(a) : h[i] = g[i]
    <3>1. Len(a) + 1 \in 1..Len(b)
      BY <1>3, <2>2
    <3>2. \A i \in 1..Len(a) : i \in 1..Len(b) /\ i # Len(a) + 1
      BY <1>3, <2>2
    <3> QED BY <1>4, <2>3, <3>1, <3>2 DEF Names
  <2> HIDE DEF h
  <2>6. \A i \in 1..Len(a) : g[i] # d
    <3> SUFFICES ASSUME NEW i \in 1..Len(a), g[i] = d PROVE FALSE
      OBVIOUS
    <3>1. PICK m \in 1..Len(r) : r[m] = [at |-> a[i], dni |-> g[i]]
      BY <1>4, <1>8 DEF Names, AllLive
    <3> QED BY <1>8, <3>1 DEF DnisOf
  <2>7. ASSUME NEW i \in 1..Len(b)
        PROVE  \E m \in 1..Len(q) : q[m] = [at |-> b[i], dni |-> h[i]]
    <3>1. CASE i = Len(a) + 1
      <4>1. Len(r) + 1 \in 1..Len(q)
        BY <1>2
      <4> QED BY <1>2, <2>2, <2>5, <3>1, <4>1
    <3>2. CASE i \in 1..Len(a)
      <4>1. a[i] + Hour > now
        BY <1>8, <3>2 DEF AllLive
      <4>2. \E m \in 1..Len(q) : q[m] = [at |-> a[i], dni |-> g[i]]
        BY <1>6, <3>2, <4>1 DEF Names
      <4> QED BY <2>2, <2>5, <3>2, <4>2
    <3> QED BY <2>3, <3>1, <3>2
  <2>8. ASSUME NEW i \in 1..Len(b), NEW j \in 1..Len(b), i < j, h[i] = h[j]
        PROVE  b[i] + Hour <= b[j]
    <3>1. i \in 1..Len(a)
      BY <1>3, <2>2, <2>8
    <3>2. j \in 1..Len(a)
      BY <2>3, <2>5, <2>6, <2>8, <3>1
    <3> QED BY <1>4, <2>2, <2>5, <2>8, <3>1, <3>2 DEF Names
  <2>9. Names(h, b, q, now)
    BY <2>5, <2>7, <2>8 DEF Names
  <2> QED BY <2>1, <2>2, <2>4, <2>9 DEF Known
<1> QED BY <1>7, <1>8 DEF q, b

\* Attempts within an hour are for different numbers.
LEMMA KnownCount ==
  ASSUME NEW a, NEW ds \in Seq(DniAt), NEW time \in Nat, Known(a, ds, time), AllLive(a, time)
  PROVE  Len(a) \in Nat /\ Len(a) <= Cardinality(DnisOf(ds))
<1>1. /\ a \in Times /\ Past(a, time) /\ Len(a) \in Nat
      /\ \A i \in 1..Len(a) : a[i] \in Nat
  BY TimesProperties DEF Known
<1>2. PICK g : Names(g, a, ds, time)
  BY DEF Known
<1> DEFINE I == 1..Len(a)
           T == DnisOf(ds)
<1>3. \A i \in I : g[i] \in T
  <2> SUFFICES ASSUME NEW i \in I PROVE g[i] \in T
    OBVIOUS
  <2>1. PICK m \in 1..Len(ds) : ds[m] = [at |-> a[i], dni |-> g[i]]
    BY <1>2 DEF Names, AllLive
  <2> QED BY <2>1 DEF DnisOf
<1>4. g \in [I -> T]
  BY <1>2, <1>3 DEF Names
<1>5. \A i, j \in I : i < j => g[i] # g[j]
  <2> SUFFICES ASSUME NEW i \in I, NEW j \in I, i < j, g[i] = g[j] PROVE FALSE
    OBVIOUS
  <2>1. a[i] + Hour <= a[j]
    BY <1>2 DEF Names
  <2>2. a[i] + Hour > time /\ a[j] <= time /\ a[i] \in Nat /\ a[j] \in Nat
    BY <1>1 DEF AllLive, Past
  <2> QED BY <2>1, <2>2, Lengths
<1>6. \A i, j \in I : g[i] = g[j] => i = j
  BY <1>1, <1>5
<1>7. IsFiniteSet(T) /\ IsFiniteSet(I) /\ Cardinality(I) = Len(a)
  <2>1. IsFiniteSet(T)
    BY DnisOfFinite
  <2>2. IsFiniteSet(I) /\ Cardinality(I) = IF 1 > Len(a) THEN 0 ELSE Len(a) - 1 + 1
    <3>1. 1 \in Int /\ Len(a) \in Int
      BY <1>1
    <3> QED BY <3>1, FS_Interval, Zenon
  <2> QED BY <1>1, <2>1, <2>2
<1> HIDE DEF I, T
<1>8. g \in Injection(I, T)
  BY <1>4, <1>6, Fun_IsInj
<1> QED BY <1>1, <1>7, <1>8, FS_Injection DEF T

\* The lists after an attempt.
LEMMA KnownNew ==
  ASSUME now \in Nat, dnis \in Seq(DniAt), Known(attempts, dnis, now), NEW d \in Dni
  PROVE  /\ Known(NewAttempts(d), NewDnis(d), now)
         /\ AllLive(NewAttempts(d), now)
<1> DEFINE e == [at |-> now, dni |-> d]
<1>1. Recent \in Seq(DniAt)
  BY NewDnisType
<1>2. Known(Live(attempts, Hour), Recent, now) /\ AllLive(Live(attempts, Hour), now)
  BY KnownPruned
<1>3. /\ Known(Live(attempts, Hour), Append(Recent, e), now)
      /\ d \notin DnisOf(Recent) =>
              /\ Known(Append(Live(attempts, Hour), now), Append(Recent, e), now)
              /\ AllLive(Append(Live(attempts, Hour), now), now)
  BY <1>1, <1>2, KnownAppended
<1>4. NewDnis(d) = Append(Recent, e)
  BY DEF NewDnis
<1> HIDE DEF e
<1>5. CASE IsRepeat(d)
  BY <1>2, <1>3, <1>4, <1>5 DEF NewAttempts
<1>6. CASE ~IsRepeat(d)
  BY <1>3, <1>4, <1>6 DEF NewAttempts, IsRepeat
<1> QED BY <1>5, <1>6

AttemptsKnown == Known(attempts, dnis, now)

LEMMA AttemptsKnownInductive == TypeOK /\ AttemptsKnown /\ [Next]_vars => AttemptsKnown'
<1> SUFFICES ASSUME TypeOK, AttemptsKnown, [Next]_vars PROVE AttemptsKnown'
  OBVIOUS
<1>1. now \in Nat /\ dnis \in Seq(DniAt)
  BY DEF TypeOK, DniAt
<1>2. CASE now' \in {now, now + 1} /\ UNCHANGED <<attempts, dnis, resolved>>
  BY <1>1, <1>2, KnownLater DEF AttemptsKnown
<1>3. ASSUME now' = now, NEW d \in Dni, attempts' = NewAttempts(d), dnis' = NewDnis(d)
      PROVE  AttemptsKnown'
  <2>1. Known(attempts', dnis', now')
    BY <1>1, <1>3, KnownNew DEF AttemptsKnown
  <2> QED BY <2>1 DEF AttemptsKnown, Known, Names
<1>4. CASE UNCHANGED vars
  BY <1>2, <1>4 DEF vars
<1> QED BY <1>2, <1>3, <1>4, IdentificationEffect

\* The rate limit never trips where the sweep limit, judged first, is on and not larger.
RateNeverTrips ==
  limit.distinct > 0 /\ limit.ident >= limit.distinct => reply.reason # "ident_per_hour"

LEMMA RateNeverTripsInductive ==
  TypeOK /\ AttemptsKnown /\ RateNeverTrips /\ [Next]_vars => RateNeverTrips'
<1> SUFFICES ASSUME TypeOK, AttemptsKnown, RateNeverTrips, [Next]_vars
             PROVE  RateNeverTrips'
  OBVIOUS
<1>1. /\ now \in Nat /\ dnis \in Seq(DniAt) /\ limit \in Config
      /\ limit.distinct \in Nat /\ limit.ident \in Nat
  BY Limits DEF TypeOK, DniAt
<1>2. CASE limit' = limit /\ reply' = reply
  BY <1>2 DEF RateNeverTrips
<1>3. ASSUME limit' = limit, reply'.reason # "ident_per_hour"
      PROVE  RateNeverTrips'
  BY <1>3 DEF RateNeverTrips
<1>4. CASE Tick \/ UNCHANGED vars
  BY <1>2, <1>4 DEF Tick, vars
<1>5. CASE RefusedByMiddleware \/ Chat \/ UploadMalformed
  BY <1>3, <1>5 DEF RefusedByMiddleware, Chat, UploadMalformed, Request, Handled, Answer
<1>6. ASSUME NEW h \in Handler, Admitted(h) \/ Dropped(h)
      PROVE  RateNeverTrips'
  BY <1>2, <1>6 DEF Admitted, Dropped, Request, Handled
<1>7. ASSUME NEW h \in Handler, RefusedBy(h)
      PROVE  RateNeverTrips'
  BY <1>3, <1>7 DEF RefusedBy, Handled, Answer, Handler
<1>8. ASSUME NEW d \in Dni, limit' = limit, check_identification(d)
      PROVE  RateNeverTrips'
  <2>1. CASE RefuseBlocked(d) \/ RefuseSweep(d) \/ Resolve(d)
    BY <1>3, <1>8, <2>1 DEF RefuseBlocked, RefuseSweep, Resolve, Answer
  <2>2. CASE RefuseRate(d)
    <3>1. ~Sweep(d) /\ TooManyNew(d)
      BY <2>2 DEF RefuseRate
    <3>2. NewDnis(d) \in Seq(DniAt)
      BY <1>1, NewDnisType
    <3>3. Known(NewAttempts(d), NewDnis(d), now) /\ AllLive(NewAttempts(d), now)
      BY <1>1, KnownNew DEF AttemptsKnown
    <3>4. Len(NewAttempts(d)) \in Nat /\ Len(NewAttempts(d)) <= Cardinality(DnisOf(NewDnis(d)))
      BY <1>1, <3>2, <3>3, KnownCount
    <3>5. Cardinality(DnisOf(NewDnis(d))) \in Nat
      BY <3>2, DnisOfFinite
    <3>6. ~(limit.distinct > 0 /\ limit.ident >= limit.distinct)
      BY <1>1, <3>1, <3>4, <3>5 DEF Sweep, TooManyNew
    <3> QED BY <1>8, <3>6 DEF RateNeverTrips
  <2> QED BY <1>8, <2>1, <2>2 DEF check_identification
<1>9. ASSUME NEW d \in Dni, Upload(d) \/ Identify(d)
      PROVE  RateNeverTrips'
  BY <1>8, <1>9 DEF Upload, Identify, Request, Handled
<1> QED BY <1>4, <1>5, <1>6, <1>7, <1>9 DEF Next

\* Attempts of the last hour are for different numbers, however uploads and chat turns
\* interleave and however long their bodies take; so the identification rate never trips
\* before a sweep limit that is not larger.
THEOREM LimitsShadowed == Spec => []ShadowedLimits
<1>1. Init => AttemptsKnown
  <2> SUFFICES ASSUME Init PROVE AttemptsKnown
    OBVIOUS
  <2>1. attempts = <<>> /\ attempts \in Times /\ Len(attempts) = 0 /\ 1..Len(attempts) = {}
    BY EmptyTimes DEF Init
  <2> DEFINE g == [i \in {} |-> i]
  <2>2. Names(g, attempts, dnis, now)
    BY <2>1 DEF Names
  <2> HIDE DEF g
  <2> QED BY <2>1, <2>2 DEF AttemptsKnown, Known, Ordered, Past
<1>2. Init => RateNeverTrips
  BY DEF Init, RateNeverTrips
<1>3. TypeOK /\ AttemptsKnown /\ RateNeverTrips => ShadowedLimits
  <2> SUFFICES ASSUME TypeOK, AttemptsKnown, RateNeverTrips PROVE ShadowedLimits
    OBVIOUS
  <2>1. now \in Nat /\ dnis \in Seq(DniAt)
    BY DEF TypeOK, DniAt
  <2>2. Known(Live(attempts, Hour), Recent, now) /\ AllLive(Live(attempts, Hour), now)
    BY <2>1, KnownPruned DEF AttemptsKnown
  <2>3. Recent \in Seq(DniAt)
    BY <2>1, RecentPruned DEF DniAt
  <2>4. Len(Live(attempts, Hour)) <= Cardinality(DnisOf(Recent))
    BY <2>1, <2>2, <2>3, KnownCount
  <2> QED BY <2>4 DEF ShadowedLimits, RateNeverTrips
<1> QED BY <1>1, <1>2, <1>3, AttemptsKnownInductive, RateNeverTripsInductive,
           TypeCorrect, PTL DEF Spec

=============================================================================
