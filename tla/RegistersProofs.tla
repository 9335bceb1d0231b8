-------------------------- MODULE RegistersProofs --------------------------
(***************************************************************************)
(* Theorems about Registers: the types, the audit trail, and the folios    *)
(* and deadlines of the claims.                                            *)
(***************************************************************************)
EXTENDS Registers, SequenceTheorems, FiniteSetTheorems, WellFoundedInduction, TLAPS

-----------------------------------------------------------------------------
(* The inductive invariant, one part for each register. *)

\* Two vouchers of the same image of the same credit.
Same(r, s) == r.source = s.source /\ r.credito = s.credito /\ r.key = s.key

Distinct(records) ==
  \A i, j \in DOMAIN records : i # j /\ records[i].key # None => ~Same(records[i], records[j])

VouchersOK(file) ==
  /\ file.whole \in BOOLEAN /\ file.records \in Seq(Voucher)
  /\ ~file.whole => file.records = <<>>
  /\ Distinct(file.records)

\* What a call reported is in the file, until it is cut.
AnswerOK(file, a) ==
  a.kind \in {"foto", "typed"} =>
    \E i \in DOMAIN file.records :
      LET r == file.records[i] IN r.source = a.kind /\ r.credito = a.credito /\ r.key = a.key

Folio(y) == [year : 1..y, seq : Nat \ {0}]

InOrder(records) ==
  \A i \in DOMAIN records :
    records[i].seq = Cardinality({j \in 1..i : records[j].year = records[i].year})

ClaimsOK(file, y) ==
  /\ file.whole \in BOOLEAN /\ file.records \in Seq(Folio(y))
  /\ ~file.whole => file.records = <<>>
  /\ InOrder(file.records)

\* The last part of ClaimsInOrder.
DeadlineOK(a) ==
  a.kind = "claim" =>
    LET due == a.from + a.deadline IN
    Business(due) /\ Cardinality({d \in (a.from + 1)..due : Business(d)}) = ResponseDays

IInv ==
  /\ VouchersOK(vouchers) /\ AnswerOK(vouchers, answer) /\ DeadlineOK(answer)
  /\ ClaimsOK(claims, year)
  /\ images \in [Dni \X Nro -> Image \cup {None}]
  /\ year \in 1..MaxYear

-----------------------------------------------------------------------------
(* Files. *)

LEMMA Appended ==
  ASSUME NEW S, NEW s \in Seq(S), NEW e \in S
  PROVE  /\ Append(s, e) \in Seq(S) /\ Len(s) \in Nat /\ Len(Append(s, e)) = Len(s) + 1
         /\ \A i \in 1..Len(s) : Append(s, e)[i] = s[i] /\ s[i] \in S
         /\ Append(s, e)[Len(s) + 1] = e
         /\ DOMAIN s = 1..Len(s) /\ DOMAIN Append(s, e) = 1..(Len(s) + 1)
BY AppendProperties, ElementOfSeq, LenProperties

LEMMA PrefixOfItself ==
  ASSUME NEW S, NEW s \in Seq(S)
  PROVE  IsPrefix(s, s)
BY LenProperties DEF IsPrefix

\* What was in a sequence stays there when an element is appended.
LEMMA PrefixOfAppended ==
  ASSUME NEW S, NEW s \in Seq(S), NEW e \in S
  PROVE  IsPrefix(s, Append(s, e))
<1> DEFINE h == Append(s, e)
           n == Len(s)
           a == SubSeq(s, 1, n)
           b == SubSeq(h, 1, n)
<1>1. /\ n \in Nat /\ Len(h) = n + 1 /\ 1 \in Int /\ n \in Int
      /\ \A i \in 1..n : h[i] = s[i] /\ s[i] \in S /\ h[i] \in S
  BY Appended
<1>2. /\ a \in Seq(S) /\ Len(a) = IF 1 <= n THEN n - 1 + 1 ELSE 0
      /\ \A i \in 1..(n - 1 + 1) : a[i] = s[1 + i - 1]
  <2> HIDE DEF h, n
  <2> QED BY <1>1, SubSeqProperties
<1>3. /\ b \in Seq(S) /\ Len(b) = IF 1 <= n THEN n - 1 + 1 ELSE 0
      /\ \A i \in 1..(n - 1 + 1) : b[i] = h[1 + i - 1]
  <2> HIDE DEF h, n
  <2> QED BY <1>1, SubSeqProperties
<1>4. a = b
  <2> HIDE DEF a, b, h, n
  <2>1. Len(a) = Len(b) /\ \A i \in 1..Len(a) : a[i] = b[i]
    BY <1>1, <1>2, <1>3
  <2> QED BY <1>2, <1>3, <2>1, SeqEqual
<1>5. n <= Len(h)
  BY <1>1
<1> QED BY <1>4, <1>5 DEF IsPrefix

-----------------------------------------------------------------------------
(* Vouchers. *)

LEMMA Loaded ==
  ASSUME NEW file, VouchersOK(file)
  PROVE  _load(file) = file.records /\ file.records \in Seq(Voucher)
BY DEF _load, VouchersOK

LEMMA CutVouchers == VouchersOK(CutFile)
<1>1. <<>> \in Seq(Voucher) /\ DOMAIN <<>> = 1..0
  BY EmptySeq
<1>2. Distinct(<<>>)
  BY <1>1 DEF Distinct
<1> QED BY <1>1, <1>2 DEF VouchersOK, CutFile

\* A voucher that is no duplicate keeps the list without one.
LEMMA DistinctAppended ==
  ASSUME NEW s \in Seq(Voucher), NEW e \in Voucher, Distinct(s),
         ~Duplicate(s, e.source, e.credito, e.key)
  PROVE  Distinct(Append(s, e))
<1> DEFINE h == Append(s, e)
           n == Len(s)
<1>1. /\ n \in Nat /\ DOMAIN h = 1..(n + 1) /\ DOMAIN s = 1..n
      /\ \A i \in 1..n : h[i] = s[i]
      /\ h[n + 1] = e
  BY Appended
<1>2. \A i \in 1..n : e.key # None => ~Same(s[i], e)
  BY <1>1 DEF Duplicate, Same
<1> HIDE DEF h, n
<1>3. ASSUME NEW i \in 1..(n + 1), NEW j \in 1..(n + 1), i # j, h[i].key # None, Same(h[i], h[j])
      PROVE  FALSE
  <2>1. CASE i \in 1..n /\ j \in 1..n
    BY <2>1, <1>1, <1>3 DEF Distinct
  <2>2. CASE i \in 1..n /\ j = n + 1
    BY <2>2, <1>1, <1>2, <1>3 DEF Same
  <2>3. CASE i = n + 1 /\ j \in 1..n
    BY <2>3, <1>1, <1>2, <1>3 DEF Same
  <2> QED BY <2>1, <2>2, <2>3, <1>1, <1>3
<1>4. Distinct(h)
  BY <1>1, <1>3 DEF Distinct
<1> QED BY <1>4 DEF h

\* One call of either registering function.
RegisterSound ==
  /\ VouchersOK(vouchers') /\ AnswerOK(vouchers', answer')
  /\ Grows(vouchers, vouchers')

\* A file that stays, or is cut, keeps what it holds.
LEMMA NothingAdded ==
  ASSUME VouchersOK(vouchers), vouchers' \in {vouchers, CutFile}
  PROVE  VouchersOK(vouchers') /\ Grows(vouchers, vouchers')
<1>1. CASE vouchers' = vouchers
  <2>1. IsPrefix(vouchers.records, vouchers.records)
    BY Loaded, PrefixOfItself
  <2> QED BY <1>1, <2>1 DEF Grows
<1>2. CASE vouchers' = CutFile
  <2>1. ~vouchers'.whole
    BY <1>2 DEF CutFile
  <2> QED BY <1>2, <2>1, CutVouchers DEF Grows
<1> QED BY <1>1, <1>2

LEMMA RegisterStep ==
  ASSUME VouchersOK(vouchers), NEW record \in Voucher, NEW onError,
         onError.kind \notin {"foto", "typed"}, Register(record, onError)
  PROVE  RegisterSound
<1> DEFINE s == vouchers.records
           reply == [kind |-> record.source, credito |-> record.credito, key |-> record.key]
           h == Append(s, record)
<1>1. _load(vouchers) = s /\ s \in Seq(Voucher)
  BY Loaded
<1>2. NoAnswer.kind \notin {"foto", "typed"}
  BY DEF NoAnswer
<1>3. CASE Duplicate(s, record.source, record.credito, record.key)
  <2>1. answer' = reply /\ vouchers' = vouchers
    BY <1>1, <1>3 DEF Register
  <2>2. AnswerOK(vouchers', answer')
    BY <1>3, <2>1 DEF AnswerOK, Duplicate
  <2> QED BY <2>1, <2>2, NothingAdded DEF RegisterSound
<1>4. CASE /\ ~Duplicate(s, record.source, record.credito, record.key)
           /\ vouchers' = Whole(Append(s, record)) /\ answer' \in {reply, NoAnswer}
  <2>1. /\ h \in Seq(Voucher) /\ Len(s) \in Nat /\ Len(h) = Len(s) + 1
        /\ DOMAIN h = 1..(Len(s) + 1) /\ h[Len(s) + 1] = record
    BY <1>1, Appended
  <2>2. Distinct(h) /\ IsPrefix(s, h)
    BY <1>1, <1>4, DistinctAppended, PrefixOfAppended DEF VouchersOK
  <2> HIDE DEF h
  <2>3. vouchers'.whole = TRUE /\ vouchers'.records = h
    BY <1>4 DEF Whole, h
  <2>4. VouchersOK(vouchers') /\ Grows(vouchers, vouchers')
    BY <2>1, <2>2, <2>3 DEF VouchersOK, Grows
  <2>5. AnswerOK(vouchers', answer')
    <3>1. Len(s) + 1 \in DOMAIN h
      BY <2>1
    <3> QED BY <1>2, <1>4, <2>1, <2>3, <3>1 DEF AnswerOK
  <2> QED BY <2>4, <2>5 DEF RegisterSound
<1>5. CASE vouchers' \in {vouchers, CutFile} /\ answer' \in {onError, NoAnswer}
  <2>1. AnswerOK(vouchers', answer')
    BY <1>2, <1>5 DEF AnswerOK
  <2> QED BY <1>5, <2>1, NothingAdded DEF RegisterSound
<1> QED
  <2> HIDE DEF s
  <2> QED BY <1>1, <1>3, <1>4, <1>5 DEF Register, AfterFailure

-----------------------------------------------------------------------------
(* Folios. *)

LEMMA CutClaims == ASSUME NEW y \in Nat PROVE ClaimsOK(CutFile, y) /\ ClaimsOK(Whole(<<>>), y)
<1>1. <<>> \in Seq(Folio(y)) /\ DOMAIN <<>> = 1..0
  BY EmptySeq
<1>2. InOrder(<<>>)
  BY <1>1 DEF InOrder
<1> QED BY <1>1, <1>2 DEF ClaimsOK, CutFile, Whole

\* A later year admits more folios.
LEMMA LaterYear ==
  ASSUME NEW y \in Nat, NEW file, ClaimsOK(file, y)
  PROVE  ClaimsOK(file, y + 1)
<1>1. Folio(y) \subseteq Folio(y + 1)
  BY DEF Folio
<1>2. file.records \in Seq(Folio(y + 1))
  BY <1>1, SeqMonotonic DEF ClaimsOK
<1> QED BY <1>2 DEF ClaimsOK

\* The folio counted among the claims of its year keeps the book in order.
LEMMA NextFolio ==
  ASSUME NEW s \in Seq(Folio(year)), year \in Nat \ {0}, InOrder(s)
  PROVE  _next_folio(s) \in Folio(year) /\ InOrder(Append(s, _next_folio(s)))
<1> DEFINE n == Len(s)
           before == {i \in 1..n : s[i].year = year}
           e == _next_folio(s)
           h == Append(s, e)
           upTo(i) == {j \in 1..i : h[j].year = h[i].year}
<1>1. n \in Nat /\ DOMAIN s = 1..n
  BY LenProperties
<1>2. IsFiniteSet(before) /\ Cardinality(before) \in Nat
  <2>1. IsFiniteSet(1..n) /\ before \subseteq 1..n
    <3>1. 1 \in Int /\ n \in Int
      BY <1>1
    <3>2. IsFiniteSet(1..n)
      BY <3>1, FS_Interval, Zenon
    <3>3. before \subseteq 1..n
      OBVIOUS
    <3> QED BY <3>2, <3>3
  <2> QED BY <2>1, FS_Subset, FS_CardinalityType, Zenon
<1>3. e = [year |-> year, seq |-> Cardinality(before) + 1]
  BY <1>1 DEF _next_folio
<1>4. e \in Folio(year) /\ e.year = year /\ e.seq = Cardinality(before) + 1
  <2> HIDE DEF before, e
  <2> QED BY <1>2, <1>3 DEF Folio
<1>5. /\ DOMAIN h = 1..(n + 1) /\ h[n + 1] = e
      /\ \A i \in 1..n : h[i] = s[i]
  <2> HIDE DEF e
  <2> QED BY <1>4, Appended
<1>6. ASSUME NEW i \in 1..n
      PROVE  h[i].seq = Cardinality(upTo(i))
  <2>1. s[i].seq = Cardinality({j \in 1..i : s[j].year = s[i].year})
    BY <1>1 DEF InOrder
  <2>2. \A j \in 1..i : h[j] = s[j]
    <3> HIDE DEF h
    <3> QED BY <1>1, <1>5
  <2>3. h[i] = s[i]
    BY <1>5
  <2> HIDE DEF h
  <2>4. upTo(i) = {j \in 1..i : s[j].year = s[i].year}
    BY <2>2, <2>3
  <2> QED BY <2>1, <2>3, <2>4
<1>7. h[n + 1].seq = Cardinality(upTo(n + 1))
  <2>1. n + 1 \notin before
    BY <1>1
  <2>2. upTo(n + 1) = before \cup {n + 1}
    <3> HIDE DEF h, e, n
    <3> QED BY <1>1, <1>4, <1>5
  <2>3. Cardinality(before \cup {n + 1}) = Cardinality(before) + 1
    <3> HIDE DEF before
    <3> QED BY <1>2, <2>1, FS_AddElement
  <2> HIDE DEF before, h, e, upTo
  <2> QED BY <1>4, <1>5, <2>2, <2>3
<1>8. InOrder(h)
  <2> HIDE DEF h, n
  <2>1. ASSUME NEW i \in DOMAIN h
        PROVE  h[i].seq = Cardinality(upTo(i))
    <3>1. i \in 1..n \/ i = n + 1
      BY <1>1, <1>5
    <3> HIDE DEF upTo
    <3> QED BY <1>6, <1>7, <3>1
  <2> QED BY <2>1 DEF InOrder
<1> QED BY <1>4, <1>8

LEMMA ClaimsLoaded ==
  ASSUME NEW y, NEW file, ClaimsOK(file, y)
  PROVE  _load(file) = file.records
BY DEF _load, ClaimsOK

LEMMA ClaimStep ==
  ASSUME ClaimsOK(claims, year), year \in Nat \ {0}, NEW weekday, NEW described,
         registrar_reclamo(weekday, described)
  PROVE  ClaimsOK(claims', year) /\ Grows(claims, claims')
<1> DEFINE s == claims.records
           e == _next_folio(s)
           h == Append(s, e)
<1>1. _load(claims) = s /\ s \in Seq(Folio(year)) /\ InOrder(s) /\ IsPrefix(s, s)
  BY ClaimsLoaded, PrefixOfItself DEF ClaimsOK
<1>2. CASE claims' = claims
  BY <1>1, <1>2 DEF Grows
<1>3. CASE claims' = CutFile
  <2>1. ~claims'.whole
    BY <1>3 DEF CutFile
  <2> QED BY <1>3, <2>1, CutClaims DEF Grows
<1>4. CASE claims' = Whole(h)
  <2>1. e \in Folio(year) /\ InOrder(h)
    BY <1>1, NextFolio
  <2>2. h \in Seq(Folio(year)) /\ IsPrefix(s, h)
    <3> HIDE DEF e
    <3> QED BY <1>1, <2>1, Appended, PrefixOfAppended
  <2> HIDE DEF h
  <2>3. claims'.whole = TRUE /\ claims'.records = h
    BY <1>4 DEF Whole
  <2> QED BY <2>1, <2>2, <2>3 DEF ClaimsOK, Grows
<1> QED
  <2> HIDE DEF s
  <2> QED BY <1>1, <1>2, <1>3, <1>4 DEF registrar_reclamo, AfterFailure

-----------------------------------------------------------------------------
(* Deadlines.  Of the days after a start, the working ones are counted. *)

Worked(start, d) == {x \in (start + 1)..(start + d) : Business(x)}

Count(start, d) == Cardinality(Worked(start, d))

\* e is the first day, from d on, by which n more working days have passed.
LandsOn(start, d, n, e) ==
  /\ d <= e /\ Count(start, e) = Count(start, d) + n
  /\ \A k \in Nat : d <= k /\ Count(start, k) = Count(start, d) + n => e <= k

LEMMA MinExists ==
  ASSUME NEW S \in SUBSET Nat, S # {}
  PROVE  \E n \in S : \A m \in S : n <= m
<1>1. PICK n \in S : \A m \in S : <<m, n>> \notin OpToRel(<, Nat)
  BY NatLessThanWellFounded, WFMin, Zenon
<1>2. \A m \in S : ~(m < n)
  BY <1>1, Zenon DEF OpToRel
<1> QED BY <1>2

LEMMA CountStep ==
  ASSUME NEW start \in Nat, NEW d \in Nat
  PROVE  /\ Count(start, d) \in Nat
         /\ Count(start, 0) = 0
         /\ Count(start, d + 1) = IF Business(start + (d + 1)) THEN Count(start, d) + 1
                                  ELSE Count(start, d)
<1>1. IsFiniteSet(Worked(start, d)) /\ Count(start, d) \in Nat
  <2>1. start + 1 \in Int /\ start + d \in Int
    OBVIOUS
  <2>2. IsFiniteSet((start + 1)..(start + d))
    BY <2>1, FS_Interval, Zenon
  <2>3. Worked(start, d) \subseteq (start + 1)..(start + d)
    BY DEF Worked
  <2> QED BY <2>2, <2>3, FS_Subset, FS_CardinalityType, Zenon DEF Count
<1>2. Count(start, 0) = 0
  <2>1. Worked(start, 0) = {}
    BY DEF Worked
  <2> QED BY <2>1, FS_EmptySet DEF Count
<1>3. CASE Business(start + (d + 1))
  <2>1. Worked(start, d + 1) = Worked(start, d) \cup {start + (d + 1)}
    BY <1>3 DEF Worked
  <2>2. start + (d + 1) \notin Worked(start, d)
    BY DEF Worked
  <2>3. Cardinality(Worked(start, d) \cup {start + (d + 1)}) = Cardinality(Worked(start, d)) + 1
    BY <1>1, <2>2, FS_AddElement
  <2> QED BY <1>1, <1>2, <1>3, <2>1, <2>3 DEF Count
<1>4. CASE ~Business(start + (d + 1))
  <2>1. Worked(start, d + 1) = Worked(start, d)
    <3>1. \A x : x \in (start + 1)..(start + (d + 1)) <=>
                   x \in (start + 1)..(start + d) \/ x = start + (d + 1)
      OBVIOUS
    <3> QED BY <1>4, <3>1 DEF Worked
  <2> QED BY <1>1, <1>2, <1>4, <2>1 DEF Count
<1> QED BY <1>3, <1>4

\* Of three days in a row one is a working day.
LEMMA NoLongWeekend ==
  ASSUME NEW x \in Nat
  PROVE  Business(x) \/ Business(x + 1) \/ Business(x + 2)
BY DEF Business

\* However many working days are asked for, they come.
LEMMA DaysCome ==
  ASSUME NEW start \in Nat, NEW d \in Nat, NEW n \in Nat
  PROVE  \E e \in Nat : d <= e /\ Count(start, e) = Count(start, d) + n
<1> DEFINE Comes(m) == \E e \in Nat : d <= e /\ Count(start, e) = Count(start, d) + m
           Never == {m \in Nat : ~Comes(m)}
<1>1. \A k \in Nat : Count(start, k) \in Nat
  BY CountStep
<1>2. Comes(0)
  BY <1>1
<1>3. ASSUME NEW m \in Nat, Comes(m)
      PROVE  Comes(m + 1)
  <2>1. PICK e \in Nat : d <= e /\ Count(start, e) = Count(start, d) + m
    BY <1>3
  <2>2. \A k \in Nat : Count(start, k + 1) = IF Business(start + (k + 1)) THEN Count(start, k) + 1
                                             ELSE Count(start, k)
    BY CountStep
  <2>3. Business(start + (e + 1)) \/ Business(start + (e + 2)) \/ Business(start + (e + 3))
    <3>1. start + (e + 1) \in Nat /\ start + (e + 1) + 1 = start + (e + 2)
          /\ start + (e + 1) + 2 = start + (e + 3)
      OBVIOUS
    <3> QED BY <3>1, NoLongWeekend
  <2>4. \E k \in {e + 1, e + 2, e + 3} : Count(start, k) = Count(start, e) + 1
    <3>1. /\ Count(start, e + 1) = IF Business(start + (e + 1)) THEN Count(start, e) + 1
                                   ELSE Count(start, e)
          /\ Count(start, e + 2) = IF Business(start + (e + 2)) THEN Count(start, e + 1) + 1
                                   ELSE Count(start, e + 1)
          /\ Count(start, e + 3) = IF Business(start + (e + 3)) THEN Count(start, e + 2) + 1
                                   ELSE Count(start, e + 2)
      <4>1. e + 1 \in Nat /\ e + 2 \in Nat /\ (e + 1) + 1 = e + 2 /\ (e + 2) + 1 = e + 3
        OBVIOUS
      <4> QED BY <2>2, <4>1
    <3>2. e \in Nat
      OBVIOUS
    <3> QED BY <1>1, <2>3, <3>1
  <2>5. PICK k \in {e + 1, e + 2, e + 3} : Count(start, k) = Count(start, e) + 1
    BY <2>4
  <2>6. k \in Nat /\ d <= k /\ Count(start, k) = Count(start, d) + (m + 1)
    BY <1>1, <2>1, <2>5
  <2> QED BY <2>6
<1>4. Never = {}
  <2>1. SUFFICES ASSUME Never # {} PROVE FALSE
    OBVIOUS
  <2>2. Never \in SUBSET Nat
    OBVIOUS
  <2>3. PICK m \in Never : \A k \in Never : m <= k
    BY <2>1, <2>2, MinExists
  <2> HIDE DEF Comes
  <2>4. m \in Nat /\ m # 0 /\ ~Comes(m)
    BY <1>2
  <2>5. m - 1 \in Nat /\ Comes(m - 1)
    BY <2>3, <2>4
  <2>6. Comes((m - 1) + 1)
    BY <1>3, <2>5
  <2> QED BY <2>4, <2>6
<1> QED BY <1>4

LEMMA Landing ==
  ASSUME NEW start \in Nat, NEW d \in Nat, NEW n \in Nat
  PROVE  /\ \E e \in Nat : LandsOn(start, d, n, e)
         /\ \A e, k \in Nat : LandsOn(start, d, n, e) /\ LandsOn(start, d, n, k) => e = k
<1> DEFINE S == {e \in Nat : d <= e /\ Count(start, e) = Count(start, d) + n}
<1>1. S # {} /\ S \in SUBSET Nat
  <2>1. PICK e \in Nat : d <= e /\ Count(start, e) = Count(start, d) + n
    BY DaysCome
  <2>2. e \in S
    BY <2>1
  <2> QED BY <2>2
<1>2. PICK e \in S : \A k \in S : e <= k
  BY <1>1, MinExists
<1>3. LandsOn(start, d, n, e)
  BY <1>2 DEF LandsOn
<1>4. \A i, k \in Nat : LandsOn(start, d, n, i) /\ LandsOn(start, d, n, k) => i = k
  <2>1. \A i, k \in Nat : LandsOn(start, d, n, i) /\ LandsOn(start, d, n, k) => i <= k /\ k <= i
    BY DEF LandsOn
  <2> QED BY <2>1
<1> QED BY <1>3, <1>4

\* A turn of the loop: the day after d, with what is then still to be counted.
LEMMA LandsFromNext ==
  ASSUME NEW start \in Nat, NEW d \in Nat, NEW n \in Nat \ {0}, NEW e \in Nat
  PROVE  LandsOn(start, d, n, e) <=>
           LandsOn(start, d + 1, IF Business(start + d + 1) THEN n - 1 ELSE n, e)
<1> DEFINE m == IF Business(start + d + 1) THEN n - 1 ELSE n
<1>1. Count(start, d) \in Nat /\ Count(start, d + 1) + m = Count(start, d) + n
  <2>1. start + d + 1 = start + (d + 1)
    OBVIOUS
  <2>2. /\ Count(start, d) \in Nat
        /\ Count(start, d + 1) = IF Business(start + d + 1) THEN Count(start, d) + 1
                                 ELSE Count(start, d)
    BY <2>1, CountStep
  <2>3. CASE Business(start + d + 1)
    BY <2>2, <2>3
  <2>4. CASE ~Business(start + d + 1)
    BY <2>2, <2>4
  <2> QED BY <2>3, <2>4
<1>2. \A k \in Nat : d <= k /\ Count(start, k) = Count(start, d) + n => d + 1 <= k
  BY <1>1
<1> HIDE DEF m
<1>3. LandsOn(start, d, n, e) <=> LandsOn(start, d + 1, m, e)
  BY <1>1, <1>2 DEF LandsOn
<1> QED BY <1>3 DEF m

LEMMA LandsAtOnce ==
  ASSUME NEW start \in Nat, NEW d \in Nat
  PROVE  LandsOn(start, d, 0, d)
BY CountStep DEF LandsOn

\* What the loop is at: d, and the working days added so far.
At(days) == Nat \X (0..days)

NextAt(start, at) ==
  <<at[1] + 1, IF Business(start + at[1] + 1) THEN at[2] + 1 ELSE at[2]>>

\* f is the loop.
Loops(f, start, days) ==
  f = [at \in At(days) |-> IF at[2] = days THEN at[1] ELSE f[NextAt(start, at)]]

LEMMA NextAtProperties ==
  ASSUME NEW start \in Nat, NEW days \in Nat, NEW at \in At(days), at[2] # days
  PROVE  /\ at[1] \in Nat /\ at[2] \in Nat /\ days - at[2] \in Nat \ {0}
         /\ NextAt(start, at) \in At(days) /\ NextAt(start, at)[1] = at[1] + 1
         /\ days - NextAt(start, at)[2] = IF Business(start + at[1] + 1) THEN days - at[2] - 1
                                          ELSE days - at[2]
<1>1. at[1] \in Nat /\ at[2] \in 0..days
  BY DEF At
<1>2. CASE Business(start + at[1] + 1)
  <2>1. NextAt(start, at) = <<at[1] + 1, at[2] + 1>>
    BY <1>2 DEF NextAt
  <2> QED BY <1>1, <1>2, <2>1 DEF At
<1>3. CASE ~Business(start + at[1] + 1)
  <2>1. NextAt(start, at) = <<at[1] + 1, at[2]>>
    BY <1>3 DEF NextAt
  <2> QED BY <1>1, <1>3, <2>1 DEF At
<1> QED BY <1>2, <1>3

LEMMA LandsNextAt ==
  ASSUME NEW start \in Nat, NEW days \in Nat, NEW at \in At(days), at[2] # days, NEW e \in Nat
  PROVE  LandsOn(start, at[1], days - at[2], e) <=>
           LandsOn(start, NextAt(start, at)[1], days - NextAt(start, at)[2], e)
<1> DEFINE n == days - at[2]
           d == at[1]
<1>1. d \in Nat /\ n \in Nat \ {0}
  BY NextAtProperties
<1>2. NextAt(start, at)[1] = d + 1
      /\ days - NextAt(start, at)[2] = IF Business(start + d + 1) THEN n - 1 ELSE n
  BY NextAtProperties
<1> HIDE DEF n, d
<1>3. LandsOn(start, d, n, e) <=>
        LandsOn(start, d + 1, IF Business(start + d + 1) THEN n - 1 ELSE n, e)
  BY <1>1, LandsFromNext
<1> QED BY <1>2, <1>3 DEF n, d

\* The loop ends, wherever it is, so that its function exists.
LEMMA LoopExists ==
  ASSUME NEW start \in Nat, NEW days \in Nat
  PROVE  \E f : Loops(f, start, days)
<1> DEFINE land(at) == CHOOSE e \in Nat : LandsOn(start, at[1], days - at[2], e)
           f == [at \in At(days) |-> land(at)]
           turn(at) == IF at[2] = days THEN at[1] ELSE f[NextAt(start, at)]
<1>1. ASSUME NEW at \in At(days)
      PROVE  land(at) \in Nat /\ LandsOn(start, at[1], days - at[2], land(at))
  <2>1. at[1] \in Nat /\ days - at[2] \in Nat
    BY DEF At
  <2>2. \E e \in Nat : LandsOn(start, at[1], days - at[2], e)
    BY <2>1, Landing
  <2> QED BY <2>2
<1>2. ASSUME NEW at \in At(days)
      PROVE  f[at] = turn(at)
  <2>1. at[1] \in Nat /\ days - at[2] \in Nat
    BY DEF At
  <2>2. f[at] = land(at)
    OBVIOUS
  <2>3. CASE at[2] = days
    <3>1. days - at[2] = 0
      BY <2>3
    <3>2. LandsOn(start, at[1], days - at[2], at[1])
      BY <2>1, <3>1, LandsAtOnce
    <3> HIDE DEF land
    <3>3. land(at) = at[1]
      BY <1>1, <2>1, <3>2, Landing
    <3> QED BY <2>2, <2>3, <3>3
  <2>4. CASE at[2] # days
    <3> DEFINE next == NextAt(start, at)
    <3>1. next \in At(days)
      BY <2>4, NextAtProperties
    <3>2. f[next] = land(next)
      BY <3>1
    <3>3. land(next) \in Nat /\ LandsOn(start, next[1], days - next[2], land(next))
      BY <1>1, <3>1
    <3> HIDE DEF land
    <3>4. LandsOn(start, at[1], days - at[2], land(next))
      <4> DEFINE e == land(next)
      <4>1. e \in Nat /\ LandsOn(start, NextAt(start, at)[1], days - NextAt(start, at)[2], e)
        BY <3>3
      <4> HIDE DEF e
      <4>2. LandsOn(start, at[1], days - at[2], e)
        BY <2>4, <4>1, LandsNextAt
      <4> QED BY <4>2 DEF e
    <3>5. land(at) = land(next)
      BY <1>1, <2>1, <3>3, <3>4, Landing
    <3> QED BY <2>2, <2>4, <3>2, <3>5
  <2> QED BY <2>3, <2>4
<1>3. f = [at \in At(days) |-> turn(at)]
  <2> HIDE DEF turn, land
  <2> QED BY <1>2
<1>4. Loops(f, start, days)
  BY <1>3, Zenon DEF Loops
<1> QED BY <1>4

\* The loop returns the day on which the days asked for have been counted.
LEMMA LoopLands ==
  ASSUME NEW start \in Nat, NEW days \in Nat, NEW f, Loops(f, start, days),
         NEW at \in At(days), NEW e \in Nat, LandsOn(start, at[1], days - at[2], e)
  PROVE  f[at] = e
<1> DEFINE Wrong(a, m) == LandsOn(start, a[1], days - a[2], a[1] + m) /\ f[a] # a[1] + m
           Bad == {m \in Nat : \E a \in At(days) : Wrong(a, m)}
<1>1. \A a \in At(days) : f[a] = IF a[2] = days THEN a[1] ELSE f[NextAt(start, a)]
  BY DEF Loops
<1>2. Bad = {}
  <2>1. SUFFICES ASSUME Bad # {} PROVE FALSE
    OBVIOUS
  <2>2. Bad \in SUBSET Nat
    OBVIOUS
  <2>3. PICK m \in Bad : \A k \in Bad : m <= k
    <3> HIDE DEF Bad
    <3> QED BY <2>1, <2>2, MinExists
  <2>4. PICK a \in At(days) : Wrong(a, m)
    BY <2>3
  <2>5. m \in Nat /\ a[1] \in Nat /\ days - a[2] \in Nat /\ a[1] + m \in Nat
    BY <2>2, <2>3 DEF At
  <2>6. CASE a[2] = days
    <3>1. days - a[2] = 0 /\ f[a] = a[1]
      BY <1>1, <2>6
    <3>2. LandsOn(start, a[1], days - a[2], a[1])
      BY <2>5, <3>1, LandsAtOnce
    <3>3. a[1] + m = a[1]
      <4> DEFINE x == a[1]
                 y == a[1] + m
                 n == days - a[2]
      <4>1. /\ x \in Nat /\ y \in Nat /\ n \in Nat
            /\ LandsOn(start, x, n, x) /\ LandsOn(start, x, n, y)
        BY <2>4, <2>5, <3>2
      <4> HIDE DEF x, y, n
      <4>2. x = y
        BY <4>1, Landing
      <4> QED BY <4>2 DEF x, y
    <3> QED BY <2>4, <3>1, <3>3
  <2>7. CASE a[2] # days
    <3> DEFINE b == NextAt(start, a)
    <3>1. b \in At(days) /\ b[1] = a[1] + 1
      BY <2>7, NextAtProperties
    <3>2. LandsOn(start, b[1], days - b[2], a[1] + m)
      <4> DEFINE z == a[1] + m
      <4>1. z \in Nat /\ LandsOn(start, a[1], days - a[2], z)
        BY <2>4, <2>5
      <4> HIDE DEF z
      <4>2. LandsOn(start, b[1], days - b[2], z)
        BY <2>7, <4>1, LandsNextAt
      <4> QED BY <4>2 DEF z
    <3>3. f[b] = f[a]
      BY <1>1, <2>7
    <3> HIDE DEF b
    <3>4. b[1] <= a[1] + m
      BY <3>2 DEF LandsOn
    <3>5. m - 1 \in Nat /\ b[1] + (m - 1) = a[1] + m
      BY <2>5, <3>1, <3>4
    <3>6. Wrong(b, m - 1)
      BY <2>4, <3>2, <3>3, <3>5
    <3>7. m - 1 \in Bad
      BY <3>1, <3>5, <3>6
    <3> QED BY <2>3, <2>5, <3>7
  <2> QED BY <2>6, <2>7
<1>3. at[1] \in Nat /\ at[1] <= e
  BY DEF At, LandsOn
<1>4. e - at[1] \in Nat /\ at[1] + (e - at[1]) = e
  BY <1>3
<1>5. ~Wrong(at, e - at[1])
  BY <1>2, <1>4
<1> QED BY <1>4, <1>5

\* The deadline of a claim: the day after which the working days have passed.
LEMMA Deadline ==
  ASSUME NEW start \in Nat, NEW days \in Nat \ {0}
  PROVE  LET due == start + _add_business_days(start, days) IN
         /\ Business(due)
         /\ Cardinality({d \in (start + 1)..due : Business(d)}) = days
<1> DEFINE e == _add_business_days(start, days)
<1>1. PICK f : Loops(f, start, days) /\ e = f[<<0, 0>>]
  <2>1. Loops(CHOOSE f : Loops(f, start, days), start, days)
    BY LoopExists
  <2>2. e = (CHOOSE f : Loops(f, start, days))[<<0, 0>>]
    BY DEF _add_business_days, Loops, At, NextAt
  <2> QED BY <2>1, <2>2
<1>2. PICK k \in Nat : LandsOn(start, 0, days, k)
  BY Landing
<1> HIDE DEF e
<1>3. e = k
  <2> DEFINE at == <<0, 0>>
  <2>1. at \in At(days) /\ at[1] = 0 /\ days - at[2] = days
    BY DEF At
  <2> HIDE DEF at
  <2>2. f[at] = k
    BY <1>1, <1>2, <2>1, LoopLands
  <2> QED BY <1>1, <2>2 DEF at
<1>4. Count(start, k) = days
  <2>1. Count(start, 0) = 0
    BY CountStep
  <2> QED BY <1>2, <2>1 DEF LandsOn
<1>5. Business(start + k)
  <2>1. SUFFICES ASSUME ~Business(start + k) PROVE FALSE
    OBVIOUS
  <2>2. k # 0
    BY <1>4, CountStep
  <2>3. k - 1 \in Nat /\ (k - 1) + 1 = k
    BY <2>2
  <2>4. Count(start, (k - 1) + 1) = IF Business(start + ((k - 1) + 1)) THEN Count(start, k - 1) + 1
                                    ELSE Count(start, k - 1)
    BY <2>3, CountStep
  <2>5. Count(start, k - 1) = days
    BY <1>4, <2>1, <2>3, <2>4
  <2>6. Count(start, 0) = 0
    BY CountStep
  <2> QED BY <1>2, <2>3, <2>5, <2>6 DEF LandsOn
<1>6. {d \in (start + 1)..(start + k) : Business(d)} = Worked(start, k)
  BY DEF Worked
<1> QED BY <1>3, <1>4, <1>5, <1>6 DEF Count, e

-----------------------------------------------------------------------------
(* Steps. *)

LEMMA Constants ==
  /\ CreditsOf \in [Dni -> SUBSET Credit]
  /\ Weekday \subseteq Nat /\ ResponseDays \in Nat \ {0} /\ MaxYear \in Nat \ {0}
BY RegistersAssumption

\* What a step does to the vouchers, and to the claims.
VouchersStep ==
  VouchersOK(vouchers') /\ AnswerOK(vouchers', answer') /\ Grows(vouchers, vouchers')

ClaimsStep ==
  /\ ClaimsOK(claims', year') /\ (Grows(claims, claims') \/ Redeploy)
  /\ year' \in 1..MaxYear /\ DeadlineOK(answer')

ImagesOK == images \in [Dni \X Nro -> Image \cup {None}]

Stepped == VouchersStep /\ ClaimsStep /\ ImagesOK'

LEMMA VouchersKept ==
  ASSUME IInv, vouchers' = vouchers, answer' = answer \/ answer'.kind \notin {"foto", "typed"}
  PROVE  VouchersStep
<1>1. VouchersOK(vouchers') /\ Grows(vouchers, vouchers')
  BY NothingAdded DEF IInv
<1>2. AnswerOK(vouchers', answer')
  BY DEF AnswerOK, IInv
<1> QED BY <1>1, <1>2 DEF VouchersStep

LEMMA ClaimsKept ==
  ASSUME IInv, claims' = claims, year' = year, answer' = answer \/ answer'.kind # "claim"
  PROVE  ClaimsStep
<1>1. IsPrefix(claims.records, claims.records)
  BY PrefixOfItself DEF IInv, ClaimsOK
<1>2. Grows(claims, claims')
  BY <1>1 DEF Grows
<1> QED BY <1>2 DEF ClaimsStep, IInv, DeadlineOK

LEMMA RegisterAnswers ==
  ASSUME NEW record \in Voucher, NEW onError, onError.kind # "claim", Register(record, onError)
  PROVE  answer'.kind # "claim"
<1>1. record.source # "claim"
  BY DEF Voucher
<1>2. answer' \in {[kind |-> record.source, credito |-> record.credito, key |-> record.key],
                   onError, NoAnswer}
  BY DEF Register
<1> QED BY <1>1, <1>2 DEF NoAnswer

LEMMA FotoStep ==
  ASSUME IInv, NEW c \in Credit, NEW url \in Url, registrar_comprobante_foto(c, url)
  PROVE  Stepped
<1> DEFINE record == [source |-> "foto", credito |-> c, key |-> url, tipo |-> None, n_cuota |-> None]
           onError == [kind |-> "acknowledged"]
<1>1. record \in Voucher /\ record.source = "foto"
  BY DEF Voucher
<1>2. onError.kind \notin {"foto", "typed", "claim"}
  OBVIOUS
<1>3. Register(record, onError) /\ UNCHANGED <<images, claims, year>>
  BY DEF registrar_comprobante_foto
<1> HIDE DEF record, onError
<1>4. RegisterSound /\ answer'.kind # "claim"
  BY <1>1, <1>2, <1>3, RegisterStep, RegisterAnswers DEF IInv
<1>5. VouchersStep
  BY <1>1, <1>4 DEF RegisterSound, VouchersStep
<1>6. ClaimsStep
  BY <1>3, <1>4, ClaimsKept
<1> QED BY <1>3, <1>5, <1>6 DEF Stepped, ImagesOK, IInv

LEMMA TypedVoucher ==
  ASSUME NEW c \in Credit, NEW monto, NEW key \in Image \cup {None}, NEW n \in CuotaInput \cup {None}
  PROVE  /\ Typed(c, monto, key, n) \in Voucher
         /\ Typed(c, monto, key, n).key = key /\ Typed(c, monto, key, n).credito = c
<1>1. classify_tipo(monto, Cuota[c], Saldo[c]) \in {"cancelacion", "pago_cuota", "abono"}
  BY DEF classify_tipo
<1> QED BY <1>1 DEF Typed, Voucher

LEMMA ErrorKinds ==
  /\ Error.kind \notin {"foto", "typed", "claim"} /\ NoAnswer.kind \notin {"foto", "typed", "claim"}
BY DEF Error, NoAnswer

LEMMA ValidarStep ==
  ASSUME IInv, NEW c \in Credit, NEW monto, NEW n \in CuotaInput \cup {None}, NEW online,
         validar_comprobante(c, monto, n, online)
  PROVE  Stepped
<1>1. UNCHANGED <<images, claims, year>>
  BY DEF validar_comprobante
<1>2. CASE CuotaRefused(c, n, online)
  <2>1. answer'.kind = "reask" /\ vouchers' = vouchers
    BY <1>2 DEF validar_comprobante
  <2> QED BY <1>1, <2>1, VouchersKept, ClaimsKept DEF Stepped, ImagesOK, IInv
<1>3. CASE ~CuotaRefused(c, n, online)
  <2> DEFINE record == Typed(c, monto, None, n)
  <2>1. record \in Voucher /\ record.key = None
    BY TypedVoucher
  <2>2. Register(record, Error)
    BY <1>3 DEF validar_comprobante
  <2> HIDE DEF record
  <2>3. RegisterSound /\ answer'.kind # "claim"
    BY <2>1, <2>2, ErrorKinds, RegisterStep, RegisterAnswers DEF IInv
  <2>4. VouchersStep
    BY <2>1, <2>3 DEF RegisterSound, VouchersStep
  <2>5. ClaimsStep
    BY <1>1, <2>3, ClaimsKept
  <2> QED BY <1>1, <2>4, <2>5 DEF Stepped, ImagesOK, IInv
<1> QED BY <1>2, <1>3

LEMMA UploadStep ==
  ASSUME IInv, NEW d \in Dni, NEW nro \in Nro, NEW monto, NEW image \in Image,
         upload_comprobante(d, nro, monto, image)
  PROVE  Stepped
<1>1. UNCHANGED <<claims, year>> /\ images \in [Dni \X Nro -> Image \cup {None}]
      /\ <<d, nro>> \in Dni \X Nro
  BY DEF upload_comprobante, IInv
<1>2. CASE /\ images' = [images EXCEPT ![<<d, nro>>] = image]
           /\ \E c \in CreditsOf[d] : Register(Typed(c, monto, image, None), Error)
  <2>1. ImagesOK' /\ images'[<<d, nro>>] = image
    BY <1>1, <1>2 DEF ImagesOK
  <2>2. PICK c \in CreditsOf[d] : Register(Typed(c, monto, image, None), Error)
    BY <1>2
  <2>3. c \in Credit
    BY Constants
  <2> DEFINE record == Typed(c, monto, image, None)
  <2>4. record \in Voucher /\ record.key = image /\ record.credito = c
    BY <2>3, TypedVoucher
  <2>5. Register(record, Error)
    BY <2>2
  <2> HIDE DEF record
  <2>6. RegisterSound /\ answer'.kind # "claim"
    BY <2>4, <2>5, ErrorKinds, RegisterStep, RegisterAnswers DEF IInv
  <2>7. VouchersStep
    BY <2>1, <2>4, <2>6 DEF RegisterSound, VouchersStep
  <2>8. ClaimsStep
    BY <1>1, <2>6, ClaimsKept
  <2> QED BY <2>1, <2>7, <2>8 DEF Stepped
<1>3. CASE /\ images' \in {images, [images EXCEPT ![<<d, nro>>] = None]}
           /\ answer' \in {Error, NoAnswer} /\ UNCHANGED vouchers
  <2>1. ImagesOK'
    BY <1>1, <1>3 DEF ImagesOK
  <2> QED BY <1>1, <1>3, <2>1, ErrorKinds, VouchersKept, ClaimsKept DEF Stepped
<1> QED BY <1>2, <1>3 DEF upload_comprobante

LEMMA ReclamoStep ==
  ASSUME IInv, NEW weekday \in Weekday, NEW described, registrar_reclamo(weekday, described)
  PROVE  Stepped
<1> DEFINE due == _add_business_days(weekday, ResponseDays)
           told == [kind |-> "claim", from |-> weekday, deadline |-> due]
<1>1. UNCHANGED <<vouchers, images, year>> /\ year \in 1..MaxYear /\ year \in Nat \ {0}
  BY Constants DEF registrar_reclamo, IInv
<1>2. answer' \in {[kind |-> "descripcion_required"], told, Error, NoAnswer}
  BY DEF registrar_reclamo
<1>3. DeadlineOK(told)
  <2>1. Business(weekday + due)
        /\ Cardinality({d \in (weekday + 1)..(weekday + due) : Business(d)}) = ResponseDays
    BY Constants, Deadline
  <2> HIDE DEF due
  <2> QED BY <2>1 DEF DeadlineOK
<1>4. answer'.kind \notin {"foto", "typed"} /\ DeadlineOK(answer')
  <2>1. told.kind = "claim"
    OBVIOUS
  <2> HIDE DEF told
  <2> QED BY <1>2, <1>3, <2>1, ErrorKinds DEF DeadlineOK
<1>5. ClaimsOK(claims', year') /\ Grows(claims, claims')
  BY <1>1, ClaimStep DEF IInv
<1>6. VouchersStep
  BY <1>1, <1>4, VouchersKept
<1> QED BY <1>1, <1>4, <1>5, <1>6 DEF Stepped, ClaimsStep, ImagesOK, IInv

LEMMA DeliverStep ==
  ASSUME IInv, Deliver
  PROVE  Stepped
<1>1. \A p, tipo, canal, real, svc, up :
        enviar_info(p, tipo, canal, real, svc, up).kind \in {"not_sent", "info"}
  BY DEF enviar_info, Refusal, Sent
<1>2. \A p, tipo, destino, given, svc, up :
        enviar_documento(p, tipo, destino, given, svc, up).kind
          \in {"not_sent", "documento_correo", "documento_whatsapp"}
  BY DEF enviar_documento, Refusal, Sent
<1>3. answer'.kind \notin {"foto", "typed", "claim"}
  <2>1. \/ \E p, tipo, canal, real, svc, up : answer' = enviar_info(p, tipo, canal, real, svc, up)
        \/ \E p, tipo, destino, given, svc, up :
             answer' = enviar_documento(p, tipo, destino, given, svc, up)
    BY Zenon DEF Deliver, DeliveryAnswers
  <2> QED BY <1>1, <1>2, <2>1
<1>4. UNCHANGED <<vouchers, images, claims, year>>
  BY DEF Deliver
<1> QED BY <1>3, <1>4, VouchersKept, ClaimsKept DEF Stepped, ImagesOK, IInv

LEMMA NewYearStep ==
  ASSUME IInv, NewYear
  PROVE  Stepped
<1>1. year' = year + 1 /\ year < MaxYear /\ year \in Nat /\ year' \in 1..MaxYear
      /\ UNCHANGED <<vouchers, images, claims, answer>>
  BY Constants DEF NewYear, IInv
<1>2. ClaimsOK(claims', year')
  BY <1>1, LaterYear DEF IInv
<1>3. IsPrefix(claims.records, claims.records)
  BY PrefixOfItself DEF IInv, ClaimsOK
<1>4. Grows(claims, claims')
  BY <1>1, <1>3 DEF Grows
<1>5. VouchersStep
  BY <1>1, VouchersKept
<1> QED BY <1>1, <1>2, <1>4, <1>5 DEF Stepped, ClaimsStep, ImagesOK, IInv

LEMMA RedeployStep ==
  ASSUME IInv, Redeploy
  PROVE  Stepped
<1>1. claims' = Whole(<<>>) /\ answer' = NoAnswer /\ UNCHANGED <<vouchers, images, year>>
      /\ year \in Nat /\ year \in 1..MaxYear
  BY Constants DEF Redeploy, IInv
<1>2. ClaimsOK(claims', year')
  BY <1>1, CutClaims
<1>3. VouchersStep
  BY <1>1, ErrorKinds, VouchersKept
<1>4. DeadlineOK(answer')
  BY <1>1, ErrorKinds DEF DeadlineOK
<1> QED BY <1>1, <1>2, <1>3, <1>4 DEF Stepped, ClaimsStep, ImagesOK, IInv

LEMMA NextStep ==
  ASSUME IInv, Next
  PROVE  Stepped
<1>1. ASSUME NEW c \in Credit, NEW url \in Url, registrar_comprobante_foto(c, url)
      PROVE  Stepped
  BY <1>1, FotoStep
<1>2. ASSUME NEW c \in Credit, NEW m \in Monto, NEW n \in CuotaInput \cup {None},
             NEW online \in BOOLEAN, validar_comprobante(c, m, n, online)
      PROVE  Stepped
  BY <1>2, ValidarStep
<1>3. ASSUME NEW d \in Dni, NEW nro \in Nro, NEW m \in Monto, NEW image \in Image,
             upload_comprobante(d, nro, m, image)
      PROVE  Stepped
  BY <1>3, UploadStep
<1>4. CASE UploadRefused
  <2>1. answer'.kind = "refused" /\ UNCHANGED <<vouchers, images, claims, year>>
    BY <1>4 DEF UploadRefused
  <2> QED BY <2>1, VouchersKept, ClaimsKept DEF Stepped, ImagesOK, IInv
<1>5. ASSUME NEW weekday \in Weekday, NEW described \in BOOLEAN,
             registrar_reclamo(weekday, described)
      PROVE  Stepped
  BY <1>5, ReclamoStep
<1> QED BY <1>1, <1>2, <1>3, <1>4, <1>5, DeliverStep, NewYearStep, RedeployStep DEF Next

LEMMA Stutters ==
  ASSUME IInv, UNCHANGED vars
  PROVE  Stepped
BY VouchersKept, ClaimsKept DEF vars, Stepped, ImagesOK, IInv

-----------------------------------------------------------------------------
(* The theorems. *)

LEMMA Invariant == Spec => []IInv
<1>1. Init => IInv
  <2> SUFFICES ASSUME Init PROVE IInv
    OBVIOUS
  <2>1. VouchersOK(vouchers) /\ ClaimsOK(claims, year) /\ year \in 1..MaxYear
    <3>1. VouchersOK(Whole(<<>>))
      BY CutVouchers DEF VouchersOK, Whole, CutFile
    <3> QED BY <3>1, CutClaims, Constants DEF Init
  <2>2. AnswerOK(vouchers, answer) /\ DeadlineOK(answer)
    BY ErrorKinds DEF Init, AnswerOK, DeadlineOK
  <2> QED BY <2>1, <2>2 DEF Init, IInv
<1>2. IInv /\ [Next]_vars => IInv'
  <2> SUFFICES ASSUME IInv, [Next]_vars PROVE IInv'
    OBVIOUS
  <2>1. Stepped
    BY NextStep, Stutters
  <2> QED BY <2>1 DEF Stepped, VouchersStep, ClaimsStep, ImagesOK, IInv
<1> QED BY <1>1, <1>2, PTL DEF Spec

\* Every variable stays in its type: the folios bear no year that has not come, and number
\* from one.
THEOREM TypeCorrect == Spec => []TypeOK
<1>1. IInv => TypeOK
  BY DEF IInv, VouchersOK, ClaimsOK, Folio, TypeOK
<1> QED BY <1>1, Invariant, PTL

\* The folios of each year run from 1 without a gap or a repetition, and a deadline given is
\* the working day by which the mandated working days have passed.
THEOREM BookInOrder == Spec => []ClaimsInOrder
<1>1. IInv => ClaimsInOrder
  BY DEF IInv, ClaimsOK, InOrder, DeadlineOK, ClaimsInOrder
<1> QED BY <1>1, Invariant, PTL

\* Unless a write is cut, no voucher or claim is lost or changed, no image is registered
\* twice for a credit, and what a call reports as received has its record.
THEOREM TrailKept == Spec => AuditTrail
<1>1. IInv /\ [Next]_vars => [Audited]_vars
  <2> SUFFICES ASSUME IInv, [Next]_vars PROVE Audited
    OBVIOUS
  <2>1. Stepped
    BY NextStep, Stutters
  <2>2. \A i, j \in DOMAIN vouchers'.records :
          i # j /\ vouchers'.records[i].key # None =>
            ~Same(vouchers'.records[i], vouchers'.records[j])
    BY <2>1 DEF Stepped, VouchersStep, VouchersOK, Distinct
  <2>3. \A i, j \in DOMAIN vouchers'.records :
          LET r == vouchers'.records[i]
              s == vouchers'.records[j]
          IN  i # j /\ r.key # None =>
                <<r.source, r.credito, r.key>> # <<s.source, s.credito, s.key>>
    BY <2>2 DEF Same
  <2>4. answer'.kind \in {"foto", "typed"} =>
          \E i \in DOMAIN vouchers'.records :
            LET r == vouchers'.records[i] IN
            <<r.source, r.credito, r.key>> = <<answer'.kind, answer'.credito, answer'.key>>
    BY <2>1 DEF Stepped, VouchersStep, AnswerOK
  <2> QED BY <2>1, <2>3, <2>4 DEF Stepped, VouchersStep, ClaimsStep, Audited
<1> QED BY <1>1, Invariant, PTL DEF Spec, AuditTrail

=============================================================================
