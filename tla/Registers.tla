----------------------------- MODULE Registers -----------------------------
(***************************************************************************)
(* The registers the agent keeps in files: the payment vouchers, with the  *)
(* images uploaded beside them, and the book of claims.  Each is one JSON  *)
(* list that is read, appended to and written back whole.  The server is   *)
(* one event loop and no handler awaits between its read and its write, so *)
(* that a step is a whole call; but a write may fail or be cut short, and  *)
(* the claims, in /tmp, go with the container.                             *)
(***************************************************************************)
EXTENDS Integers, Sequences, SequencesExt, FiniteSets, Delivery

CONSTANTS
  Credit, Dni,
  CreditsOf,   \* the credits of each document number, as the debt source resolves it
  Image,       \* contents of uploaded files, by their hash
  Nro,         \* operation numbers
  Url,         \* media urls of photos
  Monto,       \* amounts people type
  Weekday,     \* days of the week claims are made on
  Cuota, Saldo, Plazo, \* installment, balance and number of installments of each credit
  CuotaInput,  \* installment numbers people type; 0 stands for what is no positive number
  ResponseDays, \* working days to answer a claim
  MaxYear, MaxVouchers, MaxClaims, \* bounds
  None

ASSUME RegistersAssumption ==
  /\ CreditsOf \in [Dni -> SUBSET Credit]
  /\ Cuota \in [Credit -> Nat] /\ Saldo \in [Credit -> Nat] /\ Plazo \in [Credit -> Nat]
  /\ Weekday \subseteq 0..6
  /\ Monto \subseteq Int /\ CuotaInput \subseteq Nat
  /\ {ResponseDays, MaxYear} \subseteq Nat \ {0} /\ {MaxVouchers, MaxClaims} \subseteq Nat
  /\ None \notin Image \cup Url /\ None \notin CuotaInput

VARIABLES
  vouchers, \* comprobantes.json
  images,   \* the stored image of each document and operation number
  claims,   \* prestaunion_reclamos.json
  year,
  answer    \* the answer to the last call; NoAnswer when the process died

vars == <<vouchers, images, claims, year, answer>>

\* A file is whole, or was cut while it was written and is no JSON any more.
Whole(records) == [whole |-> TRUE, records |-> records]
CutFile == [whole |-> FALSE, records |-> <<>>]

NoAnswer == [kind |-> "none"]
Error == [kind |-> "error"]

Init ==
  /\ vouchers = Whole(<<>>) /\ claims = Whole(<<>>)
  /\ images = [slot \in Dni \X Nro |-> None]
  /\ year = 1
  /\ answer = NoAnswer

-----------------------------------------------------------------------------
(* Files. *)

\* _load_comprobantes, _load_reclamos: what cannot be read is an empty list.
_load(file) == IF file.whole THEN file.records ELSE <<>>

\* A write that fails leaves the old file when it could not be opened, else a part.
AfterFailure(file) == {file, CutFile}

-----------------------------------------------------------------------------
(* Vouchers. *)

\* classify_tipo: within 2% of the balance, then of the installment.
classify_tipo(monto, cuota, saldo) ==
  LET near(value) == value > 0 /\ 50 * (monto - value) \in (-value)..value
  IN  IF near(saldo) THEN "cancelacion" ELSE IF near(cuota) THEN "pago_cuota" ELSE "abono"

\* Mutant: the credit is not compared.
Duplicate_any_credit(items, source, credito, key) ==
  key # None /\ \E i \in DOMAIN items : items[i].source = source /\ items[i].key = key

\* The same image, or photo, of the same credit; a voucher without one has no duplicate.
Duplicate(items, source, credito, key) ==
  key # None /\ \E i \in DOMAIN items :
    items[i].source = source /\ items[i].credito = credito /\ items[i].key = key

\* The tail of both registering functions; onError is the answer to a failed write.
Register(record, onError) ==
  LET items == _load(vouchers)
      reply == [kind |-> record.source, credito |-> record.credito, key |-> record.key]
  IN  IF Duplicate(items, record.source, record.credito, record.key)
      THEN answer' = reply /\ UNCHANGED vouchers
      ELSE /\ Len(items) < MaxVouchers
           /\ \/ vouchers' = Whole(Append(items, record)) /\ answer' \in {reply, NoAnswer}
              \/ vouchers' \in AfterFailure(vouchers) /\ answer' \in {onError, NoAnswer}

\* ChatHub's photo of an identified customer.  An error is swallowed and the photo
\* acknowledged all the same.
registrar_comprobante_foto(c, url) ==
  /\ Register([source |-> "foto", credito |-> c, key |-> url, tipo |-> None, n_cuota |-> None],
              [kind |-> "acknowledged"])
  /\ UNCHANGED <<images, claims, year>>

\* The number must be positive and in the schedule, which is empty while the lake is away.
CuotaRefused(c, n, online) == n # None /\ (n = 0 \/ (online /\ n > Plazo[c]))

Typed(c, monto, key, n) ==
  [source |-> "typed", credito |-> c, key |-> key,
   tipo |-> classify_tipo(monto, Cuota[c], Saldo[c]), n_cuota |-> n]

\* validar_comprobante as a tool: no image, and any amount the model passes.
validar_comprobante(c, monto, n, online) ==
  /\ IF CuotaRefused(c, n, online)
     THEN answer' = [kind |-> "reask"] /\ UNCHANGED vouchers
     ELSE Register(Typed(c, monto, None, n), Error)
  /\ UNCHANGED <<images, claims, year>>

\* The form, when it passes the checks of session, limits, formats and signature and its
\* document number resolves.  The image is stored before the voucher is validated, in place
\* of the one stored under that number before; the number is not looked at any more.
upload_comprobante(d, nro, monto, image) ==
  /\ monto > 0
  /\ CreditsOf[d] # {}
  /\ \/ /\ images' = [images EXCEPT ![<<d, nro>>] = image]
        /\ \E c \in CreditsOf[d] : Register(Typed(c, monto, image, None), Error)
     \/ /\ images' \in {images, [images EXCEPT ![<<d, nro>>] = None]}
        /\ answer' \in {Error, NoAnswer}
        /\ UNCHANGED vouchers
  /\ UNCHANGED <<claims, year>>

UploadRefused ==
  /\ answer' = [kind |-> "refused"]
  /\ UNCHANGED <<vouchers, images, claims, year>>

-----------------------------------------------------------------------------
(* Claims. *)

Business(day) == day % 7 < 5

\* The days from start, a day of the week, to the n-th working day after it.
_add_business_days(start, days) ==
  LET after[at \in Nat \X (0..days)] ==
        LET d == at[1]
            added == at[2]
        IN  IF added = days THEN d
            ELSE after[<<d + 1, IF Business(start + d + 1) THEN added + 1 ELSE added>>]
  IN  after[<<0, 0>>]

\* Mutant: the year is not looked at.
_next_folio_any_year(items) == [year |-> year, seq |-> Len(items) + 1]

\* Mutant: the folios start from zero.
_next_folio_from_zero(items) ==
  [year |-> year, seq |-> Cardinality({i \in DOMAIN items : items[i].year = year})]

_next_folio(items) ==
  [year |-> year, seq |-> Cardinality({i \in DOMAIN items : items[i].year = year}) + 1]

registrar_reclamo(weekday, described) ==
  LET items == _load(claims)
      folio == _next_folio(items)
  IN  /\ IF ~described
         THEN answer' = [kind |-> "descripcion_required"] /\ UNCHANGED claims
         ELSE /\ Len(items) < MaxClaims
              /\ \/ /\ claims' = Whole(Append(items, folio))
                    /\ answer' \in {NoAnswer, [kind |-> "claim", from |-> weekday,
                                      deadline |-> _add_business_days(weekday, ResponseDays)]}
                 \/ claims' \in AfterFailure(claims) /\ answer' \in {Error, NoAnswer}
      /\ UNCHANGED <<vouchers, images, year>>

-----------------------------------------------------------------------------

Person == [email : BOOLEAN, phone : BOOLEAN, owes : BOOLEAN]

InfoCall == [person : Person, tipo : Deliverable \cup {"other"}, canal : Channel \cup {""},
             real : BOOLEAN, svc : Services, up : BOOLEAN]

DocumentCall == [person : Person, tipo : DocTipo \cup {"other"}, destino : Destination,
                 given : Channel \cup {""}, svc : Services, up : BOOLEAN]

DeliveryAnswers ==
  {enviar_info(q.person, q.tipo, q.canal, q.real, q.svc, q.up) : q \in InfoCall} \cup
  {enviar_documento(q.person, q.tipo, q.destino, q.given, q.svc, q.up) : q \in DocumentCall}

\* The tools that send something change no register.
Deliver ==
  /\ answer' \in DeliveryAnswers
  /\ UNCHANGED <<vouchers, images, claims, year>>

NewYear ==
  /\ year < MaxYear
  /\ year' = year + 1
  /\ UNCHANGED <<vouchers, images, claims, answer>>

\* A new container: the vouchers and images are on a mounted volume.
Redeploy ==
  /\ claims' = Whole(<<>>)
  /\ answer' = NoAnswer
  /\ UNCHANGED <<vouchers, images, year>>

Next ==
  \/ \E c \in Credit, url \in Url : registrar_comprobante_foto(c, url)
  \/ \E c \in Credit, m \in Monto, n \in CuotaInput \cup {None}, online \in BOOLEAN :
       validar_comprobante(c, m, n, online)
  \/ \E d \in Dni, nro \in Nro, m \in Monto, image \in Image : upload_comprobante(d, nro, m, image)
  \/ UploadRefused
  \/ \E weekday \in Weekday, described \in BOOLEAN : registrar_reclamo(weekday, described)
  \/ Deliver
  \/ NewYear
  \/ Redeploy

Spec == Init /\ [][Next]_vars

-----------------------------------------------------------------------------
(* Properties. *)

Voucher == [source : {"foto", "typed"}, credito : Credit, key : Image \cup Url \cup {None},
            tipo : {"cancelacion", "pago_cuota", "abono", None}, n_cuota : CuotaInput \cup {None}]

\* Every variable stays in its type.
TypeOK ==
  /\ vouchers.whole \in BOOLEAN /\ vouchers.records \in Seq(Voucher)
  /\ claims.whole \in BOOLEAN
  /\ claims.records \in Seq([year : 1..year, seq : Nat \ {0}])
  /\ images \in [Dni \X Nro -> Image \cup {None}]
  /\ year \in 1..MaxYear

Grows(old, new) == old.whole /\ new.whole => IsPrefix(old.records, new.records)

\* Unless a write was cut, nothing that was registered is lost or changed, by a new
\* container only the claims; no image or photo is registered twice for a credit, whatever
\* came in between; and what a call reports as received, a duplicate too, has its record.
Audited ==
  /\ Grows(vouchers, vouchers')
  /\ Grows(claims, claims') \/ Redeploy
  /\ \A i, j \in DOMAIN vouchers'.records :
       LET r == vouchers'.records[i]
           s == vouchers'.records[j]
       IN  i # j /\ r.key # None =>
             <<r.source, r.credito, r.key>> # <<s.source, s.credito, s.key>>
  /\ answer'.kind \in {"foto", "typed"} =>
       \E i \in DOMAIN vouchers'.records :
         LET r == vouchers'.records[i] IN
         <<r.source, r.credito, r.key>> = <<answer'.kind, answer'.credito, answer'.key>>

\* "so the demo can show the audit trail" (validator.py): no call, failed write, new year or
\* new container breaks the trail the registers are kept for.
AuditTrail == [][Audited]_vars

\* "Sequential Libro de Reclamaciones folio": the folios of each year run from 1 without a
\* gap or a repetition, across years; and the deadline given is the day after which exactly
\* the mandated working days have passed, itself a working day.
ClaimsInOrder ==
  /\ \A i \in DOMAIN claims.records :
       LET folio == claims.records[i] IN
       folio.seq = Cardinality({j \in 1..i : claims.records[j].year = folio.year})
  /\ answer.kind = "claim" =>
       LET due == answer.from + answer.deadline IN
       /\ Business(due)
       /\ Cardinality({d \in (answer.from + 1)..due : Business(d)}) = ResponseDays

\* The image stored under an operation number is of a registered voucher.
Registered(slot) ==
  \E i \in DOMAIN vouchers.records :
    LET r == vouchers.records[i] IN
    r.source = "typed" /\ r.key = images[slot] /\ r.credito \in CreditsOf[slot[1]]

\* "a comprobante's nº de operación seen once is flagged on any repeat" (validator.py): an
\* upload that stores another image under the number of a registered voucher registers
\* nothing.
NumberFlagged ==
  \A slot \in Dni \X Nro :
    images[slot] # None /\ Registered(slot) /\ images'[slot] \notin {images[slot], None}
      => Len(vouchers'.records) <= Len(vouchers.records)

RepeatedNumberFlagged == [][NumberFlagged]_vars

\* "if Evolution isn't configured, the service logs an honest dry-run (no fake success)":
\* a document is reported as delivered by WhatsApp only when it left.
NoFakeSuccess == answer.kind = "documento_whatsapp" /\ answer.delivered => answer.left

=============================================================================
