---------------------------- MODULE PaymentData ----------------------------
(***************************************************************************)
(* What happens to the data of a payment on its way through four layers    *)
(* that each check it by rules of their own: the request schema, the value *)
(* objects, the columns and constraints of the table, and the value        *)
(* objects again whenever the row is loaded.  Requests are handled one at  *)
(* a time here; CreatePayment is about their interleavings.                *)
(*                                                                         *)
(* A decimal is a record of its coefficient and exponent, so that 10.0 and *)
(* 10.00 differ as they do in Python.  A key is told apart by its length,  *)
(* 0 being blank.  A description is short, longer than the schema allows,  *)
(* or holds U+0000, which no PostgreSQL text can.  Metadata are any JSON   *)
(* object: an ordinary one ("note"), one with a null ("null"), the same    *)
(* with an infinite number in its place ("infinite": NaN, 1e999), one with *)
(* U+0000 ("nul") or with half a surrogate pair ("surrogate") in a string. *)
(***************************************************************************)
EXTENDS Integers

CONSTANTS
  Request,    \* [key, amount, currency, description, metadata,
              \*  url: [scheme, host, path]]
  MaxDigits,  \* digits of an amount, 18 in the code
  Places,     \* of them after the point, 2 in the code
  Precision,  \* digits a decimal operation keeps, 28 in Python
  MaxKey,     \* IDEMPOTENCY_KEY_MAX_LENGTH, 255 in the code
  NULL

ASSUME DataAssumption ==
  /\ MaxDigits \in Nat /\ Places \in Nat /\ Precision \in Nat /\ MaxKey \in Nat
  /\ Places < MaxDigits /\ MaxDigits <= Precision
  /\ \A r \in Request :
       r.key \in 0 .. MaxKey + 1 /\ r.amount.c \in Int /\ r.amount.e \in Int
  /\ NULL # "now"

VARIABLES
  rows,    \* the payments table, by idempotency key
  origin,  \* history: the request each row was created from
  last,    \* the last request answered, and the code of the answer
  broken   \* history: the consumer's update has been refused by the table

vars == <<rows, origin, last, broken>>

Currency == {"RUB", "USD", "EUR"}
Status == {"pending", "succeeded", "failed"}
Key == 0 .. MaxKey + 1

Init ==
  /\ rows = [k \in Key |-> NULL]
  /\ origin = [k \in Key |-> NULL]
  /\ last = [request |-> NULL, code |-> 0]
  /\ broken = FALSE

-----------------------------------------------------------------------------
(* Decimals.                                                               *)

Greater(a, b) == IF a > b THEN a ELSE b

\* Powers of ten.
Ten[n \in Nat] == IF n = 0 THEN 1 ELSE 10 * Ten[n - 1]

\* Digits of a coefficient, and the zeros it ends with.
Length[c \in Nat] == IF c < 10 THEN 1 ELSE 1 + Length[c \div 10]
Zeros[c \in Nat] == IF c = 0 \/ c % 10 # 0 THEN 0 ELSE 1 + Zeros[c \div 10]

Stripped(d) ==
  IF d.c = 0 THEN [c |-> 0, e |-> 0]
  ELSE [c |-> d.c \div Ten[Zeros[d.c]], e |-> d.e + Zeros[d.c]]

\* Decimal.normalize rounds to the precision of the context, half to even.
Normalized(d) ==
  LET n == Greater(0, Length[d.c] - Precision)
      q == d.c \div Ten[n]
      r == 2 * (d.c % Ten[n])
      up == r > Ten[n] \/ (r = Ten[n] /\ q % 2 = 1)
  IN Stripped([c |-> IF n > 0 /\ up THEN q + 1 ELSE q, e |-> d.e + n])

Decimals(d) == Greater(0, -d.e)
Digits(d) == IF d.e >= 0 THEN Length[d.c] + d.e ELSE Greater(Length[d.c], Decimals(d))

\* max_digits and decimal_places: a limit is exceeded only if the number as
\* written and the normalized number both exceed it.
FitsDigits(d) ==
  LET Fits(Measure(_), limit) == Measure(d) <= limit \/ Measure(Normalized(d)) <= limit
      Whole(x) == Digits(x) - Decimals(x)
  IN /\ Fits(Digits, MaxDigits)
     /\ Fits(Decimals, Places)
     /\ Fits(Whole, MaxDigits - Places)

-----------------------------------------------------------------------------
(* The layers.                                                             *)

\* HttpUrl writes an empty path as a slash.
Canonical(url) ==
  [scheme |-> url.scheme, host |-> url.host, path |-> IF url.path = "" THEN "/" ELSE url.path]

Http(url) == url.scheme \in {"http", "https"} /\ url.host # ""

\* CreatePaymentRequest, and the header's max_length.  The metadata may hold
\* anything.
SchemaAccepts(r) ==
  /\ r.amount.c > 0 /\ FitsDigits(r.amount)
  /\ r.currency \in Currency
  /\ r.description # "long"
  /\ Http(r.url)
  /\ r.key <= MaxKey

Accepted == {r \in Request : SchemaAccepts(r)}

\* model_dump in JSON mode writes null for a number that JSON does not have.
Dumped(metadata) == IF metadata = "infinite" THEN "null" ELSE metadata

\* Half a surrogate pair cannot be encoded: request_hash raises.
Hashable(r) == r.metadata # "surrogate"
Hashed == {r \in Accepted : Hashable(r)}

\* (mutant) The hash leaves out the amount.
HashWithoutAmount(r) ==
  [currency |-> r.currency, description |-> r.description,
   metadata |-> Dumped(r.metadata), url |-> Canonical(r.url)]

\* (mutant) The hash is taken of the request as it was sent.
HashAsSent(r) == r

\* request_hash: of the body as the schema understands it.  The amount is
\* hashed as text, which keeps its digits and its exponent.
Hash(r) ==
  [amount |-> r.amount, currency |-> r.currency, description |-> r.description,
   metadata |-> Dumped(r.metadata), url |-> Canonical(r.url)]

\* (mutant) Amount does not limit the decimal places.
AmountOfAnyPrecision(d) == d.c >= 0

\* The value objects.
Amount(d) == d.c >= 0 /\ -d.e <= Places
IdempotencyKey(k) == k > 0 /\ k <= MaxKey
WebhookUrl(url) == Http(url)

\* (mutant) The column keeps a decimal place more than Amount accepts.
NumericThreePlaces(d) == [c |-> d.c * Ten[d.e + Places + 1], e |-> -(Places + 1)]

\* NUMERIC(18, 2) rounds to its scale, half away from zero.
Numeric(d) ==
  LET n == d.e + Places
      unit == Ten[Greater(0, -n)]
  IN [c |-> IF n >= 0 THEN d.c * Ten[n] ELSE (d.c + unit \div 2) \div unit, e |-> -Places]

\* payment_to_model of Payment.create, as the columns store it.
NewRow(r) ==
  [key |-> r.key, amount |-> Numeric(r.amount), currency |-> r.currency,
   description |-> r.description, metadata |-> r.metadata,
   url |-> Canonical(r.url), hash |-> Hash(r),
   status |-> "pending", processed_at |-> NULL]

\* A JSONB column takes only numbers and characters that PostgreSQL has.
Jsonb(metadata) == metadata \notin {"infinite", "nul", "surrogate"}

\* Types and CHECK constraints of the table.
TableAccepts(row) ==
  /\ row.amount.c >= 0 /\ row.amount.c < Ten[MaxDigits]
  /\ row.currency \in Currency /\ row.status \in Status
  /\ row.description # "nul" /\ Jsonb(row.metadata)
  /\ row.key <= MaxKey
  /\ (row.status = "pending") = (row.processed_at = NULL)

\* payment_from_model raises for what a value object refuses.
Loadable(row) == Amount(row.amount) /\ IdempotencyKey(row.key) /\ WebhookUrl(row.url)

\* GET and the webhook show what the row holds, but for the hash.
Shown(row) == [column \in DOMAIN row \ {"hash"} |-> row[column]]

-----------------------------------------------------------------------------
(* Requests and decisions.                                                 *)

Answer(r, code) == last' = [request |-> r, code |-> code] /\ UNCHANGED broken

Refuse(r) ==
  /\ \/ r \notin Accepted
     \/ r \in Hashed /\ rows[r.key] # NULL /\ ~Loadable(rows[r.key])
     \/ /\ r \in Hashed /\ rows[r.key] = NULL
        /\ ~(Amount(r.amount) /\ IdempotencyKey(r.key) /\ WebhookUrl(r.url))
  /\ Answer(r, 422)
  /\ UNCHANGED <<rows, origin>>

\* The hash is taken before anything is looked up; its error becomes a 500.
HashFails(r) ==
  /\ r \in Accepted \ Hashed
  /\ Answer(r, 500)
  /\ UNCHANGED <<rows, origin>>

Replay(r) ==
  /\ r \in Hashed
  /\ rows[r.key] # NULL /\ Loadable(rows[r.key])
  /\ Answer(r, IF rows[r.key].hash = Hash(r) THEN 202 ELSE 409)
  /\ UNCHANGED <<rows, origin>>

\* The unit of work translates the error of the unique index only: any other
\* error of the database becomes a 500.
Create(r) ==
  /\ r \in Hashed
  /\ rows[r.key] = NULL
  /\ Amount(r.amount) /\ IdempotencyKey(r.key) /\ WebhookUrl(r.url)
  /\ IF TableAccepts(NewRow(r))
     THEN /\ rows' = [rows EXCEPT ![r.key] = NewRow(r)]
          /\ origin' = [origin EXCEPT ![r.key] = r]
          /\ Answer(r, 202)
     ELSE Answer(r, 500) /\ UNCHANGED <<rows, origin>>

\* _transition_to
Transition(row, status) == [row EXCEPT !.status = status, !.processed_at = "now"]

\* The consumer loads a pending payment and stores the outcome.
Decide(k, status) ==
  /\ rows[k] # NULL /\ Loadable(rows[k])
  /\ rows[k].status = "pending" /\ status # "pending"
  /\ IF TableAccepts(Transition(rows[k], status))
     THEN rows' = [rows EXCEPT ![k] = Transition(@, status)] /\ UNCHANGED broken
     ELSE broken' = TRUE /\ UNCHANGED rows
  /\ UNCHANGED <<origin, last>>

Next ==
  \/ \E r \in Request : Refuse(r) \/ HashFails(r) \/ Replay(r) \/ Create(r)
  \/ \E k \in Key, status \in Status : Decide(k, status)

Spec == Init /\ [][Next]_vars

-----------------------------------------------------------------------------
Stored == {k \in Key : rows[k] # NULL}

\* Every variable has its type; a stored amount has the column's scale.
TypeOK ==
  /\ \A k \in Stored : /\ rows[k].amount \in [c : 0 .. Ten[MaxDigits] - 1, e : {-Places}]
                       /\ TableAccepts(rows[k])
                       /\ origin[k] \in Request
  /\ last.code \in {0, 202, 409, 422, 500}
  /\ broken \in BOOLEAN

\* What neither a text nor a JSONB column can hold, and the hash cannot encode.
Unstorable(r) == r.description = "nul" \/ ~Jsonb(r.metadata)

\* What schema and value objects let through, the table takes: a request is
\* answered with a database error, or one of its hash, only for a text or
\* metadata that cannot be stored at all, and no decision of the consumer is
\* refused by a constraint.  Amounts that only round to something the schema
\* accepts are the hard case.
OnlyUnstorableFails ==
  /\ last.code = 500 => Unstorable(last.request)
  /\ ~broken

\* What the table has taken can be loaded again, by a lookup, by a repeated
\* request and by the consumer, and GET shows it with two decimal places.
RowsLoadable == \A k \in Stored : Loadable(rows[k]) /\ Decimals(Shown(rows[k]).amount) = Places

\* The amount that is stored, charged and shown is the amount requested: no
\* layer rounds it.
AmountKept == \A k \in Stored : Stripped(Shown(rows[k]).amount) = Stripped(origin[k].amount)

\* A repeated key is answered 202 only if the stored payment is the one this
\* request asks for, down to its amount, its metadata and its URL...
ReplayMeansSameOrder ==
  last.code = 202 =>
    LET row == rows[last.request.key]
    IN /\ Stripped(row.amount) = Stripped(last.request.amount)
       /\ row.currency = last.request.currency
       /\ row.description = last.request.description
       /\ row.metadata = Dumped(last.request.metadata)
       /\ row.url = Canonical(last.request.url)

\* The same order, but for the spelling of its URL.
SameBody(r, s) ==
  /\ r.amount = s.amount /\ r.currency = s.currency /\ r.description = s.description
  /\ r.metadata = s.metadata /\ Canonical(r.url) = Canonical(s.url)

\* ... and a client that repeats the request a payment was created from, with
\* its URL written either way, is always answered 202, whatever has become of
\* the payment since: no layer that let the first one through refuses it, and
\* a conflict or an error means another order.
RepeatIsAnswered ==
  LET k == last.request.key IN
  last.code # 0 => (rows[k] # NULL /\ SameBody(last.request, origin[k]) => last.code = 202)
=============================================================================
