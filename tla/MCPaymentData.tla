--------------------------- MODULE MCPaymentData ---------------------------
(* Requests at the limits of a schema of four digits, two after the point. *)
EXTENDS PaymentData

Amounts ==
  [c : {-1, 0, 1, 10, 99, 100, 9999, 10000, 99996, 100001, 999996, 1000000}, e : -4 .. 2]

Url(scheme, path) == [scheme |-> scheme, host |-> "h", path |-> path]

Usual == [key |-> 1, amount |-> [c |-> 10, e |-> 0], currency |-> "RUB",
          description |-> "short", metadata |-> "note", url |-> Url("http", "")]

\* The amounts; metadata with URLs; keys with currencies and descriptions.  Of
\* each field there are values that every layer takes, two of which differ, and
\* values that some layer refuses.
Requests ==
  {[Usual EXCEPT !.amount = a] : a \in Amounts} \cup
  {[Usual EXCEPT !.metadata = m, !.url = u] :
     m \in {"note", "null", "infinite", "nul", "surrogate"},
     u \in {Url("http", ""), Url("http", "/"), Url("https", "/"), Url("ftp", "/")}} \cup
  {[Usual EXCEPT !.key = k, !.currency = c, !.description = d] :
     k \in 0 .. 2, c \in {"RUB", "USD", "JPY"}, d \in {"short", "long", "nul"}}
=============================================================================
