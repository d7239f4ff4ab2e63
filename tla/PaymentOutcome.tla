-------------------------- MODULE PaymentOutcome --------------------------
(***************************************************************************)
(* What the service promises about a payment, free of brokers, handlers    *)
(* and retries: it is accepted once, decided once, and every notification  *)
(* tells the client the decision that was stored.                          *)
(***************************************************************************)
EXTENDS Naturals

CONSTANTS Payment,  \* payments the service may be asked to process
          NULL      \* "no such row"

VARIABLES rows,     \* the payments table: the stored entity, or NULL
          webhooks  \* notifications the clients have received

PaymentStatus == {"pending", "succeeded", "failed"}
FinalStatus == PaymentStatus \ {"pending"}

\* The fields of a payment that change; processed_at = 0 is SQL NULL.
Row == [status : PaymentStatus, processed_at : Nat]
NewPayment == [status |-> "pending", processed_at |-> 0]

Exists(p) == rows[p] # NULL
IsFinal(p) == Exists(p) /\ rows[p].status \in FinalStatus

\* What a decision stores: a final status and the moment it was reached.
IsDecision(row) ==
  row \in Row /\ row.status \in FinalStatus /\ row.processed_at # 0

\* The part of the webhook body that depends on the processing.
WebhookPayload(p, view) ==
  [payment |-> p, status |-> view.status, processed_at |-> view.processed_at]

-----------------------------------------------------------------------------
Init ==
  /\ rows = [p \in Payment |-> NULL]
  /\ webhooks = {}

Accept(p) ==
  /\ ~Exists(p)
  /\ rows' = [rows EXCEPT ![p] = NewPayment]
  /\ UNCHANGED webhooks

Decide(p) ==
  /\ Exists(p) /\ ~IsFinal(p)
  /\ IsDecision(rows'[p])
  /\ rows' = [rows EXCEPT ![p] = rows'[p]]
  /\ UNCHANGED webhooks

Notify(p) ==
  /\ IsFinal(p)
  /\ webhooks' = webhooks \cup {WebhookPayload(p, rows[p])}
  /\ UNCHANGED rows

Next == \E p \in Payment : Accept(p) \/ Decide(p) \/ Notify(p)

Spec == Init /\ [][Next]_<<rows, webhooks>>
=============================================================================
