--------------------------- MODULE MCMaturityJob ---------------------------
(***************************************************************************)
(* The shop of MCWebhookIngest, with the maturity job running beside the   *)
(* server, and the deliveries that matter to it.                           *)
(***************************************************************************)
EXTENDS MaturityJob, MCWebhookIngest

\* One orders/paid; both parts of the refund.
JobOrderMessages == {m \in MCOrderMessages : m.id = 2}
JobRefundMessages == {m \in MCRefundMessages : m.id \in {6, 9}}
OneRefundMessage == {m \in JobRefundMessages : m.id = 6}
NoMessages == {}

\* A return requested and closed.
JobReturnMessages == {m \in MCReturnMessages : m.id \in {10, 11}}
=============================================================================
