-------------------------- MODULE MCWebhookIngest --------------------------
(***************************************************************************)
(* A small shop for WebhookIngest: orders a and c carry the transaction,   *)
(* as when its draft order was created twice, b carries none.  a is        *)
(* refunded in two parts, and two of its items are returned.               *)
(***************************************************************************)
EXTENDS WebhookIngest

CONSTANTS o1, a, b, c, r1, r2, t1, t2

MCOrderOffer   == (a :> o1) @@ (b :> NoOffer) @@ (c :> o1)
MCRefundOrder  == (r1 :> a) @@ (r2 :> a)
MCRefundAmount == (r1 :> 1) @@ (r2 :> 2)
MCReturnOrder  == (t1 :> a) @@ (t2 :> a)

\* orders/create and orders/paid of a, a paid order c, one without a transaction, one from
\* another shop, and one whose attributes were edited by hand.
MCOrderMessages ==
  { [order |-> a, id |-> 1, local |-> TRUE],
    [order |-> a, id |-> 2, local |-> TRUE],
    [order |-> b, id |-> 3, local |-> TRUE],
    [order |-> c, id |-> 4, local |-> TRUE],
    [order |-> a, id |-> 5, local |-> FALSE],
    [order |-> a, id |-> 7, local |-> TRUE] }

\* r2 is delivered with conflicting currencies, in full, and with a negative adjustment.
MCRefundMessages ==
  { [refund |-> r1, id |-> 6, local |-> TRUE],
    [refund |-> r2, id |-> 8, local |-> TRUE],
    [refund |-> r2, id |-> 9, local |-> TRUE],
    [refund |-> r2, id |-> 12, local |-> TRUE] }

\* Requested and closed; and another return, requested, from a shop that is
\* not the store.
MCReturnMessages ==
  { [return |-> t1, id |-> 10, local |-> TRUE],
    [return |-> t1, id |-> 11, local |-> TRUE],
    [return |-> t2, id |-> 14, local |-> FALSE] }

Usd(n) == [amount |-> {n}, currency |-> {"USD"}]
Eur(n) == [amount |-> {n}, currency |-> {"EUR"}]
Sets(shop, presentment) == [shop_money |-> shop, presentment_money |-> presentment]
OrderBody(topic, status, note, custom, tags, total) ==
  [topic |-> topic, financial_status |-> {status}, note_attributes |-> note,
   customAttributes |-> custom, tags |-> tags, current_total_price |-> {total},
   presentment_currency |-> {"USD"}, currency |-> {"EUR"}]
Transaction(kind, status, money) ==
  [kind |-> kind, status |-> status, amount |-> money.amount, currency |-> money.currency]
RefundBody(transactions, items, others) ==
  [order_id |-> {"a"}, transactions |-> transactions, refund_line_items |-> items,
   other_lines |-> others]
ReturnBody(topic, status) == [topic |-> topic, status |-> {status}]

\* The transaction of an order is found in each of its lists; the amount of a refund in its
\* transactions, beside a failed one, or in its lines.
MCBody ==
  (1 :> OrderBody("orders/create", "pending", <<o1>>, <<>>, <<>>, 3))
  @@ (2 :> OrderBody("orders/paid", "paid", <<>>, <<o1>>, <<>>, 3))
  @@ (3 :> OrderBody("orders/paid", "paid", <<>>, <<>>, <<Malformed>>, 1))
  @@ (4 :> OrderBody("orders/create", "paid", <<>>, <<>>, <<Malformed, o1>>, 3))
  @@ (5 :> OrderBody("orders/paid", "paid", <<o1>>, <<>>, <<>>, 3))
  @@ (7 :> OrderBody("orders/paid", "paid", <<Malformed>>, <<>>, <<o1>>, 3))
  @@ (6 :> RefundBody(<<Transaction("refund", "failure", Usd(2)), Transaction("sale", "success", Usd(3)),
                        Transaction("refund", "success", Usd(1))>>, <<>>, <<>>))
  @@ (8 :> RefundBody(<<Transaction("refund", "success", Usd(1)), Transaction("refund", "success", Eur(1))>>,
                      <<>>, <<>>))
  @@ (9 :> RefundBody(<<>>, <<[subtotal_set |-> Sets({Usd(1)}, {Eur(2)}), total_tax_set |-> Sets({}, {})]>>,
                      <<[first_set |-> Sets({}, {}), second_set |-> Sets({}, {Usd(1)})]>>))
  @@ (12 :> RefundBody(<<>>, <<>>, <<[first_set |-> Sets({Usd(-1)}, {}), second_set |-> Sets({}, {})]>>))
  @@ (10 :> ReturnBody("returns/request", "requested"))
  @@ (11 :> ReturnBody("returns/close", "closed"))
  @@ (14 :> ReturnBody("returns/approve", "open"))

\* Fewer deliveries, for the temporal properties.
FewOrderMessages  == {m \in MCOrderMessages : m.id \in {1, 2, 4}}
FewRefundMessages == {m \in MCRefundMessages : m.id = 6}
FewReturnMessages == {m \in MCReturnMessages : m.id = 10}
=============================================================================
