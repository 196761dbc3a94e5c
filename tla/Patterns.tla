------------------------------ MODULE Patterns -------------------------------
(***************************************************************************)
(* The ten questions of the gold set (gold/patterns.py), as what their SQL *)
(* answers on a warehouse when some business rules are ignored.            *)
(*                                                                         *)
(* A warehouse has customers [region, internal, deleted], orders           *)
(* [customer, status, currency, month, deleted, lines, refunds], lines     *)
(* being pairs <<product, qty>> and refunds amounts, and products          *)
(* [category, price].  Money is an integer, a rate or a mean the pair of   *)
(* what is divided, and the sum of nothing is 0 (SQL's NULL; the gate of   *)
(* gold/build.py refuses both).                                            *)
(***************************************************************************)
EXTENDS Integers, FiniteSets, SequencesExt, Functions, Lists

CurrencyRules == {"multi_currency", "minor_units"}

Total(Op(_), S) == SumFunction([x \in S |-> Op(x)])

\* The generator writes an order's amount as the sum of its lines.
LineAmount(w, line) == line[2] * w.products[line[1]].price
Amount(w, o) ==
    Total(LAMBDA i : LineAmount(w, w.orders[o].lines[i]), DOMAIN w.orders[o].lines)

\* Mutant of Filtered: the flag of the customer goes with the one of the order.
Filtered_Together(w, ignored) ==
    {o \in DOMAIN w.orders :
        LET c == w.customers[w.orders[o].customer]
        IN  /\ "soft_delete" \in ignored \/ (~w.orders[o].deleted /\ ~c.deleted)
            /\ "cancelled_orders" \in ignored \/ w.orders[o].status # "cancelled"
            /\ ignored # {} \/ ~c.internal}

\* The three filter rules, each of which vanishes when it is ignored.
Filtered(w, ignored) ==
    {o \in DOMAIN w.orders :
        LET c == w.customers[w.orders[o].customer]
        IN  /\ "soft_delete" \in ignored \/ (~w.orders[o].deleted /\ ~c.deleted)
            /\ "cancelled_orders" \in ignored \/ w.orders[o].status # "cancelled"
            /\ "internal_accounts" \in ignored \/ ~c.internal}

Scoped(w, ignored) == {o \in Filtered(w, ignored) : w.orders[o].currency \in {"EUR", "JPY"}}

\* In cents of a hundredth of a dollar per minor unit.
Factor(currency, ignored) ==
    IF ignored \cap CurrencyRules # {} THEN 100
    ELSE CASE currency = "USD" -> 100 [] currency = "EUR" -> 108 [] currency = "JPY" -> 67

InMonth(w, orders, month) == {o \in orders : w.orders[o].month = month}

LinesIn(w, o, category) ==
    {i \in DOMAIN w.orders[o].lines : w.products[w.orders[o].lines[i][1]].category = category}

-----------------------------------------------------------------------------

ProductCount(w, category, ignored) ==
    Cardinality({p \in DOMAIN w.products : w.products[p].category = category})

OrdersInMonth(w, month, ignored) == Cardinality(InMonth(w, Filtered(w, ignored), month))

CustomersInRegion(w, region, ignored) ==
    Cardinality({c \in DOMAIN w.customers :
        /\ w.customers[c].region = region
        /\ "soft_delete" \in ignored \/ ~w.customers[c].deleted
        /\ "internal_accounts" \in ignored \/ ~w.customers[c].internal})

GrossRevenue(w, month, ignored) ==
    Total(LAMBDA o : Amount(w, o) * Factor(w.orders[o].currency, ignored),
          InMonth(w, Scoped(w, ignored), month))

\* Refunds are aggregated per order before they are joined.
Refunded(w, o) == Total(LAMBDA i : w.orders[o].refunds[i], DOMAIN w.orders[o].refunds)

NetRevenue(w, month, ignored) ==
    Total(LAMBDA o : Factor(w.orders[o].currency, ignored)
              * (Amount(w, o) - IF "refunds_net" \in ignored THEN 0 ELSE Refunded(w, o)),
          InMonth(w, Scoped(w, ignored), month))

\* The five products of most units in some orders, ties broken by product.
MostSold(w, category, orders) ==
    LET units(p) == Total(LAMBDA o : Total(LAMBDA i : w.orders[o].lines[i][2],
                              {i \in LinesIn(w, o, category) : w.orders[o].lines[i][1] = p}),
                          orders)
        sold == {p \in DOMAIN w.products : units(p) > 0}
        earlier == {e \in sold \X sold :
                       units(e[1]) > units(e[2]) \/ (units(e[1]) = units(e[2]) /\ e[1] < e[2])}
        ranked == Listed(sold, earlier)
    IN  [i \in 1..Min({Len(ranked), 5}) |-> <<ranked[i], units(ranked[i])>>]

TopProducts(w, category, ignored) == MostSold(w, category, Filtered(w, ignored))

\* Joining the lines weights an order by their number.
OrderValue(w, region, ignored) ==
    LET orders == {o \in Scoped(w, ignored) : w.customers[w.orders[o].customer].region = region}
        weight(o) == IF "fan_out" \in ignored THEN Len(w.orders[o].lines) ELSE 1
    IN  <<Total(LAMBDA o : weight(o) * Amount(w, o) * Factor(w.orders[o].currency, ignored), orders),
          Total(weight, orders)>>

\* Mutant of CategoryRevenue: the money is taken from the order.
CategoryRevenue_OrderGrain(w, category, ignored) ==
    Total(LAMBDA o : Factor(w.orders[o].currency, ignored)
              * Total(LAMBDA i : Amount(w, o), LinesIn(w, o, category)),
          Scoped(w, ignored))

\* A category's money comes from the lines.
CategoryRevenue(w, category, ignored) ==
    Total(LAMBDA o : Factor(w.orders[o].currency, ignored)
              * Total(LAMBDA i : IF "fan_out" \in ignored THEN Amount(w, o)
                                 ELSE LineAmount(w, w.orders[o].lines[i]),
                      LinesIn(w, o, category)),
          Scoped(w, ignored))

\* An order with several lines of the category is one order, unless fan_out is ignored.
RefundRate(w, category, ignored) ==
    LET orders == {o \in Filtered(w, ignored) : LinesIn(w, o, category) # {}}
        weight(o) == IF "fan_out" \in ignored THEN Cardinality(LinesIn(w, o, category)) ELSE 1
    IN  <<Total(weight, {o \in orders : w.orders[o].refunds # <<>>}), Total(weight, orders)>>

RepeatRate(w, month, ignored) ==
    LET placed(c) == {o \in InMonth(w, Filtered(w, ignored), month) : w.orders[o].customer = c}
        active == {c \in DOMAIN w.customers : placed(c) # {}}
    IN  <<Cardinality({c \in active : Cardinality(placed(c)) > 1}), Cardinality(active)>>

-----------------------------------------------------------------------------
(* The rules each pattern lists, in order, and its variants.               *)

FilterRules == <<"soft_delete", "cancelled_orders", "internal_accounts">>
MoneyRules == FilterRules \o <<"multi_currency", "minor_units">>

RulesOf ==
    [p01 |-> <<>>, p02 |-> <<"soft_delete">>, p03 |-> <<"soft_delete", "internal_accounts">>,
     p04 |-> MoneyRules, p05 |-> Append(MoneyRules, "refunds_net"), p06 |-> FilterRules,
     p07 |-> Append(MoneyRules, "fan_out"), p08 |-> Append(MoneyRules, "fan_out"),
     p09 |-> Append(FilterRules, "fan_out"), p10 |-> FilterRules]

Answer(p, w, scope, ignored) ==
    CASE p = "p01" -> ProductCount(w, scope.category, ignored)
      [] p = "p02" -> OrdersInMonth(w, scope.month, ignored)
      [] p = "p03" -> CustomersInRegion(w, scope.region, ignored)
      [] p = "p04" -> GrossRevenue(w, scope.month, ignored)
      [] p = "p05" -> NetRevenue(w, scope.month, ignored)
      [] p = "p06" -> TopProducts(w, scope.category, ignored)
      [] p = "p07" -> OrderValue(w, scope.region, ignored)
      [] p = "p08" -> CategoryRevenue(w, scope.category, ignored)
      [] p = "p09" -> RefundRate(w, scope.category, ignored)
      [] p = "p10" -> RepeatRate(w, scope.month, ignored)

Gold(p, w, scope) == Answer(p, w, scope, {})
Composite(p, w, scope) == Answer(p, w, scope, ToSet(RulesOf[p]))

\* One variant per rule, and one for both currency rules under the first one's name.
VariantRules(p) == ToSet(RulesOf[p]) \ {"minor_units"}
Ignoring(rule) == IF rule \in CurrencyRules THEN CurrencyRules ELSE {rule}
Variant(p, w, scope, rule) == Answer(p, w, scope, Ignoring(rule))

=============================================================================
