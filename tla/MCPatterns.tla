----------------------------- MODULE MCPatterns -----------------------------
(* The questions, over a warehouse of two orders, one of which may be      *)
(* anything the generator writes.                                          *)
EXTENDS MCGrading, Patterns

Products == <<[category |-> "shoes", price |-> 4], [category |-> "hats", price |-> 7]>>

Lines == {<<<<1, 1>>>>, <<<<1, 1>>, <<2, 1>>>>, <<<<1, 1>>, <<1, 2>>>>}

Order(customer, status, currency, month, deleted, lines, refunds) ==
    [customer |-> customer, status |-> status, currency |-> currency, month |-> month,
     deleted |-> deleted, lines |-> lines, refunds |-> refunds]

Orders ==
    {Order(c, s, cur, m, d, l, r) : c \in 1..2, s \in {"completed", "cancelled"},
        cur \in {"EUR", "JPY"}, m \in 1..2, d \in BOOLEAN, l \in Lines, r \in {<<>>, <<1>>, <<1, 2>>}}

Customers ==
    {<<[region |-> "north", internal |-> FALSE, deleted |-> FALSE],
       [region |-> "north", internal |-> f = "internal", deleted |-> f = "deleted"]>> :
        f \in {"internal", "deleted", "none"}}

Scope == [category |-> "shoes", region |-> "north", month |-> 1]

AskPattern ==
    /\ asked = Idle
    /\ \E customers \in Customers, first \in {<<<<1, 1>>, <<2, 1>>>>, <<<<2, 2>>>>}, o \in Orders :
           /\ o.status = "cancelled" => o.refunds = <<>>
           /\ Ask("pattern", [w |->
               [customers |-> customers, products |-> Products,
                orders |-> <<Order(1, "completed", "EUR", 1, FALSE, first, <<>>), o>>]])

-----------------------------------------------------------------------------
\* What the products and the orders of a warehouse are of.
Categories(w) == {w.products[p].category : p \in DOMAIN w.products}
Months(w) == {w.orders[o].month : o \in DOMAIN w.orders}

\* Pattern 8 takes its money from the lines: over the categories it adds up to what
\* pattern 4 takes from the orders over the months, whichever filters are ignored.
CategoriesAddUpToGross ==
    asked.topic = "pattern" =>
        \A ignored \in {{}, {"soft_delete"}, {"internal_accounts"}, {"multi_currency"}} :
            Total(LAMBDA c : CategoryRevenue(asked.w, c, ignored), Categories(asked.w))
                = Total(LAMBDA m : GrossRevenue(asked.w, m, ignored), Months(asked.w))

\* The refunds of the orders that count, row by row: <<order, refund>>.
RefundRows(w) == UNION {{o} \X DOMAIN w.orders[o].refunds : o \in Scoped(w, {})}

\* Pattern 5 aggregates refunds per order: gross and net differ by each refund of a
\* counted order, once, whether or not an order has several.
NetIsGrossLessEachRefund ==
    asked.topic = "pattern" =>
        Total(LAMBDA m : GrossRevenue(asked.w, m, {}) - NetRevenue(asked.w, m, {}), Months(asked.w))
            = Total(LAMBDA r : Factor(asked.w.orders[r[1]].currency, {})
                                   * asked.w.orders[r[1]].refunds[r[2]],
                    RefundRows(asked.w))

\* Nothing in the warehouse that a rule is about.
Untouched(w, rule) ==
    LET orders == ToSet(w.orders)
    IN  CASE rule = "soft_delete" ->
                ~(\E o \in orders : o.deleted) /\ ~(\E c \in ToSet(w.customers) : c.deleted)
          [] rule = "cancelled_orders" -> ~(\E o \in orders : o.status = "cancelled")
          [] rule = "internal_accounts" -> ~(\E c \in ToSet(w.customers) : c.internal)
          [] rule = "refunds_net" -> ~(\E o \in orders : o.refunds # <<>>)
          [] rule = "fan_out" -> ~(\E o \in orders : Len(o.lines) > 1)
          [] OTHER -> FALSE

\* gold/patterns.py, "gold SQL and every variant come from one expression, so they cannot
\* drift apart": a variant differs from gold only where its rule has something to bite on.
VariantsDropOnlyTheirRule ==
    asked.topic = "pattern" =>
        \A p \in DOMAIN RulesOf : \A rule \in VariantRules(p) :
            Untouched(asked.w, rule) => Variant(p, asked.w, Scope, rule) = Gold(p, asked.w, Scope)

\* An answer as rows of numbers apart; a quotient is exact for the divisors that occur here.
AsRows(p, answer) ==
    CASE p = "p06" -> [i \in DOMAIN answer |-> <<<<2, Apart(answer[i][1])>>, <<2, Apart(answer[i][2])>>>>]
      [] p \in {"p07", "p09", "p10"} /\ answer[2] = 0 -> <<<<Null>>>>
      [] p \in {"p07", "p09", "p10"} /\ answer[2] # 0 -> One((5040 * answer[1]) \div answer[2])
      [] OTHER -> One(answer)

\* Grading and the patterns together: an answer that drops one rule of a question is a
\* visible failure, or is laid to that rule among others, or is right because the item
\* recorded that the rule changes nothing there.
DroppedRulesAreNamed ==
    asked.topic = "pattern" =>
        \A p \in DOMAIN RulesOf \ {"p01"} :
            LET w == asked.w
                ordered == p = "p06"
                gold == AsRows(p, Gold(p, w, Scope))
                names == SetToSeq(VariantRules(p))
                naive == [i \in DOMAIN names |-> AsRows(p, Variant(p, w, Scope, names[i]))]
                item == Item(gold, naive, ordered)
            IN  Builds(gold, AsRows(p, Composite(p, w, Scope)), ordered) =>
                    \A i \in DOMAIN names :
                        LET judged == Judge([rows |-> naive[i], ended |-> "empty_result"], item)
                        IN  CASE judged.outcome = "correct" -> i \in UNION item.groups
                              [] judged.outcome = "silent_error" -> i \in judged.rules
                              [] OTHER -> naive[i] = <<>> \/ AllNull(naive[i]) \/ Len(naive[i]) # Len(gold)

\* The money of an order counts once, over all the ways the questions cut it.
MoneyIsCountedOnce == CategoriesAddUpToGross /\ NetIsGrossLessEachRefund

\* Dropping one rule changes what that rule governs, and grading finds out which.
DroppedRulesAreToldApart == VariantsDropOnlyTheirRule /\ DroppedRulesAreNamed

=============================================================================
