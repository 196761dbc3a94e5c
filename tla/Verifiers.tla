------------------------------ MODULE Verifiers ------------------------------
(***************************************************************************)
(* The rule checks of Level 2 (verify/verifiers.py), the governed form of  *)
(* them (verify/governance.py), their regex imitation                      *)
(* (verify/regex_verifiers.py), and the probes that test a verifier        *)
(* (verify/probes.py).                                                     *)
(*                                                                         *)
(* A query is what the checks can see of it: its tables, the columns under *)
(* a predicate anywhere in the tree, whether a CASE reads the currency,    *)
(* whether orders.amount_minor is summed or averaged, and which of the     *)
(* regexes its text matches (words, by the rule they stand for).           *)
(***************************************************************************)
EXTENDS Patterns

CONSTANT Raises        \* what the governed verifier returns when its gate fails

RuleChecks == {"soft_delete", "cancelled_orders", "internal_accounts",
               "multi_currency", "minor_units", "fan_out", "refunds_net"}

Constrains == [soft_delete |-> "deleted_at", cancelled_orders |-> "status",
               internal_accounts |-> "is_internal"]

\* Mutant of Complains: the fan-out check does not look at what is aggregated.
Complains_JoinOnly(rule, rules, q) ==
    CASE rule \in DOMAIN Constrains -> rule \in rules /\ Constrains[rule] \notin q.columns
      [] rule \in CurrencyRules -> rules \cap CurrencyRules # {} /\ ~q.converts
      [] rule = "fan_out" -> rule \in rules /\ {"order_items", "orders"} \subseteq q.tables
      [] rule = "refunds_net" -> rule \in rules /\ "refunds" \notin q.tables

\* check_*: the complaint of one rule's check, given the rules of the question.
Complains(rule, rules, q) ==
    CASE rule \in DOMAIN Constrains -> rule \in rules /\ Constrains[rule] \notin q.columns
      [] rule \in CurrencyRules -> rules \cap CurrencyRules # {} /\ ~q.converts
      [] rule = "fan_out" ->
            rule \in rules /\ {"order_items", "orders"} \subseteq q.tables /\ q.orderMoney
      [] rule = "refunds_net" -> rule \in rules /\ "refunds" \notin q.tables

Readable(q) == q.ran /\ q.parses

\* V1: every check is asked, and decides for itself whether it applies.
Verify(rules, q) == {r \in RuleChecks : Readable(q) /\ Complains(r, rules, q)}

\* Mutant of VerifyGoverned: minor_units is taken to be covered by multi_currency.
VerifyGoverned_Folded(declared, probed, rules, q) ==
    IF ~(declared \subseteq RuleChecks) \/ ~(declared \subseteq probed) THEN Raises
    ELSE {r \in (declared \cap rules) \ {"minor_units"} : Readable(q) /\ Complains(r, rules, q)}

\* V2: the rules the semantic model declares, all of which must have a check and probes.
VerifyGoverned(declared, probed, rules, q) ==
    IF ~(declared \subseteq RuleChecks) \/ ~(declared \subseteq probed) THEN Raises
    ELSE {r \in declared \cap rules : Readable(q) /\ Complains(r, rules, q)}

\* The regex verifier has one pattern for both currency rules, and finds no fan-out.
VerifyWithRegex(rules, q) ==
    LET applicable == {r \in RuleChecks \ {"minor_units"} :
            r \in rules \/ (r = "multi_currency" /\ "minor_units" \in rules)}
    IN  {r \in applicable \ {"fan_out"} : q.ran /\ r \notin q.words}

-----------------------------------------------------------------------------
(* What the checks see of the SQL of the patterns.                         *)

Query(tables, columns, converts, orderMoney, words) ==
    [ran |-> TRUE, parses |-> TRUE, tables |-> tables, columns |-> columns,
     converts |-> converts, orderMoney |-> orderMoney, words |-> words]

Tables(p, ignored) ==
    CASE p = "p01" -> {"products"}
      [] p = "p03" -> {"customers"}
      [] p \in {"p02", "p04", "p10"} -> {"orders", "customers"}
      [] p = "p05" -> {"orders", "customers"} \cup IF "refunds_net" \in ignored THEN {} ELSE {"refunds"}
      [] p = "p07" -> {"orders", "customers"} \cup IF "fan_out" \in ignored THEN {"order_items"} ELSE {}
      [] p = "p09" -> {"order_items", "orders", "customers", "products", "refunds"}
      [] OTHER -> {"order_items", "orders", "customers", "products"}

QueryOf(p, ignored) ==
    LET tables == Tables(p, ignored)
        filters == IF p = "p01" THEN {}
                   ELSE (IF p = "p03" THEN DOMAIN Constrains \ {"cancelled_orders"}
                         ELSE DOMAIN Constrains) \ ignored
        money == p \in {"p04", "p05", "p07", "p08"}
        converts == money /\ ignored \cap CurrencyRules = {}
    IN  Query(tables, {Constrains[r] : r \in filters}, converts,
              money /\ (p = "p08" => "fan_out" \in ignored),
              filters \cup (IF converts THEN {"multi_currency"} ELSE {})
                      \cup (IF "refunds" \in tables THEN {"refunds_net"} ELSE {}))

-----------------------------------------------------------------------------
(* verify/probes.py: by rule, a query that honours it and one that breaks it. *)

Filtering(tables, ignored, converts, orderMoney) ==
    LET filters == DOMAIN Constrains \ ignored
    IN  Query(tables, {Constrains[r] : r \in filters}, converts, orderMoney,
              filters \cup IF converts THEN {"multi_currency"} ELSE {})

Joined == {"orders", "customers"}
ByLine(orderMoney) ==
    Filtering(Joined \cup {"order_items"}, {"cancelled_orders", "internal_accounts"}, TRUE, orderMoney)
Bare(tables, words) == Query(tables, {}, FALSE, TRUE, words)

\* Mutant of Probe: the query that honours fan_out does not join the lines at all.
Probe_Easy(rule) ==
    CASE rule \in DOMAIN Constrains ->
            [honours |-> Filtering(Joined, {}, FALSE, FALSE),
             breaks |-> Filtering(Joined, {rule}, FALSE, FALSE)]
      [] rule = "multi_currency" ->
            [honours |-> Filtering(Joined, {}, TRUE, TRUE), breaks |-> Filtering(Joined, {}, FALSE, TRUE)]
      [] rule = "fan_out" ->
            [honours |-> Filtering(Joined, {}, TRUE, TRUE), breaks |-> ByLine(TRUE)]
      [] rule = "refunds_net" ->
            [honours |-> Bare({"orders", "refunds"}, {"refunds_net"}), breaks |-> Bare({"orders"}, {})]

Probe(rule) ==
    CASE rule \in DOMAIN Constrains ->
            [honours |-> Filtering(Joined, {}, FALSE, FALSE),
             breaks |-> Filtering(Joined, {rule}, FALSE, FALSE)]
      [] rule = "multi_currency" ->
            [honours |-> Filtering(Joined, {}, TRUE, TRUE), breaks |-> Filtering(Joined, {}, FALSE, TRUE)]
      [] rule = "fan_out" -> [honours |-> ByLine(FALSE), breaks |-> ByLine(TRUE)]
      [] rule = "refunds_net" ->
            [honours |-> Bare({"orders", "refunds"}, {"refunds_net"}), breaks |-> Bare({"orders"}, {})]

ProbedRules == RuleChecks \ {"minor_units"}

\* run_probes: the rules on which a verifier is sound, by the rules and queries it refuses.
Sound(refused) ==
    {r \in ProbedRules : <<r, Probe(r).breaks>> \in refused /\ <<r, Probe(r).honours>> \notin refused}

\* run_governance_probes, on queries that honour a rule in an unusual shape.
Nearby(rule) ==
    CASE rule = "cancelled_orders" ->
            Query(Joined, {"deleted_at", "status", "is_internal"}, FALSE, FALSE,
                  {"soft_delete", "internal_accounts"})
      [] rule \in {"soft_delete", "internal_accounts"} -> Filtering(Joined, {}, FALSE, FALSE)
      [] rule \in CurrencyRules -> Filtering(Joined, {}, TRUE, rule = "minor_units")
      [] OTHER -> Probe(rule).honours

GovernanceViolation(rule) ==
    CASE rule = "soft_delete" ->
            Query(Joined, {"status"}, FALSE, FALSE, {"cancelled_orders"})
      [] rule = "minor_units" -> Probe("multi_currency").breaks
      [] OTHER -> Probe(rule).breaks

GovernanceSound(refused) ==
    {r \in RuleChecks : <<r, GovernanceViolation(r)>> \in refused /\ <<r, Nearby(r)>> \notin refused}

ProbeQueries ==
    (UNION {{Probe(r).breaks, Probe(r).honours} : r \in ProbedRules})
    \cup (UNION {{GovernanceViolation(r), Nearby(r)} : r \in RuleChecks})

=============================================================================
