----------------------------- MODULE MCVerifiers -----------------------------
(* Questions about the verifiers, and what must be true of the answers.    *)
EXTENDS Questions, Verifiers

AskComplaints ==
    /\ asked = Idle
    /\ \E p \in DOMAIN RulesOf : \E ignored \in SUBSET ToSet(RulesOf[p]) :
           Ask("complaints", [p |-> p, ignored |-> ignored])

\* Any query the checks can tell apart; one rule stands for the three filters.
AskVerdict ==
    /\ asked = Idle
    /\ \E rules \in SUBSET (RuleChecks \ {"cancelled_orders", "internal_accounts"}),
          tables \in {{"orders"}, {"orders", "order_items"}, {"orders", "refunds"}},
          columns \in {{}, {"deleted_at"}}, converts, money, ran, parses \in BOOLEAN :
           /\ ran => parses
           /\ Ask("verdict", [rules |-> rules,
                              q |-> [Query(tables, columns, converts, money, {})
                                        EXCEPT !.ran = ran, !.parses = parses]])

\* A verifier put together from a check of each rule: the real one, its regex, one that
\* never or always complains, and one that takes any join of the lines for a fan-out.
AskSurface ==
    /\ asked = Idle
    /\ \E ways \in [ProbedRules -> {"ast", "regex", "never", "always", "crude"}] :
           /\ \A r \in ProbedRules \ {"fan_out"} : ways[r] # "crude"
           /\ Cardinality({r \in ProbedRules : ways[r] = "ast"}) >= 3
           /\ Ask("surface", [ways |-> ways])

-----------------------------------------------------------------------------

\* verify_governed against gold/patterns.py: a query built without some of its question's
\* rules is refused with a complaint about each of them and about nothing else.  Counting
\* orders once per line (pattern 9) is the one fan-out the check does not see.
ComplaintsNameTheBrokenRules ==
    asked.topic = "complaints" =>
        LET rules == ToSet(RulesOf[asked.p])
            broken == IF asked.ignored \cap CurrencyRules = {} THEN asked.ignored
                      ELSE asked.ignored \cup CurrencyRules
        IN  VerifyGoverned(RuleChecks, RuleChecks, rules, QueryOf(asked.p, asked.ignored))
                = IF asked.p = "p09" THEN broken \ {"fan_out"} ELSE broken

\* governance.py, "same checks as V1": the two accept the same queries under every set of
\* rules, although V1 may name a currency rule the question does not list.
GovernedAcceptsTheSame ==
    asked.topic = "verdict" =>
        LET one == Verify(asked.rules, asked.q)
            two == VerifyGoverned(RuleChecks, RuleChecks, asked.rules, asked.q)
        IN  two = one \cap asked.rules /\ (two = {} <=> one = {})

\* What a verifier refuses of the probes, each asked with the rule it probes.
Refused(verifier(_, _)) == {rq \in RuleChecks \X ProbeQueries : verifier({rq[1]}, rq[2]) # {}}

\* verify/probes.py: a verifier that is sound on every probe is good enough for the gold
\* set.  It accepts every gold query and refuses every variant the real one refuses.
ProbesStandForTheGoldSet ==
    asked.topic = "surface" =>
        LET complains(r, rules, q) ==
                CASE asked.ways[r] = "ast" -> Complains(r, rules, q)
                  [] asked.ways[r] = "regex" -> r \in VerifyWithRegex(rules, q)
                  [] asked.ways[r] = "crude" -> Complains_JoinOnly(r, rules, q)
                  [] asked.ways[r] = "always" -> r \in rules
                  [] OTHER -> FALSE
            verifier(rules, q) == {r \in ProbedRules : complains(r, rules, q)}
        IN  Sound(Refused(verifier)) = ProbedRules =>
                \A p \in DOMAIN RulesOf : \A rule \in VariantRules(p) :
                    LET rules == ToSet(RulesOf[p])
                        variant == QueryOf(p, Ignoring(rule))
                    IN  /\ verifier(rules, QueryOf(p, {})) = {}
                        /\ (p # "p09" \/ rule # "fan_out") => verifier(rules, variant) # {}

\* The regex verifier misses the fan-out on both surfaces, and the surface of nearby
\* queries also shows it refusing a query that is right; the checks on the tree do neither.
SurfacesTellThemApart ==
    asked.topic = "complaints" /\ asked.ignored = {} =>
        LET governed(rules, q) == VerifyGoverned(RuleChecks, RuleChecks, rules, q)
        IN  /\ Sound(Refused(Verify)) = ProbedRules /\ GovernanceSound(Refused(governed)) = RuleChecks
            /\ ProbedRules \ Sound(Refused(VerifyWithRegex)) = {"fan_out"}
            /\ RuleChecks \ GovernanceSound(Refused(VerifyWithRegex)) = {"fan_out", "cancelled_orders"}

\* A verifier's complaints are about the rules that were broken, and passing the probes
\* says so of it.
ProbedVerifiersCanBeTrusted ==
    /\ ComplaintsNameTheBrokenRules /\ GovernedAcceptsTheSame
    /\ ProbesStandForTheGoldSet /\ SurfacesTellThemApart

=============================================================================
