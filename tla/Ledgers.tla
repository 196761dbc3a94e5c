------------------------------ MODULE Ledgers -------------------------------
(***************************************************************************)
(* What calls to the models cost (usage.py, pricing.py), and what prompt   *)
(* caching did to it (caching.py, sweep/chart_model.py); and the preflight *)
(* that spends the first of it (preflight.py).  A ledger is a sequence of  *)
(* calls; dollars are in hundredths of a millionth.                        *)
(***************************************************************************)
EXTENDS Integers, FiniteSets, SequencesExt, Functions

\* PRICES, of the models of the registry, by role.
Prices ==
    [worker |-> [input |-> 100, output |-> 500, write |-> 125, read |-> 10],
     frontier |-> [input |-> 300, output |-> 1500, write |-> 375, read |-> 30]]

\* from_response: a field the response does not have, or has as None, is zero.
FromResponse(model, response, outcome) ==
    LET value(f) == IF f \in DOMAIN response THEN response[f] ELSE 0
    IN  [model |-> model, outcome |-> outcome, input |-> value("input"),
         output |-> value("output"), write |-> value("write"), read |-> value("read")]

TotalTokens(call) == call.input + call.output + call.write + call.read

\* Mutant of CostUsd: writing to the cache is not charged for.
CostUsd_WritesFree(call) ==
    LET price == Prices[call.model]
    IN  price.input * call.input + price.output * call.output + price.read * call.read

CostUsd(call) ==
    LET price == Prices[call.model]
    IN  price.input * call.input + price.output * call.output
            + price.write * call.write + price.read * call.read

\* The cost of the calls at some places of a ledger, and their tokens.
CostAt(ledger, places) == SumFunction([i \in places |-> CostUsd(ledger[i])])
TokensAt(ledger, places) == SumFunction([i \in places |-> TotalTokens(ledger[i])])

LedgerCost(ledger) == CostAt(ledger, DOMAIN ledger)

Totals(ledger) ==
    LET over(f) == SumFunction([i \in DOMAIN ledger |-> ledger[i][f]])
    IN  [calls |-> Len(ledger), total |-> TokensAt(ledger, DOMAIN ledger), input |-> over("input"),
         output |-> over("output"), write |-> over("write"), read |-> over("read")]

ByOutcome(ledger) ==
    [o \in {ledger[i].outcome : i \in DOMAIN ledger} |->
        Cardinality({i \in DOMAIN ledger : ledger[i].outcome = o})]

ByModel(ledger) ==
    [m \in {ledger[i].model : i \in DOMAIN ledger} |->
        LET its == {i \in DOMAIN ledger : ledger[i].model = m}
        IN  [calls |-> Cardinality(its), total |-> TokensAt(ledger, its), cost |-> CostAt(ledger, its)]]

MergeLedgers(ledgers) == FlattenSeq(ledgers)

\* reconcile: what is reported that the calls do not add up to; none, or it raises.
Mismatches(ledger, reported) == {key \in DOMAIN reported : Totals(ledger)[key] # reported[key]}

-----------------------------------------------------------------------------
(* caching.py                                                              *)

\* results/gate0.json.
Measured ==
    [worker |-> [minimum |-> 4096, L0 |-> 286, L3 |-> 648],
     frontier |-> [minimum |-> 1024, L0 |-> 548, L3 |-> 1037]]

\* With nothing measured, nothing is claimed to be cacheable.
PrefixIsCacheable(role, level, measured) ==
    role \in DOMAIN measured /\ measured[role][level] >= measured[role].minimum

\* user_content: the parts of the first turn, of which the first may carry the marker.
UserContent(role, level, measured) ==
    IF PrefixIsCacheable(role, level, measured)
    THEN <<[marked |-> TRUE, text |-> <<"prompt">>], [marked |-> FALSE, text |-> <<"question">>]>>
    ELSE <<[marked |-> FALSE, text |-> <<"prompt", "question">>]>>

Cached(tokens) == tokens.read # 0 \/ tokens.write # 0

\* As a share <<reads, reads and writes>>; nothing cached has no rate, not a rate of zero.
HitRate(tokens) == IF Cached(tokens) THEN <<tokens.read, tokens.read + tokens.write>> ELSE <<>>

SavingUsd(tokens, role) ==
    IF Cached(tokens)
    THEN <<(tokens.read + tokens.write) * Prices[role].input
               - (tokens.read * Prices[role].read + tokens.write * Prices[role].write)>>
    ELSE <<>>

\* cache_note, over cells with their role and the totals of their ledger.
CacheNote(cells) ==
    LET applied == {c \in DOMAIN cells : Cached(cells[c].tokens)}
        over(f) == SumFunction([c \in applied |-> cells[c].tokens[f]])
    IN  IF applied = {} THEN [says |-> "did not apply"]
        ELSE [says |-> "applied", cells |-> Cardinality(applied), of |-> Len(cells),
              rate |-> HitRate([read |-> over("read"), write |-> over("write")]),
              saved |-> SumFunction([c \in applied |-> SavingUsd(cells[c].tokens, cells[c].role)[1]])]

-----------------------------------------------------------------------------
(* preflight.py.  A place is [key, configured, answers, surface]: whether   *)
(* there is a key, whether the settings name another warehouse than the     *)
(* default one, what each role's call gets (<<>> when refused), and whether *)
(* the verifier is sound.  A warehouse is [builds, gold].                   *)

Step(name, ok) == [name |-> name, ok |-> ok]

\* check_model, and the call it records.
CheckModel(role, response) == Step(role, response # <<>>)
Probed(role, response) == FromResponse(role, response, IF response = <<>> THEN "error" ELSE "ok")

\* check_warehouse_and_gold: no gold is built of a warehouse that is not there.
CheckWarehouseAndGold(warehouse) ==
    <<Step("warehouse", warehouse.builds), Step("gold", warehouse.builds /\ warehouse.gold)>>

\* run: without a key the models are not called, and the default warehouse is looked at.
Preflight(place, warehouses) ==
    [steps |-> <<Step("key", place.key)>>
               \o (IF place.key
                   THEN <<CheckModel("frontier", place.answers.frontier),
                          CheckModel("worker", place.answers.worker)>>
                   ELSE <<Step("models", FALSE)>>)
               \o CheckWarehouseAndGold(warehouses[place.key /\ place.configured])
               \o <<Step("surface", place.surface)>>,
     ledger |-> IF place.key THEN <<Probed("frontier", place.answers.frontier),
                                    Probed("worker", place.answers.worker)>> ELSE <<>>]

Passed(preflight) == \A i \in DOMAIN preflight.steps : preflight.steps[i].ok

=============================================================================
