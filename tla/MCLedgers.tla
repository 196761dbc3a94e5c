----------------------------- MODULE MCLedgers ------------------------------
(* Questions about ledgers and caching, and what must be true of them.     *)
EXTENDS Questions, Ledgers

\* What the API may say of a call: with a marked prefix, that it was written, read or
\* neither; without one, nothing of it; nothing at all of a call that failed.
ResponsesTo(content) ==
    LET plain == [input |-> 40, output |-> 7]
        prefix == 1037
    IN  {<<>>, plain}
        \cup (IF content[1].marked
              THEN {[input |-> 40, output |-> 7, write |-> prefix, read |-> 0],
                    [input |-> 40, output |-> 7, write |-> 0, read |-> prefix]}
              ELSE {})

CallsOf(role, level, measured) ==
    {FromResponse(role, r, IF r = <<>> THEN "error" ELSE "ok") :
        r \in ResponsesTo(UserContent(role, level, measured))}

\* Two cells, of up to two calls each, with the probe on disk or without.
AskLedgers ==
    /\ asked = Idle
    /\ \E measured \in {Measured, <<>>}, here, there \in {"worker", "frontier"} \X {"L0", "L3"} :
       \E first \in BoundedSeq(CallsOf(here[1], here[2], measured), 2),
          second \in BoundedSeq(CallsOf(there[1], there[2], measured), 2) :
           Ask("ledgers", [measured |-> measured, cells |->
               <<[role |-> here[1], level |-> here[2], calls |-> first],
                 [role |-> there[1], level |-> there[2], calls |-> second]>>])

\* Any place and warehouses.
AskPreflight ==
    /\ asked = Idle
    /\ \E key, configured, surface \in BOOLEAN,
          answers \in [{"worker", "frontier"} -> {<<>>, [input |-> 9, output |-> 1]}],
          warehouses \in [BOOLEAN -> [builds : BOOLEAN, gold : BOOLEAN]] :
           Ask("preflight", [place |-> [key |-> key, configured |-> configured,
                                        answers |-> answers, surface |-> surface],
                             warehouses |-> warehouses])

Asked == asked.cells
Spent == MergeLedgers([c \in DOMAIN Asked |-> Asked[c].calls])

\* UsageReconciliationError, "a per-call record that quietly fails to reach the cell total is
\* how a sweep under-reports its own spend": a ledger that lost or gained a call, whatever the
\* call was, does not reconcile with what was reported, and one that did not does.
LostCallsDoNotReconcile ==
    asked.topic = "ledgers" =>
        /\ Mismatches(Spent, Totals(Spent)) = {}
        /\ \A i \in DOMAIN Spent :
               /\ Mismatches(RemoveAt(Spent, i), Totals(Spent)) # {}
               /\ Mismatches(Append(Spent, Spent[i]), Totals(Spent)) # {}

\* The views of a ledger agree: by model, by outcome, by cell and in all, calls, tokens and
\* dollars are each counted once, the failed calls among them.
ViewsOfALedgerAgree ==
    asked.topic = "ledgers" =>
        LET cost(c) == LedgerCost(Asked[c].calls)
            models == ByModel(Spent)
            outcomes == ByOutcome(Spent)
            over(field) == SumFunction([m \in DOMAIN models |-> models[m][field]])
        IN  /\ over("cost") = LedgerCost(Spent) /\ cost(1) + cost(2) = LedgerCost(Spent)
            /\ over("calls") = Len(Spent) /\ over("total") = Totals(Spent).total
            /\ SumFunction(outcomes) = Len(Spent)

\* chart_model.cache_note: what caching saved is what the prefixes would have cost as plain
\* input less what they did cost, over the cells it applied to; those are cells of the frontier
\* at L3, as the note says, and none without a measurement.
SavingIsTheDifferenceItMade ==
    asked.topic = "ledgers" =>
        LET uncached(call) == [call EXCEPT !.input = call.input + call.write + call.read,
                                           !.write = 0, !.read = 0]
            plain(c) == LedgerCost([i \in DOMAIN Asked[c].calls |-> uncached(Asked[c].calls[i])])
            note == CacheNote([c \in DOMAIN Asked |->
                        [role |-> Asked[c].role, tokens |-> Totals(Asked[c].calls)]])
            hit == {c \in DOMAIN Asked : Cached(Totals(Asked[c].calls))}
        IN  /\ \A c \in hit : Asked[c].role = "frontier" /\ Asked[c].level = "L3"
            /\ asked.measured = <<>> => hit = {}
            /\ note.says = "applied" <=> hit # {}
            /\ hit # {} =>
                   /\ note.saved = plain(1) + plain(2) - LedgerCost(Spent)
                   /\ note.cells = Cardinality(hit)
                   /\ note.rate = <<Totals(Spent).read, Totals(Spent).read + Totals(Spent).write>>

\* caching.user_content, "the two adjacent text blocks concatenate to exactly the same text":
\* marking a prefix changes nothing the model reads, and never marks the question.
MarkingLeavesThePromptAlone ==
    asked.topic = "ledgers" =>
        \A c \in DOMAIN Asked :
            LET content == UserContent(Asked[c].role, Asked[c].level, asked.measured)
            IN  /\ FlattenSeq([i \in DOMAIN content |-> content[i].text]) = <<"prompt", "question">>
                /\ \A i \in DOMAIN content : content[i].marked => content[i].text = <<"prompt">>

\* preflight.py, "Runs even when the key is bad, so a typo does not hide the rest": what is
\* found of the warehouse, the gold and the verifier does not depend on whether the calls were
\* answered, nor on the key where the settings name the default warehouse; it passes only
\* where all is in place, and its bill has every call it made, the refused ones too.
PreflightHidesNothing ==
    asked.topic = "preflight" =>
        LET found == Preflight(asked.place, asked.warehouses)
            refused == Preflight([asked.place EXCEPT !.key = TRUE, !.answers = [r \in {"worker", "frontier"} |-> <<>>]],
                                 asked.warehouses)
            offline(p) == SubSeq(p.steps, Len(p.steps) - 2, Len(p.steps))
            here == asked.warehouses[asked.place.configured]
        IN  /\ asked.place.key \/ ~asked.place.configured => offline(found) = offline(refused)
            /\ Passed(found) <=> /\ asked.place.key /\ asked.place.surface
                                 /\ \A r \in {"worker", "frontier"} : asked.place.answers[r] # <<>>
                                 /\ here.builds /\ here.gold
            /\ Len(found.ledger) =
                   Cardinality({i \in DOMAIN found.steps : found.steps[i].name \in {"worker", "frontier"}})
            /\ \A i \in DOMAIN found.ledger :
                   found.ledger[i].outcome = "ok" <=> Step(found.ledger[i].model, TRUE) \in ToSet(found.steps)

\* What the ledgers say was spent and saved is what the calls cost.
LedgersAddUp ==
    /\ LostCallsDoNotReconcile /\ ViewsOfALedgerAgree
    /\ SavingIsTheDifferenceItMade /\ MarkingLeavesThePromptAlone /\ PreflightHidesNothing

=============================================================================
