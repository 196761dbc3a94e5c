------------------------------ MODULE MCPasses -------------------------------
(* What must be true of the passes over the gold set.                      *)
EXTENDS Passes

\* verify/batch.py, "Per-item outcomes are the point": a report is about its items, in
\* their order and each once, in whatever order the answers came.
ReportsSpeakForTheAnswers ==
    stage = "done" =>
        LET of(arm, test(_)) == Cardinality({i \in Items : test(answers[<<arm, i>>])})
        IN  CASE pass.kind = "batch" ->
                    /\ BatchReport.items =
                           [i \in Items |-> [item |-> i, answer |-> answers[<<"governed", i>>]]]
                    /\ BatchReport.counts.ran = BatchReport.counts.correct + BatchReport.counts.silent
                    /\ BatchReport.counts.visible = pass.items - BatchReport.counts.ran
              [] pass.kind = "trap" -> gathered = answers
              [] pass.kind = "swap" ->
                    \A arm \in Arms :
                        /\ SwapArms[arm].ran = pass.items
                        /\ SwapArms[arm].accepted = of(arm, LAMBDA a : a.accepted)
                        /\ SwapArms[arm].correct = of(arm, LAMBDA a : a.outcome = "correct")

\* A job that died costs the trap its cell, which is in no rate and no pair.  It costs the
\* other two the report, and every item has been asked by the time they say so.
DeadJobsStayInTheirPlace ==
    LET dead == {j \in DOMAIN answers : answers[j] = Died}
    IN  /\ stage = "done" /\ dead # {} => pass.kind = "trap"
        /\ stage = "done" /\ pass.kind = "trap" =>
               LET board == Scoreboard(gathered)
               IN  /\ \A arm \in Arms :
                         board.arms[arm].total = pass.items - Cardinality({j \in dead : j[1] = arm})
                   /\ Pairs(board.paired) =
                         Cardinality({i \in Items : \A arm \in Arms : Ran(answers[<<arm, i>>])})
        /\ stage = "raised" => pass.kind # "trap" /\ dead # {} /\ DOMAIN answers = ToSet(Jobs)

\* views/trap.py, "a cell reading 'query failed' before the reveal hands the room a free
\* answer key": until the button is pressed the grid tells only what has landed.
NothingShowsBeforeTheReveal ==
    ~revealed => Range(screen.table) \subseteq {"pending", "landed"}

\* Pressing reveal on a finished trap shows all of it, in the grid and in the scores.
LateRevealIsExact ==
    screen.late => screen = [table |-> Grid(answers, TRUE), board |-> <<Scoreboard(answers)>>, late |-> TRUE]

\* save_state, "Everything needed to re-derive every reported number without another model
\* call": the scores follow from the cells of the file, and are those that were printed.
SavedStateTellsTheScores ==
    stage = "done" /\ pass.kind = "trap" =>
        LET saved == SavedState(gathered)
            outcome(j) == saved.cells[CHOOSE n \in DOMAIN saved.cells :
                                          <<saved.cells[n].arm, saved.cells[n].item>> = j].outcome
            back == [j \in ToSet(Jobs) |->
                        IF outcome(j) = "none" THEN Died ELSE JobAnswer(outcome(j), FALSE, 0)]
        IN  Len(saved.cells) = Len(Jobs) /\ Printed(back, TRUE) = <<saved.board>>

\* _reading, "Describe what actually happened": a verdict on correctness is about how many
\* items each arm got right, and a dashboard number has moved only if its count has.
SwapReadingIsHonest ==
    stage = "done" /\ pass.kind = "swap" =>
        LET right(arm) == Cardinality({i \in Items : answers[<<arm, i>>].outcome = "correct"})
            passed(arm) == Cardinality({i \in Items : answers[<<arm, i>>].accepted})
            reading == SwapReading(SwapArms)
        IN  /\ reading.says = "nothing ran" <=> pass.items = 0
            /\ reading.says = "moved" =>
                   /\ "acceptance" \in reading.moved <=> passed("regex") > passed("ast")
                   /\ reading.correctness = "fell" <=> right("regex") < right("ast")
                   /\ reading.correctness = "identical" <=> right("regex") = right("ast")

\* What a pass shows and reports is what its jobs answered, and no more than it may show.
PassesTellWhatHappened ==
    /\ ReportsSpeakForTheAnswers /\ DeadJobsStayInTheirPlace
    /\ NothingShowsBeforeTheReveal /\ LateRevealIsExact
    /\ SavedStateTellsTheScores /\ SwapReadingIsHonest

\* Every pass ends, with a report or an exception, whichever of its jobs die.
EveryPassEnds == stage = "gathering" ~> stage \in {"done", "raised"}

=============================================================================
