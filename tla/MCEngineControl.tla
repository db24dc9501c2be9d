--------------------------- MODULE MCEngineControl ---------------------------
EXTENDS EngineControl

NoPoints == [c \in Counted |-> <<>>]

\* two iterations at most, pausing after the first
ByIteration == [uses |-> {"iteration"}, maxIteration |-> 2, budget |-> 0,
                pauseBy |-> {"iteration"},
                points |-> [NoPoints EXCEPT !["iteration"] = <<1>>]]
\* both limits and the time estimate, pausing when the budget is spent
ByBoth == [uses |-> {"iteration", "budget", "time"}, maxIteration |-> 2, budget |-> 2,
           pauseBy |-> {"budget"}, points |-> [NoPoints EXCEPT !["budget"] = <<2>>]]
\* no termination criterion: start() refuses
Unlimited == [uses |-> {"time"}, maxIteration |-> 0, budget |-> 0,
              pauseBy |-> {}, points |-> NoPoints]

OneDesign == {ByIteration}
ThreeDesigns == {ByIteration, ByBoth, Unlimited}
=============================================================================
