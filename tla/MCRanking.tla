----------------------------- MODULE MCRanking -----------------------------
EXTENDS Ranking

Feasible == [s \in 1 .. N |-> 0]
Plain == [goal |-> <<1, 1>>, setGoals |-> {}, priority |-> <<1, 1>>,
          violation |-> Feasible, weakDom |-> TRUE, moga |-> FALSE, shuffled |-> FALSE]

OneGoal        == [Plain EXCEPT !.setGoals = {1}]
TwoGoals       == [Plain EXCEPT !.setGoals = {1, 2}]
HardGoal       == [OneGoal EXCEPT !.priority = <<2, 1>>]
HardAndSoft    == [TwoGoals EXCEPT !.priority = <<1, 2>>]
OnlyHard       == [TwoGoals EXCEPT !.priority = <<2, 2>>]
UnsetIsHigher  == [OneGoal EXCEPT !.priority = <<1, 2>>]
Infeasible     == [Plain EXCEPT !.violation = [s \in 1 .. N |-> IF s = 1 THEN 2 ELSE s % 2]]
InfeasibleGoal == [TwoGoals EXCEPT !.violation = [s \in 1 .. N |-> IF s = 2 THEN 1 ELSE 0]]

Strong(p) == [p EXCEPT !.weakDom = FALSE]
Moga(p) == [p EXCEPT !.moga = TRUE]
ManyProblems ==
    {Plain, Strong(HardAndSoft), [Infeasible EXCEPT !.shuffled = TRUE],
     Moga(OneGoal), Moga(HardGoal), Moga(HardAndSoft), Moga(OnlyHard),
     Moga(UnsetIsHigher), Moga(InfeasibleGoal), Moga(Strong(TwoGoals))}

FourVectors == {<<0, 1>>, <<1, 1>>, <<2, 0>>, <<2, 2>>}
=============================================================================
