--------------------------- MODULE AlgorithmWiring ---------------------------
(***************************************************************************)
(* Which operators the algorithms of Tigon are made of, and the tags by    *)
(* which these find each other's sets. The tags are those of the           *)
(* operators' constructors as the algorithm's initialise() changes them.   *)
(* The three mutation operators in a row have the same tags and effect and *)
(* are one here.                                                           *)
(***************************************************************************)
EXTENDS Naturals, Sequences

AllTags == {"main", "evaluation", "fitness", "selection", "next", "modification",
            "direction", "perturbation", "reduce", "resize", "mating"}

Operator(kind, out, in, size, number) ==
    [kind |-> kind, out |-> out, add |-> <<>>, in |-> in, size |-> size, number |-> number]
Plain(kind, out, in) == Operator(kind, out, in, 0, 0)

\* the operators every flow starts with
Prologue == <<Plain("init", <<"main", "evaluation">>, <<>>),
              Plain("evaluate", <<"evaluation">>, <<>>)>>
Crossovers == <<Plain("vary", <<"direction">>, <<>>), Plain("vary", <<"direction">>, <<>>)>>
Mutations  == <<Plain("vary", <<"perturbation">>, <<>>)>>
NextGeneration == <<Plain("merge", <<"main">>, <<"next">>)>>

\* NSGA-II; NSGA-III has the same tags
NsgaII == Prologue
    \o <<Plain("rank", <<"selection", "fitness">>, <<"main">>),
         Plain("score", <<"fitness">>, <<>>),
         Plain("elite", <<"next", "selection", "modification">>, <<"fitness", "selection">>),
         Operator("children", <<"direction", "next", "perturbation">>,
                  <<"selection", "modification">>, 2, 0)>>
    \o Crossovers \o Mutations \o NextGeneration

SmsEmoa == Prologue
    \o <<Plain("rank", <<"reduce">>, <<"main">>),
         Plain("reduce", <<"next", "selection">>, <<"reduce">>),
         Operator("children", <<"direction", "perturbation", "next", "resize">>,
                  <<"selection">>, 2, 2)>>
    \o Crossovers
    \o <<Operator("truncate", <<"resize">>, <<>>, 1, 0)>>
    \o Mutations \o NextGeneration

Moga == Prologue
    \o <<Plain("rank", <<"fitness", "selection">>, <<"main">>),
         Plain("score", <<"main">>, <<>>),
         Plain("score", <<"fitness">>, <<>>),
         Plain("pool", <<"mating", "selection">>, <<"main">>),
         Operator("filtered", <<"direction", "next", "perturbation">>,
                  <<"selection", "mating">>, 2, 0)>>
    \o Crossovers \o Mutations \o NextGeneration
=============================================================================
