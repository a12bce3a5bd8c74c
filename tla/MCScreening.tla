---------------------------- MODULE MCScreening -----------------------------
(* A rubric of five criteria, three of them for the model, and three       *)
(* candidates: ann and cy meet every predicate, bob misses a nice_to_have. *)
EXTENDS Screening
CONSTANTS r1, ann, bob, cy, clearance, skills, fit, polish, remark

MCCriteria == {clearance, skills, fit, polish, remark}
MCJudged   == {fit, polish, remark}
MCSeverity == [k \in MCCriteria |->
    CASE k \in {clearance, fit} -> "must_have"
      [] k \in {skills, polish} -> "nice_to_have"
      [] k = remark -> "informational"]
MCFacts == [c \in {ann, bob, cy} |-> IF c = bob THEN {clearance} ELSE {clearance, skills}]

R(k, b) == [key |-> k, passed |-> b]
\* All passed; the remark not passed; role fit failed; role fit left out; no
\* JSON; a key nobody asked for (a predicate's, failed).
MCAnswers == {
    <<R(fit, TRUE), R(polish, TRUE), R(remark, FALSE)>>,
    <<R(remark, TRUE), R(fit, FALSE), R(polish, TRUE)>>,
    <<R(polish, TRUE)>>,
    <<>>,
    <<R(fit, TRUE), R(polish, FALSE), R(skills, FALSE), R(remark, TRUE)>>}

\* A longer rubric: sixteen wishes more, which the model judges too.  With twelve
\* of them ann and cy meet 80 of a hundred and bob 75, with eleven 75 and 70.
Wishes == 1..16
LongCriteria == MCCriteria \cup Wishes
LongJudged   == MCJudged \cup Wishes
LongSeverity == [k \in LongCriteria |-> IF k \in Wishes THEN "nice_to_have" ELSE MCSeverity[k]]
FirstWishes(n)     == [i \in Wishes |-> R(i, i <= n)]
LongAnswers  ==
    {<<R(fit, TRUE), R(polish, TRUE), R(remark, FALSE)>> \o FirstWishes(n) : n \in {11, 12}} \cup
    {<<R(remark, TRUE), R(fit, FALSE), R(polish, TRUE)>> \o FirstWishes(16), <<R(polish, TRUE)>>, <<>>,
     <<R(fit, TRUE), R(polish, FALSE), R(skills, FALSE), R(remark, TRUE)>> \o FirstWishes(16)}
=============================================================================
