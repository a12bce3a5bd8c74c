-------------------------- MODULE PipelineMonitor ---------------------------
(***************************************************************************)
(* Two answers of the pipeline service that depend on nothing it keeps: the *)
(* time budget of a stage, polled once a day while the clock runs, and the  *)
(* other requisitions a candidate is routed to.                            *)
(*                                                                         *)
(* Operators marked [fault] are wrong versions of the one that follows     *)
(* them, used to check the properties.                                     *)
(***************************************************************************)
EXTENDS PipelineStages, Sorting

CONSTANTS
    Views,          \* candidates: [clearance, motion, metro]
    Openings,       \* requisitions: [id, clearance, motion, metro, score]; the
                    \* score is the cosine with the candidate, in percent
    Limits,         \* limit of a request to route
    MaxQuarters     \* bound: a stage lasts so many quarters of a day

ASSUME MonitorAssumption ==
    /\ Limits \subseteq Nat /\ MaxQuarters \in Nat
    /\ IsFiniteSet(Openings) /\ \A q \in Openings : q.score \in Int

VARIABLES
    stay,       \* the stage entered, for how long, at which hour it is polled
    severities, \* the answers, in order, without repetition
    routed      \* the last request to route and its answer

monitorVars == <<stay, severities, routed>>

NewRequisition == [stage |-> "intake", age |-> 0, hour |-> 0]

MonitorInit ==
    /\ stay = NewRequisition
    /\ severities = <<>> /\ routed = <<>>

-----------------------------------------------------------------------------
(* sla.py                                                                  *)

DEFAULT_BUDGETS(s) ==
    CASE s = "intake" -> 1 [] s \in {"sourcing", "interview", "submission"} -> 5
      [] s = "screening" -> 3 [] s = "onboarding" -> 14
      [] OTHER -> 7     \* also for the stages without a budget

\* [fault] the warning comes at nine tenths.
LateWarning(s, quarters) ==
    CASE quarters >= 4 * DEFAULT_BUDGETS(s) -> "breached"
      [] 10 * quarters >= 36 * DEFAULT_BUDGETS(s) -> "warning"
      [] OTHER -> "ok"

sla_evaluate(s, quarters) ==
    CASE quarters >= 4 * DEFAULT_BUDGETS(s) -> "breached"
      [] quarters >= 3 * DEFAULT_BUDGETS(s) -> "warning"
      [] OTHER -> "ok"

Enter ==
    /\ stay.age = 0 /\ severities = <<>>
    /\ stay' \in [stage : Stage, age : {0}, hour : 0..3]
    /\ UNCHANGED <<severities, routed>>

\* Six hours pass, in which a poll that is due was made.
Quarter ==
    /\ stay.age < MaxQuarters
    /\ stay.age % 4 = stay.hour => severities # <<>> /\ Last(severities) = sla_evaluate(stay.stage, stay.age)
    /\ stay' = [stay EXCEPT !.age = @ + 1]
    /\ UNCHANGED <<severities, routed>>

\* GET /v1/pipeline/{req_id}/health, at the same hour every day.
pipeline_health ==
    /\ stay.age % 4 = stay.hour
    /\ LET severity == sla_evaluate(stay.stage, stay.age)
       IN  /\ severities # <<>> => severity # Last(severities)
           /\ severities' = Append(severities, severity)
    /\ UNCHANGED <<stay, routed>>

-----------------------------------------------------------------------------
(* routing.py                                                              *)

_CLEARANCE_RANK(c) ==
    CASE c = "public_trust" -> 1 [] c = "secret" -> 2 [] c = "top_secret" -> 3 [] c = "ts_sci" -> 4
      [] OTHER -> 0

Cleared(view, q) == _CLEARANCE_RANK(view.clearance) >= _CLEARANCE_RANK(q.clearance)

\* A filter that the requisition leaves open ("NULL") is no match.
StrongSignal(view, q) ==
    /\ q.motion # "NULL" /\ q.motion = view.motion
    /\ q.metro # "NULL" /\ q.metro = view.metro

score_floor == 65

Fits(view, q) == Cleared(view, q) /\ (q.score >= score_floor \/ StrongSignal(view, q))

FirstMatches(list, limit) == SubSeq(list, 1, Min({limit, Len(list)}))

\* The best first.
ByScore(reqs, found) == Sorted(reqs, found, [i \in found |-> -reqs[i].score])

Matches(view, reqs) == {i \in DOMAIN reqs : Fits(view, reqs[i])}

\* [fault] the limit is applied while collecting.
LimitFirst(view, reqs, limit) ==
    ByScore(reqs, {i \in Matches(view, reqs) : Cardinality(Matches(view, reqs) \cap 1..i) <= limit})

route(view, reqs, limit) == FirstMatches(ByScore(reqs, Matches(view, reqs)), limit)

\* POST /v1/pipeline/route; the database lists the requisitions in any order.
pipeline_route(view, limit) ==
    \E reqs \in SetToSeqs(Openings) :
        /\ routed' = <<[view |-> view, limit |-> limit, found |-> route(view, reqs, limit)]>>
        /\ UNCHANGED <<stay, severities>>

\* Routing reads no clock: it is enough to ask before the clock runs.
MonitorNext ==
    \/ stay = NewRequisition /\ \E view \in Views, limit \in Limits : pipeline_route(view, limit)
    \/ routed = <<>> /\ Enter
    \/ routed = <<>> /\ Quarter
    \/ pipeline_health

-----------------------------------------------------------------------------
(* Properties.                                                             *)

MonitorTypeOK ==
    /\ stay \in [stage : Stage, age : 0..MaxQuarters, hour : 0..3]
    /\ severities \in Seq({"ok", "warning", "breached"}) /\ Len(severities) <= 3

\* In a stage with four days or more, whoever asks every day is warned before
\* the budget is used up; in intake and screening the warning may be missed.
WarnedBeforeBreach ==
    \A i \in DOMAIN severities :
        severities[i] = "breached" /\ DEFAULT_BUDGETS(stay.stage) >= 4 /\ severities[1] = "ok"
            => i = 3 /\ severities[2] = "warning"

\* Routing leaves no requisition out for one that fits less well, and offers none
\* the candidate is not cleared for.
RoutedToTheBest ==
    \A a \in ToSet(routed) :
        LET chosen == ToSet(a.found)
            fit    == {q \in Openings : Fits(a.view, q)}
        IN  /\ chosen \subseteq fit /\ Cardinality(chosen) = Min({a.limit, Cardinality(fit)})
            /\ \A q \in chosen : Cleared(a.view, q)
            /\ \A q \in chosen, r \in fit \ chosen : q.score >= r.score
            /\ \A i, j \in DOMAIN a.found : i < j => a.found[i].score >= a.found[j].score

=============================================================================
