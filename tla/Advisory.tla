------------------------------ MODULE Advisory ------------------------------
(***************************************************************************)
(* The feasibility report on a new requisition: client-advisory asks the    *)
(* rules gateway for two rules, one after the other, and the gateway asks   *)
(* OPA, whose policies may be reloaded in between and whose answer may be   *)
(* undefined, an error, or nothing.  Without a rules service the client is  *)
(* a mock.                                                                 *)
(*                                                                         *)
(* Operators marked [fault] are wrong versions of the one that follows     *)
(* them, used to check the properties.                                     *)
(***************************************************************************)
EXTENDS Integers, Sequences, FiniteSets, SequencesExt

CONSTANTS
    RulesUrlSet,    \* whether OPA_URL or RULES_SERVICE_URL is set, in the services asked
    MaxReloads      \* bound: changes of what OPA answers

ASSUME AdvisoryAssumption == RulesUrlSet \subseteq BOOLEAN /\ MaxReloads \in Nat

REGISTRY ==
    {"comp_market_alignment", "timeline_reasonableness", "ownership_bundle", "submission_exclusivity",
     "right_to_represent", "do_not_contact", "margin_validation", "conversion_fee", "co_employment_risk",
     "non_compete_check", "req_mode_classification", "lcat_qualification", "approachability_score",
     "counteroffer_risk", "fiscal_year_urgency"}

RulesAsked == <<"comp_market_alignment", "timeline_reasonableness">>

Verdicts == {"feasible", "warning", "infeasible"}
Outages  == {"undefined", "error"}     \* an empty result; a status of 400 or more, or no answer

VARIABLES
    policy,     \* rule -> what OPA answers for the requisition at hand
    reloads,
    intake,     \* the request: the verdicts it has, its state, its report
    stood       \* per rule, what OPA would have answered while the request lasted

advisoryVars == <<policy, reloads, intake, stood>>

Questions == {RulesAsked[i] : i \in DOMAIN RulesAsked}

AdvisoryInit ==
    /\ policy = [q \in Questions |-> "feasible"] /\ reloads = 0
    /\ intake = [pc |-> "none", verdicts |-> <<>>, overall |-> "none", levers |-> {}, remote |-> FALSE]
    /\ stood = [q \in Questions |-> {}]

Reload ==
    /\ reloads < MaxReloads /\ reloads' = reloads + 1
    /\ \E q \in Questions, v \in Verdicts \cup Outages :
        /\ policy' = [policy EXCEPT ![q] = v]
        /\ stood' = IF intake.pc = "asking" THEN [stood EXCEPT ![q] = @ \cup {v}] ELSE stood
    /\ UNCHANGED intake

-----------------------------------------------------------------------------
(* The rules gateway and its clients.  The value is the verdict, or "raised" *)
(* when the client raises an exception.                                    *)

\* POST /v1/rules/{name}: 404 for a name that is not registered, and 500 when
\* the client of OPA raised.
gateway(name) ==
    IF name \notin REGISTRY THEN "raised"
    ELSE IF policy[name] = "error" THEN "raised" ELSE policy[name]

\* A handler that is not registered is a stub that allows.
mock_evaluate(name) == "allowed"

\* _build_rules
rules_evaluate(name) == IF intake.remote THEN gateway(name) ELSE mock_evaluate(name)

-----------------------------------------------------------------------------
(* intake.py                                                               *)

\* [fault] the milder verdicts are looked for first.
MildFirst(verdicts) ==
    IF "warning" \in ToSet(verdicts) THEN "difficult"
    ELSE IF "infeasible" \in ToSet(verdicts) THEN "infeasible" ELSE "feasible"

_roll_up(verdicts) ==
    IF "infeasible" \in ToSet(verdicts) THEN "infeasible"
    ELSE IF ToSet(verdicts) \cap {"warning", "difficult"} # {} THEN "difficult" ELSE "feasible"

\* [fault] levers only for what cannot be done.
OnlyInfeasible(verdicts) == {q \in {1, 2} : verdicts[q] = "infeasible"}

\* The levers; those of the requisition itself are left out.
_build_relaxations(verdicts) ==
    {q \in {1, 2} : verdicts[q] \in {"infeasible", "warning"}}

\* POST /v1/advisory/intake
advisory_intake ==
    /\ intake.pc = "none"
    /\ \E url \in RulesUrlSet : intake' = [intake EXCEPT !.pc = "asking", !.remote = url]
    /\ stood' = [q \in Questions |-> {policy[q]}]
    /\ UNCHANGED <<policy, reloads>>

\* One evaluation is awaited after the other; an exception ends the request.
analyze ==
    /\ intake.pc = "asking"
    /\ LET v    == rules_evaluate(RulesAsked[Len(intake.verdicts) + 1])
           list == Append(intake.verdicts, v)
       IN intake' = IF v = "raised" THEN [intake EXCEPT !.pc = "failed"]
                    ELSE IF Len(list) < Len(RulesAsked) THEN [intake EXCEPT !.verdicts = list]
                    ELSE [intake EXCEPT !.verdicts = list, !.pc = "reported", !.overall = _roll_up(list),
                                        !.levers = _build_relaxations(list)]
    /\ UNCHANGED <<policy, reloads, stood>>

\* The client asks about the next requisition.
NextIntake ==
    /\ intake.pc \in {"reported", "failed"}
    /\ intake' = [pc |-> "none", verdicts |-> <<>>, overall |-> "none", levers |-> {}, remote |-> FALSE]
    /\ stood' = [q \in Questions |-> {}]
    /\ UNCHANGED <<policy, reloads>>

AdvisoryNext == Reload \/ advisory_intake \/ analyze \/ NextIntake

-----------------------------------------------------------------------------
(* Properties.                                                             *)

AdvisoryTypeOK ==
    /\ policy \in [Questions -> Verdicts \cup Outages] /\ reloads \in 0..MaxReloads
    /\ intake.pc \in {"none", "asking", "reported", "failed"}
    /\ ToSet(intake.verdicts) \subseteq Verdicts \cup {"undefined", "allowed"}

Adverse == {"infeasible", "warning"}

\* A report is as bad as each rule was while the request lasted, whatever is
\* reloaded between the two questions: what was infeasible throughout makes it
\* infeasible, what was never infeasible does not, feasible throughout is
\* feasible, and with a rule that was against it throughout it is not.  The client
\* gets a lever for each rule that was against it throughout, and for none that
\* never was.  A rule on which OPA fails throughout leaves no report.
ReportAgreesWithRules ==
    (intake.pc = "reported" /\ intake.remote) =>
        /\ (\E q \in Questions : stood[q] = {"infeasible"}) => intake.overall = "infeasible"
        /\ (\A q \in Questions : "infeasible" \notin stood[q]) => intake.overall # "infeasible"
        /\ (\E q \in Questions : stood[q] \subseteq Adverse) => intake.overall # "feasible"
        /\ (\A q \in Questions : stood[q] = {"feasible"}) => intake.overall = "feasible"
        /\ \A i \in {1, 2} :
              /\ stood[RulesAsked[i]] \subseteq Adverse => i \in intake.levers
              /\ i \in intake.levers => stood[RulesAsked[i]] \cap Adverse # {}
        /\ ~\E q \in Questions : stood[q] = {"error"}

=============================================================================
