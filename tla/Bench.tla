------------------------------- MODULE Bench --------------------------------
(***************************************************************************)
(* The bench service: the alerts before a contract ends and before a        *)
(* clearance expires, over the days of one contractor; the local copies of  *)
(* two rules for the dashboards (co-employment risk, conversion fee).       *)
(*                                                                         *)
(* Operators marked [fault] are wrong versions of the one that follows     *)
(* them, used to check the properties.                                     *)
(***************************************************************************)
EXTENDS Integers, Sequences, FiniteSets, SequencesExt, FiniteSetsExt, Sorting

CONSTANTS
    FirstDay,       \* days until the contract ends, at the start
    Offsets,        \* days between the end of the contract and the expiry
    Weekly,         \* hours per week of an engagement
    MaxMonths       \* bound

ASSUME BenchAssumption == Offsets \subseteq Int /\ Weekly \cup {FirstDay, MaxMonths} \subseteq Nat

Dates    == {"contract_end_date", "clearance_expiry_date"}

VARIABLES
    ends,       \* days until the contract ends; negative afterwards
    record,     \* the contractor: which dates it has, how far they are apart
    alerts,     \* the last answer
    worst,      \* date -> the highest severity so far
    exposure    \* an engagement: months, hours, risk band and fee, now and a month ago

benchVars == <<ends, record, alerts, worst, exposure>>

BenchInit ==
    /\ ends = FirstDay /\ record = [has |-> {}, offset |-> 0] /\ alerts = <<>>
    /\ worst = [d \in Dates |-> 0] /\ exposure = <<>>

-----------------------------------------------------------------------------
(* lifecycle.py                                                            *)

\* AlertSeverity
Info == 1
Watch == 2
Urgent == 3

\* [fault] strict at both ends.
StrictBands(days, watch, info) ==
    CASE days <= 30 -> Urgent [] 30 < days /\ days < watch -> Watch [] watch < days /\ days <= info -> Info [] OTHER -> 0

\* 30 < days <= watch and watch < days <= info; 0 is no alert
Band(days, watch, info) ==
    CASE days <= 30 -> Urgent [] 30 < days /\ days <= watch -> Watch [] watch < days /\ days <= info -> Info [] OTHER -> 0

DaysTo(d) == IF d = "contract_end_date" THEN ends ELSE ends + record.offset

SeverityOf(d) ==
    IF d \notin record.has \/ DaysTo(d) < 0 THEN 0
    ELSE IF d = "contract_end_date" THEN Band(DaysTo(d), 60, 90) ELSE Band(DaysTo(d), 90, 180)

Alert(d) == IF SeverityOf(d) = 0 THEN <<>> ELSE <<[about |-> d, severity |-> SeverityOf(d), days |-> DaysTo(d)]>>

evaluate_contractor == Alert("contract_end_date") \o Alert("clearance_expiry_date")

\* [fault] as they come.
Unsorted(list) == list

ByDays(list) == Sorted(list, DOMAIN list, [i \in DOMAIN list |-> list[i].days])

evaluate_bench == ByDays(evaluate_contractor)

\* A contractor is placed; its record need not have both dates.
PlaceContractor(has, offset) ==
    /\ record.has = {}
    /\ record' = [has |-> has, offset |-> offset]
    /\ UNCHANGED <<ends, alerts, worst, exposure>>

\* POST /v1/bench/evaluate, on the days somebody looks at the dashboard.
bench_evaluate ==
    /\ record.has # {}
    /\ alerts' = evaluate_bench
    /\ worst' = [d \in Dates |-> Max({worst[d], SeverityOf(d)})]
    /\ UNCHANGED <<ends, record, exposure>>

NextDay ==
    /\ record.has # {} /\ ends + Max({0, record.offset}) >= 0
    /\ ends' = ends - 1 /\ alerts' = <<>>
    /\ UNCHANGED <<record, worst, exposure>>

-----------------------------------------------------------------------------
(* coemployment.py, conversion.py                                          *)

\* [fault] elif: from the 25th month on, 20 instead of 30 and 20.
OneStep(tenure) == IF tenure > 24 THEN 20 ELSE IF tenure > 18 THEN 30 ELSE 0

TenureRisk(tenure) == (IF tenure > 18 THEN 30 ELSE 0) + (IF tenure > 24 THEN 20 ELSE 0)

\* The risk band: low, medium, high.
summarise(tenure, weekly, supervision) ==
    LET score == TenureRisk(tenure)
                 + (IF weekly >= 30 THEN 15 ELSE 0) + (IF weekly >= 40 THEN 10 ELSE 0)
                 + (IF supervision = "direct_client_management" THEN 25 ELSE 0)
    IN  CASE score >= 50 -> Urgent [] score >= 30 -> Watch [] OTHER -> Info

\* base less credit, a base of 2000 and a credit of 1 per hour, never below 0.
compute(hours) == [net_fee |-> Max({2000 - hours, 0}), waiver |-> hours >= 1000]

Engagement(tenure, hours, weekly, supervision) ==
    [tenure |-> tenure, hours |-> hours, weekly |-> weekly, supervision |-> supervision,
     band |-> summarise(tenure, weekly, supervision), fee |-> compute(hours)]

Engage(weekly, supervision) ==
    /\ exposure = <<>> /\ record.has = {}
    /\ exposure' = <<Engagement(0, 0, weekly, supervision)>>
    /\ UNCHANGED <<ends, record, alerts, worst>>

\* POST /v1/bench/coemployment and /v1/bench/conversion, once a month.
Month ==
    /\ exposure # <<>> /\ Last(exposure).tenure < MaxMonths
    /\ LET e == Last(exposure)
       IN  exposure' = <<e, Engagement(e.tenure + 1, e.hours + 4 * e.weekly, e.weekly, e.supervision)>>
    /\ UNCHANGED <<ends, record, alerts, worst>>

BenchNext ==
    \/ \E has \in (SUBSET Dates) \ {{}}, offset \in Offsets : exposure = <<>> /\ PlaceContractor(has, offset)
    \/ bench_evaluate \/ NextDay
    \/ Month
    \/ \E weekly \in Weekly, s \in {"direct_client_management", "vendor_managed"} : Engage(weekly, s)

-----------------------------------------------------------------------------
(* Properties.                                                             *)

BenchTypeOK ==
    /\ ends \in Int /\ record.has \subseteq Dates /\ record.offset \in Offsets \cup {0}
    /\ worst \in [Dates -> 0..3] /\ Len(alerts) <= 2

\* The alerts about a date never ease off as it comes nearer, whatever days they
\* are asked for: from the first one to the day itself there is no silent day.
AlertsEscalate ==
    \A d \in record.has : DaysTo(d) >= 0 => SeverityOf(d) >= worst[d]

\* In an answer the urgent alerts come before all others.
UrgentFirst ==
    \A i, j \in DOMAIN alerts : alerts[j].severity = Urgent /\ alerts[i].severity # Urgent => j < i

\* An engagement that goes on never becomes less risky by itself, its conversion
\* never dearer, and what was waived stays waived.
ExposureOnlyGrows ==
    Len(exposure) = 2 =>
        /\ exposure[1].band <= exposure[2].band
        /\ exposure[1].fee.net_fee >= exposure[2].fee.net_fee
        /\ exposure[1].fee.waiver => exposure[2].fee.waiver

=============================================================================
