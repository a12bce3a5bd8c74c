------------------------------ MODULE Screening -----------------------------
(***************************************************************************)
(* The screening service: requests that screen several candidates against  *)
(* one requisition (POST /v1/screen/batch; /v1/screen is a batch of one;   *)
(* /v1/calibrate screens one after the other) and ScreeningAgent.screen,   *)
(* from one await to the next: the rules service, the model, the audit     *)
(* log.  A screening is a pair of a request and a candidate.               *)
(*                                                                         *)
(* The rules service and the model are external: they answer anything of   *)
(* Verdicts and Answers, or raise.  Operators marked [fault] are wrong     *)
(* versions of the one that follows them, used to check the properties.    *)
(***************************************************************************)
EXTENDS Integers, Sequences, FiniteSets, SequencesExt

CONSTANTS
    Requests,       \* calls; they share nothing but the stateless agent
    Candidates, None,
    Criteria,       \* of the rubric
    Severity,       \* per criterion: must_have, nice_to_have, informational
    Judged,         \* criteria no predicate decides: "llm:" and unknown ones
    Facts,          \* per candidate, the other criteria it satisfies
    Threshold,      \* rubric.pass_threshold in per cent
    Verdicts,       \* what ownership_bundle may say
    Answers,        \* llm_criteria lists the model may return
    MaxFaults       \* bound: errors of the remote services and restarts

Severities == {"must_have", "nice_to_have", "informational"}
Judgment   == [key : Criteria \cup {None}, passed : BOOLEAN]
Result     == [key : Criteria \cup {None}, severity : Severities, passed : BOOLEAN]

ASSUME ScreeningAssumption ==
    /\ IsFiniteSet(Candidates) /\ IsFiniteSet(Criteria) /\ None \notin Criteria
    /\ Severity \in [Criteria -> Severities]
    /\ Judged \subseteq Criteria /\ Facts \in [Candidates -> SUBSET (Criteria \ Judged)]
    /\ Threshold \in 0..100 /\ MaxFaults \in Nat
    /\ \A a \in Answers : a \in Seq(Judgment)

VARIABLES
    request,    \* per request: None, or what it asks for
    free,       \* per request: free slots of its semaphore
    pc,         \* per screening: the await it is at
    card,       \* per screening: its scorecard
    audited,    \* per screening: its decision in the audit log
    reply,      \* per request: None, ok or error
    faults

vars == <<request, free, pc, card, audited, reply, faults>>

Screenings == Requests \X Candidates
Running    == {"rules", "llm", "audit"}
Order      == [mode : {"batch", "calibrate"}, slots : 1..Cardinality(Candidates),
               client : BOOLEAN, velocity : BOOLEAN]
Card       == [blocked : BOOLEAN, qualified : BOOLEAN, results : Seq(Result)]

ASSUME NoneAssumption ==
    None \notin Card /\ None \notin Order /\ None \notin {"ok", "error"}

Init ==
    /\ request = [r \in Requests |-> None] /\ free = [r \in Requests |-> 0]
    /\ pc = [s \in Screenings |-> "none"] /\ card = [s \in Screenings |-> None]
    /\ audited = [s \in Screenings |-> None] /\ reply = [r \in Requests |-> None]
    /\ faults = 0

Goto(s, l) == pc' = [pc EXCEPT ![s] = l]
Of(r)      == {s \in Screenings : s[1] = r}

-----------------------------------------------------------------------------
(* The decision.                                                           *)

\* [fault] informational criteria count.
AllResults(rs) == DOMAIN rs

Active(rs) == {i \in DOMAIN rs : rs[i].severity # "informational"}

ThresholdFor(velocity) ==
    IF ~velocity THEN Threshold ELSE IF Threshold > 10 THEN Threshold - 10 ELSE 0

\* Both sides of the comparison are doubles.  Threshold / 100 - 0.10 comes out
\* above the double nearest to (Threshold - 10) / 100 for these thresholds: a
\* score equal to the lowered threshold does not reach it.  For the others it
\* comes out equal or below, and no ratio lies in between.
RoundedUp == {14, 28, 34, 39, 40, 51, 52, 53, 54, 55, 56, 67, 68, 79, 80, 81, 92, 93}

PassRatioOk(rs, velocity) ==
    LET total  == IF Active(rs) = {} THEN 1 ELSE Cardinality(Active(rs))
        passed == Cardinality({i \in Active(rs) : rs[i].passed})
        least  == ThresholdFor(velocity) * total
    IN  \/ 100 * passed > least
        \/ 100 * passed = least /\ ~(velocity /\ Threshold \in RoundedUp)

MustFail(rs) == \E i \in DOMAIN rs : rs[i].severity = "must_have" /\ ~rs[i].passed

\* What the predicates of the rubric say of a candidate.
Deterministic(c) ==
    LET k == SetToSeq(Criteria \ Judged)
    IN  [i \in DOMAIN k |->
            [key |-> k[i], severity |-> Severity[k[i]], passed |-> k[i] \in Facts[c]]]

\* The model's list is taken as it is: criteria it leaves out give no result, a
\* key it was not asked for is a must_have, and text that is no JSON is <<>>.
Judgments(answer) ==
    [i \in DOMAIN answer |->
        [key |-> answer[i].key, passed |-> answer[i].passed,
         severity |-> IF answer[i].key \in Judged THEN Severity[answer[i].key] ELSE "must_have"]]

Scored(s, answer) ==
    LET rs == Deterministic(s[2]) \o Judgments(answer)
    IN  [blocked |-> FALSE, results |-> rs,
         qualified |-> PassRatioOk(rs, request[s[1]].velocity) /\ ~MustFail(rs)]

Blocked == [blocked |-> TRUE, qualified |-> FALSE, results |-> <<>>]

-----------------------------------------------------------------------------
(* A screening.                                                            *)

Fault == faults < MaxFaults /\ faults' = faults + 1

\* [fault] nobody waits for a slot.
NoWaiting(r) == UNCHANGED free

Acquire(r) == free[r] > 0 /\ free' = [free EXCEPT ![r] = @ - 1]

\* [fault] the slot is given back on the ordinary path only.
ReleasedAfterAudit(s) == free' = [free EXCEPT ![s[1]] = IF pc[s] = "audit" THEN @ + 1 ELSE @]

\* [fault] a release besides the one of "async with".
ReleasedTwice(s) == free' = [free EXCEPT ![s[1]] = @ + 2]

\* Leaving "async with sem", in whatever way.
Release(s) == free' = [free EXCEPT ![s[1]] = @ + 1]

\* The loop of calibrate ends with the first exception.
Abandoned(r) == request[r].mode = "calibrate" /\ \E s \in Of(r) : pc[s] = "raised"

Enter(s) ==
    /\ pc[s] = "queued" /\ ~Abandoned(s[1])
    /\ Acquire(s[1])
    /\ Goto(s, IF request[s[1]].client THEN "rules" ELSE "llm")
    /\ UNCHANGED <<request, card, audited, reply, faults>>

\* Rules and model raise on errors, time-outs and answers that are no
\* scorecard; nothing on the way up catches it.
Raise(s) ==
    /\ pc[s] \in {"rules", "llm"} /\ Fault
    /\ Release(s) /\ Goto(s, "raised")
    /\ UNCHANGED <<request, card, audited, reply>>

\* ownership_bundle answers; a blocked candidate gets its scorecard at once.
OwnershipAnswer(s, verdict) ==
    /\ pc[s] = "rules"
    /\ IF verdict = "blocked"
       THEN card' = [card EXCEPT ![s] = Blocked] /\ Release(s) /\ Goto(s, "done")
       ELSE Goto(s, "llm") /\ UNCHANGED <<card, free>>
    /\ UNCHANGED <<request, audited, reply, faults>>

\* [fault] the audit record is not awaited.
NotAwaited(s) == Goto(s, "done") /\ Release(s)

AwaitAudit(s) == Goto(s, "audit") /\ UNCHANGED free

\* The model answers: predicates, judgment and decision.
LlmAnswer(s, answer) ==
    /\ pc[s] = "llm"
    /\ card' = [card EXCEPT ![s] = Scored(s, answer)]
    /\ AwaitAudit(s)
    /\ UNCHANGED <<request, audited, reply, faults>>

Decision(s) == IF card[s].qualified THEN "qualified" ELSE "disqualified"

\* The insert into ClickHouse ends; its error is logged and the entry lost.
Record(s) ==
    /\ pc[s] = "audit"
    /\ \/ audited' = [audited EXCEPT ![s] = Decision(s)] /\ UNCHANGED faults
       \/ Fault /\ audited' = [audited EXCEPT ![s] = "lost"]
    /\ Release(s) /\ Goto(s, "done")
    /\ UNCHANGED <<request, card, reply>>

-----------------------------------------------------------------------------
(* Requests.                                                               *)

\* A request arrives.  Calibration is sequential and has no client.
Submit(r, order) ==
    /\ request[r] = None
    /\ order.mode = "calibrate" => order.slots = 1 /\ ~order.client
    /\ request' = [request EXCEPT ![r] = order]
    /\ free' = [free EXCEPT ![r] = order.slots]
    /\ pc' = [s \in Screenings |-> IF s[1] = r THEN "queued" ELSE pc[s]]
    /\ UNCHANGED <<card, audited, reply, faults>>

\* [fault] gather waits for nothing: the first scorecard is the reply.
SomeDone(r) == \E s \in Of(r) : pc[s] = "done"

AllDone(r) == \A s \in Of(r) : pc[s] = "done"

\* gather returns all scorecards, or raises the first exception at once.  The
\* other screenings of a batch go on: nothing cancels them.
Respond(r) ==
    /\ request[r] # None /\ reply[r] = None
    /\ \/ AllDone(r) /\ reply' = [reply EXCEPT ![r] = "ok"]
       \/ /\ \E s \in Of(r) : pc[s] = "raised"
          /\ reply' = [reply EXCEPT ![r] = "error"]
    /\ UNCHANGED <<request, free, pc, card, audited, faults>>

\* The service restarts: its coroutines are gone and callers lose the
\* connection.
Restart ==
    /\ Fault
    /\ \E s \in Screenings : pc[s] \in Running \cup {"queued"}
    /\ pc' = [s \in Screenings |-> IF pc[s] \in Running \cup {"queued"} THEN "gone" ELSE pc[s]]
    /\ free' = [r \in Requests |-> IF request[r] = None THEN 0 ELSE request[r].slots]
    /\ reply' = [r \in Requests |->
                    IF request[r] # None /\ reply[r] = None THEN "error" ELSE reply[r]]
    /\ UNCHANGED <<request, card, audited>>

ScreenStep(s) ==
    \/ Enter(s) \/ Raise(s) \/ Record(s)
    \/ \E v \in Verdicts : OwnershipAnswer(s, v)
    \/ \E a \in Answers : LlmAnswer(s, a)

Next ==
    \/ \E r \in Requests : Respond(r) \/ \E order \in Order : Submit(r, order)
    \/ \E s \in Screenings : ScreenStep(s)
    \/ Restart

\* Every await ends: the clients of the rules service and of the model have
\* time-outs, the audit writer runs in a thread.  Semaphores wake their waiters
\* in order.
Spec ==
    /\ Init /\ [][Next]_vars
    /\ \A s \in Screenings : WF_vars(ScreenStep(s))
    /\ \A r \in Requests : WF_vars(Respond(r))

-----------------------------------------------------------------------------
(* Properties.                                                             *)

TypeOK ==
    /\ request \in [Requests -> Order \cup {None}]
    /\ free \in [Requests -> 0..Cardinality(Candidates)]
    /\ pc \in [Screenings -> Running \cup {"none", "queued", "done", "raised", "gone"}]
    /\ card \in [Screenings -> Card \cup {None}]
    /\ audited \in [Screenings -> {None, "qualified", "disqualified", "lost"}]
    /\ reply \in [Requests -> {None, "ok", "error"}] /\ faults \in 0..MaxFaults

\* Slots are neither lost nor invented, by errors, blocked candidates or the
\* screenings that outlive their request.
SlotsKept ==
    \A r \in Requests : request[r] # None =>
        free[r] + Cardinality({s \in Of(r) : pc[s] \in Running}) = request[r].slots

\* A request is answered in full or with an error, although screenings end in any
\* order and some outlive the request: a reply holds the scorecard of every
\* candidate, and each has gone through the audit log first, with the same
\* decision, unless ownership blocked it.
RepliedIsAudited ==
    \A r \in Requests : reply[r] = "ok" => \A s \in Of(r) :
        /\ pc[s] = "done" /\ card[s] # None
        /\ card[s].blocked \/ audited[s] \in {Decision(s), "lost"}

Complete(rs) ==
    /\ Len(rs) = Cardinality(Criteria) /\ {rs[i].key : i \in DOMAIN rs} = Criteria
Counting == {k \in Criteria : Severity[k] # "informational"}
Met(rs)  == {rs[i].key : i \in {j \in DOMAIN rs : rs[j].passed}}

\* All must_haves, and the threshold over the criteria that are not
\* informational, in exact numbers.
RubricSays(rs, velocity) ==
    /\ {k \in Criteria : Severity[k] = "must_have"} \subseteq Met(rs)
    /\ Counting # {} \/ ThresholdFor(velocity) = 0
    /\ 100 * Cardinality(Met(rs) \cap Counting) >= ThresholdFor(velocity) * Cardinality(Counting)

\* The score is the threshold that velocity lowered, to the point.
OnTheLine(rs, velocity) ==
    /\ velocity /\ Threshold > 10
    /\ 100 * Cardinality(Met(rs) \cap Counting) = ThresholdFor(velocity) * Cardinality(Counting)

\* When the model returns every criterion it was asked for exactly once, nobody
\* is qualified whom the rubric does not qualify; and whom it qualifies is
\* qualified, unless the score is exactly the threshold lowered for velocity,
\* where the subtraction of doubles decides.
DecisionFollowsRubric ==
    \A s \in Screenings : card[s] # None /\ ~card[s].blocked /\ Complete(card[s].results) =>
        LET rs == card[s].results
            v  == request[s[1]].velocity
        IN  /\ card[s].qualified => RubricSays(rs, v)
            /\ RubricSays(rs, v) /\ ~OnTheLine(rs, v) => card[s].qualified

\* "at least 85% of the active criteria for a requisition evaluate True"
\* (requisition.py): whatever the model leaves out or adds, a candidate who is
\* qualified has met the rubric.
QualifiedMeansRubric ==
    \A s \in Screenings : card[s] # None /\ card[s].qualified =>
        RubricSays(card[s].results, request[s[1]].velocity)

\* Every request is answered.
RequestAnswered == \A r \in Requests : request[r] # None ~> reply[r] # None

=============================================================================
