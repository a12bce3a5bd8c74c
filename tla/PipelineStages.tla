--------------------------- MODULE PipelineStages ---------------------------
(***************************************************************************)
(* The stages of a candidate's pipeline.  The service keeps no stage: a     *)
(* recruiter posts from where, by the copy it holds, to where it moves the  *)
(* candidate.  The transitions that were accepted are the event log from    *)
(* which client-advisory diagnoses a stalled pipeline.                     *)
(*                                                                         *)
(* Operators marked [fault] are wrong versions of the one that follows     *)
(* them, used to check the properties.                                     *)
(***************************************************************************)
EXTENDS Integers, Sequences, FiniteSets, SequencesExt, FiniteSetsExt

CONSTANTS
    Recruiters,     \* whoever holds a copy of the candidate's stage
    MaxSteps        \* bound: accepted transitions

ASSUME StagesAssumption == MaxSteps \in Nat

Stage == {"intake", "sourcing", "screening", "outreach", "interview", "submission", "offer",
          "onboarding", "placed", "declined", "falloff"}

TRANSITIONS ==
    [s \in Stage |->
        CASE s = "intake"     -> {"sourcing", "screening", "declined"}
          [] s = "sourcing"   -> {"screening", "declined"}
          [] s = "screening"  -> {"outreach", "declined", "submission"}
          [] s = "outreach"   -> {"interview", "screening", "declined"}
          [] s = "interview"  -> {"submission", "outreach", "declined", "offer"}
          [] s = "submission" -> {"offer", "interview", "declined"}
          [] s = "offer"      -> {"onboarding", "declined", "falloff"}
          [] s = "onboarding" -> {"placed", "falloff"}
          [] s = "falloff"    -> {"screening", "submission"}
          [] OTHER            -> {}]

VARIABLES
    copy,       \* recruiter -> the stage it believes in
    decided     \* the accepted transitions, in order

stageVars == <<copy, decided>>

StagesInit == copy = [r \in Recruiters |-> "intake"] /\ decided = <<>>

\* [fault] steps may be taken back.
EitherWay(from, to) == to \in TRANSITIONS[from] \/ from \in TRANSITIONS[to]

can_transition(from, to) == to \in TRANSITIONS[from]

\* 409 unless the table allows it.  Nothing is compared with the last decision:
\* two recruiters move the candidate from copies of different age.
transition(r, to) ==
    /\ can_transition(copy[r], to)
    /\ Len(decided) < MaxSteps
    /\ decided' = Append(decided, [from |-> copy[r], to |-> to])
    /\ copy' = [copy EXCEPT ![r] = to]

\* A recruiter looks the candidate up.
LookUp(r) ==
    /\ decided # <<>>
    /\ copy' = [copy EXCEPT ![r] = Last(decided).to]
    /\ UNCHANGED decided

StagesNext == \E r \in Recruiters : LookUp(r) \/ \E to \in Stage : transition(r, to)

-----------------------------------------------------------------------------
(* client-advisory: POST /v1/advisory/stalled.                             *)

stage_order == <<"sourcing", "screening", "outreach", "interview", "submission", "offer">>

Entered(s) == Cardinality({i \in DOMAIN decided : decided[i].to = s})
LeftFor(s, to) == Cardinality({i \in DOMAIN decided : decided[i].from = s /\ decided[i].to = to})
LeftAtAll(s) == Cardinality({i \in DOMAIN decided : decided[i].from = s})

\* Of the candidates of a stage, those who did not go on to the next one.
Denominator(i) == Max({Entered(stage_order[i]), LeftAtAll(stage_order[i]), 1})
Passed(i)      == LeftFor(stage_order[i], stage_order[i + 1])
Lost(i)        == Denominator(i) - Passed(i)
Judged         == {i \in 1..5 : Entered(stage_order[i]) + LeftAtAll(stage_order[i]) > 0}

\* [fault] the worst ratio wins, whatever it is a ratio of.
ByRatio(i, j) == Lost(i) * Denominator(j) >= Lost(j) * Denominator(i)

\* score = lost * (1 - out / denominator), compared without the fractions.
AtLeast(i, j) == Lost(i) * Lost(i) * Denominator(j) >= Lost(j) * Lost(j) * Denominator(i)

\* The first stage whose score no other exceeds; 0 when there is no activity.
drop_off_stage ==
    LET worst == {i \in Judged : \A j \in Judged : AtLeast(i, j)}
    IN  IF worst = {} THEN 0 ELSE Min(worst)

\* ratio < 0.3
low_conversion == drop_off_stage # 0 /\ 10 * Passed(drop_off_stage) < 3 * Denominator(drop_off_stage)

\* The stage that was entered most often, the first of them to appear.
bottleneck ==
    LET most == {i \in DOMAIN decided : \A j \in DOMAIN decided : Entered(decided[i].to) >= Entered(decided[j].to)}
    IN  IF most = {} THEN "None" ELSE decided[Min(most)].to

-----------------------------------------------------------------------------
(* Properties.                                                             *)

StagesTypeOK ==
    /\ copy \in [Recruiters -> Stage]
    /\ decided \in Seq([from : Stage, to : Stage]) /\ Len(decided) <= MaxSteps

\* No placement without screening, offer and onboarding, in this order, however
\* many recruiters move the candidate and however old their copies are.
Before(i, s, t) == \E j \in 1..i : decided[j].to = t /\ \E k \in 1..j : decided[k].to = s
PlacedWasVetted ==
    \A i \in DOMAIN decided : decided[i].to = "placed" =>
        Before(i, "screening", "offer") /\ Before(i, "offer", "onboarding")

\* The diagnosis that blames a stage for low conversion names one that lost a
\* candidate, and no stage both lost more of them and kept a smaller share.
BlamesTheWorst ==
    low_conversion =>
        LET d == drop_off_stage
        IN  /\ Lost(d) > 0
            /\ ~\E i \in Judged : Lost(i) > Lost(d) /\ Passed(i) * Denominator(d) <= Passed(d) * Denominator(i)

=============================================================================
