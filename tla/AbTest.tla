------------------------------- MODULE AbTest -------------------------------
(***************************************************************************)
(* The A/B experiments of the outreach service: the arms of one experiment, *)
(* in the order of their first message, and the verdict of the             *)
(* two-proportion z-test, in integers.                                     *)
(*                                                                         *)
(* Operators marked [fault] are wrong versions of the one that follows     *)
(* them, used to check the properties.                                     *)
(***************************************************************************)
EXTENDS Integers, Sequences, FiniteSets, SequencesExt

CONSTANTS
    Arms,
    MaxSamples,     \* bound: messages of an arm
    MaxArms         \* bound: arms of the experiment

\* None, the verdict without a winner, is nobody's name.
ASSUME AbAssumption == MaxSamples \in Nat \ {0} /\ MaxArms \in Nat /\ "None" \notin Arms

VARIABLE arms       \* Experiment.arms: [name, sent, responded]

AbInit == arms = <<>>

KnownArms == {arms[i].name : i \in DOMAIN arms}

\* setdefault, then one more message.
ab_counts(arm, responded) ==
    LET hit == IF responded THEN 1 ELSE 0
    IN  IF arm \in KnownArms
        THEN [i \in DOMAIN arms |-> IF arms[i].name # arm THEN arms[i]
                                    ELSE [arms[i] EXCEPT !.sent = @ + 1, !.responded = @ + hit]]
        ELSE Append(arms, [name |-> arm, sent |-> 1, responded |-> hit])

\* POST /v1/outreach/ab/record
ab_record(arm, responded) ==
    /\ arm \notin KnownArms => Len(arms) < MaxArms
    /\ \A i \in DOMAIN arms : arms[i].name = arm => arms[i].sent < MaxSamples
    /\ arms' = ab_counts(arm, responded)

\* The experiments live in memory.
AbRestart == arms # <<>> /\ arms' = <<>>

AbNext == AbRestart \/ \E arm \in Arms, responded \in BOOLEAN : ab_record(arm, responded)

-----------------------------------------------------------------------------
(* two_proportion_z: p < 0.05, that is |z| > 1.959964, or z^2 > 3.841,   *)
(* where z^2 = num / den.                                                  *)

Difference(a, b)   == a.responded * b.sent - b.responded * a.sent
SquaredTerm(a, b)  == Difference(a, b) * Difference(a, b) * (a.sent + b.sent)
VarianceTerm(a, b) ==
    a.sent * b.sent * (a.responded + b.responded) * (a.sent + b.sent - a.responded - b.responded)

Significant(a, b) ==
    /\ VarianceTerm(a, b) > 0
    /\ 1000 * SquaredTerm(a, b) > 3841 * VarianceTerm(a, b)

\* [fault] whoever has more replies.
MoreReplies(a, b) == IF a.responded > b.responded THEN a.name ELSE b.name

BetterRate(a, b) == IF Difference(a, b) > 0 THEN a.name ELSE b.name

NoWinner == "None"

two_proportion_z(a, b) == IF Significant(a, b) THEN BetterRate(a, b) ELSE NoWinner

\* GET /v1/outreach/ab/{key}: a verdict on two arms only.
evaluate_ab == IF Len(arms) # 2 THEN NoWinner ELSE two_proportion_z(arms[1], arms[2])

-----------------------------------------------------------------------------
(* Properties.                                                             *)

AbTypeOK ==
    /\ arms \in Seq([name : Arms, sent : 1..MaxSamples, responded : 0..MaxSamples])
    /\ Cardinality(KnownArms) = Len(arms) /\ \A i \in DOMAIN arms : arms[i].responded <= arms[i].sent

\* The winner has the better rate of replies, and is the same whichever arm sent
\* the first message; arms with equal rates have no winner.
WinnerIsBetter ==
    Len(arms) = 2 =>
        /\ evaluate_ab = two_proportion_z(arms[2], arms[1])
        /\ \A a, b \in {arms[1], arms[2]} : evaluate_ab = a.name /\ a # b => Difference(a, b) > 0

=============================================================================
