----------------------------- MODULE Interview -----------------------------
(***************************************************************************)
(* The interview service: a chat over the questions of a rubric, kept in    *)
(* the memory of the service, and the evaluation of a transcript.  Turns    *)
(* are numbers of questions (0: the farewell).  The client posts an answer  *)
(* again when no reply came; a chat handler has no await, so it is one      *)
(* step.  Nothing ties the transcript a client has evaluated to a session.  *)
(*                                                                         *)
(* Operators marked [fault] are wrong versions of the one that follows     *)
(* them, used to check the properties.                                     *)
(***************************************************************************)
EXTENDS Integers, Sequences, FiniteSets, SequencesExt

CONSTANTS
    Roles,          \* role types that clients ask for
    Evaluations,    \* what the model may answer to a transcript
    MaxAnswers,     \* bound: answers a service takes for a session
    MaxChatFaults   \* bound: lost replies, failed calls, restarts

\* Weights in tenths, in the order of the questions.
SALES_RUBRIC   == <<15, 12, 10, 10, 13>>
SE_RUBRIC      == <<15, 15, 10, 10>>
CLEARED_RUBRIC == <<15, 13, 10, 10>>

RUBRICS == [sales |-> SALES_RUBRIC, sales_engineering |-> SE_RUBRIC, cleared |-> CLEARED_RUBRIC]

for_role(role) == IF role \in DOMAIN RUBRICS THEN RUBRICS[role] ELSE SALES_RUBRIC

pass_threshold == 35

\* Scores in tenths, 0..50 by the schema; the weight is the model's own, and the
\* negative ones, which the schema admits and no prompt asks for, are left out.
DimensionScore == [score : 0..50, weight : Nat]

\* json: text that parses (perhaps in a code fence); valid: fields of the types
\* DimensionScore, Recommendation and Scorecard ask for.
ASSUME InterviewAssumption ==
    /\ \A e \in Evaluations : /\ {e.json, e.valid, e.high} \subseteq BOOLEAN
                              /\ e.dims \in Seq(DimensionScore)
    /\ {MaxAnswers, MaxChatFaults} \subseteq Nat

VARIABLES
    sessions,       \* the InterviewSession in memory, at most one here
    shown,          \* the question the candidate has before them; -1 if none
    evaluations,    \* requests to /v1/interview/evaluate, at most one here
    chatFaults

interviewVars == <<sessions, shown, evaluations, chatFaults>>

InterviewInit == sessions = <<>> /\ shown = -1 /\ evaluations = <<>> /\ chatFaults = 0

ChatFault == chatFaults < MaxChatFaults /\ chatFaults' = chatFaults + 1

-----------------------------------------------------------------------------
(* Chat.                                                                   *)

\* [fault] the next question is the first one.
FromTheFirst(role) == [role |-> role, asked |-> <<1>>, answers |-> <<>>, next |-> 0, completed |-> FALSE]

\* The first question is asked with the intro; next_question_index counts from 0.
\* asked: the interviewer's turns; answers: per candidate's turn the question
\* that the candidate answered.
start_chat(role) == [role |-> role, asked |-> <<1>>, answers |-> <<>>, next |-> 1, completed |-> FALSE]

submit_answer(s, about) ==
    IF s.next >= Len(for_role(s.role))
    THEN [s EXCEPT !.answers = Append(@, about), !.completed = TRUE, !.asked = Append(@, 0)]
    ELSE [s EXCEPT !.answers = Append(@, about), !.asked = Append(@, s.next + 1), !.next = @ + 1]

chat_start ==
    /\ shown = -1 /\ sessions = <<>>
    /\ \E role \in Roles : sessions' = <<start_chat(role)>>
    /\ shown' = 1
    /\ UNCHANGED <<evaluations, chatFaults>>

\* The client hears the next question, or asks again.  A service that knows no
\* session answers 404, and the client gives up.
chat_answer ==
    /\ shown # -1
    /\ IF sessions = <<>> THEN shown' = -1 /\ UNCHANGED <<sessions, chatFaults>>
       ELSE /\ Len(sessions[1].answers) < MaxAnswers
            /\ sessions' = <<submit_answer(sessions[1], shown)>>
            /\ \/ shown' = Last(sessions'[1].asked) /\ UNCHANGED chatFaults
               \/ ChatFault /\ UNCHANGED shown
    /\ UNCHANGED evaluations

-----------------------------------------------------------------------------
(* Evaluation.                                                             *)

Total(dims, f(_)) == FoldLeft(LAMBDA sum, d : sum + f(d), 0, dims)

\* [fault] the average is taken over the number of dimensions.
PerDimension(dims) == 10 * Len(dims)

\* sum of the weights, or 1
weight_total(dims) ==
    LET sum == Total(dims, LAMBDA d : d.weight) IN IF sum = 0 THEN 10 ELSE sum

QualifiedBy(dims) ==
    Total(dims, LAMBDA d : d.score * d.weight) >= pass_threshold * weight_total(dims)

\* The comment asks for a variance above 1, the code for a spread of 2.5.
MixedSignals(dims) == \E i, j \in DOMAIN dims : dims[i].score - dims[j].score >= 25

_stub_eval(rubric) == [i \in DOMAIN rubric |-> [score |-> 30, weight |-> rubric[i]]]

Scorecard(dims, high) ==
    [dims |-> dims, qualified |-> QualifiedBy(dims),
     escalations |-> (IF high THEN {"high_value_interview"} ELSE {})
                     \cup (IF MixedSignals(dims) THEN {"mixed_signals"} ELSE {})]

At(pc) == evaluations # <<>> /\ evaluations[1].pc = pc

evaluate(role) ==
    /\ evaluations = <<>>
    /\ evaluations' = <<[role |-> role, pc |-> "model", card |-> <<>>, stub |-> FALSE]>>
    /\ UNCHANGED <<sessions, shown, chatFaults>>

CardOf(e, role) ==
    IF e.json THEN Scorecard(e.dims, e.high) ELSE Scorecard(_stub_eval(for_role(role)), FALSE)

\* The model's answer becomes a scorecard, or an exception (500).
evaluate_transcript(e) ==
    /\ At("model")
    /\ evaluations' =
          IF e.json /\ ~e.valid THEN [evaluations EXCEPT ![1].pc = "raised"]
          ELSE [evaluations EXCEPT ![1].pc = "audit", ![1].stub = ~e.json,
                                   ![1].card = <<CardOf(e, evaluations[1].role)>>]
    /\ UNCHANGED <<sessions, shown, chatFaults>>

\* The audit is awaited before the scorecard is returned; its failure is only logged.
AuditEvaluation ==
    /\ At("audit")
    /\ evaluations' = [evaluations EXCEPT ![1].pc = "done"]
    /\ UNCHANGED <<sessions, shown, chatFaults>>

\* Sessions are in memory only.
InterviewRestart ==
    /\ ChatFault /\ sessions' = <<>>
    /\ evaluations' = IF At("model") \/ At("audit") THEN [evaluations EXCEPT ![1].pc = "raised"]
                      ELSE evaluations
    /\ UNCHANGED shown

InterviewNext ==
    \/ chat_start \/ chat_answer \/ AuditEvaluation \/ InterviewRestart
    \/ \E role \in Roles : evaluate(role)
    \/ \E e \in Evaluations : evaluate_transcript(e)

-----------------------------------------------------------------------------
(* Properties.                                                             *)

InterviewTypeOK ==
    /\ \A s \in ToSet(sessions) :
        /\ s.role \in Roles /\ s.next \in Nat /\ s.completed \in BOOLEAN
        /\ s.asked \in Seq(0..5) /\ Len(s.asked) = Len(s.answers) + 1
    /\ shown \in -1..5 /\ chatFaults \in 0..MaxChatFaults
    /\ \A v \in ToSet(evaluations) : v.pc \in {"model", "audit", "done", "raised"}

\* A session asks every question of its rubric once, in order, then says
\* goodbye; it is completed exactly when as many answers came as there are
\* questions; and an answer is filed under another question than the one the
\* candidate had before them only behind an answer that was posted twice.
Misfiled(s) == {i \in DOMAIN s.answers : s.answers[i] # s.asked[i]}
Repeats(s, i) == {j \in 2..i : s.answers[j] = s.answers[j - 1]}
QuestionsOnceInOrder ==
    \A s \in ToSet(sessions) :
        LET n == Len(for_role(s.role))
        IN  /\ \A i \in DOMAIN s.asked : s.asked[i] = IF i <= n THEN i ELSE 0
            /\ s.completed <=> Len(s.answers) >= n
            /\ \A i \in Misfiled(s) : Cardinality(Repeats(s, i)) \in 1..chatFaults

\* Nobody qualifies without a score of the threshold or more, whatever weights
\* the model makes up; so nobody does on the stub, which stands for an answer
\* that could not be read.
QualifiedHasAGoodScore ==
    \A v \in ToSet(evaluations) : v.card # <<>> /\ v.card[1].qualified =>
        /\ ~v.stub
        /\ \E i \in DOMAIN v.card[1].dims : v.card[1].dims[i].score >= pass_threshold

\* A chat asks what its rubric asks, through answers that are repeated or late, and
\* an evaluation qualifies on a score alone, though the model's text be unreadable.
\* Nothing in the code ties the two: the transcript to evaluate is the caller's.
SessionSound == QuestionsOnceInOrder /\ QualifiedHasAGoodScore

=============================================================================
