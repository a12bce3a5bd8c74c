--------------------------- MODULE ScreeningProofs ---------------------------
(***************************************************************************)
(* Slots: whatever takes a screening out of its running part gives back the *)
(* one slot it took.  Replies: a screening is done only after the audit log *)
(* has answered, with the card it was scored with, or when it was blocked.  *)
(* Decisions: a list of results that has every criterion of the rubric once *)
(* is a bijection onto the rubric, so counting results is counting criteria.*)
(***************************************************************************)
EXTENDS Screening, FiniteSetTheorems, TLAPS

Labels == Running \cup {"none", "queued", "done", "raised", "gone"}

StateTyped ==
    /\ request \in [Requests -> Order \cup {None}]
    /\ pc \in [Screenings -> Labels]
    /\ card \in [Screenings -> Card \cup {None}]
    /\ audited \in [Screenings -> {None, "qualified", "disqualified", "lost"}]
    /\ reply \in [Requests -> {None, "ok", "error"}] /\ faults \in 0..MaxFaults

RunningOf(r) == {s \in Of(r) : pc[s] \in Running}

\* TypeOK's bounds on slots need to know who holds them.
SlotsInv ==
    /\ free \in [Requests -> Nat]
    /\ \A r \in Requests :
        /\ request[r] = None => free[r] = 0
        /\ request[r] # None => free[r] + Cardinality(RunningOf(r)) = request[r].slots

\* A call that was not made has no screenings and no reply.
NotAsked ==
    \A r \in Requests : request[r] = None =>
        reply[r] = None /\ \A s \in Of(r) : pc[s] = "none" /\ card[s] = None

\* A card shows the decision on one of the answers of the model.
CardInv ==
    \A s \in Screenings : card[s] # None /\ ~card[s].blocked =>
        \E a \in Answers : card[s] = Scored(s, a)

\* A screening goes from its card to the audit log and from there to its end.
ProgressInv ==
    \A s \in Screenings :
        /\ pc[s] = "audit" => card[s] # None
        /\ pc[s] = "done" =>
            card[s] # None /\ (card[s].blocked \/ audited[s] \in {Decision(s), "lost"})

RepliesInv == \A r \in Requests : reply[r] = "ok" => \A s \in Of(r) : pc[s] = "done"

Inv == StateTyped /\ SlotsInv /\ NotAsked /\ CardInv /\ ProgressInv /\ RepliesInv

-----------------------------------------------------------------------------

LEMMA CountsTyped ==
    /\ IsFiniteSet(Candidates) /\ IsFiniteSet(Criteria)
    /\ Cardinality(Candidates) \in Nat /\ MaxFaults \in Nat
  BY ScreeningAssumption, FS_CardinalityType

LEMMA ScreeningIsPair ==
    ASSUME NEW s \in Screenings
    PROVE  s[1] \in Requests /\ s[2] \in Candidates /\ s \in Of(s[1])
  BY DEF Screenings, Of

LEMMA OfFinite == \A r \in Requests : IsFiniteSet(Of(r))
<1> SUFFICES ASSUME NEW r \in Requests PROVE IsFiniteSet(Of(r))
  OBVIOUS
<1>1. IsFiniteSet({r} \X Candidates)
  BY CountsTyped, FS_Singleton, FS_Product
<1>2. Of(r) \in SUBSET ({r} \X Candidates)
  BY DEF Of, Screenings
<1> QED  BY <1>1, <1>2, FS_Subset

LEMMA RunningFinite ==
    \A r \in Requests : IsFiniteSet(RunningOf(r)) /\ Cardinality(RunningOf(r)) \in Nat
<1> SUFFICES ASSUME NEW r \in Requests
             PROVE  IsFiniteSet(RunningOf(r)) /\ Cardinality(RunningOf(r)) \in Nat
  OBVIOUS
<1>1. RunningOf(r) \in SUBSET Of(r)
  BY DEF RunningOf
<1> QED  BY <1>1, OfFinite, FS_Subset, FS_CardinalityType

\* Every finite set can be listed.
LEMMA ListOfSet ==
    ASSUME NEW S, IsFiniteSet(S)
    PROVE  /\ SetToSeq(S) \in [1..Cardinality(S) -> S] /\ Cardinality(S) \in Nat
           /\ IsInjective(SetToSeq(S)) /\ \A x \in S : \E i \in 1..Cardinality(S) : SetToSeq(S)[i] = x
<1>1. Cardinality(S) \in Nat /\ ExistsBijection(1..Cardinality(S), S)
  BY FS_CardinalityType
<1>2. \E f \in [1..Cardinality(S) -> S] : IsInjective(f)
  BY <1>1 DEF ExistsBijection, Bijection, Injection
<1>3. SetToSeq(S) \in [1..Cardinality(S) -> S] /\ IsInjective(SetToSeq(S))
  BY <1>2 DEF SetToSeq
<1>4. SetToSeq(S) \in Injection(1..Cardinality(S), S)
  BY <1>3 DEF Injection
<1>5. IsFiniteSet(1..Cardinality(S)) /\ Cardinality(1..Cardinality(S)) = Cardinality(S)
  BY <1>1, FS_Interval
<1>6. SetToSeq(S) \in Surjection(1..Cardinality(S), S)
  BY <1>4, <1>5, FS_Injection
<1> QED  BY <1>1, <1>3, <1>6 DEF Surjection

\* What the predicates and the model say are lists of results.
LEMMA ResultsTyped ==
    /\ \A c \in Candidates : Deterministic(c) \in Seq(Result)
    /\ \A a \in Answers : Judgments(a) \in Seq(Result)
<1>1. ASSUME NEW c \in Candidates PROVE Deterministic(c) \in Seq(Result)
  <2> DEFINE k == SetToSeq(Criteria \ Judged)
             n == Cardinality(Criteria \ Judged)
  <2>1. IsFiniteSet(Criteria \ Judged)
    BY CountsTyped, FS_Subset
  <2>2. k \in [1..n -> Criteria \ Judged] /\ n \in Nat
    BY <2>1, ListOfSet
  <2> HIDE DEF k, n
  <2>3. \A i \in 1..n :
          [key |-> k[i], severity |-> Severity[k[i]], passed |-> k[i] \in Facts[c]] \in Result
    BY <2>2, ScreeningAssumption DEF Result
  <2>4. Deterministic(c) = [i \in 1..n |->
          [key |-> k[i], severity |-> Severity[k[i]], passed |-> k[i] \in Facts[c]]]
    BY <2>2 DEF Deterministic, k
  <2> QED  BY <2>2, <2>3, <2>4
<1>2. ASSUME NEW a \in Answers PROVE Judgments(a) \in Seq(Result)
  <2>1. a \in Seq(Judgment)
    BY ScreeningAssumption
  <2>2. \A i \in DOMAIN a : Judgments(a)[i] \in Result
    <3> SUFFICES ASSUME NEW i \in DOMAIN a PROVE Judgments(a)[i] \in Result
      OBVIOUS
    <3>1. a[i] \in Judgment
      BY <2>1
    <3> QED  BY <3>1, ScreeningAssumption DEF Judgments, Judgment, Result, Severities
  <2> QED  BY <2>1, <2>2 DEF Judgments
<1> QED  BY <1>1, <1>2

LEMMA ScoredTyped ==
    ASSUME NEW s \in Screenings, NEW a \in Answers
    PROVE  Scored(s, a) \in Card /\ ~Scored(s, a).blocked
<1>1. Deterministic(s[2]) \o Judgments(a) \in Seq(Result)
  BY ScreeningIsPair, ResultsTyped
<1> QED  BY <1>1 DEF Scored, Card

LEMMA CardIsNotNone == \A x \in Card : x # None
  BY NoneAssumption

LEMMA InvInit == Init => Inv
<1> SUFFICES ASSUME Init PROVE Inv
  OBVIOUS
<1>1. StateTyped /\ CardInv /\ NotAsked
  BY CountsTyped, ScreeningIsPair DEF Init, StateTyped, Labels, CardInv, NotAsked, Of
<1>2. SlotsInv
  BY DEF Init, SlotsInv
<1>3. ProgressInv
  BY DEF Init, ProgressInv
<1>4. RepliesInv
  BY NoneAssumption DEF Init, RepliesInv
<1> QED  BY <1>1, <1>2, <1>3, <1>4 DEF Inv

-----------------------------------------------------------------------------
(* One screening moves.                                                    *)

\* The slots of a request, when one of its screenings takes one, gives one back
\* or keeps the one it has.
LEMMA SlotsMove ==
    ASSUME StateTyped, SlotsInv, NEW s \in Screenings, UNCHANGED request, request[s[1]] # None,
           NEW l \in Labels, Goto(s, l),
           \/ l \in Running /\ pc[s] \notin Running /\ Acquire(s[1])
           \/ l \notin Running /\ pc[s] \in Running /\ Release(s)
           \/ l \in Running /\ pc[s] \in Running /\ UNCHANGED free
    PROVE  SlotsInv'
<1> DEFINE r == s[1]
<1>1. r \in Requests /\ s \in Of(r)
  BY ScreeningIsPair
<1>2. pc' = [pc EXCEPT ![s] = l] /\ pc \in [Screenings -> Labels] /\ free \in [Requests -> Nat]
  BY DEF Goto, StateTyped, SlotsInv
<1>3. \A q \in Requests : Of(q) \subseteq Screenings /\ (q # r => s \notin Of(q))
  BY DEF Of
<1>4. \A q \in Requests \ {r} : RunningOf(q)' = RunningOf(q) /\ free'[q] = free[q]
  BY <1>1, <1>2, <1>3 DEF RunningOf, Acquire, Release, Of
<1>5. request[r] \in Order /\ free[r] + Cardinality(RunningOf(r)) = request[r].slots
  BY <1>1 DEF StateTyped, SlotsInv
<1>6. IsFiniteSet(RunningOf(r)) /\ Cardinality(RunningOf(r)) \in Nat
  BY <1>1, RunningFinite
<1>7. free' \in [Requests -> Nat] /\ free'[r] + Cardinality(RunningOf(r)') = request[r].slots
  <2>1. CASE l \in Running /\ pc[s] \notin Running /\ Acquire(s[1])
    <3>1. RunningOf(r)' = RunningOf(r) \cup {s} /\ s \notin RunningOf(r)
      BY <2>1, <1>1, <1>2, <1>3 DEF RunningOf, Of
    <3>2. Cardinality(RunningOf(r)') = Cardinality(RunningOf(r)) + 1
      BY <3>1, <1>6, FS_AddElement
    <3>3. free[r] > 0 /\ free' = [free EXCEPT ![r] = free[r] - 1]
      BY <2>1 DEF Acquire
    <3>4. free[r] \in Nat
      BY <1>1, <1>2
    <3>5. free' \in [Requests -> Nat] /\ free'[r] = free[r] - 1
      BY <3>3, <3>4, <1>1, <1>2
    <3> QED  BY <3>2, <3>4, <3>5, <1>5, <1>6
  <2>2. CASE l \notin Running /\ pc[s] \in Running /\ Release(s)
    <3>1. RunningOf(r)' = RunningOf(r) \ {s} /\ s \in RunningOf(r)
      BY <2>2, <1>1, <1>2, <1>3 DEF RunningOf, Of
    <3>2. Cardinality(RunningOf(r)') = Cardinality(RunningOf(r)) - 1
      BY <3>1, <1>6, FS_RemoveElement
    <3>3. free' = [free EXCEPT ![r] = free[r] + 1]
      BY <2>2 DEF Release
    <3>4. free[r] \in Nat
      BY <1>1, <1>2
    <3>5. free' \in [Requests -> Nat] /\ free'[r] = free[r] + 1
      BY <3>3, <3>4, <1>1, <1>2
    <3> QED  BY <3>2, <3>4, <3>5, <1>5, <1>6
  <2>3. CASE l \in Running /\ pc[s] \in Running /\ UNCHANGED free
    <3>1. RunningOf(r)' = RunningOf(r)
      BY <2>3, <1>1, <1>2, <1>3 DEF RunningOf, Of
    <3> QED  BY <2>3, <3>1, <1>2, <1>5
  <2> QED  BY <2>1, <2>2, <2>3
<1> QED  BY <1>1, <1>4, <1>7 DEF SlotsInv

\* A step of one screening that is under way.
LEMMA ScreeningMoves ==
    ASSUME Inv, NEW s \in Screenings, UNCHANGED <<request, reply>>, faults' \in 0..MaxFaults,
           pc[s] \notin {"none", "done"}, NEW l \in Labels \ {"none"}, Goto(s, l), SlotsInv',
           card' = [card EXCEPT ![s] = card'[s]], card'[s] \in Card \cup {None},
           card'[s] # None /\ ~card'[s].blocked => \E a \in Answers : card'[s] = Scored(s, a),
           audited' = [audited EXCEPT ![s] = audited'[s]],
           audited'[s] \in {None, "qualified", "disqualified", "lost"},
           l = "audit" => card'[s] # None,
           l = "done" => card'[s] # None /\ (card'[s].blocked \/ audited'[s] \in {Decision(s)', "lost"})
    PROVE  Inv'
<1>1. s[1] \in Requests /\ s \in Of(s[1]) /\ request[s[1]] # None
  BY ScreeningIsPair DEF Inv, NotAsked
<1>2. pc' = [pc EXCEPT ![s] = l] /\ StateTyped
  BY DEF Goto, Inv
<1>3. StateTyped'
  BY <1>2 DEF StateTyped
<1>4. \A t \in Screenings : t # s =>
        pc'[t] = pc[t] /\ card'[t] = card[t] /\ audited'[t] = audited[t]
  BY <1>2 DEF StateTyped
<1>5. pc'[s] = l
  BY <1>2 DEF StateTyped
<1>6. \A r \in Requests : Of(r) \subseteq Screenings /\ (r # s[1] => s \notin Of(r))
  BY DEF Of
<1>7. NotAsked'
  BY <1>1, <1>4, <1>6 DEF Inv, NotAsked, Of
<1>8. CardInv'
  <2> SUFFICES ASSUME NEW t \in Screenings, card'[t] # None, ~card'[t].blocked
               PROVE  \E a \in Answers : card'[t] = Scored(t, a)'
    BY DEF CardInv
  <2>1. \A a \in Answers : Scored(t, a)' = Scored(t, a)
    BY DEF Scored
  <2>2. CASE t = s
    BY <2>1, <2>2
  <2>3. CASE t # s
    BY <2>1, <2>3, <1>4 DEF Inv, CardInv
  <2> QED  BY <2>2, <2>3
<1>9. ProgressInv'
  <2> SUFFICES ASSUME NEW t \in Screenings
               PROVE  /\ pc'[t] = "audit" => card'[t] # None
                      /\ pc'[t] = "done" =>
                            card'[t] # None /\ (card'[t].blocked \/ audited'[t] \in {Decision(t)', "lost"})
    BY DEF ProgressInv
  <2>1. CASE t = s
    BY <2>1, <1>5
  <2>2. CASE t # s
    <3>1. Decision(t)' = Decision(t)
      BY <2>2, <1>4 DEF Decision
    <3> QED  BY <2>2, <3>1, <1>4 DEF Inv, ProgressInv
  <2> QED  BY <2>1, <2>2
<1>10. RepliesInv'
  <2>1. \A t \in Screenings : pc[t] = "done" => pc'[t] = "done"
    BY <1>4
  <2> QED  BY <2>1, <1>6 DEF Inv, RepliesInv, Of
<1> QED  BY <1>3, <1>7, <1>8, <1>9, <1>10 DEF Inv

LEMMA ScreenStepInv ==
    ASSUME Inv, NEW s \in Screenings, ScreenStep(s)
    PROVE  Inv'
<1>1. /\ card \in [Screenings -> Card \cup {None}] /\ faults \in 0..MaxFaults
      /\ audited \in [Screenings -> {None, "qualified", "disqualified", "lost"}]
      /\ StateTyped /\ SlotsInv
  BY DEF Inv, StateTyped
<1>2. Fault => faults' \in 0..MaxFaults
  BY <1>1, CountsTyped DEF Fault
<1>3. pc[s] # "none" => request[s[1]] # None
  BY ScreeningIsPair DEF Inv, NotAsked
<1>4. /\ card[s] # None /\ ~card[s].blocked => \E a \in Answers : card[s] = Scored(s, a)
      /\ pc[s] = "audit" => card[s] # None
  BY DEF Inv, CardInv, ProgressInv
<1>5. Running \subseteq Labels \ {"none"} /\ {"raised", "done"} \subseteq Labels \ {"none"}
      /\ {"raised", "done", "queued", "none"} \cap Running = {}
  BY DEF Labels, Running
<1>6. CASE Enter(s)
  <2> DEFINE l == IF request[s[1]].client THEN "rules" ELSE "llm"
  <2>1. pc[s] = "queued" /\ Acquire(s[1]) /\ Goto(s, l) /\ l \in Running
    BY <1>6 DEF Enter, Running
  <2>2. UNCHANGED <<request, card, audited, reply, faults>>
    BY <1>6 DEF Enter
  <2>3. l \in Labels \ {"none"} /\ l # "audit" /\ l # "done"
    BY <1>5, <2>1
  <2> HIDE DEF l
  <2>4. SlotsInv'
    BY <1>1, <1>3, <1>5, <2>1, <2>2, <2>3, SlotsMove
  <2> QED  BY <1>1, <1>4, <2>1, <2>2, <2>3, <2>4, ScreeningMoves
<1>7. CASE Raise(s)
  <2>1. pc[s] \in Running /\ Release(s) /\ Goto(s, "raised") /\ faults' \in 0..MaxFaults
    BY <1>2, <1>7 DEF Raise, Running
  <2>2. UNCHANGED <<request, card, audited, reply>>
    BY <1>7 DEF Raise
  <2>3. SlotsInv'
    BY <1>1, <1>3, <1>5, <2>1, <2>2, SlotsMove
  <2> QED  BY <1>1, <1>4, <1>5, <2>1, <2>2, <2>3, ScreeningMoves
<1>8. ASSUME NEW v \in Verdicts, OwnershipAnswer(s, v)
      PROVE  Inv'
  <2>1. pc[s] = "rules" /\ pc[s] \in Running /\ UNCHANGED <<request, audited, reply, faults>>
    BY <1>8 DEF OwnershipAnswer, Running
  <2>2. CASE card' = [card EXCEPT ![s] = Blocked] /\ Release(s) /\ Goto(s, "done")
    <3>1. SlotsInv'
      BY <1>1, <1>3, <1>5, <2>1, <2>2, SlotsMove
    <3>2. card'[s] = Blocked /\ Blocked \in Card /\ Blocked.blocked
      BY <1>1, <2>2 DEF Blocked, Card
    <3> QED  BY <1>1, <1>5, <2>1, <2>2, <3>1, <3>2, CardIsNotNone, ScreeningMoves
  <2>3. CASE Goto(s, "llm") /\ UNCHANGED <<card, free>>
    <3>1. "llm" \in Running
      BY DEF Running
    <3>2. SlotsInv'
      BY <1>1, <1>3, <1>5, <2>1, <2>3, <3>1, SlotsMove
    <3> QED  BY <1>1, <1>4, <1>5, <2>1, <2>3, <3>1, <3>2, ScreeningMoves
  <2> QED  BY <1>8, <2>2, <2>3 DEF OwnershipAnswer
<1>9. ASSUME NEW a \in Answers, LlmAnswer(s, a)
      PROVE  Inv'
  <2>1. /\ pc[s] = "llm" /\ pc[s] \in Running /\ "audit" \in Running
        /\ Goto(s, "audit") /\ UNCHANGED <<request, free, audited, reply, faults>>
        /\ card' = [card EXCEPT ![s] = Scored(s, a)]
    BY <1>9 DEF LlmAnswer, AwaitAudit, Running
  <2>2. SlotsInv'
    BY <1>1, <1>3, <1>5, <2>1, SlotsMove
  <2>3. card'[s] = Scored(s, a) /\ Scored(s, a) \in Card
    BY <1>1, <2>1, ScoredTyped
  <2> QED  BY <1>1, <1>5, <2>1, <2>2, <2>3, CardIsNotNone, ScreeningMoves
<1>10. CASE Record(s)
  <2>1. /\ pc[s] = "audit" /\ pc[s] \in Running /\ Release(s) /\ Goto(s, "done")
        /\ UNCHANGED <<request, card, reply>> /\ faults' \in 0..MaxFaults
        /\ \/ audited' = [audited EXCEPT ![s] = Decision(s)]
           \/ audited' = [audited EXCEPT ![s] = "lost"]
    BY <1>1, <1>2, <1>10 DEF Record, Running
  <2>2. SlotsInv'
    BY <1>1, <1>3, <1>5, <2>1, SlotsMove
  <2>3. Decision(s)' = Decision(s) /\ Decision(s) \in {"qualified", "disqualified"}
    BY <2>1 DEF Decision
  <2>4. /\ audited'[s] \in {Decision(s), "lost"}
        /\ audited' = [audited EXCEPT ![s] = audited'[s]]
    BY <1>1, <2>1
  <2> QED  BY <1>1, <1>4, <1>5, <2>1, <2>2, <2>3, <2>4, ScreeningMoves
<1> QED  BY <1>6, <1>7, <1>8, <1>9, <1>10 DEF ScreenStep

-----------------------------------------------------------------------------
(* Requests.                                                               *)

LEMMA SubmitInv ==
    ASSUME Inv, NEW r \in Requests, NEW order \in Order, Submit(r, order)
    PROVE  Inv'
<1>1. /\ request[r] = None /\ request' = [request EXCEPT ![r] = order]
      /\ free' = [free EXCEPT ![r] = order.slots]
      /\ pc' = [s \in Screenings |-> IF s[1] = r THEN "queued" ELSE pc[s]]
      /\ UNCHANGED <<card, audited, reply, faults>>
  BY DEF Submit
<1>2. StateTyped /\ SlotsInv /\ order # None /\ order.slots \in Nat
  BY CountsTyped, NoneAssumption DEF Inv, Order
<1>3. reply[r] = None /\ \A s \in Of(r) : pc[s] = "none" /\ card[s] = None
  BY <1>1 DEF Inv, NotAsked
<1>4. StateTyped'
  BY <1>1, <1>2 DEF StateTyped, Labels
<1>5. /\ \A q \in Requests : Of(q) \subseteq Screenings
      /\ \A q \in Requests : \A s \in Of(q) : s[1] = q
  BY DEF Of
<1>6. SlotsInv'
  <2>1. free' \in [Requests -> Nat] /\ free'[r] = order.slots /\ request'[r] = order
    BY <1>1, <1>2 DEF SlotsInv, StateTyped
  <2>2. RunningOf(r)' = {}
    BY <1>1, <1>5 DEF RunningOf, Running, Of
  <2>3. \A q \in Requests \ {r} :
          RunningOf(q)' = RunningOf(q) /\ free'[q] = free[q] /\ request'[q] = request[q]
    BY <1>1, <1>2, <1>5 DEF RunningOf, StateTyped, SlotsInv, Of
  <2>4. free'[r] + Cardinality(RunningOf(r)') = order.slots
    BY <1>2, <2>1, <2>2, FS_EmptySet
  <2> QED  BY <1>2, <2>1, <2>3, <2>4 DEF SlotsInv
<1>7. NotAsked'
  BY <1>1, <1>2, <1>5 DEF Inv, NotAsked, StateTyped, Of
<1>8. CardInv'
  <2> SUFFICES ASSUME NEW t \in Screenings, card[t] # None, ~card[t].blocked
               PROVE  \E a \in Answers : card[t] = Scored(t, a)'
    BY <1>1 DEF CardInv
  <2>1. t[1] # r /\ t[1] \in Requests
    BY <1>3, ScreeningIsPair
  <2>2. request'[t[1]] = request[t[1]]
    BY <1>1, <1>2, <2>1 DEF StateTyped
  <2>3. \A a \in Answers : Scored(t, a)' = Scored(t, a)
    BY <2>2 DEF Scored
  <2> QED  BY <2>3 DEF Inv, CardInv
<1>9. ProgressInv'
  <2>1. \A s \in Screenings : pc'[s] \in {"audit", "done"} => pc'[s] = pc[s]
    BY <1>1
  <2>2. \A s \in Screenings : Decision(s)' = Decision(s)
    BY <1>1 DEF Decision
  <2> QED  BY <1>1, <2>1, <2>2 DEF Inv, ProgressInv
<1>10. RepliesInv'
  <2> SUFFICES ASSUME NEW q \in Requests, reply[q] = "ok", NEW s \in Of(q) PROVE pc'[s] = "done"
    BY <1>1 DEF RepliesInv, Of
  <2>1. q # r
    BY <1>3, NoneAssumption
  <2>2. pc[s] = "done"
    BY DEF Inv, RepliesInv
  <2> QED  BY <1>1, <1>5, <2>1, <2>2
<1> QED  BY <1>4, <1>6, <1>7, <1>8, <1>9, <1>10 DEF Inv

LEMMA RespondInv ==
    ASSUME Inv, NEW r \in Requests, Respond(r)
    PROVE  Inv'
<1>1. UNCHANGED <<request, free, pc, card, audited, faults>> /\ request[r] # None
  BY DEF Respond
<1>2. reply \in [Requests -> {None, "ok", "error"}]
  BY DEF Inv, StateTyped
<1>3. \/ AllDone(r) /\ reply' = [reply EXCEPT ![r] = "ok"]
      \/ reply' = [reply EXCEPT ![r] = "error"]
  BY DEF Respond
<1>4. StateTyped' /\ SlotsInv' /\ CardInv' /\ ProgressInv'
  BY <1>1, <1>2, <1>3 DEF Inv, StateTyped, SlotsInv, RunningOf, CardInv, Scored, ProgressInv, Decision
<1>5. NotAsked'
  BY <1>1, <1>2, <1>3 DEF Inv, NotAsked
<1>6. RepliesInv'
  BY <1>1, <1>2, <1>3 DEF Inv, RepliesInv, AllDone, Of
<1> QED  BY <1>4, <1>5, <1>6 DEF Inv

LEMMA RestartInv ==
    ASSUME Inv, Restart
    PROVE  Inv'
<1>1. /\ faults' \in 0..MaxFaults /\ UNCHANGED <<request, card, audited>>
      /\ pc' = [s \in Screenings |-> IF pc[s] \in Running \cup {"queued"} THEN "gone" ELSE pc[s]]
      /\ free' = [r \in Requests |-> IF request[r] = None THEN 0 ELSE request[r].slots]
      /\ reply' = [r \in Requests |->
                      IF request[r] # None /\ reply[r] = None THEN "error" ELSE reply[r]]
  BY CountsTyped DEF Restart, Fault, Inv, StateTyped
<1>2. StateTyped /\ \A r \in Requests : Of(r) \subseteq Screenings
  BY DEF Inv, Of
<1>3. StateTyped'
  BY <1>1, <1>2 DEF StateTyped, Labels
<1>4. \A r \in Requests : request[r] # None => request[r].slots \in Nat
  <2> SUFFICES ASSUME NEW r \in Requests, request[r] # None PROVE request[r].slots \in Nat
    OBVIOUS
  <2>1. request[r] \in Order
    BY <1>2 DEF StateTyped
  <2> QED  BY <2>1, CountsTyped DEF Order
<1>5. \A r \in Requests : RunningOf(r)' = {}
  BY <1>1, <1>2 DEF RunningOf, Running, Of
<1>6. SlotsInv'
  BY <1>1, <1>4, <1>5, FS_EmptySet DEF SlotsInv
<1>7. NotAsked'
  BY <1>1, <1>2 DEF Inv, NotAsked, Running, Of
<1>8. CardInv'
  BY <1>1 DEF Inv, CardInv, Scored
<1>9. ProgressInv'
  <2>1. \A s \in Screenings : pc'[s] \in {"audit", "done"} => pc'[s] = pc[s]
    BY <1>1
  <2>2. \A s \in Screenings : Decision(s)' = Decision(s)
    BY <1>1 DEF Decision
  <2> QED  BY <1>1, <2>1, <2>2 DEF Inv, ProgressInv
<1>10. RepliesInv'
  <2>1. \A s \in Screenings : pc[s] = "done" => pc'[s] = "done"
    BY <1>1 DEF Running
  <2>2. \A r \in Requests : reply'[r] = "ok" => reply[r] = "ok"
    BY <1>1
  <2> QED  BY <1>2, <2>1, <2>2 DEF Inv, RepliesInv, Of
<1> QED  BY <1>3, <1>6, <1>7, <1>8, <1>9, <1>10 DEF Inv

LEMMA InvStep == Inv /\ [Next]_vars => Inv'
<1> SUFFICES ASSUME Inv, [Next]_vars PROVE Inv'
  OBVIOUS
<1>1. CASE Next
  BY <1>1, RespondInv, SubmitInv, ScreenStepInv, RestartInv DEF Next
<1>2. CASE UNCHANGED vars
  BY <1>2 DEF vars, Inv, StateTyped, SlotsInv, RunningOf, NotAsked, CardInv, Scored, ProgressInv,
              Decision, RepliesInv
<1> QED  BY <1>1, <1>2

LEMMA InvAlways == Spec => []Inv
  BY InvInit, InvStep, PTL DEF Spec

-----------------------------------------------------------------------------

\* Slots of a request are neither lost nor invented.
THEOREM SlotsAreKept == Spec => []SlotsKept
<1>1. Inv => SlotsKept
  BY DEF Inv, SlotsInv, SlotsKept, RunningOf
<1> QED  BY <1>1, InvAlways, PTL

\* Types of requests, slots, screenings, cards and replies; no request ever has
\* more slots free than it was given.
THEOREM ScreeningTypeCorrect == Spec => []TypeOK
<1>1. Inv => TypeOK
  <2> SUFFICES ASSUME Inv PROVE TypeOK
    OBVIOUS
  <2>1. \A r \in Requests : free[r] \in 0..Cardinality(Candidates)
    <3> SUFFICES ASSUME NEW r \in Requests PROVE free[r] \in 0..Cardinality(Candidates)
      OBVIOUS
    <3>1. free[r] \in Nat /\ Cardinality(RunningOf(r)) \in Nat
      BY RunningFinite DEF Inv, SlotsInv
    <3>2. CASE request[r] = None
      BY <3>2, CountsTyped DEF Inv, SlotsInv
    <3>3. CASE request[r] # None
      <4>1. request[r] \in Order /\ free[r] + Cardinality(RunningOf(r)) = request[r].slots
        BY <3>3 DEF Inv, StateTyped, SlotsInv
      <4> QED  BY <3>1, <4>1, CountsTyped DEF Order
    <3> QED  BY <3>2, <3>3
  <2> QED  BY <2>1 DEF Inv, StateTyped, SlotsInv, TypeOK, Labels
<1> QED  BY <1>1, InvAlways, PTL

\* A reply holds a card for every candidate, and each card that ownership did
\* not block went through the audit log first, with the same decision.
THEOREM RepliesAreAudited == Spec => []RepliedIsAudited
<1>1. Inv => RepliedIsAudited
  BY DEF Inv, RepliesInv, ProgressInv, RepliedIsAudited, Of
<1> QED  BY <1>1, InvAlways, PTL

-----------------------------------------------------------------------------
(* The decision.                                                           *)

Keys(rs, I) == {rs[i].key : i \in I}

\* A list that has every criterion once has no criterion twice.
LEMMA CompleteIsInjective ==
    ASSUME NEW rs \in Seq(Result), Complete(rs)
    PROVE  \A i, j \in DOMAIN rs : rs[i].key = rs[j].key => i = j
<1> DEFINE n == Len(rs)
           f == [i \in 1..n |-> rs[i].key]
<1>1. n \in Nat /\ DOMAIN rs = 1..n /\ n = Cardinality(Criteria) /\ {rs[i].key : i \in 1..n} = Criteria
  BY DEF Complete
<1>2. f \in Surjection(1..n, Criteria)
  BY <1>1 DEF Surjection
<1>3. IsFiniteSet(1..n) /\ Cardinality(1..n) = Cardinality(Criteria)
  BY <1>1, FS_Interval
<1>4. f \in Injection(1..n, Criteria)
  BY <1>2, <1>3, FS_SurjSameCardinalityImpliesInj
<1> QED  BY <1>1, <1>4 DEF Injection, IsInjective

\* Counting results is counting their criteria.
LEMMA CountResults ==
    ASSUME NEW rs \in Seq(Result), Complete(rs), NEW I \in SUBSET DOMAIN rs
    PROVE  Cardinality(Keys(rs, I)) = Cardinality(I) /\ Cardinality(I) \in Nat
<1> DEFINE f == [i \in I |-> rs[i].key]
<1>1. Len(rs) \in Nat /\ DOMAIN rs = 1..Len(rs)
  OBVIOUS
<1>2. IsFiniteSet(I) /\ Cardinality(I) \in Nat
  <2>1. IsFiniteSet(DOMAIN rs)
    BY <1>1, FS_Interval
  <2> QED  BY <2>1, FS_Subset, FS_CardinalityType
<1>3. f \in Bijection(I, Keys(rs, I))
  <2>1. f \in [I -> Keys(rs, I)] /\ \A i, j \in I : f[i] = f[j] => i = j
    BY CompleteIsInjective DEF Keys
  <2>2. \A k \in Keys(rs, I) : \E i \in I : f[i] = k
    BY DEF Keys
  <2> QED  BY <2>1, <2>2 DEF Bijection, Injection, Surjection, IsInjective
<1> QED  BY <1>2, <1>3, FS_Bijection DEF ExistsBijection

\* In a complete list every criterion has the severity the rubric gives it: a
\* key the model was not asked for would be there twice.
LEMMA SeveritiesOfRubric ==
    ASSUME NEW c \in Candidates, NEW a \in Answers, Complete(Deterministic(c) \o Judgments(a))
    PROVE  \A i \in DOMAIN (Deterministic(c) \o Judgments(a)) :
              LET x == (Deterministic(c) \o Judgments(a))[i] IN x.severity = Severity[x.key]
<1> DEFINE D  == Deterministic(c)
           J  == Judgments(a)
           rs == D \o J
           n  == Cardinality(Criteria \ Judged)
           k  == SetToSeq(Criteria \ Judged)
<1>1. D \in Seq(Result) /\ J \in Seq(Result) /\ rs \in Seq(Result)
  BY ResultsTyped
<1>2. /\ n \in Nat /\ k \in [1..n -> Criteria \ Judged]
      /\ \A x \in Criteria \ Judged : \E i \in 1..n : k[i] = x
  <2>1. IsFiniteSet(Criteria \ Judged)
    BY CountsTyped, FS_Subset
  <2> QED  BY <2>1, ListOfSet
<1>3. DOMAIN D = 1..n /\ \A i \in 1..n : D[i].key = k[i] /\ D[i].severity = Severity[k[i]]
  BY <1>2 DEF Deterministic
<1>4. Len(D) = n
  BY <1>1, <1>2, <1>3
<1>5. DOMAIN J = DOMAIN a /\ \A j \in DOMAIN J :
        J[j].key = a[j].key /\ J[j].severity = IF a[j].key \in Judged THEN Severity[a[j].key] ELSE "must_have"
  BY DEF Judgments
<1>6. \A i \in DOMAIN rs : rs[i].key \in Criteria
  BY DEF Complete
<1> HIDE DEF D, J, n, k
<1>7. /\ DOMAIN rs = 1..n + Len(J) /\ Len(J) \in Nat /\ DOMAIN J = 1..Len(J)
      /\ \A i \in 1..n : rs[i] = D[i]
      /\ \A i \in n + 1..n + Len(J) : i - n \in DOMAIN J /\ rs[i] = J[i - n]
  BY <1>1, <1>2, <1>4
<1>8. \A i, j \in DOMAIN rs : rs[i].key = rs[j].key => i = j
  BY <1>1, CompleteIsInjective DEF D, J
<1> SUFFICES ASSUME NEW i \in DOMAIN rs PROVE rs[i].severity = Severity[rs[i].key]
  BY DEF D, J
<1> HIDE DEF rs
<1>9. CASE i \in 1..n
  BY <1>3, <1>7, <1>9
<1>10. CASE i \in n + 1..n + Len(J)
  <2>1. i - n \in DOMAIN J /\ rs[i] = J[i - n]
    BY <1>7, <1>10
  <2>2. rs[i].key \in Judged
    <3> SUFFICES ASSUME rs[i].key \notin Judged PROVE FALSE
      OBVIOUS
    <3>1. rs[i].key \in Criteria \ Judged
      BY <1>6
    <3>2. PICK j \in 1..n : k[j] = rs[i].key
      BY <1>2, <3>1
    <3>3. j \in DOMAIN rs /\ rs[j].key = rs[i].key
      BY <1>2, <1>3, <1>7, <3>2
    <3>4. i = j
      BY <1>8, <3>3
    <3> QED  BY <3>4, <1>2, <1>10
  <2> QED  BY <1>5, <2>1, <2>2
<1> QED  BY <1>2, <1>7, <1>9, <1>10

\* On a complete list with the rubric's severities, the decision is the rubric's
\* off the line, and never milder than the rubric.
LEMMA CountsAreRubric ==
    ASSUME NEW rs \in Seq(Result), Complete(rs), NEW v,
           \A i \in DOMAIN rs : rs[i].severity = Severity[rs[i].key]
    PROVE  /\ PassRatioOk(rs, v) /\ ~MustFail(rs) => RubricSays(rs, v)
           /\ RubricSays(rs, v) /\ ~OnTheLine(rs, v) => PassRatioOk(rs, v) /\ ~MustFail(rs)
<1> DEFINE A == Active(rs)
           P == {i \in A : rs[i].passed}
           T == ThresholdFor(v)
           met == Met(rs)
           counting == Counting
           must == {k \in Criteria : Severity[k] = "must_have"}
           up == v /\ Threshold \in RoundedUp
<1>1. {rs[i].key : i \in DOMAIN rs} = Criteria
  BY DEF Complete
<1>2. A \in SUBSET DOMAIN rs /\ P \in SUBSET DOMAIN rs
  BY DEF Active
<1>3. T \in Nat
  BY ScreeningAssumption DEF ThresholdFor
<1>4. Keys(rs, A) = counting
  <2>1. Keys(rs, A) \subseteq counting
    BY <1>1 DEF Keys, Active, Counting
  <2>2. counting \subseteq Keys(rs, A)
    BY <1>1 DEF Keys, Active, Counting
  <2> QED  BY <2>1, <2>2
<1>5. Keys(rs, P) = met \cap counting
  <2>1. Keys(rs, P) \subseteq met \cap counting
    BY <1>1 DEF Keys, Active, Met, Counting
  <2>2. ASSUME NEW k \in met \cap counting PROVE k \in Keys(rs, P)
    <3>1. PICK i \in DOMAIN rs : rs[i].passed /\ rs[i].key = k
      BY DEF Met
    <3>2. i \in P
      BY <3>1 DEF Active, Counting
    <3> QED  BY <3>1, <3>2 DEF Keys
  <2> QED  BY <2>1, <2>2
<1>6. Cardinality(counting) = Cardinality(A) /\ Cardinality(A) \in Nat
  BY <1>2, <1>4, CountResults
<1>7. Cardinality(met \cap counting) = Cardinality(P) /\ Cardinality(P) \in Nat
  BY <1>2, <1>5, CountResults
<1>8. ~MustFail(rs) <=> must \subseteq met
  <2>1. ASSUME ~MustFail(rs), NEW k \in must PROVE k \in met
    <3>1. PICK i \in DOMAIN rs : rs[i].key = k
      BY <1>1
    <3>2. rs[i] \in Result
      OBVIOUS
    <3> QED  BY <2>1, <3>1, <3>2 DEF MustFail, Result, Met
  <2>2. ASSUME must \subseteq met, NEW i \in DOMAIN rs, rs[i].severity = "must_have" PROVE rs[i].passed
    <3>1. rs[i].key \in met
      BY <1>1, <2>2
    <3>2. PICK j \in DOMAIN rs : rs[j].passed /\ rs[j].key = rs[i].key
      BY <3>1 DEF Met
    <3> QED  BY <3>2, CompleteIsInjective
  <2> QED  BY <2>1, <2>2 DEF MustFail
<1> DEFINE some == counting # {}
           scored == Cardinality(met \cap counting)
           all == Cardinality(counting)
           low == v /\ Threshold > 10
           enough == (some \/ T = 0) /\ 100 * scored >= T * all
           line == 100 * scored = T * all
<1>9. up => low
  BY DEF RoundedUp
<1>10. PassRatioOk(rs, v) <=>
          IF some THEN 100 * scored > T * all \/ (100 * scored = T * all /\ ~up) ELSE T = 0 /\ ~up
  <2>1. A = {} <=> ~some
    BY <1>4 DEF Keys
  <2>2. CASE A = {}
    <3>1. P = {} /\ Cardinality({}) = 0
      BY <2>2, FS_EmptySet
    <3>2. PassRatioOk(rs, v) <=> (100 * 0 > T * 1 \/ (100 * 0 = T * 1 /\ ~up))
      BY <2>2, <3>1 DEF PassRatioOk
    <3>3. ~(100 * 0 > T * 1) /\ (100 * 0 = T * 1 <=> T = 0)
      BY <1>3
    <3> HIDE DEF some, T, up, scored, all, A
    <3> QED  BY <2>1, <2>2, <3>2, <3>3, Zenon
  <2>3. CASE A # {}
    <3>1. PassRatioOk(rs, v) <=> (\/ 100 * Cardinality(P) > T * Cardinality(A)
                                 \/ (100 * Cardinality(P) = T * Cardinality(A) /\ ~up))
      BY <2>3 DEF PassRatioOk
    <3>2. Cardinality(P) = scored /\ Cardinality(A) = all
      BY <1>6, <1>7
    <3> HIDE DEF some, T, up, scored, all, A, P
    <3> QED  BY <2>1, <2>3, <3>1, <3>2, Zenon
  <2> QED  BY <2>2, <2>3
<1>11. /\ PassRatioOk(rs, v) => enough
       /\ enough /\ ~(low /\ line) => PassRatioOk(rs, v)
  <2>1. T \in Nat /\ scored \in Nat /\ all \in Nat
    BY <1>3, <1>6, <1>7
  <2>2. ~some => scored = 0 /\ all = 0
    BY <1>6, <1>7, FS_EmptySet
  <2> HIDE DEF some, T, up, low, scored, all
  <2>3. ~some => (100 * scored = T * all /\ 100 * scored >= T * all)
    BY <2>1, <2>2
  <2>4. 100 * scored >= T * all <=> (100 * scored > T * all \/ 100 * scored = T * all)
    BY <2>1
  <2> QED  BY <1>9, <1>10, <2>3, <2>4, Zenon
<1>12. RubricSays(rs, v) <=> must \subseteq met /\ enough
  BY DEF RubricSays
<1>13. OnTheLine(rs, v) <=> low /\ line
  BY DEF OnTheLine
<1> HIDE DEF must, met, enough, line, low
<1> QED  BY <1>8, <1>11, <1>12, <1>13

\* When the model returns every criterion it was asked for exactly once, the
\* decision is the rubric's: exactly at the usual threshold, and at a threshold
\* lowered for velocity for every score but the one on the line, where nobody
\* is qualified whom the rubric does not qualify.
THEOREM DecisionIsTheRubrics == Spec => []DecisionFollowsRubric
<1>1. Inv => DecisionFollowsRubric
  <2> SUFFICES ASSUME Inv, NEW s \in Screenings, card[s] # None, ~card[s].blocked,
                      Complete(card[s].results)
               PROVE  LET rs == card[s].results
                          v  == request[s[1]].velocity
                      IN  /\ card[s].qualified => RubricSays(rs, v)
                          /\ RubricSays(rs, v) /\ ~OnTheLine(rs, v) => card[s].qualified
    BY DEF DecisionFollowsRubric
  <2>1. PICK a \in Answers : card[s] = Scored(s, a)
    BY DEF Inv, CardInv
  <2> DEFINE rs == Deterministic(s[2]) \o Judgments(a)
  <2>2. card[s].results = rs /\ (card[s].qualified <=> PassRatioOk(rs, request[s[1]].velocity) /\ ~MustFail(rs))
    <3> DEFINE q == PassRatioOk(rs, request[s[1]].velocity) /\ ~MustFail(rs)
    <3>1. card[s] = [blocked |-> FALSE, results |-> rs, qualified |-> q]
      BY <2>1 DEF Scored
    <3>2. q \in BOOLEAN
      OBVIOUS
    <3> HIDE DEF q, rs
    <3>3. card[s].results = rs /\ card[s].qualified = q
      BY <3>1
    <3>4. card[s].qualified <=> q
      BY <3>2, <3>3
    <3> QED  BY <3>3, <3>4 DEF q
  <2>3. s[2] \in Candidates /\ rs \in Seq(Result) /\ Complete(rs)
    BY <2>2, ScreeningIsPair, ResultsTyped
  <2>4. \A i \in DOMAIN rs : rs[i].severity = Severity[rs[i].key]
    BY <2>3, SeveritiesOfRubric
  <2> QED  BY <2>2, <2>3, <2>4, CountsAreRubric
<1> QED  BY <1>1, InvAlways, PTL

=============================================================================
