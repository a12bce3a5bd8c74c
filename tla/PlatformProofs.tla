---------------------------- MODULE PlatformProofs ----------------------------
(***************************************************************************)
(* Proofs about the smaller services, for all of their constants.  Each    *)
(* argument is about one service; that it holds beside the others is the   *)
(* lemma that a step of the platform is a step of the service or leaves it *)
(* alone.                                                                  *)
(***************************************************************************)
EXTENDS Platform, RecordProofs, FiniteSetTheorems, TLAPS

LEMMA StartOfServices ==
    PlatformInit => /\ PoolInit /\ StagesInit /\ MonitorInit /\ CallsInit /\ OutreachInit /\ AbInit
                    /\ InterviewInit /\ CandidatesInit /\ OutcomesInit /\ BenchInit /\ AdvisoryInit
                    /\ CaptureInit /\ MigrationsInit
  BY DEF PlatformInit

LEMMA StepOfServices ==
    [PlatformNext]_platformVars =>
        /\ [StagesNext]_stageVars /\ [MonitorNext]_monitorVars /\ [CallsNext]_callVars
        /\ [OutreachNext]_outreachVars /\ [CandidatesNext]_candidateVars /\ [BenchNext]_benchVars
        /\ [PoolNext]_poolVars /\ [AbNext]_arms /\ [InterviewNext]_interviewVars
        /\ [OutcomesNext]_outcomeVars /\ [AdvisoryNext]_advisoryVars /\ [CaptureNext]_captureVars
        /\ [MigrationsNext]_migrationVars
  BY DEF PlatformNext, platformVars

LEMMA EntryOf ==
    ASSUME NEW S, NEW list \in Seq(S), NEW i \in DOMAIN list
    PROVE  list[i] \in S
  OBVIOUS

-----------------------------------------------------------------------------
(* The stages.                                                             *)

\* What the log must hold up to its i-th entry if a candidate is at stage s.
Seen(i, s) == \E k \in 1..i : decided[k].to = s
Vetted(i, s) ==
    /\ s \in Stage \ {"intake", "sourcing", "declined"} => Seen(i, "screening")
    /\ s \in {"offer", "onboarding", "placed"} => Before(i, "screening", "offer")
    /\ s \in {"onboarding", "placed"} => Before(i, "offer", "onboarding")

\* A copy may be old, but it was the stage of the candidate once.
StagesInv ==
    /\ StagesTypeOK
    /\ \A i \in DOMAIN decided : Vetted(i, decided[i].to)
    /\ \A r \in Recruiters : Vetted(Len(decided), copy[r])

LEMMA StagesInvInit == StagesInit => StagesInv
  BY StagesAssumption DEF StagesInit, StagesInv, StagesTypeOK, Vetted, Stage

LEMMA TransitionVets ==
    ASSUME StagesInv, NEW r \in Recruiters, NEW to \in Stage, transition(r, to)
    PROVE  StagesInv'
<1>0. PICK n \in Nat : n = Len(decided)
  BY DEF StagesInv, StagesTypeOK
<1>1. /\ Len(decided) = n /\ DOMAIN decided = 1..n /\ copy[r] \in Stage
      /\ decided' = Append(decided, [from |-> copy[r], to |-> to])
      /\ Len(decided') = n + 1 /\ DOMAIN decided' = 1..n + 1
      /\ copy' = [copy EXCEPT ![r] = to] /\ copy \in [Recruiters -> Stage]
  BY <1>0 DEF StagesInv, StagesTypeOK, transition
<1>2. /\ decided'[n + 1].to = to
      /\ \A i \in 1..n : decided'[i] = decided[i]
  BY <1>1
<1>3. StagesTypeOK'
  BY <1>1, StagesAssumption DEF StagesInv, StagesTypeOK, transition
<1>4. \A i \in 1..n, s \in Stage : Vetted(i, s) => Vetted(i, s)'
  BY <1>1, <1>2 DEF Vetted, Seen, Before
<1>5. \A s \in Stage : Vetted(n, s) => Vetted(n + 1, s)'
  BY <1>1, <1>2 DEF Vetted, Seen, Before
<1>6. Vetted(n + 1, to)'
  <2>1. Vetted(n, copy[r]) /\ to \in TRANSITIONS[copy[r]]
    BY <1>1 DEF StagesInv, transition, can_transition
  <2>2. to \in {"screening", "intake", "sourcing", "declined"} \/ Seen(n, "screening")
    BY <1>1, <2>1 DEF Vetted, TRANSITIONS, Stage
  <2>3. to \in {"onboarding", "placed"} => Before(n, "screening", "offer") /\ Seen(n, "offer")
    BY <1>1, <2>1 DEF Vetted, TRANSITIONS, Stage, Before, Seen
  <2>4. to = "placed" => Before(n, "offer", "onboarding")
    BY <1>1, <2>1 DEF Vetted, TRANSITIONS, Stage
  <2>5. \A s, t \in Stage : /\ Seen(n, s) => Seen(n + 1, s)'
                            /\ Before(n, s, t) => Before(n + 1, s, t)'
                            /\ Seen(n, s) /\ to = t => Before(n + 1, s, t)'
    BY <1>1, <1>2 DEF Seen, Before
  <2>6. Seen(n + 1, to)'
    BY <1>1, <1>2 DEF Seen
  <2> QED  BY <2>2, <2>3, <2>4, <2>5, <2>6 DEF Vetted, Stage
<1>7. \A i \in DOMAIN decided' : Vetted(i, decided[i].to)'
  <2> SUFFICES ASSUME NEW i \in 1..n + 1 PROVE Vetted(i, decided[i].to)'
    BY <1>1
  <2>1. CASE i = n + 1
    BY <1>2, <1>6, <2>1 DEF Vetted
  <2>2. CASE i # n + 1
    <3>1. i \in 1..n /\ decided[i] \in [from : Stage, to : Stage]
      <4>1. i \in DOMAIN decided /\ decided \in Seq([from : Stage, to : Stage])
        BY <1>1, <2>2 DEF StagesInv, StagesTypeOK
      <4> QED  BY <1>1, <4>1, EntryOf
    <3>2. decided[i].to \in Stage /\ Vetted(i, decided[i].to) /\ decided'[i] = decided[i]
      BY <1>1, <1>2, <3>1 DEF StagesInv
    <3> QED  BY <1>4, <3>1, <3>2 DEF Vetted
  <2> QED  BY <2>1, <2>2
<1>8. \A q \in Recruiters : Vetted(Len(decided), copy[q])'
  <2> SUFFICES ASSUME NEW q \in Recruiters PROVE Vetted(Len(decided), copy[q])'
    OBVIOUS
  <2>1. CASE q = r
    BY <1>1, <1>6, <2>1 DEF Vetted
  <2>2. CASE q # r
    <3>1. copy[q] \in Stage /\ Vetted(n, copy[q]) /\ copy'[q] = copy[q]
      BY <1>0, <1>1, <2>2 DEF StagesInv
    <3> QED  BY <1>1, <1>5, <3>1 DEF Vetted
  <2> QED  BY <2>1, <2>2
<1> QED  BY <1>3, <1>7, <1>8 DEF StagesInv

LEMMA LookUpVets ==
    ASSUME StagesInv, NEW r \in Recruiters, LookUp(r)
    PROVE  StagesInv'
<1>1. /\ decided # <<>> /\ decided \in Seq([from : Stage, to : Stage])
      /\ copy' = [copy EXCEPT ![r] = Last(decided).to] /\ decided' = decided
      /\ copy \in [Recruiters -> Stage]
  BY DEF LookUp, StagesInv, StagesTypeOK
<1>2. Len(decided) \in DOMAIN decided /\ Last(decided) = decided[Len(decided)]
  BY <1>1 DEF Last
<1>3. Last(decided).to \in Stage
  <2>1. decided[Len(decided)] \in [from : Stage, to : Stage]
    BY <1>1, <1>2, EntryOf
  <2> QED  BY <1>2, <2>1
<1>4. StagesTypeOK'
  BY <1>1, <1>3 DEF StagesInv, StagesTypeOK
<1> QED  BY <1>1, <1>2, <1>4 DEF StagesInv, Vetted, Seen, Before

LEMMA StagesInvStep == StagesInv /\ [StagesNext]_stageVars => StagesInv'
<1>1. StagesInv /\ UNCHANGED stageVars => StagesInv'
  BY DEF StagesInv, StagesTypeOK, stageVars, Vetted, Seen, Before
<1> QED  BY <1>1, TransitionVets, LookUpVets DEF StagesNext

\* Nobody is placed who was not screened, offered and onboarded, in this order,
\* whatever recruiters believed when they moved the candidate.
THEOREM PlacementsAreVetted == PlatformSpec => []PlacedWasVetted
<1>1. StagesInv => PlacedWasVetted
  BY DEF StagesInv, PlacedWasVetted, Vetted
<1> QED  BY <1>1, StartOfServices, StepOfServices, StagesInvInit, StagesInvStep, PTL DEF PlatformSpec

-----------------------------------------------------------------------------
(* Outreach.                                                               *)

\* The records that should be there when a request is at its await, or done.
Owed(q) ==
    CASE q.pc = "falloff" -> {"replied"}
      [] q.pc = "audit" -> {"replied", "falloff"}
      [] q.pc = "done" /\ Falloff(q.label) -> Stores
      [] OTHER -> {}

\* One request: of n instances, after o outages.
SoundReply(q, n, o) ==
    /\ Len(q.copy) = n
    /\ q.pc \in Stores \cup {"done"} /\ classify_heuristic(q.text) # "unknown"
         => q.label = classify_heuristic(q.text)
    /\ q.pc \in {"falloff", "audit"} => Falloff(q.label)
    /\ q.pc = "done" /\ Falloff(q.label) => \A i \in 1..n : q.copy[i].status # "pending"
    /\ Cardinality(Owed(q) \ q.did) <= o

\* What is pending lies behind what was sent, in the book and in the copy that
\* may replace it; after a falloff nothing is pending.
OutreachInv ==
    /\ OutreachTypeOK /\ TouchesInOrder
    /\ \A r \in DOMAIN replies : SoundReply(replies[r], Len(book), outages)
    /\ \A i \in DOMAIN book, k \in DOMAIN touches : book[i].status = "pending" => touches[k] < i
    /\ ended # -1 => Len(touches) = ended /\ \A i \in DOMAIN book : book[i].status # "pending"
    /\ awaiting # 0 =>
        \A i \in DOMAIN book : replies[awaiting].copy[i].status = "pending" => book[i].status = "pending"

LEMMA HoursGrow ==
    \A p \in DOMAIN SEQUENCES :
        /\ Len(SEQUENCES[p]) \in 1..7 /\ DOMAIN SEQUENCES[p] = 1..Len(SEQUENCES[p])
        /\ \A i \in DOMAIN SEQUENCES[p] : SEQUENCES[p][i].hours \in Nat
        /\ \A i, j \in DOMAIN SEQUENCES[p] : i < j => SEQUENCES[p][i].hours < SEQUENCES[p][j].hours
<1> SUFFICES ASSUME NEW p \in DOMAIN SEQUENCES
             PROVE  /\ Len(SEQUENCES[p]) \in 1..7 /\ DOMAIN SEQUENCES[p] = 1..Len(SEQUENCES[p])
                    /\ \A i \in DOMAIN SEQUENCES[p] : SEQUENCES[p][i].hours \in Nat
                    /\ \A i, j \in DOMAIN SEQUENCES[p] :
                         i < j => SEQUENCES[p][i].hours < SEQUENCES[p][j].hours
  OBVIOUS
<1>1. p \in {"precision_outreach", "velocity_outreach", "close_protection"}
  BY DEF SEQUENCES
<1>2. CASE p = "precision_outreach"
  BY <1>2 DEF SEQUENCES, Step
<1>3. CASE p = "velocity_outreach"
  BY <1>3 DEF SEQUENCES, Step
<1>4. CASE p = "close_protection"
  BY <1>4 DEF SEQUENCES, Step
<1> QED  BY <1>1, <1>2, <1>3, <1>4

\* The steps of a sequence fire in their order, so the next one is the first of
\* those that are due.
LEMMA NextIsFirst ==
    ASSUME plan \in DOMAIN SEQUENCES, NEW due \in SUBSET DOMAIN SEQUENCES[plan], due # {}
    PROVE  next_step(due) \in due /\ \A j \in due : next_step(due) <= j
<1>1. due \subseteq 1..7 /\ DOMAIN SEQUENCES[plan] \subseteq Nat
  BY HoursGrow
<1>2. PICK i \in due : \A j \in due : i <= j
  <2> SUFFICES ASSUME \A i \in due : \E j \in due : ~(i <= j) PROVE FALSE
    OBVIOUS
  <2>1. \A j \in due : j \in Nat /\ 1 <= j /\ j <= 7
    BY <1>1
  <2>2. 1 \notin due
    BY <2>1
  <2>3. 2 \notin due
    BY <2>1, <2>2
  <2>4. 3 \notin due /\ 4 \notin due
    BY <2>1, <2>2, <2>3
  <2>5. 5 \notin due /\ 6 \notin due /\ 7 \notin due
    BY <2>1, <2>2, <2>3, <2>4
  <2> QED  BY <2>1, <2>2, <2>3, <2>4, <2>5
<1>3. \A j \in due : \/ SEQUENCES[plan][i].hours < SEQUENCES[plan][j].hours
                     \/ SEQUENCES[plan][i].hours = SEQUENCES[plan][j].hours /\ i <= j
  BY <1>1, <1>2, HoursGrow
<1>4. /\ next_step(due) \in due
      /\ \A j \in due : \/ SEQUENCES[plan][next_step(due)].hours < SEQUENCES[plan][j].hours
                        \/ /\ SEQUENCES[plan][next_step(due)].hours = SEQUENCES[plan][j].hours
                           /\ next_step(due) <= j
  BY <1>3 DEF next_step
<1> QED  BY <1>1, <1>4, HoursGrow

LEMMA StoresFinite == \A S \in SUBSET Stores : IsFiniteSet(S) /\ Cardinality(S) \in Nat
<1>1. Stores = (({} \cup {"replied"}) \cup {"falloff"}) \cup {"audit"}
  BY DEF Stores, Await
<1>2. IsFiniteSet(Stores)
  BY <1>1, FS_EmptySet, FS_AddElement
<1> QED  BY <1>2, FS_Subset, FS_CardinalityType

LEMMA OwedType == \A q : Owed(q) \in SUBSET Stores
  BY DEF Owed, Stores, Await

\* One more record is owed: it is there, or an outage was.
LEMMA OneMoreOwed ==
    ASSUME NEW P \in SUBSET Stores, NEW Q \in SUBSET Stores, NEW D \in SUBSET Stores, NEW x \in Stores,
           Q \subseteq P \cup {x}, NEW o \in Nat, Cardinality(P \ D) <= o
    PROVE  Cardinality(Q \ (D \cup {x})) <= o /\ Cardinality(Q \ D) <= o + 1
<1>1. (P \ D) \in SUBSET Stores /\ (Q \ (D \cup {x})) \subseteq P \ D
  OBVIOUS
<1>2. IsFiniteSet(P \ D) /\ Cardinality(P \ D) \in Nat
  BY <1>1, StoresFinite
<1>3. Cardinality(Q \ (D \cup {x})) <= Cardinality(P \ D) /\ Cardinality(Q \ (D \cup {x})) \in Nat
  BY <1>1, <1>2, FS_Subset, FS_CardinalityType
<1>4. /\ IsFiniteSet((P \ D) \cup {x}) /\ Cardinality((P \ D) \cup {x}) \in Nat
      /\ Cardinality((P \ D) \cup {x}) <= Cardinality(P \ D) + 1
  <2>1. /\ IsFiniteSet((P \ D) \cup {x})
        /\ Cardinality((P \ D) \cup {x}) = IF x \in P \ D THEN Cardinality(P \ D) ELSE Cardinality(P \ D) + 1
    BY <1>2, FS_AddElement
  <2> QED  BY <1>2, <2>1
<1>5. (Q \ D) \subseteq (P \ D) \cup {x}
  OBVIOUS
<1>6. Cardinality(Q \ D) <= Cardinality((P \ D) \cup {x}) /\ Cardinality(Q \ D) \in Nat
  BY <1>4, <1>5, FS_Subset, FS_CardinalityType
<1> QED  BY <1>2, <1>3, <1>4, <1>6

LEMMA SoundKept ==
    ASSUME NEW q \in Reply, NEW n \in Nat, NEW o \in Nat, NEW e \in Nat, o <= e, SoundReply(q, n, o)
    PROVE  SoundReply(q, n, e)
<1>1. Cardinality(Owed(q) \ q.did) \in Nat
  BY OwedType, StoresFinite
<1> QED  BY <1>1 DEF SoundReply

\* A request that went on to its next await, or is done.
LEMMA SoundMoves ==
    ASSUME NEW q \in Reply, NEW p \in Reply, NEW n \in Nat, NEW o \in Nat, SoundReply(q, n, o),
           q.pc \in Stores, NEW fails \in BOOLEAN,
           p.text = q.text, p.label = q.label, p.pc = After(q.pc, q.label), Len(p.copy) = n,
           p.did = IF fails THEN q.did ELSE q.did \cup {q.pc},
           p.pc = "done" /\ Falloff(p.label) => \A i \in 1..n : p.copy[i].status # "pending"
    PROVE  SoundReply(p, n, IF fails THEN o + 1 ELSE o)
<1>1. q.pc \in {"replied", "falloff", "audit"} /\ q.did \in SUBSET Stores
  BY DEF Stores, Await, Reply
<1>2. /\ p.pc \in {"falloff", "audit", "done"}
      /\ p.pc \in {"falloff", "audit"} => Falloff(p.label)
  BY <1>1 DEF After, SoundReply
<1>3. Owed(p) \subseteq Owed(q) \cup {q.pc}
  BY <1>1 DEF After, SoundReply, Owed, Stores, Await
<1>4. Cardinality(Owed(q) \ q.did) <= o
  BY DEF SoundReply
<1>5. Cardinality(Owed(p) \ (q.did \cup {q.pc})) <= o /\ Cardinality(Owed(p) \ q.did) <= o + 1
  BY <1>1, <1>3, <1>4, OwedType, OneMoreOwed
<1> QED  BY <1>1, <1>2, <1>5 DEF SoundReply, Stores, Await

\* A request that has not stored anything owes nothing.
LEMMA NothingOwed ==
    ASSUME NEW q, q.pc \in {"classify", "replied", "error"}, NEW o \in Nat
    PROVE  Cardinality(Owed(q) \ q.did) <= o
<1>1. Owed(q) \ q.did = {}
  BY DEF Owed
<1> QED  BY <1>1, FS_EmptySet

LEMMA SameLength ==
    ASSUME NEW S, NEW T, NEW list \in Seq(T), NEW f, f = [i \in DOMAIN list |-> f[i]],
           \A i \in DOMAIN list : f[i] \in S
    PROVE  f \in Seq(S) /\ Len(f) = Len(list) /\ DOMAIN f = DOMAIN list
<1>1. DOMAIN list = 1..Len(list) /\ Len(list) \in Nat
  OBVIOUS
<1>2. f \in [1..Len(list) -> S]
  BY <1>1
<1> QED  BY <1>1, <1>2

LEMMA OutreachTyped ==
    ASSUME OutreachTypeOK
    PROVE  /\ plan \in DOMAIN SEQUENCES /\ plan \in Plans
           /\ DOMAIN book = 1..Len(book) /\ DOMAIN book = DOMAIN SEQUENCES[plan] /\ Len(book) \in Nat
           /\ book \in Seq(Instance) /\ \A i \in DOMAIN book : book[i] \in Instance
           /\ replies \in Seq(Reply) /\ DOMAIN replies = 1..Len(replies) /\ Len(replies) \in Nat
           /\ \A r \in DOMAIN replies : replies[r] \in Reply
           /\ outages \in Nat /\ awaiting \in Nat /\ (awaiting # 0 => awaiting \in DOMAIN replies)
           /\ touches \in Seq(DOMAIN book) /\ DOMAIN touches = 1..Len(touches) /\ Len(touches) \in Nat
           /\ \A k \in DOMAIN touches : touches[k] \in DOMAIN book /\ touches[k] \in Nat
           /\ DOMAIN SEQUENCES[plan] = 1..Len(book) /\ Len(book) = Len(SEQUENCES[plan])
<1>1. /\ plan \in DOMAIN SEQUENCES /\ book \in Seq(Instance) /\ replies \in Seq(Reply)
      /\ Len(book) = Len(SEQUENCES[plan]) /\ plan \in Plans /\ touches \in Seq(DOMAIN book)
      /\ awaiting \in 0..Len(replies) /\ outages \in 0..MaxOutages
  BY OutreachAssumption DEF OutreachTypeOK
<1>2. DOMAIN SEQUENCES[plan] = 1..Len(SEQUENCES[plan])
  BY <1>1, HoursGrow
<1>3. DOMAIN book = 1..Len(book) /\ Len(book) \in Nat /\ DOMAIN replies = 1..Len(replies) /\ Len(replies) \in Nat
  BY <1>1
<1>4. \A i \in DOMAIN book : book[i] \in Instance
  BY <1>1, EntryOf
<1>5. \A r \in DOMAIN replies : replies[r] \in Reply
  BY <1>1, EntryOf
<1>6. \A k \in DOMAIN touches : touches[k] \in DOMAIN book /\ touches[k] \in Nat
  BY <1>1, <1>3, EntryOf
<1>7. outages \in Nat /\ awaiting \in Nat /\ (awaiting # 0 => awaiting \in DOMAIN replies)
  BY <1>1, <1>3, OutreachAssumption
<1>8. DOMAIN touches = 1..Len(touches) /\ Len(touches) \in Nat
  BY <1>1
<1> QED  BY <1>1, <1>2, <1>3, <1>4, <1>5, <1>6, <1>7, <1>8

LEMMA OutreachInvInit == OutreachInit => OutreachInv
<1> SUFFICES ASSUME OutreachInit PROVE OutreachInv
  OBVIOUS
<1>1. plan \in DOMAIN SEQUENCES /\ DOMAIN SEQUENCES[plan] = 1..Len(SEQUENCES[plan])
      /\ Len(SEQUENCES[plan]) \in Nat
  BY OutreachAssumption, HoursGrow DEF OutreachInit
<1>2. book = [i \in 1..Len(SEQUENCES[plan]) |-> [status |-> "pending", response |-> "none"]]
  BY <1>1 DEF OutreachInit, materialise
<1>3. book \in Seq(Instance) /\ Len(book) = Len(SEQUENCES[plan])
  BY <1>1, <1>2 DEF Instance
<1>4. OutreachTypeOK
  BY <1>3, OutreachAssumption DEF OutreachInit, OutreachTypeOK
<1> QED  BY <1>4 DEF OutreachInit, OutreachInv, TouchesInOrder

LEMMA SendDueStep == OutreachInv /\ SendDue => OutreachInv'
<1> SUFFICES ASSUME OutreachInv, SendDue PROVE OutreachInv'
  OBVIOUS
<1>0. OutreachTypeOK
  BY DEF OutreachInv
<1>1. /\ awaiting = 0 /\ Due(book) # {}
      /\ UNCHANGED <<plan, now, replies, awaiting, ended>>
  BY DEF SendDue
<1>2. PICK i \in DOMAIN book :
        /\ book[i].status = "pending" /\ \A j \in Due(book) : i <= j
        /\ SEQUENCES[plan][i].hours <= now
        /\ \/ /\ book' = [book EXCEPT ![i].status = "sent"]
              /\ touches' = Append(touches, i) /\ outages' = outages
           \/ /\ Outage /\ UNCHANGED <<book, touches>>
  <2>1. Due(book) \in SUBSET DOMAIN SEQUENCES[plan]
    BY <1>0, OutreachTyped DEF Due
  <2>2. next_step(Due(book)) \in Due(book) /\ \A j \in Due(book) : next_step(Due(book)) <= j
    BY <1>0, <1>1, <2>1, NextIsFirst, OutreachTyped
  <2> QED  BY <2>2 DEF SendDue, Due
<1>3. CASE /\ book' = [book EXCEPT ![i].status = "sent"]
           /\ touches' = Append(touches, i) /\ outages' = outages
  <2>1. /\ \A j \in DOMAIN book : book[j] \in Instance
        /\ book' = [j \in DOMAIN book |-> IF j = i THEN [book[i] EXCEPT !.status = "sent"] ELSE book[j]]
    BY <1>0, <1>3, OutreachTyped
  <2>2. [book[i] EXCEPT !.status = "sent"] \in Instance /\ [book[i] EXCEPT !.status = "sent"].status = "sent"
    BY <2>1 DEF Instance
  <2>3. \A j \in DOMAIN book : book'[j] \in Instance /\ (j # i => book'[j] = book[j])
    BY <2>1, <2>2
  <2>4. book' \in Seq(Instance) /\ Len(book') = Len(book) /\ DOMAIN book' = DOMAIN book
    <3>1. book' = [j \in DOMAIN book |-> book'[j]] /\ book \in Seq(Instance)
      BY <1>0, <2>1, OutreachTyped
    <3> QED  BY <2>3, <3>1, SameLength
  <2>5. book'[i].status = "sent"
    BY <2>1, <2>2
  <2>6. \A j \in DOMAIN book : book'[j].status = "pending" => i < j
    <3> SUFFICES ASSUME NEW j \in DOMAIN book, book'[j].status = "pending", ~(i < j) PROVE FALSE
      OBVIOUS
    <3>1. j # i /\ book[j].status = "pending" /\ i \in Nat /\ j \in Nat
      BY <1>0, <2>3, <2>5, OutreachTyped
    <3>2. /\ plan \in DOMAIN SEQUENCES /\ i \in DOMAIN SEQUENCES[plan] /\ j \in DOMAIN SEQUENCES[plan]
          /\ j < i
      BY <1>0, <3>1, OutreachTyped
    <3>3. /\ SEQUENCES[plan][j].hours < SEQUENCES[plan][i].hours
          /\ SEQUENCES[plan][j].hours \in Nat /\ SEQUENCES[plan][i].hours \in Nat /\ now \in Nat
      BY <1>0, <3>2, HoursGrow DEF OutreachTypeOK
    <3>4. j \in Due(book)
      BY <1>2, <3>1, <3>3 DEF Due
    <3> QED  BY <1>2, <3>1, <3>2, <3>4
  <2>7. /\ touches' \in Seq(DOMAIN book') /\ Len(touches') = Len(touches) + 1
        /\ DOMAIN touches' = 1..Len(touches) + 1 /\ touches'[Len(touches) + 1] = i
        /\ \A k \in DOMAIN touches : touches'[k] = touches[k]
    BY <1>0, <1>2, <1>3, <2>4, OutreachTyped
  <2>8. \A k \in DOMAIN touches : touches[k] < i
    BY <1>2 DEF OutreachInv
  <2>9. ended = -1
    BY <1>2 DEF OutreachInv
  <2>10. OutreachTypeOK'
    BY <1>0, <1>1, <1>3, <2>4, <2>7, <2>9, OutreachTyped DEF OutreachTypeOK
  <2>11. TouchesInOrder'
    <3> SUFFICES ASSUME NEW j \in DOMAIN touches', NEW k \in DOMAIN touches', j < k
                 PROVE  touches'[j] < touches'[k]
      BY DEF TouchesInOrder
    <3>1. j \in DOMAIN touches /\ (k \in DOMAIN touches \/ k = Len(touches) + 1)
      BY <1>0, <2>7, OutreachTyped
    <3> QED  BY <2>7, <2>8, <3>1 DEF OutreachInv, TouchesInOrder
  <2>12. \A j \in DOMAIN book', k \in DOMAIN touches' : book'[j].status = "pending" => touches'[k] < j
    <3> SUFFICES ASSUME NEW j \in DOMAIN book, NEW k \in DOMAIN touches', book'[j].status = "pending"
                 PROVE  touches'[k] < j
      BY <2>4
    <3>1. i < j /\ j \in Nat /\ i \in Nat
      BY <1>0, <2>6, OutreachTyped
    <3>2. CASE k \in DOMAIN touches
      BY <1>0, <2>7, <2>8, <3>1, <3>2, OutreachTyped
    <3>3. CASE k = Len(touches) + 1
      BY <2>7, <3>1, <3>3
    <3> QED  BY <1>0, <2>7, <3>2, <3>3, OutreachTyped
  <2> QED  BY <1>1, <1>3, <2>4, <2>9, <2>10, <2>11, <2>12 DEF OutreachInv
<1>4. CASE Outage /\ UNCHANGED <<book, touches>>
  <2>1. outages' = outages + 1 /\ outages' \in 0..MaxOutages /\ outages \in Nat
    BY <1>0, <1>4, OutreachTyped, OutreachAssumption DEF Outage
  <2>2. OutreachTypeOK'
    BY <1>0, <1>1, <1>4, <2>1 DEF OutreachTypeOK
  <2>3. \A r \in DOMAIN replies : SoundReply(replies[r], Len(book), outages')
    BY <1>0, <2>1, OutreachTyped, SoundKept DEF OutreachInv
  <2> QED  BY <1>1, <1>4, <2>2, <2>3 DEF OutreachInv, TouchesInOrder
<1> QED  BY <1>2, <1>3, <1>4

LEMMA TickStep == OutreachInv /\ Tick => OutreachInv'
<1> SUFFICES ASSUME OutreachInv, Tick PROVE OutreachInv'
  OBVIOUS
<1>0. OutreachTypeOK
  BY DEF OutreachInv
<1>1. now' \in Nat /\ UNCHANGED <<plan, book, touches, replies, awaiting, ended, outages>>
  BY <1>0, HoursGrow, OutreachTyped DEF Tick
<1> QED  BY <1>0, <1>1 DEF OutreachInv, OutreachTypeOK, TouchesInOrder

\* The copy of a request is the book of the client.
LEMMA RebuiltIsBook == ASSUME OutreachTypeOK PROVE Rebuilt(book) = book
<1>1. \A i \in DOMAIN book : [status |-> book[i].status, response |-> book[i].response] = book[i]
  BY OutreachTyped DEF Instance
<1>2. book = [i \in DOMAIN book |-> book[i]]
  BY OutreachTyped
<1> QED  BY <1>1, <1>2 DEF Rebuilt

LEMMA ArriveStep ==
    ASSUME OutreachInv, NEW text \in Texts, Arrive(text), UNCHANGED outages \/ Outage
    PROVE  OutreachInv'
<1> DEFINE q == [text |-> text, copy |-> Rebuilt(book), pc |-> "classify", label |-> "unknown", did |-> {}]
<1>0. OutreachTypeOK
  BY DEF OutreachInv
<1>1. /\ replies' = Append(replies, q) /\ awaiting' = Len(replies) + 1
      /\ UNCHANGED <<plan, now, book, touches, ended>>
  BY DEF Arrive
<1>2. outages' \in 0..MaxOutages /\ outages <= outages' /\ outages' \in Nat /\ outages \in Nat
  BY <1>0, OutreachTyped, OutreachAssumption DEF Outage, OutreachTypeOK
<1>3. q \in Reply /\ q.copy = book
  BY <1>0, RebuiltIsBook, OutreachTyped DEF Reply, Await, Labels
<1>4. q.pc = "classify" /\ Len(q.copy) = Len(book)
  BY <1>3
<1> HIDE DEF q
<1>5. /\ replies' \in Seq(Reply) /\ Len(replies') = Len(replies) + 1
      /\ DOMAIN replies' = 1..Len(replies) + 1 /\ replies'[Len(replies) + 1] = q
      /\ \A r \in DOMAIN replies : replies'[r] = replies[r]
  BY <1>0, <1>1, <1>3, OutreachTyped
<1>6. OutreachTypeOK'
  BY <1>0, <1>1, <1>2, <1>5, OutreachTyped DEF OutreachTypeOK
<1>7. SoundReply(q, Len(book), outages')
  BY <1>2, <1>4, NothingOwed DEF SoundReply, Stores, Await
<1>8. \A r \in DOMAIN replies' : SoundReply(replies'[r], Len(book), outages')
  <2> SUFFICES ASSUME NEW r \in DOMAIN replies' PROVE SoundReply(replies'[r], Len(book), outages')
    OBVIOUS
  <2>1. CASE r = Len(replies) + 1
    BY <1>5, <1>7, <2>1
  <2>2. CASE r # Len(replies) + 1
    <3>1. r \in DOMAIN replies /\ replies'[r] = replies[r] /\ replies[r] \in Reply
      BY <1>0, <1>5, <2>2, OutreachTyped
    <3>2. SoundReply(replies[r], Len(book), outages) /\ Len(book) \in Nat
      BY <1>0, <3>1, OutreachTyped DEF OutreachInv
    <3> QED  BY <1>2, <3>1, <3>2, SoundKept
  <2> QED  BY <2>1, <2>2
<1>9. \A i \in DOMAIN book' :
        replies'[awaiting'].copy[i].status = "pending" => book'[i].status = "pending"
  BY <1>1, <1>3, <1>5
<1> QED  BY <1>1, <1>6, <1>8, <1>9 DEF OutreachInv, TouchesInOrder

\* Requests that end in an error.
LEMMA FailStep ==
    ASSUME OutreachInv, NEW rs, Fail(rs), Outage
    PROVE  OutreachInv'
<1>0. OutreachTypeOK
  BY DEF OutreachInv
<1>1. /\ replies' = [r \in DOMAIN replies |-> IF r \in rs THEN [replies[r] EXCEPT !.pc = "error"] ELSE replies[r]]
      /\ awaiting' \in {0, awaiting}
      /\ UNCHANGED <<plan, now, book, touches, ended>>
  BY DEF Fail
<1>2. outages' \in 0..MaxOutages /\ outages <= outages' /\ outages' \in Nat /\ outages \in Nat
  BY <1>0, OutreachTyped, OutreachAssumption DEF Outage, OutreachTypeOK
<1>3. \A r \in DOMAIN replies :
        /\ replies'[r] \in Reply /\ replies'[r].copy = replies[r].copy
        /\ replies'[r] = replies[r] \/ replies'[r].pc = "error"
  BY <1>0, <1>1, OutreachTyped DEF Reply
<1>4. /\ replies' \in Seq(Reply) /\ Len(replies') = Len(replies) /\ DOMAIN replies' = DOMAIN replies
  <2>1. replies' = [r \in DOMAIN replies |-> replies'[r]]
    BY <1>1
  <2> QED  BY <1>0, <1>3, <2>1, OutreachTyped, SameLength
<1>5. OutreachTypeOK'
  BY <1>0, <1>1, <1>2, <1>4, OutreachTyped DEF OutreachTypeOK
<1>6. \A r \in DOMAIN replies : SoundReply(replies'[r], Len(book), outages')
  <2> SUFFICES ASSUME NEW r \in DOMAIN replies PROVE SoundReply(replies'[r], Len(book), outages')
    OBVIOUS
  <2>1. SoundReply(replies[r], Len(book), outages) /\ replies[r] \in Reply /\ Len(book) \in Nat
    BY <1>0, OutreachTyped DEF OutreachInv
  <2>2. CASE replies'[r] = replies[r]
    BY <1>2, <2>1, <2>2, SoundKept
  <2>3. CASE replies'[r].pc = "error"
    BY <1>2, <1>3, <2>1, <2>3, NothingOwed DEF SoundReply, Stores, Await
  <2> QED  BY <1>3, <2>2, <2>3
<1>7. awaiting' # 0 => awaiting' = awaiting /\ replies'[awaiting].copy = replies[awaiting].copy
  BY <1>0, <1>1, <1>3, OutreachTyped
<1> QED  BY <1>1, <1>4, <1>5, <1>6, <1>7 DEF OutreachInv, TouchesInOrder

LEMMA ClassifyStep ==
    ASSUME OutreachInv, NEW r \in DOMAIN replies, Classify(r)
    PROVE  OutreachInv'
<1>0. OutreachTypeOK
  BY DEF OutreachInv
<1>1. CASE Outage /\ Fail({r})
  BY <1>1, FailStep
<1>2. CASE ~(Outage /\ Fail({r}))
  <2>1. PICK label \in Labels \cup LlmLabels :
          /\ classify_heuristic(replies[r].text) # "unknown" => label = classify_heuristic(replies[r].text)
          /\ replies' = [replies EXCEPT ![r].pc = "replied", ![r].label = label]
          /\ UNCHANGED <<plan, now, book, touches, awaiting, ended, outages>>
    BY <1>2 DEF Classify, classify_heuristic, Labels
  <2>2. /\ replies[r] \in Reply /\ replies \in Seq(Reply)
        /\ replies' = [s \in DOMAIN replies |->
                         IF s = r THEN [replies[r] EXCEPT !.pc = "replied", !.label = label] ELSE replies[s]]
    BY <1>0, <2>1, OutreachTyped
  <2>3. \A s \in DOMAIN replies : replies'[s] \in Reply /\ replies'[s].copy = replies[s].copy
    BY <1>0, <2>2, OutreachTyped DEF Reply, Await
  <2>4. replies' \in Seq(Reply) /\ Len(replies') = Len(replies) /\ DOMAIN replies' = DOMAIN replies
    <3>1. replies' = [s \in DOMAIN replies |-> replies'[s]]
      BY <2>2
    <3>2. replies \in Seq(Reply)
      BY <2>2
    <3> QED  BY <2>3, <3>1, <3>2, SameLength
  <2>5. OutreachTypeOK'
    BY <1>0, <2>1, <2>4 DEF OutreachTypeOK
  <2>6. \A s \in DOMAIN replies : SoundReply(replies'[s], Len(book), outages)
    <3> SUFFICES ASSUME NEW s \in DOMAIN replies PROVE SoundReply(replies'[s], Len(book), outages)
      OBVIOUS
    <3>1. SoundReply(replies[s], Len(book), outages) /\ outages \in Nat
      BY <1>0, OutreachTyped DEF OutreachInv
    <3>2. CASE s # r
      BY <2>2, <3>1, <3>2
    <3>3. CASE s = r
      <4>1. /\ replies'[r].pc = "replied" /\ replies'[r].label = label
            /\ replies'[r].text = replies[r].text /\ replies'[r].copy = replies[r].copy
        BY <2>2 DEF Reply
      <4>2. Cardinality(Owed(replies'[r]) \ replies'[r].did) <= outages
        BY <3>1, <4>1, NothingOwed
      <4> QED  BY <2>1, <3>1, <3>3, <4>1, <4>2 DEF SoundReply
    <3> QED  BY <3>2, <3>3
  <2> QED  BY <1>0, <2>1, <2>3, <2>4, <2>5, <2>6, OutreachTyped DEF OutreachInv, TouchesInOrder
<1> QED  BY <1>1, <1>2

\* What handle_response makes of the copy when it answers.
Final(q) == Recorded(IF Falloff(q.label) THEN stop_on_response(q.copy, StopClass(q.label)) ELSE q.copy, q.label)

\* Answering sets nothing back to pending, and a falloff leaves nothing so.
LEMMA FinalStops ==
    ASSUME NEW q \in Reply
    PROVE  /\ Final(q) \in Seq(Instance) /\ Len(Final(q)) = Len(q.copy)
           /\ \A i \in 1..Len(q.copy) : Final(q)[i].status = "pending" => q.copy[i].status = "pending"
           /\ Falloff(q.label) => \A i \in 1..Len(q.copy) : Final(q)[i].status # "pending"
<1> DEFINE n == Len(q.copy)
           stopped == IF Falloff(q.label) THEN stop_on_response(q.copy, StopClass(q.label)) ELSE q.copy
<1>1. /\ q.copy \in Seq(Instance) /\ n \in Nat /\ DOMAIN q.copy = 1..n
      /\ q.label \in LlmLabels \cup Labels
  BY DEF Reply
<1>2. \A i \in 1..n : q.copy[i] \in Instance
  BY <1>1, EntryOf
<1>3. /\ DOMAIN stopped = 1..n
      /\ \A i \in 1..n : /\ stopped[i] \in Instance
                         /\ stopped[i].status = "pending" => q.copy[i].status = "pending" /\ ~Falloff(q.label)
  <2>1. CASE Falloff(q.label)
    <3>1. stopped = [i \in DOMAIN q.copy |->
                       IF q.copy[i].status = "pending" THEN [q.copy[i] EXCEPT !.status = "skipped"]
                       ELSE q.copy[i]]
      BY <2>1 DEF stop_on_response, StopClass
    <3>2. \A i \in 1..n : q.copy[i].status = "pending" =>
             /\ [q.copy[i] EXCEPT !.status = "skipped"] \in Instance
             /\ [q.copy[i] EXCEPT !.status = "skipped"].status = "skipped"
      BY <1>2 DEF Instance
    <3> QED  BY <1>1, <1>2, <3>1, <3>2
  <2>2. CASE ~Falloff(q.label)
    BY <1>1, <1>2, <2>2
  <2> QED  BY <2>1, <2>2
<1>4. Final(q) = Recorded(stopped, q.label)
  BY DEF Final
<1> HIDE DEF stopped
<1>5. Final(q) = [i \in 1..n |->
        IF /\ stopped[i].status = "sent"
           /\ \A j \in 1..n : stopped[j].status = "sent" => j <= i
        THEN [stopped[i] EXCEPT !.response = q.label] ELSE stopped[i]]
  BY <1>3, <1>4 DEF Recorded
<1>6. \A i \in 1..n : /\ [stopped[i] EXCEPT !.response = q.label] \in Instance
                     /\ [stopped[i] EXCEPT !.response = q.label].status = stopped[i].status
  BY <1>1, <1>3 DEF Instance
<1>7. \A i \in 1..n : Final(q)[i] \in Instance /\ Final(q)[i].status = stopped[i].status
  BY <1>3, <1>5, <1>6
<1>8. Final(q) \in Seq(Instance) /\ Len(Final(q)) = n
  <2>1. Final(q) = [i \in DOMAIN q.copy |-> Final(q)[i]] /\ q.copy \in Seq(Instance)
    BY <1>1, <1>5
  <2>2. \A i \in DOMAIN q.copy : Final(q)[i] \in Instance
    BY <1>1, <1>7
  <2> QED  BY <2>1, <2>2, SameLength
<1> QED  BY <1>3, <1>7, <1>8

LEMMA StoreStep ==
    ASSUME OutreachInv, NEW r \in DOMAIN replies, Store(r)
    PROVE  OutreachInv'
<1> DEFINE q == replies[r]
<1>0. OutreachTypeOK
  BY DEF OutreachInv
<1>1. q \in Reply /\ q.pc \in Stores /\ UNCHANGED <<plan, now, touches>>
  BY <1>0, OutreachTyped DEF Store
<1>2. PICK fails \in BOOLEAN :
        LET did == IF fails THEN q.did ELSE q.did \cup {q.pc}
            goto == After(q.pc, q.label)
        IN  /\ IF fails THEN Outage ELSE UNCHANGED outages
            /\ IF goto = "done" THEN Answer(r, did)
               ELSE /\ replies' = [replies EXCEPT ![r].pc = goto, ![r].did = did]
                    /\ UNCHANGED <<book, awaiting, ended>>
  BY DEF Store
<1>3. /\ outages' = IF fails THEN outages + 1 ELSE outages
      /\ outages' \in 0..MaxOutages /\ outages' \in Nat /\ outages \in Nat /\ outages <= outages'
  BY <1>0, <1>2, OutreachTyped, OutreachAssumption DEF Outage, OutreachTypeOK
<1> DEFINE did  == IF fails THEN q.did ELSE q.did \cup {q.pc}
           goto == After(q.pc, q.label)
           p    == [q EXCEPT !.pc = goto, !.did = did, !.copy = IF goto = "done" THEN Final(q) ELSE q.copy]
<1>4. /\ replies' = [s \in DOMAIN replies |-> IF s = r THEN p ELSE replies[s]]
      /\ IF goto = "done" /\ awaiting = r
         THEN /\ book' = Final(q) /\ awaiting' = 0
              /\ ended' = IF Falloff(q.label) /\ ended = -1 THEN Len(touches) ELSE ended
         ELSE UNCHANGED <<book, awaiting, ended>>
  <2>1. replies \in Seq(Reply)
    BY <1>0, OutreachTyped
  <2>2. CASE goto = "done"
    <3>1. Answer(r, did)
      BY <1>2, <2>2
    <3> QED  BY <1>1, <2>1, <2>2, <3>1 DEF Answer, Final, Reply
  <2>3. CASE goto # "done"
    <3>1. replies' = [replies EXCEPT ![r].pc = goto, ![r].did = did] /\ UNCHANGED <<book, awaiting, ended>>
      BY <1>2, <2>3
    <3>2. p = [q EXCEPT !.pc = goto, !.did = did]
      BY <1>1, <2>3 DEF Reply
    <3>3. replies' = [s \in DOMAIN replies |->
                        IF s = r THEN [q EXCEPT !.pc = goto, !.did = did] ELSE replies[s]]
      BY <2>1, <3>1
    <3> QED  BY <2>3, <3>1, <3>2, <3>3
  <2> QED  BY <2>2, <2>3
<1>5. did \in SUBSET Stores /\ goto \in {"falloff", "audit", "done"}
  BY <1>1 DEF Reply, After, Stores, Await
<1>6. /\ p \in Reply /\ p.pc = goto /\ p.did = did /\ p.text = q.text /\ p.label = q.label
      /\ p.copy = IF goto = "done" THEN Final(q) ELSE q.copy
  BY <1>1, <1>5, FinalStops DEF Reply, Await
<1> HIDE DEF p
<1>7. /\ SoundReply(q, Len(book), outages) /\ Len(q.copy) = Len(book) /\ Len(book) \in Nat
  BY <1>0, OutreachTyped DEF OutreachInv, SoundReply
<1>8. SoundReply(p, Len(book), outages')
  <2>1. Len(p.copy) = Len(book)
    BY <1>1, <1>6, <1>7, FinalStops
  <2>2. p.pc = "done" /\ Falloff(p.label) => \A i \in 1..Len(book) : p.copy[i].status # "pending"
    BY <1>1, <1>6, <1>7, FinalStops
  <2> HIDE DEF q
  <2>3. SoundReply(p, Len(book), IF fails THEN outages + 1 ELSE outages)
    BY <1>1, <1>3, <1>6, <1>7, <2>1, <2>2, SoundMoves
  <2> QED  BY <1>3, <2>3
<1>9. replies' \in Seq(Reply) /\ Len(replies') = Len(replies) /\ DOMAIN replies' = DOMAIN replies
  <2>1. \A s \in DOMAIN replies : replies'[s] \in Reply
    BY <1>0, <1>4, <1>6, OutreachTyped
  <2>2. replies' = [s \in DOMAIN replies |-> replies'[s]] /\ replies \in Seq(Reply)
    BY <1>0, <1>4, OutreachTyped
  <2> QED  BY <2>1, <2>2, SameLength
<1>10. \A s \in DOMAIN replies : SoundReply(replies'[s], Len(book), outages')
  <2> SUFFICES ASSUME NEW s \in DOMAIN replies PROVE SoundReply(replies'[s], Len(book), outages')
    OBVIOUS
  <2>1. CASE s = r
    BY <1>4, <1>8, <2>1
  <2>2. CASE s # r
    <3>1. SoundReply(replies[s], Len(book), outages) /\ replies[s] \in Reply
      BY <1>0, OutreachTyped DEF OutreachInv
    <3>2. SoundReply(replies[s], Len(book), outages')
      BY <1>3, <1>7, <3>1, SoundKept
    <3> QED  BY <1>4, <2>2, <3>2
  <2> QED  BY <2>1, <2>2
<1>11. /\ book' \in Seq(Instance) /\ Len(book') = Len(book) /\ DOMAIN book' = DOMAIN book
       /\ \A i \in DOMAIN book : book'[i].status = "pending" => book[i].status = "pending"
  <2>1. CASE goto = "done" /\ awaiting = r
    <3>1. book' = Final(q) /\ book' \in Seq(Instance) /\ Len(book') = Len(book)
      BY <1>1, <1>4, <1>7, <2>1, FinalStops
    <3>2. DOMAIN book = 1..Len(book) /\ DOMAIN book' = 1..Len(book)
      BY <1>0, <3>1, OutreachTyped
    <3>3. \A i \in DOMAIN book : q.copy[i].status = "pending" => book[i].status = "pending"
      BY <1>0, <2>1, OutreachTyped DEF OutreachInv
    <3>4. \A i \in DOMAIN book : book'[i].status = "pending" => q.copy[i].status = "pending"
      BY <1>1, <1>7, <3>1, <3>2, FinalStops
    <3> QED  BY <3>1, <3>2, <3>3, <3>4
  <2>2. CASE ~(goto = "done" /\ awaiting = r)
    BY <1>0, <1>4, <2>2, OutreachTyped
  <2> QED  BY <2>1, <2>2
<1>12. ended' # -1 => Len(touches) = ended' /\ \A i \in DOMAIN book : book'[i].status # "pending"
  <2>1. CASE ended # -1
    <3>1. ended' = ended
      BY <1>4, <2>1
    <3> QED  BY <1>11, <2>1, <3>1 DEF OutreachInv
  <2>2. CASE ended = -1 /\ ended' # -1
    <3>1. book' = Final(q) /\ Falloff(q.label) /\ ended' = Len(touches)
      BY <1>4, <2>2
    <3>2. DOMAIN book = 1..Len(q.copy)
      BY <1>0, <1>7, OutreachTyped
    <3> QED  BY <1>1, <3>1, <3>2, FinalStops
  <2> QED  BY <2>1, <2>2
<1>13. ended' \in -1..Len(touches) /\ awaiting' \in 0..Len(replies)
  BY <1>0, <1>4, OutreachTyped DEF OutreachTypeOK
<1>14. OutreachTypeOK'
  BY <1>0, <1>1, <1>3, <1>9, <1>11, <1>13 DEF OutreachTypeOK
<1>15. awaiting' # 0 => \A i \in DOMAIN book :
          replies'[awaiting'].copy[i].status = "pending" => book'[i].status = "pending"
  <2> SUFFICES ASSUME awaiting' # 0, NEW i \in DOMAIN book, replies'[awaiting'].copy[i].status = "pending"
               PROVE  book'[i].status = "pending"
    OBVIOUS
  <2>1. awaiting' = awaiting /\ book' = book /\ ~(goto = "done" /\ awaiting = r) /\ awaiting \in DOMAIN replies
    BY <1>0, <1>4, OutreachTyped
  <2>2. replies'[awaiting].copy = replies[awaiting].copy
    BY <1>4, <1>6, <2>1
  <2> QED  BY <2>1, <2>2 DEF OutreachInv
<1> QED  BY <1>1, <1>9, <1>10, <1>11, <1>12, <1>14, <1>15 DEF OutreachInv, TouchesInOrder

LEMMA OutreachInvStep == OutreachInv /\ [OutreachNext]_outreachVars => OutreachInv'
<1> SUFFICES ASSUME OutreachInv, [OutreachNext]_outreachVars PROVE OutreachInv'
  OBVIOUS
<1>0. OutreachTypeOK
  BY DEF OutreachInv
<1>1. CASE UNCHANGED outreachVars
  BY <1>1 DEF outreachVars, OutreachInv, OutreachTypeOK, TouchesInOrder
<1>2. CASE \E text \in Texts : PostReply(text)
  BY <1>2, ArriveStep DEF PostReply
<1>3. CASE Repeat
  <2>1. replies[awaiting].text \in Texts
    BY <1>0, <1>3, OutreachTyped DEF Repeat, Reply
  <2> QED  BY <1>3, <2>1, ArriveStep DEF Repeat
<1>4. CASE OutreachRestart
  BY <1>4, FailStep DEF OutreachRestart
<1> QED  BY <1>1, <1>2, <1>3, <1>4, TickStep, SendDueStep, ClassifyStep, StoreStep DEF OutreachNext

LEMMA OutreachInvHonours == OutreachInv => SequenceHonoured
<1> SUFFICES ASSUME OutreachInv PROVE SequenceHonoured
  OBVIOUS
<1>0. OutreachTypeOK
  BY DEF OutreachInv
<1>1. NoTouchAfterFalloff
  <2> SUFFICES ASSUME NEW r \in DOMAIN replies, replies[r].pc = "done", "ooo" \notin replies[r].text,
                      replies[r].text \cap {"counter", "no"} # {}, NEW i \in DOMAIN book
               PROVE  replies[r].copy[i].status # "pending"
    BY DEF OutreachInv, NoTouchAfterFalloff
  <2>1. classify_heuristic(replies[r].text) \in {"counteroffer_signal", "not_interested"}
    BY DEF classify_heuristic
  <2>2. SoundReply(replies[r], Len(book), outages) /\ i \in 1..Len(book)
    BY <1>0, OutreachTyped DEF OutreachInv
  <2> QED  BY <2>1, <2>2 DEF SoundReply, Falloff
<1>2. FalloffRecorded
  <2> SUFFICES ASSUME NEW r \in DOMAIN replies, replies[r].pc = "done", Falloff(replies[r].label)
               PROVE  Cardinality(Stores \ replies[r].did) <= outages
    BY DEF FalloffRecorded, Falloff
  <2>1. SoundReply(replies[r], Len(book), outages)
    BY DEF OutreachInv
  <2> QED  BY <2>1 DEF SoundReply, Owed
<1> QED  BY <1>1, <1>2 DEF OutreachInv, SequenceHonoured

\* Steps go out in the order of their sequence and none twice, nothing goes out
\* after a falloff, and the falloff is on record but for what outages lost:
\* through replies that are repeated, late and answered in any order.
THEOREM SequencesAreHonoured == PlatformSpec => []SequenceHonoured
  BY StartOfServices, StepOfServices, OutreachInvInit, OutreachInvStep, OutreachInvHonours, PTL DEF PlatformSpec

-----------------------------------------------------------------------------
(* Bench.                                                                  *)

LEMMA MaxOfTwo == \A a, b \in Int : Max({a, b}) = IF a >= b THEN a ELSE b
<1> SUFFICES ASSUME NEW a \in Int, NEW b \in Int PROVE Max({a, b}) = IF a >= b THEN a ELSE b
  OBVIOUS
<1>1. \E x \in {a, b} : \A y \in {a, b} : x >= y
  OBVIOUS
<1>2. Max({a, b}) \in {a, b} /\ \A y \in {a, b} : Max({a, b}) >= y
  BY <1>1 DEF Max
<1> QED  BY <1>2

LEMMA MinOfTwo == \A a, b \in Int : Min({a, b}) = IF a <= b THEN a ELSE b
<1> SUFFICES ASSUME NEW a \in Int, NEW b \in Int PROVE Min({a, b}) = IF a <= b THEN a ELSE b
  OBVIOUS
<1>1. \E x \in {a, b} : \A y \in {a, b} : x <= y
  OBVIOUS
<1>2. Min({a, b}) \in {a, b} /\ \A y \in {a, b} : Min({a, b}) <= y
  BY <1>1 DEF Min
<1> QED  BY <1>2

\* The severity of an alert as a function of the days that are left.
Graded(d, days) ==
    IF days < 0 THEN 0 ELSE IF d = "contract_end_date" THEN Band(days, 60, 90) ELSE Band(days, 90, 180)

LEMMA GradedGrows ==
    \A d \in Dates, x, y \in Int : 0 <= x /\ x <= y => Graded(d, x) >= Graded(d, y) /\ Graded(d, x) \in 0..3
  BY DEF Graded, Band, Info, Watch, Urgent

LEMMA GradedType == \A d \in Dates, x \in Int : Graded(d, x) \in 0..3
  BY DEF Graded, Band, Info, Watch, Urgent

BenchTyped ==
    /\ ends \in Int /\ record.has \subseteq Dates /\ record.offset \in Int
    /\ worst \in [Dates -> 0..3]

AlertsInv == BenchTyped /\ AlertsEscalate /\ (record.has = {} => \A d \in Dates : worst[d] = 0)

LEMMA SeverityIsGraded ==
    ASSUME BenchTyped, NEW d \in Dates
    PROVE  DaysTo(d) \in Int /\ SeverityOf(d) = IF d \in record.has THEN Graded(d, DaysTo(d)) ELSE 0
  BY DEF BenchTyped, DaysTo, SeverityOf, Graded

LEMMA AlertsInvInit == BenchInit => AlertsInv
  BY BenchAssumption DEF BenchInit, AlertsInv, BenchTyped, AlertsEscalate

LEMMA AlertsInvStep == AlertsInv /\ [BenchNext]_benchVars => AlertsInv'
<1> SUFFICES ASSUME AlertsInv, [BenchNext]_benchVars PROVE AlertsInv'
  OBVIOUS
<1>0. BenchTyped
  BY DEF AlertsInv
<1>1. CASE UNCHANGED <<ends, record, worst>>
  BY <1>1 DEF AlertsInv, BenchTyped, AlertsEscalate, DaysTo, SeverityOf
<1>2. ASSUME NEW has \in (SUBSET Dates) \ {{}}, NEW offset \in Offsets, PlaceContractor(has, offset)
      PROVE  AlertsInv'
  <2>1. record' = [has |-> has, offset |-> offset] /\ UNCHANGED <<ends, worst>> /\ \A d \in Dates : worst[d] = 0
    BY <1>2 DEF PlaceContractor, AlertsInv
  <2>2. BenchTyped'
    BY <1>0, <2>1, BenchAssumption DEF BenchTyped
  <2>3. \A d \in Dates : SeverityOf(d)' >= 0
    BY <2>2, SeverityIsGraded, GradedType DEF SeverityOf, DaysTo, Graded, BenchTyped, Band, Info, Watch, Urgent
  <2>4. AlertsEscalate'
    <3> SUFFICES ASSUME NEW d \in record'.has PROVE SeverityOf(d)' >= worst'[d]
      BY DEF AlertsEscalate
    <3>1. d \in Dates /\ worst'[d] = 0
      BY <2>1, <2>2 DEF BenchTyped
    <3> QED  BY <2>3, <3>1
  <2>5. \A d \in Dates : worst'[d] = 0
    BY <2>1
  <2> QED  BY <2>2, <2>4, <2>5 DEF AlertsInv
<1>3. CASE bench_evaluate
  <2>1. record.has # {} /\ UNCHANGED <<ends, record>> /\ worst' = [d \in Dates |-> Max({worst[d], SeverityOf(d)})]
    BY <1>3 DEF bench_evaluate
  <2>2. \A d \in Dates : SeverityOf(d) \in 0..3 /\ worst[d] \in 0..3
    BY <1>0, SeverityIsGraded, GradedType DEF BenchTyped
  <2>3. \A d \in Dates : worst'[d] = IF worst[d] >= SeverityOf(d) THEN worst[d] ELSE SeverityOf(d)
    BY <2>1, <2>2, MaxOfTwo
  <2>4. worst' \in [Dates -> 0..3]
    <3>1. \A d \in Dates : Max({worst[d], SeverityOf(d)}) \in 0..3
      BY <2>2, MaxOfTwo
    <3> QED  BY <2>1, <3>1
  <2>5. \A d \in record.has : DaysTo(d) >= 0 => SeverityOf(d) >= worst'[d]
    BY <1>0, <2>2, <2>3 DEF AlertsInv, AlertsEscalate, BenchTyped
  <2>6. \A d \in Dates : DaysTo(d)' = DaysTo(d) /\ SeverityOf(d)' = SeverityOf(d)
    BY <2>1 DEF SeverityOf, DaysTo
  <2>7. AlertsEscalate' /\ BenchTyped'
    BY <1>0, <2>1, <2>4, <2>5, <2>6 DEF BenchTyped, AlertsEscalate
  <2> QED  BY <2>1, <2>7 DEF AlertsInv
<1>4. CASE NextDay
  <2>1. record.has # {} /\ ends' = ends - 1 /\ UNCHANGED <<record, worst>>
    BY <1>4 DEF NextDay
  <2>2. BenchTyped'
    BY <1>0, <2>1 DEF BenchTyped
  <2>3. ASSUME NEW d \in record.has, DaysTo(d)' >= 0 PROVE SeverityOf(d)' >= worst[d]
    <3>1. d \in Dates /\ DaysTo(d)' = DaysTo(d) - 1 /\ DaysTo(d) \in Int
      BY <1>0, <2>1 DEF BenchTyped, DaysTo
    <3>2. SeverityOf(d) >= worst[d] /\ SeverityOf(d) = Graded(d, DaysTo(d))
      BY <1>0, <2>3, <3>1, SeverityIsGraded DEF AlertsInv, AlertsEscalate
    <3>3. SeverityOf(d)' = Graded(d, DaysTo(d) - 1)
      BY <2>1, <2>3, <3>1 DEF SeverityOf, Graded
    <3>4. /\ Graded(d, DaysTo(d) - 1) >= Graded(d, DaysTo(d)) /\ Graded(d, DaysTo(d) - 1) \in 0..3
          /\ Graded(d, DaysTo(d)) \in 0..3 /\ worst[d] \in 0..3
      BY <1>0, <2>3, <3>1, GradedGrows, GradedType DEF BenchTyped
    <3> QED  BY <3>2, <3>3, <3>4
  <2> QED  BY <2>1, <2>2, <2>3 DEF AlertsInv, AlertsEscalate
<1>5. CASE Month \/ \E weekly \in Weekly, s \in {"direct_client_management", "vendor_managed"} : Engage(weekly, s)
  BY <1>1, <1>5 DEF Month, Engage
<1> QED  BY <1>1, <1>2, <1>3, <1>4, <1>5 DEF BenchNext, benchVars

\* An engagement: what it costs and risks follows from its months and hours.
EngagementOf(e) ==
    /\ {e.tenure, e.hours, e.weekly} \subseteq Nat
    /\ e = Engagement(e.tenure, e.hours, e.weekly, e.supervision)

ExposureInv == ExposureOnlyGrows /\ (exposure # <<>> => EngagementOf(Last(exposure)))

LEMMA MonthOnlyGrows ==
    ASSUME NEW t \in Nat, NEW h \in Nat, NEW g \in Nat, h <= g, NEW w \in Nat, NEW s
    PROVE  /\ Engagement(t, h, w, s).band <= Engagement(t + 1, g, w, s).band
           /\ Engagement(t, h, w, s).fee.net_fee >= Engagement(t + 1, g, w, s).fee.net_fee
           /\ Engagement(t, h, w, s).fee.waiver => Engagement(t + 1, g, w, s).fee.waiver
<1>1. summarise(t, w, s) <= summarise(t + 1, w, s)
  BY DEF summarise, TenureRisk, Info, Watch, Urgent
<1>2. Max({2000 - h, 0}) >= Max({2000 - g, 0})
  <2>1. /\ Max({2000 - h, 0}) = IF 2000 - h >= 0 THEN 2000 - h ELSE 0
        /\ Max({2000 - g, 0}) = IF 2000 - g >= 0 THEN 2000 - g ELSE 0
    BY MaxOfTwo
  <2> QED  BY <2>1
<1>3. compute(h).waiver => compute(g).waiver
  <2>1. compute(h).waiver = (h >= 1000) /\ compute(g).waiver = (g >= 1000)
    BY Zenon DEF compute
  <2>2. h >= 1000 => g >= 1000
    OBVIOUS
  <2> QED  BY <2>1, <2>2, Zenon
<1> QED  BY <1>1, <1>2, <1>3 DEF Engagement, compute

LEMMA ExposureInvInit == BenchInit => ExposureInv
  BY DEF BenchInit, ExposureInv, ExposureOnlyGrows

LEMMA ExposureInvStep == ExposureInv /\ [BenchNext]_benchVars => ExposureInv'
<1> SUFFICES ASSUME ExposureInv, [BenchNext]_benchVars PROVE ExposureInv'
  OBVIOUS
<1>1. CASE UNCHANGED exposure
  BY <1>1 DEF ExposureInv, ExposureOnlyGrows
<1>2. ASSUME NEW weekly \in Weekly, NEW s, Engage(weekly, s) PROVE ExposureInv'
  <2>1. weekly \in Nat /\ exposure' = <<Engagement(0, 0, weekly, s)>>
    BY <1>2, BenchAssumption DEF Engage
  <2>2. Len(exposure') = 1 /\ Last(exposure') = Engagement(0, 0, weekly, s)
    BY <2>1 DEF Last
  <2> QED  BY <2>1, <2>2 DEF ExposureInv, ExposureOnlyGrows, EngagementOf, Engagement
<1>3. CASE Month
  <2> DEFINE e == Last(exposure)
             f == Engagement(e.tenure + 1, e.hours + 4 * e.weekly, e.weekly, e.supervision)
  <2>1. EngagementOf(e) /\ exposure' = <<e, f>>
    BY <1>3 DEF Month, ExposureInv
  <2>2. /\ e.tenure \in Nat /\ e.hours \in Nat /\ e.weekly \in Nat
        /\ e = Engagement(e.tenure, e.hours, e.weekly, e.supervision)
        /\ e.hours + 4 * e.weekly \in Nat /\ e.hours <= e.hours + 4 * e.weekly
    BY <2>1 DEF EngagementOf
  <2>3. /\ e.band <= f.band /\ e.fee.net_fee >= f.fee.net_fee
        /\ e.fee.waiver => f.fee.waiver
    BY <2>2, MonthOnlyGrows
  <2>4. /\ f.tenure = e.tenure + 1 /\ f.hours = e.hours + 4 * e.weekly
        /\ f.weekly = e.weekly /\ f.supervision = e.supervision
    BY DEF Engagement
  <2>5. EngagementOf(f)
    BY <2>2, <2>4 DEF EngagementOf
  <2> HIDE DEF e, f
  <2>6. exposure'[1] = e /\ exposure'[2] = f /\ Last(exposure') = f
    BY <2>1 DEF Last
  <2>7. ExposureOnlyGrows'
    <3>1. exposure'[1].band <= exposure'[2].band /\ exposure'[1].fee.net_fee >= exposure'[2].fee.net_fee
      BY <2>3, <2>6
    <3>2. exposure'[1].fee.waiver => exposure'[2].fee.waiver
      BY <2>3, <2>6, Zenon
    <3> QED  BY <3>1, <3>2, Zenon DEF ExposureOnlyGrows
  <2> QED  BY <2>5, <2>6, <2>7 DEF ExposureInv
<1> QED  BY <1>1, <1>2, <1>3 DEF BenchNext, benchVars, PlaceContractor, bench_evaluate, NextDay

-----------------------------------------------------------------------------
(* The time budget of a stage.                                             *)

MonitorTyped ==
    /\ stay \in [stage : Stage, age : Nat, hour : 0..3]
    /\ severities \in Seq({"ok", "warning", "breached"})

\* The last poll was four quarters ago at most, and found what it says.
PolledAt(a) ==
    /\ a % 4 = stay.hour /\ a <= stay.age /\ stay.age <= a + 4
    /\ Last(severities) = sla_evaluate(stay.stage, a)

InSequence(list) ==
    /\ Len(list) \in 1..3 /\ list[1] = "ok"
    /\ Len(list) >= 2 => list[2] = "warning"
    /\ Len(list) = 3 => list[3] = "breached"

WarnedInv ==
    /\ MonitorTyped
    /\ severities = <<>> => stay.age <= stay.hour
    /\ severities # <<>> => \E a \in Nat : PolledAt(a)
    /\ severities # <<>> /\ DEFAULT_BUDGETS(stay.stage) >= 4 /\ severities[1] = "ok" => InSequence(severities)

LEMMA BudgetType == \A s : DEFAULT_BUDGETS(s) \in Nat
  BY DEF DEFAULT_BUDGETS

LEMMA WarnedInvInit == MonitorInit => WarnedInv
  BY DEF MonitorInit, NewRequisition, WarnedInv, MonitorTyped, Stage

LEMMA WarnedInvStep == WarnedInv /\ [MonitorNext]_monitorVars => WarnedInv'
<1> SUFFICES ASSUME WarnedInv, [MonitorNext]_monitorVars PROVE WarnedInv'
  OBVIOUS
<1>0. MonitorTyped /\ stay.age \in Nat /\ stay.hour \in 0..3 /\ stay.stage \in Stage
  BY DEF WarnedInv, MonitorTyped
<1>1. CASE UNCHANGED <<stay, severities>>
  BY <1>1 DEF WarnedInv, MonitorTyped, PolledAt
<1>2. CASE Enter
  <2>1. severities = <<>> /\ severities' = <<>> /\ stay' \in [stage : Stage, age : {0}, hour : 0..3]
    BY <1>2 DEF Enter
  <2> QED  BY <1>0, <2>1 DEF WarnedInv, MonitorTyped
<1>3. CASE Quarter
  <2>1. /\ stay' = [stay EXCEPT !.age = @ + 1] /\ severities' = severities
        /\ stay.age % 4 = stay.hour =>
             severities # <<>> /\ Last(severities) = sla_evaluate(stay.stage, stay.age)
    BY <1>3 DEF Quarter
  <2>2. /\ stay'.age = stay.age + 1 /\ stay'.hour = stay.hour /\ stay'.stage = stay.stage
        /\ MonitorTyped'
    BY <1>0, <2>1 DEF MonitorTyped
  <2>3. severities = <<>> => stay'.age <= stay'.hour
    BY <1>0, <2>1, <2>2 DEF WarnedInv
  <2>4. ASSUME severities # <<>> PROVE \E a \in Nat : PolledAt(a)'
    <3>1. CASE stay.age % 4 = stay.hour
      BY <1>0, <2>1, <2>2, <3>1 DEF PolledAt
    <3>2. CASE stay.age % 4 # stay.hour
      <4>1. PICK a \in Nat : PolledAt(a)
        BY <2>4 DEF WarnedInv
      <4>2. stay.age # a + 4
        BY <1>0, <3>2, <4>1 DEF PolledAt
      <4> QED  BY <1>0, <2>1, <2>2, <4>1, <4>2 DEF PolledAt
    <3> QED  BY <3>1, <3>2
  <2> QED  BY <2>1, <2>2, <2>3, <2>4 DEF WarnedInv
<1>4. CASE pipeline_health
  <2> DEFINE new == sla_evaluate(stay.stage, stay.age)
             B   == DEFAULT_BUDGETS(stay.stage)
  <2>1. /\ stay.age % 4 = stay.hour /\ stay' = stay /\ severities' = Append(severities, new)
        /\ severities # <<>> => new # Last(severities)
    BY <1>4 DEF pipeline_health
  <2>2. new \in {"ok", "warning", "breached"} /\ B \in Nat
    BY BudgetType DEF sla_evaluate
  <2>3. MonitorTyped' /\ severities' # <<>> /\ Last(severities') = new
    BY <1>0, <2>1, <2>2 DEF MonitorTyped, Last
  <2>4. PolledAt(stay.age)'
    BY <1>0, <2>1, <2>3 DEF PolledAt
  <2>5. ASSUME B >= 4, severities'[1] = "ok" PROVE InSequence(severities')
    <3>1. CASE severities = <<>>
      <4>1. Len(severities') = 1
        BY <2>1, <3>1
      <4> QED  BY <2>5, <4>1 DEF InSequence
    <3>2. CASE severities # <<>>
      <4>1. severities[1] = "ok"
        BY <1>0, <2>1, <2>5, <3>2 DEF MonitorTyped
      <4>2. InSequence(severities)
        BY <2>5, <3>2, <4>1 DEF WarnedInv
      <4>3. PICK a \in Nat : PolledAt(a)
        BY <3>2 DEF WarnedInv
      <4>4. a <= stay.age /\ stay.age <= a + 4 /\ Last(severities) = sla_evaluate(stay.stage, a)
        BY <4>3 DEF PolledAt
      <4>5. Last(severities) = "ok" => new = "warning"
        BY <1>0, <2>1, <2>2, <2>5, <3>2, <4>4 DEF sla_evaluate
      <4>6. Last(severities) = "warning" => new = "breached"
        BY <1>0, <2>1, <2>2, <3>2, <4>4 DEF sla_evaluate
      <4>7. Last(severities) # "breached"
        BY <1>0, <2>1, <2>2, <3>2, <4>4 DEF sla_evaluate
      <4>8. /\ Len(severities') = Len(severities) + 1 /\ severities'[Len(severities) + 1] = new
            /\ \A k \in 1..Len(severities) : severities'[k] = severities[k]
            /\ Len(severities) \in 1..3 /\ Last(severities) = severities[Len(severities)]
        BY <1>0, <2>1, <2>2, <4>2 DEF MonitorTyped, InSequence, Last
      <4> QED  BY <2>5, <4>2, <4>5, <4>6, <4>7, <4>8 DEF InSequence
    <3> QED  BY <3>1, <3>2
  <2> QED  BY <1>0, <2>1, <2>3, <2>4, <2>5 DEF WarnedInv
<1> QED  BY <1>1, <1>2, <1>3, <1>4 DEF MonitorNext, monitorVars, pipeline_route

LEMMA WarnedInvWarns == WarnedInv => WarnedBeforeBreach
<1> SUFFICES ASSUME WarnedInv, NEW i \in DOMAIN severities, severities[i] = "breached",
                    DEFAULT_BUDGETS(stay.stage) >= 4, severities[1] = "ok"
             PROVE  i = 3 /\ severities[2] = "warning"
  BY DEF WarnedBeforeBreach
<1>1. severities \in Seq({"ok", "warning", "breached"}) /\ severities # <<>>
  BY DEF WarnedInv, MonitorTyped
<1>2. InSequence(severities)
  BY <1>1 DEF WarnedInv
<1> QED  BY <1>1, <1>2 DEF InSequence

-----------------------------------------------------------------------------
(* The stored score of a candidate.                                        *)

LEMMA RankType ==
    /\ \A c \in ToSet(ClearanceTypes) : RankIn(ClearanceTypes, c) \in Int
    /\ \A g \in ToSet(PolygraphTypes) : RankIn(PolygraphTypes, g) \in Int
<1>1. ASSUME NEW c \in ToSet(ClearanceTypes) PROVE RankIn(ClearanceTypes, c) \in Int
  <2>1. DOMAIN ClearanceTypes = 1..5
    BY DEF ClearanceTypes
  <2>2. \E i \in DOMAIN ClearanceTypes : ClearanceTypes[i] = c
    BY DEF ToSet
  <2> QED  BY <2>1, <2>2 DEF RankIn
<1>2. ASSUME NEW g \in ToSet(PolygraphTypes) PROVE RankIn(PolygraphTypes, g) \in Int
  <2>1. DOMAIN PolygraphTypes = 1..4
    BY DEF PolygraphTypes
  <2>2. \E i \in DOMAIN PolygraphTypes : PolygraphTypes[i] = g
    BY DEF ToSet
  <2> QED  BY <2>1, <2>2 DEF RankIn
<1> QED  BY <1>1, <1>2

\* What the score is computed from: numbers, and members of the two lists.
Scorable(p) ==
    /\ p.clearance \in ToSet(ClearanceTypes) /\ p.polygraph \in ToSet(PolygraphTypes)
    /\ p.adjudicated \in Int /\ p.readons \in Nat

\* Only the adjudication ages: the score never rises with the years.
LEMMA ScoreFalls ==
    ASSUME NEW p, Scorable(p), NEW y \in Int, NEW z \in Int, y <= z
    PROVE  /\ deployability_score(p, y) \in 0..100
           /\ deployability_score(p, z) <= deployability_score(p, y)
<1> DEFINE rest == ClearancePoints(p) + 5 * RankIn(PolygraphTypes, p.polygraph)
           readons == IF p.readons >= 5 THEN 10 ELSE IF p.readons >= 3 THEN 7
                      ELSE IF p.readons >= 1 THEN 4 ELSE 0
           citizen == CASE p.citizenship = "us_citizen" -> 10
                        [] p.citizenship = "permanent_resident" -> 4 [] OTHER -> 0
           soon == CASE p.availability = "immediately" -> 5 [] p.availability = "two_weeks" -> 4
                     [] p.availability = "thirty_days" -> 2 [] OTHER -> 0
           itar == IF p.itar THEN 5 ELSE 0
           Sum(t) == rest + FreshnessPoints(p, t) + readons + citizen + itar + soon
<1>1. /\ p.clearance \in ToSet(ClearanceTypes) /\ p.polygraph \in ToSet(PolygraphTypes)
      /\ p.adjudicated \in Int /\ p.readons \in Nat
  BY DEF Scorable
<1>2. ClearancePoints(p) \in Int
  <2>1. 10 * RankIn(ClearanceTypes, p.clearance) \in Int
    BY <1>1, RankType
  <2> QED  BY <2>1 DEF ClearancePoints
<1>3. rest \in Int
  BY <1>1, <1>2, RankType
<1>4. readons \in Int /\ citizen \in Int /\ soon \in Int /\ itar \in Int
  OBVIOUS
<1>5. \A t \in Int : deployability_score(p, t) = Min({100, Max({0, Sum(t)})})
  BY DEF deployability_score
<1> HIDE DEF rest, readons, citizen, soon, itar
<1>6. /\ FreshnessPoints(p, y) \in Int /\ FreshnessPoints(p, z) \in Int
      /\ FreshnessPoints(p, z) <= FreshnessPoints(p, y)
  BY <1>1 DEF FreshnessPoints
<1>7. Sum(y) \in Int /\ Sum(z) \in Int /\ Sum(z) <= Sum(y)
  BY <1>3, <1>4, <1>6
<1> HIDE DEF Sum
<1>8. \A x \in Int : /\ Max({0, x}) = IF 0 >= x THEN 0 ELSE x
                    /\ Min({100, Max({0, x})}) = IF 100 <= Max({0, x}) THEN 100 ELSE Max({0, x})
  BY MaxOfTwo, MinOfTwo
<1>9. \A x \in Int : Min({100, Max({0, x})}) = IF x <= 0 THEN 0 ELSE IF x >= 100 THEN 100 ELSE x
  BY <1>8
<1>10. /\ deployability_score(p, y) = IF Sum(y) <= 0 THEN 0 ELSE IF Sum(y) >= 100 THEN 100 ELSE Sum(y)
       /\ deployability_score(p, z) = IF Sum(z) <= 0 THEN 0 ELSE IF Sum(z) >= 100 THEN 100 ELSE Sum(z)
  BY <1>5, <1>7, <1>9
<1> QED  BY <1>7, <1>10

\* What was stored was right once.
ScoresInv ==
    /\ DOMAIN rows = 1..Len(rows) /\ Len(rows) \in Nat /\ year \in Nat
    /\ \A i \in DOMAIN creates : creates[i].who \in People
    /\ DOMAIN creates = 1..Len(creates) /\ Len(creates) \in Nat
    /\ \A i \in DOMAIN rows : rows[i].score # Unscored =>
            /\ Scorable(rows[i].as)
            /\ \E y \in 0..year : rows[i].score = deployability_score(rows[i].as, y)

\* A request that posts a person's data, whatever its way.
LEMMA AsPostedType ==
    ASSUME NEW i \in DOMAIN creates, creates[i].who \in People
    PROVE  Scorable(AsPosted(i))
<1> DEFINE q == Profile[creates[i].who]
<1>1. q \in ProfileType
  BY CandidatesAssumption
<1> HIDE DEF q
<1>2. Scorable(q)
  BY <1>1 DEF ProfileType, Scorable
<1>3. Scorable(FromText(q))
  BY <1>1 DEF FromText, ProfileType, Scorable
<1> QED  BY <1>2, <1>3 DEF AsPosted, q

LEMMA ScoresInvInit == CandidatesInit => ScoresInv
  BY DEF CandidatesInit, ScoresInv

LEMMA ScoresInvStep == ScoresInv /\ [CandidatesNext]_candidateVars => ScoresInv'
<1> SUFFICES ASSUME ScoresInv, [CandidatesNext]_candidateVars PROVE ScoresInv'
  OBVIOUS
<1>0. /\ DOMAIN rows = 1..Len(rows) /\ Len(rows) \in Nat /\ year \in Nat
      /\ DOMAIN creates = 1..Len(creates) /\ Len(creates) \in Nat
  BY DEF ScoresInv
<1>1. CASE UNCHANGED <<rows, creates, year>>
  BY <1>1 DEF ScoresInv
<1>2. ASSUME NEW person \in People, NEW via, NEW no, Receive(person, via, no) PROVE ScoresInv'
  <2>1. /\ creates' = Append(creates, [who |-> person, via |-> via, pc |-> IF no THEN "refused" ELSE "embed"])
        /\ UNCHANGED <<rows, year>>
    BY <1>2 DEF Receive
  <2>2. /\ DOMAIN creates' = 1..Len(creates) + 1 /\ Len(creates') = Len(creates) + 1
        /\ \A i \in DOMAIN creates' : creates'[i].who \in People
    BY <1>0, <2>1 DEF ScoresInv
  <2> QED  BY <1>0, <2>1, <2>2 DEF ScoresInv
<1>3. ASSUME NEW i \in DOMAIN creates, Embed(i) PROVE ScoresInv'
  <2>1. PICK pc : creates' = [creates EXCEPT ![i].pc = pc] /\ UNCHANGED <<rows, year>>
    BY <1>3 DEF Embed
  <2>2. /\ DOMAIN creates' = DOMAIN creates /\ Len(creates') = Len(creates)
        /\ \A j \in DOMAIN creates : creates'[j].who \in People
    BY <1>0, <2>1 DEF ScoresInv
  <2> QED  BY <1>0, <2>1, <2>2 DEF ScoresInv
<1>4. ASSUME NEW i \in DOMAIN creates, insert(i) PROVE ScoresInv'
  <2> DEFINE p == AsPosted(i)
             score == IF p.clearance # "none" THEN deployability_score(p, year) ELSE Unscored
             row == [who |-> creates[i].who, as |-> p, score |-> score]
  <2>1. PICK pc :
          /\ creates' = [creates EXCEPT ![i].pc = pc] /\ year' = year
          /\ rows' = Append(rows, row) \/ rows' = rows
    BY <1>4 DEF insert, RolledBack
  <2>2. /\ DOMAIN creates' = DOMAIN creates /\ Len(creates') = Len(creates)
        /\ \A j \in DOMAIN creates : creates'[j].who \in People
    BY <1>0, <2>1 DEF ScoresInv
  <2>3. Scorable(p)
    BY AsPostedType DEF ScoresInv
  <2>4. score # Unscored => \E y \in 0..year : score = deployability_score(p, y)
    BY <1>0
  <2>5. row.score = score /\ row.as = p
    OBVIOUS
  <2> HIDE DEF p, score, row
  <2>6. /\ DOMAIN rows' = 1..Len(rows') /\ Len(rows') \in Nat
        /\ \A j \in DOMAIN rows' : rows'[j] = row \/ (j \in DOMAIN rows /\ rows'[j] = rows[j])
    BY <1>0, <2>1
  <2>7. ASSUME NEW j \in DOMAIN rows', rows'[j].score # Unscored
        PROVE  /\ Scorable(rows'[j].as)
               /\ \E y \in 0..year : rows'[j].score = deployability_score(rows'[j].as, y)
    <3>1. CASE rows'[j] = row
      BY <2>3, <2>4, <2>5, <2>7, <3>1
    <3>2. CASE j \in DOMAIN rows /\ rows'[j] = rows[j]
      BY <2>7, <3>2 DEF ScoresInv
    <3> QED  BY <2>6, <3>1, <3>2
  <2> QED  BY <1>0, <2>1, <2>2, <2>6, <2>7 DEF ScoresInv
<1>5. CASE NewYear
  <2>1. year' = year + 2 /\ UNCHANGED <<rows, creates>>
    BY <1>5 DEF NewYear
  <2> QED  BY <1>0, <2>1 DEF ScoresInv
<1>6. CASE \E q \in Queries : search_candidates(q)
  BY <1>1, <1>6 DEF search_candidates
<1> QED  BY <1>1, <1>2, <1>3, <1>4, <1>5, <1>6
    DEF CandidatesNext, candidateVars, create_candidate, candidate_from_resume

LEMMA ScoresInvOverstates == ScoresInv => ScoreOnlyOverstates
<1> SUFFICES ASSUME ScoresInv, NEW i \in DOMAIN rows, rows[i].score # Unscored
             PROVE  rows[i].score >= deployability_score(rows[i].as, year)
  BY DEF ScoreOnlyOverstates
<1>1. PICK y \in 0..year : rows[i].score = deployability_score(rows[i].as, y)
  BY DEF ScoresInv
<1>2. Scorable(rows[i].as) /\ y \in Int /\ year \in Int /\ y <= year
  BY <1>1 DEF ScoresInv
<1>3. deployability_score(rows[i].as, year) <= deployability_score(rows[i].as, y)
  BY <1>2, ScoreFalls
<1>4. /\ deployability_score(rows[i].as, y) \in 0..100 /\ deployability_score(rows[i].as, year) \in 0..100
  <2>1. year <= year /\ y <= y
    BY <1>2
  <2> QED  BY <1>2, <2>1, ScoreFalls
<1> QED  BY <1>1, <1>3, <1>4

\* Time alone makes nothing look better than it is: an alert does not ease off, the
\* breach of a stage of four days or more is announced to who asks every day, an
\* engagement gets no less risky and no dearer to convert, and a stored score is
\* never too low.
THEOREM TimeIsNoFriend == PlatformSpec => []TimeNeverEases
<1>1. AlertsInv /\ WarnedInv /\ ExposureInv /\ ScoresInv => TimeNeverEases
  BY WarnedInvWarns, ScoresInvOverstates DEF AlertsInv, ExposureInv, TimeNeverEases
<1>2. PlatformSpec => [](AlertsInv /\ WarnedInv /\ ExposureInv /\ ScoresInv)
  BY StartOfServices, StepOfServices, AlertsInvInit, AlertsInvStep, WarnedInvInit, WarnedInvStep,
     ExposureInvInit, ExposureInvStep, ScoresInvInit, ScoresInvStep, PTL DEF PlatformSpec
<1> QED  BY <1>1, <1>2, PTL

-----------------------------------------------------------------------------
(* Remote calls.                                                           *)

Acted == ToSet(remote)

\* What has an effect, or may still have one, and the caller was told it failed.
Unheard    == {n \in DOMAIN calls : calls[n].pc \in {"failure", "raised"} /\ (calls[n].open \/ n \in Acted)}
UnheardOf(item) == {n \in Unheard : calls[n].item = item}

\* One request: what it was told is true.
SoundCall(n) ==
    /\ calls[n].via \in {"greenhouse", "google", "vapi", "sendgrid", "twilio", "smtp", "mock"}
    /\ calls[n].run <= run
    /\ calls[n].pc = "sent" => calls[n].via # "mock" /\ (calls[n].open \/ n \in Acted)
    /\ calls[n].open => n \notin Acted /\ calls[n].via # "mock"
    /\ calls[n].pc = "success" /\ calls[n].via # "mock" => n \in Acted
    /\ calls[n].pc = "success" /\ calls[n].via = "mock" /\ calls[n].op = "background" /\ calls[n].run = run
         => calls[n].id \in DOMAIN memory /\ memory[calls[n].id] = calls[n].item

Live(n) == calls[n].pc \in {"sent", "success"}

\* Only one request of an item is under way or was successful, and every effect
\* that nobody heard of has its fault.
CallsInv ==
    /\ CallsTypeOK /\ run <= faults + 1
    /\ \A n \in DOMAIN calls : SoundCall(n)
    /\ \A m, n \in DOMAIN calls : Live(m) /\ Live(n) /\ calls[m].item = calls[n].item => m = n
    /\ \A item \in Items : Cardinality(UnheardOf(item)) <= faults
    /\ run = 1 => Cardinality(Unheard) <= faults

LEMMA OneMore ==
    ASSUME NEW A, IsFiniteSet(A), NEW B, NEW x, NEW k \in Nat, Cardinality(A) <= k, B \subseteq A \cup {x}
    PROVE  IsFiniteSet(B) /\ Cardinality(B) \in Nat /\ Cardinality(B) <= k + 1
<1>1. IsFiniteSet(A \cup {x}) /\ Cardinality(A) \in Nat
  BY FS_AddElement, FS_CardinalityType
<1>2. Cardinality(A \cup {x}) = IF x \in A THEN Cardinality(A) ELSE Cardinality(A) + 1
  BY FS_AddElement
<1>3. Cardinality(A \cup {x}) <= k + 1
  BY <1>1, <1>2
<1>4. IsFiniteSet(B) /\ Cardinality(B) \in Nat /\ Cardinality(A \cup {x}) \in Nat
      /\ Cardinality(B) <= Cardinality(A \cup {x})
  BY <1>1, FS_Subset, FS_CardinalityType
<1> QED  BY <1>3, <1>4

LEMMA NoMore ==
    ASSUME NEW A, IsFiniteSet(A), NEW B, NEW k \in Nat, Cardinality(A) <= k, B \subseteq A
    PROVE  IsFiniteSet(B) /\ Cardinality(B) \in Nat /\ Cardinality(B) <= k
<1>1. IsFiniteSet(B) /\ Cardinality(B) <= Cardinality(A)
  BY FS_Subset
<1>2. Cardinality(B) \in Nat /\ Cardinality(A) \in Nat
  BY <1>1, FS_CardinalityType
<1> QED  BY <1>1, <1>2

LEMMA UnheardFinite ==
    ASSUME CallsTypeOK
    PROVE  IsFiniteSet(Unheard) /\ \A item : IsFiniteSet(UnheardOf(item))
<1>1. IsFiniteSet(1..Len(calls)) /\ DOMAIN calls = 1..Len(calls)
  BY FS_Interval DEF CallsTypeOK
<1>2. Unheard \subseteq 1..Len(calls) /\ \A item : UnheardOf(item) \subseteq 1..Len(calls)
  BY <1>1 DEF Unheard, UnheardOf
<1> QED  BY <1>1, <1>2, FS_Subset

LEMMA CallsTyped ==
    ASSUME CallsTypeOK
    PROVE  /\ DOMAIN calls = 1..Len(calls) /\ Len(calls) \in Nat
           /\ \A n \in DOMAIN calls :
                 /\ calls[n] \in Call /\ calls[n].item \in Items /\ calls[n].open \in BOOLEAN
                 /\ calls[n].run \in Nat /\ calls[n].id \in Nat
                 /\ calls[n].pc \in {"sent", "success", "failure", "raised"}
           /\ Acted \subseteq DOMAIN calls
           /\ run \in Nat /\ faults \in Nat /\ run >= 1
           /\ DOMAIN memory = 1..Len(memory) /\ Len(memory) \in Nat
<1>1. \A n \in DOMAIN calls : calls[n] \in Call
  BY EntryOf DEF CallsTypeOK
<1>2. \A c \in Call : /\ c.item \in Items /\ c.open \in BOOLEAN /\ c.run \in Nat /\ c.id \in Nat
                      /\ c.pc \in {"sent", "success", "failure", "raised"}
  BY DEF Call, Told
<1>3. Acted \subseteq DOMAIN calls
  BY EntryOf DEF CallsTypeOK, Acted, ToSet
<1> QED  BY <1>1, <1>2, <1>3, CallsAssumption DEF CallsTypeOK

LEMMA CallsInvInit == CallsInit => CallsInv
<1> SUFFICES ASSUME CallsInit PROVE CallsInv
  OBVIOUS
<1>1. CallsTypeOK /\ DOMAIN calls = {}
  BY CallsAssumption DEF CallsInit, CallsTypeOK
<1>2. Unheard = {} /\ \A item : UnheardOf(item) = {}
  BY <1>1 DEF Unheard, UnheardOf
<1>3. run = 1 /\ faults = 0 /\ Cardinality(Unheard) = 0 /\ \A item \in Items : Cardinality(UnheardOf(item)) = 0
  BY <1>2, FS_EmptySet DEF CallsInit
<1> QED  BY <1>1, <1>3 DEF CallsInv

\* A new request, of which nothing is known outside yet.
LEMMA RecordKeeps ==
    ASSUME CallsInv, NEW c \in Call, Wanted(c.item),
           calls' = Append(calls, c), c.open = (c.pc = "sent"), c.run = run, UNCHANGED <<remote, run, faults>>,
           c.via \in {"greenhouse", "google", "vapi", "sendgrid", "twilio", "smtp", "mock"},
           c.pc \in {"sent", "success", "raised"},
           c.pc = "sent" => c.via # "mock", c.pc = "success" => c.via = "mock",
           memory' = memory \/ memory' = Append(memory, c.item),
           c.pc = "success" /\ c.op = "background" => c.id \in DOMAIN memory' /\ memory'[c.id] = c.item
    PROVE  CallsInv'
<1>0. CallsTypeOK
  BY DEF CallsInv
<1>a. PICK new \in Nat : new = Len(calls) + 1
  BY <1>0, CallsTyped
<1>1. /\ DOMAIN calls' = DOMAIN calls \cup {new} /\ new \notin DOMAIN calls
      /\ calls'[new] = c /\ \A n \in DOMAIN calls : calls'[n] = calls[n]
  BY <1>0, <1>a DEF CallsTypeOK
<1>2. CallsTypeOK'
  <2>1. c.item \in Items
    BY DEF Call
  <2>2. memory \in Seq(Items) /\ calls \in Seq(Call)
    BY <1>0 DEF CallsTypeOK
  <2>4. calls' \in Seq(Call)
    BY <2>2
  <2>5. memory' \in Seq(Items)
    BY <2>1, <2>2
  <2>3. remote' \in Seq(DOMAIN calls')
    BY <1>0, <1>1 DEF CallsTypeOK
  <2> QED  BY <1>0, <2>3, <2>4, <2>5 DEF CallsTypeOK
<1>3. Acted' = Acted /\ new \notin Acted
  BY <1>0, <1>1, CallsTyped DEF Acted
<1>4. Unheard' = Unheard
  BY <1>1, <1>3 DEF Unheard
<1>5. \A item : UnheardOf(item)' = UnheardOf(item)
  BY <1>1, <1>4 DEF UnheardOf, Unheard
<1>6. \A i \in DOMAIN memory : i \in DOMAIN memory' /\ memory'[i] = memory[i]
  <2>1. memory \in Seq(Items) /\ c.item \in Items
    BY <1>0 DEF CallsTypeOK, Call
  <2> QED  BY <2>1
<1>7. \A n \in DOMAIN calls' : SoundCall(n)'
  <2>1. ASSUME NEW n \in DOMAIN calls PROVE SoundCall(n)'
    <3>1. SoundCall(n) /\ calls'[n] = calls[n]
      BY <1>1 DEF CallsInv
    <3> QED  BY <1>3, <1>6, <3>1 DEF SoundCall
  <2>2. SoundCall(new)'
    <3>1. c.run <= run
      BY <1>0, CallsTyped
    <3>2. c.pc = "sent" => c.open
      OBVIOUS
    <3>3. c.open => c.pc = "sent"
      OBVIOUS
    <3>4. calls'[new] = c /\ new \notin Acted'
      BY <1>1, <1>3
    <3>5. /\ c.pc = "sent" => c.via # "mock" /\ (c.open \/ new \in Acted')
          /\ c.open => new \notin Acted' /\ c.via # "mock"
          /\ ~(c.pc = "success" /\ c.via # "mock")
      BY <3>2, <3>3, <3>4
    <3>6. c.run <= run'
      BY <3>1
    <3> QED  BY <3>4, <3>5, <3>6 DEF SoundCall
  <2> QED  BY <1>1, <2>1, <2>2
<1>8. \A m, n \in DOMAIN calls' : Live(m)' /\ Live(n)' /\ calls'[m].item = calls'[n].item => m = n
  <2>1. \A n \in DOMAIN calls : Live(n)' => Live(n) /\ calls[n].item # c.item
    BY <1>1 DEF Live, Wanted
  <2> QED  BY <1>1, <2>1 DEF CallsInv
<1>9. \A item \in Items : Cardinality(UnheardOf(item)') <= faults'
  BY <1>5 DEF CallsInv
<1> QED  BY <1>2, <1>4, <1>7, <1>8, <1>9 DEF CallsInv

LEMMA RequestStep ==
    ASSUME CallsInv, NEW item \in Items, Request(item)
    PROVE  CallsInv'
<1>0. CallsTypeOK /\ run \in Nat /\ memory \in Seq(Items)
  BY CallsTyped DEF CallsInv, CallsTypeOK
<1> DEFINE c(op, via, pc, id) == [op |-> op, item |-> item, via |-> via, pc |-> pc,
                                  open |-> pc = "sent", id |-> id, run |-> run]
           real == {"greenhouse", "google", "vapi", "sendgrid", "twilio", "smtp"} \cap (Configured \cup {"smtp"})
<1>1. ASSUME NEW op \in Operations, NEW via \in real, NEW pc \in {"sent", "raised"},
             Wanted(item), Record(op, item, via, pc, 0), UNCHANGED <<remote, memory, run, faults>>
      PROVE  CallsInv'
  <2>1. c(op, via, pc, 0) \in Call
    BY <1>0 DEF Call, Told
  <2>2. calls' = Append(calls, c(op, via, pc, 0))
    BY <1>1 DEF Record
  <2> QED  BY <1>1, <2>1, <2>2, RecordKeeps
<1>2. ASSUME NEW op \in Operations \ {"background"}, NEW id \in Nat,
             Wanted(item), Record(op, item, "mock", "success", id), UNCHANGED <<remote, run, faults>>,
             memory' = memory \/ memory' = Append(memory, item)
      PROVE  CallsInv'
  <2>1. c(op, "mock", "success", id) \in Call
    BY <1>0 DEF Call, Told
  <2>2. calls' = Append(calls, c(op, "mock", "success", id))
    BY <1>2 DEF Record
  <2> QED  BY <1>2, <2>1, <2>2, RecordKeeps
<1>3. ASSUME Wanted(item), MockCapture("background", item)
      PROVE  CallsInv'
  <2>1. MockId(memory) \in Nat
    BY <1>0 DEF MockId
  <2>2. c("background", "mock", "success", MockId(memory)) \in Call
    BY <1>0, <2>1 DEF Call, Told, Operations
  <2>3. calls' = Append(calls, c("background", "mock", "success", MockId(memory)))
    BY <1>3 DEF Record, MockCapture
  <2>4. /\ memory' = Append(memory, item) /\ UNCHANGED <<remote, run, faults>>
        /\ MockId(memory) \in DOMAIN memory' /\ memory'[MockId(memory)] = item
    BY <1>0, <1>3 DEF MockCapture, MockId
  <2> QED  BY <1>3, <2>2, <2>3, <2>4, RecordKeeps
<1>4. ASSUME NEW op \in Operations \ {"background"}, NEW via \in real \cup {"mock"},
             Post(op, item, via)
      PROVE  CallsInv'
  <2>1. CASE via = "mock"
    <3>1. MockId(memory) \in Nat
      BY <1>0 DEF MockId
    <3> QED  BY <1>2, <1>4, <2>1, <3>1 DEF Post, MockCapture
  <2>2. CASE via # "mock"
    BY <1>1, <1>4, <2>2 DEF Post
  <2> QED  BY <2>1, <2>2
<1>5. ASSUME ats_submit(item) PROVE CallsInv'
  <2>1. select_adapter \in real \cup {"mock"} /\ "ats" \in Operations \ {"background"}
    BY DEF select_adapter, Chosen, Operations
  <2>2. CASE select_adapter = "greenhouse" /\ item \in NotNumbers
    BY <1>1, <1>5, <2>1, <2>2 DEF ats_submit
  <2>3. CASE ~(select_adapter = "greenhouse" /\ item \in NotNumbers)
    BY <1>4, <1>5, <2>1, <2>3 DEF ats_submit
  <2> QED  BY <2>2, <2>3
<1>6. ASSUME calendar_book(item) PROVE CallsInv'
  <2>1. select_calendar \in real \cup {"mock"}
        /\ "calendar" \in Operations \ {"background"}
    BY DEF select_calendar, Chosen, Operations
  <2> QED  BY <1>4, <1>6, <2>1 DEF calendar_book
<1>7. ASSUME voice_start(item) PROVE CallsInv'
  <2>1. select_voice \in real \cup {"mock"} /\ "voice" \in Operations \ {"background"}
    BY DEF select_voice, Chosen, Operations
  <2> QED  BY <1>4, <1>7, <2>1 DEF voice_start
<1>8. ASSUME NEW channel \in {"email", "sms", "linkedin"}, send(channel, item) PROVE CallsInv'
  <2>1. /\ select_channel(channel) \in real \cup {"mock"}
        /\ channel \in Operations \ {"background"}
    BY DEF select_channel, Chosen, Operations
  <2>2. CASE select_channel(channel) # "mock"
    BY <1>4, <1>8, <2>1, <2>2 DEF send
  <2>3. CASE select_channel(channel) = "mock"
    <3>1. MockId(<<>>) \in Nat
      BY DEF MockId
    <3> QED  BY <1>2, <1>8, <2>1, <2>3, <3>1 DEF send
  <2> QED  BY <2>2, <2>3
<1>9. ASSUME compliance_background_initiate(item) PROVE CallsInv'
  BY <1>3, <1>9 DEF compliance_background_initiate, select_background, Post
<1> QED  BY <1>5, <1>6, <1>7, <1>8, <1>9 DEF Request

\* What the provider does changes nothing of what the caller knows.
LEMMA ActStep ==
    ASSUME CallsInv, NEW n \in DOMAIN calls, Act(n)
    PROVE  CallsInv'
<1>0. CallsTypeOK
  BY DEF CallsInv
<1> DEFINE c == [calls[n] EXCEPT !.open = FALSE, !.id = Len(remote) + 1]
<1>1. calls' = [m \in DOMAIN calls |-> IF m = n THEN c ELSE calls[m]]
  BY DEF Act
<1>2. Len(remote) \in Nat /\ c \in Call
  <2>1. Len(remote) \in Nat /\ Len(remote) + 1 \in Nat
    BY <1>0 DEF CallsTypeOK
  <2>2. calls[n] \in Call
    BY <1>0, CallsTyped
  <2>3. \A d \in Call, k \in Nat : [d EXCEPT !.open = FALSE, !.id = k] \in Call
    BY DEF Call
  <2> QED  BY <2>1, <2>2, <2>3
<1>3. /\ DOMAIN calls' = DOMAIN calls
      /\ \A m \in DOMAIN calls : /\ calls'[m].item = calls[m].item /\ calls'[m].via = calls[m].via
                                 /\ calls'[m].pc = calls[m].pc /\ calls'[m].run = calls[m].run
                                 /\ calls'[m].op = calls[m].op
                                 /\ m # n => calls'[m] = calls[m]
      /\ ~calls'[n].open
  <2>1. calls[n] \in Call
    BY <1>0, CallsTyped
  <2>2. /\ c.item = calls[n].item /\ c.via = calls[n].via /\ c.pc = calls[n].pc /\ c.run = calls[n].run
        /\ c.op = calls[n].op /\ ~c.open
    BY <2>1 DEF Call
  <2> QED  BY <1>1, <2>2
<1>4. CallsTypeOK'
  <2>1. calls' \in Seq(Call)
    BY <1>0, <1>1, <1>2, CallsTyped, SameLength DEF CallsTypeOK
  <2>2. remote' \in Seq(DOMAIN calls)
    BY <1>0 DEF CallsTypeOK, Act
  <2> QED  BY <1>0, <1>3, <2>1, <2>2 DEF CallsTypeOK, Act
<1>5. Acted' = Acted \cup {n}
  <2>1. remote \in Seq(DOMAIN calls) /\ remote' = Append(remote, n)
    BY <1>0 DEF CallsTypeOK, Act
  <2> QED  BY <2>1 DEF Acted, ToSet
<1>6. calls[n].open /\ UNCHANGED <<memory, run, faults>> /\ SoundCall(n)
  BY DEF Act, CallsInv
<1>7. Unheard' = Unheard
  BY <1>3, <1>5, <1>6 DEF Unheard
<1>8. \A item : UnheardOf(item)' = UnheardOf(item)
  BY <1>3, <1>7 DEF UnheardOf, Unheard
<1>9. \A m \in DOMAIN calls : SoundCall(m)'
  <2>1. ASSUME NEW m \in DOMAIN calls, m # n PROVE SoundCall(m)'
    <3>1. SoundCall(m) /\ calls'[m] = calls[m] /\ (m \in Acted' <=> m \in Acted)
      BY <1>3, <1>5, <2>1 DEF CallsInv
    <3> QED  BY <1>6, <3>1 DEF SoundCall
  <2>2. SoundCall(n)'
    BY <1>3, <1>5, <1>6 DEF SoundCall
  <2> QED  BY <2>1, <2>2
<1>10. \A i, j \in DOMAIN calls' : Live(i)' /\ Live(j)' /\ calls'[i].item = calls'[j].item => i = j
  BY <1>3 DEF CallsInv, Live
<1> QED  BY <1>3, <1>4, <1>6, <1>7, <1>8, <1>9, <1>10 DEF CallsInv

\* An answer, or none: a success is one; anything else hides an effect only if
\* there was a fault.
LEMMA AnswerKeeps ==
    ASSUME CallsInv, NEW n \in DOMAIN calls, calls[n].pc = "sent",
           NEW p \in Told, NEW o \in BOOLEAN, o => calls[n].open,
           calls' = [calls EXCEPT ![n].pc = p, ![n].open = o],
           NEW k \in {0, 1}, faults' = faults + k, faults' <= MaxFaults, UNCHANGED <<remote, memory, run>>,
           p = "success" => n \in Acted,
           k = 0 => p = "success" \/ (n \notin Acted /\ ~o)
    PROVE  CallsInv'
<1>0. CallsTypeOK
  BY DEF CallsInv
<1> DEFINE c == [calls[n] EXCEPT !.pc = p, !.open = o]
<1>1. calls[n] \in Call /\ c \in Call
  <2>1. \A d \in Call : [d EXCEPT !.pc = p, !.open = o] \in Call
    BY DEF Call
  <2> QED  BY <1>0, <2>1, CallsTyped
<1>2. calls' = [m \in DOMAIN calls |-> IF m = n THEN c ELSE calls[m]]
  BY <1>0 DEF CallsTypeOK
<1>3. /\ DOMAIN calls' = DOMAIN calls
      /\ \A m \in DOMAIN calls : /\ calls'[m].item = calls[m].item /\ calls'[m].via = calls[m].via
                                 /\ calls'[m].run = calls[m].run /\ calls'[m].op = calls[m].op
                                 /\ m # n => calls'[m] = calls[m]
      /\ calls'[n].pc = p /\ (calls'[n].open <=> o)
  <2>1. /\ c.item = calls[n].item /\ c.via = calls[n].via /\ c.run = calls[n].run
        /\ c.op = calls[n].op /\ c.pc = p /\ c.open = o
    BY <1>1 DEF Call
  <2> QED  BY <1>2, <2>1
<1>4. CallsTypeOK'
  <2>1. calls' \in Seq(Call)
    <3>1. \A m \in DOMAIN calls : calls'[m] \in Call
      BY <1>0, <1>1, <1>2, CallsTyped
    <3>2. calls' = [m \in DOMAIN calls |-> calls'[m]] /\ calls \in Seq(Call)
      BY <1>0, <1>2 DEF CallsTypeOK
    <3> QED  BY <3>1, <3>2, SameLength
  <2>2. faults' \in 0..MaxFaults
    BY <1>0, CallsTyped, CallsAssumption
  <2>3. remote' \in Seq(DOMAIN calls')
    BY <1>0, <1>3 DEF CallsTypeOK
  <2> QED  BY <1>0, <2>1, <2>2, <2>3 DEF CallsTypeOK
<1>5. Acted' = Acted /\ SoundCall(n) /\ p \in {"success", "failure", "raised"}
  BY DEF Acted, CallsInv, Told
<1>6. \A m \in DOMAIN calls : SoundCall(m)'
  <2>1. ASSUME NEW m \in DOMAIN calls, m # n PROVE SoundCall(m)'
    <3>1. SoundCall(m) /\ calls'[m] = calls[m]
      BY <1>3, <2>1 DEF CallsInv
    <3> QED  BY <1>5, <3>1 DEF SoundCall
  <2>2. SoundCall(n)'
    BY <1>3, <1>5 DEF SoundCall
  <2> QED  BY <2>1, <2>2
<1>7. \A i, j \in DOMAIN calls' : Live(i)' /\ Live(j)' /\ calls'[i].item = calls'[j].item => i = j
  <2>1. \A i \in DOMAIN calls : Live(i)' => Live(i)
    BY <1>3 DEF Live
  <2> QED  BY <1>3, <2>1 DEF CallsInv
<1>8. Unheard' \subseteq Unheard \cup {n} /\ (k = 0 => Unheard' \subseteq Unheard)
  BY <1>3, <1>5 DEF Unheard
<1>9. \A item : /\ UnheardOf(item)' \subseteq UnheardOf(item) \cup {n}
                /\ k = 0 => UnheardOf(item)' \subseteq UnheardOf(item)
  BY <1>3, <1>8 DEF UnheardOf, Unheard
<1>10. faults \in Nat /\ run' <= faults' + 1
  BY <1>0, CallsTyped DEF CallsInv
<1>11. ASSUME NEW item \in Items PROVE Cardinality(UnheardOf(item)') <= faults'
  <2>1. IsFiniteSet(UnheardOf(item)) /\ Cardinality(UnheardOf(item)) <= faults
    BY <1>0, UnheardFinite DEF CallsInv
  <2>2. CASE k = 0
    BY <1>9, <1>10, <2>1, <2>2, NoMore
  <2>3. CASE k = 1
    BY <1>9, <1>10, <2>1, <2>3, OneMore
  <2> QED  BY <2>2, <2>3
<1>12. ASSUME run' = 1 PROVE Cardinality(Unheard') <= faults'
  <2>1. IsFiniteSet(Unheard) /\ Cardinality(Unheard) <= faults
    BY <1>0, <1>12, UnheardFinite DEF CallsInv
  <2>2. CASE k = 0
    BY <1>8, <1>10, <2>1, <2>2, NoMore
  <2>3. CASE k = 1
    BY <1>8, <1>10, <2>1, <2>3, OneMore
  <2> QED  BY <2>2, <2>3
<1> QED  BY <1>3, <1>4, <1>6, <1>7, <1>10, <1>11, <1>12 DEF CallsInv

LEMMA ResponseStep ==
    ASSUME CallsInv, NEW n \in DOMAIN calls, Response(n)
    PROVE  CallsInv'
<1>0. CallsTypeOK /\ faults \in 0..MaxFaults /\ MaxFaults \in Nat
  BY CallsAssumption DEF CallsInv, CallsTypeOK
<1>1. /\ calls[n].pc = "sent" /\ UNCHANGED <<remote, memory, run>> /\ SoundCall(n)
      /\ calls[n].open \in BOOLEAN
      /\ calls[n].via \in {"greenhouse", "google", "vapi", "sendgrid", "twilio", "smtp"}
  BY <1>0, CallsTyped DEF Response, CallsInv, SoundCall
<1>2. ASSUME NEW r, NEW p \in Told, p = Translated(calls[n].via, r), Answered(n, r), NEW k \in {0, 1},
             IF k = 1 THEN Fault ELSE UNCHANGED faults,
             p = "success" => n \in Acted, k = 0 => p = "success" \/ (n \notin Acted /\ r.status # 0)
      PROVE  CallsInv'
  <2>1. PICK o \in BOOLEAN : o = (calls[n].open /\ r.status = 0)
    BY Zenon
  <2>2. (o => calls[n].open) /\ (o => r.status = 0)
    BY <2>1, Zenon
  <2>3. calls' = [calls EXCEPT ![n].pc = p, ![n].open = o]
    BY <1>0, <1>1, <1>2, <2>1 DEF Answered, CallsTypeOK
  <2>4. faults' = faults + k /\ faults' <= MaxFaults
    BY <1>0, <1>2 DEF Fault
  <2>5. k = 0 => p = "success" \/ (n \notin Acted /\ ~o)
    BY <1>2, <2>2, Zenon
  <2> QED  BY <1>1, <1>2, <2>2, <2>3, <2>4, <2>5, AnswerKeeps, Zenon
<1>3. ASSUME NEW r, r.status \in {200, 201, 202, 250, 400, 502, 0}, r.json \in BOOLEAN
      PROVE  /\ Translated(calls[n].via, r) \in Told
             /\ r.status \in {0, 400, 502} => Translated(calls[n].via, r) = "failure"
  BY <1>1, <1>3 DEF Translated, GreenhouseSubmit, GoogleCreateEvent, VapiStartCall, SendGridSend, TwilioSend,
     SmtpSend, Parsed, Told
<1>4. Accepted[calls[n].via] \in {200, 201, 202, 250}
  BY <1>1 DEF Accepted
<1>5. ASSUME n \in ToSet(remote), Answered(n, [status |-> Accepted[calls[n].via], json |-> TRUE]), UNCHANGED faults
      PROVE  CallsInv'
  <2> DEFINE r == [status |-> Accepted[calls[n].via], json |-> TRUE]
  <2>1. Translated(calls[n].via, r) = "success"
    BY <1>1 DEF Translated, GreenhouseSubmit, GoogleCreateEvent, VapiStartCall, SendGridSend, TwilioSend,
       SmtpSend, Parsed, Accepted
  <2> HIDE DEF r
  <2>2. "success" \in Told /\ n \in Acted
    BY <1>5 DEF Told, Acted
  <2> QED  BY <1>2, <1>5, <2>1, <2>2 DEF r
<1>6. ASSUME calls[n].open, UNCHANGED faults, Answered(n, [status |-> 400, json |-> TRUE])
      PROVE  CallsInv'
  <2> DEFINE r == [status |-> 400, json |-> TRUE]
  <2>1. r.status = 400 /\ r.json \in BOOLEAN /\ Answered(n, r)
    BY <1>6
  <2> HIDE DEF r
  <2>2. Translated(calls[n].via, r) = "failure" /\ "failure" \in Told /\ n \notin Acted
    BY <1>1, <1>3, <1>6, <2>1 DEF SoundCall, Told
  <2> QED  BY <1>2, <1>6, <2>1, <2>2
<1>7. ASSUME Fault, NEW r \in {[status |-> 0, json |-> FALSE], [status |-> 502, json |-> FALSE],
                               [status |-> Accepted[calls[n].via], json |-> FALSE]},
             r.status # 0 => n \in ToSet(remote), Answered(n, r)
      PROVE  CallsInv'
  <2>1. r.status \in {200, 201, 202, 250, 502, 0} /\ r.json \in BOOLEAN
    <3>1. PICK status \in {0, 502, Accepted[calls[n].via]} : r = [status |-> status, json |-> FALSE]
      BY <1>7
    <3>2. status \in {200, 201, 202, 250, 502, 0}
      BY <1>4, <3>1
    <3> QED  BY <3>1, <3>2
  <2>2. Translated(calls[n].via, r) \in Told
    BY <1>3, <2>1
  <2>3. Translated(calls[n].via, r) = "success" => n \in Acted
    BY <1>3, <1>7, <2>1 DEF Acted
  <2> QED  BY <1>2, <1>7, <2>2, <2>3
<1> QED  BY <1>5, <1>6, <1>7 DEF Response

\* A restart breaks the connections: of each item the one request under way may
\* now have an effect that nobody hears of.
LEMMA CallsRestartStep ==
    ASSUME CallsInv, CallsRestart
    PROVE  CallsInv'
<1>0. CallsTypeOK /\ MaxFaults \in Nat /\ faults \in 0..MaxFaults /\ run \in 1..MaxFaults + 1
  BY CallsAssumption DEF CallsInv, CallsTypeOK
<1>1. /\ faults' = faults + 1 /\ faults' <= MaxFaults /\ run' = run + 1 /\ memory' = <<>> /\ remote' = remote
      /\ calls' = [n \in DOMAIN calls |->
                      IF calls[n].pc = "sent" THEN [calls[n] EXCEPT !.pc = "failure"] ELSE calls[n]]
  BY <1>0 DEF CallsRestart, Fault
<1>2. /\ DOMAIN calls' = DOMAIN calls
      /\ \A n \in DOMAIN calls :
            /\ calls'[n] \in Call
            /\ calls'[n].item = calls[n].item /\ calls'[n].via = calls[n].via /\ calls'[n].run = calls[n].run
            /\ calls'[n].op = calls[n].op /\ (calls'[n].open <=> calls[n].open)
            /\ calls'[n].pc = IF calls[n].pc = "sent" THEN "failure" ELSE calls[n].pc
  <2>1. \A d \in Call : /\ [d EXCEPT !.pc = "failure"] \in Call
                        /\ LET e == [d EXCEPT !.pc = "failure"]
                           IN  /\ e.item = d.item /\ e.via = d.via /\ e.run = d.run /\ e.op = d.op
                               /\ e.open = d.open /\ e.pc = "failure"
    BY DEF Call, Told
  <2>2. \A n \in DOMAIN calls : calls[n] \in Call
    BY <1>0, CallsTyped
  <2> QED  BY <1>1, <2>1, <2>2
<1>3. CallsTypeOK'
  <2>1. calls' = [n \in DOMAIN calls |-> calls'[n]] /\ calls \in Seq(Call)
    BY <1>0, <1>1 DEF CallsTypeOK
  <2>2. calls' \in Seq(Call)
    BY <1>2, <2>1, SameLength
  <2>3. remote' \in Seq(DOMAIN calls') /\ memory' \in Seq(Items)
    BY <1>0, <1>1, <1>2 DEF CallsTypeOK
  <2>4. run' \in 1..MaxFaults + 1 /\ faults' \in 0..MaxFaults
    BY <1>0, <1>1 DEF CallsInv
  <2> QED  BY <2>2, <2>3, <2>4 DEF CallsTypeOK
<1>4. Acted' = Acted /\ run' # 1 /\ run' <= faults' + 1
  BY <1>0, <1>1 DEF Acted, CallsInv
<1>5. \A n \in DOMAIN calls : SoundCall(n)'
  <2> SUFFICES ASSUME NEW n \in DOMAIN calls PROVE SoundCall(n)'
    OBVIOUS
  <2>1. SoundCall(n) /\ calls[n].run \in Nat
    BY <1>0, CallsTyped DEF CallsInv
  <2>2. calls'[n].run <= run' /\ calls'[n].run # run'
    BY <1>0, <1>1, <1>2, <2>1 DEF SoundCall
  <2> QED  BY <1>2, <1>4, <2>1, <2>2 DEF SoundCall
<1>6. \A i, j \in DOMAIN calls' : Live(i)' /\ Live(j)' /\ calls'[i].item = calls'[j].item => i = j
  <2>1. \A i \in DOMAIN calls : Live(i)' => Live(i)
    BY <1>2 DEF Live
  <2> QED  BY <1>2, <2>1 DEF CallsInv
<1>7. ASSUME NEW item \in Items PROVE Cardinality(UnheardOf(item)') <= faults'
  <2>1. IsFiniteSet(UnheardOf(item)) /\ Cardinality(UnheardOf(item)) <= faults /\ faults \in Nat
    BY <1>0, UnheardFinite DEF CallsInv
  <2>2. \E x : UnheardOf(item)' \subseteq UnheardOf(item) \cup {x}
    <3>1. \A n \in UnheardOf(item)' : n \in UnheardOf(item) \/ (calls[n].pc = "sent" /\ calls[n].item = item)
      BY <1>2, <1>4 DEF UnheardOf, Unheard
    <3>2. \A m, n \in DOMAIN calls :
             calls[m].pc = "sent" /\ calls[m].item = item /\ calls[n].pc = "sent" /\ calls[n].item = item => m = n
      BY DEF CallsInv, Live
    <3>3. UnheardOf(item)' \subseteq DOMAIN calls
      BY <1>2 DEF UnheardOf, Unheard
    <3> QED  BY <3>1, <3>2, <3>3
  <2> QED  BY <1>1, <2>1, <2>2, OneMore
<1> QED  BY <1>2, <1>3, <1>4, <1>5, <1>6, <1>7 DEF CallsInv

LEMMA CallsInvStep == CallsInv /\ [CallsNext]_callVars => CallsInv'
<1> SUFFICES ASSUME CallsInv, [CallsNext]_callVars PROVE CallsInv'
  OBVIOUS
<1>1. CASE CallsNext
  BY <1>1, RequestStep, ActStep, ResponseStep, CallsRestartStep DEF CallsNext
<1>2. CASE UNCHANGED callVars
  BY <1>2 DEF CallsInv, callVars, CallsTypeOK, SoundCall, Live, UnheardOf, Unheard, Acted
<1> QED  BY <1>1, <1>2

\* Every effect of an item is of its one live request, or nobody heard of it.
LEMMA CallsInvExplains == CallsInv => SuccessIsReal /\ EffectsNeedFaults
<1> SUFFICES ASSUME CallsInv PROVE SuccessIsReal /\ EffectsNeedFaults
  OBVIOUS
<1>0. CallsTypeOK /\ faults \in Nat
  BY CallsTyped DEF CallsInv
<1>1. SuccessIsReal
  BY DEF CallsInv, SoundCall, SuccessIsReal, Acted, fetch_status
<1>2. ASSUME NEW item \in Items PROVE Cardinality(Effects(item)) <= 1 + faults
  <2>1. IsFiniteSet(UnheardOf(item)) /\ Cardinality(UnheardOf(item)) <= faults
    BY <1>0, UnheardFinite DEF CallsInv
  <2>2. \E x : Effects(item) \subseteq UnheardOf(item) \cup {x}
    <3>1. Effects(item) \subseteq DOMAIN calls
      BY <1>0, CallsTyped DEF Effects, Acted
    <3>2. \A n \in Effects(item) : n \in UnheardOf(item) \/ (Live(n) /\ calls[n].item = item)
      BY <1>0, <3>1, CallsTyped DEF Effects, UnheardOf, Unheard, Acted, Live
    <3>3. \A m, n \in DOMAIN calls : Live(m) /\ calls[m].item = item /\ Live(n) /\ calls[n].item = item => m = n
      BY DEF CallsInv
    <3> QED  BY <3>1, <3>2, <3>3
  <2>3. Cardinality(Effects(item)) <= faults + 1 /\ Cardinality(Effects(item)) \in Nat
    BY <1>0, <2>1, <2>2, OneMore
  <2> QED  BY <1>0, <2>3
<1>3. ASSUME run = 1
      PROVE  Cardinality({n \in ToSet(remote) : calls[n].pc \in Told \ {"success"}}) <= faults
  <2>1. IsFiniteSet(Unheard) /\ Cardinality(Unheard) <= faults
    BY <1>0, <1>3, UnheardFinite DEF CallsInv
  <2>2. {n \in ToSet(remote) : calls[n].pc \in Told \ {"success"}} \subseteq Unheard
    BY <1>0, CallsTyped DEF Unheard, Acted, Told
  <2> QED  BY <1>0, <2>1, <2>2, NoMore
<1> QED  BY <1>1, <1>2, <1>3 DEF EffectsNeedFaults

-----------------------------------------------------------------------------
(* Creating a candidate again.                                             *)

Creation == [who : People, via : {"json", "resume"},
             pc : {"refused", "embed", "insert", "created", "unheard", "error"}]

RowsOf(p) == {i \in DOMAIN rows : rows[i].who = p}
Kept(p)   == {i \in DOMAIN creates : creates[i].who = p /\ creates[i].pc \in {"created", "unheard"}}
Open(i)   == creates[i].pc \notin {"error", "unheard"}

\* Every row of a person is of a request that stored it, and only one request of
\* a person is under way or was answered.
RowsInv ==
    /\ creates \in Seq(Creation) /\ rows \in Seq(ToSet(rows))
    /\ \A p \in People : Cardinality(RowsOf(p)) <= Cardinality(Kept(p))
    /\ \A i, j \in DOMAIN creates : Open(i) /\ Open(j) /\ creates[i].who = creates[j].who => i = j

LEMMA FiniteIndices ==
    ASSUME NEW n \in Nat, NEW S, S \subseteq 1..n
    PROVE  IsFiniteSet(S) /\ Cardinality(S) \in Nat
<1>1. IsFiniteSet(1..n)
  BY FS_Interval
<1> QED  BY <1>1, FS_Subset, FS_CardinalityType

LEMMA KeptFinite ==
    ASSUME creates \in Seq(Creation), rows \in Seq(ToSet(rows))
    PROVE  \A p : /\ IsFiniteSet(RowsOf(p)) /\ Cardinality(RowsOf(p)) \in Nat
                  /\ IsFiniteSet(Kept(p)) /\ Cardinality(Kept(p)) \in Nat
<1>1. /\ DOMAIN creates = 1..Len(creates) /\ Len(creates) \in Nat
      /\ DOMAIN rows = 1..Len(rows) /\ Len(rows) \in Nat
  OBVIOUS
<1>2. \A p : RowsOf(p) \subseteq 1..Len(rows) /\ Kept(p) \subseteq 1..Len(creates)
  BY <1>1 DEF RowsOf, Kept
<1> QED  BY <1>1, <1>2, FiniteIndices

LEMMA RowsInvInit == CandidatesInit => RowsInv
<1> SUFFICES ASSUME CandidatesInit PROVE RowsInv
  OBVIOUS
<1>1. creates \in Seq(Creation) /\ DOMAIN creates = {} /\ rows \in Seq(ToSet(rows)) /\ DOMAIN rows = {}
  BY DEF CandidatesInit
<1>2. \A p : RowsOf(p) = {} /\ Kept(p) = {}
  BY <1>1 DEF RowsOf, Kept
<1>3. \A p : Cardinality(RowsOf(p)) = 0 /\ Cardinality(Kept(p)) = 0
  BY <1>2, FS_EmptySet
<1> QED  BY <1>1, <1>3 DEF RowsInv

\* A request moves on; a row is new only if it is stored now.
LEMMA CreationMoves ==
    ASSUME RowsInv, NEW i \in DOMAIN creates, creates[i].pc \in {"embed", "insert"},
           NEW pc \in {"insert", "created", "unheard", "error"},
           creates' = [creates EXCEPT ![i].pc = pc],
           \/ rows' = rows
           \/ /\ pc \in {"created", "unheard"}
              /\ \E row : row.who = creates[i].who /\ rows' = Append(rows, row)
    PROVE  RowsInv'
<1>0. creates \in Seq(Creation) /\ rows \in Seq(ToSet(rows))
  BY DEF RowsInv
<1> DEFINE c == [creates[i] EXCEPT !.pc = pc]
<1>1. creates' = [j \in DOMAIN creates |-> IF j = i THEN c ELSE creates[j]]
  BY <1>0
<1>2. creates[i] \in Creation /\ c \in Creation /\ c.who = creates[i].who /\ c.pc = pc
  <2>1. creates[i] \in Creation
    BY <1>0, EntryOf
  <2> QED  BY <2>1 DEF Creation
<1>3. creates' \in Seq(Creation) /\ DOMAIN creates' = DOMAIN creates
  <2>1. creates' = [j \in DOMAIN creates |-> creates'[j]] /\ \A j \in DOMAIN creates : creates'[j] \in Creation
    BY <1>0, <1>1, <1>2, EntryOf
  <2>2. creates \in Seq(Creation)
    BY <1>0
  <2> QED  BY <2>1, <2>2, SameLength
<1>4. /\ \A j \in DOMAIN creates : creates'[j].who = creates[j].who /\ (j # i => creates'[j] = creates[j])
      /\ creates'[i].pc = pc
  BY <1>1, <1>2
<1>5. rows' \in Seq(ToSet(rows'))
  <2>1. CASE rows' = rows
    BY <1>0, <2>1 DEF ToSet
  <2>2. ASSUME NEW row, rows' = Append(rows, row) PROVE rows' \in Seq(ToSet(rows'))
    <3>1. rows' \in Seq(ToSet(rows) \cup {row})
      BY <1>0, <2>2
    <3>2. rows' = [j \in DOMAIN rows' |-> rows'[j]] /\ \A j \in DOMAIN rows' : rows'[j] \in ToSet(rows')
      BY <3>1 DEF ToSet
    <3> QED  BY <3>1, <3>2, SameLength
  <2> QED  BY <2>1, <2>2
<1>6. \A j, k \in DOMAIN creates' : Open(j)' /\ Open(k)' /\ creates'[j].who = creates'[k].who => j = k
  <2>1. \A j \in DOMAIN creates : Open(j)' => Open(j)
    BY <1>4 DEF Open
  <2> QED  BY <1>3, <1>4, <2>1 DEF RowsInv
<1>7. ASSUME NEW p \in People PROVE Cardinality(RowsOf(p)') <= Cardinality(Kept(p)')
  <2>1. /\ IsFiniteSet(RowsOf(p)) /\ IsFiniteSet(Kept(p)) /\ IsFiniteSet(Kept(p)') /\ Cardinality(Kept(p)) \in Nat
        /\ Cardinality(RowsOf(p)) <= Cardinality(Kept(p)) /\ Cardinality(Kept(p)') \in Nat
        /\ Cardinality(RowsOf(p)') \in Nat /\ Cardinality(RowsOf(p)) \in Nat
    <3>1. /\ Kept(p)' \subseteq 1..Len(creates') /\ Len(creates') \in Nat
          /\ RowsOf(p)' \subseteq 1..Len(rows') /\ Len(rows') \in Nat
      <4>1. Kept(p)' \subseteq DOMAIN creates' /\ RowsOf(p)' \subseteq DOMAIN rows'
        BY DEF Kept, RowsOf
      <4>2. DOMAIN creates' = 1..Len(creates') /\ Len(creates') \in Nat
        BY <1>3
      <4> QED  BY <1>5, <4>1, <4>2
    <3>2. IsFiniteSet(Kept(p)') /\ Cardinality(Kept(p)') \in Nat /\ Cardinality(RowsOf(p)') \in Nat
      BY <3>1, FiniteIndices
    <3> QED  BY <1>0, <3>2, KeptFinite DEF RowsInv
  <2>2. Kept(p) \subseteq Kept(p)' /\ i \notin Kept(p)
    BY <1>3, <1>4 DEF Kept
  <2>3. CASE rows' = rows
    <3>1. Cardinality(Kept(p)) <= Cardinality(Kept(p)')
      BY <2>1, <2>2, FS_Subset
    <3>2. RowsOf(p)' = RowsOf(p)
      BY <2>3 DEF RowsOf
    <3> QED  BY <2>1, <3>1, <3>2
  <2>4. ASSUME pc \in {"created", "unheard"}, NEW row, row.who = creates[i].who, rows' = Append(rows, row)
        PROVE  Cardinality(RowsOf(p)') <= Cardinality(Kept(p)')
    <3>0. \A j \in DOMAIN rows' :
             (j \in DOMAIN rows /\ rows'[j] = rows[j]) \/ (j = Len(rows) + 1 /\ rows'[j] = row)
      <4>1. rows \in Seq(ToSet(rows) \cup {row})
        BY <1>0
      <4> QED  BY <2>4, <4>1
    <3>1. CASE creates[i].who # p
      <4>1. RowsOf(p)' \subseteq RowsOf(p)
        BY <2>4, <3>0, <3>1 DEF RowsOf
      <4>2. Cardinality(Kept(p)) <= Cardinality(Kept(p)')
        BY <2>1, <2>2, FS_Subset
      <4>3. Cardinality(RowsOf(p)') <= Cardinality(RowsOf(p))
        BY <2>1, <4>1, NoMore
      <4> QED  BY <2>1, <4>2, <4>3
    <3>2. CASE creates[i].who = p
      <4>1. RowsOf(p)' \subseteq RowsOf(p) \cup {Len(rows) + 1}
        BY <3>0 DEF RowsOf
      <4>2. Kept(p) \cup {i} \subseteq Kept(p)'
        BY <1>3, <1>4, <2>2, <2>4, <3>2 DEF Kept
      <4>3. Cardinality(Kept(p) \cup {i}) = Cardinality(Kept(p)) + 1
        BY <2>1, <2>2, FS_AddElement
      <4>4. Cardinality(Kept(p) \cup {i}) <= Cardinality(Kept(p)')
        BY <2>1, <4>2, FS_Subset
      <4>5. Cardinality(RowsOf(p)') <= Cardinality(Kept(p)) + 1
        BY <2>1, <4>1, OneMore
      <4> QED  BY <2>1, <4>3, <4>4, <4>5
    <3> QED  BY <3>1, <3>2
  <2> QED  BY <2>3, <2>4
<1> QED  BY <1>3, <1>5, <1>6, <1>7 DEF RowsInv

LEMMA RowsInvStep == RowsInv /\ [CandidatesNext]_candidateVars => RowsInv'
<1> SUFFICES ASSUME RowsInv, [CandidatesNext]_candidateVars PROVE RowsInv'
  OBVIOUS
<1>0. creates \in Seq(Creation) /\ rows \in Seq(ToSet(rows))
  BY DEF RowsInv
<1>1. CASE UNCHANGED <<rows, creates>>
  BY <1>1 DEF RowsInv, RowsOf, Kept, Open
<1>2. ASSUME NEW person \in People, NEW via \in {"json", "resume"}, NEW no, Receive(person, via, no) PROVE RowsInv'
  <2>1. PICK c : /\ c = [who |-> person, via |-> via, pc |-> IF no THEN "refused" ELSE "embed"]
                 /\ creates' = Append(creates, c) /\ rows' = rows /\ Asked(person)
    BY <1>2 DEF Receive
  <2>2. c \in Creation /\ c.who = person /\ c.pc \in {"refused", "embed"}
    BY <2>1 DEF Creation
  <2>a. PICK new \in Nat : new = Len(creates) + 1
    BY <1>0
  <2>3. /\ creates' \in Seq(Creation) /\ DOMAIN creates' = DOMAIN creates \cup {new} /\ new \notin DOMAIN creates
        /\ creates'[new] = c /\ \A i \in DOMAIN creates : creates'[i] = creates[i]
    BY <1>0, <2>a, <2>1, <2>2
  <2>4. \A p : Kept(p)' = Kept(p) /\ RowsOf(p)' = RowsOf(p)
    BY <2>1, <2>2, <2>3 DEF Kept, RowsOf
  <2>5. \A i \in DOMAIN creates : Open(i)' => Open(i) /\ creates[i].who # person
    BY <2>1, <2>3 DEF Open, Asked
  <2>6. \A i, j \in DOMAIN creates' : Open(i)' /\ Open(j)' /\ creates'[i].who = creates'[j].who => i = j
    BY <2>2, <2>3, <2>5 DEF RowsInv
  <2> QED  BY <1>0, <2>1, <2>3, <2>4, <2>6 DEF RowsInv
<1>3. ASSUME NEW i \in DOMAIN creates, Embed(i) PROVE RowsInv'
  <2>1. PICK pc \in {"insert", "created", "unheard", "error"} : creates' = [creates EXCEPT ![i].pc = pc] /\ rows' = rows
    BY <1>3 DEF Embed
  <2>2. creates[i].pc \in {"embed", "insert"}
    BY <1>3 DEF Embed
  <2> QED  BY <2>1, <2>2, CreationMoves
<1>4. ASSUME NEW i \in DOMAIN creates, insert(i) PROVE RowsInv'
  <2> DEFINE p == AsPosted(i)
             row == [who |-> creates[i].who, as |-> p,
                     score |-> IF p.clearance # "none" THEN deployability_score(p, year) ELSE Unscored]
  <2>1. PICK pc \in {"insert", "created", "unheard", "error"} :
          /\ creates' = [creates EXCEPT ![i].pc = pc]
          /\ \/ rows' = rows
             \/ pc \in {"created", "unheard"} /\ rows' = Append(rows, row)
    BY <1>4 DEF insert, RolledBack
  <2>3. row.who = creates[i].who
    OBVIOUS
  <2> HIDE DEF row
  <2>2. creates[i].pc \in {"embed", "insert"}
    BY <1>4 DEF insert
  <2> QED  BY <2>1, <2>2, <2>3, CreationMoves
<1>5. CASE NewYear
  BY <1>1, <1>5 DEF NewYear
<1>6. CASE \E q \in Queries : search_candidates(q)
  BY <1>1, <1>6 DEF search_candidates
<1> QED  BY <1>1, <1>2, <1>3, <1>4, <1>5, <1>6
    DEF CandidatesNext, candidateVars, create_candidate, candidate_from_resume

LEMMA RowsInvExplains == RowsInv => DuplicatesNeedLoss
<1> SUFFICES ASSUME RowsInv, NEW p \in People
             PROVE  Cardinality(RowsOf(p))
                      <= 1 + Cardinality({i \in DOMAIN creates : creates[i].who = p /\ creates[i].pc = "unheard"})
  BY DEF DuplicatesNeedLoss, RowsOf
<1> DEFINE U == {i \in DOMAIN creates : creates[i].who = p /\ creates[i].pc = "unheard"}
<1>1. /\ IsFiniteSet(Kept(p)) /\ Cardinality(Kept(p)) \in Nat /\ Cardinality(RowsOf(p)) \in Nat
      /\ Cardinality(RowsOf(p)) <= Cardinality(Kept(p))
  BY KeptFinite DEF RowsInv
<1>2. IsFiniteSet(U) /\ Cardinality(U) \in Nat
  <2>1. U \subseteq Kept(p)
    BY DEF Kept
  <2> HIDE DEF U
  <2> QED  BY <1>1, <2>1, FS_Subset, FS_CardinalityType
<1>3. \E x : Kept(p) \subseteq U \cup {x}
  <2>1. \A i, j \in Kept(p) \ U : i = j
    BY DEF Kept, RowsInv, Open
  <2> HIDE DEF U
  <2> QED  BY <2>1
<1> HIDE DEF U
<1>4. Cardinality(U) <= Cardinality(U)
  BY <1>2
<1>5. Cardinality(Kept(p)) <= Cardinality(U) + 1
  BY <1>2, <1>3, <1>4, OneMore
<1> QED  BY <1>1, <1>2, <1>5 DEF U

\* Requests may be repeated and answers lost: who is told of a success got it, and
\* no item has more effects, and nobody more rows, than there were faults for.
THEOREM RepeatsNeedFaults == PlatformSpec => []EffectsExplained
<1>1. CallsInv /\ RowsInv => EffectsExplained
  BY CallsInvExplains, RowsInvExplains DEF EffectsExplained
<1>2. PlatformSpec => [](CallsInv /\ RowsInv)
  BY StartOfServices, StepOfServices, CallsInvInit, CallsInvStep, RowsInvInit, RowsInvStep, PTL DEF PlatformSpec
<1> QED  BY <1>1, <1>2, PTL

-----------------------------------------------------------------------------
(* Interviews.                                                             *)

\* Total of the module Interview takes the indices from the greatest down.
Down(n) == [s \in SUBSET (1..n) |-> Max(s)]

LEMMA DownChooses ==
    ASSUME NEW n \in Nat
    PROVE  IsFiniteSet(1..n) /\ Chooses(Down(n), 1..n)
<1>1. ASSUME NEW s \in SUBSET (1..n), s # {} PROVE Max(s) \in s
  BY <1>1, GreatestIndex DEF Max
<1> QED  BY <1>1, FS_Interval DEF Chooses, Down

LEMMA WeightsAreASum ==
    ASSUME NEW n \in Nat, NEW dims, DOMAIN dims = 1..n, \A i \in 1..n : dims[i].weight \in Nat
    PROVE  \E F : /\ IsSum(F, [i \in 1..n |-> dims[i].weight], Down(n), 1..n)
                  /\ Total(dims, LAMBDA d : d.weight) = F[1..n]
<1> DEFINE c == Down(n)
           w == [i \in 1..n |-> dims[i].weight]
           Rec(f) == f = [s \in SUBSET (1..n) |-> IF s = {} THEN 0 ELSE f[s \ {Max(s)}] + dims[Max(s)].weight]
           F == CHOOSE f : Rec(f)
<1>0. IsFiniteSet(1..n) /\ Chooses(c, 1..n) /\ \A i \in 1..n : w[i] \in Int
  BY DownChooses
<1>1. PICK g : IsSum(g, w, c, 1..n)
  <2> HIDE DEF c, w
  <2> QED  BY <1>0, SumExists
<1>2. \A s \in SUBSET (1..n) : s # {} => c[s] = Max(s) /\ Max(s) \in s /\ w[c[s]] = dims[Max(s)].weight
  BY <1>0 DEF Chooses, Down
<1>3. Rec(g)
  <2> HIDE DEF c, w
  <2>1. g = [s \in SUBSET (1..n) |-> g[s]]
    BY <1>1 DEF IsSum
  <2>2. \A s \in SUBSET (1..n) : g[s] = IF s = {} THEN 0 ELSE g[s \ {Max(s)}] + dims[Max(s)].weight
    BY <1>1, <1>2 DEF IsSum
  <2> QED  BY <2>1, <2>2
<1>4. Rec(F)
  BY <1>3
<1>5. Total(dims, LAMBDA d : d.weight) = F[1..n]
  BY DEF Total, FoldLeft, MapThenFoldSet
<1> HIDE DEF F
<1>6. F = [s \in SUBSET (1..n) |-> F[s]] /\ F[{}] = 0
  BY <1>4
<1>7. \A s \in SUBSET (1..n) : s # {} => F[s] = F[s \ {c[s]}] + w[c[s]]
  <2> HIDE DEF c, w
  <2> QED  BY <1>2, <1>4
<1>8. IsSum(F, w, c, 1..n)
  <2> HIDE DEF c, w
  <2>1. SumsUp(F, w, c, 1..n)
    BY <1>6, <1>7 DEF SumsUp
  <2> QED  BY <1>0, <2>1, RecursionIsSum
<1> QED  BY <1>5, <1>8

LEMMA ScoresAreASum ==
    ASSUME NEW n \in Nat, NEW dims, DOMAIN dims = 1..n, \A i \in 1..n : dims[i].score \in Nat /\ dims[i].weight \in Nat
    PROVE  \E F : /\ IsSum(F, [i \in 1..n |-> dims[i].score * dims[i].weight], Down(n), 1..n)
                  /\ Total(dims, LAMBDA d : d.score * d.weight) = F[1..n]
<1> DEFINE c == Down(n)
           w == [i \in 1..n |-> dims[i].score * dims[i].weight]
           Rec(f) == f = [s \in SUBSET (1..n) |-> IF s = {} THEN 0 ELSE f[s \ {Max(s)}] + dims[Max(s)].score * dims[Max(s)].weight]
           F == CHOOSE f : Rec(f)
<1>0. IsFiniteSet(1..n) /\ Chooses(c, 1..n) /\ \A i \in 1..n : w[i] \in Int
  BY DownChooses
<1>1. PICK g : IsSum(g, w, c, 1..n)
  <2> HIDE DEF c, w
  <2> QED  BY <1>0, SumExists
<1>2. \A s \in SUBSET (1..n) : s # {} => c[s] = Max(s) /\ Max(s) \in s /\ w[c[s]] = dims[Max(s)].score * dims[Max(s)].weight
  BY <1>0 DEF Chooses, Down
<1>3. Rec(g)
  <2> HIDE DEF c, w
  <2>1. g = [s \in SUBSET (1..n) |-> g[s]]
    BY <1>1 DEF IsSum
  <2>2. \A s \in SUBSET (1..n) : g[s] = IF s = {} THEN 0 ELSE g[s \ {Max(s)}] + dims[Max(s)].score * dims[Max(s)].weight
    BY <1>1, <1>2 DEF IsSum
  <2> QED  BY <2>1, <2>2
<1>4. Rec(F)
  BY <1>3
<1>5. Total(dims, LAMBDA d : d.score * d.weight) = F[1..n]
  BY DEF Total, FoldLeft, MapThenFoldSet
<1> HIDE DEF F
<1>6. F = [s \in SUBSET (1..n) |-> F[s]] /\ F[{}] = 0
  BY <1>4
<1>7. \A s \in SUBSET (1..n) : s # {} => F[s] = F[s \ {c[s]}] + w[c[s]]
  <2> HIDE DEF c, w
  <2> QED  BY <1>2, <1>4
<1>8. IsSum(F, w, c, 1..n)
  <2> HIDE DEF c, w
  <2>1. SumsUp(F, w, c, 1..n)
    BY <1>6, <1>7 DEF SumsUp
  <2> QED  BY <1>0, <2>1, RecursionIsSum
<1> QED  BY <1>5, <1>8

LEMMA DimensionType ==
    ASSUME NEW d \in DimensionScore
    PROVE  d.score \in 0..50 /\ d.score \in Nat /\ d.weight \in Nat
  BY DEF DimensionScore

LEMMA BelowThreshold == /\ \A x \in 0..50 : x < 35 => x \in 0..34
                        /\ \A x \in 0..34 : x \in Nat
  OBVIOUS

\* Scores below the threshold leave their weighted average below it.
LEMMA NoGoodScoreNoQualification ==
    ASSUME NEW dims \in Seq(DimensionScore), \A i \in DOMAIN dims : dims[i].score < pass_threshold
    PROVE  ~QualifiedBy(dims)
<1>0. PICK n \in Nat : DOMAIN dims = 1..n
  OBVIOUS
<1>1. \A i \in 1..n : dims[i].score \in 0..34 /\ dims[i].weight \in Nat
  <2> SUFFICES ASSUME NEW i \in 1..n PROVE dims[i].score \in 0..34 /\ dims[i].weight \in Nat
    OBVIOUS
  <2>1. dims[i] \in DimensionScore
    BY <1>0, EntryOf
  <2>2. dims[i].score \in 0..50 /\ dims[i].weight \in Nat /\ dims[i].score < 35
    BY <1>0, <2>1, DimensionType DEF pass_threshold
  <2> QED  BY <2>2, BelowThreshold, Zenon
<1> DEFINE c == Down(n)
           p == [i \in 1..n |-> dims[i].score * dims[i].weight]
           w == [i \in 1..n |-> dims[i].weight]
<1>2. PICK A : IsSum(A, p, c, 1..n) /\ Total(dims, LAMBDA d : d.score * d.weight) = A[1..n]
  <2>1. \A i \in 1..n : dims[i].score \in Nat /\ dims[i].weight \in Nat
    BY <1>1, BelowThreshold, Zenon
  <2> QED  BY <1>0, <2>1, ScoresAreASum
<1>3. PICK B : IsSum(B, w, c, 1..n) /\ Total(dims, LAMBDA d : d.weight) = B[1..n]
  BY <1>0, <1>1, WeightsAreASum
<1>4. \A i \in 1..n : p[i] \in Int /\ w[i] \in Nat /\ p[i] <= 34 * w[i]
  <2> SUFFICES ASSUME NEW i \in 1..n PROVE p[i] \in Int /\ w[i] \in Nat /\ p[i] <= 34 * w[i]
    OBVIOUS
  <2>1. PICK s \in 0..34, e \in Nat : dims[i].score = s /\ dims[i].weight = e
    BY <1>1
  <2>2. s * e <= 34 * e /\ s * e \in Int
    BY <2>1
  <2> QED  BY <2>1, <2>2
<1>5. A[1..n] \in Int /\ B[1..n] \in Nat /\ A[1..n] <= 34 * B[1..n]
  <2>1. IsFiniteSet(1..n) /\ Chooses(c, 1..n)
    BY DownChooses
  <2> DEFINE m == 34
  <2>2. m \in Int /\ \A i \in 1..n : p[i] \in Int /\ w[i] \in Nat /\ p[i] <= m * w[i]
    BY <1>4
  <2> HIDE DEF c, p, w, m
  <2>3. A[1..n] \in Int /\ B[1..n] \in Nat /\ A[1..n] <= m * B[1..n]
    BY <1>2, <1>3, <2>2, <2>1, SumAtMost DEF TermsAtMost
  <2> QED  BY <2>3 DEF m
<1>6. \A a \in Int, b \in Nat : a <= 34 * b => ~(a >= 35 * (IF b = 0 THEN 10 ELSE b))
  OBVIOUS
<1>7. QualifiedBy(dims) <=> A[1..n] >= 35 * (IF B[1..n] = 0 THEN 10 ELSE B[1..n])
  BY <1>2, <1>3, Zenon DEF QualifiedBy, weight_total, pass_threshold
<1> QED  BY <1>5, <1>6, <1>7, Zenon

LEMMA StubScores ==
    ASSUME NEW role
    PROVE  ~QualifiedBy(_stub_eval(for_role(role)))
<1> DEFINE rubric == for_role(role)
           dims == _stub_eval(rubric)
<1>1. rubric \in {SALES_RUBRIC, SE_RUBRIC, CLEARED_RUBRIC}
  BY DEF for_role, RUBRICS
<1>2. rubric \in Seq(Nat)
  <2>1. SALES_RUBRIC \in Seq(Nat)
    BY DEF SALES_RUBRIC
  <2>2. SE_RUBRIC \in Seq(Nat)
    BY DEF SE_RUBRIC
  <2>3. CLEARED_RUBRIC \in Seq(Nat)
    BY DEF CLEARED_RUBRIC
  <2> QED  BY <1>1, <2>1, <2>2, <2>3
<1> HIDE DEF rubric
<1>3. dims \in Seq(DimensionScore) /\ \A i \in DOMAIN dims : dims[i].score = 30
  <2>1. \A i \in DOMAIN rubric : [score |-> 30, weight |-> rubric[i]] \in DimensionScore
    BY <1>2 DEF DimensionScore
  <2>2. PICK n \in Nat : DOMAIN rubric = 1..n
    BY <1>2
  <2> QED  BY <2>1, <2>2 DEF _stub_eval
<1> HIDE DEF dims
<1>4. ~QualifiedBy(dims)
  BY <1>3, NoGoodScoreNoQualification DEF pass_threshold
<1> QED  BY <1>4 DEF dims, rubric

Carded(v) ==
    /\ v = [role |-> v.role, pc |-> v.pc, card |-> v.card, stub |-> v.stub]
    /\ v.card # <<>> /\ v.card[1].qualified =>
          /\ ~v.stub
          /\ \E i \in DOMAIN v.card[1].dims : v.card[1].dims[i].score >= pass_threshold

CardInv == evaluations # <<>> => DOMAIN evaluations = {1} /\ Carded(evaluations[1])

LEMMA CardInvInit == InterviewInit => CardInv
  BY DEF InterviewInit, CardInv

LEMMA CardInvStep == CardInv /\ [InterviewNext]_interviewVars => CardInv'
<1> SUFFICES ASSUME CardInv, [InterviewNext]_interviewVars PROVE CardInv'
  OBVIOUS
<1>1. CASE evaluations' = evaluations
  BY <1>1 DEF CardInv, Carded
<1>2. ASSUME NEW role \in Roles, evaluate(role) PROVE CardInv'
  <2>1. evaluations' = <<[role |-> role, pc |-> "model", card |-> <<>>, stub |-> FALSE]>>
    BY <1>2 DEF evaluate
  <2>2. DOMAIN evaluations' = {1}
    BY <2>1
  <2> QED  BY <2>1, <2>2 DEF CardInv, Carded
<1>3. ASSUME NEW pc, evaluations # <<>>, evaluations' = [evaluations EXCEPT ![1].pc = pc] PROVE CardInv'
  <2>1. DOMAIN evaluations = {1} /\ Carded(evaluations[1])
    BY <1>3 DEF CardInv
  <2>2. DOMAIN evaluations' = {1} /\ evaluations'[1] = [evaluations[1] EXCEPT !.pc = pc]
    BY <1>3, <2>1
  <2>3. Carded([evaluations[1] EXCEPT !.pc = pc])
    BY <2>1 DEF Carded
  <2> QED  BY <2>2, <2>3 DEF CardInv
<1>4. ASSUME NEW e \in Evaluations, evaluate_transcript(e), ~(e.json /\ ~e.valid) PROVE CardInv'
  <2>1. DOMAIN evaluations = {1} /\ Carded(evaluations[1])
    BY <1>4 DEF CardInv, evaluate_transcript, At
  <2> DEFINE card == CardOf(e, evaluations[1].role)
             v == [evaluations[1] EXCEPT !.pc = "audit", !.stub = ~e.json, !.card = <<card>>]
  <2>2. DOMAIN evaluations' = {1} /\ evaluations'[1] = v
    BY <1>4, <2>1 DEF evaluate_transcript
  <2>3. card.qualified => e.json /\ \E i \in DOMAIN card.dims : card.dims[i].score >= pass_threshold
    <3>1. CASE e.json
      <4>1. e.dims \in Seq(DimensionScore)
        BY InterviewAssumption
      <4>2. card.qualified = QualifiedBy(e.dims) /\ card.dims = e.dims
        BY <3>1 DEF CardOf, Scorecard
      <4>3. \A i \in DOMAIN e.dims : e.dims[i].score \in Int
        <5> SUFFICES ASSUME NEW i \in DOMAIN e.dims PROVE e.dims[i].score \in Int
          OBVIOUS
        <5>1. e.dims[i] \in DimensionScore
          BY <4>1, EntryOf
        <5> QED  BY <5>1, DimensionType
      <4> HIDE DEF card
      <4>4. QualifiedBy(e.dims) => ~\A i \in DOMAIN e.dims : e.dims[i].score < pass_threshold
        BY <4>1, NoGoodScoreNoQualification
      <4>5. QualifiedBy(e.dims) => \E i \in DOMAIN e.dims : e.dims[i].score >= pass_threshold
        BY <4>3, <4>4 DEF pass_threshold
      <4> QED  BY <3>1, <4>2, <4>5
    <3>2. CASE ~e.json
      <4>1. card.qualified = QualifiedBy(_stub_eval(for_role(evaluations[1].role)))
        BY <3>2 DEF CardOf, Scorecard
      <4> QED  BY <4>1, StubScores
    <3> QED  BY <3>1, <3>2
  <2> HIDE DEF card
  <2>4. v = [role |-> v.role, pc |-> v.pc, card |-> v.card, stub |-> v.stub] /\ v.card = <<card>> /\ v.stub = ~e.json
    <3> DEFINE x == evaluations[1]
    <3>1. x = [role |-> x.role, pc |-> x.pc, card |-> x.card, stub |-> x.stub]
      BY <2>1 DEF Carded
    <3> HIDE DEF x
    <3>2. [x EXCEPT !.pc = "audit", !.stub = ~e.json, !.card = <<card>>]
            = [role |-> x.role, pc |-> "audit", card |-> <<card>>, stub |-> ~e.json]
      <4> DEFINE x1 == [x EXCEPT !.pc = "audit"]
                 stub == ~e.json
                 x2 == [x1 EXCEPT !.stub = stub]
                 x3 == [x2 EXCEPT !.card = <<card>>]
      <4> HIDE DEF stub
      <4>1. x1 = [role |-> x.role, pc |-> "audit", card |-> x.card, stub |-> x.stub]
        BY <3>1
      <4> HIDE DEF x1
      <4>2. x2 = [role |-> x.role, pc |-> "audit", card |-> x.card, stub |-> stub]
        BY <4>1
      <4> HIDE DEF x2
      <4>3. x3 = [role |-> x.role, pc |-> "audit", card |-> <<card>>, stub |-> stub]
        BY <4>2
      <4> QED  BY <4>3 DEF x1, x2, stub
    <3>3. v = [role |-> x.role, pc |-> "audit", card |-> <<card>>, stub |-> ~e.json]
      BY <3>2 DEF x
    <3> QED  BY <3>3
  <2> HIDE DEF v
  <2>5. v.card[1] = card
    <3>1. <<card>>[1] = card
      OBVIOUS
    <3> QED  BY <2>4, <3>1, Zenon
  <2>6. Carded(v)
    BY <2>3, <2>4, <2>5, Zenon DEF Carded
  <2> QED  BY <2>2, <2>6 DEF CardInv
<1>5. CASE evaluations' # evaluations /\ InterviewRestart
  BY <1>3, <1>5 DEF InterviewRestart, At
<1>6. CASE AuditEvaluation
  BY <1>3, <1>6 DEF AuditEvaluation, At
<1>7. ASSUME NEW e \in Evaluations, evaluate_transcript(e) PROVE CardInv'
  <2>1. evaluations # <<>>
    BY <1>7 DEF evaluate_transcript, At
  <2> QED  BY <1>3, <1>4, <1>7, <2>1 DEF evaluate_transcript
<1>8. CASE chat_start \/ chat_answer
  BY <1>1, <1>8 DEF chat_start, chat_answer
<1> QED  BY <1>1, <1>2, <1>5, <1>6, <1>7, <1>8 DEF InterviewNext, interviewVars

LEMMA CardInvQualifies == CardInv => QualifiedHasAGoodScore
  BY DEF CardInv, Carded, QualifiedHasAGoodScore, ToSet

\* Where a chat stands after k answers; seen is the question the candidate has
\* before them: the one asked last, or the one they answered last when its reply
\* was lost.  Every such loss and every answer given twice has cost a fault, the
\* farewell (0) apart.
Standing(k, n) == IF k <= n THEN k ELSE 0
Twice(answers) == {j \in 2..Len(answers) : answers[j] = answers[j - 1] /\ answers[j] # 0}
Loss(s, seen) == IF seen = Standing(Len(s.answers) + 1, Len(for_role(s.role))) THEN 0 ELSE 1
NeverAhead(answers, n) ==
    \A i \in 1..Len(answers) :
        /\ answers[i] <= i
        /\ answers[i] = 0 => n < i /\ \A j \in i..Len(answers) : answers[j] = 0
        /\ answers[i] # Standing(i, n) => i >= 2 /\ answers[i] # 0 /\ answers[i] = answers[i - 1]
KeptOrder(s, seen, cost) ==
    LET n == Len(for_role(s.role))
        k == Len(s.answers)
    IN  /\ s = [role |-> s.role, asked |-> s.asked, answers |-> s.answers, next |-> s.next,
                completed |-> s.completed]
        /\ s.answers \in Seq(Int) /\ s.asked \in Seq(Int) /\ Len(s.asked) = k + 1
        /\ \A i \in 1..k + 1 : s.asked[i] = Standing(i, n)
        /\ s.next = IF k < n THEN k + 1 ELSE n
        /\ s.completed <=> k >= n
        /\ NeverAhead(s.answers, n)
        /\ seen = Standing(k + 1, n) \/ (k >= 1 /\ seen = s.answers[k])
        /\ Cardinality(Twice(s.answers)) + Loss(s, seen) <= cost

ChatInv ==
    /\ chatFaults \in Nat
    /\ sessions # <<>> => DOMAIN sessions = {1} /\ KeptOrder(sessions[1], shown, chatFaults)

LEMMA RubricLength ==
    ASSUME NEW role
    PROVE  Len(for_role(role)) \in Nat \ {0}
  BY DEF for_role, RUBRICS, SALES_RUBRIC, SE_RUBRIC, CLEARED_RUBRIC

LEMMA AnsweredGrows ==
    ASSUME NEW n \in Nat, NEW answers \in Seq(Int), NEW a \in Int, NeverAhead(answers, n),
           a = Standing(Len(answers) + 1, n) \/ (Len(answers) >= 1 /\ a = answers[Len(answers)])
    PROVE  NeverAhead(Append(answers, a), n)
<1> DEFINE b == Append(answers, a)
<1>0. PICK k \in Nat : Len(answers) = k /\ DOMAIN answers = 1..k
  OBVIOUS
<1>1. Len(b) = k + 1 /\ b[k + 1] = a /\ \A i \in 1..k : b[i] = answers[i] /\ answers[i] \in Int
  BY <1>0
<1> HIDE DEF b
<1>2. \A i \in 1..k : answers[i] = 0 => a = 0
  BY <1>0, <1>1 DEF NeverAhead, Standing
<1>3. a <= k + 1 /\ (a = 0 => n < k + 1)
  BY <1>0, <1>1 DEF NeverAhead, Standing
<1>4. a # Standing(k + 1, n) => k + 1 >= 2 /\ a # 0 /\ a = answers[k]
  BY <1>0, <1>1 DEF NeverAhead, Standing
<1> SUFFICES NeverAhead(b, n)
  BY DEF b
<1> SUFFICES ASSUME NEW i \in 1..k + 1
             PROVE  /\ b[i] <= i
                    /\ b[i] = 0 => n < i /\ \A j \in i..k + 1 : b[j] = 0
                    /\ b[i] # Standing(i, n) => i >= 2 /\ b[i] # 0 /\ b[i] = b[i - 1]
  BY <1>1 DEF NeverAhead
<1>5. CASE i = k + 1
  BY <1>1, <1>3, <1>4, <1>5
<1>6. CASE i \in 1..k
  <2>1. /\ answers[i] <= i
        /\ answers[i] = 0 => n < i /\ \A j \in i..k : answers[j] = 0
        /\ answers[i] # Standing(i, n) => i >= 2 /\ answers[i] # 0 /\ answers[i] = answers[i - 1]
    BY <1>0, <1>6 DEF NeverAhead
  <2>2. \A j \in i..k + 1 : j \in 1..k \/ j = k + 1
    OBVIOUS
  <2>3. i >= 2 => i - 1 \in 1..k
    BY <1>6
  <2> QED  BY <1>1, <1>2, <1>6, <2>1, <2>2, <2>3
<1> QED  BY <1>5, <1>6

LEMMA TwiceGrows ==
    ASSUME NEW n \in Nat, NEW answers \in Seq(Int), NEW a \in Int, NeverAhead(answers, n)
    PROVE  /\ Cardinality(Twice(answers)) \in Nat
           /\ Cardinality(Twice(Append(answers, a))) \in Nat
           /\ Cardinality(Twice(Append(answers, a)))
                 <= Cardinality(Twice(answers)) + (IF a = Standing(Len(answers) + 1, n) THEN 0 ELSE 1)
<1> DEFINE b == Append(answers, a)
<1>0. PICK k \in Nat : Len(answers) = k /\ DOMAIN answers = 1..k
  OBVIOUS
<1>1. Len(b) = k + 1 /\ b[k + 1] = a /\ \A i \in 1..k : b[i] = answers[i] /\ answers[i] \in Int
  BY <1>0
<1> HIDE DEF b
<1>2. IsFiniteSet(Twice(answers)) /\ IsFiniteSet(Twice(b))
  <2>1. IsFiniteSet(2..k) /\ IsFiniteSet(2..k + 1)
    BY FS_Interval
  <2>2. Twice(answers) \subseteq 2..k /\ Twice(b) \subseteq 2..k + 1
    BY <1>0, <1>1 DEF Twice
  <2> QED  BY <2>1, <2>2, FS_Subset
<1>3. Twice(b) \subseteq Twice(answers) \cup {k + 1}
  BY <1>0, <1>1 DEF Twice
<1>4. a = Standing(k + 1, n) => k + 1 \notin Twice(b)
  <2> SUFFICES ASSUME a = Standing(k + 1, n), k + 1 \in 2..k + 1, b[k + 1] = b[k], b[k + 1] # 0 PROVE FALSE
    BY <1>1 DEF Twice
  <2>1. k \in 1..k
    OBVIOUS
  <2>2. answers[k] <= k
    BY <1>0, <2>1 DEF NeverAhead
  <2>3. b[k + 1] = a /\ b[k] = answers[k] /\ answers[k] \in Int
    BY <1>1, <2>1
  <2>4. a = 0 \/ a = k + 1
    BY DEF Standing
  <2>5. a = answers[k] /\ a # 0
    BY <2>3
  <2> HIDE DEF b
  <2> QED  BY <2>2, <2>4, <2>5
<1>5. Cardinality(Twice(answers)) \in Nat /\ Cardinality(Twice(answers)) <= Cardinality(Twice(answers))
  BY <1>2, FS_CardinalityType
<1>6. Cardinality(Twice(b)) \in Nat /\ Cardinality(Twice(b)) <= Cardinality(Twice(answers)) + 1
  BY <1>2, <1>3, <1>5, OneMore
<1>7. a = Standing(k + 1, n) => Cardinality(Twice(b)) <= Cardinality(Twice(answers))
  <2>1. a = Standing(k + 1, n) => Twice(b) \subseteq Twice(answers)
    BY <1>3, <1>4
  <2> QED  BY <1>2, <1>5, <2>1, NoMore
<1> QED  BY <1>0, <1>5, <1>6, <1>7 DEF b

LEMMA AnswerKeepsOrder ==
    ASSUME NEW s, NEW seen, NEW cost \in Nat, KeptOrder(s, seen, cost)
    PROVE  /\ KeptOrder(submit_answer(s, seen), Last(submit_answer(s, seen).asked), cost)
           /\ KeptOrder(submit_answer(s, seen), seen, cost + 1)
<1> DEFINE n == Len(for_role(s.role))
           t == submit_answer(s, seen)
<1>0. n \in Nat \ {0}
  BY RubricLength
<1>1. PICK k \in Nat : Len(s.answers) = k
  BY DEF KeptOrder
<1>2. /\ s = [role |-> s.role, asked |-> s.asked, answers |-> s.answers, next |-> s.next,
              completed |-> s.completed]
      /\ s.answers \in Seq(Int) /\ s.asked \in Seq(Int) /\ Len(s.asked) = k + 1
      /\ \A i \in 1..k + 1 : s.asked[i] = Standing(i, n)
      /\ s.next = IF k < n THEN k + 1 ELSE n
      /\ s.completed <=> k >= n
      /\ NeverAhead(s.answers, n)
      /\ seen = Standing(k + 1, n) \/ (k >= 1 /\ seen = s.answers[k])
  BY <1>1, Zenon DEF KeptOrder
<1>3. Cardinality(Twice(s.answers)) + (IF seen = Standing(k + 1, n) THEN 0 ELSE 1) <= cost
  BY <1>1 DEF KeptOrder, Loss
<1>4. seen \in Int
  BY <1>1, <1>2 DEF Standing
<1> HIDE DEF n
<1>5. /\ t = [role |-> t.role, asked |-> t.asked, answers |-> t.answers, next |-> t.next,
              completed |-> t.completed]
      /\ t.role = s.role /\ t.answers = Append(s.answers, seen)
      /\ t.asked = Append(s.asked, Standing(k + 2, n))
      /\ t.next = IF k + 1 < n THEN k + 2 ELSE n
      /\ t.completed <=> k + 1 >= n
  <2>1. CASE s.next >= n
    <3>1. t = [[[s EXCEPT !.answers = Append(@, seen)] EXCEPT !.completed = TRUE] EXCEPT !.asked = Append(@, 0)]
      BY <2>1 DEF submit_answer, n
    <3>2. /\ t = [role |-> t.role, asked |-> t.asked, answers |-> t.answers, next |-> t.next,
                  completed |-> t.completed]
          /\ t.role = s.role /\ t.answers = Append(s.answers, seen)
          /\ t.asked = Append(s.asked, 0) /\ t.next = s.next /\ t.completed
      <4> HIDE DEF t
      <4> QED  BY <1>2, <3>1
    <3>3. k + 1 >= n /\ Standing(k + 2, n) = 0
      BY <1>0, <1>2, <2>1 DEF Standing
    <3> HIDE DEF t
    <3> QED  BY <1>0, <1>2, <2>1, <3>2, <3>3
  <2>2. CASE ~(s.next >= n)
    <3>1. t = [[[s EXCEPT !.answers = Append(@, seen)] EXCEPT !.asked = Append(@, s.next + 1)] EXCEPT !.next = @ + 1]
      BY <2>2 DEF submit_answer, n
    <3>2. /\ t = [role |-> t.role, asked |-> t.asked, answers |-> t.answers, next |-> t.next,
                  completed |-> t.completed]
          /\ t.role = s.role /\ t.answers = Append(s.answers, seen)
          /\ t.asked = Append(s.asked, s.next + 1) /\ t.next = s.next + 1 /\ (t.completed <=> s.completed)
      <4> HIDE DEF t
      <4> QED  BY <1>2, <3>1
    <3>3. k + 1 < n /\ s.next = k + 1 /\ Standing(k + 2, n) = k + 2
      BY <1>0, <1>2, <2>2 DEF Standing
    <3> HIDE DEF t
    <3> QED  BY <1>0, <1>2, <3>2, <3>3
  <2> QED  BY <2>1, <2>2
<1> HIDE DEF t
<1>6. /\ t.answers \in Seq(Int) /\ Len(t.answers) = k + 1 /\ t.answers[k + 1] = seen
      /\ t.asked \in Seq(Int) /\ Len(t.asked) = k + 2 /\ Last(t.asked) = Standing(k + 2, n)
      /\ \A i \in 1..k + 2 : t.asked[i] = Standing(i, n)
  <2>1. Standing(k + 2, n) \in Int
    BY DEF Standing
  <2>2. t.answers \in Seq(Int) /\ Len(t.answers) = k + 1 /\ t.answers[k + 1] = seen
    BY <1>1, <1>2, <1>4, <1>5
  <2>3. t.asked \in Seq(Int) /\ Len(t.asked) = k + 2 /\ t.asked[k + 2] = Standing(k + 2, n)
        /\ \A i \in 1..k + 1 : t.asked[i] = s.asked[i]
    BY <1>2, <1>5, <2>1
  <2>4. Last(t.asked) = t.asked[k + 2]
    BY <2>3 DEF Last
  <2>5. \A i \in 1..k + 2 : i = k + 2 \/ i \in 1..k + 1
    OBVIOUS
  <2> QED  BY <1>2, <2>2, <2>3, <2>4, <2>5
<1>7. NeverAhead(t.answers, n)
  BY <1>0, <1>1, <1>2, <1>4, <1>5, AnsweredGrows
<1>8. /\ Cardinality(Twice(s.answers)) \in Nat /\ Cardinality(Twice(t.answers)) \in Nat
      /\ Cardinality(Twice(t.answers)) <= Cardinality(Twice(s.answers)) + (IF seen = Standing(k + 1, n) THEN 0 ELSE 1)
  BY <1>0, <1>1, <1>2, <1>4, <1>5, TwiceGrows
<1>9. Cardinality(Twice(t.answers)) <= cost
  BY <1>3, <1>8
<1>10. Len(for_role(t.role)) = n /\ Len(t.answers) = k + 1
  BY <1>5, <1>6 DEF n
<1>11. ASSUME NEW later, NEW c \in Nat, Cardinality(Twice(t.answers)) + Loss(t, later) <= c,
              later = Standing(k + 2, n) \/ later = t.answers[k + 1]
       PROVE  KeptOrder(t, later, c)
  <2>1. (k + 1) + 1 = k + 2 /\ k + 1 >= 1
    OBVIOUS
  <2> QED  BY <1>5, <1>6, <1>7, <1>10, <1>11, <2>1 DEF KeptOrder
<1>12. Loss(t, Last(t.asked)) = 0 /\ Loss(t, seen) \in 0..1
  <2>1. (k + 1) + 1 = k + 2
    OBVIOUS
  <2> QED  BY <1>6, <1>10, <2>1 DEF Loss
<1>13. KeptOrder(t, Last(t.asked), cost)
  BY <1>6, <1>8, <1>9, <1>11, <1>12
<1>14. KeptOrder(t, seen, cost + 1)
  BY <1>6, <1>8, <1>9, <1>11, <1>12
<1> QED  BY <1>13, <1>14 DEF t

LEMMA ChatInvInit == InterviewInit => ChatInv
  BY DEF InterviewInit, ChatInv

LEMMA FirstQuestion ==
    ASSUME NEW role, NEW cost \in Nat
    PROVE  KeptOrder(start_chat(role), 1, cost)
<1> DEFINE s == start_chat(role)
           n == Len(for_role(role))
<1>1. /\ s = [role |-> s.role, asked |-> s.asked, answers |-> s.answers, next |-> s.next,
              completed |-> s.completed]
      /\ s.role = role /\ s.asked = <<1>> /\ s.answers = <<>> /\ s.next = 1 /\ s.completed = FALSE
  BY DEF start_chat
<1>2. n \in Nat \ {0}
  BY RubricLength
<1> HIDE DEF s
<1>3. /\ s.answers \in Seq(Int) /\ Len(s.answers) = 0 /\ s.asked \in Seq(Int) /\ Len(s.asked) = 1 /\ s.asked[1] = 1
  BY <1>1
<1>4. NeverAhead(s.answers, n) /\ Twice(s.answers) = {} /\ Cardinality(Twice(s.answers)) = 0
  <2>1. NeverAhead(s.answers, n) /\ Twice(s.answers) = {}
    BY <1>3 DEF NeverAhead, Twice
  <2> QED  BY <2>1, FS_EmptySet
<1>5. Standing(1, n) = 1 /\ Len(for_role(s.role)) = n
  BY <1>1, <1>2 DEF Standing
<1>6. Loss(s, 1) = 0
  BY <1>3, <1>5 DEF Loss
<1> HIDE DEF n
<1>7. KeptOrder(s, 1, cost)
  <2>1. \A i \in 1..0 + 1 : i = 1
    OBVIOUS
  <2> QED  BY <1>1, <1>2, <1>3, <1>4, <1>5, <1>6, <2>1 DEF KeptOrder
<1> QED  BY <1>7 DEF s

LEMMA ChatInvStep == ChatInv /\ [InterviewNext]_interviewVars => ChatInv'
<1> SUFFICES ASSUME ChatInv, [InterviewNext]_interviewVars PROVE ChatInv'
  OBVIOUS
<1>1. CASE UNCHANGED <<sessions, shown, chatFaults>>
  BY <1>1 DEF ChatInv
<1>2. CASE chat_start
  <2>1. PICK role : sessions' = <<start_chat(role)>> /\ shown' = 1 /\ chatFaults' = chatFaults
    BY <1>2 DEF chat_start
  <2>2. DOMAIN sessions' = {1} /\ sessions'[1] = start_chat(role)
    BY <2>1
  <2> QED  BY <2>1, <2>2, FirstQuestion DEF ChatInv
<1>3. CASE chat_answer
  <2>1. CASE sessions = <<>>
    BY <1>3, <2>1 DEF chat_answer, ChatInv
  <2>2. CASE sessions # <<>>
    <3> DEFINE t == submit_answer(sessions[1], shown)
    <3>1. /\ sessions' = <<t>>
          /\ \/ shown' = Last(sessions'[1].asked) /\ chatFaults' = chatFaults
             \/ chatFaults' = chatFaults + 1 /\ shown' = shown
      <4> HIDE DEF t
      <4> QED  BY <1>3, <2>2 DEF chat_answer, ChatFault, t
    <3>2. chatFaults \in Nat /\ KeptOrder(sessions[1], shown, chatFaults)
      BY <2>2 DEF ChatInv
    <3>3. KeptOrder(t, Last(t.asked), chatFaults) /\ KeptOrder(t, shown, chatFaults + 1)
      BY <3>2, AnswerKeepsOrder
    <3> HIDE DEF t
    <3>4. DOMAIN sessions' = {1} /\ sessions'[1] = t
      BY <3>1
    <3> QED  BY <3>1, <3>2, <3>3, <3>4 DEF ChatInv
  <2> QED  BY <2>1, <2>2
<1>4. CASE InterviewRestart
  BY <1>4 DEF InterviewRestart, ChatFault, ChatInv
<1> QED  BY <1>1, <1>2, <1>3, <1>4 DEF InterviewNext, interviewVars, AuditEvaluation, evaluate, evaluate_transcript

LEMMA ChatInvInOrder == ChatInv => QuestionsOnceInOrder
<1> SUFFICES ASSUME chatFaults \in Nat, NEW s, KeptOrder(s, shown, chatFaults), NEW n \in Nat, n = Len(for_role(s.role))
             PROVE  /\ \A i \in DOMAIN s.asked : s.asked[i] = IF i <= n THEN i ELSE 0
                    /\ s.completed <=> Len(s.answers) >= n
                    /\ \A i \in Misfiled(s) : Cardinality(Repeats(s, i)) \in 1..chatFaults
  BY RubricLength DEF ChatInv, QuestionsOnceInOrder, ToSet
<1>1. PICK k \in Nat : Len(s.answers) = k /\ DOMAIN s.answers = 1..k
  BY DEF KeptOrder
<1>2. /\ s.asked \in Seq(Int) /\ Len(s.asked) = k + 1 /\ \A i \in 1..k + 1 : s.asked[i] = Standing(i, n)
      /\ s.completed <=> k >= n
      /\ s.answers \in Seq(Int) /\ NeverAhead(s.answers, n)
  BY <1>1 DEF KeptOrder
<1>3. Cardinality(Twice(s.answers)) <= chatFaults /\ Cardinality(Twice(s.answers)) \in Nat
  <2>1. Cardinality(Twice(s.answers)) + Loss(s, shown) <= chatFaults
    BY DEF KeptOrder
  <2>2. Cardinality(Twice(s.answers)) \in Nat
    BY <1>2, TwiceGrows
  <2>3. Loss(s, shown) \in 0..1
    BY DEF Loss
  <2> QED  BY <2>1, <2>2, <2>3
<1>4. ASSUME NEW i \in Misfiled(s) PROVE Cardinality(Repeats(s, i)) \in 1..chatFaults
  <2>1. i \in 1..k /\ s.answers[i] # Standing(i, n)
    BY <1>1, <1>2, <1>4 DEF Misfiled
  <2>2. i >= 2 /\ s.answers[i] # 0 /\ s.answers[i] = s.answers[i - 1]
    BY <1>1, <1>2, <2>1 DEF NeverAhead
  <2>3. Repeats(s, i) \subseteq Twice(s.answers) /\ i \in Repeats(s, i)
    <3>1. \A j \in 2..i : s.answers[j] # 0
      BY <1>1, <1>2, <2>1, <2>2 DEF NeverAhead
    <3> QED  BY <1>1, <2>1, <2>2, <3>1 DEF Repeats, Twice
  <2>4. IsFiniteSet(Twice(s.answers))
    <3>1. Twice(s.answers) \subseteq 2..k /\ IsFiniteSet(2..k)
      BY <1>1, FS_Interval DEF Twice
    <3> QED  BY <3>1, FS_Subset
  <2>5. IsFiniteSet(Repeats(s, i)) /\ Cardinality(Repeats(s, i)) \in Nat /\ Cardinality(Repeats(s, i)) <= chatFaults
    BY <1>3, <2>3, <2>4, NoMore
  <2>6. Cardinality(Repeats(s, i)) # 0
    BY <2>3, <2>5, FS_EmptySet
  <2> QED  BY <2>5, <2>6
<1> QED  BY <1>1, <1>2, <1>4 DEF Standing

\* What a chat asks and files, and whom an evaluation qualifies (of whatever
\* answers), for every rubric the service has and every scorecard the model may
\* write.
THEOREM InterviewsAreSound == PlatformSpec => []SessionSound
<1>1. ChatInv /\ CardInv => SessionSound
  BY ChatInvInOrder, CardInvQualifies DEF SessionSound
<1>2. PlatformSpec => [](ChatInv /\ CardInv)
  BY StartOfServices, StepOfServices, ChatInvInit, ChatInvStep, CardInvInit, CardInvStep, PTL DEF PlatformSpec
<1> QED  BY <1>1, <1>2, PTL

-----------------------------------------------------------------------------
(* Restarts.                                                               *)

\* A file that is there and whole is at least as new as what clients were told
\* of; a model that is being stored is at least as new, too.
ModelsInv ==
    /\ loaded \in [FeatureSets -> Nat] /\ file \in [FeatureSets -> Int]
    /\ retrained \in [FeatureSets -> Nat] /\ trained \in Nat \ {0}
    /\ \A f \in FeatureSets : /\ file[f] >= Torn /\ retrained[f] <= trained
                              /\ file[f] = Torn \/ retrained[f] <= file[f]
                              /\ loaded[f] = Missing \/ retrained[f] <= loaded[f]
    /\ serving \in {"starting", "up", "down", "broken"}
    /\ serving = "up" => \A f \in FeatureSets : loaded[f] # Missing
    /\ training # <<>> =>
          /\ training[1] \in FeatureSets /\ training[2] \in 1..trained
          /\ retrained[training[1]] <= training[2]
          /\ training[1] = "offer_acceptance" => loaded["placement_success"] # Missing
          /\ training[3] = "swap" => file[training[1]] = training[2]

LEMMA ModelsInvInit == OutcomesInit => ModelsInv
  BY DEF OutcomesInit, ModelsInv, FeatureSets, Missing, Torn, Synthetic

LEMMA ModelsInvStep == ModelsInv /\ [OutcomesNext]_outcomeVars => ModelsInv'
<1> SUFFICES ASSUME ModelsInv, [OutcomesNext]_outcomeVars PROVE ModelsInv'
  OBVIOUS
<1> USE DEF Missing, Torn, Synthetic
<1>1. CASE UNCHANGED outcomeVars
  BY <1>1 DEF ModelsInv, outcomeVars
<1>2. CASE Launch
  BY <1>2 DEF ModelsInv, Launch
<1>3. ASSUME NEW f \in FeatureSets, NEW v, training' = <<f, v, "open">> PROVE training' # <<>> /\ training'[1] = f /\ training'[2] = v /\ training'[3] = "open"
  BY <1>3
<1>4. ASSUME NEW f \in FeatureSets, lifespan(f) PROVE ModelsInv'
  <2>1. CASE MustTrain(f)
    <3>1. training' = <<f, 1, "open">> /\ file[f] = 0
          /\ UNCHANGED <<loaded, serving, file, trained, retrained>>
          /\ (f = "offer_acceptance" => loaded["placement_success"] # 0)
      BY <1>4, <2>1 DEF lifespan, MustTrain, train
    <3>2. training' # <<>> /\ training'[1] = f /\ training'[2] = 1 /\ training'[3] = "open"
      BY <1>3, <3>1
    <3> QED  BY <3>1, <3>2 DEF ModelsInv
  <2>2. CASE ~MustTrain(f)
    BY <1>4, <2>2 DEF ModelsInv, lifespan, MustTrain, FeatureSets
  <2> QED  BY <2>1, <2>2
<1>5. ASSUME NEW f \in FeatureSets, retrain(f) PROVE ModelsInv'
  BY <1>5 DEF ModelsInv, retrain, train, FeatureSets
<1>6. CASE save
  <2> DEFINE f == training[1]
             v == training[2]
  <2>1. /\ f \in FeatureSets /\ v \in 1..trained /\ retrained[f] <= v
        /\ f = "offer_acceptance" => loaded["placement_success"] # 0
    BY <1>6 DEF save, ModelsInv
  <2>2. UNCHANGED <<loaded, serving, trained, retrained>>
    BY <1>6 DEF save
  <2> HIDE DEF f, v
  <2>3. CASE file' = [file EXCEPT ![f] = -1] /\ training' = <<f, v, "write">>
    <3>1. training' # <<>> /\ training'[1] = f /\ training'[2] = v /\ training'[3] = "write"
      BY <2>3
    <3> QED  BY <2>1, <2>2, <2>3, <3>1 DEF ModelsInv
  <2>4. CASE file' = [file EXCEPT ![f] = v] /\ training' = <<f, v, "swap">>
    <3>1. training' # <<>> /\ training'[1] = f /\ training'[2] = v /\ training'[3] = "swap"
      BY <2>4
    <3> QED  BY <2>1, <2>2, <2>4, <3>1 DEF ModelsInv
  <2> QED  BY <1>6, <2>3, <2>4 DEF save, f, v
<1>7. CASE Swap
  BY <1>7 DEF ModelsInv, Swap, FeatureSets
<1>8. CASE Stop
  BY <1>8 DEF ModelsInv, Stop
<1>9. CASE retention_score
  BY <1>9 DEF ModelsInv, retention_score
<1> QED  BY <1>1, <1>2, <1>4, <1>5, <1>6, <1>7, <1>8, <1>9 DEF OutcomesNext

LEMMA ModelsInvServes == ModelsInv => RetrainedIsServed
  BY DEF ModelsInv, RetrainedIsServed

\* Every letter is known or was lost, and the last answer is of now.
LettersInv ==
    /\ drafts \in Seq([person : Prospects, opportunity : Opportunities])
    /\ lois \cup lostIds = DOMAIN drafts
    /\ PackageMissesOnlyLost

LEMMA LettersInvInit == CaptureInit => LettersInv
  BY DEF CaptureInit, LettersInv, PackageMissesOnlyLost, AnswersOf, ToSet

LEMMA LettersInvStep == LettersInv /\ [CaptureNext]_captureVars => LettersInv'
<1> SUFFICES ASSUME LettersInv, [CaptureNext]_captureVars PROVE LettersInv'
  OBVIOUS
<1>1. CASE UNCHANGED captureVars
  BY <1>1 DEF LettersInv, captureVars, PackageMissesOnlyLost, AnswersOf
<1>2. ASSUME answered' = <<>> PROVE PackageMissesOnlyLost'
  BY <1>2 DEF PackageMissesOnlyLost, AnswersOf, ToSet
<1>3. ASSUME NEW p \in Prospects, NEW o \in Opportunities, loi_draft(p, o) PROVE LettersInv'
  <2>1. drafts' \in Seq([person : Prospects, opportunity : Opportunities]) /\ DOMAIN drafts' = DOMAIN drafts \cup {Len(drafts')}
    BY <1>3 DEF LettersInv, loi_draft
  <2> QED  BY <1>2, <1>3, <2>1 DEF LettersInv, loi_draft, KeptById
<1>4. ASSUME NEW m, NEW n, {m, n} \subseteq DOMAIN drafts, loi_package(<<m, n>>) PROVE LettersInv'
  <2> DEFINE a == [kind |-> "package", asked |-> <<m, n>>, found |-> ToSet(<<m, n>>) \cap lois]
  <2>1. ToSet(answered') = {a} /\ ToSet(<<m, n>>) = {m, n} /\ DOMAIN <<m, n>> = {1, 2}
    <3>1. answered' = <<a>>
      BY <1>4 DEF loi_package
    <3>2. DOMAIN <<a>> = {1} /\ <<a>>[1] = a
      OBVIOUS
    <3>3. DOMAIN <<m, n>> = {1, 2} /\ <<m, n>>[1] = m /\ <<m, n>>[2] = n
      OBVIOUS
    <3> HIDE DEF a
    <3> QED  BY <3>1, <3>2, <3>3 DEF ToSet
  <2>2. a.asked[1] = m /\ a.asked[2] = n /\ a.asked = <<m, n>> /\ a.found = {m, n} \cap lois
    BY <2>1
  <2>3. UNCHANGED <<drafts, lois, lostIds>>
    BY <1>4 DEF loi_package
  <2> HIDE DEF a
  <2>4. PackageMissesOnlyLost'
    BY <1>4, <2>1, <2>2, <2>3 DEF LettersInv, PackageMissesOnlyLost, AnswersOf
  <2> QED  BY <2>3, <2>4 DEF LettersInv
<1>5. CASE CaptureRestart
  BY <1>2, <1>5 DEF LettersInv, CaptureRestart
<1>6. ASSUME UNCHANGED <<drafts, lois, lostIds>>, NEW a, answered' = <<a>>, a.kind # "package" PROVE LettersInv'
  <2>1. ToSet(answered') = {a}
    BY <1>6 DEF ToSet
  <2>2. PackageMissesOnlyLost'
    BY <1>6, <2>1 DEF PackageMissesOnlyLost, AnswersOf
  <2> QED  BY <1>6, <2>2 DEF LettersInv
<1>7. ASSUME NEW list \in Requirements, feasibility(list) PROVE LettersInv'
  BY <1>6, <1>7 DEF feasibility
<1>8. ASSUME NEW facets \in Facets, heatmap(facets) PROVE LettersInv'
  BY <1>6, <1>8 DEF heatmap
<1> QED  BY <1>1, <1>3, <1>4, <1>5, <1>7, <1>8 DEF CaptureNext

-----------------------------------------------------------------------------
(* Migrations.                                                             *)

LEMMA PgFilesAre ==
    /\ Len(PgFiles) = 4 /\ DOMAIN PgFiles = 1..4 /\ Len(ChFiles) = 4
    /\ PgFiles[1] = extensions /\ PgFiles[2] = govcon_core
    /\ PgFiles[3] = govcon_workforce /\ PgFiles[4] = govcon_lifecycle
<1>1. PgFiles = <<extensions, govcon_core, govcon_workforce, govcon_lifecycle>>
  BY DEF PgFiles, _ordered_sql_files
<1>2. ChFiles = <<database_sql, interaction_events_sql, audit_log_sql, govcon_audit_log_sql>>
  BY DEF ChFiles, _ordered_sql_files
<1> QED  BY <1>1, <1>2

LEMMA PgLengths ==
    /\ Len(extensions) = 3 /\ DOMAIN extensions = 1..3
    /\ Len(govcon_core) = 7 /\ DOMAIN govcon_core = 1..7
    /\ Len(govcon_workforce) = 6 /\ DOMAIN govcon_workforce = 1..6
    /\ Len(govcon_lifecycle) = 4 /\ DOMAIN govcon_lifecycle = 1..4
  BY DEF extensions, govcon_core, govcon_workforce, govcon_lifecycle

\* The objects of the first m files.
Upto(m) == UNION {ToSet(PgFiles[i]) : i \in 1..m}
FileStart(r, no) == {PgFiles[r][j] : j \in 1..no - 1}

LEMMA RequiresAre ==
    /\ \A o \in {"vector", "pg_trgm", "uuid-ossp", "agencies", "vendors", "employees", "alert_rules"} : Requires(o) = {}
    /\ \A o \in {"agencies_name_trgm", "vendors_name_trgm", "contracts_title_trgm"} : Requires(o) = {"pg_trgm"}
    /\ Requires("contracts") = {"agencies", "vendors", "vector"}
    /\ \A o \in {"contracts_embedding_ivf", "lcats", "recompete_events"} : Requires(o) = {"contracts"}
    /\ Requires("lcat_requirements") = {"lcats"} /\ Requires("gap_analyses") = {"contracts", "lcats"}
    /\ Requires("assignments") = {"employees", "contracts", "lcats"}
    /\ \A o \in {"clearances", "certifications"} : Requires(o) = {"employees"}
    /\ Requires("alert_history") = {"alert_rules"}
  BY DEF Requires

\* No statement needs what an earlier one does not create.
LEMMA FilesInOrder ==
    ASSUME NEW r \in 1..4, NEW no \in 1..Len(PgFiles[r])
    PROVE  Requires(PgFiles[r][no]) \subseteq Upto(r - 1) \cup FileStart(r, no)
<1>1. \A m \in 1..4 : \A i \in 1..m : \A j \in DOMAIN PgFiles[i] : PgFiles[i][j] \in Upto(m)
  BY DEF Upto, ToSet
<1>2. \A i \in 1..no - 1 : PgFiles[r][i] \in FileStart(r, no)
  BY DEF FileStart
<1>3. CASE r = 1
  <2>1. PgFiles[r][no] \in {"vector", "pg_trgm", "uuid-ossp"}
    BY <1>3, PgFilesAre, PgLengths DEF extensions
  <2> QED  BY <2>1, RequiresAre
<1>4. CASE r = 2
  <2>1. Upto(1) = Upto(r - 1) /\ "vector" \in Upto(1) /\ "pg_trgm" \in Upto(1)
    <3>1. PgFiles[1][1] = "vector" /\ PgFiles[1][2] = "pg_trgm"
      BY PgFilesAre DEF extensions
    <3>2. 1 \in DOMAIN PgFiles[1] /\ 2 \in DOMAIN PgFiles[1]
      BY PgFilesAre, PgLengths
    <3> QED  BY <1>1, <1>4, <3>1, <3>2
  <2>2. no \in 1..7
    BY <1>4, PgFilesAre, PgLengths
  <2>3. PgFiles[r] = <<"agencies", "agencies_name_trgm", "vendors", "vendors_name_trgm", "contracts",
                 "contracts_title_trgm", "contracts_embedding_ivf">>
    BY <1>4, PgFilesAre DEF govcon_core
  <2>4. CASE no \in {1, 3}
    BY <2>3, <2>4, RequiresAre
  <2>5. CASE no \in {2, 4, 6}
    BY <2>1, <2>3, <2>5, RequiresAre
  <2>6. CASE no = 5
    <3>1. "agencies" \in FileStart(r, no) /\ "vendors" \in FileStart(r, no)
      <4>1. PgFiles[r][1] = "agencies" /\ PgFiles[r][3] = "vendors"
        BY <2>3
      <4> QED  BY <1>2, <2>6, <4>1
    <3> QED  BY <2>1, <2>3, <2>6, <3>1, RequiresAre
  <2>7. CASE no = 7
    <3>1. "contracts" \in FileStart(r, no)
      <4>1. PgFiles[r][5] = "contracts"
        BY <2>3
      <4> QED  BY <1>2, <2>7, <4>1
    <3> QED  BY <2>3, <2>7, <3>1, RequiresAre
  <2> QED  BY <2>2, <2>4, <2>5, <2>6, <2>7
<1>5. \A m \in 2..4 : "contracts" \in Upto(m)
  <2>1. PgFiles[2][5] = "contracts" /\ 5 \in DOMAIN PgFiles[2]
    BY PgFilesAre, PgLengths DEF govcon_core
  <2> QED  BY <1>1, <2>1
<1>6. CASE r = 3
  <2>1. no \in 1..6 /\ "contracts" \in Upto(r - 1)
    BY <1>5, <1>6, PgFilesAre, PgLengths
  <2>2. PgFiles[r] = <<"employees", "lcats", "lcat_requirements", "assignments", "clearances",
                      "certifications">>
    BY <1>6, PgFilesAre DEF govcon_workforce
  <2>3. /\ no \in 3..6 => "employees" \in FileStart(r, no) /\ "lcats" \in FileStart(r, no)
    <3>1. PgFiles[r][1] = "employees" /\ PgFiles[r][2] = "lcats"
      BY <2>2
    <3> QED  BY <1>2, <3>1
  <2>4. CASE no = 1
    BY <2>2, <2>4, RequiresAre
  <2>5. CASE no = 2
    BY <2>1, <2>2, <2>5, RequiresAre
  <2>6. CASE no = 3
    BY <2>1, <2>2, <2>3, <2>6, RequiresAre
  <2>7. CASE no = 4
    BY <2>1, <2>2, <2>3, <2>7, RequiresAre
  <2>8. CASE no \in {5, 6}
    BY <2>2, <2>3, <2>8, RequiresAre
  <2> QED  BY <2>1, <2>4, <2>5, <2>6, <2>7, <2>8
<1>7. CASE r = 4
  <2>1. no \in 1..4 /\ "contracts" \in Upto(r - 1) /\ "lcats" \in Upto(r - 1)
    <3>1. PgFiles[3][2] = "lcats" /\ 2 \in DOMAIN PgFiles[3]
      BY PgFilesAre, PgLengths DEF govcon_workforce
    <3> QED  BY <1>1, <1>5, <1>7, <3>1, PgFilesAre, PgLengths
  <2>2. PgFiles[r] = <<"recompete_events", "gap_analyses", "alert_rules", "alert_history">>
    BY <1>7, PgFilesAre DEF govcon_lifecycle
  <2>3. no = 4 => "alert_rules" \in FileStart(r, no)
    <3>1. PgFiles[r][3] = "alert_rules"
      BY <2>2
    <3> QED  BY <1>2, <3>1
  <2>4. CASE no = 1
    BY <2>1, <2>2, <2>4, RequiresAre
  <2>5. CASE no = 2
    BY <2>1, <2>2, <2>5, RequiresAre
  <2>6. CASE no = 3
    BY <2>2, <2>6, RequiresAre
  <2>7. CASE no = 4
    BY <2>2, <2>3, <2>7, RequiresAre
  <2> QED  BY <2>1, <2>4, <2>5, <2>6, <2>7
<1> QED  BY <1>3, <1>4, <1>6, <1>7

LEMMA PgFileLength ==
    \A i \in 1..4 : Len(PgFiles[i]) \in Nat \ {0} /\ DOMAIN PgFiles[i] = 1..Len(PgFiles[i])
  BY PgFilesAre, PgLengths

LEMMA PositionFields ==
    ASSUME NEW p, NEW i, NEW j
    PROVE  LET place == Position(p, i, j)
           IN  /\ place.phase = p /\ place.file = i /\ place.no = j
               /\ [place EXCEPT !.no = @ + 1] = Position(p, i, j + 1)
  BY DEF Position

LEMMA Phases == Idle.phase = "none" /\ \A p, i, j : Position(p, i, j).phase = p
  BY DEF Position, Idle

\* PostgreSQL has the first m files, and in the open transaction the statements
\* of a file in front of the runner; ClickHouse comes behind the last file.
PgAt(m) ==
    /\ pg = Upto(m) /\ (ch # {} => m = 4)
    /\ \A place \in refused : place.phase = "ch"
    /\ \/ runner = Idle /\ tx = {}
       \/ \E i \in 1..4 : \E j \in 1..Len(PgFiles[i]) :
             runner = Position("pg", i, j) /\ i <= m + 1 /\ tx = FileStart(i, j)
       \/ \E i \in 1..4, j \in Nat \ {0} : runner = Position("ch", i, j) /\ m = 4 /\ tx = {}
PgInv == \E m \in 0..4 : PgAt(m)

LEMMA UptoGrows ==
    /\ Upto(0) = {}
    /\ \A m \in 0..3 : Upto(m + 1) = Upto(m) \cup ToSet(PgFiles[m + 1])
    /\ \A m \in 0..4 : \A i \in 1..m : ToSet(PgFiles[i]) \subseteq Upto(m)
    /\ \A m \in 0..4 : \A i \in 0..m : Upto(i) \subseteq Upto(m)
<1>1. Upto(0) = {} /\ \A m \in 0..4 : \A i \in 1..m : ToSet(PgFiles[i]) \subseteq Upto(m)
  BY DEF Upto
<1>2. \A m \in 0..4 : \A i \in 0..m : Upto(i) \subseteq Upto(m)
  BY DEF Upto
<1>3. ASSUME NEW m \in 0..3 PROVE Upto(m + 1) = Upto(m) \cup ToSet(PgFiles[m + 1])
  <2>1. \A i \in 1..m + 1 : i \in 1..m \/ i = m + 1
    OBVIOUS
  <2>2. m + 1 \in 1..m + 1 /\ \A i \in 1..m : i \in 1..m + 1
    OBVIOUS
  <2> QED  BY <2>1, <2>2, Zenon DEF Upto
<1> QED  BY <1>1, <1>2, <1>3

LEMMA FileGrows ==
    ASSUME NEW i \in 1..4, NEW j \in 1..Len(PgFiles[i])
    PROVE  /\ FileStart(i, 1) = {} /\ FileStart(i, j + 1) = FileStart(i, j) \cup {PgFiles[i][j]}
           /\ j = Len(PgFiles[i]) => FileStart(i, j) \cup {PgFiles[i][j]} = ToSet(PgFiles[i])
<1>1. Len(PgFiles[i]) \in Nat /\ DOMAIN PgFiles[i] = 1..Len(PgFiles[i])
  BY PgFileLength
<1>2. \A k : k \in 1..(j + 1) - 1 <=> k \in 1..j - 1 \/ k = j
  BY <1>1
<1>3. FileStart(i, 1) = {}
  BY DEF FileStart
<1>4. FileStart(i, j + 1) = FileStart(i, j) \cup {PgFiles[i][j]}
  BY <1>2, Zenon DEF FileStart
<1>5. j = Len(PgFiles[i]) => FileStart(i, j + 1) = ToSet(PgFiles[i])
  <2>1. (j + 1) - 1 = j
    BY <1>1
  <2> QED  BY <1>1, <2>1, Zenon DEF FileStart, ToSet
<1> QED  BY <1>3, <1>4, <1>5

LEMMA PgInvInit == MigrationsInit => PgInv
<1> SUFFICES ASSUME MigrationsInit PROVE PgAt(0)
  BY DEF PgInv
<1> QED  BY UptoGrows DEF MigrationsInit, PgAt

\* A statement never fails: what it needs is there, in its file or before it.
PgStep(m, i, j) ==
    /\ PgAt(m) /\ i <= m + 1 /\ tx = FileStart(i, j)
    /\ IF j = Len(PgFiles[i])
       THEN pg' = pg \cup tx \cup {PgFiles[i][j]} /\ tx' = {}
       ELSE tx' = tx \cup {PgFiles[i][j]} /\ pg' = pg
    /\ runner' = IF j # Len(PgFiles[i]) THEN Position("pg", i, j + 1)
                 ELSE IF i < 4 THEN Position("pg", i + 1, 1) ELSE Position("ch", 1, 1)

LEMMA PgStatement ==
    ASSUME PgInv, _apply_postgres
    PROVE  /\ UNCHANGED <<ch, refused>>
           /\ \E m \in 0..4 : \E i \in 1..4 : \E j \in 1..Len(PgFiles[i]) : PgStep(m, i, j)
<1>1. PICK m \in 0..4 : PgAt(m)
  BY DEF PgInv
<1>2. PICK i \in 1..4 : \E j \in 1..Len(PgFiles[i]) :
          runner = Position("pg", i, j) /\ i <= m + 1 /\ tx = FileStart(i, j)
  <2>1. runner # Idle /\ \A i, j : runner # Position("ch", i, j)
    BY Phases DEF _apply_postgres
  <2> QED  BY <1>1, <2>1, Zenon DEF PgAt
<1>3. PICK j \in 1..Len(PgFiles[i]) : runner = Position("pg", i, j) /\ i <= m + 1 /\ tx = FileStart(i, j)
  BY <1>2
<1>4. /\ runner.phase = "pg" /\ runner.file = i /\ runner.no = j
      /\ [runner EXCEPT !.no = @ + 1] = Position("pg", i, j + 1)
  BY <1>3, PositionFields
<1>5. Create(PgFiles[i][j], pg \cup tx)
  <2>1. Upto(i - 1) \subseteq pg
    BY <1>1, <1>3, UptoGrows DEF PgAt
  <2> QED  BY <1>3, <2>1, FilesInOrder DEF Create
<1>6. /\ IF j = Len(PgFiles[i])
         THEN pg' = pg \cup tx \cup {PgFiles[i][j]} /\ tx' = {}
         ELSE tx' = tx \cup {PgFiles[i][j]} /\ pg' = pg
      /\ runner' = IF j = Len(PgFiles[i]) THEN NextFile("pg", i) ELSE Position("pg", i, j + 1)
      /\ ch' = ch /\ refused' = refused
  BY <1>4, <1>5, Zenon DEF _apply_postgres, Commits
<1>7. NextFile("pg", i) = IF i < 4 THEN Position("pg", i + 1, 1) ELSE Position("ch", 1, 1)
  BY PgFilesAre DEF NextFile
<1>8. runner' = IF j # Len(PgFiles[i]) THEN Position("pg", i, j + 1)
                ELSE IF i < 4 THEN Position("pg", i + 1, 1) ELSE Position("ch", 1, 1)
  BY <1>6, <1>7
<1> QED  BY <1>1, <1>3, <1>6, <1>8, Zenon DEF PgStep

LEMMA PgStatementKeeps ==
    ASSUME PgInv, _apply_postgres
    PROVE  PgInv'
<1> SUFFICES ASSUME NEW m \in 0..4, NEW i \in 1..4, NEW j \in 1..Len(PgFiles[i]), PgStep(m, i, j) PROVE PgInv'
  BY PgStatement
<1>1. /\ PgAt(m) /\ i <= m + 1 /\ tx = FileStart(i, j)
      /\ IF j = Len(PgFiles[i])
         THEN pg' = pg \cup tx \cup {PgFiles[i][j]} /\ tx' = {}
         ELSE tx' = tx \cup {PgFiles[i][j]} /\ pg' = pg
      /\ runner' = IF j # Len(PgFiles[i]) THEN Position("pg", i, j + 1)
                   ELSE IF i < 4 THEN Position("pg", i + 1, 1) ELSE Position("ch", 1, 1)
  BY Zenon DEF PgStep
<1>2. ch' = ch /\ refused' = refused
  BY PgStatement
<1>3. Len(PgFiles[i]) \in Nat
  BY PgFileLength
<1>4. CASE j # Len(PgFiles[i])
  <2>1. tx' = FileStart(i, j + 1) /\ pg' = pg /\ runner' = Position("pg", i, j + 1)
    BY <1>1, <1>4, FileGrows
  <2>2. j + 1 \in 1..Len(PgFiles[i])
    BY <1>3, <1>4
  <2> QED  BY <1>1, <1>2, <2>1, <2>2 DEF PgAt, PgInv
<1>5. CASE j = Len(PgFiles[i])
  <2>1. pg' = Upto(m) \cup ToSet(PgFiles[i]) /\ tx' = {}
    <3>1. pg' = pg \cup (tx \cup {PgFiles[i][j]}) /\ tx' = {}
      BY <1>1, <1>5
    <3>2. tx \cup {PgFiles[i][j]} = ToSet(PgFiles[i])
      BY <1>1, <1>5, FileGrows
    <3> QED  BY <1>1, <3>1, <3>2 DEF PgAt
  <2>2. PICK k \in 0..4 : k >= m /\ k >= i /\ pg' = Upto(k)
    <3>1. CASE i <= m
      BY <2>1, <3>1, UptoGrows
    <3>2. CASE i = m + 1
      <4>1. Upto(m + 1) = Upto(m) \cup ToSet(PgFiles[m + 1])
        BY <3>2, UptoGrows
      <4> QED  BY <2>1, <3>2, <4>1
    <3> QED  BY <1>1, <3>1, <3>2
  <2>3. runner' = IF i < 4 THEN Position("pg", i + 1, 1) ELSE Position("ch", 1, 1)
    BY <1>1, <1>5
  <2>4. ch' # {} => k = 4
    BY <1>1, <1>2, <2>2 DEF PgAt
  <2>5. CASE i < 4
    <3>1. i + 1 \in 1..4 /\ i + 1 <= k + 1 /\ 1 \in 1..Len(PgFiles[i + 1]) /\ tx' = FileStart(i + 1, 1)
      BY <2>1, <2>2, <2>5, PgFileLength, FileGrows
    <3> QED  BY <1>1, <1>2, <2>2, <2>3, <2>4, <2>5, <3>1 DEF PgAt, PgInv
  <2>6. CASE i = 4
    <3>1. k = 4 /\ runner' = Position("ch", 1, 1)
      BY <2>2, <2>3, <2>6
    <3> QED  BY <1>1, <1>2, <2>1, <2>2, <3>1 DEF PgAt, PgInv
  <2> QED  BY <2>5, <2>6
<1> QED  BY <1>4, <1>5

LEMMA PgInvStep == PgInv /\ [MigrationsNext]_migrationVars => PgInv'
<1> SUFFICES ASSUME PgInv, [MigrationsNext]_migrationVars PROVE PgInv'
  OBVIOUS
<1>1. PICK m \in 0..4 : PgAt(m)
  BY DEF PgInv
<1>2. CASE UNCHANGED migrationVars
  BY <1>1, <1>2 DEF PgAt, PgInv, migrationVars
<1>3. CASE StartRun
  <2>1. /\ 1 \in 1..Len(PgFiles[1]) /\ FileStart(1, 1) = {} /\ 1 <= m + 1 /\ tx = {}
    <3>1. runner = Idle /\ \A i, j : runner # Position("ch", i, j) /\ runner # Position("pg", i, j)
      BY <1>3, Phases DEF StartRun
    <3>2. tx = {}
      BY <1>1, <3>1, Zenon DEF PgAt
    <3>3. 1 \in 1..Len(PgFiles[1])
      BY PgFileLength
    <3> QED  BY <3>2, <3>3, FileGrows
  <2> QED  BY <1>1, <1>3, <2>1 DEF PgAt, PgInv, StartRun
<1>4. CASE Kill
  BY <1>1, <1>4 DEF PgAt, PgInv, Kill
<1>5. CASE _apply_clickhouse
  <2>1. PICK i \in 1..4, j \in Nat \ {0} : runner = Position("ch", i, j) /\ m = 4 /\ tx = {}
    <3>1. runner # Idle /\ \A i, j : runner # Position("pg", i, j)
      BY <1>5, Phases DEF _apply_clickhouse
    <3> QED  BY <1>1, <3>1, Zenon DEF PgAt
  <2>2. /\ runner.phase = "ch" /\ runner.file = i /\ runner.no = j
        /\ [runner EXCEPT !.no = @ + 1] = Position("ch", i, j + 1)
    BY <2>1, PositionFields
  <2>3. CASE Refuse
    BY <1>1, <2>1, <2>2, <2>3 DEF PgAt, PgInv, Refuse
  <2>4. CASE ~Refuse
    <3>1. /\ UNCHANGED <<pg, tx, refused>>
          /\ runner' \in {NextFile("ch", i), Position("ch", i, j + 1)}
      BY <1>5, <2>2, <2>4, Zenon DEF _apply_clickhouse
    <3>2. NextFile("ch", i) = IF i < 4 THEN Position("ch", i + 1, 1) ELSE Idle
      BY PgFilesAre DEF NextFile
    <3> QED  BY <1>1, <2>1, <3>1, <3>2 DEF PgAt, PgInv
  <2> QED  BY <2>3, <2>4
<1> QED  BY <1>2, <1>3, <1>4, <1>5, PgStatementKeeps DEF MigrationsNext

LEMMA PgInvWhole == PgInv => FilesWhole /\ \A place \in refused : place.phase = "ch"
<1> SUFFICES ASSUME NEW m \in 0..4, PgAt(m) PROVE FilesWhole
  BY DEF PgInv, PgAt
<1> DEFINE applied == {i \in DOMAIN PgFiles : ToSet(PgFiles[i]) \subseteq pg}
<1>1. pg = Upto(m) /\ (ch # {} => m = 4) /\ DOMAIN PgFiles = 1..4
  BY PgFilesAre DEF PgAt
<1>2. 1..m \subseteq applied
  BY <1>1, UptoGrows
<1>3. pg = UNION {ToSet(PgFiles[i]) : i \in applied}
  <2>1. Upto(m) \subseteq UNION {ToSet(PgFiles[i]) : i \in applied}
    BY <1>2 DEF Upto
  <2> QED  BY <1>1, <2>1
<1> QED  BY <1>1, <1>2, <1>3 DEF FilesWhole

\* The statements of ClickHouse up to the furthest that a run reached, at (r, n),
\* have been applied, so a later run gets there as well; and if a run was
\* refused, it was there, where nothing has changed since.
Pieces(i) == _split_statements(ChFiles[i])
PieceAt(i, j) == Pieces(i)[j]
ObjectAt(i, j) == PieceAt(i, j)[CHOOSE k \in Code(PieceAt(i, j)) : TRUE]
Taken(i, j, there) == OneStatement(PieceAt(i, j)) /\ Create(ObjectAt(i, j), there)
Behind(i, j, r, n) == (i < r /\ j \in 1..Len(Pieces(i))) \/ (i = r /\ j < n)

Arrived(r, n, there, stopped, at) ==
    /\ r = 5 => n = 1
    /\ \A i \in 1..r - 1 : Len(Pieces(i)) \in Nat \ {0}
    /\ \A j \in 1..n - 1 : j # Len(Pieces(r))
    /\ \A i \in 1..4, j \in Nat \ {0} :
          Behind(i, j, r, n) => Taken(i, j, there) /\ ObjectAt(i, j) \in there
    /\ stopped = {} \/ (r # 5 /\ stopped = {Position("ch", r, n)} /\ ~Taken(r, n, there))
    /\ \/ at.phase \in {"none", "pg"}
       \/ \E i \in 1..4, j \in Nat \ {0} :
             at = Position("ch", i, j) /\ (Behind(i, j, r, n) \/ (i = r /\ j = n))
ChAt(r, n) == Arrived(r, n, ch, refused, runner)
ChInv == \E r \in 1..5, n \in Nat \ {0} : ChAt(r, n)

LEMMA ChInvInit == MigrationsInit => ChInv
<1> SUFFICES ASSUME MigrationsInit PROVE ChAt(1, 1)
  BY DEF ChInv
<1>1. refused = {} /\ runner.phase = "none"
  BY Phases DEF MigrationsInit
<1>2. \A i \in 1..4, j \in Nat \ {0} : ~Behind(i, j, 1, 1)
  BY DEF Behind
<1> QED  BY <1>1, <1>2 DEF ChAt, Arrived

\* The place behind (i, j), which exists at least as far as the furthest one.
LEMMA NextBehind ==
    ASSUME NEW r \in 1..5, NEW n \in Nat \ {0}, \A i \in 1..r - 1 : Len(Pieces(i)) \in Nat \ {0},
           \A j \in 1..n - 1 : j # Len(Pieces(r)),
           NEW i \in 1..4, NEW j \in Nat \ {0}, Behind(i, j, r, n)
    PROVE  IF j = Len(Pieces(i))
           THEN Behind(i + 1, 1, r, n) \/ (i + 1 = r /\ 1 = n)
           ELSE Behind(i, j + 1, r, n) \/ (i = r /\ j + 1 = n)
<1>1. CASE i < r
  <2>1. Len(Pieces(i)) \in Nat \ {0} /\ j \in 1..Len(Pieces(i))
    BY <1>1 DEF Behind
  <2>2. i + 1 < r => Len(Pieces(i + 1)) \in Nat \ {0}
    BY <1>1
  <2> QED  BY <1>1, <2>1, <2>2 DEF Behind
<1>2. CASE i = r
  BY <1>2 DEF Behind
<1> QED  BY <1>1, <1>2 DEF Behind

LEMMA ChStatementKeeps ==
    ASSUME ChInv, _apply_clickhouse
    PROVE  ChInv'
<1>1. PICK r \in 1..5, n \in Nat \ {0} : ChAt(r, n)
  BY DEF ChInv
<1>2. PICK i \in 1..4, j \in Nat \ {0} :
          runner = Position("ch", i, j) /\ (Behind(i, j, r, n) \/ (i = r /\ j = n))
  <2>1. ~(runner.phase \in {"none", "pg"})
    BY DEF _apply_clickhouse
  <2> QED  BY <1>1, <2>1, Zenon DEF ChAt, Arrived
<1>3. /\ runner.phase = "ch" /\ runner.file = i /\ runner.no = j
      /\ [runner EXCEPT !.no = @ + 1] = Position("ch", i, j + 1)
  BY <1>2, PositionFields
<1> DEFINE after == IF j = Len(Pieces(i)) THEN NextFile("ch", i) ELSE Position("ch", i, j + 1)
<1>4. IF ~Taken(i, j, ch) THEN Refuse
      ELSE ch' = ch \cup {ObjectAt(i, j)} /\ runner' = after /\ refused' = refused
  BY <1>3, Zenon DEF _apply_clickhouse, Taken, ObjectAt, PieceAt, Pieces
<1>5. after = IF j = Len(Pieces(i)) THEN IF i < 4 THEN Position("ch", i + 1, 1) ELSE Idle
              ELSE Position("ch", i, j + 1)
  BY PgFilesAre DEF NextFile
<1> HIDE DEF after
<1>6. Idle.phase = "none"
  BY Phases
<1>7. CASE ~Taken(i, j, ch)
  <2>1. i = r /\ j = n
    BY <1>1, <1>2, <1>7 DEF ChAt, Arrived
  <2>2. ch' = ch /\ runner' = Idle /\ refused' = refused \cup {Position("ch", r, n)}
    BY <1>2, <1>4, <1>7, <2>1 DEF Refuse
  <2>3. refused' = {Position("ch", r, n)} /\ r # 5 /\ ~Taken(r, n, ch')
    BY <1>1, <1>7, <2>1, <2>2 DEF ChAt, Arrived
  <2> QED  BY <1>1, <1>6, <2>2, <2>3 DEF ChAt, Arrived, ChInv
<1>8. CASE Taken(i, j, ch) /\ Behind(i, j, r, n)
  <2>1. ch' = ch /\ runner' = after /\ refused' = refused
    BY <1>1, <1>4, <1>8 DEF ChAt, Arrived
  <2>2. IF j = Len(Pieces(i))
        THEN Behind(i + 1, 1, r, n) \/ (i + 1 = r /\ 1 = n)
        ELSE Behind(i, j + 1, r, n) \/ (i = r /\ j + 1 = n)
    BY <1>1, <1>8, NextBehind DEF ChAt, Arrived
  <2>3. \/ runner'.phase \in {"none", "pg"}
        \/ \E a \in 1..4, b \in Nat \ {0} :
              runner' = Position("ch", a, b) /\ (Behind(a, b, r, n) \/ (a = r /\ b = n))
    <3>1. CASE j = Len(Pieces(i)) /\ i < 4
      <4>1. runner' = Position("ch", i + 1, 1) /\ i + 1 \in 1..4
        BY <1>5, <2>1, <3>1
      <4> QED  BY <2>2, <3>1, <4>1
    <3>2. CASE j = Len(Pieces(i)) /\ ~(i < 4)
      BY <1>5, <1>6, <2>1, <3>2
    <3>3. CASE j # Len(Pieces(i))
      <4>1. runner' = Position("ch", i, j + 1) /\ j + 1 \in Nat \ {0}
        BY <1>5, <2>1, <3>3
      <4> QED  BY <2>2, <3>3, <4>1
    <3> QED  BY <3>1, <3>2, <3>3
  <2>4. Arrived(r, n, ch', refused', runner')
    BY <1>1, <2>1, <2>3 DEF ChAt, Arrived
  <2> QED  BY <2>4 DEF ChAt, ChInv
<1>9. CASE Taken(i, j, ch) /\ i = r /\ j = n
  <2>1. ch' = ch \cup {ObjectAt(r, n)} /\ runner' = after /\ refused' = {} /\ refused = {}
    BY <1>1, <1>4, <1>9 DEF ChAt, Arrived
  <2>2. \A a, b : Taken(a, b, ch) => Taken(a, b, ch')
    BY <2>1 DEF Taken, Create
  <2>3. \A a \in 1..4, b \in Nat \ {0} :
          Behind(a, b, r, n) \/ (a = r /\ b = n) => Taken(a, b, ch') /\ ObjectAt(a, b) \in ch'
    BY <1>1, <1>9, <2>1, <2>2 DEF ChAt, Arrived
  <2>4. \A a \in 1..r - 1 : Len(Pieces(a)) \in Nat \ {0}
    BY <1>1 DEF ChAt, Arrived
  <2>5. \A b \in 1..n - 1 : b # Len(Pieces(r))
    BY <1>1 DEF ChAt, Arrived
  <2>6. CASE n = Len(Pieces(r))
    <3>1. r + 1 \in 2..5 /\ \A a \in 1..(r + 1) - 1 : Len(Pieces(a)) \in Nat \ {0}
      BY <1>9, <2>4, <2>6
    <3>2. \A a \in 1..4, b \in Nat \ {0} : Behind(a, b, r + 1, 1) => Behind(a, b, r, n) \/ (a = r /\ b = n)
      BY <2>6 DEF Behind
    <3>3. \/ runner'.phase \in {"none", "pg"}
          \/ \E a \in 1..4, b \in Nat \ {0} :
                runner' = Position("ch", a, b) /\ (Behind(a, b, r + 1, 1) \/ (a = r + 1 /\ b = 1))
      BY <1>5, <1>6, <1>9, <2>1, <2>6
    <3>4. Arrived(r + 1, 1, ch', refused', runner')
      <4>1. \A b \in 1..1 - 1 : b # Len(Pieces(r + 1))
        OBVIOUS
      <4> QED  BY <2>1, <2>3, <3>1, <3>2, <3>3, <4>1 DEF Arrived
    <3> QED  BY <3>1, <3>4 DEF ChAt, ChInv
  <2>7. CASE n # Len(Pieces(r))
    <3>1. \A b \in 1..(n + 1) - 1 : b # Len(Pieces(r))
      BY <2>5, <2>7
    <3>2. \A a \in 1..4, b \in Nat \ {0} : Behind(a, b, r, n + 1) => Behind(a, b, r, n) \/ (a = r /\ b = n)
      BY DEF Behind
    <3>3. runner' = Position("ch", r, n + 1) /\ r \in 1..4 /\ n + 1 \in Nat \ {0}
      BY <1>5, <1>9, <2>1, <2>7
    <3>4. Arrived(r, n + 1, ch', refused', runner')
      <4>1. r # 5
        BY <3>3
      <4>2. \A a \in 1..4, b \in Nat \ {0} :
              Behind(a, b, r, n + 1) => Taken(a, b, ch') /\ ObjectAt(a, b) \in ch'
        BY <2>3, <3>2
      <4> QED  BY <2>1, <2>4, <3>1, <3>3, <4>1, <4>2 DEF Arrived
    <3> QED  BY <3>3, <3>4 DEF ChAt, ChInv
  <2> QED  BY <2>6, <2>7
<1> QED  BY <1>2, <1>7, <1>8, <1>9

LEMMA ChInvStep == PgInv /\ ChInv /\ [MigrationsNext]_migrationVars => ChInv'
<1> SUFFICES ASSUME PgInv, ChInv, [MigrationsNext]_migrationVars PROVE ChInv'
  OBVIOUS
<1>1. PICK r \in 1..5, n \in Nat \ {0} : ChAt(r, n)
  BY DEF ChInv
<1>2. ASSUME UNCHANGED <<ch, refused>>, runner'.phase \in {"none", "pg"} \/ runner' = Position("ch", 1, 1) PROVE ChInv'
  <2>1. Behind(1, 1, r, n) \/ (1 = r /\ 1 = n)
    <3>1. 1 < r => Len(Pieces(1)) \in Nat \ {0}
      BY <1>1 DEF ChAt, Arrived
    <3> QED  BY <3>1 DEF Behind
  <2>2. 1 \in 1..4 /\ 1 \in Nat \ {0}
    OBVIOUS
  <2>3. Arrived(r, n, ch', refused', runner')
    BY <1>1, <1>2, <2>1, <2>2 DEF ChAt, Arrived
  <2> QED  BY <2>3 DEF ChAt, ChInv
<1>3. CASE UNCHANGED migrationVars
  BY <1>1, <1>3 DEF ChAt, Arrived, ChInv, migrationVars
<1>4. CASE StartRun \/ Kill
  BY <1>2, <1>4, Phases DEF StartRun, Kill
<1>5. CASE _apply_postgres
  <2>1. UNCHANGED <<ch, refused>>
    BY <1>5, PgStatement
  <2>2. runner'.phase = "pg" \/ runner' = Position("ch", 1, 1)
    BY <1>5, PgStatement, Phases DEF PgStep
  <2> QED  BY <1>2, <2>1, <2>2
<1> QED  BY <1>3, <1>4, <1>5, ChStatementKeeps DEF MigrationsNext

LEMMA ChInvOnePlace == ChInv => Cardinality(refused) <= 1
<1> SUFFICES ASSUME NEW r \in 1..5, NEW n \in Nat \ {0}, ChAt(r, n) PROVE Cardinality(refused) <= 1
  BY DEF ChInv
<1>1. CASE refused = {}
  BY <1>1, FS_EmptySet
<1>2. CASE refused # {}
  <2>1. refused = {Position("ch", r, n)}
    BY <1>2 DEF ChAt, Arrived
  <2>2. Cardinality({Position("ch", r, n)}) = 1
    BY FS_Singleton
  <2> QED  BY <2>1, <2>2
<1> QED  BY <1>1, <1>2

\* Over any number of stops and restarts: whenever the model service is up, the
\* newest model a client was told of is served (a save that is cut off keeps it
\* down); PostgreSQL's migration files are whole, all are repeatable; and a package
\* misses only the letters that a restart lost.
THEOREM StopsLoseNothingElse == PlatformSpec => []RestartsRecover
<1>1. ModelsInv /\ PgInv /\ ChInv /\ LettersInv => RestartsRecover
  BY ModelsInvServes, PgInvWhole, ChInvOnePlace DEF RestartsRecover, Repeatable, LettersInv
<1>2. PlatformSpec => []ModelsInv
  BY StartOfServices, StepOfServices, ModelsInvInit, ModelsInvStep, PTL DEF PlatformSpec
<1>3. PlatformSpec => []LettersInv
  BY StartOfServices, StepOfServices, LettersInvInit, LettersInvStep, PTL DEF PlatformSpec
<1>4. PlatformSpec => [](PgInv /\ ChInv)
  BY StartOfServices, StepOfServices, PgInvInit, PgInvStep, ChInvInit, ChInvStep, PTL DEF PlatformSpec
<1> QED  BY <1>1, <1>2, <1>3, <1>4, PTL

LEMMA BundleAlwaysAgrees == BundleAgrees
  BY DEF BundleAgrees, ownership_status, has_active_exclusivity, has_valid_rtr, is_dnc, Later

LEMMA DivAtMost ==
    ASSUME NEW a \in Nat, NEW b \in Nat \ {0}, NEW k \in Nat, a < (k + 1) * b
    PROVE  (a \div b) \in 0..k
  OBVIOUS

LEMMA DivAtLeast ==
    ASSUME NEW a \in Nat, NEW b \in Nat \ {0}, NEW k \in Nat, a >= k * b
    PROVE  (a \div b) >= k
  OBVIOUS

LEMMA MaxWithOne ==
    ASSUME NEW h \in Nat
    PROVE  Max({h, 1}) = IF h >= 1 THEN h ELSE 1
<1> DEFINE m == IF h >= 1 THEN h ELSE 1
<1>1. m \in {h, 1} /\ \A y \in {h, 1} : m >= y
  OBVIOUS
<1>2. \A x \in {h, 1} : (\A y \in {h, 1} : x >= y) => x = m
  OBVIOUS
<1> HIDE DEF m
<1>3. Max({h, 1}) \in {h, 1} /\ \A y \in {h, 1} : Max({h, 1}) >= y
  BY <1>1 DEF Max
<1> QED  BY <1>2, <1>3 DEF m

LEMMA RiskOfCategory ==
    ASSUME NEW r, r.headcount \in Nat, r.available \in Nat
    PROVE  /\ Risk(r) \in 0..100 /\ (r.available = 0 => Risk(r) = 100)
           /\ 4 * r.available > r.headcount => Risk(r) <= 74
<1> DEFINE h == r.headcount
           v == r.available
<1>0. h \in Nat /\ v \in Nat
  OBVIOUS
<1>1. PICK b : b = Max({h, 1}) /\ b = IF h >= 1 THEN h ELSE 1
  BY MaxWithOne
<1> HIDE DEF h, v
<1>2. Risk(r) = CASE v = 0 -> 100
                  [] v # 0 /\ v < b -> Percent(h - v, h)
                  [] v >= b /\ v < 2 * b -> 30
                  [] OTHER -> 10
  BY <1>1 DEF Risk, h, v
<1>3. CASE v = 0
  <2>1. Risk(r) = 100
    BY <1>0, <1>1, <1>2, <1>3
  <2> QED  BY <1>0, <1>3, <2>1 DEF h, v
<1>4. CASE v # 0 /\ v < b
  <2> DEFINE q == (100 * (h - v)) \div h
  <2>1. h \in Nat \ {0} /\ v < h /\ Risk(r) = Percent(h - v, h)
    BY <1>0, <1>1, <1>2, <1>4
  <2>2. 100 * (h - v) \in Nat /\ 100 * (h - v) < (100 + 1) * h
    BY <1>0, <2>1
  <2>3. q \in 0..100
    BY <2>1, <2>2, DivAtMost
  <2>4. 4 * v > h => 100 * (h - v) < (74 + 1) * h
    BY <1>0, <2>1
  <2>5. 4 * v > h => q \in 0..74
    BY <2>1, <2>2, <2>4, DivAtMost
  <2> HIDE DEF q
  <2>6. Risk(r) = q \/ (q \in Truncated /\ Risk(r) = q - 1)
    BY <2>1 DEF Percent, q
  <2>7. \A t \in Truncated : t >= 1
    BY DEF Truncated
  <2>8. Risk(r) \in 0..q
    BY <2>3, <2>6, <2>7
  <2> QED  BY <1>4, <2>3, <2>5, <2>8 DEF h, v
<1>5. CASE v # 0 /\ ~(v < b)
  <2>1. Risk(r) \in {30, 10}
    BY <1>0, <1>1, <1>2, <1>5
  <2> QED  BY <1>5, <2>1 DEF h, v
<1> QED  BY <1>3, <1>4, <1>5

LEMMA RiskOfAll ==
    ASSUME NEW list, IsFiniteSet(DOMAIN list), NEW k \in Nat,
           \A i \in DOMAIN list : list[i].headcount \in Nat /\ list[i].available \in Nat
    PROVE  /\ (\A i \in DOMAIN list : Risk(list[i]) <= k) => OverallRisk(list) \in 0..k
           /\ Weights(list) > 0 /\ (\A i \in DOMAIN list : Risk(list[i]) >= k) => OverallRisk(list) >= k
<1> DEFINE S == DOMAIN list
           c == Somehow(S)
           p == [i \in S |-> Risk(list[i]) * list[i].headcount]
           w == [i \in S |-> list[i].headcount]
<1>1. \A i \in S : Risk(list[i]) \in 0..100 /\ list[i].headcount \in Nat
  BY RiskOfCategory
<1>2. \A i \in S : w[i] \in Nat /\ p[i] \in Nat
  <2> SUFFICES ASSUME NEW i \in S PROVE w[i] \in Nat /\ p[i] \in Nat
    OBVIOUS
  <2>1. \A a \in 0..100, b \in Nat : a * b \in Nat
    OBVIOUS
  <2> QED  BY <1>1, <2>1
<1>3. /\ Chooses(c, S)
      /\ \E F : IsSum(F, p, c, S) /\ FoldSeq(+, 0, p) = F[S]
      /\ \E F : IsSum(F, w, c, S) /\ FoldSeq(+, 0, w) = F[S]
  <2>1. DOMAIN p = S /\ DOMAIN w = S
    OBVIOUS
  <2>2. (\A i \in S : p[i] \in Int) /\ (\A i \in S : w[i] \in Int)
    BY <1>2
  <2> HIDE DEF p, w, c
  <2>3. Chooses(Somehow(S), S) /\ \E F : IsSum(F, p, Somehow(S), S) /\ FoldSeq(+, 0, p) = F[S]
    BY <2>1, <2>2, FoldIsASum
  <2>4. \E F : IsSum(F, w, Somehow(S), S) /\ FoldSeq(+, 0, w) = F[S]
    BY <2>1, <2>2, FoldIsASum
  <2> QED  BY <2>3, <2>4 DEF c
<1>4. PICK A : IsSum(A, p, c, S) /\ FoldSeq(+, 0, p) = A[S]
  BY <1>3
<1>5. PICK B : IsSum(B, w, c, S) /\ FoldSeq(+, 0, w) = B[S]
  BY <1>3
<1>6. Weights(list) = B[S]
  BY <1>5 DEF Weights, SumOver
<1>7. OverallRisk(list) = A[S] \div Max({B[S], 1})
  BY <1>4, <1>6 DEF OverallRisk, SumOver
<1>8. A[S] \in Nat /\ B[S] \in Nat
  <2> DEFINE m == 0
  <2>1. m \in Int /\ \A i \in S : p[i] \in Int /\ w[i] \in Nat /\ p[i] >= m * w[i]
    BY <1>2
  <2>2. \A x \in Nat : m * x = 0
    OBVIOUS
  <2> HIDE DEF p, w, c, m, S
  <2>3. A[S] \in Int /\ B[S] \in Nat /\ A[S] >= m * B[S]
    BY <1>3, <1>4, <1>5, <2>1, SumAtLeast DEF S, TermsAtLeast
  <2> QED  BY <2>2, <2>3
<1>9. Max({B[S], 1}) = IF B[S] >= 1 THEN B[S] ELSE 1
  BY <1>8, MaxWithOne
<1>10. ASSUME \A i \in S : Risk(list[i]) <= k PROVE OverallRisk(list) \in 0..k
  <2>1. \A i \in S : p[i] \in Int /\ w[i] \in Nat /\ p[i] <= k * w[i]
    <3> SUFFICES ASSUME NEW i \in S PROVE p[i] \in Int /\ w[i] \in Nat /\ p[i] <= k * w[i]
      OBVIOUS
    <3>1. \A a \in 0..100, b \in Nat : a <= k => a * b <= k * b
      OBVIOUS
    <3>2. p[i] = Risk(list[i]) * w[i] /\ w[i] = list[i].headcount
      OBVIOUS
    <3>3. Risk(list[i]) * w[i] <= k * w[i]
      BY <1>1, <1>10, <3>1, <3>2
    <3> QED  BY <1>2, <3>2, <3>3
  <2>2. k \in Int
    OBVIOUS
  <2>3. A[S] <= k * B[S]
    <3> HIDE DEF p, w, c, S
    <3> QED  BY <1>3, <1>4, <1>5, <2>1, <2>2, SumAtMost DEF S, TermsAtMost
  <2>4. CASE B[S] = 0
    <3>1. A[S] = 0 /\ OverallRisk(list) = A[S] \div 1
      BY <1>7, <1>8, <1>9, <2>3, <2>4
    <3>2. 0 \div 1 = 0
      OBVIOUS
    <3> QED  BY <3>1, <3>2
  <2>5. CASE B[S] # 0
    <3>1. \A a, b \in Nat : a <= k * b /\ b # 0 => a < (k + 1) * b
      OBVIOUS
    <3>2. OverallRisk(list) = A[S] \div B[S] /\ B[S] \in Nat \ {0} /\ A[S] < (k + 1) * B[S]
      BY <1>7, <1>8, <1>9, <2>3, <2>5, <3>1
    <3> QED  BY <1>8, <3>2, DivAtMost
  <2> QED  BY <2>4, <2>5
<1>11. ASSUME Weights(list) > 0, \A i \in S : Risk(list[i]) >= k PROVE OverallRisk(list) >= k
  <2>1. \A i \in S : p[i] \in Int /\ w[i] \in Nat /\ p[i] >= k * w[i]
    <3> SUFFICES ASSUME NEW i \in S PROVE p[i] \in Int /\ w[i] \in Nat /\ p[i] >= k * w[i]
      OBVIOUS
    <3>1. \A a \in 0..100, b \in Nat : a >= k => a * b >= k * b
      OBVIOUS
    <3>2. p[i] = Risk(list[i]) * w[i] /\ w[i] = list[i].headcount
      OBVIOUS
    <3>3. Risk(list[i]) * w[i] >= k * w[i]
      BY <1>1, <1>11, <3>1, <3>2
    <3> QED  BY <1>2, <3>2, <3>3
  <2>2. k \in Int
    OBVIOUS
  <2>3. A[S] >= k * B[S]
    <3> HIDE DEF p, w, c, S
    <3> QED  BY <1>3, <1>4, <1>5, <2>1, <2>2, SumAtLeast DEF S, TermsAtLeast
  <2>4. OverallRisk(list) = A[S] \div B[S] /\ B[S] \in Nat \ {0}
    BY <1>6, <1>7, <1>8, <1>9, <1>11
  <2> QED  BY <1>8, <2>3, <2>4, DivAtLeast
<1> QED  BY <1>10, <1>11

LEMMA StaffingIsShort ==
    ASSUME NEW list \in Requirements
    PROVE  /\ OverallRisk(list) \in 0..100
           /\ OverallRisk(list) >= 75 => \E i \in DOMAIN list : 4 * list[i].available <= list[i].headcount
<1>1. /\ IsFiniteSet(DOMAIN list)
      /\ \A i \in DOMAIN list : list[i].headcount \in Nat /\ list[i].available \in Nat
  BY CaptureAssumption
<1>2. \A i \in DOMAIN list : Risk(list[i]) <= 100
  BY <1>1, RiskOfCategory
<1>3. OverallRisk(list) \in 0..100
  BY <1>1, <1>2, RiskOfAll
<1>4. ASSUME \A i \in DOMAIN list : ~(4 * list[i].available <= list[i].headcount) PROVE OverallRisk(list) \in 0..74
  <2>1. \A i \in DOMAIN list : Risk(list[i]) <= 74
    <3> SUFFICES ASSUME NEW i \in DOMAIN list PROVE Risk(list[i]) <= 74
      OBVIOUS
    <3>1. 4 * list[i].available > list[i].headcount
      BY <1>1, <1>4
    <3> QED  BY <1>1, <3>1, RiskOfCategory
  <2> QED  BY <1>1, <2>1, RiskOfAll
<1> QED  BY <1>3, <1>4

LEMMA InfeasibleStep == InfeasibleIsShort /\ [CaptureNext]_captureVars => InfeasibleIsShort'
<1> SUFFICES ASSUME InfeasibleIsShort, [CaptureNext]_captureVars PROVE InfeasibleIsShort'
  OBVIOUS
<1>1. ASSUME answered' = answered PROVE InfeasibleIsShort'
  BY <1>1 DEF InfeasibleIsShort, AnswersOf
<1>2. ASSUME answered' = <<>> PROVE InfeasibleIsShort'
  BY <1>2 DEF InfeasibleIsShort, AnswersOf, ToSet
<1>3. ASSUME NEW a, answered' = <<a>>, a.kind # "risk" PROVE InfeasibleIsShort'
  BY <1>3 DEF InfeasibleIsShort, AnswersOf, ToSet
<1>4. ASSUME NEW list \in Requirements, feasibility(list) PROVE InfeasibleIsShort'
  <2> DEFINE a == [kind |-> "risk", asked |-> list, found |-> analyze_staffing(list),
                   served |-> analyze_staffing(Counted(list))]
  <2>1. answered' = <<a>>
    BY <1>4 DEF feasibility
  <2>2. /\ a.asked = list /\ a.found.risk = OverallRisk(list)
        /\ a.found.status = Status(OverallRisk(list))
    BY DEF analyze_staffing
  <2> HIDE DEF a
  <2>3. ToSet(answered') = {a}
    BY <2>1 DEF ToSet
  <2>4. a.found.status = "infeasible" => OverallRisk(list) >= 75
    BY <2>2 DEF Status
  <2> QED  BY <2>2, <2>3, <2>4, StaffingIsShort DEF InfeasibleIsShort, AnswersOf
<1>5. ASSUME NEW p \in Prospects, NEW o \in Opportunities, loi_draft(p, o) PROVE InfeasibleIsShort'
  BY <1>2, <1>5 DEF loi_draft
<1>6. ASSUME NEW ids, loi_package(ids) PROVE InfeasibleIsShort'
  BY <1>3, <1>6 DEF loi_package
<1>7. CASE CaptureRestart
  BY <1>2, <1>7 DEF CaptureRestart
<1>8. ASSUME NEW facets \in Facets, heatmap(facets) PROVE InfeasibleIsShort'
  BY <1>3, <1>8 DEF heatmap
<1>9. CASE UNCHANGED captureVars
  BY <1>1, <1>9 DEF captureVars
<1> QED  BY <1>4, <1>5, <1>6, <1>7, <1>8, <1>9 DEF CaptureNext

\* Each verdict of a request was an answer of its rule while the request lasted.
Heard(v, i, live, during) ==
    IF live THEN v \in during[RulesAsked[i]] \ {"error"} ELSE v = "allowed"

ReportInv ==
    /\ policy \in [Questions -> Verdicts \cup Outages]
    /\ stood \in [Questions -> SUBSET (Verdicts \cup Outages)]
    /\ intake = [pc |-> intake.pc, verdicts |-> intake.verdicts, overall |-> intake.overall, levers |-> intake.levers, remote |-> intake.remote]
    /\ intake.pc = "none" => intake.verdicts = <<>>
    /\ intake.pc = "asking" =>
          /\ \A q \in Questions : policy[q] \in stood[q]
          /\ intake.verdicts = <<>> \/ \E v : intake.verdicts = <<v>> /\ Heard(v, 1, intake.remote, stood)
    /\ intake.pc = "reported" =>
          \E v, w : /\ intake.verdicts = <<v, w>> /\ Heard(v, 1, intake.remote, stood) /\ Heard(w, 2, intake.remote, stood)
                   /\ intake.overall = _roll_up(<<v, w>>) /\ intake.levers = _build_relaxations(<<v, w>>)

LEMMA TheQuestions ==
    /\ Len(RulesAsked) = 2 /\ Questions = {RulesAsked[1], RulesAsked[2]}
    /\ \A q \in Questions : q \in REGISTRY
  BY DEF RulesAsked, Questions, REGISTRY

LEMMA AddToOne ==
    ASSUME NEW u, NEW v
    PROVE  Len(<<u>>) = 1 /\ Append(<<u>>, v) = <<u, v>> /\ Len(<<u, v>>) = 2
<1>1. <<u>> \in Seq({u, v}) /\ Len(<<u>>) = 1 /\ <<u>>[1] = u
  OBVIOUS
<1>2. /\ Append(<<u>>, v) \in Seq({u, v}) /\ Len(Append(<<u>>, v)) = 2
      /\ Append(<<u>>, v)[1] = u /\ Append(<<u>>, v)[2] = v
  BY <1>1
<1>3. <<u, v>> \in Seq({u, v}) /\ Len(<<u, v>>) = 2 /\ <<u, v>>[1] = u /\ <<u, v>>[2] = v
  OBVIOUS
<1>4. \A i \in 1..2 : Append(<<u>>, v)[i] = <<u, v>>[i]
  BY <1>2, <1>3
<1>5. Append(<<u>>, v) = [i \in 1..2 |-> Append(<<u>>, v)[i]]
  BY <1>2
<1>6. <<u, v>> = [i \in 1..2 |-> <<u, v>>[i]]
  OBVIOUS
<1>7. [i \in 1..2 |-> Append(<<u>>, v)[i]] = [i \in 1..2 |-> <<u, v>>[i]]
  BY <1>4
<1>8. Append(<<u>>, v) = <<u, v>>
  BY <1>5, <1>6, <1>7, Zenon
<1> QED  BY <1>1, <1>3, <1>8

LEMMA ReportInvInit == AdvisoryInit => ReportInv
  BY DEF AdvisoryInit, ReportInv, Verdicts, Outages

LEMMA ReportInvStep == ReportInv /\ [AdvisoryNext]_advisoryVars => ReportInv'
<1> SUFFICES ASSUME ReportInv, [AdvisoryNext]_advisoryVars PROVE ReportInv'
  OBVIOUS
<1>1. CASE UNCHANGED advisoryVars
  BY <1>1 DEF advisoryVars, ReportInv, Heard
<1>2. CASE Reload
  <2>1. /\ policy' \in [Questions -> Verdicts \cup Outages] /\ intake' = intake
        /\ stood' \in [Questions -> SUBSET (Verdicts \cup Outages)]
        /\ \A q \in Questions : stood[q] \subseteq stood'[q]
        /\ intake.pc = "asking" => \A q \in Questions : policy'[q] \in stood'[q]
    BY <1>2 DEF Reload, ReportInv
  <2>2. \A v : \A i \in {1, 2} : Heard(v, i, intake.remote, stood) => Heard(v, i, intake'.remote, stood')
    BY <2>1, TheQuestions DEF Heard
  <2> QED  BY <2>1, <2>2 DEF ReportInv
<1>3. CASE advisory_intake
  BY <1>3 DEF advisory_intake, ReportInv
<1>4. CASE NextIntake
  BY <1>4 DEF NextIntake, ReportInv
<1>5. CASE analyze
  <2>1. intake.pc = "asking" /\ UNCHANGED <<policy, stood>> /\ \A q \in Questions : policy[q] \in stood[q]
    BY <1>5 DEF analyze, ReportInv
  <2>2. ASSUME NEW i \in {1, 2}, rules_evaluate(RulesAsked[i]) # "raised" PROVE Heard(rules_evaluate(RulesAsked[i]), i, intake.remote, stood)
    <3>1. RulesAsked[i] \in Questions /\ RulesAsked[i] \in REGISTRY
      BY TheQuestions
    <3> QED  BY <2>1, <2>2, <3>1 DEF rules_evaluate, gateway, mock_evaluate, Heard
  <2>3. CASE intake' = [intake EXCEPT !.pc = "failed"]
    BY <2>1, <2>3 DEF ReportInv
  <2>4. CASE intake.verdicts = <<>> /\ intake' # [intake EXCEPT !.pc = "failed"]
    <3> DEFINE v == rules_evaluate(RulesAsked[1])
    <3>1. Len(intake.verdicts) = 0 /\ Append(intake.verdicts, v) = <<v>> /\ Len(<<v>>) < Len(RulesAsked)
      BY <2>4, TheQuestions
    <3>2. v # "raised" /\ intake' = [intake EXCEPT !.verdicts = <<v>>]
      BY <1>5, <2>4, <3>1 DEF analyze
    <3>3. Heard(v, 1, intake.remote, stood)
      BY <2>2, <3>2
    <3> HIDE DEF v
    <3>4. /\ intake'.pc = "asking" /\ intake'.verdicts = <<v>> /\ intake'.remote = intake.remote
          /\ intake' = [pc |-> intake'.pc, verdicts |-> intake'.verdicts, overall |-> intake'.overall, levers |-> intake'.levers, remote |-> intake'.remote]
      BY <2>1, <3>2 DEF ReportInv
    <3>5. Heard(v, 1, intake'.remote, stood')
      BY <2>1, <3>3, <3>4
    <3> QED  BY <2>1, <3>4, <3>5 DEF ReportInv
  <2>5. ASSUME NEW u, intake.verdicts = <<u>>, Heard(u, 1, intake.remote, stood), intake' # [intake EXCEPT !.pc = "failed"] PROVE ReportInv'
    <3> DEFINE v == rules_evaluate(RulesAsked[2])
    <3>1. Len(<<u>>) = 1 /\ Append(<<u>>, v) = <<u, v>> /\ Len(<<u, v>>) = 2
      BY AddToOne
    <3>2. v # "raised" /\ intake' = [intake EXCEPT !.verdicts = <<u, v>>, !.pc = "reported", !.overall = _roll_up(<<u, v>>),
                                                 !.levers = _build_relaxations(<<u, v>>)]
      <4>1. rules_evaluate(RulesAsked[Len(intake.verdicts) + 1]) = v
        BY <2>5, <3>1
      <4> HIDE DEF v
      <4>2. Append(intake.verdicts, v) = <<u, v>> /\ ~(2 < Len(RulesAsked))
        BY <2>5, <3>1, TheQuestions
      <4>3. intake' = IF v = "raised" THEN [intake EXCEPT !.pc = "failed"]
                      ELSE IF Len(<<u, v>>) < Len(RulesAsked) THEN [intake EXCEPT !.verdicts = <<u, v>>]
                      ELSE [intake EXCEPT !.verdicts = <<u, v>>, !.pc = "reported", !.overall = _roll_up(<<u, v>>),
                                          !.levers = _build_relaxations(<<u, v>>)]
        BY <1>5, <4>1, <4>2 DEF analyze
      <4> QED  BY <2>5, <3>1, <4>2, <4>3
    <3>3. Heard(v, 2, intake.remote, stood)
      BY <2>2, <3>2
    <3> HIDE DEF v
    <3>4. /\ intake'.pc = "reported" /\ intake'.verdicts = <<u, v>> /\ intake'.remote = intake.remote
          /\ intake'.overall = _roll_up(<<u, v>>) /\ intake'.levers = _build_relaxations(<<u, v>>)
          /\ intake' = [pc |-> intake'.pc, verdicts |-> intake'.verdicts, overall |-> intake'.overall, levers |-> intake'.levers, remote |-> intake'.remote]
      BY <2>1, <3>2 DEF ReportInv
    <3>5. Heard(u, 1, intake'.remote, stood') /\ Heard(v, 2, intake'.remote, stood')
      BY <2>1, <2>5, <3>3, <3>4
    <3> QED  BY <2>1, <3>4, <3>5 DEF ReportInv
  <2> QED  BY <2>1, <2>3, <2>4, <2>5 DEF ReportInv
<1> QED  BY <1>1, <1>2, <1>3, <1>4, <1>5 DEF AdvisoryNext

LEMMA ReportInvAgrees == ReportInv => ReportAgreesWithRules
<1> SUFFICES ASSUME ReportInv, intake.pc = "reported", intake.remote PROVE ReportAgreesWithRules
  BY DEF ReportAgreesWithRules
<1>1. PICK v, w : /\ intake.verdicts = <<v, w>> /\ Heard(v, 1, intake.remote, stood) /\ Heard(w, 2, intake.remote, stood)
                  /\ intake.overall = _roll_up(<<v, w>>) /\ intake.levers = _build_relaxations(<<v, w>>)
  BY DEF ReportInv
<1>2. ToSet(<<v, w>>) = {v, w} /\ <<v, w>>[1] = v /\ <<v, w>>[2] = w
  BY DEF ToSet
<1>3. intake.overall = IF "infeasible" \in {v, w} THEN "infeasible"
                       ELSE IF {v, w} \cap {"warning", "difficult"} # {} THEN "difficult" ELSE "feasible"
  BY <1>1, <1>2 DEF _roll_up
<1>4. v \in stood[RulesAsked[1]] \ {"error"} /\ w \in stood[RulesAsked[2]] \ {"error"}
  BY <1>1 DEF Heard
<1>5. intake.levers = {q \in {1, 2} : <<v, w>>[q] \in Adverse}
  BY <1>1 DEF _build_relaxations, Adverse
<1>6. (1 \in intake.levers <=> v \in Adverse) /\ (2 \in intake.levers <=> w \in Adverse)
  BY <1>2, <1>5
<1>7. \A i \in {1, 2} : /\ stood[RulesAsked[i]] \subseteq Adverse => i \in intake.levers
                        /\ i \in intake.levers => stood[RulesAsked[i]] \cap Adverse # {}
  BY <1>4, <1>6
<1>8. /\ (\E q \in Questions : stood[q] = {"infeasible"}) => intake.overall = "infeasible"
      /\ (\A q \in Questions : "infeasible" \notin stood[q]) => intake.overall # "infeasible"
      /\ (\E q \in Questions : stood[q] \subseteq Adverse) => intake.overall # "feasible"
      /\ (\A q \in Questions : stood[q] = {"feasible"}) => intake.overall = "feasible"
      /\ ~\E q \in Questions : stood[q] = {"error"}
  BY <1>3, <1>4, TheQuestions DEF Adverse
<1> QED  BY <1>7, <1>8 DEF ReportAgreesWithRules

\* For all histories of OPA's policies, a report follows its rules as they stood
\* while it was made; for all counts of people, only a shortage makes an
\* opportunity infeasible; and the bundle of ownership is its single checks.
THEOREM JudgesAgree == PlatformSpec => []VerdictsAgree
<1>1. ReportInv /\ InfeasibleIsShort => VerdictsAgree
  BY BundleAlwaysAgrees, ReportInvAgrees DEF VerdictsAgree
<1>2. CaptureInit => InfeasibleIsShort
  BY DEF CaptureInit, InfeasibleIsShort, AnswersOf, ToSet
<1>3. PlatformSpec => [](ReportInv /\ InfeasibleIsShort)
  BY <1>2, StartOfServices, StepOfServices, ReportInvInit, ReportInvStep, InfeasibleStep, PTL DEF PlatformSpec
<1> QED  BY <1>1, <1>3, PTL

-----------------------------------------------------------------------------
(* The best of many.                                                       *)

\* A number that a finite set of numbers has, and the least of them.
LEMMA LeastIndex ==
    ASSUME NEW s, s \subseteq Nat, s # {}
    PROVE  Min(s) \in s /\ \A y \in s : Min(s) <= y
<1>1. \E x \in s : \A y \in s : x <= y
  BY NatMin
<1> QED  BY <1>1 DEF Min

LEMMA MaxOfThree ==
    ASSUME NEW a \in Nat, NEW b \in Nat
    PROVE  Max({a, b, 1}) \in Nat \ {0} /\ Max({a, b, 1}) >= a /\ Max({a, b, 1}) >= b
<1>1. \E x \in {a, b, 1} : \A y \in {a, b, 1} : x >= y
  <2>1. CASE a >= b /\ a >= 1
    BY <2>1
  <2>2. CASE b >= a /\ b >= 1
    BY <2>2
  <2>3. CASE 1 >= a /\ 1 >= b
    BY <2>3
  <2> QED  BY <2>1, <2>2, <2>3
<1>2. Max({a, b, 1}) \in {a, b, 1} /\ \A y \in {a, b, 1} : Max({a, b, 1}) >= y
  BY <1>1 DEF Max
<1> QED  BY <1>2

LEMMA MinOfBoth == ASSUME NEW a \in Nat, NEW b \in Nat PROVE Min({a, b}) \in 0..b /\ Min({a, b}) <= a /\ (Min({a, b}) = a \/ Min({a, b}) = b)
  BY MinOfTwo

\* The experiments.
ArmsInv ==
    /\ arms \in Seq([name : Arms, sent : Nat, responded : Nat])
    /\ \A i, j \in DOMAIN arms : arms[i].name = arms[j].name => i = j

LEMMA ArmsInvStep == ArmsInv /\ [AbNext]_arms => ArmsInv'
<1> SUFFICES ASSUME ArmsInv, [AbNext]_arms PROVE ArmsInv'
  OBVIOUS
<1> DEFINE T == [name : Arms, sent : Nat, responded : Nat]
<1>1. CASE UNCHANGED arms
  BY <1>1 DEF ArmsInv
<1>2. CASE AbRestart
  BY <1>2 DEF AbRestart, ArmsInv
<1>3. ASSUME NEW arm \in Arms, NEW responded \in BOOLEAN, ab_record(arm, responded) PROVE ArmsInv'
  <2> DEFINE hit == IF responded THEN 1 ELSE 0
  <2>1. hit \in Nat
    OBVIOUS
  <2>2. arms' = IF arm \in KnownArms
                THEN [i \in DOMAIN arms |-> IF arms[i].name # arm THEN arms[i]
                                            ELSE [arms[i] EXCEPT !.sent = @ + 1, !.responded = @ + hit]]
                ELSE Append(arms, [name |-> arm, sent |-> 1, responded |-> hit])
    BY <1>3 DEF ab_record, ab_counts
  <2> HIDE DEF hit
  <2>3. CASE arm \in KnownArms
    <3> DEFINE more == [i \in DOMAIN arms |-> [arms[i] EXCEPT !.sent = @ + 1, !.responded = @ + hit]]
    <3>0. arms \in Seq(T) /\ DOMAIN arms = 1..Len(arms) /\ Len(arms) \in Nat
      BY DEF ArmsInv
    <3>1. \A i \in DOMAIN arms : arms[i] \in T
      <4> HIDE DEF T
      <4> QED  BY <3>0, EntryOf
    <3>2. \A i \in DOMAIN arms : more[i] \in T /\ more[i].name = arms[i].name
      <4> SUFFICES ASSUME NEW i \in DOMAIN arms PROVE more[i] \in T /\ more[i].name = arms[i].name
        OBVIOUS
      <4>1. arms[i] \in T /\ more[i] = [arms[i] EXCEPT !.sent = @ + 1, !.responded = @ + hit]
        BY <3>1
      <4> HIDE DEF more
      <4>2. more[i] = [name |-> arms[i].name, sent |-> arms[i].sent + 1, responded |-> arms[i].responded + hit]
        BY <4>1
      <4>3. arms[i].name \in Arms /\ arms[i].sent + 1 \in Nat /\ arms[i].responded + hit \in Nat
        BY <2>1, <4>1
      <4> QED  BY <4>2, <4>3
    <3>6. arms' = [i \in DOMAIN arms |-> IF arms[i].name # arm THEN arms[i] ELSE more[i]]
      BY <2>2, <2>3
    <3> HIDE DEF T, more
    <3>3. arms' \in Seq(T) /\ DOMAIN arms' = DOMAIN arms
      BY <3>0, <3>1, <3>2, <3>6
    <3>4. \A i \in DOMAIN arms : arms'[i].name = arms[i].name
      BY <3>2, <3>6
    <3> QED  BY <3>3, <3>4 DEF ArmsInv, T
  <2>4. CASE arm \notin KnownArms
    <3> DEFINE new == [name |-> arm, sent |-> 1, responded |-> hit]
    <3>1. new \in T /\ new.name = arm /\ arms \in Seq(T)
      BY <2>1 DEF ArmsInv
    <3>2. arms' = Append(arms, new)
      BY <2>2, <2>4
    <3> HIDE DEF new, T
    <3>3. /\ arms' \in Seq(T) /\ DOMAIN arms' = 1..Len(arms) + 1 /\ DOMAIN arms = 1..Len(arms) /\ Len(arms) \in Nat
          /\ arms'[Len(arms) + 1] = new /\ \A i \in DOMAIN arms : arms'[i] = arms[i]
      BY <3>1, <3>2
    <3>4. \A i \in DOMAIN arms : arms[i].name # arm
      BY <2>4 DEF KnownArms
    <3>5. \A i \in DOMAIN arms' : i = Len(arms) + 1 \/ i \in DOMAIN arms
      BY <3>3
    <3> QED  BY <3>1, <3>3, <3>4, <3>5 DEF ArmsInv, T
  <2> QED  BY <2>3, <2>4
<1> QED  BY <1>1, <1>2, <1>3 DEF AbNext

\* The difference changes its sign with the order of the arms, its square and the
\* variance do not.
LEMMA EitherOrder ==
    ASSUME NEW a, NEW b, {a.sent, a.responded, b.sent, b.responded} \subseteq Nat
    PROVE  /\ Difference(a, b) \in Int /\ Difference(b, a) = -Difference(a, b)
           /\ Significant(a, b) <=> Significant(b, a)
           /\ Significant(a, b) => Difference(a, b) # 0
<1> DEFINE m == a.sent
           n == b.sent
           x == a.responded
           y == b.responded
           d == x * n - y * m
           v == m * n * (x + y) * (m + n - x - y)
           w == n * m * (y + x) * (n + m - y - x)
<1>1. m \in Nat /\ n \in Nat /\ x \in Nat /\ y \in Nat
  OBVIOUS
<1>2. /\ Difference(a, b) = d /\ Difference(b, a) = y * m - x * n
      /\ VarianceTerm(a, b) = v /\ VarianceTerm(b, a) = w
      /\ SquaredTerm(a, b) = Difference(a, b) * Difference(a, b) * (m + n)
      /\ SquaredTerm(b, a) = Difference(b, a) * Difference(b, a) * (n + m)
  BY DEF Difference, VarianceTerm, SquaredTerm
<1> HIDE DEF m, n, x, y
<1>3. x * n \in Int /\ y * m \in Int /\ d \in Int /\ y * m - x * n = -d
  BY <1>1
<1>4. v = w /\ v \in Int
  <2>1. m * n = n * m /\ x + y = y + x /\ m + n - x - y = n + m - y - x
    BY <1>1
  <2>2. m * n \in Int /\ x + y \in Int /\ m + n - x - y \in Int
    BY <1>1
  <2>3. m * n * (x + y) * (m + n - x - y) \in Int
    BY <2>2
  <2> QED  BY <2>1, <2>3
<1> HIDE DEF d, v, w
<1>5. SquaredTerm(a, b) = d * d * (m + n) /\ SquaredTerm(b, a) = (-d) * (-d) * (n + m)
  BY <1>2, <1>3
<1>6. (-d) * (-d) = d * d /\ m + n = n + m
  BY <1>1, <1>3
<1>7. d = 0 => d * d * (m + n) = 0
  BY <1>1
<1> QED  BY <1>2, <1>3, <1>4, <1>5, <1>6, <1>7 DEF Significant

LEMMA ArmsInvWins == ArmsInv => WinnerIsBetter
<1> SUFFICES ASSUME ArmsInv, Len(arms) = 2 PROVE WinnerIsBetter
  BY DEF WinnerIsBetter
<1> DEFINE a == arms[1]
           b == arms[2]
<1>1. /\ a \in [name : Arms, sent : Nat, responded : Nat] /\ b \in [name : Arms, sent : Nat, responded : Nat]
      /\ a.name # b.name
  <2>1. arms \in Seq([name : Arms, sent : Nat, responded : Nat]) /\ 1 \in DOMAIN arms /\ 2 \in DOMAIN arms
    BY DEF ArmsInv
  <2>2. arms[1].name # arms[2].name
    BY <2>1 DEF ArmsInv
  <2> QED  BY <2>1, <2>2, EntryOf
<1>2. evaluate_ab = two_proportion_z(a, b)
  BY DEF evaluate_ab
<1> HIDE DEF a, b
<1>3. /\ {a.sent, a.responded, b.sent, b.responded} \subseteq Nat
      /\ a.name # NoWinner /\ b.name # NoWinner
  BY <1>1, AbAssumption DEF NoWinner
<1>4. /\ Difference(a, b) \in Int /\ Difference(b, a) = -Difference(a, b)
      /\ Significant(a, b) <=> Significant(b, a)
      /\ Significant(a, b) => Difference(a, b) # 0
  BY <1>3, EitherOrder
<1>5. two_proportion_z(a, b) = two_proportion_z(b, a)
  BY <1>4 DEF two_proportion_z, BetterRate
<1>6. /\ two_proportion_z(a, b) = a.name => Difference(a, b) > 0
      /\ two_proportion_z(a, b) = b.name => Difference(b, a) > 0
  BY <1>1, <1>3, <1>4 DEF two_proportion_z, BetterRate
<1> QED  BY <1>2, <1>5, <1>6 DEF WinnerIsBetter, a, b

\* The stage to blame.
LEMMA CountsOfStages ==
    ASSUME decided \in Seq([from : Stage, to : Stage]), NEW i \in 1..5
    PROVE  /\ Denominator(i) \in Nat \ {0} /\ Passed(i) \in Nat /\ Lost(i) \in Nat
           /\ Passed(i) = Denominator(i) - Lost(i)
<1> DEFINE s == stage_order[i]
           t == stage_order[i + 1]
           A == {j \in DOMAIN decided : decided[j].from = s /\ decided[j].to = t}
           B == {j \in DOMAIN decided : decided[j].from = s}
           C == {j \in DOMAIN decided : decided[j].to = s}
<1>1. DOMAIN decided = 1..Len(decided) /\ Len(decided) \in Nat
  OBVIOUS
<1>2. A \subseteq 1..Len(decided) /\ B \subseteq 1..Len(decided) /\ C \subseteq 1..Len(decided) /\ A \subseteq B
  BY <1>1
<1>3. Passed(i) = Cardinality(A) /\ Denominator(i) = Max({Cardinality(C), Cardinality(B), 1})
  BY DEF Passed, LeftFor, Denominator, Entered, LeftAtAll
<1> HIDE DEF A, B, C
<1>4. IsFiniteSet(B) /\ Cardinality(A) \in Nat /\ Cardinality(B) \in Nat /\ Cardinality(C) \in Nat
  BY <1>1, <1>2, FiniteIndices
<1>5. Cardinality(A) <= Cardinality(B)
  BY <1>2, <1>4, FS_Subset
<1>6. Denominator(i) \in Nat \ {0} /\ Denominator(i) >= Cardinality(B)
  BY <1>3, <1>4, MaxOfThree
<1> QED  BY <1>3, <1>4, <1>5, <1>6 DEF Lost

\* A stage that lost more and kept no greater share has the greater score.
LEMMA LostMoreKeptLess ==
    ASSUME NEW d \in Nat, NEW e \in Nat \ {0}, NEW l \in Nat, NEW m \in Nat,
           l > m, (d - l) * e <= (e - m) * d, d # 0
    PROVE  ~(m * m * d >= l * l * e)
<1>1. (d - l) * e = d * e - l * e /\ (e - m) * d = d * e - m * d
  OBVIOUS
<1>2. l * e \in Int /\ m * d \in Int /\ d * e \in Int
  OBVIOUS
<1>3. m * d <= l * e
  BY <1>1, <1>2
<1>4. \A x, y \in Int, k \in Nat : x <= y => k * x <= k * y
  OBVIOUS
<1>5. m * (m * d) <= m * (l * e)
  BY <1>2, <1>3, <1>4
<1>6. \A x \in Nat \ {0} : m * x < l * x
  OBVIOUS
<1>7. l * e \in Nat \ {0}
  <2>1. l \in Nat \ {0}
    OBVIOUS
  <2> QED  BY <2>1
<1>8. m * (l * e) < l * (l * e)
  BY <1>6, <1>7
<1>9. m * (m * d) < l * (l * e)
  <2>1. m * (m * d) \in Int /\ m * (l * e) \in Int /\ l * (l * e) \in Int
    BY <1>2
  <2> QED  BY <1>5, <1>8, <2>1
<1>10. m * (m * d) = m * m * d /\ l * (l * e) = l * l * e
  OBVIOUS
<1>11. m * m * d \in Int /\ l * l * e \in Int
  OBVIOUS
<1> QED  BY <1>9, <1>10, <1>11

LEMMA BlamesWorst ==
    ASSUME decided \in Seq([from : Stage, to : Stage])
    PROVE  BlamesTheWorst
<1> DEFINE d == drop_off_stage
           blamed == {i \in Judged : \A j \in Judged : AtLeast(i, j)}
<1> SUFFICES ASSUME low_conversion
             PROVE  Lost(d) > 0 /\ ~\E i \in Judged : Lost(i) > Lost(d) /\ Passed(i) * Denominator(d) <= Passed(d) * Denominator(i)
  BY Zenon DEF BlamesTheWorst
<1>1. d # 0 /\ 10 * Passed(d) < 3 * Denominator(d)
  BY DEF low_conversion
<1>2. blamed # {} /\ d = Min(blamed) /\ blamed \subseteq Judged
  BY <1>1 DEF drop_off_stage
<1>3. Judged \subseteq 1..5
  BY DEF Judged
<1> HIDE DEF blamed
<1>4. d \in blamed
  <2>1. blamed \subseteq Nat /\ blamed # {}
    BY <1>2, <1>3
  <2>2. Min(blamed) \in blamed
    BY <2>1, LeastIndex
  <2> QED  BY <1>2, <2>2
<1>5. d \in 1..5 /\ \A j \in Judged : AtLeast(d, j)
  BY <1>2, <1>3, <1>4 DEF blamed
<1> HIDE DEF d
<1>6. /\ Denominator(d) \in Nat \ {0} /\ Passed(d) \in Nat /\ Lost(d) \in Nat
      /\ Passed(d) = Denominator(d) - Lost(d)
  BY <1>5, CountsOfStages
<1>7. Lost(d) > 0
  BY <1>1, <1>6
<1>8. ASSUME NEW i \in Judged, Lost(i) > Lost(d), Passed(i) * Denominator(d) <= Passed(d) * Denominator(i) PROVE FALSE
  <2>1. /\ Denominator(i) \in Nat \ {0} /\ Passed(i) \in Nat /\ Lost(i) \in Nat
        /\ Passed(i) = Denominator(i) - Lost(i)
    BY <1>3, CountsOfStages
  <2>2. Lost(d) * Lost(d) * Denominator(i) >= Lost(i) * Lost(i) * Denominator(d)
    BY <1>5 DEF AtLeast
  <2> QED  BY <1>6, <1>8, <2>1, <2>2, LostMoreKeptLess
<1> QED  BY <1>7, <1>8

\* The alerts of an answer.
LEMMA AlertsOfRecord ==
    ASSUME BenchTyped
    PROVE  /\ DOMAIN evaluate_contractor = 1..Len(evaluate_contractor) /\ Len(evaluate_contractor) \in Nat
           /\ \A i \in DOMAIN evaluate_contractor :
                 /\ evaluate_contractor[i].days \in Int
                 /\ evaluate_contractor[i].severity = Urgent <=> evaluate_contractor[i].days <= 30
<1> DEFINE R == {[about |-> d, severity |-> SeverityOf(d), days |-> DaysTo(d)] : d \in {e \in Dates : SeverityOf(e) # 0}}
<1>1. "contract_end_date" \in Dates /\ "clearance_expiry_date" \in Dates
  BY DEF Dates
<1>2. \A d \in Dates : Alert(d) \in Seq(R)
  <2> SUFFICES ASSUME NEW d \in Dates PROVE Alert(d) \in Seq(R)
    OBVIOUS
  <2> DEFINE r == [about |-> d, severity |-> SeverityOf(d), days |-> DaysTo(d)]
  <2>1. SeverityOf(d) # 0 => r \in R
    OBVIOUS
  <2>2. Alert(d) = IF SeverityOf(d) = 0 THEN <<>> ELSE <<r>>
    BY DEF Alert
  <2> HIDE DEF R, r
  <2> QED  BY <2>1, <2>2
<1>3. \A d \in Dates : DaysTo(d) \in Int
  BY DEF BenchTyped, DaysTo
<1>4. \A d \in Dates : SeverityOf(d) # 0 => (SeverityOf(d) = Urgent <=> DaysTo(d) <= 30)
  BY <1>3 DEF SeverityOf, Band, Urgent, Watch, Info
<1>5. \A r \in R : r.days \in Int /\ (r.severity = Urgent <=> r.days <= 30)
  BY <1>3, <1>4
<1> HIDE DEF R
<1>6. evaluate_contractor \in Seq(R)
  <2>1. Alert("contract_end_date") \in Seq(R) /\ Alert("clearance_expiry_date") \in Seq(R)
    BY <1>1, <1>2
  <2> QED  BY <2>1 DEF evaluate_contractor
<1>7. \A i \in DOMAIN evaluate_contractor : evaluate_contractor[i] \in R
  BY <1>6, EntryOf
<1> QED  BY <1>5, <1>6, <1>7

LEMMA UrgentFirstStep == BenchTyped /\ UrgentFirst /\ [BenchNext]_benchVars => UrgentFirst'
<1> SUFFICES ASSUME BenchTyped, UrgentFirst, [BenchNext]_benchVars PROVE UrgentFirst'
  OBVIOUS
<1>1. CASE alerts' = alerts
  BY <1>1 DEF UrgentFirst
<1>2. CASE alerts' = <<>>
  BY <1>2 DEF UrgentFirst
<1>3. CASE alerts' = evaluate_bench
  <2> DEFINE list == evaluate_contractor
             S == DOMAIN list
             key == [i \in S |-> list[i].days]
  <2>1. /\ S = 1..Len(list) /\ Len(list) \in Nat
        /\ \A i \in S : list[i].days \in Int /\ (list[i].severity = Urgent <=> list[i].days <= 30)
    BY AlertsOfRecord
  <2>2. alerts' = Sorted(list, S, key)
    BY <1>3 DEF evaluate_bench, ByDays
  <2> HIDE DEF list
  <2>3. IsFiniteSet(S) /\ S \subseteq Int /\ Cardinality(S) \in Nat
    BY <2>1, FiniteIndices
  <2>4. \A i \in S : key[i] = list[i].days /\ key[i] \in Int
    BY <2>1
  <2> HIDE DEF S, key
  <2>9. \A i \in S : key[i] \in Int
    BY <2>4
  <2>5. PICK f : Ascends(Sorted(list, S, key), list, f, S, key)
    BY ONLY <2>3, <2>9, SortedAscends
  <2>6. DOMAIN alerts' = 1..Cardinality(S) /\ \A n \in 1..Cardinality(S) : alerts'[n] = list[f[n]] /\ f[n] \in S
    BY <2>2, <2>5 DEF Ascends
  <2> SUFFICES ASSUME NEW i \in 1..Cardinality(S), NEW j \in 1..Cardinality(S),
                      alerts'[j].severity = Urgent, alerts'[i].severity # Urgent
               PROVE  j < i
    BY <2>6 DEF UrgentFirst
  <2>7. key[f[j]] \in Int /\ key[f[i]] \in Int /\ key[f[j]] <= 30 /\ ~(key[f[i]] <= 30)
    BY <2>1, <2>4, <2>6
  <2>8. ~(i < j) /\ i # j
    BY <2>5, <2>7 DEF Ascends
  <2> QED  BY <2>3, <2>8
<1>4. alerts' \in {alerts, <<>>, evaluate_bench}
  BY DEF BenchNext, benchVars, PlaceContractor, bench_evaluate, NextDay, Month, Engage
<1> QED  BY <1>1, <1>2, <1>3, <1>4

\* The requisitions a candidate is routed to.
LEMMA RouteIsBest ==
    ASSUME NEW view, NEW limit \in Nat, NEW reqs \in SetToSeqs(Openings), NEW found, found = route(view, reqs, limit)
    PROVE  LET chosen == ToSet(found)
               fit    == {q \in Openings : Fits(view, q)}
           IN  /\ chosen \subseteq fit /\ Cardinality(chosen) = Min({limit, Cardinality(fit)})
               /\ \A q \in chosen : Cleared(view, q)
               /\ \A q \in chosen, r \in fit \ chosen : q.score >= r.score
               /\ \A i, j \in DOMAIN found : i < j => found[i].score >= found[j].score
<1> DEFINE chosen == ToSet(found)
           fit == {q \in Openings : Fits(view, q)}
           S == Matches(view, reqs)
           key == [i \in S |-> -reqs[i].score]
           t == Sorted(reqs, S, key)
           n == Cardinality(S)
<1>1. /\ DOMAIN reqs = 1..Cardinality(Openings) /\ Cardinality(Openings) \in Nat
      /\ \A i \in DOMAIN reqs : reqs[i] \in Openings
      /\ \A i, j \in DOMAIN reqs : reqs[i] = reqs[j] => i = j
      /\ \A x \in Openings : \E i \in DOMAIN reqs : reqs[i] = x
  BY MonitorAssumption, ListedOnce DEF ListsOnce
<1>2. S \subseteq DOMAIN reqs /\ \A i \in DOMAIN reqs : i \in S <=> reqs[i] \in fit
  BY <1>1 DEF Matches
<1>3. IsFiniteSet(S) /\ n \in Nat /\ S \subseteq Int
  BY <1>1, <1>2, FiniteIndices
<1>4. \A i \in S : reqs[i].score \in Int /\ key[i] = -reqs[i].score /\ key[i] \in Int
  BY <1>1, <1>2, MonitorAssumption
<1>5. fit = {reqs[i] : i \in S}
  BY <1>1, <1>2
<1>6. Cardinality(fit) = n
  <2>1. OneToOne(reqs, S) /\ fit = ImageOf(reqs, S)
    BY <1>1, <1>2, <1>5 DEF OneToOne, ImageOf
  <2> HIDE DEF S, fit
  <2> QED  BY <1>3, <2>1, AsMany
<1>7. found = SubSeq(t, 1, Min({limit, Len(t)}))
  BY DEF route, ByScore, FirstMatches
<1>8. \A q \in fit : Cleared(view, q)
  BY DEF Fits
<1> HIDE DEF S, key, t, fit
<1>9. \A i \in S : key[i] \in Int
  BY <1>4
<1>10. PICK f : Ascends(t, reqs, f, S, key)
  BY ONLY <1>3, <1>9, SortedAscends DEF t
<1>11. f \in [1..n -> S] /\ t = [m \in 1..n |-> reqs[f[m]]]
  BY <1>10 DEF Ascends
<1>12. t \in Seq(fit) /\ Len(t) = n /\ \A m \in 1..n : t[m] = reqs[f[m]] /\ f[m] \in S
  <2>1. \A m \in 1..n : t[m] = reqs[f[m]] /\ f[m] \in S /\ reqs[f[m]] \in fit
    BY <1>5, <1>11
  <2>2. t \in [1..n -> fit]
    BY <1>11, <2>1
  <2> HIDE DEF n
  <2> QED  BY <1>3, <2>1, <2>2
<1> DEFINE k == Min({limit, n})
<1>13. k \in 0..n /\ k <= limit
  BY <1>3, MinOfBoth
<1>14. found = SubSeq(t, 1, k)
  BY <1>7, <1>12
<1> HIDE DEF k, n
<1>15. found \in Seq(fit) /\ Len(found) = k /\ \A m \in 1..k : found[m] = t[m]
  BY <1>12, <1>13, <1>14, FirstOnes
<1>16. DOMAIN found = 1..k /\ \A m \in 1..k : m \in 1..n /\ found[m] = reqs[f[m]] /\ f[m] \in S
  BY <1>3, <1>12, <1>13, <1>15 DEF n
<1>17. chosen = {found[m] : m \in 1..k}
  BY <1>16 DEF ToSet
<1>18. chosen \subseteq fit
  BY <1>15, <1>16, <1>17, EntryOf
<1>19. \A m, j \in 1..n : m < j => key[f[m]] <= key[f[j]] /\ f[m] # f[j]
  BY <1>10 DEF Ascends, n
<1>20. Cardinality(chosen) = k
  <2>1. OneToOne(found, 1..k)
    <3> SUFFICES ASSUME NEW m \in 1..k, NEW j \in 1..k, found[m] = found[j], m # j PROVE FALSE
      BY DEF OneToOne
    <3>1. f[m] # f[j]
      <4>1. m < j \/ j < m
        BY <1>13
      <4> QED  BY <1>16, <1>19, <4>1
    <3> QED  BY <1>1, <1>2, <1>16, <3>1
  <2>2. IsFiniteSet(1..k) /\ Cardinality(1..k) = k
    BY <1>13, FS_Interval
  <2>3. chosen = ImageOf(found, 1..k)
    BY <1>17 DEF ImageOf
  <2> HIDE DEF chosen
  <2> QED  BY <2>1, <2>2, <2>3, AsMany
<1>21. ASSUME NEW q \in chosen, NEW r \in fit \ chosen PROVE q.score >= r.score
  <2>1. PICK m \in 1..k : q = reqs[f[m]]
    BY <1>16, <1>17
  <2>2. PICK i \in S : r = reqs[i]
    BY <1>5
  <2>3. PICK j \in 1..n : f[j] = i
    BY <1>10, <2>2 DEF Ascends, n
  <2>4. j \notin 1..k
    BY <1>16, <1>17, <1>21, <2>2, <2>3
  <2>5. m \in 1..n /\ m < j /\ f[m] \in S
    BY <1>3, <1>13, <1>16, <2>4 DEF n
  <2>6. key[f[m]] <= key[f[j]]
    BY <1>19, <2>5
  <2> QED  BY <1>4, <2>1, <2>2, <2>3, <2>5, <2>6
<1>22. ASSUME NEW i \in DOMAIN found, NEW j \in DOMAIN found, i < j PROVE found[i].score >= found[j].score
  <2>1. /\ i \in 1..n /\ found[i] = reqs[f[i]] /\ f[i] \in S
        /\ j \in 1..n /\ found[j] = reqs[f[j]] /\ f[j] \in S
    BY <1>16
  <2>2. key[f[i]] <= key[f[j]]
    BY <1>19, <1>22, <2>1
  <2> QED  BY <1>4, <2>1, <2>2
<1>23. Cardinality(chosen) = Min({limit, Cardinality(fit)})
  BY <1>6, <1>20 DEF k
<1> HIDE DEF chosen
<1> QED  BY <1>8, <1>18, <1>21, <1>22, <1>23 DEF chosen, fit

LEMMA RoutedStep == RoutedToTheBest /\ [MonitorNext]_monitorVars => RoutedToTheBest'
<1> SUFFICES ASSUME RoutedToTheBest, [MonitorNext]_monitorVars PROVE RoutedToTheBest'
  OBVIOUS
<1>1. CASE routed' = routed
  BY <1>1 DEF RoutedToTheBest
<1>2. ASSUME NEW view \in Views, NEW limit \in Limits, pipeline_route(view, limit) PROVE RoutedToTheBest'
  <2>1. PICK reqs \in SetToSeqs(Openings) : routed' = <<[view |-> view, limit |-> limit, found |-> route(view, reqs, limit)]>>
    BY <1>2 DEF pipeline_route
  <2> DEFINE a == [view |-> view, limit |-> limit, found |-> route(view, reqs, limit)]
  <2>2. a.view = view /\ a.limit = limit /\ a.found = route(view, reqs, limit)
    OBVIOUS
  <2> HIDE DEF a
  <2>3. ToSet(routed') = {a}
    BY <2>1 DEF ToSet, a
  <2>4. limit \in Nat
    BY MonitorAssumption
  <2> DEFINE chosen == ToSet(a.found)
             fit    == {q \in Openings : Fits(a.view, q)}
  <2>5. /\ chosen \subseteq fit /\ Cardinality(chosen) = Min({a.limit, Cardinality(fit)})
        /\ \A q \in chosen : Cleared(a.view, q)
        /\ \A q \in chosen, r \in fit \ chosen : q.score >= r.score
        /\ \A i, j \in DOMAIN a.found : i < j => a.found[i].score >= a.found[j].score
    BY <2>2, <2>4, RouteIsBest
  <2> QED  BY <2>3, <2>5, Zenon DEF RoutedToTheBest
<1> QED  BY <1>1, <1>2 DEF MonitorNext, monitorVars, Enter, Quarter, pipeline_health

\* Some of the good ones, each once, the nearer ones first.
Ranked(found, limit, good, dist) ==
    /\ DOMAIN found = 1..Len(found) /\ Len(found) <= limit /\ \A i \in DOMAIN found : found[i] \in good
    /\ \A i, j \in DOMAIN found : i < j => found[i] # found[j] /\ dist[found[i]] <= dist[found[j]]

LEMMA FirstInOrder ==
    ASSUME NEW good, IsFiniteSet(good), good \subseteq Int, NEW dist, \A i \in good : dist[i] \in Int, NEW limit \in Nat
    PROVE  Ranked(FirstOf(InOrder(good, dist), limit), limit, good, dist)
<1> DEFINE f == InOrder(good, dist)
           n == Cardinality(good)
           k == Min({limit, n})
           found == FirstOf(f, limit)
<1>1. n \in Nat /\ Ascending(f, good, dist)
  BY InOrderSorts
<1>2. f \in Seq(good) /\ Len(f) = n
  BY <1>1 DEF Ascending
<1>3. k \in 0..n /\ k <= limit /\ found = SubSeq(f, 1, k)
  BY <1>1, <1>2, MinOfBoth DEF FirstOf
<1> HIDE DEF f, k, found
<1>4. found \in Seq(good) /\ Len(found) = k /\ \A m \in 1..k : found[m] = f[m]
  BY <1>2, <1>3, FirstOnes
<1>5. DOMAIN found = 1..k /\ \A m \in 1..k : m \in 1..n /\ found[m] \in good
  BY <1>1, <1>3, <1>4, EntryOf
<1>6. \A m, j \in 1..n : m < j => f[m] # f[j] /\ dist[f[m]] <= dist[f[j]]
  <2> SUFFICES ASSUME NEW m \in 1..n, NEW j \in 1..n, m < j PROVE f[m] # f[j] /\ dist[f[m]] <= dist[f[j]]
    OBVIOUS
  <2>1. Sooner(dist, f[m], f[j]) /\ f[m] \in good /\ f[j] \in good
    BY <1>1 DEF Ascending
  <2>2. dist[f[m]] \in Int /\ dist[f[j]] \in Int /\ f[m] \in Int /\ f[j] \in Int
    BY <2>1
  <2> QED  BY <2>1, <2>2 DEF Sooner
<1>7. \A i, j \in 1..k : i < j => found[i] # found[j] /\ dist[found[i]] <= dist[found[j]]
  BY <1>4, <1>5, <1>6
<1>8. Len(found) <= limit
  BY <1>1, <1>3, <1>4
<1> QED  BY <1>4, <1>5, <1>7, <1>8 DEF Ranked, found, k, f

\* Where, in any table.
Meets(p, q) ==
    /\ q.minimum # "" => HasAtLeast(p, q.minimum)
    /\ q.metro # "" => p.metro = q.metro
    /\ q.motion # "" => p.motion = q.motion
Matching(list, q) == {i \in DOMAIN list : Meets(list[i].as, q)}

LEMMA WhereMatches == \A q : Where(q) = Matching(rows, q)
  BY DEF Where, Matching, Meets

SearchInv ==
    /\ \A i \in DOMAIN rows : rows[i].as.distance \in Int
    /\ \A h \in ToSet(hits) :
          Ranked(h.found, h.query.limit, Matching(rows, h.query), [i \in DOMAIN rows |-> rows[i].as.distance])

LEMMA SearchInvInit == CandidatesInit => SearchInv
  BY DEF CandidatesInit, SearchInv, ToSet

\* A new row changes nothing of those a search found.
LEMMA RowsAdded ==
    ASSUME ScoresInv, SearchInv, hits' = hits, NEW row, rows' = Append(rows, row), row.as.distance \in Int
    PROVE  SearchInv'
<1>1. /\ DOMAIN rows = 1..Len(rows) /\ Len(rows) \in Nat
  BY DEF ScoresInv
<1>2. DOMAIN rows' = 1..Len(rows) + 1 /\ Len(rows') = Len(rows) + 1 /\ rows'[Len(rows) + 1] = row
      /\ \A i \in 1..Len(rows) : rows'[i] = rows[i]
  BY <1>1
<1>3. ASSUME NEW i \in DOMAIN rows' PROVE rows'[i].as.distance \in Int
  BY <1>1, <1>2 DEF SearchInv
<1>4. ASSUME NEW h \in ToSet(hits)
      PROVE  Ranked(h.found, h.query.limit, Matching(rows', h.query), [i \in DOMAIN rows' |-> rows'[i].as.distance])
  <2> DEFINE found == h.found
             good == Matching(rows, h.query)
             more == Matching(rows', h.query)
             dist == [i \in DOMAIN rows |-> rows[i].as.distance]
             dist2 == [i \in DOMAIN rows' |-> rows'[i].as.distance]
  <2>1. Ranked(found, h.query.limit, good, dist)
    BY <1>4 DEF SearchInv
  <2>2. \A i \in good : i \in more /\ dist2[i] = dist[i]
    BY <1>1, <1>2 DEF Matching
  <2> HIDE DEF found, good, more, dist, dist2
  <2>3. \A i \in DOMAIN found : found[i] \in more /\ dist2[found[i]] = dist[found[i]]
    BY <2>1, <2>2 DEF Ranked
  <2>4. Ranked(found, h.query.limit, more, dist2)
    BY <2>1, <2>3 DEF Ranked
  <2> QED  BY <2>4 DEF found, more, dist2
<1> QED  BY <1>3, <1>4 DEF SearchInv

LEMMA SearchInvStep == ScoresInv /\ SearchInv /\ [CandidatesNext]_candidateVars => SearchInv'
<1> SUFFICES ASSUME ScoresInv, SearchInv, [CandidatesNext]_candidateVars PROVE SearchInv'
  OBVIOUS
<1>1. CASE rows' = rows /\ hits' = hits
  BY <1>1 DEF SearchInv
<1>2. ASSUME NEW i \in DOMAIN creates, insert(i) PROVE SearchInv'
  <2> DEFINE p == AsPosted(i)
             score == IF p.clearance # "none" THEN deployability_score(p, year) ELSE Unscored
             row == [who |-> creates[i].who, as |-> p, score |-> score]
  <2>1. hits' = hits /\ (rows' = Append(rows, row) \/ rows' = rows)
    BY <1>2 DEF insert, RolledBack
  <2>2. row.as = p
    OBVIOUS
  <2>3. p.distance \in Int
    <3> DEFINE q == Profile[creates[i].who]
    <3>1. q \in ProfileType
      BY CandidatesAssumption DEF ScoresInv
    <3> HIDE DEF q
    <3>2. q.distance \in Int /\ FromText(q).distance = q.distance
      BY <3>1 DEF ProfileType, FromText
    <3> QED  BY <3>2 DEF AsPosted, q
  <2> HIDE DEF row, p
  <2> QED  BY <1>1, <2>1, <2>2, <2>3, RowsAdded
<1>3. ASSUME NEW q \in Queries, search_candidates(q) PROVE SearchInv'
  <2>0. PICK scanned \in SUBSET DOMAIN rows :
            hits' = <<[query |-> q, found |-> semantic_search(q, scanned)]>> /\ rows' = rows
    BY <1>3 DEF search_candidates
  <2> DEFINE h == [query |-> q, found |-> semantic_search(q, scanned)]
             dist == [i \in DOMAIN rows |-> rows[i].as.distance]
             good == scanned \cap Matching(rows, q)
  <2>1. hits' = <<h>> /\ rows' = rows
    BY <2>0
  <2>2. h.query = q /\ h.found = semantic_search(q, scanned)
    OBVIOUS
  <2>3. q.limit \in Nat
    <3>1. q.limit \in 1..100
      BY CandidatesAssumption, Zenon
    <3> QED  BY <3>1
  <2>4. DOMAIN rows = 1..Len(rows) /\ Len(rows) \in Nat
    BY DEF ScoresInv
  <2>5. good \subseteq 1..Len(rows) /\ IsFiniteSet(good)
    <3>1. good \subseteq 1..Len(rows)
      BY <2>4 DEF Matching
    <3> HIDE DEF good
    <3> QED  BY <2>4, <3>1, FiniteIndices
  <2>6. semantic_search(q, scanned) = FirstOf(InOrder(good, [i \in good |-> rows[i].as.distance]), q.limit)
    BY WhereMatches DEF semantic_search, Nearest
  <2> DEFINE near == [i \in good |-> rows[i].as.distance]
  <2>7. \A i \in good : near[i] \in Int /\ near[i] = dist[i]
    BY <2>4, <2>5 DEF SearchInv
  <2>16. good \subseteq Matching(rows, q)
    OBVIOUS
  <2> HIDE DEF h, dist, good, near
  <2>8. \A i \in good : near[i] \in Int
    BY <2>7
  <2>9. good \subseteq Int
    BY <2>4, <2>5
  <2>10. Ranked(FirstOf(InOrder(good, near), q.limit), q.limit, good, near)
    BY ONLY <2>3, <2>5, <2>8, <2>9, FirstInOrder
  <2>11. Ranked(h.found, q.limit, good, near)
    BY <2>2, <2>6, <2>10 DEF near
  <2>12. Ranked(h.found, q.limit, Matching(rows, q), dist)
    <3> DEFINE found == h.found
    <3>1. \A i \in DOMAIN found : found[i] \in good
      BY <2>11 DEF Ranked
    <3>2. \A i \in DOMAIN found : found[i] \in Matching(rows, q) /\ dist[found[i]] = near[found[i]]
      BY <2>7, <2>16, <3>1
    <3> QED  BY <2>11, <3>2 DEF Ranked
  <2>14. ToSet(hits') = {h}
    BY <2>1 DEF ToSet
  <2>15. \A g \in ToSet(hits') : Ranked(g.found, g.query.limit, Matching(rows, g.query), dist)
    BY <2>2, <2>12, <2>14
  <2> QED  BY <2>1, <2>15 DEF SearchInv, dist
<1>4. ASSUME NEW person, NEW via, NEW no, Receive(person, via, no) PROVE SearchInv'
  BY <1>1, <1>4 DEF Receive
<1>5. ASSUME NEW i, Embed(i) PROVE SearchInv'
  BY <1>1, <1>5 DEF Embed
<1>6. CASE NewYear
  BY <1>1, <1>6 DEF NewYear
<1>7. CASE UNCHANGED candidateVars
  BY <1>1, <1>7 DEF candidateVars
<1> QED  BY <1>2, <1>3, <1>4, <1>5, <1>6, <1>7 DEF CandidatesNext, create_candidate, candidate_from_resume

LEMMA SearchInvMeets == ScoresInv /\ SearchInv => HitsMeetTheQuery
<1> SUFFICES ASSUME ScoresInv, SearchInv, NEW h \in ToSet(hits)
             PROVE  /\ Len(h.found) <= h.query.limit
                    /\ \A n \in DOMAIN h.found : h.found[n] \in DOMAIN rows /\ Meets(rows[h.found[n]].as, h.query)
                    /\ \A m, n \in DOMAIN h.found :
                          m < n => /\ h.found[m] # h.found[n]
                                   /\ rows[h.found[m]].as.distance <= rows[h.found[n]].as.distance
  BY DEF HitsMeetTheQuery, Meets
<1> DEFINE good == Matching(rows, h.query)
           dist == [i \in DOMAIN rows |-> rows[i].as.distance]
<1>1. Ranked(h.found, h.query.limit, good, dist)
  BY DEF SearchInv
<1>2. \A i \in good : i \in DOMAIN rows /\ Meets(rows[i].as, h.query) /\ dist[i] = rows[i].as.distance
  BY DEF Matching
<1> HIDE DEF good, dist
<1>3. \A n \in DOMAIN h.found : h.found[n] \in good
  BY <1>1 DEF Ranked
<1>4. \A m, n \in DOMAIN h.found :
        m < n => h.found[m] # h.found[n] /\ rows[h.found[m]].as.distance <= rows[h.found[n]].as.distance
  BY <1>1, <1>2, <1>3 DEF Ranked
<1>5. Len(h.found) <= h.query.limit
  BY <1>1 DEF Ranked
<1> QED  BY <1>2, <1>3, <1>4, <1>5

LEMMA BoundsOfTwo ==
    ASSUME NEW a \in Nat, NEW b \in Nat
    PROVE  /\ Min({a, b}) = IF a <= b THEN a ELSE b
           /\ Max({a, b}) = IF a >= b THEN a ELSE b
  BY MaxOfTwo, MinOfTwo

LEMMA AverageOfSurvey ==
    ASSUME NEW c \in Scores \cup {NoScore}, NEW m \in Scores \cup {NoScore}
    PROVE  LET given == {c, m} \cap Scores
               average == score_satisfaction(c, m)
           IN  IF given = {} THEN average.count = 0
               ELSE /\ average.count > 0
                    /\ Min(given) * average.count <= average.total
                    /\ average.total <= Max(given) * average.count
                    /\ Cardinality(given) = 2 =>
                           /\ Min(given) * average.count < average.total
                           /\ average.total < Max(given) * average.count
<1> DEFINE given == {c, m} \cap Scores
           average == score_satisfaction(c, m)
           s == <<c, m>>
           n == average.count
<1>1. Scores \subseteq Nat /\ NoScore \notin Scores
  BY OutcomesAssumption DEF NoScore
<1>2. _score(c) = c /\ _score(m) = m
  BY <1>1 DEF _score
<1>3. average.total = SumFunctionOnSet(s, Given(s)) /\ n = Cardinality(Given(s))
  BY <1>2 DEF score_satisfaction
<1>4. Given(s) = {i \in {1, 2} : s[i] # NoScore} /\ s[1] = c /\ s[2] = m
  BY DEF Given
<1> HIDE DEF average, s
<1>5. CASE c = NoScore /\ m = NoScore
  <2>1. given = {} /\ Given(s) = {}
    BY <1>1, <1>4, <1>5
  <2> QED  BY <1>3, <2>1, FS_EmptySet DEF average
<1>6. ASSUME NEW x \in Scores, NEW i, Given(s) = {i}, s[i] = x, given = {x} PROVE
        /\ given # {} /\ n > 0 /\ Min(given) * n <= average.total
        /\ average.total <= Max(given) * n /\ Cardinality(given) # 2
  <2>1. x \in Nat /\ Min({x}) = x /\ Max({x}) = x
    BY <1>1 DEF Min, Max
  <2>2. n = 1 /\ average.total = x /\ Cardinality(given) = 1
    BY <1>3, <1>6, <2>1, FS_Singleton, SumOfOne
  <2> QED  BY <1>6, <2>1, <2>2
<1>7. CASE c \in Scores /\ m = NoScore
  <2>1. Given(s) = {1} /\ given = {c}
    BY <1>1, <1>4, <1>7
  <2> QED  BY <1>4, <1>6, <1>7, <2>1 DEF average
<1>8. CASE c = NoScore /\ m \in Scores
  <2>1. Given(s) = {2} /\ given = {m}
    BY <1>1, <1>4, <1>8
  <2> QED  BY <1>4, <1>6, <1>8, <2>1 DEF average
<1>9. CASE c \in Scores /\ m \in Scores
  <2>1. Given(s) = {1, 2} /\ given = {c, m} /\ c \in Nat /\ m \in Nat
    BY <1>1, <1>4, <1>9
  <2>2. average.total = c + m
    <3>1. s[1] \in Int /\ s[2] \in Int /\ s[1] = c /\ s[2] = m
      BY <1>4, <2>1
    <3>2. SumFunctionOnSet(s, {1, 2}) = s[1] + s[2]
      <4>1. 1 # 2
        OBVIOUS
      <4> QED  BY ONLY <3>1, <4>1, SumOfTwo
    <3> QED  BY <1>3, <2>1, <3>1, <3>2
  <2>3. n = 2
    <3>1. Cardinality({1, 2}) = 2
      <4>0. {1, 2} = {1} \cup {2} /\ 2 \notin {1}
        BY ONLY TRUE
      <4>3. IsFiniteSet({1}) /\ Cardinality({1}) = 1
        BY ONLY FS_Singleton, Zenon
      <4>1. {1, 2} = {1} \cup {2} /\ 2 \notin {1} /\ IsFiniteSet({1}) /\ Cardinality({1}) = 1
        BY ONLY <4>0, <4>3
      <4>2. Cardinality({1} \cup {2}) = Cardinality({1}) + 1
        BY <4>1, FS_AddElement
      <4> QED  BY <4>1, <4>2
    <3> QED  BY <1>3, <2>1, <3>1
  <2>4. /\ Min(given) = IF c <= m THEN c ELSE m
        /\ Max(given) = IF c >= m THEN c ELSE m
    BY <2>1, BoundsOfTwo
  <2>5. Cardinality(given) = 2 => c # m
    BY <2>1, FS_Singleton
  <2> HIDE DEF given, n
  <2>6. /\ given # {} /\ n > 0
        /\ Min(given) * n <= average.total /\ average.total <= Max(given) * n
        /\ Cardinality(given) = 2 => Min(given) * n < average.total /\ average.total < Max(given) * n
    <3>1. given # {} /\ n > 0
      BY <2>1, <2>3
    <3> QED  BY <2>1, <2>2, <2>3, <2>4, <2>5, <3>1
  <2> QED  BY <2>6 DEF average, given, n
<1> QED  BY <1>5, <1>7, <1>8, <1>9 DEF average

LEMMA AverageStep == AverageBetweenScores /\ [OutcomesNext]_outcomeVars => AverageBetweenScores'
<1> SUFFICES ASSUME AverageBetweenScores, [OutcomesNext]_outcomeVars PROVE AverageBetweenScores'
  OBVIOUS
<1>1. CASE survey' = survey
  BY <1>1 DEF AverageBetweenScores
<1>2. CASE retention_score
  <2>1. PICK c \in Scores \cup {NoScore}, m \in Scores \cup {NoScore} :
            survey' = <<[candidate |-> c, manager |-> m, average |-> score_satisfaction(c, m)]>>
    BY <1>2 DEF retention_score
  <2> DEFINE a == [candidate |-> c, manager |-> m, average |-> score_satisfaction(c, m)]
  <2>2. a.candidate = c /\ a.manager = m /\ a.average = score_satisfaction(c, m)
    OBVIOUS
  <2> HIDE DEF a
  <2>3. ToSet(survey') = {a}
    BY <2>1 DEF ToSet, a
  <2> QED  BY <2>2, <2>3, AverageOfSurvey DEF AverageBetweenScores
<1> QED  BY <1>1, <1>2 DEF OutcomesNext, outcomeVars, Launch, save, Swap, Stop, lifespan, retrain

\* The facets of a key, or of the two parts of it that the summary keeps.
InCell(facets, key) == {i \in DOMAIN facets : KeyOf(facets[i]) = key}
Near(facets, c, m)  == {i \in DOMAIN facets : facets[i].clearance = c /\ facets[i].metro = m}

LEMMA KeyParts == \A f : KeyOf(f)[1] = f.clearance /\ KeyOf(f)[2] = f.metro
  BY DEF KeyOf

LEMMA CellsOf ==
    ASSUME NEW facets, NEW n \in Nat, DOMAIN facets = 1..n
    PROVE  /\ IsFiniteSet(build(facets))
           /\ \A d \in build(facets) : /\ d.count = Cardinality(InCell(facets, d.key))
                                      /\ d.now <= d.count /\ \E i \in DOMAIN facets : KeyOf(facets[i]) = d.key
           /\ \A d, e \in build(facets) : d.key = e.key => d = e
           /\ \A i \in DOMAIN facets : \E d \in build(facets) : d.key = KeyOf(facets[i])
<1> DEFINE Cell(k) == [key |-> k, count |-> CellCount(facets, k), now |-> NowCount(facets, k)]
           g == [i \in 1..n |-> Cell(KeyOf(facets[i]))]
<1>1. build(facets) = {Cell(k) : k \in CellKeys(facets)}
  BY DEF build
<1>2. CellKeys(facets) = {KeyOf(facets[i]) : i \in 1..n}
  BY DEF CellKeys, ToSet
<1>3. build(facets) = ImageOf(g, 1..n)
  BY <1>1, <1>2 DEF ImageOf
<1>4. IsFiniteSet(build(facets))
  <2> HIDE DEF g
  <2>1. IsFiniteSet(1..n)
    BY FS_Interval
  <2> QED  BY <1>3, <2>1, ImageFinite
<1>5. \A k : CellCount(facets, k) = Cardinality(InCell(facets, k)) /\ NowCount(facets, k) <= CellCount(facets, k)
  <2> SUFFICES ASSUME NEW k PROVE CellCount(facets, k) = Cardinality(InCell(facets, k)) /\ NowCount(facets, k) <= CellCount(facets, k)
    OBVIOUS
  <2> DEFINE A == InCell(facets, k)
             B == {i \in DOMAIN facets : KeyOf(facets[i]) = k /\ facets[i].now}
  <2>1. CellCount(facets, k) = Cardinality(A) /\ NowCount(facets, k) = Cardinality(B)
    BY DEF CellCount, NowCount, InCell
  <2>2. B \subseteq A /\ A \subseteq 1..n
    BY DEF InCell
  <2> HIDE DEF A, B
  <2>3. IsFiniteSet(A)
    BY <2>2, FiniteIndices
  <2>4. Cardinality(B) <= Cardinality(A)
    BY <2>2, <2>3, FS_Subset
  <2> QED  BY <2>1, <2>4 DEF A
<1>6. \A k : Cell(k).key = k /\ Cell(k).count = CellCount(facets, k) /\ Cell(k).now = NowCount(facets, k)
  OBVIOUS
<1> HIDE DEF Cell, g
<1>7. \A d \in build(facets) : d.key \in CellKeys(facets) /\ d = Cell(d.key)
  BY <1>1, <1>6
<1>8. \A d \in build(facets) : d.count = Cardinality(InCell(facets, d.key)) /\ d.now <= d.count
  BY <1>5, <1>6, <1>7
<1>9. \A i \in 1..n : Cell(KeyOf(facets[i])) \in build(facets)
  BY <1>1, <1>2
<1> QED  BY <1>2, <1>4, <1>6, <1>7, <1>8, <1>9

\* Any cells together count the candidates in them.
LEMMA CellsAddUp ==
    ASSUME NEW facets, NEW n \in Nat, DOMAIN facets = 1..n, NEW C, C \subseteq build(facets)
    PROVE  TotalCount(C) = Cardinality(UNION {InCell(facets, d.key) : d \in C})
<1> DEFINE w == [d \in C |-> d.count]
           P == [d \in C |-> InCell(facets, d.key)]
<1>1. IsFiniteSet(C) /\ IsFiniteSet(1..n)
  BY CellsOf, FS_Subset, FS_Interval
<1>2. /\ \A d \in build(facets) : d.count = Cardinality(InCell(facets, d.key))
      /\ \A d, e \in build(facets) : d.key = e.key => d = e
  BY CellsOf
<1>3. \A k, l : k # l => InCell(facets, k) \cap InCell(facets, l) = {}
  BY DEF InCell
<1>4. \A k : InCell(facets, k) \subseteq 1..n
  BY DEF InCell
<1>5. Parts(P, w, 1..n, C)
  BY <1>2, <1>3, <1>4 DEF Parts
<1>6. TotalCount(C) = SumFunctionOnSet(w, C)
  BY DEF TotalCount, SumFunction
<1>7. Together(P, C) = UNION {InCell(facets, d.key) : d \in C}
  BY DEF Together
<1> HIDE DEF P, w
<1>8. SumFunctionOnSet(w, C) = Cardinality(Together(P, C))
  BY <1>1, <1>5, PartsAddUp
<1> QED  BY <1>6, <1>7, <1>8

LEMMA SummaryAddsUp ==
    ASSUME NEW facets, NEW n \in Nat, DOMAIN facets = 1..n
    PROVE  TotalCount(summarise_by_clearance(build(facets))) = n
<1> DEFINE cells == build(facets)
           Line(c) == [clearance |-> c.key[1], metro |-> c.key[2],
                       count |-> Added({d \in cells : d.key[1] = c.key[1] /\ d.key[2] = c.key[2]})]
           S == {Line(c) : c \in cells}
           w == [b \in S |-> b.count]
           P == [b \in S |-> Near(facets, b.clearance, b.metro)]
<1>1. /\ IsFiniteSet(cells)
      /\ \A d \in cells : \E i \in DOMAIN facets : KeyOf(facets[i]) = d.key
      /\ \A i \in DOMAIN facets : \E d \in cells : d.key = KeyOf(facets[i])
  BY CellsOf
<1> HIDE DEF cells
<1>2. summarise_by_clearance(cells) = S
  BY DEF summarise_by_clearance
<1>3. IsFiniteSet(S)
  <2> DEFINE g == [c \in cells |-> Line(c)]
  <2>1. S = ImageOf(g, cells)
    BY DEF ImageOf
  <2> HIDE DEF g
  <2> QED  BY <1>1, <2>1, ImageFinite
<1>4. ASSUME NEW c \in cells PROVE Line(c).count = Cardinality(Near(facets, c.key[1], c.key[2]))
  <2> DEFINE C == {d \in cells : d.key[1] = c.key[1] /\ d.key[2] = c.key[2]}
  <2>1. Line(c).count = TotalCount(C)
    BY DEF Added
  <2>2. C \subseteq build(facets)
    BY DEF cells
  <2>3. UNION {InCell(facets, d.key) : d \in C} = Near(facets, c.key[1], c.key[2])
    <3>1. \A i \in DOMAIN facets : i \in Near(facets, c.key[1], c.key[2]) =>
                \E d \in C : d.key = KeyOf(facets[i])
      BY <1>1, KeyParts DEF Near
    <3>2. \A d \in C : InCell(facets, d.key) \subseteq Near(facets, c.key[1], c.key[2])
      BY KeyParts DEF InCell, Near
    <3> HIDE DEF C
    <3> QED  BY <3>1, <3>2 DEF InCell, Near
  <2> HIDE DEF C
  <2>4. TotalCount(C) = Cardinality(UNION {InCell(facets, d.key) : d \in C})
    BY <2>2, CellsAddUp
  <2> QED  BY <2>1, <2>3, <2>4
<1>5. \A c \in cells : Line(c).clearance = c.key[1] /\ Line(c).metro = c.key[2]
  OBVIOUS
<1>6. \A c, d \in cells : c.key[1] = d.key[1] /\ c.key[2] = d.key[2] => Line(c) = Line(d)
  OBVIOUS
<1> HIDE DEF Line
<1>7. \A b \in S : b.count = Cardinality(Near(facets, b.clearance, b.metro))
  BY <1>4, <1>5
<1>8. \A b, e \in S : b.clearance = e.clearance /\ b.metro = e.metro => b = e
  BY <1>5, <1>6
<1>9. Parts(P, w, 1..n, S)
  <2>1. \A b \in S : Near(facets, b.clearance, b.metro) \subseteq 1..n
    BY DEF Near
  <2>2. \A b, e \in S : b # e => Near(facets, b.clearance, b.metro) \cap Near(facets, e.clearance, e.metro) = {}
    BY <1>8 DEF Near
  <2> HIDE DEF S
  <2> QED  BY <1>7, <2>1, <2>2 DEF Parts
<1>10. Together(P, S) = 1..n
  <2>1. \A i \in 1..n : \E b \in S : i \in Near(facets, b.clearance, b.metro)
    <3> SUFFICES ASSUME NEW i \in 1..n PROVE \E b \in S : i \in Near(facets, b.clearance, b.metro)
      OBVIOUS
    <3>1. PICK d \in cells : d.key = KeyOf(facets[i])
      BY <1>1
    <3>2. Line(d) \in S /\ Line(d).clearance = facets[i].clearance /\ Line(d).metro = facets[i].metro
      BY <1>5, <3>1, KeyParts
    <3> QED  BY <3>2 DEF Near
  <2>2. \A b \in S : Near(facets, b.clearance, b.metro) \subseteq 1..n
    BY DEF Near
  <2> HIDE DEF S
  <2> QED  BY <2>1, <2>2 DEF Together
<1>11. TotalCount(S) = SumFunctionOnSet(w, S)
  BY DEF TotalCount, SumFunction
<1>12. IsFiniteSet(1..n) /\ Cardinality(1..n) = n
  BY FS_Interval
<1> HIDE DEF S, P, w
<1>13. SumFunctionOnSet(w, S) = Cardinality(Together(P, S))
  BY <1>3, <1>9, <1>12, PartsAddUp
<1> QED  BY <1>2, <1>10, <1>11, <1>12, <1>13 DEF cells

LEMMA MapStep == MapCountsAll /\ [CaptureNext]_captureVars => MapCountsAll'
<1> SUFFICES ASSUME MapCountsAll, [CaptureNext]_captureVars PROVE MapCountsAll'
  OBVIOUS
<1>1. ASSUME answered' = answered PROVE MapCountsAll'
  BY <1>1 DEF MapCountsAll, AnswersOf
<1>2. ASSUME answered' = <<>> PROVE MapCountsAll'
  BY <1>2 DEF MapCountsAll, AnswersOf, ToSet
<1>3. ASSUME NEW a, answered' = <<a>>, a.kind # "map" PROVE MapCountsAll'
  BY <1>3 DEF MapCountsAll, AnswersOf, ToSet
<1>4. ASSUME NEW facets \in Facets, heatmap(facets) PROVE MapCountsAll'
  <2> DEFINE a == [kind |-> "map", asked |-> facets, found |-> build(facets), by |-> summarise_by_clearance(build(facets))]
  <2>1. answered' = <<a>>
    BY <1>4 DEF heatmap
  <2>2. a.asked = facets /\ a.found = build(facets) /\ a.by = summarise_by_clearance(build(facets))
    OBVIOUS
  <2> HIDE DEF a
  <2>3. ToSet(answered') = {a}
    BY <2>1 DEF ToSet
  <2>4. PICK n \in Nat : n = Len(facets) /\ DOMAIN facets = 1..n
    BY CaptureAssumption
  <2>5. TotalCount(build(facets)) = n
    <3> DEFINE cells == build(facets)
    <3>1. \A i \in DOMAIN facets : \E d \in cells : d.key = KeyOf(facets[i])
      BY <2>4, CellsOf
    <3>2. UNION {InCell(facets, d.key) : d \in cells} = 1..n
      <4> HIDE DEF cells
      <4> QED  BY <2>4, <3>1 DEF InCell
    <3>3. Cardinality(1..n) = n
      BY FS_Interval
    <3>4. TotalCount(cells) = Cardinality(UNION {InCell(facets, d.key) : d \in cells})
      BY <2>4, CellsAddUp
    <3> QED  BY <3>2, <3>3, <3>4
  <2>6. TotalCount(summarise_by_clearance(build(facets))) = n
    BY <2>4, SummaryAddsUp
  <2>7. \A c \in build(facets) : c.now <= c.count
    BY <2>4, CellsOf
  <2> QED  BY <2>2, <2>3, <2>4, <2>5, <2>6, <2>7 DEF MapCountsAll, AnswersOf
<1>5. ASSUME NEW p \in Prospects, NEW o \in Opportunities, loi_draft(p, o) PROVE MapCountsAll'
  BY <1>2, <1>5 DEF loi_draft
<1>6. ASSUME NEW ids, loi_package(ids) PROVE MapCountsAll'
  BY <1>3, <1>6 DEF loi_package
<1>7. CASE CaptureRestart
  BY <1>2, <1>7 DEF CaptureRestart
<1>8. ASSUME NEW list \in Requirements, feasibility(list) PROVE MapCountsAll'
  BY <1>3, <1>8 DEF feasibility
<1>9. CASE UNCHANGED captureVars
  BY <1>1, <1>9 DEF captureVars
<1> QED  BY <1>4, <1>5, <1>6, <1>7, <1>8, <1>9 DEF CaptureNext

\* For all inputs, ties, empty lists and limits included, the winner, the route,
\* the stage to blame, the alerts, the cells of the heat map and the averages are
\* those a plain definition gives; and whatever the index looks at, hits meet their
\* query.
THEOREM ChoicesAreTheBest == PlatformSpec => []ChoicesAreBest
<1>1. StagesInv /\ ArmsInv /\ ScoresInv /\ SearchInv /\ RoutedToTheBest /\ UrgentFirst /\ MapCountsAll /\ AverageBetweenScores
        => ChoicesAreBest
  BY ArmsInvWins, BlamesWorst, SearchInvMeets DEF ChoicesAreBest, StagesInv, StagesTypeOK
<1>2. /\ AbInit => ArmsInv
      /\ MonitorInit => RoutedToTheBest
      /\ BenchInit => UrgentFirst
      /\ CaptureInit => MapCountsAll
      /\ OutcomesInit => AverageBetweenScores
  <2>1. ToSet(<<>>) = {}
    BY DEF ToSet
  <2>2. AbInit => ArmsInv
    <3>1. <<>> \in Seq([name : Arms, sent : Nat, responded : Nat]) /\ DOMAIN <<>> = {}
      OBVIOUS
    <3> QED  BY <3>1 DEF AbInit, ArmsInv
  <2>3. MonitorInit => RoutedToTheBest
    BY <2>1 DEF MonitorInit, RoutedToTheBest
  <2>4. BenchInit => UrgentFirst
    <3>1. DOMAIN <<>> = {}
      OBVIOUS
    <3> QED  BY <3>1 DEF BenchInit, UrgentFirst
  <2>5. CaptureInit => MapCountsAll
    BY <2>1 DEF CaptureInit, MapCountsAll, AnswersOf
  <2>6. OutcomesInit => AverageBetweenScores
    BY <2>1 DEF OutcomesInit, AverageBetweenScores
  <2> QED  BY <2>2, <2>3, <2>4, <2>5, <2>6
<1>3. PlatformSpec => [](StagesInv /\ ScoresInv /\ AlertsInv)
  BY StartOfServices, StepOfServices, StagesInvInit, StagesInvStep, ScoresInvInit, ScoresInvStep,
     AlertsInvInit, AlertsInvStep, PTL DEF PlatformSpec
<1>4. AlertsInv => BenchTyped
  BY DEF AlertsInv
<1>5. PlatformSpec => [](ArmsInv /\ SearchInv /\ RoutedToTheBest /\ UrgentFirst /\ MapCountsAll /\ AverageBetweenScores)
  BY <1>2, <1>3, <1>4, StartOfServices, StepOfServices, ArmsInvStep, SearchInvInit, SearchInvStep, RoutedStep,
     UrgentFirstStep, MapStep, AverageStep, PTL DEF PlatformSpec
<1> QED  BY <1>1, <1>3, <1>5, PTL

-----------------------------------------------------------------------------
(* Types and bounds.  Most of them are part of the invariants above; what   *)
(* these leave open is proved here, service by service.                     *)

LEMMA SeqNarrows ==
    ASSUME NEW T, NEW U, NEW s \in Seq(T), \A i \in DOMAIN s : s[i] \in U
    PROVE  s \in Seq(U)
<1>1. Len(s) \in Nat /\ DOMAIN s = 1..Len(s) /\ s = [m \in 1..Len(s) |-> s[m]]
  BY SeqIsFun
<1>2. s \in [1..Len(s) -> U]
  BY <1>1
<1> QED  BY <1>1, <1>2

LEMMA PoolInvTyped == PoolInv => PoolTypeOK
<1> SUFFICES ASSUME PoolInv PROVE PoolTypeOK
  OBVIOUS
<1>1. ASSUME NEW q \in Reqs PROVE bucket[q] \in Seq(Item) /\ Cardinality(Keys(bucket[q])) = Len(bucket[q])
  <2>1. bucket[q] \in Seq(Item) /\ Distinct(bucket[q])
    BY DEF PoolInv
  <2>2. /\ Len(bucket[q]) \in Nat /\ DOMAIN bucket[q] = 1..Len(bucket[q]) /\ IsFiniteSet(DOMAIN bucket[q])
        /\ Cardinality(DOMAIN bucket[q]) = Len(bucket[q])
        /\ \A i \in DOMAIN bucket[q] : RankKey(bucket[q])[i] = bucket[q][i].rank
    BY <2>1, BucketIs
  <2>3. OneToOne(RankKey(bucket[q]), DOMAIN bucket[q])
    BY <2>1, <2>2 DEF OneToOne, Distinct
  <2>4. Cardinality(ImageOf(RankKey(bucket[q]), DOMAIN bucket[q])) = Len(bucket[q])
    BY <2>2, <2>3, AsMany
  <2>5. ImageOf(RankKey(bucket[q]), DOMAIN bucket[q]) = Keys(bucket[q])
    BY <2>2 DEF ImageOf, Keys, ToSet
  <2> QED  BY <2>1, <2>4, <2>5
<1>2. promoted \in Seq([req : Reqs, no : Made])
  <2> DEFINE Anyone == [req : Reqs, no : Numbers]
             Somebody == [req : Reqs, no : Made]
  <2>1. promoted \in Seq(Anyone)
    BY DEF PoolInv
  <2>2. Out \subseteq Made
    BY DEF PoolInv
  <2>3. ASSUME NEW i \in DOMAIN promoted PROVE promoted[i] \in Somebody
    <3> HIDE DEF Anyone
    <3>1. promoted[i] \in Anyone
      BY <2>1
    <3>2. promoted[i].no \in Made
      BY <2>2 DEF Out
    <3> QED  BY <3>1, <3>2 DEF Anyone
  <2> HIDE DEF Anyone, Somebody
  <2>4. promoted \in Seq(Somebody)
    BY <2>1, <2>3, SeqNarrows
  <2> QED  BY <2>4 DEF Somebody
<1> QED  BY <1>1, <1>2 DEF PoolInv, PoolTypeOK, Entry

TablesTyped ==
    /\ submissions \subseteq [client : Clients, expires : {NULL} \cup OwnershipDays]
    /\ rights \subseteq [client : Clients, expires : {NULL} \cup OwnershipDays, revoked : BOOLEAN]
    /\ dnc \subseteq Clients \cup {AnyClient} /\ ncs \subseteq {NULL} \cup OwnershipDays /\ day \in OwnershipDays

LEMMA TablesTypedStep == TablesTyped /\ [OwnershipNext]_ownershipVars => TablesTyped'
<1> SUFFICES ASSUME TablesTyped, [OwnershipNext]_ownershipVars PROVE TablesTyped'
  OBVIOUS
<1>1. CASE UNCHANGED <<submissions, rights, dnc, ncs, day>>
  BY <1>1 DEF TablesTyped
<1>2. CASE OtherPrograms
  <2> DEFINE Days == {NULL} \cup OwnershipDays
             Right == [client : Clients, expires : Days, revoked : BOOLEAN]
  <2>1. UNCHANGED day
    BY <1>2 DEF OtherPrograms
  <2>2. ASSUME NEW client \in Clients, NEW expires \in Days,
               \/ /\ submissions' = submissions \cup {[client |-> client, expires |-> expires]}
                  /\ UNCHANGED <<rights, dnc, ncs>>
               \/ /\ rights' = rights \cup {[client |-> client, expires |-> expires, revoked |-> FALSE]}
                  /\ UNCHANGED <<submissions, dnc, ncs>>
               \/ dnc' \in {dnc \cup {client}, dnc \cup {AnyClient}} /\ UNCHANGED <<submissions, rights, ncs>>
               \/ ncs' = ncs \cup {expires} /\ UNCHANGED <<submissions, rights, dnc>>
        PROVE  TablesTyped'
    <3>1. /\ [client |-> client, expires |-> expires, revoked |-> FALSE] \in Right
          /\ [client |-> client, expires |-> expires] \in [client : Clients, expires : Days]
      OBVIOUS
    <3>2. CASE submissions' = submissions \cup {[client |-> client, expires |-> expires]} /\ UNCHANGED <<rights, dnc, ncs>>
      BY <2>1, <3>1, <3>2 DEF TablesTyped
    <3>3. CASE /\ rights' = rights \cup {[client |-> client, expires |-> expires, revoked |-> FALSE]}
               /\ UNCHANGED <<submissions, dnc, ncs>>
      <4>1. rights \subseteq Right
        BY DEF TablesTyped
      <4>2. rights' \subseteq Right
        BY <3>1, <3>3, <4>1
      <4> QED  BY <2>1, <3>3, <4>2 DEF TablesTyped
    <3>4. CASE dnc' \in {dnc \cup {client}, dnc \cup {AnyClient}} /\ UNCHANGED <<submissions, rights, ncs>>
      BY <2>1, <3>4 DEF TablesTyped
    <3>5. CASE ncs' = ncs \cup {expires} /\ UNCHANGED <<submissions, rights, dnc>>
      BY <2>1, <3>5 DEF TablesTyped
    <3> QED  BY <2>2, <3>2, <3>3, <3>4, <3>5
  <2>3. ASSUME NEW r \in rights, rights' = (rights \ {r}) \cup {[r EXCEPT !.revoked = TRUE]},
               UNCHANGED <<submissions, dnc, ncs>>
        PROVE  TablesTyped'
    <3>1. r \in Right
      BY DEF TablesTyped
    <3>2. [r EXCEPT !.revoked = TRUE] \in Right
      BY <3>1
    <3> QED  BY <2>1, <2>3, <3>2 DEF TablesTyped
  <2>4. ASSUME NEW d \in dnc, dnc' = dnc \ {d}, UNCHANGED <<submissions, rights, ncs>>
        PROVE  TablesTyped'
    BY <2>1, <2>4 DEF TablesTyped
  <2>5. ASSUME NEW client \in Clients, NEW expires \in Days
        PROVE (\/ /\ submissions' = submissions \cup {[client |-> client, expires |-> expires]}
                  /\ UNCHANGED <<rights, dnc, ncs>>
               \/ /\ rights' = rights \cup {[client |-> client, expires |-> expires, revoked |-> FALSE]}
                  /\ UNCHANGED <<submissions, dnc, ncs>>
               \/ dnc' \in {dnc \cup {client}, dnc \cup {AnyClient}} /\ UNCHANGED <<submissions, rights, ncs>>
               \/ ncs' = ncs \cup {expires} /\ UNCHANGED <<submissions, rights, dnc>>) => TablesTyped'
    BY <2>2
  <2> HIDE DEF Right
  <2> QED  BY <1>2, <2>3, <2>4, <2>5 DEF OtherPrograms
<1>3. CASE Midnight
  BY <1>3, OwnershipAssumption DEF Midnight, TablesTyped, OwnershipDays
<1> QED  BY <1>1, <1>2, <1>3 DEF OwnershipNext, ownershipVars, ownership_submit, CheckOwnership, record_submission, Reached

LEMMA SubmitsAreTyped == OwnershipInv /\ TablesTyped => OwnershipTypeOK
<1> SUFFICES ASSUME OwnershipInv, TablesTyped PROVE OwnershipTypeOK
  OBVIOUS
<1>1. ASSUME NEW i \in DOMAIN submits PROVE submits[i] \in SubmitRequest
  BY DEF OwnershipInv, SubmitsTyped
<1>2. ASSUME NEW i \in DOMAIN submits
      PROVE  submits[i].pc \in {"exclusivity", "dnc", "insert", "refused", "error"}
  BY <1>1 DEF SubmitRequest
<1> QED  BY <1>2 DEF TablesTyped, OwnershipTypeOK

-----------------------------------------------------------------------------

\* Requests that have inserted a row.
RowsBy(ps) == {i \in DOMAIN ps : ps[i].pc \in {"audit", "created"}}

\* There are no more rows than requests, and no audit of another row.
RowsCounted ==
    /\ Len(posts) <= MaxCreateCalls /\ Len(employees) <= Cardinality(RowsBy(posts))
    /\ \A i \in DOMAIN posts : posts[i].pc = "audit" => posts[i].id \in 1..Len(employees)
    /\ auditLog \subseteq {"employee.create", "employee.update"} \X (1..MaxCreateCalls)

LEMMA RowsByFinite ==
    ASSUME NEW ps \in Seq(PostCall)
    PROVE  IsFiniteSet(RowsBy(ps)) /\ Cardinality(RowsBy(ps)) \in Nat /\ Cardinality(RowsBy(ps)) <= Len(ps)
<1>1. Len(ps) \in Nat /\ DOMAIN ps = 1..Len(ps)
  OBVIOUS
<1>2. IsFiniteSet(1..Len(ps)) /\ Cardinality(1..Len(ps)) = Len(ps)
  BY <1>1, FS_Interval
<1>3. RowsBy(ps) \subseteq 1..Len(ps)
  BY <1>1 DEF RowsBy
<1>4. IsFiniteSet(RowsBy(ps)) /\ Cardinality(RowsBy(ps)) <= Cardinality(1..Len(ps))
  BY <1>2, <1>3, FS_Subset
<1> QED  BY <1>2, <1>4, FS_CardinalityType

\* A request that goes on without inserting.
LEMMA PostMoves ==
    ASSUME RequestsTyped, RowsCounted, NEW i \in DOMAIN posts, NEW pc, posts' = [posts EXCEPT ![i].pc = pc],
           posts[i].pc \in {"audit", "created"} <=> pc \in {"audit", "created"}, pc # "audit", employees' = employees
    PROVE  /\ Len(posts') <= MaxCreateCalls /\ Len(employees') <= Cardinality(RowsBy(posts'))
           /\ \A j \in DOMAIN posts' : posts'[j].pc = "audit" => posts'[j].id \in 1..Len(employees')
<1>1. posts \in Seq(PostCall)
  BY DEF RequestsTyped
<1>2. /\ DOMAIN posts' = DOMAIN posts /\ Len(posts') = Len(posts)
      /\ \A j \in DOMAIN posts : j # i => posts'[j] = posts[j]
      /\ posts'[i] = [posts[i] EXCEPT !.pc = pc]
  BY <1>1
<1>3. posts'[i].pc = pc
  <2>1. posts[i] \in PostCall
    BY <1>1
  <2> QED  BY <1>2, <2>1 DEF PostCall
<1>4. RowsBy(posts') = RowsBy(posts)
  BY <1>2, <1>3 DEF RowsBy
<1> QED  BY <1>2, <1>3, <1>4 DEF RowsCounted

LEMMA RowsCountedStep == WorkforceInv /\ RowsCounted /\ [WorkforceNext]_workforceVars => RowsCounted'
<1> SUFFICES ASSUME WorkforceInv, RowsCounted, [WorkforceNext]_workforceVars PROVE RowsCounted'
  OBVIOUS
<1>0. /\ RequestsTyped /\ posts \in Seq(PostCall) /\ employees \in Seq(EmployeeRow) /\ patches \in Seq(PatchCall)
      /\ Len(employees) \in Nat /\ Len(posts) \in Nat /\ MaxCreateCalls \in Nat
      /\ Cardinality(RowsBy(posts)) \in Nat /\ IsFiniteSet(RowsBy(posts))
      /\ Cardinality(RowsBy(posts)) <= Len(posts)
  BY RowsByFinite, WorkforceAssumption DEF WorkforceInv, RequestsTyped
<1>1. CASE UNCHANGED <<posts, auditLog>> /\ Len(employees') = Len(employees)
  BY <1>1 DEF RowsCounted
<1>2. ASSUME NEW email \in Emails, PostEmployee(email) PROVE RowsCounted'
  <2>1. /\ DOMAIN posts' = DOMAIN posts \cup {Len(posts) + 1} /\ Len(posts') = Len(posts) + 1
        /\ \A j \in DOMAIN posts : posts'[j] = posts[j]
        /\ posts'[Len(posts) + 1].pc = "look" /\ Len(posts) < MaxCreateCalls
    BY <1>0, <1>2 DEF PostEmployee
  <2>2. RowsBy(posts') = RowsBy(posts)
    BY <1>0, <2>1 DEF RowsBy
  <2> QED  BY <1>0, <1>2, <2>1, <2>2 DEF PostEmployee, RowsCounted
<1>3. ASSUME NEW i \in DOMAIN posts, create_employee(i) PROVE RowsCounted'
  <2>1. PICK pc \in {"conflict", "insert"} : posts' = [posts EXCEPT ![i].pc = pc] /\ UNCHANGED <<employees, auditLog>>
    BY <1>3 DEF create_employee
  <2>2. posts[i].pc = "look"
    BY <1>3 DEF create_employee
  <2> QED  BY <1>0, <2>1, <2>2, PostMoves DEF RowsCounted
<1>4. ASSUME NEW i \in DOMAIN posts, insert_returning(i) PROVE RowsCounted'
  <2>0. posts[i].pc = "insert" /\ UNCHANGED auditLog
    BY <1>4 DEF insert_returning
  <2>1. CASE posts' = [posts EXCEPT ![i].pc = "error"] /\ UNCHANGED employees
    BY <1>0, <2>0, <2>1, PostMoves DEF RowsCounted
  <2>2. CASE /\ employees' = Append(employees, Row(posts[i].email))
             /\ posts' = [posts EXCEPT ![i].pc = "audit", ![i].id = Len(employees')]
    <3>1. Len(employees') = Len(employees) + 1
      BY <1>0, <2>2
    <3>2. /\ DOMAIN posts' = DOMAIN posts /\ Len(posts') = Len(posts)
          /\ \A j \in DOMAIN posts : j # i => posts'[j] = posts[j]
          /\ posts'[i] = [posts[i] EXCEPT !.pc = "audit", !.id = Len(employees')]
      BY <1>0, <2>2
    <3>3. posts'[i].pc = "audit" /\ posts'[i].id = Len(employees) + 1
      <4>1. posts[i] \in PostCall
        BY <1>0
      <4> QED  BY <3>1, <3>2, <4>1 DEF PostCall
    <3>4. RowsBy(posts') = RowsBy(posts) \cup {i} /\ i \notin RowsBy(posts)
      BY <2>0, <3>2, <3>3 DEF RowsBy
    <3>5. Cardinality(RowsBy(posts')) = Cardinality(RowsBy(posts)) + 1
      BY <1>0, <3>4, FS_AddElement
    <3>6. Len(employees') <= Cardinality(RowsBy(posts')) /\ Len(posts') <= MaxCreateCalls
      BY <1>0, <3>1, <3>2, <3>5 DEF RowsCounted
    <3>7. ASSUME NEW j \in DOMAIN posts', posts'[j].pc = "audit" PROVE posts'[j].id \in 1..Len(employees')
      <4>1. CASE j = i
        BY <1>0, <3>1, <3>3, <4>1
      <4>2. CASE j # i
        <5>1. posts'[j] = posts[j] /\ j \in DOMAIN posts
          BY <3>2, <4>2
        <5>2. posts[j].id \in 1..Len(employees)
          BY <3>7, <5>1 DEF RowsCounted
        <5> QED  BY <1>0, <3>1, <5>1, <5>2
      <4> QED  BY <4>1, <4>2
    <3> QED  BY <2>0, <3>6, <3>7 DEF RowsCounted
  <2> QED  BY <1>4, <2>1, <2>2 DEF insert_returning
<1>5. ASSUME NEW i \in DOMAIN posts, AuditPost(i) PROVE RowsCounted'
  <2>1. posts[i].pc = "audit" /\ posts' = [posts EXCEPT ![i].pc = "created"] /\ UNCHANGED employees
        /\ auditLog' \in {auditLog, auditLog \cup {<<"employee.create", posts[i].id>>}}
    BY <1>5 DEF AuditPost
  <2>2. posts[i].id \in 1..MaxCreateCalls
    BY <1>0, <2>1 DEF RowsCounted
  <2>3. /\ Len(posts') <= MaxCreateCalls /\ Len(employees') <= Cardinality(RowsBy(posts'))
        /\ \A j \in DOMAIN posts' : posts'[j].pc = "audit" => posts'[j].id \in 1..Len(employees')
    BY <1>0, <2>1, PostMoves
  <2>4. auditLog' \subseteq {"employee.create", "employee.update"} \X (1..MaxCreateCalls)
    BY <2>1, <2>2 DEF RowsCounted
  <2> QED  BY <2>3, <2>4 DEF RowsCounted
<1>6. ASSUME NEW n \in DOMAIN patches, AuditPatch(n) PROVE RowsCounted'
  <2>0. patches[n] \in PatchCall
    BY <1>0
  <2>1. patches[n].id \in 1..MaxCreateCalls
    BY <2>0 DEF PatchCall
  <2> QED  BY <1>6, <2>1 DEF AuditPatch, RowsCounted
<1>7. ASSUME NEW n \in DOMAIN patches, update_returning(n) PROVE RowsCounted'
  <2>1. UNCHANGED <<posts, auditLog>> /\ (employees' = employees \/ \E k, row : employees' = [employees EXCEPT ![k] = row])
    BY <1>7 DEF update_returning
  <2>2. Len(employees') = Len(employees)
    BY <1>0, <2>1
  <2> QED  BY <1>1, <2>1, <2>2
<1>8. ASSUME NEW id, NEW columns, NEW email, PatchEmployee(id, columns, email) PROVE RowsCounted'
  BY <1>1, <1>8 DEF PatchEmployee
<1>9. CASE UNCHANGED workforceVars
  BY <1>1, <1>9 DEF workforceVars
<1> QED  BY <1>2, <1>3, <1>4, <1>5, <1>6, <1>7, <1>8, <1>9 DEF WorkforceNext

LEMMA RowsAreTyped == WorkforceInv /\ RowsCounted => WorkforceTypeOK
<1> SUFFICES ASSUME WorkforceInv, RowsCounted PROVE WorkforceTypeOK
  OBVIOUS
<1>1. /\ \A i \in DOMAIN posts : posts[i] \in PostCall
      /\ \A n \in DOMAIN patches : patches[n] \in PatchCall
      /\ employees \in Seq(EmployeeRow)
  BY DEF WorkforceInv, RequestsTyped
<1>2. /\ \A i \in DOMAIN posts : posts[i].pc \in {"look", "insert", "audit", "created", "conflict", "error"}
      /\ \A n \in DOMAIN patches : patches[n].pc \in {"update", "audit", "done", "not found", "error"}
  BY <1>1 DEF PostCall, PatchCall
<1> QED  BY <1>1, <1>2 DEF RowsCounted, WorkforceTypeOK, EmployeeRow

-----------------------------------------------------------------------------

\* No arm has more replies than messages, nor more messages than the bound.
ArmsBounded == \A i \in DOMAIN arms : arms[i].sent \in 1..MaxSamples /\ arms[i].responded <= arms[i].sent

LEMMA ArmsBoundedStep == ArmsInv /\ ArmsBounded /\ [AbNext]_arms => ArmsBounded'
<1> SUFFICES ASSUME ArmsInv, ArmsBounded, [AbNext]_arms PROVE ArmsBounded'
  OBVIOUS
<1> DEFINE T == [name : Arms, sent : Nat, responded : Nat]
<1>1. CASE UNCHANGED arms
  BY <1>1 DEF ArmsBounded
<1>2. CASE AbRestart
  BY <1>2 DEF AbRestart, ArmsBounded
<1>3. ASSUME NEW arm \in Arms, NEW responded \in BOOLEAN, ab_record(arm, responded) PROVE ArmsBounded'
  <2> DEFINE hit == IF responded THEN 1 ELSE 0
  <2>1. hit \in 0..1
    OBVIOUS
  <2>2. arms' = IF arm \in KnownArms
                THEN [i \in DOMAIN arms |-> IF arms[i].name # arm THEN arms[i]
                                            ELSE [arms[i] EXCEPT !.sent = @ + 1, !.responded = @ + hit]]
                ELSE Append(arms, [name |-> arm, sent |-> 1, responded |-> hit])
    BY <1>3 DEF ab_record, ab_counts
  <2>7. \A i \in DOMAIN arms : arms[i].name = arm => arms[i].sent < MaxSamples
    BY <1>3 DEF ab_record
  <2> HIDE DEF hit
  <2>3. arms \in Seq(T) /\ DOMAIN arms = 1..Len(arms) /\ Len(arms) \in Nat
    BY DEF ArmsInv
  <2>4. \A i \in DOMAIN arms : arms[i] \in T
    <3> HIDE DEF T
    <3> QED  BY <2>3, EntryOf
  <2>5. CASE arm \in KnownArms
    <3> SUFFICES ASSUME NEW i \in DOMAIN arms
                 PROVE  arms'[i].sent \in 1..MaxSamples /\ arms'[i].responded <= arms'[i].sent
      BY <2>2, <2>5 DEF ArmsBounded
    <3>1. arms[i] \in T /\ arms[i].sent \in 1..MaxSamples /\ arms[i].responded <= arms[i].sent
      BY <2>4 DEF ArmsBounded
    <3>2. CASE arms[i].name # arm
      BY <2>2, <2>5, <3>1, <3>2
    <3>3. CASE arms[i].name = arm
      <4>1. arms'[i] = [arms[i] EXCEPT !.sent = @ + 1, !.responded = @ + hit]
        BY <2>2, <2>5, <3>3
      <4>2. arms'[i].sent = arms[i].sent + 1 /\ arms'[i].responded = arms[i].responded + hit
        BY <3>1, <4>1
      <4>3. arms[i].sent < MaxSamples
        BY <2>7, <3>3
      <4> QED  BY <2>1, <3>1, <4>2, <4>3, AbAssumption
    <3> QED  BY <3>2, <3>3
  <2>6. CASE arm \notin KnownArms
    <3> DEFINE new == [name |-> arm, sent |-> 1, responded |-> hit]
    <3>1. new \in T /\ new.sent = 1 /\ new.responded = hit
      BY <2>1
    <3>2. arms' = Append(arms, new)
      BY <2>2, <2>6
    <3> HIDE DEF new, T
    <3>5. arms \in Seq(T) /\ Len(arms) \in Nat /\ new \in T
      BY <2>3, <3>1
    <3>6. arms' \in Seq(T) /\ Len(arms') = Len(arms) + 1
      BY <3>2, <3>5
    <3>3. /\ DOMAIN arms' = 1..Len(arms) + 1 /\ DOMAIN arms = 1..Len(arms)
          /\ arms'[Len(arms) + 1] = new /\ \A i \in DOMAIN arms : arms'[i] = arms[i]
      BY <3>2, <3>5, <3>6
    <3>4. \A i \in DOMAIN arms' : i = Len(arms) + 1 \/ i \in DOMAIN arms
      BY <2>3, <3>3
    <3> QED  BY <2>1, <3>1, <3>3, <3>4, AbAssumption DEF ArmsBounded
  <2> QED  BY <2>5, <2>6
<1> QED  BY <1>1, <1>2, <1>3 DEF AbNext

LEMMA ArmsAreTyped == ArmsInv /\ ArmsBounded => AbTypeOK
<1> SUFFICES ASSUME ArmsInv, ArmsBounded PROVE AbTypeOK
  OBVIOUS
<1> DEFINE T == [name : Arms, sent : Nat, responded : Nat]
           U == [name : Arms, sent : 1..MaxSamples, responded : 0..MaxSamples]
           f == [i \in DOMAIN arms |-> arms[i].name]
<1>1. arms \in Seq(T) /\ DOMAIN arms = 1..Len(arms) /\ Len(arms) \in Nat
  BY DEF ArmsInv
<1>2. ASSUME NEW i \in DOMAIN arms PROVE arms[i] \in U /\ arms[i].responded <= arms[i].sent
  <2>1. arms[i] \in T
    <3> HIDE DEF T
    <3> QED  BY <1>1, EntryOf
  <2>2. arms[i].sent \in 1..MaxSamples /\ arms[i].responded <= arms[i].sent
    BY DEF ArmsBounded
  <2> QED  BY <2>1, <2>2, AbAssumption
<1>3. arms \in Seq(U)
  <2> HIDE DEF T, U
  <2> QED  BY <1>1, <1>2, SeqNarrows
<1>4. IsFiniteSet(DOMAIN arms) /\ Cardinality(DOMAIN arms) = Len(arms)
  BY <1>1, FS_Interval
<1>5. OneToOne(f, DOMAIN arms) /\ ImageOf(f, DOMAIN arms) = KnownArms
  BY DEF OneToOne, ImageOf, KnownArms, ArmsInv
<1>6. Cardinality(ImageOf(f, DOMAIN arms)) = Len(arms)
  <2> HIDE DEF f
  <2> QED  BY <1>4, <1>5, AsMany
<1> QED  BY <1>2, <1>3, <1>5, <1>6 DEF AbTypeOK

\* The answers get worse, so there are three at most.
Grade(s) == CASE s = "ok" -> 0 [] s = "warning" -> 1 [] OTHER -> 2

Worsening ==
    /\ stay.age <= MaxQuarters
    /\ severities # <<>> => Len(severities) <= Grade(Last(severities)) + 1

LEMMA WorseningStep == WarnedInv /\ Worsening /\ [MonitorNext]_monitorVars => Worsening'
<1> SUFFICES ASSUME WarnedInv, Worsening, [MonitorNext]_monitorVars PROVE Worsening'
  OBVIOUS
<1>0. MonitorTyped /\ stay.age \in Nat /\ stay.hour \in 0..3 /\ stay.stage \in Stage
  BY DEF WarnedInv, MonitorTyped
<1>1. CASE UNCHANGED <<stay, severities>>
  BY <1>1 DEF Worsening
<1>2. CASE Enter
  <2>1. severities' = <<>> /\ stay'.age = 0
    BY <1>2 DEF Enter
  <2> QED  BY <2>1, MonitorAssumption DEF Worsening
<1>3. CASE Quarter
  <2>1. stay.age < MaxQuarters /\ stay'.age = stay.age + 1 /\ severities' = severities
    BY <1>0, <1>3 DEF Quarter, MonitorTyped
  <2> QED  BY <1>0, <2>1, MonitorAssumption DEF Worsening
<1>4. CASE pipeline_health
  <2> DEFINE new == sla_evaluate(stay.stage, stay.age)
  <2>1. /\ stay' = stay /\ severities' = Append(severities, new)
        /\ severities # <<>> => new # Last(severities)
    BY <1>4 DEF pipeline_health
  <2>2. new \in {"ok", "warning", "breached"} /\ DEFAULT_BUDGETS(stay.stage) \in Nat
    BY BudgetType DEF sla_evaluate
  <2>3. severities' # <<>> /\ Last(severities') = new /\ Len(severities') = Len(severities) + 1 /\ Len(severities) \in Nat
    BY <1>0, <2>1, <2>2 DEF MonitorTyped, Last
  <2>4. CASE severities = <<>>
    BY <2>1, <2>2, <2>3, <2>4 DEF Worsening, Grade
  <2>5. CASE severities # <<>>
    <3>1. PICK a \in Nat : PolledAt(a)
      BY <2>5 DEF WarnedInv
    <3>2. a <= stay.age /\ Last(severities) = sla_evaluate(stay.stage, a)
      BY <3>1 DEF PolledAt
    <3>3. Grade(new) >= Grade(Last(severities)) + 1 /\ Grade(new) \in 0..2 /\ Grade(Last(severities)) \in 0..2
      <4> DEFINE old == Last(severities)
                 B   == DEFAULT_BUDGETS(stay.stage)
      <4>1. old = (CASE a >= 4 * B -> "breached" [] a >= 3 * B -> "warning" [] OTHER -> "ok")
        BY <3>2 DEF sla_evaluate
      <4>2. new = (CASE stay.age >= 4 * B -> "breached" [] stay.age >= 3 * B -> "warning" [] OTHER -> "ok")
        BY DEF sla_evaluate
      <4>3. new # old /\ B \in Nat /\ a <= stay.age
        BY <2>1, <2>2, <2>5, <3>2
      <4> HIDE DEF old, new, B
      <4>4. (old = "ok" /\ new \in {"warning", "breached"}) \/ (old = "warning" /\ new = "breached")
        <5>1. a \in Nat /\ stay.age \in Nat /\ B \in Nat /\ a <= stay.age
          BY <1>0, <4>3
        <5>2. CASE a >= 4 * B
          BY <4>1, <4>2, <4>3, <5>1, <5>2
        <5>3. CASE a >= 3 * B /\ ~(a >= 4 * B)
          BY <4>1, <4>2, <4>3, <5>1, <5>3
        <5>4. CASE ~(a >= 3 * B)
          <6>1. old = "ok" /\ new \in {"ok", "warning", "breached"}
            BY <4>1, <4>2, <5>1, <5>4
          <6> QED  BY <4>3, <6>1
        <5> QED  BY <5>1, <5>2, <5>3, <5>4
      <4> QED  BY <4>4 DEF Grade, old
    <3>4. Len(severities) <= Grade(Last(severities)) + 1
      BY <2>5 DEF Worsening
    <3>5. Len(severities') <= Grade(new) + 1
      BY <2>3, <3>3, <3>4
    <3> QED  BY <2>1, <2>3, <3>5 DEF Worsening
  <2> QED  BY <2>4, <2>5
<1> QED  BY <1>1, <1>2, <1>3, <1>4 DEF MonitorNext, monitorVars, pipeline_route

LEMMA MonitorIsTyped == WarnedInv /\ Worsening => MonitorTypeOK
<1> SUFFICES ASSUME WarnedInv, Worsening PROVE MonitorTypeOK
  OBVIOUS
<1>1. MonitorTyped /\ stay.age <= MaxQuarters
  BY DEF WarnedInv, Worsening
<1>2. Len(severities) <= 3
  <2>1. severities # <<>> => Grade(Last(severities)) <= 2
    BY DEF Grade
  <2>2. severities # <<>> => Grade(Last(severities)) \in 0..2 /\ Len(severities) <= Grade(Last(severities)) + 1
    BY DEF Worsening, Grade
  <2>3. Len(severities) \in Nat /\ (severities = <<>> => Len(severities) = 0)
    BY <1>1 DEF MonitorTyped
  <2> QED  BY <2>2, <2>3
<1>3. stay \in [stage : Stage, age : 0..MaxQuarters, hour : 0..3]
  BY <1>1, MonitorAssumption DEF MonitorTyped
<1> QED  BY <1>1, <1>2, <1>3 DEF MonitorTypeOK, MonitorTyped

\* An interview: what the properties of chats and cards leave open.
ChatTyped ==
    /\ chatFaults \in 0..MaxChatFaults /\ shown \in -1..5
    /\ sessions # <<>> => sessions[1].role \in Roles /\ sessions[1].completed \in BOOLEAN
    /\ evaluations # <<>> => evaluations[1].pc \in {"model", "audit", "done", "raised"}

LEMMA StandingInRubric ==
    ASSUME NEW role, NEW i \in Nat
    PROVE  Standing(i, Len(for_role(role))) \in 0..5
<1>1. PICK n : n = Len(for_role(role)) /\ n \in {4, 5}
  <2>1. for_role(role) \in {SALES_RUBRIC, SE_RUBRIC, CLEARED_RUBRIC}
    BY DEF for_role, RUBRICS
  <2>2. Len(SALES_RUBRIC) = 5 /\ Len(SE_RUBRIC) = 4 /\ Len(CLEARED_RUBRIC) = 4
    BY DEF SALES_RUBRIC, SE_RUBRIC, CLEARED_RUBRIC
  <2> QED  BY <2>1, <2>2
<1>2. Standing(i, n) \in 0..5
  BY <1>1 DEF Standing
<1> QED  BY <1>1, <1>2

LEMMA SessionFields ==
    ASSUME NEW s, NEW about, s = [role |-> s.role, asked |-> s.asked, answers |-> s.answers, next |-> s.next,
                                  completed |-> s.completed]
    PROVE  submit_answer(s, about).role = s.role /\ submit_answer(s, about).completed \in {TRUE, s.completed}
<1>1. CASE s.next >= Len(for_role(s.role))
  <2>1. submit_answer(s, about)
          = [[[s EXCEPT !.answers = Append(@, about)] EXCEPT !.completed = TRUE] EXCEPT !.asked = Append(@, 0)]
    BY <1>1 DEF submit_answer
  <2> QED  BY <2>1
<1>2. CASE ~(s.next >= Len(for_role(s.role)))
  <2>1. submit_answer(s, about)
          = [[[s EXCEPT !.answers = Append(@, about)] EXCEPT !.asked = Append(@, s.next + 1)] EXCEPT !.next = @ + 1]
    BY <1>2 DEF submit_answer
  <2> QED  BY <2>1
<1> QED  BY <1>1, <1>2

LEMMA ChatTypedStep == ChatInv /\ CardInv /\ ChatTyped /\ [InterviewNext]_interviewVars => ChatTyped'
<1> SUFFICES ASSUME ChatInv, CardInv, ChatTyped, [InterviewNext]_interviewVars PROVE ChatTyped'
  OBVIOUS
<1> DEFINE Pcs == {"model", "audit", "done", "raised"}
           Talk == /\ chatFaults' \in 0..MaxChatFaults /\ shown' \in -1..5
                   /\ sessions' # <<>> => sessions'[1].role \in Roles /\ sessions'[1].completed \in BOOLEAN
           Eval == evaluations' # <<>> => evaluations'[1].pc \in Pcs
<1>1. UNCHANGED <<sessions, shown, chatFaults>> => Talk
  BY DEF ChatTyped
<1>2. UNCHANGED evaluations => Eval
  BY DEF ChatTyped
<1>3. ASSUME NEW pc \in Pcs, evaluations # <<>>, evaluations' = [evaluations EXCEPT ![1].pc = pc] PROVE Eval
  <2>1. DOMAIN evaluations = {1} /\ Carded(evaluations[1])
    BY <1>3 DEF CardInv
  <2>2. evaluations'[1] = [evaluations[1] EXCEPT !.pc = pc]
    BY <1>3, <2>1
  <2>3. evaluations'[1].pc = pc
    BY <2>1, <2>2 DEF Carded
  <2> QED  BY <1>3, <2>3
<1>4. CASE chat_start
  <2>1. PICK role \in Roles : sessions' = <<start_chat(role)>> /\ shown' = 1 /\ chatFaults' = chatFaults
    BY <1>4 DEF chat_start
  <2>2. sessions'[1].role = role /\ sessions'[1].completed \in BOOLEAN
    BY <2>1 DEF start_chat
  <2>3. UNCHANGED evaluations
    BY <1>4 DEF chat_start
  <2>4. Talk
    BY <2>1, <2>2 DEF ChatTyped
  <2> QED  BY <1>2, <2>3, <2>4 DEF ChatTyped
<1>5. CASE chat_answer
  <2>1. CASE sessions = <<>>
    BY <1>2, <1>5, <2>1 DEF chat_answer, ChatTyped
  <2>2. CASE sessions # <<>>
    <3> DEFINE s == sessions[1]
               t == submit_answer(s, shown)
    <3>1. /\ sessions' = <<t>>
          /\ \/ shown' = Last(sessions'[1].asked) /\ chatFaults' = chatFaults
             \/ chatFaults < MaxChatFaults /\ chatFaults' = chatFaults + 1 /\ shown' = shown
      <4> HIDE DEF t
      <4> QED  BY <1>5, <2>2 DEF chat_answer, ChatFault, t
    <3>2. KeptOrder(s, shown, chatFaults) /\ chatFaults \in Nat
      BY <2>2 DEF ChatInv
    <3>3. KeptOrder(t, Last(t.asked), chatFaults)
      BY <3>2, AnswerKeepsOrder
    <3>4. t.role = s.role /\ t.completed \in {TRUE, s.completed}
      BY <3>2, SessionFields DEF KeptOrder
    <3> HIDE DEF t
    <3>5. Last(t.asked) \in 0..5
      <4>1. PICK k \in Nat : Len(t.answers) = k
        BY <3>3 DEF KeptOrder
      <4>2. t.asked \in Seq(Int) /\ Len(t.asked) = k + 1 /\ \A i \in 1..k + 1 : t.asked[i] = Standing(i, Len(for_role(t.role)))
        BY <3>3, <4>1 DEF KeptOrder
      <4>3. Last(t.asked) = Standing(k + 1, Len(for_role(t.role)))
        BY <4>2 DEF Last
      <4> QED  BY <4>3, StandingInRubric
    <3>6. sessions'[1] = t
      BY <3>1
    <3>7. s.role \in Roles /\ s.completed \in BOOLEAN /\ chatFaults \in 0..MaxChatFaults /\ shown \in -1..5
      BY <2>2 DEF ChatTyped
    <3>8. chatFaults' \in 0..MaxChatFaults /\ shown' \in -1..5
      BY <3>1, <3>5, <3>6, <3>7, InterviewAssumption
    <3> QED  BY <1>2, <1>5, <3>4, <3>6, <3>7, <3>8 DEF ChatTyped, chat_answer
  <2> QED  BY <2>1, <2>2
<1>6. CASE AuditEvaluation
  BY <1>1, <1>3, <1>6 DEF AuditEvaluation, At, ChatTyped
<1>7. CASE InterviewRestart
  <2>1. Talk
    BY <1>7, InterviewAssumption DEF InterviewRestart, ChatFault, ChatTyped
  <2>2. Eval
    BY <1>2, <1>3, <1>7 DEF InterviewRestart, At, ChatTyped
  <2> QED  BY <2>1, <2>2 DEF ChatTyped
<1>8. ASSUME NEW role \in Roles, evaluate(role) PROVE ChatTyped'
  <2>1. evaluations'[1].pc = "model"
    BY <1>8 DEF evaluate
  <2> QED  BY <1>8, <2>1 DEF evaluate, ChatTyped
<1>9. ASSUME NEW e \in Evaluations, evaluate_transcript(e) PROVE ChatTyped'
  <2>1. DOMAIN evaluations = {1} /\ Carded(evaluations[1]) /\ evaluations # <<>>
    BY <1>9 DEF CardInv, evaluate_transcript, At
  <2>2. CASE e.json /\ ~e.valid
    BY <1>1, <1>3, <1>9, <2>1, <2>2 DEF evaluate_transcript, ChatTyped
  <2>3. CASE ~(e.json /\ ~e.valid)
    <3> DEFINE card == CardOf(e, evaluations[1].role)
               stub == ~e.json
    <3>1. evaluations' = [evaluations EXCEPT ![1].pc = "audit", ![1].stub = stub, ![1].card = <<card>>]
      BY <1>9, <2>3 DEF evaluate_transcript
    <3> HIDE DEF card, stub
    <3>2. evaluations'[1] = [[[evaluations[1] EXCEPT !.pc = "audit"] EXCEPT !.stub = stub] EXCEPT !.card = <<card>>]
      BY <2>1, <3>1
    <3> DEFINE v == evaluations[1]
    <3>3. v = [role |-> v.role, pc |-> v.pc, card |-> v.card, stub |-> v.stub]
      BY <2>1 DEF Carded
    <3> HIDE DEF v
    <3>4. evaluations'[1].pc = "audit"
      BY <3>2, <3>3 DEF v
    <3> QED  BY <1>9, <3>4 DEF evaluate_transcript, ChatTyped
  <2> QED  BY <2>2, <2>3
<1> QED  BY <1>1, <1>2, <1>4, <1>5, <1>6, <1>7, <1>8, <1>9 DEF InterviewNext, interviewVars, ChatTyped

LEMMA InterviewIsTyped == ChatInv /\ CardInv /\ ChatTyped => InterviewTypeOK
<1> SUFFICES ASSUME ChatInv, CardInv, ChatTyped PROVE InterviewTypeOK
  OBVIOUS
<1>1. ASSUME NEW s \in ToSet(sessions)
      PROVE  /\ s.role \in Roles /\ s.next \in Nat /\ s.completed \in BOOLEAN
             /\ s.asked \in Seq(0..5) /\ Len(s.asked) = Len(s.answers) + 1
  <2>1. sessions # <<>>
    BY DEF ToSet
  <2>2. DOMAIN sessions = {1} /\ KeptOrder(sessions[1], shown, chatFaults)
    BY <2>1 DEF ChatInv
  <2>3. s = sessions[1]
    BY <2>2 DEF ToSet
  <2>4. PICK k \in Nat : Len(s.answers) = k
    BY <2>2, <2>3 DEF KeptOrder
  <2> DEFINE n == Len(for_role(s.role))
  <2>5. /\ s.asked \in Seq(Int) /\ Len(s.asked) = k + 1 /\ \A i \in 1..k + 1 : s.asked[i] = Standing(i, n)
        /\ s.next = IF k < n THEN k + 1 ELSE n
    BY <2>2, <2>3, <2>4 DEF KeptOrder
  <2>6. n \in Nat /\ \A i \in 1..k + 1 : Standing(i, n) \in 0..5
    BY RubricLength, StandingInRubric
  <2> HIDE DEF n
  <2>7. s.asked \in Seq(0..5)
    BY <2>5, <2>6, SeqNarrows
  <2> QED  BY <2>1, <2>3, <2>4, <2>5, <2>6, <2>7 DEF ChatTyped
<1>2. ASSUME NEW v \in ToSet(evaluations) PROVE v.pc \in {"model", "audit", "done", "raised"}
  <2>1. evaluations # <<>>
    BY DEF ToSet
  <2>2. v = evaluations[1]
    BY <2>1 DEF CardInv, ToSet
  <2> QED  BY <2>1, <2>2 DEF ChatTyped
<1> QED  BY <1>1, <1>2 DEF InterviewTypeOK, ChatTyped

-----------------------------------------------------------------------------

\* The table of candidates: what the properties of its rows leave open.
RowsTyped ==
    /\ \A i \in DOMAIN rows : rows[i].who \in People
    /\ year \in 0..LastYear /\ lost \in 0..MaxLost

LEMMA RowsTypedStep == ScoresInv /\ RowsTyped /\ [CandidatesNext]_candidateVars => RowsTyped'
<1> SUFFICES ASSUME ScoresInv, RowsTyped, [CandidatesNext]_candidateVars PROVE RowsTyped'
  OBVIOUS
<1>0. MaxLost \in Nat /\ LastYear \in Nat
  <2>1. {LastYear, MaxCreates, MaxLost} \subseteq Nat
    BY CandidatesAssumption, Zenon
  <2> QED  BY <2>1
<1>9. UNCHANGED lost \/ Lose => lost' \in 0..MaxLost
  BY <1>0 DEF RowsTyped, Lose
<1>1. CASE UNCHANGED <<rows, year>> /\ (UNCHANGED lost \/ Lose)
  BY <1>1, <1>9 DEF RowsTyped
<1>2. ASSUME NEW i \in DOMAIN creates, insert(i) PROVE RowsTyped'
  <2> DEFINE p == AsPosted(i)
             score == IF p.clearance # "none" THEN deployability_score(p, year) ELSE Unscored
             row == [who |-> creates[i].who, as |-> p, score |-> score]
  <2>1. year' = year /\ (rows' = Append(rows, row) \/ rows' = rows) /\ (UNCHANGED lost \/ Lose)
    BY <1>2 DEF insert, RolledBack
  <2>2. row.who \in People
    BY DEF ScoresInv
  <2> HIDE DEF row
  <2>3. DOMAIN rows = 1..Len(rows) /\ Len(rows) \in Nat
    BY DEF ScoresInv
  <2>4. \A j \in DOMAIN rows' : rows'[j] = row \/ (j \in DOMAIN rows /\ rows'[j] = rows[j])
    BY <2>1, <2>3
  <2>5. \A j \in DOMAIN rows' : rows'[j].who \in People
    BY <2>2, <2>4 DEF RowsTyped
  <2>6. lost' \in 0..MaxLost
    BY <1>9, <2>1
  <2> QED  BY <2>1, <2>5, <2>6 DEF RowsTyped
<1>3. CASE NewYear
  BY <1>0, <1>3 DEF NewYear, RowsTyped
<1>4. ASSUME NEW person \in People, NEW via, NEW no, Receive(person, via, no) PROVE RowsTyped'
  BY <1>1, <1>4 DEF Receive
<1>5. ASSUME NEW i \in DOMAIN creates, Embed(i) PROVE RowsTyped'
  BY <1>1, <1>5 DEF Embed
<1>6. CASE \E q \in Queries : search_candidates(q)
  BY <1>1, <1>6 DEF search_candidates
<1> QED  BY <1>1, <1>2, <1>3, <1>4, <1>5, <1>6
    DEF CandidatesNext, candidateVars, create_candidate, candidate_from_resume

LEMMA CandidatesAreTyped == ScoresInv /\ RowsInv /\ RowsTyped => CandidatesTypeOK
<1> SUFFICES ASSUME ScoresInv, RowsInv, RowsTyped PROVE CandidatesTypeOK
  OBVIOUS
<1>1. ASSUME NEW i \in DOMAIN rows PROVE rows[i].score \in {Unscored} \cup 0..100
  <2>1. CASE rows[i].score # Unscored
    <3>1. Scorable(rows[i].as) /\ \E y \in 0..year : rows[i].score = deployability_score(rows[i].as, y)
      BY <2>1 DEF ScoresInv
    <3>2. PICK y \in 0..year : rows[i].score = deployability_score(rows[i].as, y)
      BY <3>1
    <3>3. y \in Int /\ y <= y
      BY <3>2
    <3>4. deployability_score(rows[i].as, y) \in 0..100
      BY <3>1, <3>3, ScoreFalls
    <3> QED  BY <3>2, <3>4
  <2> QED  BY <2>1
<1>2. ASSUME NEW i \in DOMAIN creates
      PROVE  creates[i].pc \in {"refused", "embed", "insert", "created", "unheard", "error"}
  <2>1. creates[i] \in Creation
    BY EntryOf DEF RowsInv
  <2> QED  BY <2>1 DEF Creation
<1> QED  BY <1>1, <1>2 DEF CandidatesTypeOK, RowsTyped

\* No model has a number above the last one's.
ModelsBounded ==
    /\ trained <= MaxTrainings
    /\ \A f \in FeatureSets : loaded[f] <= trained /\ file[f] <= trained

LEMMA ModelsBoundedStep == ModelsInv /\ ModelsBounded /\ [OutcomesNext]_outcomeVars => ModelsBounded'
<1> SUFFICES ASSUME ModelsInv, ModelsBounded, [OutcomesNext]_outcomeVars PROVE ModelsBounded'
  OBVIOUS
<1> USE DEF Missing, Torn, Synthetic
<1>0. /\ loaded \in [FeatureSets -> Nat] /\ file \in [FeatureSets -> Int] /\ trained \in Nat \ {0}
      /\ training # <<>> => training[1] \in FeatureSets /\ training[2] \in 1..trained
      /\ trained <= MaxTrainings /\ MaxTrainings \in Nat
      /\ \A f \in FeatureSets : loaded[f] <= trained /\ file[f] <= trained
  BY OutcomesAssumption DEF ModelsInv, ModelsBounded
<1>1. CASE UNCHANGED <<loaded, file, trained>>
  BY <1>1 DEF ModelsBounded
<1>2. ASSUME NEW f \in FeatureSets, NEW v \in Int, v <= trained, trained' = trained,
             \/ file' = [file EXCEPT ![f] = v] /\ loaded' = loaded
             \/ loaded' = [loaded EXCEPT ![f] = v] /\ file' = file
      PROVE  ModelsBounded'
  BY <1>0, <1>2 DEF ModelsBounded
<1>3. ASSUME NEW f \in FeatureSets, lifespan(f) PROVE ModelsBounded'
  <2>1. UNCHANGED <<loaded, file, trained>> \/ (loaded' = [loaded EXCEPT ![f] = file[f]] /\ UNCHANGED <<file, trained>>)
    BY <1>3 DEF lifespan
  <2> QED  BY <1>0, <1>1, <1>2, <2>1
<1>4. ASSUME NEW f \in FeatureSets, retrain(f) PROVE ModelsBounded'
  <2>1. trained < MaxTrainings /\ trained' = trained + 1 /\ UNCHANGED <<loaded, file>>
    BY <1>4 DEF retrain
  <2> QED  BY <1>0, <2>1 DEF ModelsBounded
<1>5. CASE save
  <2>1. PICK v \in {Torn, training[2]} :
           training # <<>> /\ file' = [file EXCEPT ![training[1]] = v] /\ UNCHANGED <<loaded, trained>>
    BY <1>5 DEF save
  <2>2. v \in Int /\ v <= trained
    BY <1>0, <2>1
  <2> QED  BY <1>0, <1>2, <2>1, <2>2
<1>6. CASE Swap
  <2>1. training # <<>> /\ loaded' = [loaded EXCEPT ![training[1]] = training[2]] /\ UNCHANGED <<file, trained>>
    BY <1>6 DEF Swap
  <2>2. training[1] \in FeatureSets /\ training[2] \in Int /\ training[2] <= trained /\ trained' = trained
    BY <1>0, <2>1
  <2> QED  BY <1>2, <2>1, <2>2
<1>7. CASE Stop
  <2>1. loaded' = [f \in FeatureSets |-> Missing] /\ UNCHANGED <<file, trained>>
    BY <1>7 DEF Stop
  <2> QED  BY <1>0, <2>1 DEF ModelsBounded
<1>8. CASE Launch \/ retention_score
  BY <1>1, <1>8 DEF Launch, retention_score
<1> QED  BY <1>1, <1>3, <1>4, <1>5, <1>6, <1>7, <1>8 DEF OutcomesNext, outcomeVars

LEMMA ModelsAreTyped == ModelsInv /\ ModelsBounded => OutcomesTypeOK
<1> SUFFICES ASSUME ModelsInv, ModelsBounded PROVE OutcomesTypeOK
  OBVIOUS
<1>1. /\ loaded \in [FeatureSets -> Nat] /\ file \in [FeatureSets -> Int] /\ retrained \in [FeatureSets -> Nat]
      /\ trained \in Nat \ {0} /\ trained <= MaxTrainings /\ MaxTrainings \in Nat
      /\ \A f \in FeatureSets : loaded[f] <= trained /\ file[f] <= trained /\ retrained[f] <= trained /\ file[f] >= -1
  BY OutcomesAssumption DEF ModelsInv, ModelsBounded, Torn
<1>2. /\ loaded \in [FeatureSets -> 0..MaxTrainings] /\ file \in [FeatureSets -> -1..MaxTrainings]
      /\ retrained \in [FeatureSets -> 0..MaxTrainings]
  BY <1>1
<1> QED  BY <1>1, <1>2 DEF OutcomesTypeOK, ModelsInv

\* The dashboard of a contractor: one alert for each date at most.
AlertsTyped == record.offset \in Offsets \cup {0} /\ Len(alerts) <= 2

LEMMA AtMostTwoAlerts == BenchTyped => Len(evaluate_bench) <= 2
<1> SUFFICES ASSUME BenchTyped PROVE Len(evaluate_bench) <= 2
  OBVIOUS
<1> DEFINE list == evaluate_contractor
           S == DOMAIN list
           key == [i \in S |-> list[i].days]
<1>1. S = 1..Len(list) /\ Len(list) \in 0..2
  <2> DEFINE r(d) == [about |-> d, severity |-> SeverityOf(d), days |-> DaysTo(d)]
             a == Alert("contract_end_date")
             b == Alert("clearance_expiry_date")
             R == {r("contract_end_date"), r("clearance_expiry_date")}
  <2>1. a \in {<<>>, <<r("contract_end_date")>>} /\ b \in {<<>>, <<r("clearance_expiry_date")>>}
    BY DEF Alert
  <2>2. r("contract_end_date") \in R /\ r("clearance_expiry_date") \in R
    OBVIOUS
  <2> HIDE DEF r, R, a, b
  <2>3. \A x \in R : <<x>> \in Seq(R) /\ Len(<<x>>) = 1
    OBVIOUS
  <2>4. <<>> \in Seq(R) /\ Len(<<>>) = 0
    OBVIOUS
  <2>5. a \in Seq(R) /\ Len(a) \in 0..1
    <3>1. CASE a = <<>>
      BY <2>4, <3>1
    <3>2. CASE a = <<r("contract_end_date")>>
      BY <2>2, <2>3, <3>2
    <3> QED  BY <2>1, <3>1, <3>2
  <2>6. b \in Seq(R) /\ Len(b) \in 0..1
    <3>1. CASE b = <<>>
      BY <2>4, <3>1
    <3>2. CASE b = <<r("clearance_expiry_date")>>
      BY <2>2, <2>3, <3>2
    <3> QED  BY <2>1, <3>1, <3>2
  <2>7. a \o b \in Seq(R) /\ Len(a \o b) = Len(a) + Len(b)
    BY <2>5, <2>6
  <2>8. list = a \o b
    BY DEF evaluate_contractor, a, b
  <2> HIDE DEF list
  <2> QED  BY <2>5, <2>6, <2>7, <2>8
<1>2. \A i \in S : list[i].days \in Int
  BY AlertsOfRecord
<1>3. evaluate_bench = Sorted(list, S, key)
  BY DEF evaluate_bench, ByDays
<1> HIDE DEF list, S
<1>4. IsFiniteSet(S) /\ S \subseteq Int /\ Cardinality(S) \in 0..2
  <2>1. PICK n \in 0..2 : S = 1..n
    BY <1>1
  <2>2. IsFiniteSet(1..n) /\ Cardinality(1..n) = n
    <3>1. n \in Int /\ 1 \in Int /\ (n # 0 => 1 <= n) /\ (n = 0 => 1 > n)
      BY <2>1
    <3> QED  BY <3>1, FS_Interval
  <2> QED  BY <2>1, <2>2
<1>5. \A i \in S : key[i] \in Int
  BY <1>2 DEF S
<1> HIDE DEF key
<1>6. PICK f : Ascends(Sorted(list, S, key), list, f, S, key)
  BY ONLY <1>4, <1>5, SortedAscends
<1>7. evaluate_bench = [n \in 1..Cardinality(S) |-> list[f[n]]]
  BY <1>3, <1>6 DEF Ascends
<1>8. Len(evaluate_bench) = Cardinality(S)
  BY <1>4, <1>7
<1> QED  BY <1>4, <1>8

LEMMA AlertsTypedStep == BenchTyped /\ AlertsTyped /\ [BenchNext]_benchVars => AlertsTyped'
<1> SUFFICES ASSUME BenchTyped, AlertsTyped, [BenchNext]_benchVars PROVE AlertsTyped'
  OBVIOUS
<1>1. alerts' \in {alerts, <<>>, evaluate_bench}
  BY DEF BenchNext, benchVars, PlaceContractor, bench_evaluate, NextDay, Month, Engage
<1>2. Len(alerts') <= 2
  BY <1>1, AtMostTwoAlerts DEF AlertsTyped
<1>3. record' = record \/ record'.offset \in Offsets
  BY DEF BenchNext, benchVars, PlaceContractor, bench_evaluate, NextDay, Month, Engage
<1>4. record'.offset \in Offsets \cup {0}
  BY <1>3 DEF AlertsTyped
<1> QED  BY <1>2, <1>4 DEF AlertsTyped

\* An intake: what ReportInv leaves open.
Sayings == Verdicts \cup {"undefined", "allowed"}

IntakeTyped ==
    /\ reloads \in 0..MaxReloads
    /\ intake.pc \in {"none", "asking", "reported", "failed"} /\ intake.verdicts \in Seq(Sayings)

LEMMA IntakeTypedStep == ReportInv /\ IntakeTyped /\ [AdvisoryNext]_advisoryVars => IntakeTyped'
<1> SUFFICES ASSUME ReportInv, IntakeTyped, [AdvisoryNext]_advisoryVars PROVE IntakeTyped'
  OBVIOUS
<1>0. intake = [pc |-> intake.pc, verdicts |-> intake.verdicts, overall |-> intake.overall, levers |-> intake.levers, remote |-> intake.remote]
  BY DEF ReportInv
<1>1. CASE UNCHANGED <<intake, reloads>>
  BY <1>1 DEF IntakeTyped
<1>2. CASE Reload
  BY <1>2, AdvisoryAssumption DEF Reload, IntakeTyped
<1>3. CASE advisory_intake
  <2>1. PICK url \in RulesUrlSet : intake' = [intake EXCEPT !.pc = "asking", !.remote = url] /\ reloads' = reloads
    BY <1>3 DEF advisory_intake
  <2>2. intake' = [pc |-> "asking", verdicts |-> intake.verdicts, overall |-> intake.overall, levers |-> intake.levers, remote |-> url]
    BY <1>0, <2>1
  <2>3. intake'.pc = "asking" /\ intake'.verdicts = intake.verdicts
    BY <2>2
  <2> QED  BY <2>1, <2>3 DEF IntakeTyped
<1>4. CASE analyze
  <2> DEFINE name == RulesAsked[Len(intake.verdicts) + 1]
             v == rules_evaluate(name)
             list == Append(intake.verdicts, v)
  <2>1. /\ reloads' = reloads /\ intake.pc = "asking"
        /\ intake' = IF v = "raised" THEN [intake EXCEPT !.pc = "failed"]
                     ELSE IF Len(list) < Len(RulesAsked) THEN [intake EXCEPT !.verdicts = list]
                     ELSE [intake EXCEPT !.verdicts = list, !.pc = "reported", !.overall = _roll_up(list),
                                         !.levers = _build_relaxations(list)]
    BY <1>4 DEF analyze
  <2>2. v \in Sayings \cup {"raised"}
    <3>1. intake.verdicts = <<>> \/ \E x : intake.verdicts = <<x>>
      BY <2>1, Zenon DEF ReportInv
    <3>2. Len(intake.verdicts) \in {0, 1}
      <4>1. Len(<<>>) = 0 /\ \A x : Len(<<x>>) = 1
        OBVIOUS
      <4> QED  BY <3>1, <4>1
    <3>3. name \in Questions
      <4>0. \A n \in {0, 1} : n + 1 = 1 \/ n + 1 = 2
        OBVIOUS
      <4>1. Len(intake.verdicts) + 1 = 1 \/ Len(intake.verdicts) + 1 = 2
        BY <3>2, <4>0, Zenon
      <4>2. name = RulesAsked[1] \/ name = RulesAsked[2]
        BY <4>1
      <4> HIDE DEF name
      <4> QED  BY <4>2, TheQuestions
    <3>5. policy \in [Questions -> Verdicts \cup Outages]
      BY DEF ReportInv
    <3> HIDE DEF name
    <3>4. policy[name] \in Verdicts \cup {"undefined", "error"}
      BY <3>3, <3>5 DEF Outages
    <3> QED  BY <3>4 DEF rules_evaluate, gateway, mock_evaluate, Sayings
  <2> HIDE DEF v
  <2>3. v # "raised" => list \in Seq(Sayings)
    BY <2>2 DEF IntakeTyped, Sayings
  <2> HIDE DEF list
  <2>4. CASE v = "raised"
    <3>1. intake'.pc = "failed" /\ intake'.verdicts = intake.verdicts
      BY <1>0, <2>1, <2>4
    <3> QED  BY <2>1, <3>1 DEF IntakeTyped
  <2>5. CASE v # "raised" /\ Len(list) < Len(RulesAsked)
    <3>1. intake'.pc = "asking" /\ intake'.verdicts = list
      BY <1>0, <2>1, <2>5
    <3> QED  BY <2>1, <2>3, <2>5, <3>1 DEF IntakeTyped
  <2>6. CASE v # "raised" /\ ~(Len(list) < Len(RulesAsked))
    <3> DEFINE all == _roll_up(list)
               levers == _build_relaxations(list)
    <3>1. intake' = [intake EXCEPT !.verdicts = list, !.pc = "reported", !.overall = all, !.levers = levers]
      BY <2>1, <2>6
    <3> HIDE DEF all, levers
    <3>2. intake' = [pc |-> "reported", verdicts |-> list, overall |-> all, levers |-> levers, remote |-> intake.remote]
      BY <1>0, <3>1
    <3>3. intake'.pc = "reported" /\ intake'.verdicts = list
      BY <3>2
    <3> QED  BY <2>1, <2>3, <2>6, <3>3 DEF IntakeTyped
  <2> QED  BY <2>4, <2>5, <2>6
<1>5. CASE NextIntake
  <2>1. intake'.pc = "none" /\ intake'.verdicts = <<>> /\ reloads' = reloads
    BY <1>5 DEF NextIntake
  <2> QED  BY <2>1 DEF IntakeTyped
<1> QED  BY <1>1, <1>2, <1>3, <1>4, <1>5 DEF AdvisoryNext, advisoryVars

LEMMA IntakeIsTyped == ReportInv /\ IntakeTyped => AdvisoryTypeOK
<1> SUFFICES ASSUME ReportInv, IntakeTyped PROVE AdvisoryTypeOK
  OBVIOUS
<1>1. ToSet(intake.verdicts) \subseteq Sayings
  BY EntryOf DEF IntakeTyped, ToSet
<1> QED  BY <1>1 DEF AdvisoryTypeOK, IntakeTyped, ReportInv, Sayings

\* Restarts that lose letters are counted.
LossesBounded == losses \in 0..MaxLosses

LEMMA LossesStep == LossesBounded /\ [CaptureNext]_captureVars => LossesBounded'
<1> SUFFICES ASSUME losses \in 0..MaxLosses, [CaptureNext]_captureVars PROVE losses' \in 0..MaxLosses
  BY DEF LossesBounded
<1>1. MaxLosses \in Nat
  BY CaptureAssumption
<1>2. losses' = losses \/ (losses < MaxLosses /\ losses' = losses + 1)
  BY DEF CaptureNext, captureVars, loi_draft, loi_package, CaptureRestart, feasibility, heatmap
<1> QED  BY <1>1, <1>2

LEMMA LettersAreTyped == LettersInv /\ LossesBounded => CaptureTypeOK
  BY DEF LettersInv, LossesBounded, CaptureTypeOK

\* The servers hold objects of the files only.
MigrationsTyped == ch \subseteq Objects /\ starts \in 0..MaxRuns /\ kills \in 0..MaxKills

LEMMA PgObjects == \A i \in 1..4 : ToSet(PgFiles[i]) \subseteq Objects
<1> SUFFICES ASSUME NEW i \in 1..4, NEW o \in ToSet(PgFiles[i]) PROVE o \in Objects
  OBVIOUS
<1> DEFINE Marks == {"--", "w", "nl", ";"}
           Files == ToSet(PgFiles) \cup ToSet(ChFiles)
           Lists == {ToSet(f) : f \in Files}
<1>1. o \notin Marks
  <2>1. PICK k \in DOMAIN PgFiles[i] : o = PgFiles[i][k]
    BY Zenon DEF ToSet
  <2>2. \A n \in 1..3 : extensions[n] \in
           {"vector", "pg_trgm", "uuid-ossp"}
    BY DEF extensions
  <2>3. \A n \in 1..7 : govcon_core[n] \in
           {"agencies", "agencies_name_trgm", "vendors", "vendors_name_trgm", "contracts",
            "contracts_title_trgm", "contracts_embedding_ivf"}
    BY DEF govcon_core
  <2>4. \A n \in 1..6 : govcon_workforce[n] \in
           {"employees", "lcats", "lcat_requirements", "assignments", "clearances",
            "certifications"}
    BY DEF govcon_workforce
  <2>5. \A n \in 1..4 : govcon_lifecycle[n] \in
           {"recompete_events", "gap_analyses", "alert_rules", "alert_history"}
    BY DEF govcon_lifecycle
  <2>6. i \in {1, 2, 3, 4}
    OBVIOUS
  <2> QED  BY <2>1, <2>2, <2>3, <2>4, <2>5, <2>6, PgFilesAre, PgLengths
<1>2. PgFiles[i] \in Files
  BY PgFilesAre DEF ToSet
<1> HIDE DEF Files
<1>3. ToSet(PgFiles[i]) \in Lists
  BY <1>2
<1>4. o \in UNION Lists
  BY <1>3, Zenon
<1>5. Objects = (UNION Lists) \ Marks
  BY Zenon DEF Objects, Files
<1> HIDE DEF Marks, Lists
<1> QED  BY <1>1, <1>4, <1>5

LEMMA MigrationsTypedStep == PgInv /\ MigrationsTyped /\ [MigrationsNext]_migrationVars => MigrationsTyped'
<1> SUFFICES ASSUME MigrationsTyped, [MigrationsNext]_migrationVars PROVE MigrationsTyped'
  OBVIOUS
<1>0. MaxRuns \in Nat /\ MaxKills \in Nat
  BY MigrationsAssumption
<1>1. CASE UNCHANGED <<ch, starts, kills>>
  BY <1>1 DEF MigrationsTyped
<1>2. CASE StartRun
  BY <1>0, <1>2 DEF StartRun, MigrationsTyped
<1>3. CASE Kill
  BY <1>0, <1>3 DEF Kill, MigrationsTyped
<1>4. CASE _apply_postgres
  BY <1>1, <1>4, Zenon DEF _apply_postgres, Refuse
<1>5. CASE _apply_clickhouse
  <2> DEFINE pieces == _split_statements(ChFiles[runner.file])
             piece  == pieces[runner.no]
             object == piece[CHOOSE i \in Code(piece) : TRUE]
  <2>1. UNCHANGED <<starts, kills>>
    BY <1>5, Zenon DEF _apply_clickhouse
  <2>2. ch' = ch \/ (OneStatement(piece) /\ ch' = ch \cup {object})
    BY <1>5, Zenon DEF _apply_clickhouse, Refuse
  <2> HIDE DEF piece
  <2>3. OneStatement(piece) => object \in Objects
    <3> SUFFICES ASSUME OneStatement(piece) PROVE object \in Objects
      OBVIOUS
    <3>1. Code(piece) # {}
      <4>1. Cardinality(Code(piece)) = 1
        BY DEF OneStatement
      <4>2. Cardinality({}) = 0
        BY FS_EmptySet
      <4> QED  BY <4>1, <4>2
    <3>2. (CHOOSE i \in Code(piece) : TRUE) \in Code(piece)
      BY <3>1
    <3> QED  BY <3>2, Zenon DEF OneStatement
  <2> HIDE DEF object
  <2>4. ch' \subseteq Objects
    BY <2>2, <2>3 DEF MigrationsTyped
  <2> QED  BY <2>1, <2>4 DEF MigrationsTyped
<1> QED  BY <1>1, <1>2, <1>3, <1>4, <1>5 DEF MigrationsNext, migrationVars

LEMMA MigrationsAreTyped == PgInv /\ MigrationsTyped => MigrationsTypeOK
<1> SUFFICES ASSUME MigrationsTyped, NEW m \in 0..4, PgAt(m) PROVE MigrationsTypeOK
  BY DEF PgInv
<1>1. pg \subseteq Objects
  <2>1. pg = Upto(m)
    BY DEF PgAt
  <2>2. \A i \in 1..m : i \in 1..4
    OBVIOUS
  <2> QED  BY <2>1, <2>2, PgObjects, Zenon DEF Upto
<1>2. tx \subseteq Objects /\ runner.phase \in {"none", "pg", "ch"}
  <2>1. CASE runner = Idle /\ tx = {}
    BY <2>1, Phases
  <2>2. ASSUME NEW i \in 1..4, NEW j \in 1..Len(PgFiles[i]), runner = Position("pg", i, j), tx = FileStart(i, j)
        PROVE  tx \subseteq Objects /\ runner.phase \in {"none", "pg", "ch"}
    <3>1. DOMAIN PgFiles[i] = 1..Len(PgFiles[i]) /\ Len(PgFiles[i]) \in Nat
      BY PgFileLength
    <3>2. \A k \in 1..j - 1 : k \in DOMAIN PgFiles[i]
      BY <3>1
    <3>3. FileStart(i, j) \subseteq ToSet(PgFiles[i])
      BY <3>2, Zenon DEF FileStart, ToSet
    <3> QED  BY <2>2, <3>3, PgObjects, Phases
  <2>3. ASSUME NEW i, NEW j, runner = Position("ch", i, j), tx = {}
        PROVE  tx \subseteq Objects /\ runner.phase \in {"none", "pg", "ch"}
    BY <2>3, Phases
  <2> QED  BY <2>1, <2>2, <2>3, Zenon DEF PgAt
<1> QED  BY <1>1, <1>2 DEF MigrationsTypeOK, MigrationsTyped

-----------------------------------------------------------------------------

LEMMA OwnershipAndWorkforce ==
    /\ PlatformInit => OwnershipInit /\ WorkforceInit
    /\ [PlatformNext]_platformVars => [OwnershipNext]_ownershipVars /\ [WorkforceNext]_workforceVars
  BY DEF PlatformInit, PlatformNext, platformVars

\* A service that starts is within its bounds.
LEMMA BoundsAtStart ==
    PlatformInit => /\ TablesTyped /\ RowsCounted /\ ArmsInv /\ ArmsBounded /\ Worsening /\ ChatTyped
                    /\ RowsTyped /\ ModelsBounded /\ AlertsTyped /\ IntakeTyped
                    /\ LossesBounded /\ MigrationsTyped
<1> SUFFICES ASSUME PlatformInit
             PROVE  /\ TablesTyped /\ RowsCounted /\ ArmsInv /\ ArmsBounded /\ Worsening /\ ChatTyped
                    /\ RowsTyped /\ ModelsBounded /\ AlertsTyped /\ IntakeTyped
                    /\ LossesBounded /\ MigrationsTyped
  OBVIOUS
<1>0. DOMAIN <<>> = {} /\ Len(<<>>) = 0
  OBVIOUS
<1>1. TablesTyped
  BY OwnershipAndWorkforce, OwnershipAssumption DEF OwnershipInit, TablesTyped, OwnershipDays
<1>2. RowsCounted
  <2>1. employees = <<>> /\ posts = <<>> /\ auditLog = {} /\ MaxCreateCalls \in Nat
    BY OwnershipAndWorkforce, WorkforceAssumption DEF WorkforceInit
  <2>2. RowsBy(posts) = {}
    BY <2>1, <1>0 DEF RowsBy
  <2>3. Cardinality(RowsBy(posts)) = 0
    BY <2>2, FS_EmptySet
  <2> QED  BY <2>1, <2>3, <1>0 DEF RowsCounted
<1>3. ArmsInv /\ ArmsBounded
  <2>1. <<>> \in Seq([name : Arms, sent : Nat, responded : Nat])
    OBVIOUS
  <2> QED  BY <1>0, <2>1, StartOfServices DEF AbInit, ArmsInv, ArmsBounded
<1>4. Worsening
  BY StartOfServices, MonitorAssumption DEF MonitorInit, NewRequisition, Worsening
<1>5. ChatTyped
  BY StartOfServices, InterviewAssumption DEF InterviewInit, ChatTyped
<1>6. RowsTyped
  <2>1. {LastYear, MaxCreates, MaxLost} \subseteq Nat
    BY CandidatesAssumption, Zenon
  <2>2. rows = <<>> /\ year = 0 /\ lost = 0
    BY StartOfServices DEF CandidatesInit
  <2> QED  BY <1>0, <2>1, <2>2 DEF RowsTyped
<1>7. ModelsBounded
  BY StartOfServices, OutcomesAssumption DEF OutcomesInit, ModelsBounded, Missing, Synthetic
<1>8. AlertsTyped
  <2>1. record = [has |-> {}, offset |-> 0] /\ alerts = <<>>
    BY StartOfServices DEF BenchInit
  <2>2. record.offset = 0
    BY <2>1
  <2> QED  BY <1>0, <2>1, <2>2 DEF AlertsTyped
<1>9. IntakeTyped
  <2>1. <<>> \in Seq(Sayings)
    OBVIOUS
  <2>2. /\ reloads = 0 /\ MaxReloads \in Nat
        /\ intake = [pc |-> "none", verdicts |-> <<>>, overall |-> "none", levers |-> {}, remote |-> FALSE]
    BY StartOfServices, AdvisoryAssumption DEF AdvisoryInit
  <2>3. intake.pc = "none" /\ intake.verdicts = <<>>
    BY <2>2
  <2> QED  BY <2>1, <2>2, <2>3 DEF IntakeTyped
<1>10. LossesBounded
  <2>1. MaxLosses \in Nat
    BY CaptureAssumption
  <2> QED  BY <2>1, StartOfServices DEF CaptureInit, LossesBounded
<1>11. MigrationsTyped
  BY StartOfServices, MigrationsAssumption DEF MigrationsInit, MigrationsTyped
<1> QED  BY <1>1, <1>2, <1>3, <1>4, <1>5, <1>6, <1>7, <1>8, <1>9, <1>10, <1>11

LEMMA BenchIsTyped == BenchTyped /\ AlertsTyped => BenchTypeOK
  BY DEF BenchTyped, AlertsTyped, BenchTypeOK

\* Whatever its requests, clocks, faults and restarts, each service keeps its
\* types and bounds: a list of answers, alerts, rows or letters never outgrows
\* what fills it.
THEOREM PlatformTypeCorrect == PlatformSpec => []PlatformTypeOK
<1>1. PlatformSpec => [](PoolTypeOK /\ StagesTypeOK /\ CallsTypeOK /\ OutreachTypeOK)
  <2>1. PoolInv /\ StagesInv /\ CallsInv /\ OutreachInv
          => PoolTypeOK /\ StagesTypeOK /\ CallsTypeOK /\ OutreachTypeOK
    BY PoolInvTyped DEF StagesInv, CallsInv, OutreachInv
  <2> QED  BY <2>1, StartOfServices, StepOfServices, PoolStart, PoolStep, StagesInvInit, StagesInvStep,
              CallsInvInit, CallsInvStep, OutreachInvInit, OutreachInvStep, PTL DEF PlatformSpec
<1>2. PlatformSpec => [](OwnershipTypeOK /\ WorkforceTypeOK)
  BY BoundsAtStart, OwnershipAndWorkforce, OwnershipInvInit, OwnershipInvStep, TablesTypedStep, SubmitsAreTyped,
     WorkforceInvInit, WorkforceInvStep, RowsCountedStep, RowsAreTyped, PTL DEF PlatformSpec
<1>3. PlatformSpec => [](AbTypeOK /\ MonitorTypeOK)
  BY BoundsAtStart, StartOfServices, StepOfServices, ArmsInvStep, ArmsBoundedStep, ArmsAreTyped,
     WarnedInvInit, WarnedInvStep, WorseningStep, MonitorIsTyped, PTL DEF PlatformSpec
<1>4. PlatformSpec => [](InterviewTypeOK /\ CandidatesTypeOK)
  BY BoundsAtStart, StartOfServices, StepOfServices, CardInvInit, CardInvStep, ChatInvInit, ChatInvStep,
     ChatTypedStep, InterviewIsTyped, ScoresInvInit, ScoresInvStep, RowsInvInit, RowsInvStep, RowsTypedStep,
     CandidatesAreTyped, PTL DEF PlatformSpec
<1>5. PlatformSpec => [](OutcomesTypeOK /\ BenchTypeOK)
  <2>1. AlertsInv => BenchTyped
    BY DEF AlertsInv
  <2> QED  BY <2>1, BoundsAtStart, StartOfServices, StepOfServices, ModelsInvInit, ModelsInvStep, ModelsBoundedStep,
              ModelsAreTyped, AlertsInvInit, AlertsInvStep, AlertsTypedStep, BenchIsTyped, PTL DEF PlatformSpec
<1>6. PlatformSpec => [](AdvisoryTypeOK /\ CaptureTypeOK)
  BY BoundsAtStart, StartOfServices, StepOfServices, ReportInvInit, ReportInvStep, IntakeTypedStep, IntakeIsTyped,
     LettersInvInit, LettersInvStep, LossesStep, LettersAreTyped, PTL DEF PlatformSpec
<1>7. PlatformSpec => []MigrationsTypeOK
  BY BoundsAtStart, StartOfServices, StepOfServices, PgInvInit, PgInvStep, MigrationsTypedStep, MigrationsAreTyped,
     PTL DEF PlatformSpec
<1>8. PoolTypeOK /\ StagesTypeOK /\ CallsTypeOK /\ OutreachTypeOK /\ OwnershipTypeOK /\ WorkforceTypeOK
        /\ AbTypeOK /\ MonitorTypeOK /\ InterviewTypeOK /\ CandidatesTypeOK /\ OutcomesTypeOK /\ BenchTypeOK
        /\ AdvisoryTypeOK /\ CaptureTypeOK /\ MigrationsTypeOK
        => PlatformTypeOK
  BY DEF PlatformTypeOK
<1> QED  BY <1>1, <1>2, <1>3, <1>4, <1>5, <1>6, <1>7, <1>8, PTL

=============================================================================
