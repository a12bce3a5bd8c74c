------------------------------ MODULE Capture -------------------------------
(***************************************************************************)
(* The capture service: letters of intent, which it keeps in memory, and    *)
(* the packages made of them; the staffing risk of an opportunity; the heat *)
(* map of the talent supply.                                               *)
(*                                                                         *)
(* Operators marked [fault] are wrong versions of the one that follows     *)
(* them, used to check the properties.                                     *)
(***************************************************************************)
EXTENDS Integers, Sequences, FiniteSets, SequencesExt, FiniteSetsExt

CONSTANTS
    Prospects, Opportunities,
    Facets,         \* sequences of [clearance, metro, skill, now]
    Requirements,   \* sequences of [headcount, available] per LCAT
    MaxDrafts, MaxLosses    \* bounds: drafts; restarts of the service

ASSUME CaptureAssumption ==
    /\ {MaxDrafts, MaxLosses} \subseteq Nat
    /\ \A rs \in Requirements : /\ IsFiniteSet(DOMAIN rs)
                               /\ \A i \in DOMAIN rs : rs[i] \in [headcount : Nat, available : Nat]
    /\ \A fs \in Facets : DOMAIN fs = 1..Len(fs) /\ Len(fs) \in Nat

VARIABLES
    drafts,     \* every letter ever drafted: for whom, for what; its id is its number
    lois,       \* _state["lois"], the ids of the letters the service knows
    lostIds,    \* ids the service lost when it was restarted
    answered,   \* the last package, report or map and what it was asked for
    losses

captureVars == <<drafts, lois, lostIds, answered, losses>>

CaptureInit == drafts = <<>> /\ lois = {} /\ lostIds = {} /\ answered = <<>> /\ losses = 0

-----------------------------------------------------------------------------
(* loi.py: a letter stays a draft; nothing sends it or has it signed.       *)

\* [fault] letters are kept by candidate.
ByCandidate(ids, id) == {i \in ids : drafts'[i].person # drafts'[id].person} \cup {id}

KeptById(ids, id) == ids \cup {id}

loi_draft(person, opportunity) ==
    /\ Len(drafts) < MaxDrafts
    /\ drafts' = Append(drafts, [person |-> person, opportunity |-> opportunity])
    /\ lois' = KeptById(lois, Len(drafts'))
    /\ answered' = <<>> /\ UNCHANGED <<lostIds, losses>>

\* Ids that the service does not know are left out without a word.
loi_package(ids) ==
    /\ answered' = <<[kind |-> "package", asked |-> ids, found |-> ToSet(ids) \cap lois]>>
    /\ UNCHANGED <<drafts, lois, lostIds, losses>>

CaptureRestart ==
    /\ losses < MaxLosses /\ losses' = losses + 1
    /\ lostIds' = lostIds \cup lois /\ lois' = {} /\ answered' = <<>>
    /\ UNCHANGED drafts

-----------------------------------------------------------------------------
(* feasibility.py                                                          *)

\* int(100 * (1 - ratio)), with fewer available than needed, is computed in
\* doubles: where the percentage is one of these integers, it comes out a
\* little smaller, and loses one; elsewhere it is cut off as it should be.
Truncated == {7, 8, 9, 10, 11, 19, 20, 21, 22, 32, 33, 44, 45, 66}

Percent(missing, of) ==
    LET q == (100 * missing) \div of
    IN IF q \in Truncated /\ q * of = 100 * missing THEN q - 1 ELSE q

Risk(r) ==
    CASE r.available = 0 -> 100
      [] r.available # 0 /\ r.available < Max({r.headcount, 1}) ->
            Percent(r.headcount - r.available, r.headcount)
      [] r.available >= Max({r.headcount, 1}) /\ r.available < 2 * Max({r.headcount, 1}) -> 30
      [] OTHER -> 10

SumOver(list, f(_)) == FoldSeq(+, 0, [i \in DOMAIN list |-> f(list[i])])

\* [fault] the mean of the labour categories.
PerCategory(list) == Len(list)

Weights(list) == SumOver(list, LAMBDA r : r.headcount)

OverallRisk(list) == SumOver(list, LAMBDA r : Risk(r) * r.headcount) \div Max({Weights(list), 1})

Status(risk) == IF risk >= 75 THEN "infeasible" ELSE IF risk >= 40 THEN "difficult" ELSE "feasible"

analyze_staffing(list) == [risk |-> OverallRisk(list), status |-> Status(OverallRisk(list))]

\* The service passes no count_fn, and nobody is counted.
Counted(list) == [i \in DOMAIN list |-> [list[i] EXCEPT !.available = 0]]

\* analyze, with the counts of a caller and as POST /v1/capture/feasibility has it.
feasibility(list) ==
    /\ answered' = <<[kind |-> "risk", asked |-> list, found |-> analyze_staffing(list),
                      served |-> analyze_staffing(Counted(list))]>>
    /\ UNCHANGED <<drafts, lois, lostIds, losses>>

-----------------------------------------------------------------------------
(* heatmap.py                                                              *)

KeyOf(f) == <<f.clearance, f.metro, f.skill>>
CellKeys(facets) == {KeyOf(f) : f \in ToSet(facets)}
CellCount(facets, key) == Cardinality({i \in DOMAIN facets : KeyOf(facets[i]) = key})
NowCount(facets, key) == Cardinality({i \in DOMAIN facets : KeyOf(facets[i]) = key /\ facets[i].now})

build(facets) ==
    {[key |-> k, count |-> CellCount(facets, k), now |-> NowCount(facets, k)] : k \in CellKeys(facets)}

TotalCount(cells) == SumFunction([c \in cells |-> c.count])

\* [fault] = instead of +=: one of the cells remains.
Replaced(cells) == Max({c.count : c \in cells})

Added(cells) == TotalCount(cells)

summarise_by_clearance(cells) ==
    {[clearance |-> c.key[1], metro |-> c.key[2],
      count |-> Added({d \in cells : d.key[1] = c.key[1] /\ d.key[2] = c.key[2]})] : c \in cells}

heatmap(facets) ==
    LET cells == build(facets)
    IN  /\ answered' = <<[kind |-> "map", asked |-> facets, found |-> cells, by |-> summarise_by_clearance(cells)]>>
        /\ UNCHANGED <<drafts, lois, lostIds, losses>>

CaptureNext ==
    \/ \E p \in Prospects, o \in Opportunities : loi_draft(p, o)
    \/ \E m \in 1..MaxDrafts, n \in 1..MaxDrafts :
            {m, n} \subseteq DOMAIN drafts /\ loi_package(<<m, n>>)
    \/ CaptureRestart
    \/ drafts = <<>> /\ answered = <<>> /\ \E list \in Requirements : feasibility(list)
    \/ drafts = <<>> /\ answered = <<>> /\ \E facets \in Facets : heatmap(facets)

-----------------------------------------------------------------------------
(* Properties.                                                             *)

CaptureTypeOK ==
    /\ drafts \in Seq([person : Prospects, opportunity : Opportunities])
    /\ lois \subseteq DOMAIN drafts /\ lostIds \subseteq DOMAIN drafts /\ losses \in 0..MaxLosses

AnswersOf(kind) == {a \in ToSet(answered) : a.kind = kind}

\* A package holds every letter that was asked for but those a restart lost: one
\* candidate may have several, and an earlier package uses none of them up.
PackageMissesOnlyLost ==
    \A a \in AnswersOf("package") : \A i \in DOMAIN a.asked :
        a.asked[i] \in a.found \/ a.asked[i] \in lostIds

\* Counted, an opportunity is called infeasible only if some labour category has
\* at most a quarter of the people it needs, however the categories are weighted.
InfeasibleIsShort ==
    \A a \in AnswersOf("risk") :
        /\ a.found.risk \in 0..100
        /\ a.found.status = "infeasible" => \E i \in DOMAIN a.asked : 4 * a.asked[i].available <= a.asked[i].headcount

\* Both views of the heat map count every candidate once, and no cell has more
\* people available than people.
MapCountsAll ==
    \A a \in AnswersOf("map") :
        /\ TotalCount(a.found) = Len(a.asked) /\ TotalCount(a.by) = Len(a.asked)
        /\ \A c \in a.found : c.now <= c.count

=============================================================================
