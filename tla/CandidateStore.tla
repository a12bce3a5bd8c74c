--------------------------- MODULE CandidateStore ---------------------------
(***************************************************************************)
(* The candidates service: creating a candidate from JSON or from a resume  *)
(* (embedder, deployability score, one INSERT without a key, so a repeated  *)
(* request is a second candidate), the filters of the semantic search, and  *)
(* the score that is stored once and read for years.                       *)
(*                                                                         *)
(* Operators marked [fault] are wrong versions of the one that follows     *)
(* them, used to check the properties.                                     *)
(***************************************************************************)
EXTENDS Integers, Sequences, FiniteSets, SequencesExt, FiniteSetsExt, Sorting

CONSTANTS
    People,         \* people with a profile
    Profile,        \* person -> profile, as parsed or posted
    Queries,        \* [minimum, metro, motion, limit], "" where not asked
    LastYear,       \* bound
    MaxCreates, MaxLost     \* bounds: requests; errors and lost answers

ClearanceTypes == <<"none", "public_trust", "secret", "top_secret", "ts_sci">>
PolygraphTypes == <<"none", "ci", "full_scope", "lifestyle">>

ProfileType == [clearance : ToSet(ClearanceTypes), status : {"active", "interim", "expired", "in_process", "NULL"},
    polygraph : ToSet(PolygraphTypes), adjudicated : Int, readons : Nat, citizenship : STRING, itar : BOOLEAN,
    availability : STRING, contact : BOOLEAN, name : BOOLEAN, metro : STRING, motion : STRING, distance : Nat]

ASSUME CandidatesAssumption ==
    /\ \A p \in People : Profile[p] \in ProfileType
    /\ \A q \in Queries : q.minimum \in ToSet(ClearanceTypes) \cup {""} /\ q.limit \in 1..100
    /\ {LastYear, MaxCreates, MaxLost} \subseteq Nat

VARIABLES
    rows,       \* the table: person and stored score, in the order of the ids
    creates,    \* requests that create a candidate
    hits,       \* the last search and its answer
    year,       \* today, in years: the score looks at no less than two
    lost

candidateVars == <<rows, creates, hits, year, lost>>

CandidatesInit == rows = <<>> /\ creates = <<>> /\ hits = <<>> /\ year = 0 /\ lost = 0

-----------------------------------------------------------------------------
(* Deployability.                                                          *)

Unscored == -1     \* whatever the client posted, or nothing

RankIn(list, x) == (CHOOSE i \in DOMAIN list : list[i] = x) - 1

\* 10 points a level; interim int(base * 0.75), expired 0.4, in process 0.5.
ClearancePoints(p) ==
    LET base == 10 * RankIn(ClearanceTypes, p.clearance)
    IN  CASE p.status = "active" -> base
          [] p.status = "interim" -> (base * 3) \div 4
          [] p.status = "expired" -> (base * 2) \div 5
          [] p.status = "in_process" -> base \div 2
          [] OTHER -> 0

\* [fault] the newest adjudications score least.
Aged(p, today) ==
    LET age == today - p.adjudicated
    IN  IF age < 2 THEN 5 ELSE IF age < 4 THEN 10 ELSE IF age < 6 THEN 15 ELSE 0

FreshnessPoints(p, today) ==
    LET age == today - p.adjudicated
    IN  IF age < 2 THEN 15 ELSE IF age < 4 THEN 10 ELSE IF age < 6 THEN 5 ELSE 0

\* The callers give no target polygraph.
deployability_score(p, today) ==
    LET readons == IF p.readons >= 5 THEN 10 ELSE IF p.readons >= 3 THEN 7
                   ELSE IF p.readons >= 1 THEN 4 ELSE 0
        citizen == CASE p.citizenship = "us_citizen" -> 10
                     [] p.citizenship = "permanent_resident" -> 4 [] OTHER -> 0
        soon    == CASE p.availability = "immediately" -> 5 [] p.availability = "two_weeks" -> 4
                     [] p.availability = "thirty_days" -> 2 [] OTHER -> 0
        sum     == ClearancePoints(p) + 5 * RankIn(PolygraphTypes, p.polygraph)
                   + FreshnessPoints(p, today) + readons + citizen + (IF p.itar THEN 5 ELSE 0) + soon
    IN  Min({100, Max({0, sum})})

-----------------------------------------------------------------------------
(* Creation.                                                               *)

Lose == lost < MaxLost /\ lost' = lost + 1

\* The client asks again after an error or without an answer.
Asked(person) ==
    /\ Len(creates) < MaxCreates
    /\ \A i \in DOMAIN creates : creates[i].who = person => creates[i].pc \in {"error", "unheard"}

Receive(person, via, refused) ==
    /\ Asked(person)
    /\ creates' = Append(creates, [who |-> person, via |-> via, pc |-> IF refused THEN "refused" ELSE "embed"])
    /\ UNCHANGED <<rows, hits, year, lost>>

\* 400 without any contact
create_candidate(person) == Receive(person, "json", ~Profile[person].contact)

\* 422 without a name; contact is not asked for, nor is what clearance work
\* needs (status, adjudication, read-ons, ITAR) parsed.
candidate_from_resume(person) == Receive(person, "resume", ~Profile[person].name)

FromText(p) == [p EXCEPT !.status = "NULL", !.adjudicated = -100, !.readons = 0, !.itar = FALSE,
                        !.availability = "NULL"]

AsPosted(i) == IF creates[i].via = "json" THEN Profile[creates[i].who] ELSE FromText(Profile[creates[i].who])

Embed(i) ==
    /\ creates[i].pc = "embed"
    /\ \/ creates' = [creates EXCEPT ![i].pc = "insert"] /\ UNCHANGED lost
       \/ creates' = [creates EXCEPT ![i].pc = "error"] /\ Lose
    /\ UNCHANGED <<rows, hits, year>>

\* [fault] what was inserted before the error stays.
Stays(old, new) == new

\* An error takes the whole transaction back.
RolledBack(old, new) == old

\* The score is computed for everybody with a clearance, then one INSERT and
\* one commit, or none; the answer may not reach the client.
insert(i) ==
    LET p == AsPosted(i)
        score == IF p.clearance # "none" THEN deployability_score(p, year) ELSE Unscored
        inserted == Append(rows, [who |-> creates[i].who, as |-> p, score |-> score])
    IN  /\ creates[i].pc = "insert"
        /\ \/ /\ rows' = inserted
              /\ \/ creates' = [creates EXCEPT ![i].pc = "created"] /\ UNCHANGED lost
                 \/ creates' = [creates EXCEPT ![i].pc = "unheard"] /\ Lose
           \/ creates' = [creates EXCEPT ![i].pc = "error"] /\ Lose /\ rows' = RolledBack(rows, inserted)
        /\ UNCHANGED <<hits, year>>

-----------------------------------------------------------------------------
(* Search.                                                                 *)

HasAtLeast(p, minimum) == RankIn(ClearanceTypes, p.clearance) >= RankIn(ClearanceTypes, minimum)

\* [fault] the conditions are joined by OR.
AnyCondition(q) ==
    {i \in DOMAIN rows :
        \/ q.minimum # "" /\ HasAtLeast(rows[i].as, q.minimum)
        \/ q.metro # "" /\ rows[i].as.metro = q.metro
        \/ q.motion # "" /\ rows[i].as.motion = q.motion}

\* The enum clearance_type of the database is ordered like ClearanceTypes.
Where(q) ==
    {i \in DOMAIN rows :
        /\ q.minimum # "" => HasAtLeast(rows[i].as, q.minimum)
        /\ q.metro # "" => rows[i].as.metro = q.metro
        /\ q.motion # "" => rows[i].as.motion = q.motion}

\* ORDER BY embedding <=> query
Nearest(found) == InOrder(found, [i \in found |-> rows[i].as.distance])

FirstOf(list, limit) == SubSeq(list, 1, Min({limit, Len(list)}))

\* The index on the embeddings is approximate: it hands over some of the rows,
\* and what it hands over is filtered.
semantic_search(q, scanned) == FirstOf(Nearest(scanned \cap Where(q)), q.limit)

search_candidates(q) ==
    /\ rows # <<>>
    /\ \E scanned \in SUBSET DOMAIN rows :
            hits' = <<[query |-> q, found |-> semantic_search(q, scanned)]>>
    /\ UNCHANGED <<rows, creates, year, lost>>

NewYear == year + 2 <= LastYear /\ year' = year + 2 /\ UNCHANGED <<rows, creates, hits, lost>>

CandidatesNext ==
    \/ \E person \in People : create_candidate(person) \/ candidate_from_resume(person)
    \/ \E i \in DOMAIN creates : Embed(i) \/ insert(i)
    \/ \E q \in Queries : search_candidates(q)
    \/ NewYear

-----------------------------------------------------------------------------
(* Properties.                                                             *)

CandidatesTypeOK ==
    /\ \A i \in DOMAIN rows : rows[i].who \in People /\ rows[i].score \in {Unscored} \cup 0..100
    /\ \A i \in DOMAIN creates : creates[i].pc \in {"refused", "embed", "insert", "created", "unheard", "error"}
    /\ year \in 0..LastYear /\ lost \in 0..MaxLost

\* With one client per person, who does not ask again before the answer, the only
\* way to be in the table twice is an answer that was lost: every row but one of a
\* person is the work of a request its client gave up.  (Nothing stops two clients
\* who post the same person.)
DuplicatesNeedLoss ==
    \A p \in People :
        Cardinality({i \in DOMAIN rows : rows[i].who = p})
            <= 1 + Cardinality({i \in DOMAIN creates : creates[i].who = p /\ creates[i].pc = "unheard"})

\* A stored score is never brought up to date.  It errs on one side: nobody is
\* more deployable today than the table says.
ScoreOnlyOverstates ==
    \A i \in DOMAIN rows : rows[i].score # Unscored =>
        rows[i].score >= deployability_score(rows[i].as, year)

\* Whatever part of the table the index looks at, a search answers with no more
\* rows than asked for, none twice, each of somebody who meets all the conditions
\* that were asked, the nearer ones first.
HitsMeetTheQuery ==
    \A h \in ToSet(hits) :
        LET found(n) == rows[h.found[n]].as
        IN  /\ Len(h.found) <= h.query.limit
            /\ \A n \in DOMAIN h.found :
                  /\ h.found[n] \in DOMAIN rows
                  /\ h.query.minimum # "" => HasAtLeast(found(n), h.query.minimum)
                  /\ h.query.metro # "" => found(n).metro = h.query.metro
                  /\ h.query.motion # "" => found(n).motion = h.query.motion
            /\ \A m, n \in DOMAIN h.found :
                  m < n => h.found[m] # h.found[n] /\ found(m).distance <= found(n).distance

=============================================================================
