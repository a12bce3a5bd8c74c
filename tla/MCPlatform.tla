----------------------------- MODULE MCPlatform -----------------------------
(* Small instances of the platform's services.                             *)
EXTENDS Platform

CONSTANTS req1, req2, cand1, cand2

\* PipelineMonitor: a ladder of scores that the bonuses of routing can turn over.
Opening(id, clearance, motion, metro, score) ==
    [id |-> id, clearance |-> clearance, motion |-> motion, metro |-> metro, score |-> score]
MCOpenings == {Opening(1, "secret", "NULL", "NULL", 70), Opening(2, "none", "enterprise", "dc", 40),
               Opening(3, "ts_sci", "NULL", "dc", 95), Opening(4, "none", "NULL", "dc", 60),
               Opening(5, "secret", "plg", "NULL", 88)}
MCViews == [clearance : {"secret", "ts_sci", "none"}, motion : {"enterprise", "NULL"}, metro : {"dc"}]

\* Outreach: a reply that matches nothing, one word, two lists at once.
MCTexts == {{}, {"counter"}, {"ooo", "counter"}, {"no", "yes"}}

\* Interview: no JSON, fields missing, weights that differ, sums on both sides
\* of 3.5, scores far apart, a weight of zero.
Dim(score, weight) == [score |-> score, weight |-> weight]
Verdict(json, valid, dims, high) == [json |-> json, valid |-> valid, dims |-> dims, high |-> high]
MCEvaluations == {
    Verdict(FALSE, FALSE, <<Dim(30, 15), Dim(40, 10)>>, TRUE), Verdict(TRUE, FALSE, <<>>, FALSE),
    Verdict(TRUE, TRUE, <<>>, TRUE), Verdict(TRUE, TRUE, <<Dim(40, 15), Dim(20, 10)>>, FALSE),
    Verdict(TRUE, TRUE, <<Dim(34, 20), Dim(30, 15)>>, FALSE),
    Verdict(TRUE, TRUE, <<Dim(50, 15), Dim(20, 10)>>, TRUE),
    Verdict(TRUE, TRUE, <<Dim(50, 0)>>, TRUE), Verdict(TRUE, TRUE, <<Dim(35, 10)>>, FALSE)}

\* CandidateStore: ann is cleared and adjudicated just now, bob has lapsed, cy
\* has neither clearance nor contact.
Person(clearance, status, polygraph, adjudicated, readons, contact, metro, motion, distance) ==
    [clearance |-> clearance, status |-> status, polygraph |-> polygraph,
     adjudicated |-> adjudicated, readons |-> readons, citizenship |-> "us_citizen",
     itar |-> TRUE, availability |-> "two_weeks", contact |-> contact, name |-> TRUE,
     metro |-> metro, motion |-> motion, distance |-> distance]
MCProfile == [
    ann |-> Person("ts_sci", "active", "full_scope", -1, 5, TRUE, "dc", "enterprise", 3),
    bob |-> Person("secret", "expired", "none", -3, 2, TRUE, "dc", "plg", 1),
    cy  |-> Person("none", "NULL", "none", -100, 0, FALSE, "sf", "enterprise", 2)]
Search(minimum, metro, motion, limit) ==
    [minimum |-> minimum, metro |-> metro, motion |-> motion, limit |-> limit]
MCQueries == {Search("secret", "", "", 1), Search("secret", "dc", "enterprise", 2), Search("", "", "enterprise", 1)}

\* Bench: a clearance that lapses before, with, and after the contract.
MCOffsets == {-60, 0, 25, 100}

MCBodies == {{}, {"status"}, {"location"}, {"email", "status"}}

\* Capture: a supply spread over every key of the map, and one or two labour
\* categories with too few, enough and plenty of people.
Facet(clearance, metro, skill, atOnce) ==
    [clearance |-> clearance, metro |-> metro, skill |-> skill, now |-> atOnce]
MCFacets == {
    <<Facet("secret", "dc", "ae", TRUE), Facet("secret", "dc", "ae", FALSE),
      Facet("secret", "dc", "se", TRUE), Facet("ts_sci", "dc", "se", FALSE)>>,
    <<Facet("none", "sf", "ae", FALSE), Facet("none", "dc", "ae", TRUE)>>}
Category(headcount, available) == [headcount |-> headcount, available |-> available]
MCRequirements == UNION {[1..n -> {Category(h, v) : h \in {0, 1, 4, 10}, v \in {0, 1, 2, 8, 12}}] :
    n \in 1..2}
=============================================================================
