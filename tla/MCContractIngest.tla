-------------------------- MODULE MCContractIngest --------------------------
(* Small instances of ContractIngest.                                      *)
EXTENDS ContractIngest

CONSTANTS p1, p2, a1, u1, n1, n2

SamDoc(p, a, v, n) ==
    [src |-> "sam", piid |-> p, agency |-> a, vendor |-> v, notice |-> n,
     posted |-> TRUE]

FpdsDoc(p, a, v) ==
    [src |-> "fpds", piid |-> p, agency |-> a, vendor |-> v, notice |-> None,
     posted |-> FALSE]

ApiBody(p) ==
    [src |-> "api", piid |-> p, agency |-> None, vendor |-> None,
     notice |-> None, posted |-> FALSE]

SeedRow(p, a, v) ==
    [src |-> "seed", piid |-> p, agency |-> a, vendor |-> v, notice |-> None,
     posted |-> FALSE]

\* Everybody writes about the same contract.
OneContract == {SamDoc(p1, a1, None, n1), FpdsDoc(p1, a1, u1), ApiBody(p1)}

\* ... and the seed script has written it already, or is about to.
SeededContract == OneContract \cup {SeedRow(p1, a1, u1)}

\* Three notices of one source in a batch, one of them without agency, one
\* without PIID; and others write about the contract of the first.
ThreeNotices == {SamDoc(p1, a1, u1, n1), SamDoc(p2, None, NoUei, n2),
                 SamDoc(None, a1, None, None), FpdsDoc(p1, a1, u1), ApiBody(p1)}

\* Budgets: sam runs, fpds runs, usaspending runs, requests per client.
Budget(sam, fpds, usa, api) ==
    [t \in Tasks |-> CASE t = "sam" -> sam [] t = "fpds" -> fpds
                       [] t = "usa" -> usa [] OTHER -> api]

Once       == Budget(1, 1, 1, 1)
Twice      == Budget(2, 2, 2, 2)
=============================================================================
