----------------------------- MODULE Ownership -----------------------------
(***************************************************************************)
(* The ownership checks of the candidates service for one candidate: the    *)
(* tables of submissions, rights to represent, do-not-contact entries and   *)
(* non-competes, which other programs fill and this repository never        *)
(* creates; the bundle the rules engine gets from one query; and            *)
(* POST /v1/ownership/submit, which asks two of the questions again, each   *)
(* in a transaction of its own.                                            *)
(*                                                                         *)
(* Operators marked [fault] are wrong versions of the one that follows     *)
(* them, used to check the properties.                                     *)
(***************************************************************************)
EXTENDS Integers, FiniteSets, Sequences, SequencesExt

CONSTANTS
    Clients,
    Horizon,        \* bound: days
    MaxRows         \* bound: rows of all tables

ASSUME OwnershipAssumption == Horizon \in Nat \ {0} /\ MaxRows \in Nat

NULL == 0           \* days are counted from 1
AnyClient == "NULL" \* a do-not-contact entry for every client

VARIABLES
    submissions,    \* rows [client, expires]
    rights,         \* rights_to_represent, rows [client, expires, revoked]
    dnc,            \* do_not_contact, the client_id of its rows
    ncs,            \* non_competes, the expires_at of its rows
    day,            \* NOW()
    submits         \* requests to /v1/ownership/submit

ownershipVars == <<submissions, rights, dnc, ncs, day, submits>>

OwnershipDays == 1..Horizon

OwnershipInit ==
    /\ submissions = {} /\ rights = {} /\ dnc = {} /\ ncs = {} /\ day = 1 /\ submits = <<>>

-----------------------------------------------------------------------------
(* The queries.  A comparison with NULL is not true.                       *)

Later(expires) == expires # NULL /\ expires > day

has_active_exclusivity(client) ==
    \E s \in submissions : s.client = client /\ s.expires # NULL /\ s.expires > day

has_valid_rtr(client) ==
    \E r \in rights : r.client = client /\ ~r.revoked /\ Later(r.expires)

is_dnc(client) == client \in dnc \/ AnyClient \in dnc

\* [fault] the bundle does not look at revocations.
WithRevoked(client) ==
    [has_exclusivity |-> \E s \in submissions : s.client = client /\ Later(s.expires),
     has_rtr         |-> \E r \in rights : r.client = client /\ Later(r.expires),
     is_dnc          |-> \E d \in dnc : d = client \/ d = AnyClient,
     has_non_compete |-> \E n \in ncs : n = NULL \/ Later(n)]

ownership_status(client) ==
    [has_exclusivity |-> \E s \in submissions : s.client = client /\ Later(s.expires),
     has_rtr         |-> \E r \in rights : r.client = client /\ ~r.revoked /\ Later(r.expires),
     is_dnc          |-> \E d \in dnc : d = client \/ d = AnyClient,
     has_non_compete |-> \E n \in ncs : n = NULL \/ Later(n)]

-----------------------------------------------------------------------------
(* Steps.                                                                  *)

\* What appears in a table after a request asked about it: the request keeps it.
NewRows(s)    == IF s.pc \in {"dnc", "insert"} THEN submissions' \ submissions ELSE {}
NewEntries(s) == IF s.pc = "insert" THEN dnc' \ dnc ELSE {}
KeepNew ==
    submits' = [i \in DOMAIN submits |-> [submits[i] EXCEPT !.rows = @ \cup NewRows(submits[i]),
                                                        !.entries = @ \cup NewEntries(submits[i])]]

TableRows == Cardinality(submissions) + Cardinality(rights) + Cardinality(dnc) + Cardinality(ncs)

\* Other programs insert rows, revoke rights, delete do-not-contact entries.
OtherPrograms ==
    /\ UNCHANGED day
    /\ \/ /\ TableRows < MaxRows
          /\ \E client \in Clients, expires \in {NULL} \cup OwnershipDays :
                \/ /\ submissions' = submissions \cup {[client |-> client, expires |-> expires]}
                   /\ UNCHANGED <<rights, dnc, ncs>>
                \/ /\ rights' = rights \cup {[client |-> client, expires |-> expires, revoked |-> FALSE]}
                   /\ UNCHANGED <<submissions, dnc, ncs>>
                \/ dnc' \in {dnc \cup {client}, dnc \cup {AnyClient}} /\ UNCHANGED <<submissions, rights, ncs>>
                \/ ncs' = ncs \cup {expires} /\ UNCHANGED <<submissions, rights, dnc>>
       \/ \E r \in rights : /\ rights' = (rights \ {r}) \cup {[r EXCEPT !.revoked = TRUE]}
                            /\ UNCHANGED <<submissions, dnc, ncs>>
       \/ \E d \in dnc : dnc' = dnc \ {d} /\ UNCHANGED <<submissions, rights, ncs>>
    /\ KeepNew

Midnight ==
    /\ day < Horizon /\ day' = day + 1
    /\ UNCHANGED <<submissions, rights, dnc, ncs, submits>>

ownership_submit(client) ==
    /\ submits = <<>>
    /\ submits' = <<[client |-> client, pc |-> "exclusivity", rows |-> {}, entries |-> {}]>>
    /\ UNCHANGED <<submissions, rights, dnc, ncs, day>>

Reached(i, pc) ==
    /\ submits' = [submits EXCEPT ![i].pc = pc]
    /\ UNCHANGED <<submissions, rights, dnc, ncs, day>>

\* [fault] the list is not looked at for a candidate nobody has exclusively.
OneCheck(i) ==
    /\ submits[i].pc = "exclusivity"
    /\ Reached(i, IF has_active_exclusivity(submits[i].client) THEN "refused" ELSE "insert")

\* Two checks, in two transactions, with 409 for an answer.
CheckOwnership(i) ==
    LET s == submits[i]
    IN  \/ /\ s.pc = "exclusivity"
           /\ Reached(i, IF has_active_exclusivity(s.client) THEN "refused" ELSE "dnc")
        \/ /\ s.pc = "dnc"
           /\ Reached(i, IF is_dnc(s.client) THEN "refused" ELSE "insert")

\* ON CONFLICT ... NOW() + EXCLUDED.exclusivity_expires_at: there is no sum of two
\* timestamps, so PostgreSQL rejects the statement whether there is a conflict
\* or not, and the request ends with an error.
record_submission(i) == submits[i].pc = "insert" /\ Reached(i, "error")

OwnershipNext ==
    \/ OtherPrograms \/ Midnight
    \/ \E client \in Clients : ownership_submit(client)
    \/ \E i \in DOMAIN submits : CheckOwnership(i) \/ record_submission(i)

OwnershipSpec == OwnershipInit /\ [][OwnershipNext]_ownershipVars

-----------------------------------------------------------------------------
(* Properties.                                                             *)

OwnershipTypeOK ==
    /\ submissions \subseteq [client : Clients, expires : {NULL} \cup OwnershipDays]
    /\ rights \subseteq [client : Clients, expires : {NULL} \cup OwnershipDays, revoked : BOOLEAN]
    /\ dnc \subseteq Clients \cup {AnyClient} /\ ncs \subseteq {NULL} \cup OwnershipDays /\ day \in OwnershipDays
    /\ \A i \in DOMAIN submits : submits[i].pc \in {"exclusivity", "dnc", "insert", "refused", "error"}

\* The bundle that screening decides by and the checks that submit makes are
\* written twice; whatever rows there are, without a date or out of date or
\* revoked, they agree on every day.
BundleAgrees ==
    \A client \in Clients : LET b == ownership_status(client) IN
        /\ b.has_exclusivity = has_active_exclusivity(client)
        /\ b.has_rtr = has_valid_rtr(client)
        /\ b.is_dnc = is_dnc(client)

\* What keeps a candidate from being submitted to a client.
Exclusive(client) == {s \in submissions : s.client = client /\ Later(s.expires)}
Barred(client)    == dnc \cap {client, AnyClient}

\* Between a check and the INSERT other programs may change the tables, and
\* nothing holds them off.  Past the two checks there are no other ways: an
\* exclusivity or a do-not-contact entry that stands when a request is at its
\* INSERT was added after the request asked about that table, whatever was added,
\* deleted or ran out before.  (Rights to represent and non-competes are not
\* asked for at all, see OwnershipEnforced.)
OnlyLateBlockers ==
    \A i \in DOMAIN submits : submits[i].pc = "insert" =>
        /\ Exclusive(submits[i].client) \subseteq submits[i].rows
        /\ Barred(submits[i].client) \subseteq submits[i].entries

\* "Candidate ownership (exclusivity, RTR, DNC, non-compete) is enforced before
\* any submission action" (README.md:89): a request at its INSERT has all four in
\* its favour.  Violated: only two of them are asked for.
OwnershipEnforced ==
    \A i \in DOMAIN submits : submits[i].pc = "insert" =>
        LET b == ownership_status(submits[i].client)
        IN  b.has_rtr /\ ~b.has_exclusivity /\ ~b.is_dnc /\ ~b.has_non_compete

=============================================================================
