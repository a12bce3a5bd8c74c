---------------------------- MODULE RecordProofs ----------------------------
(***************************************************************************)
(* Proofs about records that requests interleave on: two tables of the      *)
(* database and the buckets of silver medalists.                           *)
(*                                                                         *)
(* Ownership: what blocks a request of POST /v1/ownership/submit at its     *)
(* INSERT was added after the request asked about that table, for every     *)
(* history of the tables.  The invariant says what each check leaves: no    *)
(* blocker but those that were added since.                                *)
(*                                                                         *)
(* Employees: two requests may both find an email free and both insert.      *)
(* Emails stay unique because every write of one, by POST and by PATCH, is  *)
(* checked by the table itself at that very statement.  Changes survive     *)
(* because an UPDATE writes the columns of its request and no other.        *)
(*                                                                         *)
(* Backups: the pool is the queue it promises to be.  The invariant says    *)
(* that a bucket gives no rank twice and that no entry waits twice or waits *)
(* after it was promoted; each operation on a bucket is then an operation   *)
(* on the line of its entries in the order of their ranks.                  *)
(***************************************************************************)
EXTENDS Ownership, Workforce, SilverPool, DataProofs

-----------------------------------------------------------------------------
(* Ownership.                                                              *)

Submission == [client : Clients, expires : {NULL} \cup OwnershipDays]
DncEntry   == Clients \cup {AnyClient}

SubmitRequest ==
    [client : Clients, pc : {"exclusivity", "dnc", "insert", "refused", "error"},
     rows : SUBSET Submission, entries : SUBSET DncEntry]

SubmitsTyped ==
    /\ submits \in Seq(SubmitRequest) /\ day \in OwnershipDays
    /\ submissions \subseteq Submission /\ dnc \subseteq DncEntry

\* What the checks a request has passed leave to stand in its way.
RowsAreLate(s)    == s.pc \in {"dnc", "insert"} => Exclusive(s.client) \subseteq s.rows
EntriesAreLate(s) == s.pc = "insert" => Barred(s.client) \subseteq s.entries
PassedChecks == \A i \in DOMAIN submits : RowsAreLate(submits[i]) /\ EntriesAreLate(submits[i])

OwnershipInv == SubmitsTyped /\ PassedChecks

-----------------------------------------------------------------------------

LEMMA OwnershipInvInit == OwnershipInit => OwnershipInv
  BY OwnershipAssumption DEF OwnershipInit, OwnershipInv, SubmitsTyped, PassedChecks, OwnershipDays

\* The tables change: what is new in them is kept.
LEMMA TablesKeepInv ==
    ASSUME OwnershipInv, OtherPrograms
    PROVE  OwnershipInv'
<1>1. submits \in Seq(SubmitRequest) /\ submissions \subseteq Submission /\ dnc \subseteq DncEntry /\ day \in OwnershipDays /\ day' = day
  BY DEF OwnershipInv, SubmitsTyped, OtherPrograms
<1>2. submissions' \subseteq Submission /\ dnc' \subseteq DncEntry
  <2>1. \/ UNCHANGED <<submissions, dnc>>
        \/ \E client \in Clients, expires \in {NULL} \cup OwnershipDays :
              \/ submissions' = submissions \cup {[client |-> client, expires |-> expires]} /\ dnc' = dnc
              \/ dnc' \in {dnc \cup {client}, dnc \cup {AnyClient}} /\ submissions' = submissions
        \/ \E d \in dnc : dnc' = dnc \ {d} /\ submissions' = submissions
    BY DEF OtherPrograms
  <2> QED  BY <1>1, <2>1 DEF Submission, DncEntry
<1>3. DOMAIN submits = 1..Len(submits) /\ Len(submits) \in Nat
  BY <1>1
<1>4. \A i \in DOMAIN submits : submits[i] \in SubmitRequest
  BY <1>1
<1> DEFINE kept(s) == [s EXCEPT !.rows = @ \cup NewRows(s), !.entries = @ \cup NewEntries(s)]
<1>5. submits' = [i \in DOMAIN submits |-> kept(submits[i])]
  BY DEF OtherPrograms, KeepNew
<1>6. ASSUME NEW s \in SubmitRequest
      PROVE  /\ kept(s) \in SubmitRequest /\ kept(s).pc = s.pc /\ kept(s).client = s.client
             /\ kept(s).rows = s.rows \cup NewRows(s) /\ kept(s).entries = s.entries \cup NewEntries(s)
  <2>1. NewRows(s) \in SUBSET Submission /\ NewEntries(s) \in SUBSET DncEntry
    BY <1>2 DEF NewRows, NewEntries
  <2> QED  BY <2>1 DEF SubmitRequest
<1> HIDE DEF kept
<1>7. SubmitsTyped'
  <2>1. submits' \in [1..Len(submits) -> SubmitRequest]
    BY <1>3, <1>4, <1>5, <1>6
  <2>2. submits' \in Seq(SubmitRequest)
    BY <1>3, <2>1
  <2> QED  BY <1>1, <1>2, <2>2 DEF SubmitsTyped, Submission, DncEntry, SubmitRequest, OwnershipDays
<1>8. PassedChecks'
  <2> SUFFICES ASSUME NEW i \in DOMAIN submits, NEW c, c = submits[i].client
               PROVE  /\ submits'[i].pc \in {"dnc", "insert"} => Exclusive(c)' \subseteq submits'[i].rows
                      /\ submits'[i].pc = "insert" => Barred(c)' \subseteq submits'[i].entries
    <3>1. DOMAIN submits' = DOMAIN submits
      BY <1>5
    <3>2. \A i \in DOMAIN submits : submits'[i].client = submits[i].client
      BY <1>4, <1>5, <1>6
    <3> QED  BY <3>1, <3>2 DEF PassedChecks, RowsAreLate, EntriesAreLate, Exclusive, Barred
  <2>1. /\ submits'[i].pc = submits[i].pc
        /\ submits'[i].rows = submits[i].rows \cup NewRows(submits[i])
        /\ submits'[i].entries = submits[i].entries \cup NewEntries(submits[i])
    BY <1>4, <1>5, <1>6
  <2>2. RowsAreLate(submits[i]) /\ EntriesAreLate(submits[i])
    BY DEF OwnershipInv, PassedChecks
  <2>3. Exclusive(c)' \subseteq Exclusive(c) \cup (submissions' \ submissions)
    BY <1>1 DEF Exclusive, Later
  <2>4. Barred(c)' \subseteq Barred(c) \cup (dnc' \ dnc)
    BY DEF Barred
  <2> QED  BY <2>1, <2>2, <2>3, <2>4 DEF RowsAreLate, EntriesAreLate, NewRows, NewEntries
<1> QED  BY <1>7, <1>8 DEF OwnershipInv

\* The day ends: exclusivities run out, none begins.
LEMMA MidnightKeepsInv ==
    ASSUME OwnershipInv, Midnight
    PROVE  OwnershipInv'
<1>1. UNCHANGED <<submits, submissions, dnc>> /\ day' = day + 1
  BY DEF Midnight
<1>2. day \in Nat /\ \A s \in submissions : s.expires \in Nat
  BY OwnershipAssumption DEF OwnershipInv, SubmitsTyped, Submission, OwnershipDays, NULL
<1>3. \A client : Exclusive(client)' \subseteq Exclusive(client) /\ Barred(client)' = Barred(client)
  BY <1>1, <1>2 DEF Exclusive, Later, Barred
<1>4. SubmitsTyped'
  BY <1>1, OwnershipAssumption DEF OwnershipInv, SubmitsTyped, Submission, DncEntry, SubmitRequest, OwnershipDays, Midnight
<1>5. PassedChecks'
  <2> SUFFICES ASSUME NEW i \in DOMAIN submits, NEW c, c = submits[i].client
               PROVE  /\ submits[i].pc \in {"dnc", "insert"} => Exclusive(c)' \subseteq submits[i].rows
                      /\ submits[i].pc = "insert" => Barred(c)' \subseteq submits[i].entries
    BY <1>1 DEF PassedChecks, RowsAreLate, EntriesAreLate, Exclusive, Barred
  <2>1. RowsAreLate(submits[i]) /\ EntriesAreLate(submits[i])
    BY DEF OwnershipInv, PassedChecks
  <2> QED  BY <1>3, <2>1 DEF RowsAreLate, EntriesAreLate
<1> QED  BY <1>4, <1>5 DEF OwnershipInv

\* A check that lets a request go on finds no blocker in its table.
LEMMA ReachedKeepsInv ==
    ASSUME OwnershipInv, NEW i \in DOMAIN submits,
           NEW pc \in {"exclusivity", "dnc", "insert", "refused", "error"}, Reached(i, pc),
           pc \in {"dnc", "insert"} => Exclusive(submits[i].client) \subseteq submits[i].rows,
           pc = "insert" => Barred(submits[i].client) \subseteq submits[i].entries
    PROVE  OwnershipInv'
<1>1. submits \in Seq(SubmitRequest) /\ submits[i] \in SubmitRequest
  BY DEF OwnershipInv, SubmitsTyped
<1>2. submits' = [submits EXCEPT ![i] = [submits[i] EXCEPT !.pc = pc]] /\ UNCHANGED <<submissions, dnc, day>>
  BY DEF Reached
<1>3. [submits[i] EXCEPT !.pc = pc] \in SubmitRequest
  BY <1>1 DEF SubmitRequest
<1>4. submits' \in Seq(SubmitRequest) /\ DOMAIN submits' = DOMAIN submits
  BY <1>1, <1>2, <1>3
<1>5. SubmitsTyped'
  BY <1>2, <1>4 DEF OwnershipInv, SubmitsTyped, Submission, DncEntry, SubmitRequest, OwnershipDays
<1>6. PassedChecks'
  <2> SUFFICES ASSUME NEW j \in DOMAIN submits
               PROVE  /\ submits'[j].pc \in {"dnc", "insert"} => Exclusive(submits'[j].client) \subseteq submits'[j].rows
                      /\ submits'[j].pc = "insert" => Barred(submits'[j].client) \subseteq submits'[j].entries
    BY <1>2, <1>4 DEF PassedChecks, RowsAreLate, EntriesAreLate, Exclusive, Barred, Later
  <2>1. CASE j = i
    <3>1. /\ submits'[i].pc = pc /\ submits'[i].client = submits[i].client
          /\ submits'[i].rows = submits[i].rows /\ submits'[i].entries = submits[i].entries
      BY <1>1, <1>2 DEF SubmitRequest
    <3> QED  BY <2>1, <3>1
  <2>2. CASE j # i
    <3>1. submits'[j] = submits[j]
      BY <1>1, <1>2, <2>2
    <3> QED  BY <3>1 DEF OwnershipInv, PassedChecks, RowsAreLate, EntriesAreLate
  <2> QED  BY <2>1, <2>2
<1> QED  BY <1>5, <1>6 DEF OwnershipInv

LEMMA OwnershipInvStep == OwnershipInv /\ [OwnershipNext]_ownershipVars => OwnershipInv'
<1> SUFFICES ASSUME OwnershipInv, [OwnershipNext]_ownershipVars PROVE OwnershipInv'
  OBVIOUS
<1>1. CASE OtherPrograms
  BY <1>1, TablesKeepInv
<1>2. CASE Midnight
  BY <1>2, MidnightKeepsInv
<1>3. ASSUME NEW client \in Clients, ownership_submit(client) PROVE OwnershipInv'
  <2>1. submits' = <<[client |-> client, pc |-> "exclusivity", rows |-> {}, entries |-> {}]>>
    BY <1>3 DEF ownership_submit
  <2>2. [client |-> client, pc |-> "exclusivity", rows |-> {}, entries |-> {}] \in SubmitRequest
    BY DEF SubmitRequest
  <2>3. UNCHANGED <<submissions, dnc, day>>
    BY <1>3 DEF ownership_submit
  <2>4. SubmitsTyped'
    BY <2>1, <2>2, <2>3 DEF OwnershipInv, SubmitsTyped, Submission, DncEntry, SubmitRequest, OwnershipDays
  <2>5. PassedChecks'
    BY <2>1 DEF PassedChecks, RowsAreLate, EntriesAreLate
  <2> QED  BY <2>4, <2>5 DEF OwnershipInv
<1>4. ASSUME NEW i \in DOMAIN submits, CheckOwnership(i) PROVE OwnershipInv'
  <2> DEFINE client == submits[i].client
  <2>1. RowsAreLate(submits[i])
    BY DEF OwnershipInv, PassedChecks
  <2>2. CASE /\ submits[i].pc = "exclusivity"
             /\ Reached(i, IF has_active_exclusivity(client) THEN "refused" ELSE "dnc")
    <3>1. CASE has_active_exclusivity(client)
      BY <2>2, <3>1, ReachedKeepsInv
    <3>2. CASE ~has_active_exclusivity(client)
      <4>1. Exclusive(client) = {}
        BY <3>2 DEF has_active_exclusivity, Exclusive, Later
      <4> QED  BY <2>2, <3>2, <4>1, ReachedKeepsInv
    <3> QED  BY <3>1, <3>2
  <2>3. CASE /\ submits[i].pc = "dnc"
             /\ Reached(i, IF is_dnc(client) THEN "refused" ELSE "insert")
    <3>1. CASE is_dnc(client)
      BY <2>3, <3>1, ReachedKeepsInv
    <3>2. CASE ~is_dnc(client)
      <4>1. Barred(client) = {}
        BY <3>2 DEF is_dnc, Barred
      <4>2. Exclusive(client) \subseteq submits[i].rows
        BY <2>1, <2>3 DEF RowsAreLate
      <4> QED  BY <2>3, <3>2, <4>1, <4>2, ReachedKeepsInv
    <3> QED  BY <3>1, <3>2
  <2> QED  BY <1>4, <2>2, <2>3 DEF CheckOwnership
<1>5. ASSUME NEW i \in DOMAIN submits, record_submission(i) PROVE OwnershipInv'
  BY <1>5, ReachedKeepsInv DEF record_submission
<1>6. CASE UNCHANGED ownershipVars
  BY <1>6 DEF ownershipVars, OwnershipInv, SubmitsTyped, PassedChecks, RowsAreLate, EntriesAreLate, Exclusive,
       Barred, Later, Submission, DncEntry, SubmitRequest, OwnershipDays
<1> QED  BY <1>1, <1>2, <1>3, <1>4, <1>5, <1>6 DEF OwnershipNext

LEMMA OwnershipInvSubmitted == OwnershipInv => OnlyLateBlockers
  BY DEF OwnershipInv, PassedChecks, RowsAreLate, EntriesAreLate, OnlyLateBlockers

\* Rows of the tables come and go and days end between the steps of a request:
\* no exclusivity or do-not-contact entry stands at its INSERT that was there
\* when the request asked about it.
THEOREM BlockersCameLate == OwnershipSpec => []OnlyLateBlockers
<1>1. OwnershipSpec => []OwnershipInv
  BY OwnershipInvInit, OwnershipInvStep, PTL DEF OwnershipSpec
<1> QED  BY <1>1, OwnershipInvSubmitted, PTL

-----------------------------------------------------------------------------
(* Employees.                                                              *)


EmployeeRow == [email : Emails, col : [Fields -> 0..MaxPatches]]

PostCall == [email : Emails, id : Nat,
             pc : {"look", "insert", "audit", "created", "conflict", "error"}]

PatchCall == [id : 1..MaxCreateCalls, columns : Bodies, email : Emails,
              pc : {"update", "audit", "done", "not found", "error"}]

RequestsTyped ==
    /\ employees \in Seq(EmployeeRow)
    /\ posts \in Seq(PostCall) /\ patches \in Seq(PatchCall) /\ Len(patches) <= MaxPatches

WorkforceInv == RequestsTyped /\ EmailsUnique

-----------------------------------------------------------------------------

\* A request that goes on is a request, and none is added.
LEMMA PatchMoves ==
    ASSUME WorkforceInv, NEW n \in DOMAIN patches
    PROVE  \A pc \in {"not found", "error", "done", "audit"} :
            /\ [patches EXCEPT ![n].pc = pc] \in Seq(PatchCall)
            /\ Len([patches EXCEPT ![n].pc = pc]) = Len(patches)
<1>1. patches[n] \in PatchCall
  BY DEF WorkforceInv, RequestsTyped
<1>2. ASSUME NEW q \in PatchCall
      PROVE  [patches EXCEPT ![n] = q] \in Seq(PatchCall) /\ Len([patches EXCEPT ![n] = q]) = Len(patches)
  BY DEF WorkforceInv, RequestsTyped
<1>3. ASSUME NEW pc \in {"not found", "error", "done", "audit"}
      PROVE  /\ [patches EXCEPT ![n].pc = pc] \in Seq(PatchCall)
             /\ Len([patches EXCEPT ![n].pc = pc]) = Len(patches)
  <2>1. [patches[n] EXCEPT !.pc = pc] \in PatchCall
    BY <1>1 DEF PatchCall
  <2>2. [patches EXCEPT ![n].pc = pc] = [patches EXCEPT ![n] = [patches[n] EXCEPT !.pc = pc]]
    OBVIOUS
  <2> QED  BY <1>2, <2>1, <2>2, Zenon
<1> QED  BY <1>3

LEMMA WorkforceInvInit == WorkforceInit => WorkforceInv
  BY WorkforceAssumption DEF WorkforceInit, WorkforceInv, RequestsTyped, EmailsUnique

\* A new row has an email nobody has.
LEMMA InsertKeepsInv ==
    ASSUME WorkforceInv, NEW i \in DOMAIN posts, insert_returning(i)
    PROVE  WorkforceInv'
<1>1. posts[i] \in PostCall
  BY DEF WorkforceInv, RequestsTyped
<1>2. CASE UniqueEmail(posts[i].email)
  <2>1. /\ employees' = Append(employees, Row(posts[i].email))
        /\ posts' = [posts EXCEPT ![i].pc = "audit", ![i].id = Len(employees')]
        /\ UNCHANGED patches
    BY <1>2 DEF insert_returning
  <2>2. Row(posts[i].email) \in EmployeeRow
    BY <1>1, WorkforceAssumption DEF Row, EmployeeRow, PostCall
  <2>3. employees \in Seq(EmployeeRow)
    BY DEF WorkforceInv, RequestsTyped
  <2>4. employees' \in Seq(EmployeeRow) /\ Len(employees') \in Nat
    BY <2>1, <2>2, <2>3
  <2>5. [posts[i] EXCEPT !.pc = "audit", !.id = Len(employees')] \in PostCall
    BY <1>1, <2>4 DEF PostCall
  <2>6. posts' = [posts EXCEPT ![i] = [posts[i] EXCEPT !.pc = "audit", !.id = Len(employees')]]
    BY <2>1
  <2>7. posts' \in Seq(PostCall)
    BY <2>5, <2>6 DEF WorkforceInv, RequestsTyped
  <2>8. \A j \in DOMAIN employees : employees[j].email # posts[i].email
    BY <1>2 DEF UniqueEmail, HasEmail
  <2>9. /\ DOMAIN employees' = DOMAIN employees \cup {Len(employees) + 1}
        /\ \A j \in DOMAIN employees : employees'[j] = employees[j]
        /\ employees'[Len(employees) + 1].email = posts[i].email
    BY <2>1, <2>3 DEF Row
  <2>10. EmailsUnique'
    BY <2>8, <2>9 DEF WorkforceInv, EmailsUnique
  <2> QED  BY <2>1, <2>4, <2>7, <2>10 DEF WorkforceInv, RequestsTyped
<1>3. CASE ~UniqueEmail(posts[i].email)
  <2>1. /\ posts' = [posts EXCEPT ![i] = [posts[i] EXCEPT !.pc = "error"]]
        /\ UNCHANGED <<employees, patches>>
    BY <1>3 DEF insert_returning
  <2>2. [posts[i] EXCEPT !.pc = "error"] \in PostCall
    BY <1>1 DEF PostCall
  <2> QED  BY <2>1, <2>2 DEF WorkforceInv, RequestsTyped, EmailsUnique
<1> QED  BY <1>2, <1>3

\* A row that changes keeps its email or takes one nobody has.
LEMMA UpdateKeepsInv ==
    ASSUME WorkforceInv, NEW n \in DOMAIN patches, update_returning(n)
    PROVE  WorkforceInv'
<1> DEFINE p == patches[n]
           row == [email |-> IF "email" \in p.columns THEN p.email ELSE employees[p.id].email,
                   col   |-> SetClause(employees[p.id], n, p.columns)]
<1>1. p \in PatchCall
  BY DEF WorkforceInv, RequestsTyped
<1>2. \A pc \in {"not found", "error", "done", "audit"} :
        [patches EXCEPT ![n].pc = pc] \in Seq(PatchCall) /\ Len([patches EXCEPT ![n].pc = pc]) = Len(patches)
  BY PatchMoves
<1>3. UNCHANGED posts
  BY DEF update_returning
<1>4. CASE UNCHANGED employees
  <2>1. \E pc \in {"not found", "error", "done", "audit"} : patches' = [patches EXCEPT ![n].pc = pc]
    BY DEF update_returning
  <2> QED  BY <1>2, <1>3, <1>4, <2>1 DEF WorkforceInv, RequestsTyped, EmailsUnique
<1>5. CASE /\ p.id \in DOMAIN employees
           /\ ~("email" \in p.columns /\ p.email # employees[p.id].email /\ ~UniqueEmail(p.email))
           /\ employees' = [employees EXCEPT ![p.id] = row]
           /\ patches' = [patches EXCEPT ![n].pc = IF p.columns = {} THEN "done" ELSE "audit"]
  <2>1. employees \in Seq(EmployeeRow) /\ employees[p.id] \in EmployeeRow
    BY <1>5 DEF WorkforceInv, RequestsTyped
  <2>2. n \in 1..MaxPatches
    BY WorkforceAssumption DEF WorkforceInv, RequestsTyped
  <2>3. SetClause(employees[p.id], n, p.columns) \in [Fields -> 0..MaxPatches]
    <3>1. employees[p.id].col \in [Fields -> 0..MaxPatches]
      BY <2>1 DEF EmployeeRow
    <3>2. n \in 0..MaxPatches
      BY <2>2, WorkforceAssumption
    <3> QED  BY <3>1, <3>2 DEF SetClause
  <2>4. row.email \in Emails /\ row.email = IF "email" \in p.columns THEN p.email ELSE employees[p.id].email
    BY <1>1, <2>1 DEF PatchCall, EmployeeRow
  <2>5. row \in EmployeeRow
    BY <2>3, <2>4 DEF EmployeeRow
  <2>6. employees' \in Seq(EmployeeRow) /\ DOMAIN employees' = DOMAIN employees
    BY <1>5, <2>1, <2>5
  <2>7. \A j \in DOMAIN employees : j # p.id => employees[j].email # row.email
    <3>1. CASE row.email = employees[p.id].email
      BY <1>5, <3>1 DEF WorkforceInv, EmailsUnique
    <3>2. CASE row.email # employees[p.id].email
      BY <1>5, <2>4, <3>2 DEF UniqueEmail, HasEmail
    <3> QED  BY <3>1, <3>2
  <2>8. EmailsUnique'
    <3>1. employees'[p.id].email = row.email
      BY <1>5
    <3>2. \A j \in DOMAIN employees : j # p.id => employees'[j].email = employees[j].email
      BY <1>5
    <3> HIDE DEF row, p
    <3> QED  BY <2>6, <2>7, <3>1, <3>2 DEF WorkforceInv, EmailsUnique
  <2>9. patches' \in Seq(PatchCall) /\ Len(patches') = Len(patches)
    BY <1>2, <1>5
  <2> QED  BY <1>3, <2>6, <2>8, <2>9 DEF WorkforceInv, RequestsTyped
<1> QED  BY <1>4, <1>5 DEF update_returning

LEMMA WorkforceInvStep == WorkforceInv /\ [WorkforceNext]_workforceVars => WorkforceInv'
<1> SUFFICES ASSUME WorkforceInv, [WorkforceNext]_workforceVars PROVE WorkforceInv'
  OBVIOUS
<1>1. ASSUME NEW email \in Emails, PostEmployee(email) PROVE WorkforceInv'
  <2>1. [email |-> email, pc |-> "look", id |-> 0] \in PostCall
    BY DEF PostCall
  <2> QED  BY <1>1, <2>1 DEF PostEmployee, WorkforceInv, RequestsTyped, EmailsUnique
<1>2. ASSUME NEW i \in DOMAIN posts, create_employee(i) PROVE WorkforceInv'
  <2>1. posts[i] \in PostCall
    BY DEF WorkforceInv, RequestsTyped
  <2>2. PICK pc \in {"conflict", "insert"} : posts' = [posts EXCEPT ![i] = [posts[i] EXCEPT !.pc = pc]]
    BY <1>2 DEF create_employee
  <2>3. [posts[i] EXCEPT !.pc = pc] \in PostCall
    BY <2>1 DEF PostCall
  <2>4. UNCHANGED <<employees, patches>>
    BY <1>2 DEF create_employee
  <2> QED  BY <2>2, <2>3, <2>4 DEF WorkforceInv, RequestsTyped, EmailsUnique
<1>3. ASSUME NEW i \in DOMAIN posts, insert_returning(i) PROVE WorkforceInv'
  BY <1>3, InsertKeepsInv
<1>4. ASSUME NEW i \in DOMAIN posts, AuditPost(i) PROVE WorkforceInv'
  <2>1. posts[i] \in PostCall
    BY DEF WorkforceInv, RequestsTyped
  <2>2. posts' = [posts EXCEPT ![i] = [posts[i] EXCEPT !.pc = "created"]]
    BY <1>4 DEF AuditPost
  <2>3. [posts[i] EXCEPT !.pc = "created"] \in PostCall
    BY <2>1 DEF PostCall
  <2>4. UNCHANGED <<employees, patches>>
    BY <1>4 DEF AuditPost
  <2> QED  BY <2>2, <2>3, <2>4 DEF WorkforceInv, RequestsTyped, EmailsUnique
<1>5. ASSUME NEW id \in 1..MaxCreateCalls, NEW columns \in Bodies, NEW email \in Emails,
             PatchEmployee(id, columns, email)
      PROVE  WorkforceInv'
  <2>1. [id |-> id, columns |-> columns, email |-> email, pc |-> "update"] \in PatchCall
    BY DEF PatchCall
  <2>2. patches' \in Seq(PatchCall) /\ Len(patches') <= MaxPatches
    BY <1>5, <2>1, WorkforceAssumption DEF PatchEmployee, WorkforceInv, RequestsTyped
  <2> QED  BY <1>5, <2>2 DEF PatchEmployee, WorkforceInv, RequestsTyped, EmailsUnique
<1>6. ASSUME NEW n \in DOMAIN patches, update_returning(n) PROVE WorkforceInv'
  BY <1>6, UpdateKeepsInv
<1>7. ASSUME NEW n \in DOMAIN patches, AuditPatch(n) PROVE WorkforceInv'
  <2>1. patches[n] \in PatchCall
    BY DEF WorkforceInv, RequestsTyped
  <2>2. patches' = [patches EXCEPT ![n] = [patches[n] EXCEPT !.pc = "done"]]
    BY <1>7 DEF AuditPatch
  <2>3. [patches[n] EXCEPT !.pc = "done"] \in PatchCall
    BY <2>1 DEF PatchCall
  <2>4. UNCHANGED <<employees, posts>>
    BY <1>7 DEF AuditPatch
  <2> QED  BY <2>2, <2>3, <2>4 DEF WorkforceInv, RequestsTyped, EmailsUnique
<1>8. CASE UNCHANGED workforceVars
  BY <1>8 DEF workforceVars, WorkforceInv, RequestsTyped, EmailsUnique
<1> QED  BY <1>1, <1>2, <1>3, <1>4, <1>5, <1>6, <1>7, <1>8 DEF WorkforceNext

-----------------------------------------------------------------------------
(* What every value of a field says of the patches.                        *)

\* A value other than the first is of a patch that set the field, and a patch
\* that was carried out left a value in its fields.
Written(i) ==
    \A f \in Fields : employees[i].col[f] # 0 =>
        /\ employees[i].col[f] \in DOMAIN patches
        /\ f \in patches[employees[i].col[f]].columns

Landed(n) ==
    patches[n].pc \in {"audit", "done"} =>
        /\ patches[n].id \in DOMAIN employees
        /\ \A f \in patches[n].columns \ {"email"} : employees[patches[n].id].col[f] # 0

FieldsTraced ==
    /\ \A i \in DOMAIN employees : Written(i)
    /\ \A n \in DOMAIN patches : Landed(n)

LEMMA PatchesOnRecord ==
    ASSUME WorkforceInv, FieldsTraced
    PROVE  PatchesSurvive
<1> SUFFICES ASSUME NEW n \in DOMAIN patches, patches[n].pc = "done",
                    NEW f \in patches[n].columns \ {"email"}
             PROVE  LET m == employees[patches[n].id].col[f] IN m # 0 /\ f \in patches[m].columns
  BY DEF PatchesSurvive
<1>1. patches[n].columns \in Bodies
  <2>1. patches[n] \in PatchCall
    BY DEF WorkforceInv, RequestsTyped
  <2> QED  BY <2>1 DEF PatchCall
<1>2. f \in Fields
  BY <1>1, WorkforceAssumption
<1>3. patches[n].id \in DOMAIN employees /\ employees[patches[n].id].col[f] # 0
  BY DEF FieldsTraced, Landed
<1> QED  BY <1>2, <1>3 DEF FieldsTraced, Written

\* A step that leaves rows alone and only moves one patch on.
LEMMA MoveKeepsFields ==
    ASSUME FieldsTraced, UNCHANGED employees, NEW n \in DOMAIN patches, NEW pc,
           patches' = [patches EXCEPT ![n].pc = pc],
           pc \in {"audit", "done"} => patches[n].pc \in {"audit", "done"}
    PROVE  FieldsTraced'
<1>1. /\ DOMAIN patches' = DOMAIN patches
      /\ \A k \in DOMAIN patches : patches'[k].columns = patches[k].columns /\ patches'[k].id = patches[k].id
      /\ \A k \in DOMAIN patches :
            patches'[k].pc \in {"audit", "done"} => patches[k].pc \in {"audit", "done"}
  OBVIOUS
<1>2. \A i \in DOMAIN employees : Written(i)'
  BY <1>1 DEF FieldsTraced, Written
<1>3. \A k \in DOMAIN patches : Landed(k)'
  BY <1>1 DEF FieldsTraced, Landed
<1> QED  BY <1>1, <1>2, <1>3 DEF FieldsTraced

\* A new row has the first value everywhere.
LEMMA InsertKeepsFields ==
    ASSUME WorkforceInv, FieldsTraced, NEW i \in DOMAIN posts, insert_returning(i)
    PROVE  FieldsTraced'
<1>1. CASE UniqueEmail(posts[i].email)
  <2>1. employees' = Append(employees, Row(posts[i].email)) /\ UNCHANGED patches
    BY <1>1 DEF insert_returning
  <2>2. employees \in Seq(EmployeeRow)
    BY DEF WorkforceInv, RequestsTyped
  <2>3. /\ DOMAIN employees' = DOMAIN employees \cup {Len(employees) + 1}
        /\ \A j \in DOMAIN employees : employees'[j] = employees[j]
        /\ employees'[Len(employees) + 1] = Row(posts[i].email)
    BY <2>1, <2>2
  <2>4. \A f \in Fields : Row(posts[i].email).col[f] = 0
    BY DEF Row
  <2>5. \A j \in DOMAIN employees' : Written(j)'
    BY <2>1, <2>3, <2>4 DEF FieldsTraced, Written
  <2>6. \A n \in DOMAIN patches : Landed(n)'
    BY <2>1, <2>3 DEF FieldsTraced, Landed
  <2> QED  BY <2>1, <2>5, <2>6 DEF FieldsTraced
<1>2. CASE ~UniqueEmail(posts[i].email)
  BY <1>2 DEF insert_returning, FieldsTraced, Written, Landed
<1> QED  BY <1>1, <1>2

\* The UPDATE leaves its number in its fields, and the others as they were.
LEMMA UpdateKeepsFields ==
    ASSUME WorkforceInv, FieldsTraced, NEW n \in DOMAIN patches, update_returning(n)
    PROVE  FieldsTraced'
<1> DEFINE p == patches[n]
<1>1. CASE UNCHANGED employees /\ \E pc \in {"not found", "error"} : patches' = [patches EXCEPT ![n].pc = pc]
  BY <1>1, MoveKeepsFields
<1>2. CASE /\ p.id \in DOMAIN employees
           /\ employees' = [employees EXCEPT ![p.id] =
                    [email |-> IF "email" \in p.columns THEN p.email ELSE @.email,
                     col   |-> SetClause(@, n, p.columns)]]
           /\ patches' = [patches EXCEPT ![n].pc = IF p.columns = {} THEN "done" ELSE "audit"]
  <2>1. /\ DOMAIN patches' = DOMAIN patches
        /\ \A k \in DOMAIN patches : patches'[k].columns = patches[k].columns /\ patches'[k].id = patches[k].id
        /\ \A k \in DOMAIN patches : k # n => patches'[k].pc = patches[k].pc
    BY <1>2
  <2>2. DOMAIN employees' = DOMAIN employees
    BY <1>2
  <2>3. \A j \in DOMAIN employees : j # p.id => employees'[j] = employees[j]
    BY <1>2
  <2>4. \A f \in Fields : employees'[p.id].col[f] = IF f \in p.columns THEN n ELSE employees[p.id].col[f]
    BY <1>2 DEF SetClause
  <2>5. n # 0
    BY DEF WorkforceInv, RequestsTyped
  <2>6. ASSUME NEW j \in DOMAIN employees PROVE Written(j)'
    <3>1. CASE j # p.id
      BY <2>1, <2>3, <3>1 DEF FieldsTraced, Written
    <3>2. CASE j = p.id
      BY <2>1, <2>4, <3>2 DEF FieldsTraced, Written
    <3> QED  BY <3>1, <3>2
  <2>7. ASSUME NEW k \in DOMAIN patches PROVE Landed(k)'
    <3>1. patches[k].columns \ {"email"} \subseteq Fields
      <4>1. patches[k] \in PatchCall
        BY DEF WorkforceInv, RequestsTyped
      <4>2. patches[k].columns \in Bodies
        BY <4>1 DEF PatchCall
      <4> QED  BY <4>2, WorkforceAssumption
    <3>2. CASE k = n
      BY <1>2, <2>1, <2>2, <2>4, <2>5, <3>1, <3>2 DEF Landed
    <3>3. CASE k # n /\ patches[k].id # p.id
      BY <2>1, <2>2, <2>3, <3>3 DEF FieldsTraced, Landed
    <3>4. CASE k # n /\ patches[k].id = p.id
      BY <2>1, <2>2, <2>4, <2>5, <3>1, <3>4 DEF FieldsTraced, Landed
    <3> QED  BY <3>2, <3>3, <3>4
  <2> QED  BY <2>1, <2>2, <2>6, <2>7 DEF FieldsTraced
<1> QED  BY <1>1, <1>2 DEF update_returning

LEMMA FieldsStep ==
    WorkforceInv /\ FieldsTraced /\ [WorkforceNext]_workforceVars => FieldsTraced'
<1> SUFFICES ASSUME WorkforceInv, FieldsTraced, [WorkforceNext]_workforceVars PROVE FieldsTraced'
  OBVIOUS
<1>1. ASSUME UNCHANGED <<employees, patches>> PROVE FieldsTraced'
  BY <1>1 DEF FieldsTraced, Written, Landed
<1>2. ASSUME NEW i \in DOMAIN posts, insert_returning(i) PROVE FieldsTraced'
  BY <1>2, InsertKeepsFields
<1>3. ASSUME NEW id \in 1..MaxCreateCalls, NEW columns \in Bodies, NEW email \in Emails,
             PatchEmployee(id, columns, email)
      PROVE  FieldsTraced'
  <2>1. patches \in Seq(PatchCall) /\ UNCHANGED employees
    BY <1>3 DEF PatchEmployee, WorkforceInv, RequestsTyped
  <2>2. /\ DOMAIN patches' = DOMAIN patches \cup {Len(patches) + 1}
        /\ \A k \in DOMAIN patches : patches'[k] = patches[k]
        /\ patches'[Len(patches) + 1].pc = "update"
    BY <1>3, <2>1 DEF PatchEmployee
  <2>3. \A i \in DOMAIN employees : Written(i)'
    BY <2>1, <2>2 DEF FieldsTraced, Written
  <2>4. \A k \in DOMAIN patches' : Landed(k)'
    BY <2>1, <2>2 DEF FieldsTraced, Landed
  <2> QED  BY <2>1, <2>3, <2>4 DEF FieldsTraced
<1>4. ASSUME NEW n \in DOMAIN patches, update_returning(n) PROVE FieldsTraced'
  BY <1>4, UpdateKeepsFields
<1>5. ASSUME NEW n \in DOMAIN patches, AuditPatch(n) PROVE FieldsTraced'
  BY <1>5, MoveKeepsFields DEF AuditPatch
<1>6. ASSUME NEW email \in Emails, PostEmployee(email) PROVE FieldsTraced'
  BY <1>1, <1>6 DEF PostEmployee
<1>7. ASSUME NEW i \in DOMAIN posts, create_employee(i) \/ AuditPost(i) PROVE FieldsTraced'
  BY <1>1, <1>7 DEF create_employee, AuditPost
<1>8. CASE UNCHANGED workforceVars
  BY <1>1, <1>8 DEF workforceVars
<1> QED  BY <1>2, <1>3, <1>4, <1>5, <1>6, <1>7, <1>8 DEF WorkforceNext

\* Requests that interleave at their statements neither give two employees one
\* email nor undo each other's changes, however many there are.
THEOREM RequestsKeepEmployees == WorkforceSpec => []EmployeesKept
<1>1. WorkforceInit => FieldsTraced
  BY DEF WorkforceInit, FieldsTraced
<1>2. WorkforceInv /\ FieldsTraced => EmployeesKept
  BY PatchesOnRecord DEF EmployeesKept, WorkforceInv
<1> QED  BY <1>1, <1>2, WorkforceInvInit, WorkforceInvStep, FieldsStep, PTL DEF WorkforceSpec

-----------------------------------------------------------------------------
(* Backups: one bucket.                                                    *)

\* A dict has no key twice.
Distinct(b) == \A i, j \in DOMAIN b : b[i].rank = b[j].rank => i = j

\* f puts the positions of a bucket in the order of the ranks.
Arranges(f, b) ==
    /\ f \in [1..Len(b) -> 1..Len(b)]
    /\ \A i \in 1..Len(b) : \E m \in 1..Len(b) : f[m] = i
    /\ \A m, k \in 1..Len(b) : m < k => b[f[m]].rank < b[f[k]].rank

RankKey(b) == [i \in DOMAIN b |-> b[i].rank]

LEMMA BucketIs ==
    ASSUME NEW b \in Seq(Item)
    PROVE  /\ Len(b) \in Nat /\ DOMAIN b = 1..Len(b) /\ IsFiniteSet(DOMAIN b) /\ Cardinality(DOMAIN b) = Len(b)
           /\ \A i \in DOMAIN b : b[i] \in Item /\ b[i].rank \in Int /\ b[i].no \in Numbers /\ RankKey(b)[i] = b[i].rank
<1>1. Len(b) \in Nat /\ DOMAIN b = 1..Len(b)
  OBVIOUS
<1>2. IsFiniteSet(1..Len(b)) /\ Cardinality(1..Len(b)) = Len(b)
  BY <1>1, FS_Interval
<1>3. \A i \in DOMAIN b : b[i] \in Item
  OBVIOUS
<1> QED  BY <1>1, <1>2, <1>3 DEF Item, RankKey

LEMMA ByRankArranges ==
    ASSUME NEW b \in Seq(Item), Distinct(b)
    PROVE  /\ Arranges(InOrder(DOMAIN b, RankKey(b)), b)
           /\ ByRank(b) = [n \in 1..Len(b) |-> b[InOrder(DOMAIN b, RankKey(b))[n]]]
<1> DEFINE f == InOrder(DOMAIN b, RankKey(b))
<1>1. /\ f \in [1..Len(b) -> 1..Len(b)]
      /\ \A i \in 1..Len(b) : \E m \in 1..Len(b) : f[m] = i
      /\ \A m, k \in 1..Len(b) : m < k => Sooner(RankKey(b), f[m], f[k])
  <2> DEFINE S == DOMAIN b
             key == RankKey(b)
  <2>1. /\ IsFiniteSet(S) /\ S \subseteq Int /\ \A i \in S : key[i] \in Int
        /\ Cardinality(S) = Len(b) /\ S = 1..Len(b)
    BY BucketIs
  <2> HIDE DEF S, key
  <2>2. Ascending(InOrder(S, key), S, key)
    BY <2>1, InOrderSorts
  <2> QED  BY <2>1, <2>2 DEF S, key, Ascending
<1>2. ByRank(b) = [n \in 1..Len(b) |-> b[f[n]]]
  BY <1>1 DEF ByRank, Sorted, RankKey
<1> HIDE DEF f
<1>3. \A m, k \in 1..Len(b) : m < k => b[f[m]].rank < b[f[k]].rank
  <2> SUFFICES ASSUME NEW m \in 1..Len(b), NEW k \in 1..Len(b), m < k PROVE b[f[m]].rank < b[f[k]].rank
    OBVIOUS
  <2>1. f[m] \in DOMAIN b /\ f[k] \in DOMAIN b /\ Sooner(RankKey(b), f[m], f[k])
    BY <1>1, BucketIs
  <2>2. b[f[m]].rank < b[f[k]].rank \/ (b[f[m]].rank = b[f[k]].rank /\ f[m] < f[k])
    BY <2>1, BucketIs DEF Sooner
  <2> QED  BY <2>1, <2>2, BucketIs DEF Distinct
<1> QED  BY <1>1, <1>2, <1>3 DEF Arranges, f

LEMMA LineIs ==
    ASSUME NEW b \in Seq(Item), Distinct(b), NEW f, Arranges(f, b)
    PROVE  LineOf(b) = [n \in 1..Len(b) |-> b[f[n]].no]
<1>1. \A i \in DOMAIN b : {j \in DOMAIN b : b[j].rank < b[i].rank} = Predecessors(DOMAIN b, RankKey(b), i)
  <2> SUFFICES ASSUME NEW i \in DOMAIN b, NEW j \in DOMAIN b
               PROVE  b[j].rank < b[i].rank <=> Sooner(RankKey(b), j, i)
    BY DEF Predecessors
  <2>1. RankKey(b)[i] = b[i].rank /\ RankKey(b)[j] = b[j].rank /\ i \in Int
    BY BucketIs
  <2> QED  BY <2>1 DEF Sooner, Distinct
<1>2. InOrder(DOMAIN b, RankKey(b)) = f
  <2> DEFINE S == DOMAIN b
             key == RankKey(b)
             n == Len(b)
  <2>1. /\ IsFiniteSet(S) /\ S \subseteq Int /\ \A i \in S : key[i] = b[i].rank /\ key[i] \in Int
        /\ Cardinality(S) = n /\ S = 1..n
    BY BucketIs
  <2>2. /\ f \in [1..n -> S]
        /\ \A i \in S : \E m \in 1..n : f[m] = i
        /\ \A m, k \in 1..n : m < k => b[f[m]].rank < b[f[k]].rank
    BY <2>1 DEF Arranges
  <2> HIDE DEF S, key, n
  <2>3. \A m, k \in 1..n : m < k => Sooner(key, f[m], f[k])
    <3> SUFFICES ASSUME NEW m \in 1..n, NEW k \in 1..n, m < k PROVE Sooner(key, f[m], f[k])
      OBVIOUS
    <3>1. f[m] \in S /\ f[k] \in S /\ b[f[m]].rank < b[f[k]].rank
      BY <2>2
    <3> QED  BY <2>1, <3>1 DEF Sooner
  <2>4. InOrder(S, key) = f
    <3>1. Ascending(f, S, key)
      BY <2>1, <2>2, <2>3 DEF Ascending
    <3> QED  BY <2>1, <3>1, InOrderIs
  <2> QED  BY <2>4 DEF S, key
<1>3. ASSUME NEW n \in 1..Len(b)
      PROVE  (CHOOSE i \in DOMAIN b : Cardinality({j \in DOMAIN b : b[j].rank < b[i].rank}) = n - 1) = f[n]
  <2>1. f[n] = CHOOSE i \in DOMAIN b : Cardinality(Predecessors(DOMAIN b, RankKey(b), i)) = n - 1
    BY <1>2, BucketIs DEF InOrder
  <2> QED  BY <1>1, <2>1
<1>4. LineOf(b) = [n \in 1..Len(b) |-> b[CHOOSE i \in DOMAIN b : Cardinality({j \in DOMAIN b : b[j].rank < b[i].rank}) = n - 1].no]
  BY BucketIs DEF LineOf
<1> QED  BY <1>3, <1>4

LEMMA KeysAre ==
    ASSUME NEW b \in Seq(Item)
    PROVE  /\ Keys(b) = {b[i].rank : i \in 1..Len(b)} /\ Held(b) = {b[i].no : i \in 1..Len(b)}
  BY BucketIs DEF Keys, Held, ToSet

LEMMA HasOrder ==
    ASSUME NEW b \in Seq(Item), Distinct(b)
    PROVE  \E f : Arranges(f, b)
  BY ByRankArranges

LEMMA LineFacts ==
    ASSUME NEW b \in Seq(Item), Distinct(b)
    PROVE  LineOf(b) \in Seq(Numbers) /\ Len(LineOf(b)) = Len(b) /\ ToSet(LineOf(b)) = Held(b)
<1>1. PICK f : Arranges(f, b)
  BY HasOrder
<1>2. LineOf(b) = [n \in 1..Len(b) |-> b[f[n]].no]
  BY <1>1, LineIs
<1>3. /\ f \in [1..Len(b) -> 1..Len(b)] /\ \A i \in 1..Len(b) : \E m \in 1..Len(b) : f[m] = i
  BY <1>1 DEF Arranges
<1>4. \A i \in 1..Len(b) : b[i].no \in Numbers
  BY BucketIs
<1>6. LineOf(b) \in Seq(Numbers) /\ Len(LineOf(b)) = Len(b)
  <2> DEFINE W == Numbers
             n == Len(b)
  <2>0. ASSUME NEW m \in 1..Len(b) PROVE b[f[m]].no \in Numbers
    <3>1. f[m] \in 1..Len(b)
      BY <1>3
    <3> QED  BY <1>4, <3>1
  <2>1. n \in Nat /\ \A m \in 1..n : b[f[m]].no \in W
    BY <2>0
  <2> HIDE DEF W, n
  <2>2. [m \in 1..n |-> b[f[m]].no] \in Seq(W) /\ Len([m \in 1..n |-> b[f[m]].no]) = n
    BY <2>1
  <2> QED  BY <1>2, <2>2 DEF W, n
<1>7. ToSet(LineOf(b)) = {b[f[m]].no : m \in 1..Len(b)}
  BY <1>2 DEF ToSet
<1>8. Held(b) = {b[i].no : i \in 1..Len(b)}
  BY KeysAre
<1>9. ToSet(LineOf(b)) = Held(b)
  <2> DEFINE n == Len(b)
  <2>1. \A m \in 1..n : f[m] \in 1..n
    BY <1>3
  <2>2. \A i \in 1..n : \E m \in 1..n : f[m] = i
    BY <1>3
  <2>3. ToSet(LineOf(b)) = {b[f[m]].no : m \in 1..n} /\ Held(b) = {b[i].no : i \in 1..n}
    BY <1>7, <1>8
  <2> HIDE DEF n
  <2>4. {b[f[m]].no : m \in 1..n} = {b[i].no : i \in 1..n}
    BY <2>1, <2>2
  <2> QED  BY <2>3, <2>4
<1> QED  BY <1>6, <1>9

\* A new rank joins the line where its rank puts it.
Inserts(b, k, e, nb) == \E p \in 1..Len(b) + 1 :
    /\ LineOf(nb) = InsertAt(LineOf(b), p, e)
    /\ (\A i \in 1..Len(b) : b[i].rank < k) => p = Len(b) + 1

LEMMA NewRankJoins ==
    ASSUME NEW b \in Seq(Item), Distinct(b), NEW k \in Int, k \notin Keys(b), NEW e \in Numbers,
           NEW nb, nb = Append(b, [rank |-> k, no |-> e])
    PROVE  nb \in Seq(Item) /\ Distinct(nb) /\ Inserts(b, k, e, nb)
<1> DEFINE n == Len(b)
<1>1. n \in Nat /\ \A i \in 1..n : b[i].rank \in Int /\ b[i].rank # k /\ b[i].no \in Numbers
  BY BucketIs, KeysAre
<1>2. /\ nb \in Seq(Item) /\ Len(nb) = n + 1 /\ DOMAIN nb = 1..n + 1
      /\ \A i \in 1..n : nb[i] = b[i]
      /\ nb[n + 1].rank = k /\ nb[n + 1].no = e
  <2>1. [rank |-> k, no |-> e] \in Item
    BY DEF Item
  <2>2. nb \in Seq(Item)
    BY <2>1
  <2>3. Len(nb) = n + 1 /\ DOMAIN nb = 1..n + 1 /\ \A i \in 1..n : nb[i] = b[i]
    BY <2>1
  <2>4. nb[n + 1] = [rank |-> k, no |-> e]
    BY <2>1
  <2> QED  BY <2>2, <2>3, <2>4
<1>3. DOMAIN b = 1..n
  OBVIOUS
<1>4. Distinct(nb)
  BY <1>1, <1>2, <1>3 DEF Distinct
<1>5. PICK f : Arranges(f, b)
  BY HasOrder
<1>6. /\ f \in [1..n -> 1..n] /\ \A i \in 1..n : \E m \in 1..n : f[m] = i
      /\ \A m, j \in 1..n : m < j => b[f[m]].rank < b[f[j]].rank
  BY <1>5 DEF Arranges
<1> DEFINE r == [m \in 1..n |-> b[f[m]].rank]
<1> HIDE DEF n
<1>7. \A m \in 1..n : r[m] = b[f[m]].rank /\ r[m] \in Int /\ r[m] # k
  BY <1>1, <1>6
<1>8. \A m, j \in 1..n : m < j => r[m] < r[j]
  BY <1>6
<1> HIDE DEF r
<1>9. PICK p \in 1..n + 1 : \A m \in 1..n : (m < p => r[m] < k) /\ (m >= p => r[m] > k)
  BY <1>1, <1>7, <1>8, GapFor
<1> DEFINE g == [m \in 1..n + 1 |-> IF m < p THEN f[m] ELSE IF m = p THEN n + 1 ELSE f[m - 1]]
<1>10. /\ g \in [1..n + 1 -> 1..n + 1] /\ \A i \in 1..n + 1 : \E m \in 1..n + 1 : g[m] = i
       /\ \A m \in 1..n + 1 : /\ m < p => m \in 1..n /\ g[m] = f[m] /\ f[m] \in 1..n
                              /\ m = p => g[m] = n + 1
                              /\ m > p => m - 1 \in 1..n /\ m - 1 >= p /\ g[m] = f[m - 1] /\ f[m - 1] \in 1..n
  <2> HIDE DEF g
  <2>1. g = [m \in 1..n + 1 |-> IF m < p THEN f[m] ELSE IF m = p THEN n + 1 ELSE f[m - 1]]
    BY DEF g
  <2>2. n \in Nat /\ p \in 1..n + 1 /\ f \in [1..n -> 1..n] /\ \A i \in 1..n : \E m \in 1..n : f[m] = i
    BY <1>1, <1>6, <1>9
  <2>3. Widens(g, f, n, p)
    BY ONLY <2>1, <2>2, Widened
  <2> QED  BY <2>3 DEF Widens
<1> HIDE DEF g
<1>13. \A m \in 1..n + 1 : /\ m < p => nb[g[m]] = b[f[m]]
                           /\ m = p => nb[g[m]].rank = k /\ nb[g[m]].no = e
                           /\ m > p => nb[g[m]] = b[f[m - 1]]
  BY <1>2, <1>10
<1> DEFINE w == [m \in 1..n + 1 |-> nb[g[m]].rank]
<1>11. \A m \in 1..n + 1 : /\ m < p => m \in 1..n /\ w[m] = r[m]
                           /\ m = p => w[m] = k
                           /\ m > p => m - 1 \in 1..n /\ m - 1 >= p /\ w[m] = r[m - 1]
  <2> SUFFICES ASSUME NEW m \in 1..n + 1
               PROVE  /\ m < p => m \in 1..n /\ w[m] = r[m]
                      /\ m = p => w[m] = k
                      /\ m > p => m - 1 \in 1..n /\ m - 1 >= p /\ w[m] = r[m - 1]
    OBVIOUS
  <2>1. w[m] = nb[g[m]].rank
    OBVIOUS
  <2> HIDE DEF w
  <2>2. m < p => m \in 1..n /\ w[m] = r[m]
    <3> SUFFICES ASSUME m < p PROVE m \in 1..n /\ w[m] = r[m]
      OBVIOUS
    <3>1. m \in 1..n /\ nb[g[m]] = b[f[m]]
      BY <1>10, <1>13
    <3> QED  BY <1>7, <2>1, <3>1
  <2>3. m = p => w[m] = k
    BY <1>13, <2>1
  <2>4. m > p => m - 1 \in 1..n /\ m - 1 >= p /\ w[m] = r[m - 1]
    <3> SUFFICES ASSUME m > p PROVE m - 1 \in 1..n /\ m - 1 >= p /\ w[m] = r[m - 1]
      OBVIOUS
    <3>1. m - 1 \in 1..n /\ m - 1 >= p /\ nb[g[m]] = b[f[m - 1]]
      BY <1>10, <1>13
    <3> QED  BY <1>7, <2>1, <3>1
  <2> QED  BY <2>2, <2>3, <2>4
<1>12. \A m \in 1..n + 1 : w[m] = nb[g[m]].rank
  OBVIOUS
<1> HIDE DEF w
<1>14. \A m, j \in 1..n + 1 : m < j => nb[g[m]].rank < nb[g[j]].rank
  <2> SUFFICES ASSUME NEW m \in 1..n + 1, NEW j \in 1..n + 1, m < j PROVE w[m] < w[j]
    BY <1>12
  <2>0. p \in Int /\ n \in Nat
    BY <1>1, <1>9
  <2>1. CASE j <= p
    <3>1. m < p /\ m \in 1..n /\ w[m] = r[m] /\ r[m] < k /\ r[m] \in Int
      BY <2>0, <2>1, <1>7, <1>9, <1>11
    <3>2. CASE j = p
      BY <1>11, <3>1, <3>2
    <3>3. CASE j < p
      <4>1. j \in 1..n /\ w[j] = r[j]
        BY <1>11, <3>3
      <4> QED  BY <1>8, <3>1, <4>1
    <3> QED  BY <2>0, <2>1, <3>2, <3>3
  <2>2. CASE j > p
    <3>1. j - 1 \in 1..n /\ w[j] = r[j - 1] /\ r[j - 1] > k /\ r[j - 1] \in Int /\ j - 1 >= p
      BY <2>0, <2>2, <1>7, <1>9, <1>11
    <3>2. CASE m <= p
      <4>1. CASE m = p
        BY <1>11, <3>1, <4>1
      <4>2. CASE m < p
        <5>1. m \in 1..n /\ w[m] = r[m] /\ r[m] < k /\ r[m] \in Int
          BY <4>2, <1>7, <1>9, <1>11
        <5> QED  BY <3>1, <5>1
      <4> QED  BY <2>0, <3>2, <4>1, <4>2
    <3>3. CASE m > p
      <4>1. m - 1 \in 1..n /\ w[m] = r[m - 1]
        BY <1>11, <3>3
      <4>2. m - 1 < j - 1
        OBVIOUS
      <4> QED  BY <1>8, <3>1, <4>1, <4>2
    <3> QED  BY <2>0, <3>2, <3>3
  <2> QED  BY <2>0, <2>1, <2>2
<1>15. Arranges(g, nb)
  BY <1>2, <1>10, <1>14 DEF Arranges
<1>16. LineOf(nb) = [m \in 1..n + 1 |-> nb[g[m]].no]
  <2>1. LineOf(nb) = [m \in 1..Len(nb) |-> nb[g[m]].no]
    BY <1>2, <1>4, <1>15, LineIs
  <2> QED  BY <1>2, <2>1
<1>17. LineOf(b) \in Seq(Numbers) /\ Len(LineOf(b)) = n
       /\ \A m \in 1..n : LineOf(b)[m] = b[f[m]].no
  <2>1. LineOf(b) = [m \in 1..n |-> b[f[m]].no]
    BY <1>5, LineIs DEF n
  <2> QED  BY <2>1, LineFacts DEF n
<1>18. InsertAt(LineOf(b), p, e) = [m \in 1..n + 1 |->
          IF m < p THEN LineOf(b)[m] ELSE IF m = p THEN e ELSE LineOf(b)[m - 1]]
  <2> DEFINE s == LineOf(b)
             W == Numbers
  <2>1. s \in Seq(W) /\ Len(s) = n /\ p \in 1..Len(s) + 1 /\ e \in W
    BY <1>9, <1>17
  <2> HIDE DEF s, W
  <2>2. InsertAt(s, p, e) = [m \in 1..Len(s) + 1 |-> IF m < p THEN s[m] ELSE IF m = p THEN e ELSE s[m - 1]]
    BY ONLY <2>1, InsertAtIs
  <2> QED  BY <2>1, <2>2 DEF s
<1>19. \A m \in 1..n + 1 : nb[g[m]].no = IF m < p THEN LineOf(b)[m] ELSE IF m = p THEN e ELSE LineOf(b)[m - 1]
  <2> SUFFICES ASSUME NEW m \in 1..n + 1
               PROVE  nb[g[m]].no = IF m < p THEN LineOf(b)[m] ELSE IF m = p THEN e ELSE LineOf(b)[m - 1]
    OBVIOUS
  <2>0. p \in Int
    BY <1>9
  <2>1. CASE m < p
    <3>1. m \in 1..n /\ nb[g[m]] = b[f[m]]
      BY <1>10, <1>13, <2>1
    <3>2. LineOf(b)[m] = b[f[m]].no
      BY <1>17, <3>1
    <3> QED  BY <2>1, <3>1, <3>2
  <2>2. CASE m = p
    <3>1. nb[g[m]].no = e
      BY <1>13, <2>2
    <3>2. ~(m < p)
      BY <2>0, <2>2
    <3> QED  BY <2>2, <3>1, <3>2
  <2>3. CASE m > p
    <3>1. m - 1 \in 1..n /\ nb[g[m]] = b[f[m - 1]]
      BY <1>10, <1>13, <2>3
    <3>2. LineOf(b)[m - 1] = b[f[m - 1]].no
      BY <1>17, <3>1
    <3>3. ~(m < p) /\ m # p
      BY <2>0, <2>3
    <3> QED  BY <3>1, <3>2, <3>3
  <2>4. m < p \/ m = p \/ m > p
    BY <1>1, <2>0
  <2> QED  BY <2>1, <2>2, <2>3, <2>4
<1>20. LineOf(nb) = InsertAt(LineOf(b), p, e)
  BY <1>16, <1>18, <1>19
<1>21. (\A i \in 1..n : b[i].rank < k) => p = n + 1
  <2> SUFFICES ASSUME \A i \in 1..n : b[i].rank < k, p # n + 1 PROVE FALSE
    OBVIOUS
  <2>1. p \in 1..n
    BY <1>1, <1>9
  <2>2. f[p] \in 1..n /\ r[p] > k /\ r[p] = b[f[p]].rank
    <3>1. p >= p
      BY <2>1, <1>1
    <3> QED  BY <1>6, <1>7, <1>9, <2>1, <3>1
  <2> QED  BY <1>1, <2>2
<1> QED  BY <1>2, <1>4, <1>9, <1>20, <1>21 DEF Inserts, n

\* A rank that is taken: its entry gives up its place in the line.
Replaces(b, e, nb) == \E m \in DOMAIN LineOf(b) : LineOf(nb) = [LineOf(b) EXCEPT ![m] = e]

LEMMA TakenRankChanges ==
    ASSUME NEW b \in Seq(Item), Distinct(b), NEW k \in Keys(b), NEW e \in Numbers,
           NEW nb, nb = [i \in DOMAIN b |-> IF b[i].rank = k THEN [rank |-> k, no |-> e] ELSE b[i]]
    PROVE  nb \in Seq(Item) /\ Distinct(nb) /\ Replaces(b, e, nb)
<1> DEFINE n == Len(b)
<1>1. /\ n \in Nat /\ DOMAIN b = 1..n
      /\ \A i \in 1..n : b[i] \in Item /\ b[i].rank \in Int /\ b[i].no \in Numbers
  BY BucketIs
<1>2. \A i \in 1..n : nb[i] \in Item /\ nb[i].rank = b[i].rank /\ nb[i].no = IF b[i].rank = k THEN e ELSE b[i].no
  BY <1>1 DEF Item
<1>3. nb = [i \in 1..n |-> nb[i]] /\ n \in Nat
  BY <1>1
<1>4. nb \in Seq(Item) /\ Len(nb) = n /\ DOMAIN nb = 1..n
  <2> DEFINE W == Item
  <2>1. \A i \in 1..n : nb[i] \in W
    BY <1>2
  <2> HIDE DEF W, n
  <2>2. [i \in 1..n |-> nb[i]] \in Seq(W) /\ Len([i \in 1..n |-> nb[i]]) = n /\ DOMAIN [i \in 1..n |-> nb[i]] = 1..n
    BY <1>3, <2>1
  <2> QED  BY <1>3, <2>2 DEF W
<1>5. Distinct(nb)
  BY <1>1, <1>2, <1>4 DEF Distinct
<1>6. PICK f : Arranges(f, b)
  BY HasOrder
<1> HIDE DEF n
<1>7. /\ f \in [1..n -> 1..n] /\ \A i \in 1..n : \E m \in 1..n : f[m] = i
      /\ \A m, j \in 1..n : m < j => b[f[m]].rank < b[f[j]].rank
  BY <1>6 DEF Arranges, n
<1>8. \A m \in 1..n : f[m] \in 1..n /\ nb[f[m]].rank = b[f[m]].rank
  BY <1>2, <1>7
<1>9. Arranges(f, nb)
  BY <1>4, <1>7, <1>8 DEF Arranges
<1>10. LineOf(b) = [m \in 1..n |-> b[f[m]].no]
  BY <1>6, LineIs DEF n
<1>11. LineOf(nb) = [m \in 1..n |-> nb[f[m]].no]
  <2>1. LineOf(nb) = [m \in 1..Len(nb) |-> nb[f[m]].no]
    BY <1>4, <1>5, <1>9, LineIs
  <2> QED  BY <1>4, <2>1
<1>12. PICK i \in 1..n : b[i].rank = k
  <2>1. Keys(b) = {b[i].rank : i \in 1..n}
    BY KeysAre DEF n
  <2> QED  BY <2>1
<1>13. PICK m \in 1..n : f[m] = i
  BY <1>7
<1>14. \A j \in 1..n : b[f[j]].rank = k <=> j = m
  <2> SUFFICES ASSUME NEW j \in 1..n PROVE b[f[j]].rank = k <=> j = m
    OBVIOUS
  <2>1. b[f[m]].rank = k /\ k \in Int
    BY <1>1, <1>12, <1>13
  <2>2. j < m => b[f[j]].rank < b[f[m]].rank
    BY <1>7
  <2>3. m < j => b[f[m]].rank < b[f[j]].rank
    BY <1>7
  <2>4. f[j] \in 1..n
    BY <1>7
  <2>5. b[f[j]].rank \in Int
    BY <1>1, <2>4
  <2>6. j < m \/ m < j \/ j = m
    BY <1>1
  <2> QED  BY <2>1, <2>2, <2>3, <2>5, <2>6
<1>15. \A j \in 1..n : nb[f[j]].no = IF j = m THEN e ELSE b[f[j]].no
  BY <1>2, <1>8, <1>14
<1>16. LineOf(nb) = [LineOf(b) EXCEPT ![m] = e] /\ m \in DOMAIN LineOf(b)
  <2> DEFINE l == LineOf(b)
  <2>1. l = [j \in 1..n |-> b[f[j]].no]
    BY <1>10
  <2>2. LineOf(nb) = [j \in 1..n |-> IF j = m THEN e ELSE b[f[j]].no]
    BY <1>11, <1>15
  <2> HIDE DEF l
  <2>3. DOMAIN l = 1..n /\ \A j \in 1..n : l[j] = b[f[j]].no
    BY <2>1
  <2>4. [l EXCEPT ![m] = e] = [j \in 1..n |-> IF j = m THEN e ELSE b[f[j]].no]
    BY <2>3
  <2> QED  BY <2>2, <2>3, <2>4 DEF l
<1> QED  BY <1>4, <1>5, <1>16 DEF Replaces

\* The first of the line is promoted, and the others keep their order.
LEMMA FirstGoes ==
    ASSUME NEW b \in Seq(Item), Distinct(b), b # <<>>,
           NEW nb, nb = Renumbered(Survivors(ByRank(b)))
    PROVE  /\ nb \in Seq(Item) /\ Distinct(nb) /\ LineOf(nb) = Tail(LineOf(b))
           /\ LineOf(b) # <<>> /\ Head(ByRank(b)).no = Head(LineOf(b))
<1> DEFINE n == Len(b)
           f == InOrder(DOMAIN b, RankKey(b))
           s == ByRank(b)
<1>1. /\ n \in Nat /\ n > 0 /\ DOMAIN b = 1..n
      /\ \A i \in 1..n : b[i] \in Item /\ b[i].rank \in Int /\ b[i].no \in Numbers
  BY BucketIs
<1>2. Arranges(f, b) /\ s = [m \in 1..n |-> b[f[m]]]
  BY ByRankArranges
<1> HIDE DEF f, s, n
<1>3. f \in [1..n -> 1..n]
  BY <1>2 DEF Arranges, n
<1>4. LineOf(b) = [m \in 1..n |-> b[f[m]].no]
  BY <1>2, LineIs DEF n
<1>5. s \in Seq(Item) /\ Len(s) = n /\ \A m \in 1..n : s[m] = b[f[m]]
  <2> DEFINE W == Item
  <2>1. \A m \in 1..n : b[f[m]] \in W
    BY <1>1, <1>3
  <2> HIDE DEF W
  <2>2. [m \in 1..n |-> b[f[m]]] \in Seq(W) /\ Len([m \in 1..n |-> b[f[m]]]) = n
    BY <1>1, <2>1
  <2> QED  BY <1>2, <2>2 DEF W
<1>6. LineOf(b) \in Seq(Numbers) /\ Len(LineOf(b)) = n /\ \A m \in 1..n : LineOf(b)[m] = s[m].no
  BY <1>4, <1>5, LineFacts DEF n
<1> DEFINE t == Tail(s)
<1>7. t \in Seq(Item) /\ Len(t) = n - 1 /\ DOMAIN t = 1..n - 1 /\ \A m \in 1..n - 1 : t[m] = s[m + 1]
  <2> DEFINE W == Item
  <2>1. s \in Seq(W) /\ s # <<>>
    BY <1>1, <1>5
  <2> HIDE DEF W
  <2>2. t \in Seq(W) /\ Len(t) = Len(s) - 1 /\ DOMAIN t = 1..Len(s) - 1 /\ \A m \in 1..Len(s) - 1 : t[m] = s[m + 1]
    BY <2>1
  <2> QED  BY <1>5, <2>2 DEF W
<1>8. nb = [m \in 1..n - 1 |-> [rank |-> m, no |-> s[m + 1].no]]
  BY <1>7 DEF Renumbered, Survivors, s
<1>9. nb \in Seq(Item) /\ Len(nb) = n - 1 /\ DOMAIN nb = 1..n - 1
      /\ \A m \in 1..n - 1 : nb[m].rank = m /\ nb[m].no = s[m + 1].no
  <2> DEFINE W == Item
             g == [m \in 1..n - 1 |-> [rank |-> m, no |-> s[m + 1].no]]
  <2>1. \A m \in 1..n - 1 : [rank |-> m, no |-> s[m + 1].no] \in W
    <3> SUFFICES ASSUME NEW m \in 1..n - 1 PROVE [rank |-> m, no |-> s[m + 1].no] \in Item
      OBVIOUS
    <3>1. m + 1 \in 1..n
      BY <1>1
    <3>2. s[m + 1].no \in Numbers
      BY <1>1, <1>3, <1>5, <3>1
    <3>3. m \in Int
      OBVIOUS
    <3> QED  BY <3>2, <3>3 DEF Item
  <2> HIDE DEF W
  <2>2. g \in Seq(W) /\ Len(g) = n - 1 /\ DOMAIN g = 1..n - 1
    BY <1>1, <2>1
  <2>3. nb \in Seq(Item) /\ Len(nb) = n - 1 /\ DOMAIN nb = 1..n - 1
    BY <1>8, <2>2 DEF W
  <2> HIDE DEF g
  <2>4. \A m \in 1..n - 1 : nb[m] = [rank |-> m, no |-> s[m + 1].no]
    BY <1>8
  <2> QED  BY <2>3, <2>4
<1>10. Distinct(nb)
  BY <1>9 DEF Distinct
<1> DEFINE g == [m \in 1..n - 1 |-> m]
<1>11. Arranges(g, nb)
  BY <1>1, <1>9 DEF Arranges
<1>12. LineOf(nb) = [m \in 1..n - 1 |-> nb[g[m]].no]
  <2> HIDE DEF g
  <2>1. LineOf(nb) = [m \in 1..Len(nb) |-> nb[g[m]].no]
    BY <1>9, <1>10, <1>11, LineIs
  <2> QED  BY <1>9, <2>1
<1>13. \A m \in 1..n - 1 : nb[g[m]].no = LineOf(b)[m + 1]
  <2> SUFFICES ASSUME NEW m \in 1..n - 1 PROVE nb[g[m]].no = LineOf(b)[m + 1]
    OBVIOUS
  <2>1. m + 1 \in 1..n /\ g[m] = m
    BY <1>1
  <2> HIDE DEF g
  <2> QED  BY <1>6, <1>9, <2>1
<1> HIDE DEF g
<1>14. LineOf(b) # <<>> /\ Tail(LineOf(b)) = [m \in 1..n - 1 |-> LineOf(b)[m + 1]]
  <2> DEFINE W == Numbers
             l == LineOf(b)
  <2>1. l \in Seq(W) /\ Len(l) = n /\ l # <<>>
    BY <1>1, <1>6
  <2> HIDE DEF W, l
  <2>2. Tail(l) \in Seq(W) /\ Len(Tail(l)) = n - 1 /\ \A m \in 1..n - 1 : Tail(l)[m] = l[m + 1]
    BY <2>1
  <2>3. Tail(l) = [m \in 1..Len(Tail(l)) |-> Tail(l)[m]]
    BY <2>2, SeqIsFun
  <2> QED  BY <2>1, <2>2, <2>3 DEF l
<1>15. LineOf(nb) = Tail(LineOf(b))
  BY <1>12, <1>13, <1>14
<1>16. Head(s).no = Head(LineOf(b))
  <2>1. Head(s) = s[1] /\ Head(LineOf(b)) = LineOf(b)[1] /\ 1 \in 1..n
    BY <1>1
  <2> QED  BY <1>6, <2>1
<1> QED  BY <1>9, <1>10, <1>14, <1>15, <1>16 DEF s

\* Whoever is released leaves the line; the others keep their order.
Leaves(b, i, nb) == \E m \in DOMAIN LineOf(b) :
    LineOf(b)[m] = b[i].no /\ LineOf(nb) = RemoveAt(LineOf(b), m)

LEMMA ReleasedGoes ==
    ASSUME NEW b \in Seq(Item), Distinct(b), NEW i \in DOMAIN b, NEW nb, nb = RemoveAt(b, i)
    PROVE  nb \in Seq(Item) /\ Distinct(nb) /\ Leaves(b, i, nb)
<1> DEFINE n == Len(b)
<1>1. /\ n \in Nat /\ DOMAIN b = 1..n
      /\ \A j \in 1..n : b[j] \in Item /\ b[j].rank \in Int /\ b[j].no \in Numbers
  BY BucketIs
<1>2. nb \in Seq(Item) /\ Len(nb) = n - 1 /\ nb = [j \in 1..n - 1 |-> IF j < i THEN b[j] ELSE b[j + 1]]
  <2> DEFINE W == Item
  <2>1. b \in Seq(W) /\ i \in 1..Len(b)
    BY <1>1
  <2> HIDE DEF W
  <2>2. /\ RemoveAt(b, i) \in Seq(W) /\ Len(RemoveAt(b, i)) = Len(b) - 1
        /\ RemoveAt(b, i) = [j \in 1..Len(b) - 1 |-> IF j < i THEN b[j] ELSE b[j + 1]]
    BY ONLY <2>1, RemoveAtIs
  <2> QED  BY <2>2 DEF W
<1>3. PICK f : Arranges(f, b)
  BY HasOrder
<1> HIDE DEF n
<1>4. /\ f \in [1..n -> 1..n] /\ \A j \in 1..n : \E m \in 1..n : f[m] = j
      /\ \A m, j \in 1..n : m < j => b[f[m]].rank < b[f[j]].rank
  BY <1>3 DEF Arranges, n
<1>5. \A m, j \in 1..n : f[m] = f[j] => m = j
  <2> SUFFICES ASSUME NEW m \in 1..n, NEW j \in 1..n, f[m] = f[j], m # j PROVE FALSE
    OBVIOUS
  <2>1. b[f[m]].rank \in Int /\ b[f[m]].rank = b[f[j]].rank
    BY <1>1, <1>4
  <2>2. m < j \/ j < m
    BY ONLY <1>1, m \in 1..n, j \in 1..n, m # j
  <2>3. \A x, y \in 1..n : x < y => b[f[x]].rank < b[f[y]].rank
    BY <1>4
  <2>4. (m < j => b[f[m]].rank < b[f[j]].rank) /\ (j < m => b[f[j]].rank < b[f[m]].rank)
    BY ONLY <2>3, m \in 1..n, j \in 1..n
  <2>5. ~(b[f[m]].rank < b[f[j]].rank) /\ ~(b[f[j]].rank < b[f[m]].rank)
    BY ONLY <2>1
  <2> QED  BY ONLY <2>2, <2>4, <2>5
<1>6. PICK m \in 1..n : f[m] = i
  BY <1>1, <1>4
<1> DEFINE g == Without(f, n, m, i)
<1>8. Narrows(g, f, n, m, i)
  <2>1. /\ n \in Nat /\ f \in [1..n -> 1..n] /\ \A y \in 1..n : \E x \in 1..n : f[x] = y
        /\ \A x, y \in 1..n : f[x] = f[y] => x = y
        /\ m \in 1..n /\ i \in 1..n /\ i = f[m]
    BY <1>1, <1>4, <1>5, <1>6
  <2> QED  BY ONLY <2>1, Narrowed
<1> HIDE DEF g
<1>9. /\ g \in [1..n - 1 -> 1..n - 1] /\ \A y \in 1..n - 1 : \E x \in 1..n - 1 : g[x] = y
      /\ \A x \in 1..n - 1 : Past(m, x) \in 1..n /\ f[Past(m, x)] = Past(i, g[x])
  BY <1>8 DEF Narrows
<1>10. \A x \in 1..n - 1 : nb[g[x]] = b[f[Past(m, x)]]
  <2> SUFFICES ASSUME NEW x \in 1..n - 1 PROVE nb[g[x]] = b[f[Past(m, x)]]
    OBVIOUS
  <2>1. g[x] \in 1..n - 1 /\ f[Past(m, x)] = Past(i, g[x])
    BY <1>9
  <2>2. nb[g[x]] = b[Past(i, g[x])]
    BY <1>2, <2>1 DEF Past
  <2> QED  BY <2>1, <2>2
<1>11. DOMAIN nb = 1..n - 1
  BY <1>2
<1>12. Distinct(nb)
  <2> SUFFICES ASSUME NEW x \in 1..n - 1, NEW y \in 1..n - 1, nb[x].rank = nb[y].rank PROVE x = y
    BY <1>11 DEF Distinct
  <2>1. PassesOver(n, i)
    BY <1>1, PassOver
  <2>2. /\ Past(i, x) \in 1..n /\ Past(i, y) \in 1..n
        /\ Back(i, Past(i, x)) = x /\ Back(i, Past(i, y)) = y
    BY <2>1 DEF PassesOver
  <2>3. nb[x] = b[Past(i, x)] /\ nb[y] = b[Past(i, y)]
    BY <1>2 DEF Past
  <2>4. Past(i, x) = Past(i, y)
    BY <1>1, <2>2, <2>3 DEF Distinct
  <2> QED  BY <2>2, <2>4
<1>13. \A x, y \in 1..n - 1 : x < y => nb[g[x]].rank < nb[g[y]].rank
  <2> SUFFICES ASSUME NEW x \in 1..n - 1, NEW y \in 1..n - 1, x < y PROVE nb[g[x]].rank < nb[g[y]].rank
    OBVIOUS
  <2>1. Past(m, x) \in 1..n /\ Past(m, y) \in 1..n
    BY <1>9
  <2>2. Past(m, x) < Past(m, y)
    BY <1>1 DEF Past
  <2> QED  BY <1>4, <1>10, <2>1, <2>2
<1>14. Arranges(g, nb)
  BY <1>2, <1>9, <1>13 DEF Arranges
<1>15. LineOf(nb) = [x \in 1..n - 1 |-> nb[g[x]].no]
  <2>1. LineOf(nb) = [x \in 1..Len(nb) |-> nb[g[x]].no]
    BY <1>2, <1>12, <1>14, LineIs
  <2> QED  BY <1>2, <2>1
<1> DEFINE l == LineOf(b)
<1>16. l \in Seq(Numbers) /\ Len(l) = n /\ DOMAIN l = 1..n /\ \A x \in 1..n : l[x] = b[f[x]].no
  <2>1. l = [x \in 1..n |-> b[f[x]].no]
    BY <1>3, LineIs DEF n
  <2> QED  BY <2>1, LineFacts DEF n
<1>17. RemoveAt(l, m) = [x \in 1..n - 1 |-> IF x < m THEN l[x] ELSE l[x + 1]]
  <2> DEFINE W == Numbers
  <2>1. l \in Seq(W) /\ m \in 1..Len(l) /\ Len(l) = n
    BY <1>6, <1>16
  <2> HIDE DEF W, l
  <2>2. RemoveAt(l, m) = [x \in 1..Len(l) - 1 |-> IF x < m THEN l[x] ELSE l[x + 1]]
    BY ONLY <2>1, RemoveAtIs
  <2> QED  BY <2>1, <2>2
<1> HIDE DEF l
<1>18. \A x \in 1..n - 1 : nb[g[x]].no = IF x < m THEN l[x] ELSE l[x + 1]
  <2> SUFFICES ASSUME NEW x \in 1..n - 1 PROVE nb[g[x]].no = IF x < m THEN l[x] ELSE l[x + 1]
    OBVIOUS
  <2>1. Past(m, x) \in 1..n /\ nb[g[x]] = b[f[Past(m, x)]]
    BY <1>9, <1>10
  <2>2. l[Past(m, x)] = b[f[Past(m, x)]].no
    BY <1>16, <2>1
  <2> QED  BY <2>1, <2>2 DEF Past
<1>19. LineOf(nb) = RemoveAt(l, m) /\ m \in DOMAIN l /\ l[m] = b[i].no
  BY <1>6, <1>15, <1>16, <1>17, <1>18
<1> QED  BY <1>2, <1>12, <1>19 DEF Leaves, l

-----------------------------------------------------------------------------
(* Lines of distinct entries.                                              *)

AllIn(L) == UNION {ToSet(L[q]) : q \in Reqs}
Once(L) == \A q, p \in Reqs : \A i \in DOMAIN L[q] : \A j \in DOMAIN L[p] : L[q][i] = L[p][j] => q = p /\ i = j

LEMMA InLines ==
    ASSUME NEW L, NEW e
    PROVE  e \in AllIn(L) <=> \E q \in Reqs : \E i \in DOMAIN L[q] : L[q][i] = e
  BY DEF AllIn, ToSet

Removed(L, q, m)     == [L EXCEPT ![q] = RemoveAt(L[q], m)]
Inserted(L, q, m, e) == [L EXCEPT ![q] = InsertAt(L[q], m, e)]
Exchanged(L, q, m, e) == [L EXCEPT ![q] = [L[q] EXCEPT ![m] = e]]

LEMMA OnceRemove ==
    ASSUME NEW W, NEW L \in [Reqs -> Seq(W)], Once(L), NEW q \in Reqs, NEW m \in DOMAIN L[q]
    PROVE  Once(Removed(L, q, m)) /\ AllIn(Removed(L, q, m)) = AllIn(L) \ {L[q][m]}
<1> DEFINE M == Removed(L, q, m)
           s == L[q]
           n == Len(s)
           t == RemoveAt(s, m)
<1>1. s \in Seq(W) /\ n \in Nat /\ DOMAIN s = 1..n /\ m \in 1..n
  OBVIOUS
<1> HIDE DEF n
<1>2. t \in Seq(W) /\ DOMAIN t = 1..n - 1 /\ t = [x \in 1..n - 1 |-> IF x < m THEN s[x] ELSE s[x + 1]]
  <2> HIDE DEF s, t
  <2>1. /\ RemoveAt(s, m) \in Seq(W) /\ Len(RemoveAt(s, m)) = Len(s) - 1
        /\ RemoveAt(s, m) = [x \in 1..Len(s) - 1 |-> IF x < m THEN s[x] ELSE s[x + 1]]
    BY <1>1, RemoveAtIs DEF n
  <2> QED  BY <2>1 DEF n, t
<1>3. PassesOver(n, m)
  BY <1>1, PassOver
<1> HIDE DEF t
<1>4. \A x \in 1..n - 1 : Past(m, x) \in 1..n /\ Past(m, x) # m /\ t[x] = s[Past(m, x)] /\ Back(m, Past(m, x)) = x
  BY <1>2, <1>3 DEF PassesOver, Past
<1>5. M[q] = t /\ \A p \in Reqs : p # q => M[p] = L[p]
  BY DEF t, Removed
<1> HIDE DEF M
<1>7. ASSUME NEW p \in Reqs, NEW i \in DOMAIN M[p]
      PROVE  LET o == IF p = q THEN Past(m, i) ELSE i
             IN  o \in DOMAIN L[p] /\ M[p][i] = L[p][o] /\ (p = q => o # m)
  BY <1>1, <1>2, <1>4, <1>5
<1>8. Once(M)
  <2> SUFFICES ASSUME NEW p \in Reqs, NEW r \in Reqs, NEW i \in DOMAIN M[p], NEW j \in DOMAIN M[r], M[p][i] = M[r][j]
               PROVE  p = r /\ i = j
    BY DEF Once
  <2> DEFINE o == IF p = q THEN Past(m, i) ELSE i
             u == IF r = q THEN Past(m, j) ELSE j
  <2>1. o \in DOMAIN L[p] /\ M[p][i] = L[p][o] /\ u \in DOMAIN L[r] /\ M[r][j] = L[r][u]
    BY <1>7
  <2>2. p = r /\ o = u
    <3> HIDE DEF o, u
    <3>1. L[p][o] = L[r][u]
      BY <2>1
    <3> QED  BY <2>1, <3>1 DEF Once
  <2>3. p = q => i \in 1..n - 1 /\ j \in 1..n - 1
    BY <1>2, <1>5, <2>2
  <2> QED  BY <1>4, <2>2, <2>3
<1>9. \A e : e \in AllIn(M) => e \in AllIn(L) /\ e # s[m]
  <2> SUFFICES ASSUME NEW p \in Reqs, NEW i \in DOMAIN M[p]
               PROVE  M[p][i] \in AllIn(L) /\ M[p][i] # s[m]
    BY DEF AllIn, ToSet
  <2> DEFINE o == IF p = q THEN Past(m, i) ELSE i
  <2>1. o \in DOMAIN L[p] /\ M[p][i] = L[p][o] /\ (p = q => o # m)
    BY <1>7
  <2> HIDE DEF o
  <2>2. M[p][i] # s[m]
    BY <1>1, <2>1 DEF Once
  <2> QED  BY <2>1, <2>2, InLines
<1>10. \A e : e \in AllIn(L) /\ e # s[m] => e \in AllIn(M)
  <2> SUFFICES ASSUME NEW p \in Reqs, NEW i \in DOMAIN L[p], L[p][i] # s[m]
               PROVE  L[p][i] \in AllIn(M)
    BY DEF AllIn, ToSet
  <2>1. CASE p # q
    <3>1. i \in DOMAIN M[p] /\ M[p][i] = L[p][i]
      BY <1>5, <2>1
    <3> QED  BY <3>1, InLines
  <2>2. CASE p = q
    <3>1. i \in 1..n /\ i # m
      BY <1>1, <2>2
    <3>2. Back(m, i) \in 1..n - 1 /\ Past(m, Back(m, i)) = i
      BY <1>3, <3>1 DEF PassesOver
    <3>3. Back(m, i) \in DOMAIN M[q] /\ M[q][Back(m, i)] = s[i]
      BY <1>2, <1>4, <1>5, <3>2
    <3>4. s[i] \in AllIn(M)
      BY <3>3, InLines
    <3> QED  BY <2>2, <3>4
  <2> QED  BY <2>1, <2>2
<1> QED  BY <1>8, <1>9, <1>10 DEF M

LEMMA OnceInsert ==
    ASSUME NEW W, NEW L \in [Reqs -> Seq(W)], Once(L), NEW q \in Reqs, NEW m \in 1..Len(L[q]) + 1,
           NEW e \in W, e \notin AllIn(L)
    PROVE  Once(Inserted(L, q, m, e)) /\ AllIn(Inserted(L, q, m, e)) = AllIn(L) \cup {e}
<1> DEFINE M == Inserted(L, q, m, e)
           s == L[q]
           n == Len(s)
           t == InsertAt(s, m, e)
<1>1. s \in Seq(W) /\ n \in Nat /\ DOMAIN s = 1..n /\ m \in 1..n + 1
  OBVIOUS
<1> HIDE DEF n
<1>2. t \in Seq(W) /\ DOMAIN t = 1..n + 1
      /\ t = [x \in 1..n + 1 |-> IF x < m THEN s[x] ELSE IF x = m THEN e ELSE s[x - 1]]
  <2> HIDE DEF s, t
  <2>1. /\ InsertAt(s, m, e) \in Seq(W) /\ Len(InsertAt(s, m, e)) = Len(s) + 1
        /\ InsertAt(s, m, e) = [x \in 1..Len(s) + 1 |-> IF x < m THEN s[x] ELSE IF x = m THEN e ELSE s[x - 1]]
    BY <1>1, InsertAtIs DEF n
  <2> QED  BY <2>1 DEF n, t
<1>3. PassesOver(n + 1, m)
  BY <1>1, PassOver
<1> HIDE DEF t
<1>4. /\ \A x \in 1..n + 1 : x # m => Back(m, x) \in 1..n /\ t[x] = s[Back(m, x)] /\ Past(m, Back(m, x)) = x
      /\ t[m] = e
  <2>1. (n + 1) - 1 = n /\ ~(m < m)
    BY <1>1
  <2>2. t[m] = e
    BY <1>1, <1>2, <2>1
  <2> SUFFICES ASSUME NEW x \in 1..n + 1, x # m
               PROVE  Back(m, x) \in 1..n /\ t[x] = s[Back(m, x)] /\ Past(m, Back(m, x)) = x
    BY <2>2
  <2>3. Back(m, x) \in 1..n /\ Past(m, Back(m, x)) = x
    BY <1>3, <2>1 DEF PassesOver
  <2>4. t[x] = s[Back(m, x)]
    BY <1>2 DEF Back
  <2> QED  BY <2>3, <2>4
<1>5. M[q] = t /\ \A p \in Reqs : p # q => M[p] = L[p]
  BY DEF t, Inserted
<1> HIDE DEF M
<1> DEFINE New(p, i) == p = q /\ i = m
<1>7. ASSUME NEW p \in Reqs, NEW i \in DOMAIN M[p]
      PROVE  LET o == IF p = q THEN Back(m, i) ELSE i
             IN  IF New(p, i) THEN M[p][i] = e ELSE o \in DOMAIN L[p] /\ M[p][i] = L[p][o]
  BY <1>1, <1>2, <1>4, <1>5
<1>8. \A p \in Reqs : \A i \in DOMAIN M[p] : M[p][i] \in AllIn(L) \cup {e} /\ (M[p][i] = e <=> New(p, i))
  <2> SUFFICES ASSUME NEW p \in Reqs, NEW i \in DOMAIN M[p]
               PROVE  M[p][i] \in AllIn(L) \cup {e} /\ (M[p][i] = e <=> New(p, i))
    OBVIOUS
  <2> HIDE DEF New
  <2>1. CASE New(p, i)
    BY <1>7, <2>1
  <2>2. CASE ~New(p, i)
    <3>1. M[p][i] \in AllIn(L)
      BY <1>7, <2>2, InLines
    <3> QED  BY <2>2, <3>1
  <2> QED  BY <2>1, <2>2
<1>9. Once(M)
  <2> SUFFICES ASSUME NEW p \in Reqs, NEW r \in Reqs, NEW i \in DOMAIN M[p], NEW j \in DOMAIN M[r], M[p][i] = M[r][j]
               PROVE  p = r /\ i = j
    BY DEF Once
  <2>1. CASE M[p][i] = e
    BY <1>8, <2>1
  <2>2. CASE M[p][i] # e
    <3> DEFINE o == IF p = q THEN Back(m, i) ELSE i
               u == IF r = q THEN Back(m, j) ELSE j
    <3>1. ~New(p, i) /\ ~New(r, j)
      BY <1>8, <2>2
    <3>2. o \in DOMAIN L[p] /\ M[p][i] = L[p][o] /\ u \in DOMAIN L[r] /\ M[r][j] = L[r][u]
      BY <1>7, <3>1
    <3>3. p = r /\ o = u
      <4> HIDE DEF o, u
      <4>1. L[p][o] = L[r][u]
        BY <3>2
      <4> QED  BY <3>2, <4>1 DEF Once
    <3>4. p = q => i \in 1..n + 1 /\ j \in 1..n + 1 /\ i # m /\ j # m
      BY <1>2, <1>5, <3>1, <3>3
    <3> QED  BY <1>4, <3>3, <3>4
  <2> QED  BY <2>1, <2>2
<1>10. e \in AllIn(M)
  <2>1. m \in DOMAIN M[q] /\ M[q][m] = e
    BY <1>1, <1>2, <1>4, <1>5
  <2> QED  BY <2>1, InLines
<1>11. \A a : a \in AllIn(L) => a \in AllIn(M)
  <2> SUFFICES ASSUME NEW p \in Reqs, NEW i \in DOMAIN L[p] PROVE L[p][i] \in AllIn(M)
    BY DEF AllIn, ToSet
  <2>1. CASE p # q
    <3>1. i \in DOMAIN M[p] /\ M[p][i] = L[p][i]
      BY <1>5, <2>1
    <3> QED  BY <3>1, InLines
  <2>2. CASE p = q
    <3>1. (n + 1) - 1 = n /\ i \in 1..n
      BY <1>1, <2>2
    <3>2. Past(m, i) \in 1..n + 1 /\ Past(m, i) # m /\ Back(m, Past(m, i)) = i
      BY <1>3, <3>1 DEF PassesOver
    <3>3. Past(m, i) \in DOMAIN M[q] /\ M[q][Past(m, i)] = s[i]
      BY <1>2, <1>4, <1>5, <3>2
    <3>4. s[i] \in AllIn(M)
      BY <3>3, InLines
    <3> QED  BY <2>2, <3>4
  <2> QED  BY <2>1, <2>2
<1>12. \A a : a \in AllIn(M) => a \in AllIn(L) \cup {e}
  <2> SUFFICES ASSUME NEW p \in Reqs, NEW i \in DOMAIN M[p] PROVE M[p][i] \in AllIn(L) \cup {e}
    BY DEF AllIn, ToSet
  <2> QED  BY <1>8
<1> QED  BY <1>9, <1>10, <1>11, <1>12 DEF M

LEMMA OnceReplace ==
    ASSUME NEW W, NEW L \in [Reqs -> Seq(W)], Once(L), NEW q \in Reqs, NEW m \in DOMAIN L[q],
           NEW e \in W, e \notin AllIn(L)
    PROVE  Once(Exchanged(L, q, m, e)) /\ AllIn(Exchanged(L, q, m, e)) = (AllIn(L) \ {L[q][m]}) \cup {e}
<1> DEFINE M == Exchanged(L, q, m, e)
<1>1. /\ L[q] \in Seq(W) /\ [L[q] EXCEPT ![m] = e] \in Seq(W) /\ DOMAIN [L[q] EXCEPT ![m] = e] = DOMAIN L[q]
      /\ M[q] = [L[q] EXCEPT ![m] = e] /\ \A p \in Reqs : p # q => M[p] = L[p]
  BY DEF Exchanged
<1> HIDE DEF M
<1> DEFINE New(p, i) == p = q /\ i = m
<1>3. \A p \in Reqs : DOMAIN M[p] = DOMAIN L[p] /\ \A i \in DOMAIN L[p] : M[p][i] = IF New(p, i) THEN e ELSE L[p][i]
  BY <1>1
<1> HIDE DEF New
<1>4. \A p \in Reqs : \A i \in DOMAIN L[p] : L[p][i] # e
  BY InLines
<1>5. Once(M)
  <2> SUFFICES ASSUME NEW p \in Reqs, NEW r \in Reqs, NEW i \in DOMAIN M[p], NEW j \in DOMAIN M[r], M[p][i] = M[r][j]
               PROVE  p = r /\ i = j
    BY DEF Once
  <2>1. CASE New(p, i)
    <3>1. New(r, j)
      BY <1>3, <1>4, <2>1
    <3> QED  BY <2>1, <3>1 DEF New
  <2>2. CASE ~New(p, i)
    <3>1. ~New(r, j)
      BY <1>3, <1>4, <2>2
    <3> QED  BY <1>3, <2>2, <3>1 DEF Once
  <2> QED  BY <2>1, <2>2
<1>6. \A p \in Reqs : \A i \in DOMAIN L[p] : New(p, i) <=> L[p][i] = L[q][m]
  BY DEF New, Once
<1>7. \A p \in Reqs : \A i \in DOMAIN L[p] : M[p][i] \in AllIn(M) /\ L[p][i] \in AllIn(L)
  BY <1>3, InLines
<1>8. New(q, m)
  BY DEF New
<1>9. \A a : a \in AllIn(M) => a \in (AllIn(L) \ {L[q][m]}) \cup {e}
  <2> SUFFICES ASSUME NEW p \in Reqs, NEW i \in DOMAIN M[p] PROVE M[p][i] \in (AllIn(L) \ {L[q][m]}) \cup {e}
    BY DEF AllIn, ToSet
  <2> QED  BY <1>3, <1>6, <1>7
<1>10. \A a : a \in (AllIn(L) \ {L[q][m]}) \cup {e} => a \in AllIn(M)
  <2>1. e \in AllIn(M)
    BY <1>3, <1>7, <1>8
  <2> SUFFICES ASSUME NEW p \in Reqs, NEW i \in DOMAIN L[p], L[p][i] # L[q][m] PROVE L[p][i] \in AllIn(M)
    BY <2>1 DEF AllIn, ToSet
  <2>2. ~New(p, i)
    BY <1>6
  <2>3. M[p][i] = L[p][i]
    BY <1>3, <2>2
  <2> QED  BY <1>7, <2>3
<1> QED  BY <1>5, <1>9, <1>10 DEF M


-----------------------------------------------------------------------------
(* The pool is a queue.                                                    *)

Lines(B) == [q \in Reqs |-> LineOf(B[q])]
Entry == [who : Candidates, asked : BOOLEAN]

PoolInv ==
    /\ bucket \in [Reqs -> Seq(Item)] /\ \A q \in Reqs : Distinct(bucket[q])
    /\ holder \in Seq(Entry) /\ Len(holder) <= MaxHolds
    /\ promoted \in Seq([req : Reqs, no : Numbers])
    /\ Once(Lines(bucket)) /\ AllIn(Lines(bucket)) \subseteq Made \ Out
    /\ Out \cup released \cup auditing \cup audited \subseteq Made

LEMMA HeldIsLine ==
    ASSUME NEW B \in [Reqs -> Seq(Item)], \A q \in Reqs : Distinct(B[q])
    PROVE  Lines(B) \in [Reqs -> Seq(Numbers)] /\ UNION {Held(B[q]) : q \in Reqs} = AllIn(Lines(B))
<1>1. \A q \in Reqs : LineOf(B[q]) \in Seq(Numbers) /\ ToSet(LineOf(B[q])) = Held(B[q]) /\ Lines(B)[q] = LineOf(B[q])
  BY LineFacts DEF Lines
<1> QED  BY <1>1 DEF Lines, AllIn

\* What the variables of BackupQueue are, now and after a step.
GoneOf(out, made, all) == out \cup (made \ all)
LinesAre ==
    /\ [q \in Reqs |-> LineOf(bucket[q])] = Lines(bucket)
    /\ [q \in Reqs |-> LineOf(bucket[q])]' = Lines(bucket')
    /\ Queue!Waiting = AllIn(Lines(bucket))
GoneIs ==
    /\ Out \cup (Made \ UNION {Held(bucket[q]) : q \in Reqs}) = GoneOf(Out, Made, AllIn(Lines(bucket)))
    /\ (Out \cup (Made \ UNION {Held(bucket[q]) : q \in Reqs}))' = GoneOf(Out', Made', AllIn(Lines(bucket')))

LEMMA AbstractIs ==
    ASSUME PoolInv, bucket' \in [Reqs -> Seq(Item)], \A q \in Reqs : Distinct(bucket'[q])
    PROVE  LinesAre /\ GoneIs
<1>1. LinesAre
  <2>1. Queue!Waiting = AllIn(Lines(bucket))
    BY DEF Queue!Waiting, Lines, AllIn, ToSet, Queue!ToSet
  <2> QED  BY <2>1 DEF LinesAre, Lines
<1>2. UNION {Held(bucket[q]) : q \in Reqs} = AllIn(Lines(bucket))
  BY HeldIsLine DEF PoolInv
<1>3. UNION {Held(bucket'[q]) : q \in Reqs} = AllIn(Lines(bucket'))
  BY HeldIsLine
<1>4. GoneIs
  BY <1>2, <1>3 DEF GoneIs, GoneOf
<1> QED  BY <1>1, <1>4

LEMMA QueueInsertIs ==
    ASSUME NEW s, NEW i, NEW e
    PROVE  Queue!InsertAt(s, i, e) = InsertAt(s, i, e) /\ Queue!RemoveAt(s, i) = RemoveAt(s, i)
  BY DEF InsertAt, Queue!InsertAt, RemoveAt, Queue!RemoveAt

LEMMA NextRankIsAbove ==
    ASSUME NEW b \in Seq(Item), Distinct(b)
    PROVE  NextRank(b) \in Int /\ \A i \in 1..Len(b) : b[i].rank < NextRank(b)
<1> DEFINE n == Len(b)
<1>1. n \in Nat /\ (b = <<>> <=> n = 0) /\ \A i \in 1..n : b[i].rank \in Int
  BY BucketIs
<1>2. CASE b = <<>>
  BY <1>1, <1>2 DEF NextRank
<1>3. CASE b # <<>>
  <2>1. PICK f : Arranges(f, b)
    BY HasOrder
  <2>2. /\ f \in [1..n -> 1..n] /\ \A i \in 1..n : \E m \in 1..n : f[m] = i
        /\ \A m, j \in 1..n : m < j => b[f[m]].rank < b[f[j]].rank
    BY <2>1 DEF Arranges
  <2>3. Keys(b) = {b[i].rank : i \in 1..n}
    BY KeysAre
  <2> HIDE DEF n
  <2>4. n \in 1..n /\ f[n] \in 1..n
    BY <1>1, <1>3, <2>2
  <2> DEFINE top == b[f[n]].rank
  <2>5. \A i \in 1..n : b[i].rank <= top
    <3> SUFFICES ASSUME NEW i \in 1..n PROVE b[i].rank <= top
      OBVIOUS
    <3>1. PICK m \in 1..n : f[m] = i
      BY <2>2
    <3>2. m < n \/ m = n
      BY <1>1
    <3>3. m < n => b[f[m]].rank < b[f[n]].rank
      BY <2>2, <2>4
    <3>4. b[f[m]].rank \in Int /\ top \in Int
      BY <1>1, <2>4, <3>1
    <3> QED  BY <3>1, <3>2, <3>3, <3>4
  <2>6. top \in Keys(b) /\ top \in Int /\ \A y \in Keys(b) : top >= y
    BY <1>1, <2>3, <2>4, <2>5
  <2> HIDE DEF top
  <2>7. Max(Keys(b)) \in Keys(b) /\ \A y \in Keys(b) : Max(Keys(b)) >= y
    BY <2>6 DEF Max
  <2> DEFINE x == Max(Keys(b))
  <2>8. x \in Int /\ \A i \in 1..n : b[i].rank <= x
    BY <1>1, <2>3, <2>7
  <2>9. NextRank(b) = x + 1
    BY <1>3 DEF NextRank
  <2> HIDE DEF x
  <2>10. \A i \in 1..n : b[i].rank < x + 1
    BY <1>1, <2>8
  <2> QED  BY <2>8, <2>9, <2>10 DEF n
<1> QED  BY <1>2, <1>3

LEMMA OneLineChanges ==
    ASSUME PoolInv, NEW q \in Reqs, NEW nb \in Seq(Item), Distinct(nb), bucket' = [bucket EXCEPT ![q] = nb]
    PROVE  /\ bucket' \in [Reqs -> Seq(Item)] /\ \A p \in Reqs : Distinct(bucket'[p])
           /\ Lines(bucket) \in [Reqs -> Seq(Numbers)] /\ Lines(bucket)[q] = LineOf(bucket[q])
           /\ Lines(bucket') = [Lines(bucket) EXCEPT ![q] = LineOf(nb)]
           /\ LinesAre /\ GoneIs
<1>1. bucket \in [Reqs -> Seq(Item)] /\ \A p \in Reqs : Distinct(bucket[p])
  BY DEF PoolInv
<1>2. bucket' \in [Reqs -> Seq(Item)]
  BY <1>1
<1>3. bucket'[q] = nb /\ \A p \in Reqs : p # q => bucket'[p] = bucket[p]
  BY <1>1
<1>4. \A p \in Reqs : Distinct(bucket'[p])
  BY <1>1, <1>3
<1>5. Lines(bucket) \in [Reqs -> Seq(Numbers)] /\ Lines(bucket)[q] = LineOf(bucket[q])
  BY <1>1, HeldIsLine DEF Lines
<1>6. Lines(bucket') = [Lines(bucket) EXCEPT ![q] = LineOf(nb)]
  <2> DEFINE L == Lines(bucket)
             M == Lines(bucket')
  <2>1. L = [p \in Reqs |-> L[p]] /\ M = [p \in Reqs |-> M[p]]
    BY DEF Lines
  <2>2. M[q] = LineOf(nb) /\ \A p \in Reqs : p # q => M[p] = L[p]
    BY <1>3 DEF Lines
  <2> HIDE DEF L, M
  <2>3. M = [L EXCEPT ![q] = LineOf(nb)]
    BY <2>1, <2>2
  <2> QED  BY <2>3 DEF L, M
<1> QED  BY <1>2, <1>4, <1>5, <1>6, AbstractIs

LEMMA QueueSteps ==
    ASSUME NEW q \in Reqs, NEW e \in Numbers
    PROVE  /\ Queue!Join(q, e) => Queue!Next
           /\ Queue!PlaceIn(q, e) => Queue!Next
           /\ Queue!Release(q, e) => Queue!Next
<1>1. Queue!Join(q, e) => Queue!Next
  BY DEF Queue!Next
<1>2. Queue!PlaceIn(q, e) => Queue!Next
  BY DEF Queue!Next
<1>3. Queue!Release(q, e) => Queue!Next
  BY DEF Queue!Next
<1> QED  BY <1>1, <1>2, <1>3

\* An entry that is made joins the line.
LEMMA HoldJoins ==
    ASSUME PoolInv, NEW q \in Reqs, NEW c \in Candidates, NEW r \in Ranks \cup {None}, Hold(q, c, r)
    PROVE  PoolInv' /\ Queue!Next
<1>0. PICK e \in Numbers : e = Len(holder) + 1
  <2>1. Len(holder) < MaxHolds /\ Len(holder) \in Nat /\ MaxHolds \in Nat
    BY PoolAssumption DEF Hold, PoolInv
  <2> QED  BY <2>1 DEF Numbers
<1> DEFINE b == bucket[q]
           k == IF r = None THEN NextRank(b) ELSE r
           nb == Put(b, k, e)
           h == [who |-> c, asked |-> r # None]
           L == Lines(bucket)
           M == Lines(bucket')
<1>1. /\ Len(holder) < MaxHolds /\ bucket' = [bucket EXCEPT ![q] = nb] /\ holder' = Append(holder, h)
      /\ UNCHANGED <<promoted, released, auditing, audited>>
  BY <1>0 DEF Hold
<1>2. b \in Seq(Item) /\ Distinct(b) /\ Once(L) /\ AllIn(L) \subseteq Made \ Out
  BY DEF PoolInv
<1>3. /\ holder \in Seq(Entry) /\ MaxHolds \in Nat /\ Len(holder) \in Nat /\ Made = 1..Len(holder) /\ h \in Entry
  BY PoolAssumption DEF PoolInv, Made, Entry
<1>4. /\ e \in Numbers /\ e \notin Made /\ holder' \in Seq(Entry) /\ Len(holder') <= MaxHolds
      /\ Made' = Made \cup {e}
      /\ \A n \in Made : holder'[n] = holder[n]
      /\ holder'[e] = h
  <2> DEFINE n == Len(holder)
  <2>1. /\ n \in Nat /\ Append(holder, h) \in Seq(Entry) /\ Len(Append(holder, h)) = n + 1
        /\ DOMAIN Append(holder, h) = 1..n + 1
        /\ \A m \in 1..n : Append(holder, h)[m] = holder[m]
        /\ Append(holder, h)[n + 1] = h
    <3> HIDE DEF h
    <3> QED  BY <1>3
  <2> HIDE DEF h
  <2>2. e \in Numbers /\ e \notin Made /\ 1..e = (1..n) \cup {e}
    BY <1>0, <1>1, <1>3
  <2>3. Made' = 1..e
    BY <1>0, <1>1, <2>1 DEF Made
  <2> QED  BY <1>0, <1>1, <1>3, <2>1, <2>2, <2>3
<1>5. Out' = Out /\ promoted' = promoted
  BY <1>1 DEF Out
<1>6. {n \in Made : holder[n].asked}' = IF r = None THEN {n \in Made : holder[n].asked} ELSE {n \in Made : holder[n].asked} \cup {e}
  <2>1. h.asked = (r # None)
    OBVIOUS
  <2>2. \A n \in Made : holder'[n].asked = holder[n].asked
    BY <1>4
  <2>3. holder'[e].asked = (r # None)
    BY <1>4, <2>1
  <2> HIDE DEF h
  <2> QED  BY <1>4, <2>2, <2>3
<1>7. NextRank(b) \in Int /\ \A i \in 1..Len(b) : b[i].rank < NextRank(b)
  BY <1>2, NextRankIsAbove
<1>8. k \in Int
  BY <1>7, PoolAssumption
<1> HIDE DEF h
<1>9. ASSUME nb \in Seq(Item), Distinct(nb), Once(M), AllIn(M) \subseteq AllIn(L) \cup {e}
      PROVE  PoolInv'
  <2>1. bucket' \in [Reqs -> Seq(Item)] /\ \A p \in Reqs : Distinct(bucket'[p])
    BY <1>1, <1>9, OneLineChanges
  <2>2. AllIn(M) \subseteq Made' \ Out'
    BY <1>2, <1>4, <1>5, <1>9 DEF PoolInv
  <2>3. Out' \cup released' \cup auditing' \cup audited' \subseteq Made'
    BY <1>1, <1>4, <1>5 DEF PoolInv
  <2>4. promoted' \in Seq([req : Reqs, no : Numbers])
    BY <1>5 DEF PoolInv
  <2> QED  BY <1>4, <1>9, <2>1, <2>2, <2>3, <2>4 DEF PoolInv
<1>10. e \notin AllIn(L) /\ e \notin Out
  BY <1>2, <1>4 DEF PoolInv
<1>11. CASE k \notin Keys(b)
  <2>1. nb = Append(b, [rank |-> k, no |-> e])
    BY <1>11 DEF Put
  <2> HIDE DEF nb, k, b
  <2>2. nb \in Seq(Item) /\ Distinct(nb) /\ Inserts(b, k, e, nb)
    BY <1>2, <1>4, <1>8, <1>11, <2>1, NewRankJoins
  <2>3. /\ L \in [Reqs -> Seq(Numbers)] /\ L[q] = LineOf(b)
        /\ M = [L EXCEPT ![q] = LineOf(nb)] /\ LinesAre /\ GoneIs
    BY <1>1, <2>2, OneLineChanges DEF b
  <2>4. Len(L[q]) = Len(b) /\ L[q] \in Seq(Numbers)
    BY <1>2, <2>3, LineFacts
  <2>5. PICK p \in 1..Len(L[q]) + 1 : /\ LineOf(nb) = InsertAt(L[q], p, e)
                                      /\ (\A i \in 1..Len(b) : b[i].rank < k) => p = Len(L[q]) + 1
    BY <2>2, <2>3, <2>4 DEF Inserts
  <2> HIDE DEF L, M
  <2>6. Once(M) /\ AllIn(M) = AllIn(L) \cup {e}
    <3>1. M = Inserted(L, q, p, e)
      BY <2>3, <2>5 DEF Inserted
    <3> DEFINE W == Numbers
    <3>2. L \in [Reqs -> Seq(W)] /\ Once(L) /\ q \in Reqs /\ p \in 1..Len(L[q]) + 1 /\ e \in W /\ e \notin AllIn(L)
      BY <1>2, <1>4, <1>10, <2>3 DEF L
    <3> HIDE DEF W
    <3> QED  BY ONLY <3>1, <3>2, OnceInsert
  <2>7. GoneOf(Out', Made', AllIn(M)) = GoneOf(Out, Made, AllIn(L))
    BY <1>4, <1>5, <1>10, <2>6 DEF GoneOf
  <2>8. e \notin Queue!Waiting \cup (Out \cup (Made \ UNION {Held(bucket[x]) : x \in Reqs}))
    BY <1>4, <1>10, <2>3 DEF LinesAre, GoneIs, GoneOf, L
  <2>9. UNCHANGED (Out \cup (Made \ UNION {Held(bucket[x]) : x \in Reqs}))
    BY <2>3, <2>7 DEF GoneIs, L, M
  <2>10. CASE r = None
    <3>1. p = Len(L[q]) + 1
      BY <1>7, <2>5, <2>10 DEF k
    <3>2. M = [L EXCEPT ![q] = Append(L[q], e)]
      BY <1>4, <2>3, <2>4, <2>5, <3>1, AppendIsInsert
    <3>3. Queue!Join(q, e)
      BY <1>6, <2>3, <2>8, <2>9, <2>10, <3>2 DEF Queue!Join, LinesAre, L, M
    <3>4. PoolInv'
      BY <1>9, <2>2, <2>6
    <3>5. Queue!Next
      BY <1>4, <3>3, QueueSteps
    <3> QED  BY <3>4, <3>5
  <2>11. CASE r # None
    <3>1. M = [L EXCEPT ![q] = Queue!InsertAt(L[q], p, e)]
      BY <2>3, <2>5, QueueInsertIs
    <3>2. Queue!PlaceIn(q, e)
      BY <1>6, <2>3, <2>5, <2>8, <2>9, <2>11, <3>1 DEF Queue!PlaceIn, LinesAre, L, M
    <3>3. PoolInv'
      BY <1>9, <2>2, <2>6
    <3>4. Queue!Next
      BY <1>4, <3>2, QueueSteps
    <3> QED  BY <3>3, <3>4
  <2> QED  BY <2>10, <2>11
<1>12. CASE k \in Keys(b)
  <2>1. nb = [i \in DOMAIN b |-> IF b[i].rank = k THEN [rank |-> k, no |-> e] ELSE b[i]]
    BY <1>12 DEF Put
  <2>2. r # None
    <3> SUFFICES ASSUME r = None PROVE FALSE
      OBVIOUS
    <3>1. k = NextRank(b) /\ Keys(b) = {b[i].rank : i \in 1..Len(b)} /\ \A i \in 1..Len(b) : b[i].rank \in Int
      BY <1>2, KeysAre, BucketIs
    <3> QED  BY <1>7, <1>12, <3>1
  <2> HIDE DEF nb, k, b
  <2>3. nb \in Seq(Item) /\ Distinct(nb) /\ Replaces(b, e, nb)
    BY <1>2, <1>4, <1>12, <2>1, TakenRankChanges
  <2>4. /\ L \in [Reqs -> Seq(Numbers)] /\ L[q] = LineOf(b)
        /\ M = [L EXCEPT ![q] = LineOf(nb)] /\ LinesAre /\ GoneIs
    BY <1>1, <2>3, OneLineChanges DEF b
  <2>5. PICK m \in DOMAIN L[q] : LineOf(nb) = [L[q] EXCEPT ![m] = e]
    BY <2>3, <2>4 DEF Replaces
  <2> DEFINE x == L[q][m]
  <2> HIDE DEF L, M
  <2>6. M = [L EXCEPT ![q] = [L[q] EXCEPT ![m] = e]]
    BY <2>4, <2>5
  <2>7. Once(M) /\ AllIn(M) = (AllIn(L) \ {x}) \cup {e}
    <3> DEFINE W == Numbers
  <3>1. M = Exchanged(L, q, m, e)
    BY <2>6 DEF Exchanged
  <3>2. L \in [Reqs -> Seq(W)] /\ Once(L) /\ q \in Reqs /\ m \in DOMAIN L[q] /\ e \in W /\ e \notin AllIn(L)
    BY <1>2, <1>4, <1>10, <2>4 DEF L
  <3> HIDE DEF W, x
  <3>3. AllIn(M) = (AllIn(L) \ {L[q][m]}) \cup {e} /\ Once(M)
    BY ONLY <3>1, <3>2, OnceReplace
  <3> QED  BY <3>3 DEF x
  <2>8. x \in AllIn(L)
    BY InLines
  <2>9. GoneOf(Out', Made', AllIn(M)) = GoneOf(Out, Made, AllIn(L)) \cup {x}
    BY <1>2, <1>4, <1>5, <1>10, <2>7, <2>8 DEF GoneOf, L
  <2>10. e \notin Queue!Waiting \cup (Out \cup (Made \ UNION {Held(bucket[y]) : y \in Reqs}))
    BY <1>4, <1>10, <2>4 DEF LinesAre, GoneIs, GoneOf, L
  <2>11. (Out \cup (Made \ UNION {Held(bucket[y]) : y \in Reqs}))'
            = (Out \cup (Made \ UNION {Held(bucket[y]) : y \in Reqs})) \cup {x}
    BY <2>4, <2>9 DEF GoneIs, L, M
  <2>12. M = [L EXCEPT ![q][m] = e]
    BY <2>6
  <2>13. Queue!PlaceIn(q, e)
    BY <1>6, <2>2, <2>4, <2>5, <2>10, <2>11, <2>12 DEF Queue!PlaceIn, LinesAre, L, M
  <2>14. PoolInv'
    BY <1>9, <2>3, <2>7
  <2>15. Queue!Next
    BY <1>4, <2>13, QueueSteps
  <2> QED  BY <2>14, <2>15
<1> QED  BY <1>11, <1>12

\* Whoever leaves the line, promoted or released.
LEMMA LineGoes ==
    ASSUME PoolInv, NEW q \in Reqs, NEW nb \in Seq(Item), Distinct(nb), bucket' = [bucket EXCEPT ![q] = nb],
           NEW m \in DOMAIN LineOf(bucket[q]), LineOf(nb) = RemoveAt(LineOf(bucket[q]), m), holder' = holder,
           NEW x, x = LineOf(bucket[q])[m], Out' \in {Out, Out \cup {x}}
    PROVE  /\ x \in Made /\ x \in Numbers /\ Made' = Made
           /\ bucket' \in [Reqs -> Seq(Item)] /\ \A p \in Reqs : Distinct(bucket'[p])
           /\ Once(Lines(bucket')) /\ AllIn(Lines(bucket')) \subseteq Made \ Out'
           /\ Lines(bucket)[q] = LineOf(bucket[q])
           /\ Lines(bucket') = Removed(Lines(bucket), q, m) /\ LinesAre /\ GoneIs
           /\ GoneOf(Out', Made', AllIn(Lines(bucket'))) = GoneOf(Out, Made, AllIn(Lines(bucket))) \cup {x}
           /\ {n \in Made : holder[n].asked}' = {n \in Made : holder[n].asked}
<1> DEFINE L == Lines(bucket)
           M == Lines(bucket')
<1>1. /\ bucket' \in [Reqs -> Seq(Item)] /\ \A p \in Reqs : Distinct(bucket'[p])
      /\ L \in [Reqs -> Seq(Numbers)] /\ L[q] = LineOf(bucket[q])
      /\ M = [L EXCEPT ![q] = LineOf(nb)] /\ LinesAre /\ GoneIs
  BY OneLineChanges
<1>2. Once(L) /\ AllIn(L) \subseteq Made \ Out
  BY DEF PoolInv
<1>3. Made' = Made
  BY DEF Made
<1> HIDE DEF L, M
<1>4. M = Removed(L, q, m)
  BY <1>1 DEF Removed
<1>5. Once(M) /\ AllIn(M) = AllIn(L) \ {x}
  <2> DEFINE W == Numbers
  <2>1. L \in [Reqs -> Seq(W)] /\ Once(L) /\ q \in Reqs /\ m \in DOMAIN L[q]
    BY <1>1, <1>2
  <2> HIDE DEF W
  <2>2. Once(M) /\ AllIn(M) = AllIn(L) \ {L[q][m]}
    BY ONLY <1>4, <2>1, OnceRemove
  <2> QED  BY <1>1, <2>2
<1>6. x \in AllIn(L)
  <2>1. m \in DOMAIN L[q] /\ L[q][m] = x
    BY <1>1
  <2> QED  BY <2>1, InLines
<1>7. x \in Made /\ x \in Numbers
  <2>1. Made \subseteq Numbers
    BY PoolAssumption DEF PoolInv, Made, Numbers
  <2> QED  BY <1>2, <1>6, <2>1
<1>8. AllIn(M) \subseteq Made \ Out'
  BY <1>2, <1>5
<1>9. GoneOf(Out', Made', AllIn(M)) = GoneOf(Out, Made, AllIn(L)) \cup {x}
  BY <1>2, <1>3, <1>5, <1>6 DEF GoneOf
<1>10. {n \in Made : holder[n].asked}' = {n \in Made : holder[n].asked}
  BY <1>3
<1> QED  BY <1>1, <1>3, <1>4, <1>5, <1>7, <1>8, <1>9, <1>10 DEF L, M

LEMMA PromoteGoes ==
    ASSUME PoolInv, NEW q \in Reqs, Promote(q)
    PROVE  PoolInv' /\ Queue!Next
<1> DEFINE b == bucket[q]
           nb == Renumbered(Survivors(ByRank(b)))
           L == Lines(bucket)
           M == Lines(bucket')
<1>1. /\ b # <<>> /\ bucket' = [bucket EXCEPT ![q] = nb]
      /\ promoted' = Append(promoted, [req |-> q, no |-> Head(ByRank(b)).no])
      /\ auditing' = auditing \cup {Head(ByRank(b)).no} /\ UNCHANGED <<holder, released, audited>>
  BY DEF Promote
<1>2. b \in Seq(Item) /\ Distinct(b)
  BY DEF PoolInv
<1> HIDE DEF nb, b
<1>3. nb \in Seq(Item) /\ Distinct(nb) /\ LineOf(nb) = Tail(LineOf(b)) /\ LineOf(b) # <<>>
      /\ Head(ByRank(b)).no = Head(LineOf(b)) /\ LineOf(b) \in Seq(Numbers)
  BY <1>1, <1>2, FirstGoes, LineFacts DEF nb
<1>4. 1 \in DOMAIN LineOf(b) /\ Head(LineOf(b)) = LineOf(b)[1] /\ Tail(LineOf(b)) = RemoveAt(LineOf(b), 1)
  BY <1>3, TailIsRemove
<1> DEFINE x == Head(LineOf(b))
<1>5. x \in Numbers
  <2> DEFINE W == Numbers
  <2>1. LineOf(b) \in Seq(W) /\ LineOf(b) # <<>>
    BY <1>3
  <2> HIDE DEF W
  <2>2. Head(LineOf(b)) \in W
    BY <2>1
  <2> QED  BY <2>2 DEF W
<1> HIDE DEF x
<1>6. Out' = Out \cup {x} /\ promoted' \in Seq([req : Reqs, no : Numbers])
  <2> DEFINE it == [req |-> q, no |-> x]
             W == [req : Reqs, no : Numbers]
  <2>1. promoted \in Seq(W) /\ it \in W /\ promoted' = Append(promoted, it)
    BY <1>1, <1>3, <1>5 DEF x, PoolInv
  <2>2. it.no = x
    OBVIOUS
  <2> HIDE DEF it, W
  <2> DEFINE n == Len(promoted)
  <2>3. /\ n \in Nat /\ promoted' \in Seq(W) /\ DOMAIN promoted = 1..n /\ DOMAIN promoted' = 1..n + 1
        /\ (\A i \in 1..n : promoted'[i] = promoted[i]) /\ promoted'[n + 1] = it
    BY <2>1
  <2> HIDE DEF n
  <2>4. Out' = {promoted'[i].no : i \in 1..n + 1} /\ Out = {promoted[i].no : i \in 1..n}
    BY <2>3 DEF Out
  <2>5. \A i \in 1..n + 1 : promoted'[i].no = IF i = n + 1 THEN x ELSE promoted[i].no
    BY <2>2, <2>3
  <2>6. 1..n + 1 = (1..n) \cup {n + 1} /\ n + 1 \notin 1..n
    BY <2>3
  <2>7. Out' = Out \cup {x}
    BY <2>4, <2>5, <2>6
  <2> QED  BY <2>3, <2>7 DEF W
<1>7. /\ x \in Made /\ Made' = Made
      /\ bucket' \in [Reqs -> Seq(Item)] /\ \A p \in Reqs : Distinct(bucket'[p])
      /\ Once(M) /\ AllIn(M) \subseteq Made \ Out' /\ L[q] = LineOf(b)
      /\ M = Removed(L, q, 1) /\ LinesAre /\ GoneIs
      /\ GoneOf(Out', Made', AllIn(M)) = GoneOf(Out, Made, AllIn(L)) \cup {x}
      /\ {n \in Made : holder[n].asked}' = {n \in Made : holder[n].asked}
  <2> DEFINE m == 1
  <2>1. /\ nb \in Seq(Item) /\ Distinct(nb) /\ bucket' = [bucket EXCEPT ![q] = nb]
        /\ m \in DOMAIN LineOf(bucket[q]) /\ LineOf(nb) = RemoveAt(LineOf(bucket[q]), m) /\ holder' = holder
        /\ x = LineOf(bucket[q])[m] /\ Out' \in {Out, Out \cup {x}}
    BY <1>1, <1>3, <1>4, <1>6 DEF b, x
  <2> HIDE DEF m
  <2>2. /\ x \in Made /\ Made' = Made
        /\ bucket' \in [Reqs -> Seq(Item)] /\ \A p \in Reqs : Distinct(bucket'[p])
        /\ Once(M) /\ AllIn(M) \subseteq Made \ Out' /\ L[q] = LineOf(bucket[q])
        /\ M = Removed(L, q, m) /\ LinesAre /\ GoneIs
        /\ GoneOf(Out', Made', AllIn(M)) = GoneOf(Out, Made, AllIn(L)) \cup {x}
        /\ {n \in Made : holder[n].asked}' = {n \in Made : holder[n].asked}
    BY <2>1, LineGoes
  <2> QED  BY <2>2 DEF b, m
<1> HIDE DEF L, M
<1>8. PoolInv'
  <2>1. Out' \cup released' \cup auditing' \cup audited' \subseteq Made'
    BY <1>1, <1>3, <1>6, <1>7 DEF PoolInv, x
  <2>2. holder' \in Seq(Entry) /\ Len(holder') <= MaxHolds
    BY <1>1 DEF PoolInv
  <2> QED  BY <1>6, <1>7, <2>1, <2>2 DEF PoolInv, L, M
<1>9. Queue!Promote(q)
  <2>1. M = [L EXCEPT ![q] = Tail(L[q])]
    BY <1>4, <1>7 DEF Removed
  <2>2. L[q] # <<>> /\ x = Head(L[q])
    BY <1>3, <1>7 DEF x
  <2>3. (Out \cup (Made \ UNION {Held(bucket[y]) : y \in Reqs}))'
            = (Out \cup (Made \ UNION {Held(bucket[y]) : y \in Reqs})) \cup {x}
    BY <1>7 DEF GoneIs, L, M
  <2> QED  BY <1>7, <2>1, <2>2, <2>3 DEF Queue!Promote, LinesAre, L, M
<1> QED  BY <1>8, <1>9 DEF Queue!Next

LEMMA ReleaseGoes ==
    ASSUME PoolInv, NEW q \in Reqs, NEW c \in Candidates, Release(q, c)
    PROVE  PoolInv' /\ Queue!Next
<1>1. PICK i \in DOMAIN bucket[q] : /\ released' = released \cup {bucket[q][i].no}
                                    /\ bucket' = [bucket EXCEPT ![q] = RemoveAt(bucket[q], i)]
                                    /\ UNCHANGED <<holder, promoted, auditing, audited>>
  BY DEF Release, PoolInv
<1> DEFINE b == bucket[q]
           nb == RemoveAt(b, i)
           L == Lines(bucket)
           M == Lines(bucket')
<1>2. b \in Seq(Item) /\ Distinct(b)
  BY DEF PoolInv
<1> HIDE DEF nb, b
<1>3. nb \in Seq(Item) /\ Distinct(nb) /\ Leaves(b, i, nb)
  BY <1>1, <1>2, ReleasedGoes DEF b, nb
<1>4. PICK m \in DOMAIN LineOf(b) : LineOf(b)[m] = b[i].no /\ LineOf(nb) = RemoveAt(LineOf(b), m)
  BY <1>3 DEF Leaves
<1>5. Out' = Out
  BY <1>1 DEF Out
<1>6. PICK x \in Numbers : x = b[i].no
  <2>1. i \in DOMAIN b
    BY <1>1 DEF b
  <2> QED  BY <1>2, <2>1, BucketIs
<1>7. /\ x \in Made /\ x \in Numbers /\ Made' = Made
      /\ bucket' \in [Reqs -> Seq(Item)] /\ \A p \in Reqs : Distinct(bucket'[p])
      /\ Once(M) /\ AllIn(M) \subseteq Made \ Out' /\ L[q] = LineOf(b)
      /\ M = Removed(L, q, m) /\ LinesAre /\ GoneIs
      /\ GoneOf(Out', Made', AllIn(M)) = GoneOf(Out, Made, AllIn(L)) \cup {x}
      /\ {n \in Made : holder[n].asked}' = {n \in Made : holder[n].asked}
  <2>1. /\ nb \in Seq(Item) /\ Distinct(nb) /\ bucket' = [bucket EXCEPT ![q] = nb]
        /\ m \in DOMAIN LineOf(bucket[q]) /\ LineOf(nb) = RemoveAt(LineOf(bucket[q]), m) /\ holder' = holder
        /\ x = LineOf(bucket[q])[m] /\ Out' \in {Out, Out \cup {x}}
    BY <1>1, <1>3, <1>4, <1>5, <1>6 DEF b, nb
  <2>2. /\ x \in Made /\ x \in Numbers /\ Made' = Made
        /\ bucket' \in [Reqs -> Seq(Item)] /\ \A p \in Reqs : Distinct(bucket'[p])
        /\ Once(M) /\ AllIn(M) \subseteq Made \ Out' /\ L[q] = LineOf(bucket[q])
        /\ M = Removed(L, q, m) /\ LinesAre /\ GoneIs
        /\ GoneOf(Out', Made', AllIn(M)) = GoneOf(Out, Made, AllIn(L)) \cup {x}
        /\ {n \in Made : holder[n].asked}' = {n \in Made : holder[n].asked}
    BY <2>1, LineGoes
  <2> QED  BY <2>2 DEF b
<1> HIDE DEF L, M
<1>8. PoolInv'
  <2>1. Out' \cup released' \cup auditing' \cup audited' \subseteq Made'
    BY <1>1, <1>5, <1>6, <1>7 DEF PoolInv, b
  <2>2. holder' \in Seq(Entry) /\ Len(holder') <= MaxHolds /\ promoted' \in Seq([req : Reqs, no : Numbers])
    BY <1>1 DEF PoolInv
  <2> QED  BY <1>7, <2>1, <2>2 DEF PoolInv, L, M
<1>9. Queue!Release(q, x)
  <2>1. M = [L EXCEPT ![q] = Queue!RemoveAt(L[q], m)] /\ m \in DOMAIN L[q] /\ L[q][m] = x
    BY <1>4, <1>6, <1>7, QueueInsertIs DEF Removed
  <2>3. (Out \cup (Made \ UNION {Held(bucket[y]) : y \in Reqs}))'
            = (Out \cup (Made \ UNION {Held(bucket[y]) : y \in Reqs})) \cup {x}
    BY <1>7 DEF GoneIs, L, M
  <2> QED  BY <1>7, <2>1, <2>3 DEF Queue!Release, LinesAre, L, M
<1>10. Queue!Next
  BY <1>6, <1>9, QueueSteps
<1> QED  BY <1>8, <1>10

LEMMA RestartForgets ==
    ASSUME PoolInv, PoolRestart
    PROVE  PoolInv' /\ Queue!Next
<1>1. bucket' = [r \in Reqs |-> <<>>] /\ auditing' = {} /\ UNCHANGED <<holder, promoted, released, audited>>
  BY DEF PoolRestart
<1>2. bucket' \in [Reqs -> Seq(Item)] /\ \A q \in Reqs : bucket'[q] = <<>> /\ Distinct(bucket'[q])
  BY <1>1 DEF Distinct
<1>3. LinesAre /\ GoneIs
  BY <1>2, AbstractIs
<1>4. Lines(bucket') = [r \in Reqs |-> <<>>]
  <2>1. \A q \in Reqs : LineOf(bucket'[q]) = <<>>
    BY <1>2 DEF LineOf
  <2> QED  BY <2>1 DEF Lines
<1>5. Once(Lines(bucket')) /\ AllIn(Lines(bucket')) = {}
  BY <1>4 DEF Once, AllIn, ToSet
<1>6. Out' = Out /\ Made' = Made
  BY <1>1 DEF Out, Made
<1>7. GoneOf(Out', Made', AllIn(Lines(bucket'))) = GoneOf(Out, Made, AllIn(Lines(bucket))) \cup AllIn(Lines(bucket))
  BY <1>5, <1>6 DEF GoneOf, PoolInv
<1>8. PoolInv'
  <2>1. Out' \cup released' \cup auditing' \cup audited' \subseteq Made'
    BY <1>1, <1>6 DEF PoolInv
  <2>2. holder' \in Seq(Entry) /\ Len(holder') <= MaxHolds /\ promoted' \in Seq([req : Reqs, no : Numbers])
    BY <1>1 DEF PoolInv
  <2>3. AllIn(Lines(bucket')) \subseteq Made' \ Out'
    BY <1>5
  <2> QED  BY <1>2, <1>5, <2>1, <2>2, <2>3 DEF PoolInv
<1>9. {n \in Made : holder[n].asked}' = {n \in Made : holder[n].asked}
  BY <1>1, <1>6
<1>10. Queue!Forget
  BY <1>3, <1>4, <1>7, <1>9 DEF Queue!Forget, LinesAre, GoneIs
<1> QED  BY <1>8, <1>10 DEF Queue!Next

LEMMA PoolStutters ==
    ASSUME PoolInv, UNCHANGED <<bucket, holder, promoted>>, released' = released,
           auditing' \subseteq auditing, audited' \subseteq audited \cup auditing
    PROVE  PoolInv' /\ UNCHANGED Queue!vars
<1>1. Out' = Out /\ Made' = Made
  BY DEF Out, Made
<1>2. LinesAre /\ GoneIs
  BY AbstractIs DEF PoolInv
<1>3. Lines(bucket') = Lines(bucket)
  OBVIOUS
<1>4. PoolInv'
  BY <1>1, <1>3 DEF PoolInv
<1>5. {n \in Made : holder[n].asked}' = {n \in Made : holder[n].asked}
  BY <1>1
<1>6. UNCHANGED Queue!vars
  BY <1>1, <1>2, <1>3, <1>5 DEF Queue!vars, LinesAre, GoneIs
<1> QED  BY <1>4, <1>6

LEMMA PoolStep == PoolInv /\ [PoolNext]_poolVars => PoolInv' /\ [Queue!Next]_Queue!vars
<1> SUFFICES ASSUME PoolInv, [PoolNext]_poolVars PROVE PoolInv' /\ [Queue!Next]_Queue!vars
  OBVIOUS
<1>1. CASE \E q \in Reqs : Promote(q)
  BY <1>1, PromoteGoes
<1>2. CASE \E q \in Reqs : \E c \in Candidates : Release(q, c)
  BY <1>2, ReleaseGoes
<1>3. CASE \E q \in Reqs : \E c \in Candidates : \E r \in Ranks \cup {None} : Hold(q, c, r)
  BY <1>3, HoldJoins
<1>4. CASE \E n \in Made : Audit(n)
  <2>1. /\ UNCHANGED <<bucket, holder, promoted>> /\ released' = released
        /\ auditing' \subseteq auditing /\ audited' \subseteq audited \cup auditing
    BY <1>4 DEF Audit
  <2> QED  BY <2>1, PoolStutters
<1>5. CASE PoolRestart
  BY <1>5, RestartForgets
<1>6. CASE UNCHANGED poolVars
  <2>1. /\ UNCHANGED <<bucket, holder, promoted>> /\ released' = released
        /\ auditing' \subseteq auditing /\ audited' \subseteq audited \cup auditing
    BY <1>6 DEF poolVars
  <2> QED  BY <2>1, PoolStutters
<1> QED  BY <1>1, <1>2, <1>3, <1>4, <1>5, <1>6 DEF PoolNext

LEMMA PoolStart == PoolInit => PoolInv /\ Queue!Init
<1> SUFFICES ASSUME PoolInit PROVE PoolInv /\ Queue!Init
  OBVIOUS
<1>1. /\ bucket \in [Reqs -> Seq(Item)] /\ \A q \in Reqs : bucket[q] = <<>> /\ Distinct(bucket[q])
  BY DEF PoolInit, Distinct
<1>2. Made = {} /\ Out = {}
  BY DEF PoolInit, Made, Out
<1>3. [q \in Reqs |-> LineOf(bucket[q])] = [r \in Reqs |-> <<>>]
  <2>1. \A q \in Reqs : LineOf(bucket[q]) = <<>>
    BY <1>1 DEF LineOf
  <2> QED  BY <2>1
<1>4. Lines(bucket) = [r \in Reqs |-> <<>>]
  BY <1>3 DEF Lines
<1>5. Once(Lines(bucket)) /\ AllIn(Lines(bucket)) = {}
  BY <1>4 DEF Once, AllIn, ToSet
<1>6. holder \in Seq(Entry) /\ Len(holder) <= MaxHolds /\ promoted \in Seq([req : Reqs, no : Numbers])
  BY PoolAssumption DEF PoolInit
<1>7. PoolInv
  BY <1>1, <1>2, <1>5, <1>6 DEF PoolInv, PoolInit
<1>8. Queue!Init
  BY <1>2, <1>3 DEF Queue!Init
<1> QED  BY <1>7, <1>8

\* The pool promises no less than the queue: for all requisitions, ranks, bounds
\* on holds and restarts, in whatever order hold, promote and release come.
THEOREM PoolIsAQueue == PoolSpec => ImplementsBackupQueue
  BY PoolStart, PoolStep, PTL DEF PoolSpec, ImplementsBackupQueue, Queue!Spec

=============================================================================
