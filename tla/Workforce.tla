----------------------------- MODULE Workforce ------------------------------
(***************************************************************************)
(* The workforce API of govcon-wfi on PostgreSQL: employees are created     *)
(* after a look for the email, changed field by field, and listed, each by  *)
(* requests that interleave at their statements; every change is followed   *)
(* by a write to the audit log, which may fail and is then only logged.     *)
(*                                                                         *)
(* Operators marked [fault] are wrong versions of the one that follows     *)
(* them, used to check the properties.                                     *)
(***************************************************************************)
EXTENDS Integers, Sequences, FiniteSets, SequencesExt, FiniteSetsExt

CONSTANTS
    Emails,
    Fields,         \* columns besides the email that a PATCH may set
    Bodies,         \* the columns that the PATCHes set
    MaxCreateCalls, MaxPatches  \* bounds: requests

ASSUME WorkforceAssumption ==
    /\ {MaxCreateCalls, MaxPatches} \subseteq Nat /\ "email" \notin Fields
    /\ Bodies \subseteq SUBSET (Fields \cup {"email"})

VARIABLES
    employees,  \* the table: id -> row, ids in the order of insertion
    posts,      \* requests POST /employees: email, pc
    patches,    \* requests PATCH /employees/{id}: id, columns, value, pc
    auditLog    \* what the audit log has: <<action, id>>

workforceVars == <<employees, posts, patches, auditLog>>

WorkforceInit == employees = <<>> /\ posts = <<>> /\ patches = <<>> /\ auditLog = {}

\* Values of a field are the numbers of the patches that wrote them; 0 is what
\* the row was created with.
Row(email) == [email |-> email, col |-> [f \in Fields |-> 0]]

HasEmail(email) == \E i \in DOMAIN employees : employees[i].email = email

-----------------------------------------------------------------------------
(* POST /v1/workforce/employees                                            *)

PostEmployee(email) ==
    /\ Len(posts) < MaxCreateCalls
    /\ posts' = Append(posts, [email |-> email, pc |-> "look", id |-> 0])
    /\ UNCHANGED <<employees, patches, auditLog>>

\* list_rows with a filter; 409 when there is one.
create_employee(i) ==
    /\ posts[i].pc = "look"
    /\ posts' = [posts EXCEPT ![i].pc = IF HasEmail(posts[i].email) THEN "conflict" ELSE "insert"]
    /\ UNCHANGED <<employees, patches, auditLog>>

\* [fault] the look was enough.
Unchecked(email) == TRUE

\* email TEXT UNIQUE
UniqueEmail(email) == ~HasEmail(email)

insert_returning(i) ==
    /\ posts[i].pc = "insert"
    /\ IF UniqueEmail(posts[i].email)
       THEN /\ employees' = Append(employees, Row(posts[i].email))
            /\ posts' = [posts EXCEPT ![i].pc = "audit", ![i].id = Len(employees')]
       ELSE posts' = [posts EXCEPT ![i].pc = "error"] /\ UNCHANGED employees
    /\ UNCHANGED <<patches, auditLog>>

AuditPost(i) ==
    /\ posts[i].pc = "audit"
    /\ posts' = [posts EXCEPT ![i].pc = "created"]
    /\ auditLog' \in {auditLog, auditLog \cup {<<"employee.create", posts[i].id>>}}
    /\ UNCHANGED <<employees, patches>>

-----------------------------------------------------------------------------
(* PATCH /v1/workforce/employees/{employee_id}                             *)

NoEmail == CHOOSE email \in Emails : TRUE    \* of no account

\* exclude_unset: the columns are those the client sent; "email" has a new value.
PatchEmployee(id, columns, email) ==
    /\ Len(patches) < MaxPatches
    /\ patches' = Append(patches, [id |-> id, columns |-> columns, email |-> email, pc |-> "update"])
    /\ UNCHANGED <<employees, posts, auditLog>>

\* [fault] the whole row is written back: what was not sent gets its default.
WholeRow(row, n, columns) == [f \in Fields |-> IF f \in columns THEN n ELSE 0]

SetClause(row, n, columns) == [f \in Fields |-> IF f \in columns THEN n ELSE row.col[f]]

\* One UPDATE of the columns; 404 without a row, an error for a second email.
update_returning(n) ==
    LET p == patches[n]
    IN  /\ p.pc = "update"
        /\ IF p.id \notin DOMAIN employees
           THEN patches' = [patches EXCEPT ![n].pc = "not found"] /\ UNCHANGED employees
           ELSE IF "email" \in p.columns /\ p.email # employees[p.id].email /\ ~UniqueEmail(p.email)
           THEN patches' = [patches EXCEPT ![n].pc = "error"] /\ UNCHANGED employees
           ELSE /\ employees' = [employees EXCEPT ![p.id] =
                        [email |-> IF "email" \in p.columns THEN p.email ELSE @.email,
                         col   |-> SetClause(@, n, p.columns)]]
                /\ patches' = [patches EXCEPT ![n].pc = IF p.columns = {} THEN "done" ELSE "audit"]
        /\ UNCHANGED <<posts, auditLog>>

AuditPatch(n) ==
    /\ patches[n].pc = "audit"
    /\ patches' = [patches EXCEPT ![n].pc = "done"]
    /\ auditLog' \in {auditLog, auditLog \cup {<<"employee.update", patches[n].id>>}}
    /\ UNCHANGED <<employees, posts>>

WorkforceNext ==
    \/ \E email \in Emails : PostEmployee(email)
    \/ \E i \in DOMAIN posts : create_employee(i) \/ insert_returning(i) \/ AuditPost(i)
    \/ \E id \in 1..MaxCreateCalls, columns \in Bodies, email \in Emails :
            ("email" \in columns \/ email = NoEmail) /\ PatchEmployee(id, columns, email)
    \/ \E n \in DOMAIN patches : update_returning(n) \/ AuditPatch(n)

WorkforceSpec == WorkforceInit /\ [][WorkforceNext]_workforceVars

-----------------------------------------------------------------------------
(* Properties.                                                             *)

WorkforceTypeOK ==
    /\ employees \in Seq([email : Emails, col : [Fields -> 0..MaxPatches]])
    /\ \A i \in DOMAIN posts : posts[i].pc \in {"look", "insert", "audit", "created", "conflict", "error"}
    /\ \A n \in DOMAIN patches : patches[n].pc \in {"update", "audit", "done", "not found", "error"}
    /\ auditLog \subseteq {"employee.create", "employee.update"} \X (1..MaxCreateCalls)

\* Two requests that both found an email free do not both create an employee, nor
\* does a change of an email make a second one.
EmailsUnique ==
    \A i, j \in DOMAIN employees : employees[i].email = employees[j].email => i = j

\* Changes of different fields by different clients do not undo each other: a
\* field has the value of a PATCH that set it, once any was answered.
PatchesSurvive ==
    \A n \in DOMAIN patches : patches[n].pc = "done" =>
        \A f \in patches[n].columns \ {"email"} :
            LET m == employees[patches[n].id].col[f] IN m # 0 /\ f \in patches[m].columns

\* Requests that interleave neither double an employee nor undo each other.
EmployeesKept == EmailsUnique /\ PatchesSurvive

=============================================================================
