--------------------------- MODULE ContractIngest ---------------------------
(***************************************************************************)
(* The contract store of the govcon-wfi service and everybody who writes   *)
(* it: the SAM.gov and FPDS ingestors (upsert helpers of                   *)
(* ingestors/upsert.py), the USAspending enrichment, and the contract API  *)
(* (create and patch).  All of them are coroutines of ONE asyncio loop: a  *)
(* coroutine runs alone until it awaits something that really suspends.    *)
(* Each action below is the code between two awaits together with the      *)
(* database call that ends it.  Beside them the seed script writes the     *)
(* PostgreSQL tables from a process of its own.                            *)
(*                                                                         *)
(* Operators marked [fault] are deliberately wrong versions of the one     *)
(* that follows them: exchanged for it, they must break a property.        *)
(***************************************************************************)
EXTENDS Naturals, FiniteSets

CONSTANTS
    Docs,           \* SAM notices, FPDS entries, API bodies, seeds: see DocType
    Piids, AgencyCodes, Ueis, Notices,  \* the natural keys documents carry
    Clients,        \* coroutines serving API requests
    None,           \* SQL NULL / Python None
    NoUei,          \* an awardee without a UEI
    Postgres,       \* TRUE: asyncpg + schema; FALSE: InMemoryDatabase
    Outages,        \* TRUE: statements to Postgres may fail on the way
    OpenAI,         \* TRUE: HTTP embeddings; FALSE: NullEmbeddingProvider
    RealServices,   \* enable_real_ingestors: HTTP adapters, ClickHouse audit
    MaxRuns,        \* bound, per task: runs of an ingestor, requests of a client
    MaxCrashes      \* bound: restarts of the process

Sources   == {"sam", "fpds"}
Ingestors == Sources \cup {"usa"}
Tasks     == Ingestors \cup Clients
Kinds     == {"agency", "vendor"}

\* What the code tells apart in a document: which source it comes from, the
\* natural keys it names, and whether a recompete event is due (a SAM notice
\* with a posted date).
DocType ==
    [src: Sources \cup {"api", "seed"}, piid: Piids \cup {None},
     agency: AgencyCodes \cup {None}, vendor: Ueis \cup {NoUei, None},
     notice: Notices \cup {None}, posted: BOOLEAN]

ASSUME ConstantsAssumption ==
    /\ Docs \subseteq DocType
    /\ \A d \in Docs : d.src \in {"api", "seed"} => d.piid # None
    /\ Ingestors \cap Clients = {}
    /\ None \notin Nat \cup Tasks \cup Docs
    /\ NoUei # None /\ NoUei \notin Ueis /\ None \notin Ueis \cup AgencyCodes
    /\ {Postgres, Outages, OpenAI, RealServices} \subseteq BOOLEAN
    /\ MaxRuns \in [Tasks -> Nat] /\ MaxCrashes \in Nat

VARIABLES
    contracts, parents, events,  \* the tables (parents: agencies and vendors)
    audits,     \* ids of the contracts named by recorded audit events
    nextId,     \* uuid4: a fresh identifier
    turn,       \* the coroutine that owns the loop, None when it is free
    pc,         \* per task: where it is suspended
    todo,       \* per source: the documents fetched and not yet handled
    rows,       \* USAspending: rows of the snapshot not yet looked up
    doc,        \* per task: the document in hand
    ref,        \* per task: agency_id and vendor_id local variables
    hit,        \* per task: id found by the last SELECT, or just inserted
    snap,       \* USAspending: the row read at the start of its run
    rejected,   \* per source: documents counted in result.rejected
    stored,     \* per source: documents whose handler returned normally
    runs,       \* per task: runs started
    crashes     \* process restarts so far

tables == <<contracts, parents, events>>
locals == <<todo, rows, doc, ref, hit, snap>>
tally  == <<rejected, stored>>
vars   == <<tables, audits, nextId, turn, pc, locals, tally, runs, crashes>>

NoRef == [k \in Kinds |-> None]

Row == [id: Nat, piid: Piids \cup {None}, cols: Docs, raw: Docs \cup {None},
        usa: BOOLEAN, ref: [Kinds -> Nat \cup {None}],
        edits: SUBSET {"synced", "kept"}]

Parent == [id: Nat, kind: Kinds, key: AgencyCodes \cup Ueis \cup {None}]

Event == [id: Nat, notice: Notices \cup {None}, contract: Nat]

Labels == {"idle", "next", "find_agency", "add_agency", "find_vendor",
           "add_vendor", "find_contract", "embed", "save", "find_event",
           "add_event", "audit", "fetch", "enrich"}

Init ==
    /\ contracts = {} /\ parents = {} /\ events = {} /\ audits = {}
    /\ nextId = 0 /\ turn = None /\ crashes = 0
    /\ pc = [t \in Tasks |-> "idle"]
    /\ todo = [t \in Sources |-> {}] /\ rows = {}
    /\ doc = [t \in Tasks |-> None]
    /\ ref = [t \in Sources |-> NoRef]
    /\ hit = [t \in Tasks |-> None]
    /\ snap = None
    /\ rejected = [t \in Sources |-> {}]
    /\ stored = [t \in Sources |-> {}]
    /\ runs = [t \in Tasks |-> 0]

-----------------------------------------------------------------------------
(* The event loop.                                                         *)

\* [fault] every await gives the loop away.
AlwaysSuspends(op) == op # "run"

\* Which awaits give the loop away.  InMemoryDatabase, NullEmbeddingProvider,
\* the mock adapters and NullAuditWriter are async functions that never
\* suspend; the real ones wait for a socket or a thread.
Suspends(op) ==
    \/ op = "db" /\ Postgres
    \/ op = "embed" /\ OpenAI
    \/ op \in {"fetch", "audit"} /\ RealServices

\* t may run: it already owns the loop, or nobody does.
CanRun(t) == turn \in {t, None}

\* t goes on at label l; after awaiting op, or running on ("run").
Goto(t, op, l) ==
    /\ pc' = [pc EXCEPT ![t] = l]
    /\ turn' = IF l = "idle" \/ Suspends(op) THEN None ELSE t

\* uuid4(): an identifier nobody has.
UseNextId == nextId' = nextId + 1

\* list_rows(..., limit=1): the first match in insertion order.
First(r, S) == r \in S /\ \A q \in S : r.id <= q.id

\* The parameters bound to a jsonb or vector column are Python dicts and lists.
\* The asyncpg pool sets no codec for these types, so there the driver raises
\* before it sends the statement; InMemoryDatabase keeps the objects.
BindsObjects == ~Postgres

-----------------------------------------------------------------------------
(* SAM and FPDS runs: fetch a batch, then upsert document by document.     *)

DocsOf(s) == {d \in Docs : d.src = s}

\* The scheduler starts a run; the adapter answers with some documents.
StartSync(s) ==
    /\ turn = None /\ pc[s] = "idle" /\ runs[s] < MaxRuns[s]
    /\ runs' = [runs EXCEPT ![s] = @ + 1]
    /\ \E batch \in SUBSET DocsOf(s) : todo' = [todo EXCEPT ![s] = batch]
    /\ Goto(s, "fetch", "next")
    /\ UNCHANGED <<tables, audits, nextId, rows, doc, ref, hit, snap, tally, crashes>>

\* upsert_agency runs only when the document names one, upsert_vendor only
\* when it names an awardee; without a UEI the vendor SELECT is skipped.
AfterAgency(d) ==
    IF d.vendor = None THEN "find_contract"
    ELSE IF d.vendor = NoUei THEN "add_vendor" ELSE "find_vendor"

FirstStep(d) == IF d.agency = None THEN AfterAgency(d) ELSE "find_agency"

AfterParent(k, d) == IF k = "agency" THEN AfterAgency(d) ELSE "find_contract"

\* [fault] the local variables of the previous document are kept.
LeakedRefs(s) == ref[s]

\* agency_id = None, vendor_id = None.
StartRefs(s) == NoRef

\* The loop body up to its first await: locals are fresh for every document,
\* a document without a PIID is rejected on the spot.
PickDoc(s) ==
    /\ CanRun(s) /\ pc[s] = "next"
    /\ \E d \in todo[s] :
        /\ todo' = [todo EXCEPT ![s] = @ \ {d}]
        /\ doc' = [doc EXCEPT ![s] = d]
        /\ ref' = [ref EXCEPT ![s] = StartRefs(s)]
        /\ IF d.piid = None
           THEN /\ Goto(s, "run", "next")
                /\ rejected' = [rejected EXCEPT ![s] = @ \cup {d}]
           ELSE Goto(s, "run", FirstStep(d)) /\ UNCHANGED rejected
    /\ UNCHANGED <<tables, audits, nextId, rows, hit, snap, stored, runs, crashes>>

EndSync(s) ==
    /\ CanRun(s) /\ pc[s] = "next" /\ todo[s] = {}
    /\ Goto(s, "run", "idle")
    /\ UNCHANGED <<tables, audits, nextId, locals, tally, runs, crashes>>

\* The exception handler around one document: count it, take the next.
Reject(s) ==
    /\ rejected' = [rejected EXCEPT ![s] = @ \cup {doc[s]}]
    /\ Goto(s, "run", "next")
    /\ UNCHANGED <<tables, nextId, ref, hit, stored>>

\* The handler of one document returned.
Accept(s) ==
    /\ stored' = [stored EXCEPT ![s] = @ \cup {doc[s]}]
    /\ Goto(s, "db", "next")

FindLabel(k) == IF k = "agency" THEN "find_agency" ELSE "find_vendor"
AddLabel(k)  == IF k = "agency" THEN "add_agency" ELSE "add_vendor"

\* [fault] the missing UEI is stored as if it were one.
RawParentKey(k, d) == d[k]

ParentKey(k, d) == IF d[k] = NoUei THEN None ELSE d[k]

ParentsWith(k, key) == {p \in parents : p.kind = k /\ p.key = key}

\* SELECT agencies by code / vendors by uei.
FindParent(s, k) ==
    /\ CanRun(s) /\ pc[s] = FindLabel(k)
    /\ LET matches == ParentsWith(k, ParentKey(k, doc[s])) IN
       \/ \E p \in matches :
            /\ First(p, matches)
            /\ ref' = [ref EXCEPT ![s][k] = p.id]
            /\ Goto(s, "db", AfterParent(k, doc[s]))
       \/ matches = {} /\ Goto(s, "db", AddLabel(k)) /\ UNCHANGED ref
    /\ UNCHANGED <<tables, audits, nextId, todo, rows, doc, hit, snap, tally, runs, crashes>>

\* [fault] a schema without the unique keys of agencies and vendors.
NoParentConflict(k, key) == FALSE

\* UNIQUE(code), UNIQUE(uei): a NULL uei never conflicts.
ParentConflict(k, key) == Postgres /\ key # None /\ ParentsWith(k, key) # {}

\* INSERT the agency or vendor.
AddParent(s, k) ==
    /\ CanRun(s) /\ pc[s] = AddLabel(k)
    /\ LET key == ParentKey(k, doc[s]) IN
       \/ ParentConflict(k, key) /\ Reject(s)
       \/ /\ ~ParentConflict(k, key)
          /\ UseNextId
          /\ parents' = parents \cup {[id |-> nextId, kind |-> k, key |-> key]}
          /\ ref' = [ref EXCEPT ![s][k] = nextId]
          /\ Goto(s, "db", AfterParent(k, doc[s]))
          /\ UNCHANGED <<contracts, events, hit, tally>>
    /\ UNCHANGED <<audits, todo, rows, doc, snap, runs, crashes>>

-----------------------------------------------------------------------------
(* upsert_contract: SELECT by PIID, await the embedding, UPDATE or INSERT. *)

\* [fault] the filter on piid is lost.
AnyContract(p) == contracts

\* [fault] the filter names a column no row has.
NoContract(p) == {}

WithPiid(p) == {c \in contracts : c.piid = p}

SelectContract(s) ==
    /\ CanRun(s) /\ pc[s] = "find_contract"
    /\ LET matches == WithPiid(doc[s].piid) IN
       \/ \E c \in matches : First(c, matches) /\ hit' = [hit EXCEPT ![s] = c.id]
       \/ matches = {} /\ hit' = [hit EXCEPT ![s] = None]
    /\ Goto(s, "db", "embed")
    /\ UNCHANGED <<tables, audits, nextId, todo, rows, doc, ref, snap, tally, runs, crashes>>

\* The embedding call; over HTTP it may also raise.
EmbedDoc(s) ==
    /\ CanRun(s) /\ pc[s] = "embed"
    /\ \/ /\ Goto(s, "embed", "save")
          /\ UNCHANGED <<tables, nextId, ref, hit, tally>>
       \/ OpenAI /\ Reject(s)
    /\ UNCHANGED <<audits, todo, rows, doc, snap, runs, crashes>>

\* raw_json: ingestors and the seed store theirs, API bodies carry none.
RawOf(d) == IF d.src = "api" THEN None ELSE d

\* INSERT of a row made from document d.
NewRow(id, d, r) ==
    [id |-> id, piid |-> d.piid, cols |-> d, raw |-> RawOf(d), usa |-> FALSE,
     ref |-> r, edits |-> {}]

\* [fault] the whole row is written back.
RowRewritten(c, d, r) == [NewRow(c.id, d, r) EXCEPT !.piid = c.piid]

\* The columns upsert_contract sets: everything but status, recompete_risk,
\* option_year and base_or_option; raw_json is replaced as a whole.
Overwritten(c, d, r) ==
    [c EXCEPT !.cols = d, !.raw = RawOf(d), !.usa = FALSE, !.ref = r,
              !.edits = @ \ {"synced"}]

\* A SAM notice with a posted date goes on to its recompete event; without a
\* noticeId the event is inserted unconditionally.
HasEvent(d) == d.src = "sam" /\ d.posted

\* [fault] insert without looking for the notice first.
InsertAlways(d) == "add_event"

EventLabel(d) == IF d.notice = None THEN "add_event" ELSE "find_event"

\* [fault] only new contracts get their event.
SavedNewOnly(s) ==
    IF HasEvent(doc[s]) /\ hit[s] = None
    THEN Goto(s, "db", EventLabel(doc[s])) /\ UNCHANGED stored
    ELSE Accept(s)

Saved(s) ==
    IF HasEvent(doc[s])
    THEN Goto(s, "db", EventLabel(doc[s])) /\ UNCHANGED stored
    ELSE Accept(s)

\* UPDATE or INSERT; both bind raw_json and the embedding.
SaveContract(s) ==
    /\ CanRun(s) /\ pc[s] = "save"
    /\ \/ /\ BindsObjects /\ hit[s] # None
          /\ contracts' = {IF c.id = hit[s] THEN Overwritten(c, doc[s], ref[s])
                                            ELSE c : c \in contracts}
          /\ Saved(s)
          /\ UNCHANGED <<parents, events, nextId, hit, ref, rejected>>
       \/ /\ BindsObjects /\ hit[s] = None
          /\ UseNextId
          /\ contracts' = contracts \cup {NewRow(nextId, doc[s], ref[s])}
          /\ hit' = [hit EXCEPT ![s] = nextId]
          /\ Saved(s)
          /\ UNCHANGED <<parents, events, ref, rejected>>
       \/ ~BindsObjects /\ Reject(s)
    /\ UNCHANGED <<audits, todo, rows, doc, snap, runs, crashes>>

-----------------------------------------------------------------------------
(* upsert_recompete_event.                                                 *)

EventsOf(n) == {e \in events : e.notice = n}

FindEvent(s) ==
    /\ CanRun(s) /\ pc[s] = "find_event"
    /\ IF EventsOf(doc[s].notice) # {}
       THEN Accept(s)
       ELSE Goto(s, "db", "add_event") /\ UNCHANGED stored
    /\ UNCHANGED <<tables, audits, nextId, locals, rejected, runs, crashes>>

\* INSERT of the event; it binds details.
AddEvent(s) ==
    /\ CanRun(s) /\ pc[s] = "add_event"
    /\ \/ /\ BindsObjects
          /\ UseNextId
          /\ events' = events \cup
                {[id |-> nextId, notice |-> doc[s].notice, contract |-> hit[s]]}
          /\ Accept(s)
          /\ UNCHANGED <<contracts, parents, ref, hit, rejected>>
       \/ ~BindsObjects /\ Reject(s)
    /\ UNCHANGED <<audits, todo, rows, doc, snap, runs, crashes>>

\* Any statement may fail when the database is across a network.
DbLabels == {"find_agency", "add_agency", "find_vendor", "add_vendor",
             "find_contract", "save", "find_event", "add_event"}

StatementFails(s) ==
    /\ Postgres /\ Outages /\ CanRun(s) /\ pc[s] \in DbLabels
    /\ Reject(s)
    /\ UNCHANGED <<audits, todo, rows, doc, snap, runs, crashes>>

-----------------------------------------------------------------------------
(* run_usaspending_sync: one snapshot of the table, then per contract an    *)
(* HTTP call and an UPDATE built from the snapshot's row.                   *)

StartUsa ==
    /\ turn = None /\ pc["usa"] = "idle" /\ runs["usa"] < MaxRuns["usa"]
    /\ runs' = [runs EXCEPT !["usa"] = @ + 1]
    /\ rows' = contracts
    /\ Goto("usa", "db", "next")
    /\ UNCHANGED <<tables, audits, nextId, todo, doc, ref, hit, snap, tally, crashes>>

\* fetch_award: nothing known (skip the row), an award, or an exception,
\* which is not caught per contract and ends the run.
FetchAward ==
    /\ CanRun("usa") /\ pc["usa"] = "next"
    /\ \/ \E c \in rows :
          /\ rows' = rows \ {c}
          /\ \/ snap' = c /\ Goto("usa", "fetch", "enrich")
             \/ UNCHANGED snap /\ Goto("usa", "fetch", "next")
       \/ /\ rows = {} \/ RealServices
          /\ rows' = {}
          /\ Goto("usa", "run", "idle") /\ UNCHANGED snap
    /\ UNCHANGED <<tables, audits, nextId, todo, doc, ref, hit, tally, runs, crashes>>

\* _enrich_contract: raw_json becomes the snapshot's raw_json plus the
\* "usaspending" key.  From Postgres raw_json comes as text, which dict() does
\* not take, or is NULL and the new dict cannot be bound: the exception is
\* counted and the row skipped.
Enriched(c) == [c EXCEPT !.raw = snap.raw, !.usa = TRUE]

EnrichContract ==
    /\ CanRun("usa") /\ pc["usa"] = "enrich"
    /\ \/ /\ BindsObjects
          /\ contracts' = {IF c.id = snap.id THEN Enriched(c) ELSE c : c \in contracts}
       \/ ~BindsObjects /\ UNCHANGED contracts
    /\ snap' = None
    /\ Goto("usa", "db", "next")
    /\ UNCHANGED <<parents, events, audits, nextId, todo, rows, doc, ref, hit,
                   tally, runs, crashes>>

-----------------------------------------------------------------------------
(* POST /v1/contracts and PATCH /v1/contracts/{id}.                        *)

\* Budget one more request of client c.
Accepting(c) ==
    /\ turn = None /\ pc[c] = "idle" /\ runs[c] < MaxRuns[c]
    /\ runs' = [runs EXCEPT ![c] = @ + 1]

\* The duplicate check: 409 when the PIID is known.
CheckCreate(c) ==
    /\ Accepting(c)
    /\ \E d \in DocsOf("api") :
        IF WithPiid(d.piid) # {}
        THEN Goto(c, "run", "idle") /\ UNCHANGED doc
        ELSE Goto(c, "db", "embed") /\ doc' = [doc EXCEPT ![c] = d]
    /\ UNCHANGED <<tables, audits, nextId, todo, rows, ref, hit, snap, tally, crashes>>

\* [fault] the exception is swallowed and the request goes on.
AuditAnyway(c) == Goto(c, "db", "audit")

\* An exception ends the request with a 500.
Fail(c) == Goto(c, "run", "idle")

\* [fault] the audit call is forgotten.
ForgetAudit(c) == Goto(c, "db", "idle")

\* The row is committed; its audit event comes next.
Committed(c) == Goto(c, "db", "audit")

\* The embedding, or a 500.
EmbedCreate(c) ==
    /\ CanRun(c) /\ pc[c] = "embed"
    /\ \/ Goto(c, "embed", "save")
       \/ OpenAI /\ Fail(c)
    /\ UNCHANGED <<tables, audits, nextId, locals, tally, runs, crashes>>

\* The INSERT, which binds the embedding, or a 500.
InsertCreate(c) ==
    /\ CanRun(c) /\ pc[c] = "save"
    /\ \/ /\ BindsObjects
          /\ UseNextId
          /\ contracts' = contracts \cup {NewRow(nextId, doc[c], NoRef)}
          /\ hit' = [hit EXCEPT ![c] = nextId]
          /\ Committed(c)
       \/ /\ ~BindsObjects
          /\ Fail(c)
          /\ UNCHANGED <<contracts, nextId, hit>>
    /\ UNCHANGED <<parents, events, audits, todo, rows, doc, ref, snap, tally, runs, crashes>>

\* UPDATE of the fields in the body: columns the ingestors also write
\* ("synced") or columns only people write ("kept").
PatchContract(c) ==
    /\ Accepting(c)
    /\ \E row \in contracts, fields \in (SUBSET {"synced", "kept"}) \ {{}} :
        /\ contracts' = (contracts \ {row}) \cup
                          {[row EXCEPT !.edits = @ \cup fields]}
        /\ hit' = [hit EXCEPT ![c] = row.id]
    /\ Committed(c)
    /\ UNCHANGED <<parents, events, audits, nextId, todo, rows, doc, ref, snap, tally, crashes>>

\* audit.record: a failed ClickHouse insert is logged and dropped.
RecordAudit(c) ==
    /\ CanRun(c) /\ pc[c] = "audit"
    /\ \/ audits' = audits \cup {hit[c]}
       \/ RealServices /\ UNCHANGED audits
    /\ Goto(c, "audit", "idle")
    /\ UNCHANGED <<tables, nextId, locals, tally, runs, crashes>>

-----------------------------------------------------------------------------
(* seeds/govcon_seed.py: a script of its own, INSERT ... ON CONFLICT DO     *)
(* NOTHING one statement after the other, so it may be stopped and run      *)
(* again anywhere.  Its raw_json is text already (json.dumps) and it stores *)
(* no embedding.  Which seeded agency a seeded contract points to is left   *)
(* out.                                                                     *)

SeedParent(k) ==
    /\ Postgres
    /\ \E d \in DocsOf("seed") :
        /\ d[k] # None /\ ~ParentConflict(k, ParentKey(k, d))
        /\ parents' = parents \cup
              {[id |-> nextId, kind |-> k, key |-> ParentKey(k, d)]}
    /\ UseNextId
    /\ UNCHANGED <<contracts, events, audits, turn, pc, locals, tally, runs, crashes>>

\* [fault] a schema without UNIQUE(piid).
NoPiidConflict(p) == FALSE

PiidConflict(p) == WithPiid(p) # {}

SeedContract ==
    /\ Postgres
    /\ \E d \in DocsOf("seed") :
        /\ ~PiidConflict(d.piid)
        /\ contracts' = contracts \cup {NewRow(nextId, d, NoRef)}
    /\ UseNextId
    /\ UNCHANGED <<parents, events, audits, turn, pc, locals, tally, runs, crashes>>

Seed == SeedContract \/ \E k \in Kinds : SeedParent(k)

-----------------------------------------------------------------------------
\* The process dies and is started again: every coroutine is gone, and so is
\* everything that lived in this process.
Crash ==
    /\ crashes < MaxCrashes
    /\ crashes' = crashes + 1
    /\ turn' = None
    /\ pc' = [t \in Tasks |-> "idle"]
    /\ todo' = [t \in Sources |-> {}] /\ rows' = {}
    /\ doc' = [t \in Tasks |-> None]
    /\ ref' = [t \in Sources |-> NoRef]
    /\ hit' = [t \in Tasks |-> None]
    /\ snap' = None
    /\ IF Postgres
       THEN UNCHANGED <<tables, stored>>
       ELSE /\ contracts' = {} /\ parents' = {} /\ events' = {}
            /\ stored' = [t \in Sources |-> {}]
    /\ audits' = IF RealServices THEN audits ELSE {}
    /\ UNCHANGED <<nextId, rejected, runs>>

SyncStep(s) ==
    \/ StartSync(s) \/ PickDoc(s) \/ EndSync(s)
    \/ \E k \in Kinds : FindParent(s, k) \/ AddParent(s, k)
    \/ SelectContract(s) \/ EmbedDoc(s) \/ SaveContract(s)
    \/ FindEvent(s) \/ AddEvent(s) \/ StatementFails(s)

UsaStep == StartUsa \/ FetchAward \/ EnrichContract

ClientStep(c) ==
    \/ CheckCreate(c) \/ EmbedCreate(c) \/ InsertCreate(c)
    \/ PatchContract(c) \/ RecordAudit(c)

\* Every budget is spent and nobody is in flight.
Terminated ==
    /\ \A t \in Tasks : pc[t] = "idle" /\ runs[t] = MaxRuns[t]
    /\ UNCHANGED vars

Next ==
    \/ \E s \in Sources : SyncStep(s)
    \/ UsaStep
    \/ \E c \in Clients : ClientStep(c)
    \/ Seed
    \/ Crash
    \/ Terminated

Spec == Init /\ [][Next]_vars

-----------------------------------------------------------------------------
(* Properties.                                                             *)

TypeOK ==
    /\ contracts \subseteq Row /\ parents \subseteq Parent /\ events \subseteq Event
    /\ audits \subseteq Nat
    /\ nextId \in Nat /\ turn \in Tasks \cup {None}
    /\ pc \in [Tasks -> Labels]
    /\ todo \in [Sources -> SUBSET Docs] /\ rows \subseteq Row
    /\ doc \in [Tasks -> Docs \cup {None}]
    /\ ref \in [Sources -> [Kinds -> Nat \cup {None}]]
    /\ hit \in [Tasks -> Nat \cup {None}]
    /\ snap \in Row \cup {None}
    /\ rejected \in [Sources -> SUBSET Docs]
    /\ stored \in [Sources -> SUBSET Docs]
    /\ runs \in [Tasks -> Nat] /\ crashes \in Nat

\* "Reject duplicates on PIID - that's the federal unique key"
\* (routers/contracts.py:90): whatever the ingestors and the API interleave,
\* no two rows carry the same PIID.
PiidUnique == \A c1, c2 \in contracts : c1.piid = c2.piid => c1 = c2

\* "Upsert by PIID" (ingestors/upsert.py:82): what the SELECT of an upsert or
\* of the duplicate check said is still true when the INSERT is issued.
CheckStillHolds ==
    \A t \in Sources \cup Clients :
        pc[t] = "save" /\ (t \in Clients \/ hit[t] = None)
            => WithPiid(doc[t].piid) = {}

\* Two sources naming the same agency or awardee share one row for it: the
\* select-then-insert of upsert_agency and upsert_vendor never doubles a key.
ParentKeysUnique ==
    \A p1, p2 \in parents :
        p1.kind = p2.kind /\ p1.key = p2.key /\ p1.key # None => p1 = p2

\* Re-delivering a notice (the windows of two runs overlap by a day) does not
\* create a second recompete event, also after a restart.
OneEventPerNotice ==
    \A e1, e2 \in events : e1.notice = e2.notice /\ e1.notice # None => e1 = e2

\* The event of a notice hangs off the contract that notice is about, although
\* the contract id travelled through an await and other writers.
EventOnItsContract ==
    \A e \in events : e.notice # None =>
        \E c \in contracts, d \in Docs :
            c.id = e.contract /\ d.notice = e.notice /\ d.piid = c.piid

\* The agency and vendor a row points to are the ones named by the document
\* its columns came from: no identifier leaks from the previous document of
\* the batch or from another coroutine (rows a person edited since excepted).
LinksMatchDocument ==
    \A c \in contracts : c.cols.src \in Sources =>
        \A k \in Kinds : "synced" \notin c.edits =>
            IF c.cols[k] = None THEN c.ref[k] = None
            ELSE \E p \in parents : /\ p.id = c.ref[k] /\ p.kind = k
                                    /\ p.key = ParentKey(k, c.cols)

\* A document whose handler returned without an exception is in the database:
\* its contract, and its event if one is due.
StoredIsPresent ==
    \A s \in Sources : \A d \in stored[s] :
        /\ WithPiid(d.piid) # {}
        /\ HasEvent(d) /\ d.notice # None => EventsOf(d.notice) # {}

\* An audit event names a row that was committed, also when the process died
\* between the two writes.
NoPhantomAudit == audits \subseteq {c.id : c \in contracts}

\* A row created by the API is audited, or its request is still running.
ApiRowsAudited ==
    \A c \in contracts : c.cols.src = "api" =>
        \/ c.id \in audits
        \/ \E t \in Clients : pc[t] = "audit" /\ hit[t] = c.id

\* raw_json is the document the row's other columns were made from.
RawMatchesColumns == \A c \in contracts : c.raw = RawOf(c.cols)

\* Columns only people write (recompete_risk, status) survive every ingest and
\* enrichment: no writer puts back a whole row it read earlier.
KeptEditsSurvive ==
    [][\A c \in contracts : "kept" \in c.edits =>
        \A d \in contracts' : d.id = c.id => "kept" \in d.edits]_vars

=============================================================================
