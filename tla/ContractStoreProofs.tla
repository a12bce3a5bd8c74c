------------------------- MODULE ContractStoreProofs -------------------------
(***************************************************************************)
(* What the tables of ContractIngest promise.  The argument has three      *)
(* parts.  Rows, parents and events are only added, and a row keeps its id *)
(* and its PIID, so what a coroutine remembers of them across an await     *)
(* stays true.  With Postgres the UNIQUE constraints decide at the INSERT  *)
(* of an agency or a vendor, and contracts come from the seed alone; in    *)
(* memory, the coroutine that looked still owns the loop.  And where a     *)
(* coroutine is suspended tells which of its local variables are set.      *)
(***************************************************************************)
EXTENDS ContractIngestProofs

\* uuid4 never repeats.
IdsInv ==
    /\ \A c \in contracts : c.id < nextId
    /\ \A c1, c2 \in contracts : c1.id = c2.id => c1 = c2

\* Whose document a coroutine works on.
DocsInv ==
    /\ \A s \in Sources : todo[s] \subseteq DocsOf(s)
    /\ \A s \in Sources : pc[s] \notin {"idle", "next"} => doc[s] \in DocsOf(s)
    /\ \A c \in Clients : pc[c] \in {"embed", "save"} => doc[c] \in DocsOf("api")

RowOf(id, p) == \E c \in contracts : c.id = id /\ c.piid = p

\* The id a coroutine holds is that of a row, of its document's contract.
HitInv ==
    /\ \A s \in Sources :
        \/ pc[s] \in {"embed", "save"} /\ hit[s] # None
        \/ pc[s] \in {"find_event", "add_event"}
        => RowOf(hit[s], doc[s].piid)
    /\ \A c \in Clients : pc[c] = "audit" => \E r \in contracts : r.id = hit[c]

\* In memory, who found no agency, vendor or event is alone until its INSERT.
ParentLoop ==
    ~Postgres => \A s \in Sources, k \in Kinds : pc[s] = AddLabel(k) =>
        LET key == ParentKey(k, doc[s])
        IN  turn = s /\ (key # None => ParentsWith(k, key) = {})

EventLoop ==
    ~Postgres => \A s \in Sources : pc[s] = "add_event" =>
        turn = s /\ (doc[s].notice # None => EventsOf(doc[s].notice) = {})

\* r holds the id of the parent that document d names, if it names one.
Linked(k, d, r) ==
    IF d[k] = None THEN r[k] = None
    ELSE \E p \in parents : p.id = r[k] /\ p.kind = k /\ p.key = ParentKey(k, d)

LinksInv ==
    \A s \in Sources :
        /\ pc[s] \in {"find_agency", "add_agency"} => ref[s] = NoRef /\ doc[s].agency # None
        /\ pc[s] \in {"find_vendor", "add_vendor"} =>
            Linked("agency", doc[s], ref[s]) /\ ref[s].vendor = None /\ doc[s].vendor # None
        /\ pc[s] \in {"find_contract", "embed", "save"} =>
            \A k \in Kinds : Linked(k, doc[s], ref[s])

\* In memory without services the enrichment runs alone: its snapshot is the table.
SnapshotLoop ==
    ~Postgres /\ ~RealServices =>
        /\ pc["usa"] # "idle" => turn = "usa"
        /\ \A r \in rows : pc["usa"] # "idle" =>
                \A c \in contracts : c.id = r.id => r.raw = RawOf(c.cols)
        /\ pc["usa"] = "enrich" => \A c \in contracts : c.id = snap.id => snap.raw = RawOf(c.cols)
        /\ RawMatchesColumns

AuditLoop ==
    /\ Postgres \/ ~RealServices => NoPhantomAudit
    /\ ~Postgres /\ ~RealServices => ApiRowsAudited

StoreInv ==
    /\ IType /\ IdsInv /\ DocsInv /\ HitInv
    /\ ParentLoop /\ ParentKeysUnique /\ EventLoop /\ OneEventPerNotice
    /\ LinksInv /\ LinksMatchDocument /\ EventOnItsContract /\ StoredIsPresent
    /\ SnapshotLoop /\ AuditLoop

-----------------------------------------------------------------------------
(* Frames: what a step leaves alone.                                       *)

\* A step of coroutine t touches nobody else's local variables.
OneTask(t) ==
    /\ CanRun(t)
    /\ \A u \in Tasks : u # t => pc'[u] = pc[u] /\ doc'[u] = doc[u] /\ hit'[u] = hit[u]
    /\ \A u \in Sources : u # t =>
        ref'[u] = ref[u] /\ todo'[u] = todo[u] /\ stored'[u] = stored[u]

\* Rows keep their ids and PIIDs; parents and events stay.
TablesGrow ==
    /\ \A c \in contracts : \E d \in contracts' : d.id = c.id /\ d.piid = c.piid
    /\ parents \subseteq parents' /\ events \subseteq events'

\* The ways the table of contracts is written.
Overwrites(s) ==
    /\ pc[s] = "save" /\ hit[s] # None /\ doc[s] \in Docs /\ ref[s] \in [Kinds -> Nat \cup {None}]
    /\ contracts' = {IF c.id = hit[s] THEN Overwritten(c, doc[s], ref[s]) ELSE c : c \in contracts}
    /\ UNCHANGED <<parents, nextId, audits>>

Inserts(t) ==
    /\ pc[t] = "save" /\ doc[t] \in Docs
    /\ \E r \in [Kinds -> Nat \cup {None}] :
        /\ r = IF t \in Clients THEN NoRef ELSE ref[t]
        /\ contracts' = contracts \cup {NewRow(nextId, doc[t], r)}
    /\ nextId' = nextId + 1 /\ UNCHANGED <<parents, audits>>

Patches(c) ==
    \E row \in contracts, fields \in SUBSET {"synced", "kept"} :
        /\ contracts' = (contracts \ {row}) \cup {[row EXCEPT !.edits = @ \cup fields]}
        /\ pc'[c] = "audit" /\ hit'[c] = row.id /\ UNCHANGED <<parents, nextId, audits>>

Enriches ==
    /\ pc["usa"] = "enrich" /\ snap \in Row
    /\ contracts' = {IF c.id = snap.id THEN Enriched(c) ELSE c : c \in contracts}
    /\ UNCHANGED <<parents, nextId, audits>>

LEMMA TaskTypes ==
    ASSUME IType
    PROVE  /\ pc \in [Tasks -> Labels] /\ turn \in Tasks \cup {None} /\ nextId \in Nat
           /\ doc \in [Tasks -> Docs \cup {None}] /\ hit \in [Tasks -> Nat \cup {None}]
           /\ todo \in [Sources -> SUBSET Docs] /\ stored \in [Sources -> SUBSET Docs]
           /\ ref \in [Sources -> [Kinds -> Nat \cup {None}]]
           /\ contracts \subseteq Row /\ parents \subseteq Parent /\ events \subseteq Event
  BY DEF IType, TypeOK

LEMMA GotoMoves ==
    ASSUME IType, NEW t \in Tasks, NEW op, NEW l, Goto(t, op, l)
    PROVE  pc'[t] = l /\ \A u \in Tasks : u # t => pc'[u] = pc[u]
  BY TaskTypes DEF Goto

LEMMA SyncOneTask ==
    ASSUME IType, NEW s \in Sources, SyncStep(s)
    PROVE  OneTask(s)
<1>1. s \in Tasks
  BY TaskSets
<1>2. \E op, l : Goto(s, op, l)
  BY DEF SyncStep, StartSync, PickDoc, EndSync, FindParent, AddParent, SelectContract, EmbedDoc,
         SaveContract, FindEvent, AddEvent, StatementFails, Reject, Saved, Accept
<1>3. \A u \in Tasks : u # s => pc'[u] = pc[u]
  BY <1>1, <1>2, GotoMoves
<1>4. CanRun(s)
  BY DEF SyncStep, StartSync, PickDoc, EndSync, FindParent, AddParent, SelectContract, EmbedDoc,
         SaveContract, FindEvent, AddEvent, StatementFails, CanRun
<1>5. doc' = doc \/ \E d : doc' = [doc EXCEPT ![s] = d]
  BY DEF SyncStep, StartSync, PickDoc, EndSync, FindParent, AddParent, SelectContract, EmbedDoc,
         SaveContract, FindEvent, AddEvent, StatementFails, locals
<1>6. hit' = hit \/ \E h : hit' = [hit EXCEPT ![s] = h]
  BY DEF SyncStep, StartSync, PickDoc, EndSync, FindParent, AddParent, SelectContract, EmbedDoc,
         SaveContract, FindEvent, AddEvent, StatementFails, Reject, Saved, Accept, locals
<1>7. todo' = todo \/ \E b : todo' = [todo EXCEPT ![s] = b]
  BY DEF SyncStep, StartSync, PickDoc, EndSync, FindParent, AddParent, SelectContract, EmbedDoc,
         SaveContract, FindEvent, AddEvent, StatementFails, locals
<1>8. ref' = ref \/ \E r : ref' = [ref EXCEPT ![s] = r]
  BY DEF SyncStep, StartSync, PickDoc, EndSync, FindParent, AddParent, SelectContract, EmbedDoc,
         SaveContract, FindEvent, AddEvent, StatementFails, Reject, locals
<1>9. stored' = stored \/ \E b : stored' = [stored EXCEPT ![s] = b]
  BY DEF SyncStep, StartSync, PickDoc, EndSync, FindParent, AddParent, SelectContract, EmbedDoc,
         SaveContract, FindEvent, AddEvent, StatementFails, Reject, Saved, Accept, locals, tally
<1>10. \A u \in Tasks : u # s => doc'[u] = doc[u] /\ hit'[u] = hit[u]
  BY <1>5, <1>6, TaskTypes
<1>11. \A u \in Sources : u # s => ref'[u] = ref[u] /\ todo'[u] = todo[u] /\ stored'[u] = stored[u]
  BY <1>7, <1>8, <1>9, TaskTypes
<1> QED  BY <1>3, <1>4, <1>10, <1>11 DEF OneTask

LEMMA UsaOneTask ==
    ASSUME IType, UsaStep
    PROVE  OneTask("usa") /\ UNCHANGED <<parents, events, doc, hit, ref, todo, stored, nextId, audits>>
<1>1. "usa" \in Tasks
  BY TaskSets
<1>2. \E op, l : Goto("usa", op, l)
  BY DEF UsaStep, StartUsa, FetchAward, EnrichContract
<1>3. \A u \in Tasks : u # "usa" => pc'[u] = pc[u]
  BY <1>1, <1>2, GotoMoves
<1>4. CanRun("usa") /\ UNCHANGED <<parents, events, doc, hit, ref, todo, stored, nextId, audits>>
  BY DEF UsaStep, StartUsa, FetchAward, EnrichContract, CanRun, tables, tally
<1> QED  BY <1>3, <1>4 DEF OneTask

LEMMA ClientOneTask ==
    ASSUME IType, NEW c \in Clients, ClientStep(c)
    PROVE  OneTask(c) /\ UNCHANGED <<parents, events, ref, todo, stored, rows, snap>>
<1>1. c \in Tasks
  BY TaskSets
<1>2. \E op, l : Goto(c, op, l)
  BY DEF ClientStep, CheckCreate, EmbedCreate, InsertCreate, PatchContract, RecordAudit, Fail, Committed
<1>3. \A u \in Tasks : u # c => pc'[u] = pc[u]
  BY <1>1, <1>2, GotoMoves
<1>4. CanRun(c) /\ UNCHANGED <<parents, events, ref, todo, stored, rows, snap>>
  BY DEF ClientStep, CheckCreate, EmbedCreate, InsertCreate, PatchContract, RecordAudit, CanRun, Accepting,
         tables, tally, locals
<1>5. doc' = doc \/ \E d : doc' = [doc EXCEPT ![c] = d]
  BY DEF ClientStep, CheckCreate, EmbedCreate, InsertCreate, PatchContract, RecordAudit, locals
<1>6. hit' = hit \/ \E h : hit' = [hit EXCEPT ![c] = h]
  BY DEF ClientStep, CheckCreate, EmbedCreate, InsertCreate, PatchContract, RecordAudit, Fail, locals
<1>7. \A u \in Tasks : u # c => doc'[u] = doc[u] /\ hit'[u] = hit[u]
  BY <1>5, <1>6, TaskTypes
<1> QED  BY <1>3, <1>4, <1>7 DEF OneTask

\* Every step of a source, of the enrichment and of a client writes the table in
\* one of these ways or not at all.
LEMMA SyncWrites ==
    ASSUME IType, NEW s \in Sources, SyncStep(s)
    PROVE  /\ UNCHANGED contracts \/ Overwrites(s) \/ (Inserts(s) /\ hit[s] = None /\ hit'[s] = nextId)
           /\ nextId' \in {nextId, nextId + 1} /\ UNCHANGED audits
           /\ parents \subseteq parents' /\ events \subseteq events'
<1>1. CASE SaveContract(s)
  <2>1. doc[s] \in Docs /\ ref[s] \in [Kinds -> Nat \cup {None}] /\ s \notin Clients /\ pc[s] = "save"
    BY <1>1, TaskSets DEF SaveContract, IType, LocalsBound, TypeOK
  <2>2. UNCHANGED audits
    BY <1>1 DEF SaveContract
  <2>3. CASE /\ hit[s] # None
             /\ contracts' = {IF c.id = hit[s] THEN Overwritten(c, doc[s], ref[s]) ELSE c : c \in contracts}
             /\ UNCHANGED <<parents, events, nextId, hit, ref, rejected>>
    BY <2>1, <2>2, <2>3 DEF Overwrites
  <2>4. CASE /\ hit[s] = None /\ UseNextId
             /\ contracts' = contracts \cup {NewRow(nextId, doc[s], ref[s])}
             /\ hit' = [hit EXCEPT ![s] = nextId]
             /\ UNCHANGED <<parents, events, ref, rejected>>
    BY <2>1, <2>2, <2>4, TaskTypes, TaskSets DEF Inserts, UseNextId
  <2>5. CASE Reject(s)
    BY <2>2, <2>5 DEF Reject, tables
  <2> QED  BY <1>1, <2>3, <2>4, <2>5 DEF SaveContract
<1>2. CASE ~SaveContract(s)
  BY <1>2 DEF SyncStep, StartSync, PickDoc, EndSync, FindParent, AddParent, SelectContract, EmbedDoc,
         FindEvent, AddEvent, StatementFails, Reject, Accept, UseNextId, tables, locals
<1> QED  BY <1>1, <1>2

LEMMA UsaWrites ==
    ASSUME IType, UsaStep
    PROVE  UNCHANGED contracts \/ (EnrichContract /\ Enriches)
<1>1. CASE EnrichContract
  <2>1. snap \in Row
    BY <1>1 DEF EnrichContract, IType, LocalsBound
  <2> QED  BY <1>1, <2>1 DEF EnrichContract, Enriches
<1>2. CASE StartUsa \/ FetchAward
  BY <1>2 DEF StartUsa, FetchAward, tables
<1> QED  BY <1>1, <1>2 DEF UsaStep

LEMMA ClientWrites ==
    ASSUME IType, NEW c \in Clients, ClientStep(c)
    PROVE  /\ \/ UNCHANGED contracts
              \/ Inserts(c) /\ hit'[c] = nextId /\ pc'[c] = "audit"
              \/ pc[c] = "idle" /\ Patches(c)
           /\ nextId' \in {nextId, nextId + 1}
<1>1. c \in Tasks
  BY TaskSets
<1>2. CASE InsertCreate(c)
  <2>1. doc[c] \in Docs /\ NoRef \in [Kinds -> Nat \cup {None}] /\ pc[c] = "save" /\ UNCHANGED <<parents, audits>>
    BY <1>2, TaskSets, NoRefType DEF InsertCreate, IType, LocalsBound
  <2>2. CASE /\ UseNextId /\ Committed(c)
             /\ contracts' = contracts \cup {NewRow(nextId, doc[c], NoRef)}
             /\ hit' = [hit EXCEPT ![c] = nextId]
    <3>1. hit'[c] = nextId /\ pc'[c] = "audit"
      BY <1>1, <2>2, TaskTypes, GotoMoves DEF Committed
    <3> QED  BY <2>1, <2>2, <3>1 DEF Inserts, UseNextId
  <2>3. CASE UNCHANGED <<contracts, nextId, hit>>
    BY <2>3
  <2> QED  BY <1>2, <2>2, <2>3 DEF InsertCreate
<1>3. CASE PatchContract(c)
  <2>1. pc[c] = "idle" /\ UNCHANGED <<parents, nextId, audits>>
    BY <1>3 DEF PatchContract, Accepting
  <2>2. PICK row \in contracts, fields \in SUBSET {"synced", "kept"} :
          /\ contracts' = (contracts \ {row}) \cup {[row EXCEPT !.edits = @ \cup fields]}
          /\ hit' = [hit EXCEPT ![c] = row.id]
    BY <1>3 DEF PatchContract
  <2>3. hit'[c] = row.id /\ pc'[c] = "audit"
    BY <1>1, <1>3, <2>2, TaskTypes, GotoMoves DEF PatchContract, Committed
  <2> QED  BY <2>1, <2>2, <2>3 DEF Patches
<1>4. CASE CheckCreate(c) \/ EmbedCreate(c) \/ RecordAudit(c)
  BY <1>4 DEF CheckCreate, EmbedCreate, RecordAudit, tables
<1> QED  BY <1>2, <1>3, <1>4 DEF ClientStep

\* A coroutine's step: its own locals, one write of the table of contracts at
\* most, and nothing taken out of the tables.
TableWrite(t) ==
    \/ UNCHANGED contracts /\ nextId' \in {nextId, nextId + 1}
    \/ Overwrites(t) \/ Inserts(t) \/ Patches(t) \/ Enriches

TaskStep(t) ==
    /\ t \in Tasks /\ OneTask(t) /\ TableWrite(t)
    /\ t = "usa" => UNCHANGED contracts \/ Enriches
    /\ parents \subseteq parents' /\ events \subseteq events'
    /\ nextId <= nextId'

LEMMA StepIsTaskStep ==
    ASSUME IType
    PROVE  /\ \A s \in Sources : SyncStep(s) => TaskStep(s)
           /\ UsaStep => TaskStep("usa")
           /\ \A c \in Clients : ClientStep(c) => TaskStep(c)
<1>0. nextId \in Nat
  BY TaskTypes
<1>1. ASSUME NEW s \in Sources, SyncStep(s) PROVE TaskStep(s)
  BY <1>0, <1>1, SyncOneTask, SyncWrites, TaskSets DEF TaskStep, TableWrite, Overwrites, Inserts
<1>2. ASSUME UsaStep PROVE TaskStep("usa")
  BY <1>0, <1>2, UsaOneTask, UsaWrites, TaskSets DEF TaskStep, TableWrite
<1>3. ASSUME NEW c \in Clients, ClientStep(c) PROVE TaskStep(c)
  BY <1>0, <1>3, ClientOneTask, ClientWrites, TaskSets DEF TaskStep, TableWrite, Inserts, Patches
<1> QED  BY <1>1, <1>2, <1>3

\* What each write leaves of a row.
LEMMA OverwrittenFields ==
    ASSUME NEW c \in Row, NEW d \in Docs, NEW r \in [Kinds -> Nat \cup {None}]
    PROVE  /\ Overwritten(c, d, r).id = c.id /\ Overwritten(c, d, r).piid = c.piid
           /\ Overwritten(c, d, r).cols = d /\ Overwritten(c, d, r).raw = RawOf(d)
           /\ Overwritten(c, d, r).ref = r /\ Overwritten(c, d, r).edits = c.edits \ {"synced"}
  BY DEF Overwritten, Row

LEMMA EnrichedFields ==
    ASSUME NEW c \in Row
    PROVE  /\ Enriched(c).id = c.id /\ Enriched(c).piid = c.piid /\ Enriched(c).cols = c.cols
           /\ Enriched(c).raw = snap.raw /\ Enriched(c).ref = c.ref /\ Enriched(c).edits = c.edits
  BY DEF Enriched, Row

LEMMA PatchedFields ==
    ASSUME NEW c \in Row, NEW F
    PROVE  LET o == [c EXCEPT !.edits = @ \cup F]
           IN  /\ o.id = c.id /\ o.piid = c.piid /\ o.cols = c.cols /\ o.raw = c.raw /\ o.ref = c.ref
               /\ o.edits = c.edits \cup F
  BY DEF Row

LEMMA NewFields ==
    ASSUME NEW d \in Docs, NEW r \in [Kinds -> Nat \cup {None}], NEW id \in Nat
    PROVE  /\ NewRow(id, d, r).id = id /\ NewRow(id, d, r).piid = d.piid /\ NewRow(id, d, r).cols = d
           /\ NewRow(id, d, r).raw = RawOf(d) /\ NewRow(id, d, r).ref = r /\ NewRow(id, d, r).edits = {}
  BY DEF NewRow

\* Rows before and after a step: every row lives on under its id and PIID, and
\* every row there is was there before or is the one just inserted.
RowsLive == \A c \in contracts : \E d \in contracts' : d.id = c.id /\ d.piid = c.piid

RowsFrom(t) ==
    \A d \in contracts' :
        \/ d.id = nextId /\ Inserts(t)
        \/ \E c \in contracts : d.id = c.id /\ d.piid = c.piid

LEMMA RowsStep ==
    ASSUME IType, IdsInv, NEW t, TaskStep(t)
    PROVE  RowsLive /\ RowsFrom(t) /\ IdsInv'
<1>0. contracts \subseteq Row /\ nextId \in Nat
  BY TaskTypes
<1>1. CASE UNCHANGED contracts /\ nextId' \in {nextId, nextId + 1}
  BY <1>0, <1>1 DEF RowsLive, RowsFrom, IdsInv, Row
<1>2. CASE Overwrites(t)
  <2> DEFINE new(c) == IF c.id = hit[t] THEN Overwritten(c, doc[t], ref[t]) ELSE c
  <2>1. contracts' = {new(c) : c \in contracts} /\ UNCHANGED nextId
        /\ doc[t] \in Docs /\ ref[t] \in [Kinds -> Nat \cup {None}]
    BY <1>2 DEF Overwrites
  <2>2. \A c \in contracts : new(c).id = c.id /\ new(c).piid = c.piid
    BY <1>0, <2>1, OverwrittenFields
  <2> HIDE DEF new
  <2> QED  BY <2>1, <2>2 DEF RowsLive, RowsFrom, IdsInv
<1>3. CASE Inserts(t)
  <2>1. PICK r \in [Kinds -> Nat \cup {None}] : contracts' = contracts \cup {NewRow(nextId, doc[t], r)}
    BY <1>3 DEF Inserts
  <2>2. doc[t] \in Docs /\ NewRow(nextId, doc[t], r).id = nextId
    BY <1>0, <1>3, NewFields DEF Inserts
  <2>3. \A c \in contracts : c.id \in Nat
    BY <1>0 DEF Row
  <2>4. RowsLive /\ RowsFrom(t)
    BY <1>3, <2>1, <2>2 DEF RowsLive, RowsFrom
  <2>5. nextId' = nextId + 1
    BY <1>3 DEF Inserts
  <2>6. \A c \in contracts' : c.id < nextId'
    BY <1>0, <2>1, <2>2, <2>3, <2>5 DEF IdsInv
  <2>7. \A c1, c2 \in contracts' : c1.id = c2.id => c1 = c2
    BY <1>0, <2>1, <2>2, <2>3 DEF IdsInv
  <2> QED  BY <2>4, <2>6, <2>7 DEF IdsInv
<1>4. CASE Patches(t)
  <2>1. PICK row \in contracts, fields \in SUBSET {"synced", "kept"} :
          contracts' = (contracts \ {row}) \cup {[row EXCEPT !.edits = @ \cup fields]}
    BY <1>4 DEF Patches
  <2> DEFINE new == [row EXCEPT !.edits = @ \cup fields]
  <2>2. new.id = row.id /\ new.piid = row.piid
    BY <1>0, PatchedFields
  <2>3. contracts' = (contracts \ {row}) \cup {new} /\ UNCHANGED nextId
    BY <1>4, <2>1 DEF Patches
  <2> HIDE DEF new
  <2> QED  BY <2>2, <2>3 DEF RowsLive, RowsFrom, IdsInv
<1>5. CASE Enriches
  <2> DEFINE new(c) == IF c.id = snap.id THEN Enriched(c) ELSE c
  <2>1. contracts' = {new(c) : c \in contracts} /\ UNCHANGED nextId
    BY <1>5 DEF Enriches
  <2>2. \A c \in contracts : new(c).id = c.id /\ new(c).piid = c.piid
    BY <1>0, EnrichedFields
  <2> HIDE DEF new
  <2> QED  BY <2>1, <2>2 DEF RowsLive, RowsFrom, IdsInv
<1> QED  BY <1>1, <1>2, <1>3, <1>4, <1>5 DEF TaskStep, TableWrite

\* The seed: in Postgres only, one row more, nobody's local variables touched.
LEMMA SeedFrame ==
    ASSUME IType, IdsInv, Seed
    PROVE  /\ Postgres /\ UNCHANGED <<events, audits, turn, pc, locals, tally>>
           /\ contracts \subseteq contracts' /\ parents \subseteq parents'
           /\ \A d \in contracts' \ contracts : d.id = nextId /\ d.cols.src = "seed"
           /\ \A c \in contracts : c.id # nextId
           /\ IdsInv'
<1>0. contracts \subseteq Row /\ nextId \in Nat
  BY TaskTypes
<1>1. \A c \in contracts : c.id # nextId /\ c.id \in Nat
  BY <1>0 DEF Row, IdsInv
<1>2. CASE SeedContract
  <2>1. PICK d \in DocsOf("seed") : contracts' = contracts \cup {NewRow(nextId, d, NoRef)}
    BY <1>2 DEF SeedContract
  <2> DEFINE new == NewRow(nextId, d, NoRef)
  <2>2. new.id = nextId /\ new.cols.src = "seed"
    BY <1>0, NewFields, NoRefType DEF DocsOf
  <2>3. contracts' = contracts \cup {new} /\ nextId' = nextId + 1
    BY <1>2, <2>1 DEF SeedContract, UseNextId
  <2> HIDE DEF new
  <2>4. IdsInv'
    BY <1>0, <1>1, <2>2, <2>3 DEF IdsInv
  <2> QED  BY <1>1, <1>2, <2>2, <2>3, <2>4 DEF SeedContract
<1>3. ASSUME NEW k \in Kinds, SeedParent(k)
      PROVE  /\ Postgres /\ UNCHANGED <<contracts, events, audits, turn, pc, locals, tally>>
             /\ parents \subseteq parents' /\ nextId' = nextId + 1
  BY <1>3 DEF SeedParent, UseNextId
<1>4. ASSUME UNCHANGED contracts, nextId' = nextId + 1 PROVE IdsInv'
  BY <1>0, <1>1, <1>4 DEF IdsInv
<1> QED  BY <1>1, <1>2, <1>3, <1>4 DEF Seed

\* Edits nobody but a person makes outlive every write.
KeptEdits ==
    \A c \in contracts : "kept" \in c.edits => \A d \in contracts' : d.id = c.id => "kept" \in d.edits

LEMMA KeptStep ==
    ASSUME IType, IdsInv, NEW t, TaskStep(t)
    PROVE  KeptEdits
<1>0. contracts \subseteq Row /\ nextId \in Nat /\ \A c1, c2 \in contracts : c1.id = c2.id => c1 = c2
  BY TaskTypes DEF IdsInv
<1>1. CASE UNCHANGED contracts
  BY <1>0, <1>1 DEF KeptEdits
<1>2. CASE Overwrites(t)
  <2> DEFINE new(c) == IF c.id = hit[t] THEN Overwritten(c, doc[t], ref[t]) ELSE c
  <2>1. /\ contracts' = {new(c) : c \in contracts}
        /\ doc[t] \in Docs /\ ref[t] \in [Kinds -> Nat \cup {None}]
    BY <1>2 DEF Overwrites
  <2>2. \A c \in contracts : new(c).id = c.id /\ ("kept" \in c.edits => "kept" \in new(c).edits)
    BY <1>0, <2>1, OverwrittenFields
  <2> HIDE DEF new
  <2> QED  BY <1>0, <2>1, <2>2 DEF KeptEdits
<1>3. CASE Inserts(t)
  <2>1. PICK r \in [Kinds -> Nat \cup {None}] : contracts' = contracts \cup {NewRow(nextId, doc[t], r)}
    BY <1>3 DEF Inserts
  <2>2. doc[t] \in Docs /\ NewRow(nextId, doc[t], r).id = nextId
    BY <1>0, <1>3, NewFields DEF Inserts
  <2>3. \A c \in contracts : c.id # nextId
    BY <1>0 DEF Row, IdsInv
  <2> QED  BY <1>0, <2>1, <2>2, <2>3 DEF KeptEdits
<1>4. CASE Patches(t)
  <2>1. PICK row \in contracts, fields \in SUBSET {"synced", "kept"} :
          contracts' = (contracts \ {row}) \cup {[row EXCEPT !.edits = @ \cup fields]}
    BY <1>4 DEF Patches
  <2> DEFINE new == [row EXCEPT !.edits = @ \cup fields]
  <2>2. new.id = row.id /\ new.edits = row.edits \cup fields
    BY <1>0, PatchedFields
  <2>3. contracts' = (contracts \ {row}) \cup {new}
    BY <2>1
  <2> HIDE DEF new
  <2> QED  BY <1>0, <2>2, <2>3 DEF KeptEdits
<1>5. CASE Enriches
  <2> DEFINE new(c) == IF c.id = snap.id THEN Enriched(c) ELSE c
  <2>1. contracts' = {new(c) : c \in contracts}
    BY <1>5 DEF Enriches
  <2>2. \A c \in contracts : new(c).id = c.id /\ new(c).edits = c.edits
    BY <1>0, EnrichedFields
  <2> HIDE DEF new
  <2> QED  BY <1>0, <2>1, <2>2 DEF KeptEdits
<1> QED  BY <1>1, <1>2, <1>3, <1>4, <1>5 DEF TaskStep, TableWrite

-----------------------------------------------------------------------------
(* Documents and row ids held across an await.                             *)

LEMMA DocsStep ==
    ASSUME IType, DocsInv, [Next]_vars
    PROVE  DocsInv'
<1>0. pc \in [Tasks -> Labels] /\ doc \in [Tasks -> Docs \cup {None}] /\ todo \in [Sources -> SUBSET Docs]
  BY TaskTypes
<1>1. ASSUME NEW s \in Sources, SyncStep(s)
      PROVE  todo'[s] \subseteq DocsOf(s) /\ (pc'[s] \notin {"idle", "next"} => doc'[s] \in DocsOf(s))
  <2>1. s \in Tasks
    BY TaskSets
  <2>2. CASE StartSync(s)
    <3>1. pc'[s] = "next"
      BY <2>1, <2>2, GotoMoves DEF StartSync
    <3> QED  BY <1>0, <2>2, <3>1 DEF StartSync
  <2>3. CASE PickDoc(s)
    <3>1. PICK d \in todo[s] : todo' = [todo EXCEPT ![s] = @ \ {d}] /\ doc' = [doc EXCEPT ![s] = d]
      BY <2>3 DEF PickDoc
    <3> QED  BY <1>0, <2>1, <3>1 DEF DocsInv
  <2>4. CASE ~StartSync(s) /\ ~PickDoc(s)
    <3>1. UNCHANGED <<todo, doc>>
      BY <1>1, <2>4 DEF SyncStep, EndSync, FindParent, AddParent, SelectContract, EmbedDoc,
         SaveContract, FindEvent, AddEvent, StatementFails, locals
    <3>2. pc'[s] \notin {"idle", "next"} => pc[s] \notin {"idle", "next"}
      <4>1. CASE EndSync(s)
        BY <2>1, <4>1, GotoMoves DEF EndSync
      <4> QED  BY <1>1, <2>4, <4>1 DEF SyncStep, FindParent, AddParent, SelectContract, EmbedDoc,
         SaveContract, FindEvent, AddEvent, StatementFails, FindLabel, AddLabel, DbLabels
    <3> QED  BY <3>1, <3>2 DEF DocsInv
  <2> QED  BY <2>2, <2>3, <2>4
<1>2. ASSUME NEW s \in Sources, SyncStep(s) PROVE DocsInv'
  BY <1>1, <1>2, SyncOneTask, TaskSets DEF OneTask, DocsInv
<1>3. ASSUME UsaStep PROVE DocsInv'
  BY <1>3, UsaOneTask, TaskSets DEF OneTask, DocsInv
<1>4. ASSUME NEW c \in Clients, ClientStep(c) PROVE DocsInv'
  <2>1. c \in Tasks
    BY TaskSets
  <2>2. pc'[c] \in {"embed", "save"} => doc'[c] \in DocsOf("api")
    <3>1. CASE CheckCreate(c)
      <4>1. PICK d \in DocsOf("api") :
              \/ Goto(c, "run", "idle") /\ UNCHANGED doc
              \/ Goto(c, "db", "embed") /\ doc' = [doc EXCEPT ![c] = d]
        BY <3>1 DEF CheckCreate
      <4>2. CASE Goto(c, "run", "idle")
        BY <2>1, <4>2, GotoMoves
      <4>3. CASE doc' = [doc EXCEPT ![c] = d]
        BY <1>0, <2>1, <4>3
      <4> QED  BY <4>1, <4>2, <4>3
    <3>2. CASE EmbedCreate(c)
      BY <3>2 DEF EmbedCreate, locals, DocsInv
    <3>3. CASE InsertCreate(c)
      BY <2>1, <3>3, GotoMoves DEF InsertCreate, Committed, Fail
    <3>4. CASE PatchContract(c)
      BY <2>1, <3>4, GotoMoves DEF PatchContract, Committed
    <3>5. CASE RecordAudit(c)
      BY <2>1, <3>5, GotoMoves DEF RecordAudit
    <3> QED  BY <1>4, <3>1, <3>2, <3>3, <3>4, <3>5 DEF ClientStep
  <2> QED  BY <1>4, <2>2, ClientOneTask, TaskSets DEF OneTask, DocsInv
<1>5. ASSUME Crash PROVE DocsInv'
  BY <1>5, TaskSets DEF Crash, DocsInv
<1>6. ASSUME UNCHANGED vars PROVE DocsInv'
  BY <1>6 DEF vars, locals, DocsInv
<1>7. ASSUME Seed PROVE DocsInv'
  BY <1>7 DEF Seed, SeedContract, SeedParent, locals, DocsInv
<1> QED  BY <1>2, <1>3, <1>4, <1>5, <1>6, <1>7 DEF Next, Terminated

LEMMA RowOfKept ==
    ASSUME NEW id, NEW p, RowOf(id, p), RowsLive
    PROVE  RowOf(id, p)'
  BY DEF RowOf, RowsLive

HitOf(s) ==
    \/ pc[s] \in {"embed", "save"} /\ hit[s] # None
    \/ pc[s] \in {"find_event", "add_event"}
    => RowOf(hit[s], doc[s].piid)

LEMMA HitSync ==
    ASSUME IType, IdsInv, NEW s \in Sources, HitOf(s), SyncStep(s)
    PROVE  HitOf(s)'
<1>0. s \in Tasks /\ hit \in [Tasks -> Nat \cup {None}] /\ nextId \in Nat /\ RowsLive
  BY TaskTypes, TaskSets, StepIsTaskStep, RowsStep
<1>1. CASE SelectContract(s)
  <2>1. UNCHANGED <<contracts, doc>> /\ pc'[s] = "embed"
    BY <1>0, <1>1, GotoMoves DEF SelectContract, tables
  <2>2. \/ \E c \in contracts : c.piid = doc[s].piid /\ hit'[s] = c.id
        \/ hit'[s] = None
    BY <1>0, <1>1 DEF SelectContract, WithPiid
  <2> QED  BY <2>1, <2>2 DEF HitOf, RowOf
<1>2. CASE EmbedDoc(s)
  <2>1. UNCHANGED <<contracts, doc, hit>> /\ pc[s] = "embed" /\ pc'[s] \in {"save", "next"}
    BY <1>0, <1>2, GotoMoves DEF EmbedDoc, Reject, tables
  <2> QED  BY <2>1 DEF HitOf, RowOf
<1>3. CASE SaveContract(s)
  <2>1. UNCHANGED doc /\ pc[s] = "save"
    BY <1>3 DEF SaveContract
  <2>2. CASE hit[s] # None /\ UNCHANGED hit
    <3>1. RowOf(hit[s], doc[s].piid)'
      BY <1>0, <2>1, <2>2, RowOfKept DEF HitOf
    <3> QED  BY <3>1 DEF HitOf
  <2>3. CASE Inserts(s) /\ hit'[s] = nextId
    <3>1. PICK r \in [Kinds -> Nat \cup {None}] : contracts' = contracts \cup {NewRow(nextId, doc[s], r)}
      BY <2>3 DEF Inserts
    <3>2. doc[s] \in Docs
      BY <2>3 DEF Inserts
    <3>3. NewRow(nextId, doc[s], r).id = nextId /\ NewRow(nextId, doc[s], r).piid = doc[s].piid
      BY <1>0, <3>2, NewFields
    <3>4. RowOf(hit[s], doc[s].piid)'
      BY <2>1, <2>3, <3>1, <3>3 DEF RowOf
    <3> QED  BY <3>4 DEF HitOf
  <2>4. CASE Reject(s)
    <3>1. pc'[s] = "next"
      BY <1>0, <2>4, GotoMoves DEF Reject
    <3> QED  BY <3>1 DEF HitOf
  <2>5. SyncStep(s)
    BY <1>3 DEF SyncStep
  <2>6. hit[s] = None => (Inserts(s) /\ hit'[s] = nextId) \/ Reject(s)
    <3>1. ASSUME hit[s] = None, ~Reject(s) PROVE Inserts(s) /\ hit'[s] = nextId
      <4>1. UseNextId /\ hit' = [hit EXCEPT ![s] = nextId] /\ contracts' = contracts \cup {NewRow(nextId, doc[s], ref[s])}
        BY <1>3, <3>1 DEF SaveContract
      <4>2. UNCHANGED <<parents, audits>>
        BY <1>3, <3>1 DEF SaveContract
      <4>3. doc[s] \in Docs /\ ref[s] \in [Kinds -> Nat \cup {None}] /\ s \notin Clients
        BY <1>3, TaskSets DEF SaveContract, IType, LocalsBound, TypeOK
      <4> QED  BY <1>0, <2>1, <4>1, <4>2, <4>3 DEF Inserts, UseNextId
    <3> QED  BY <3>1
  <2>7. hit[s] # None => UNCHANGED hit
    BY <1>3 DEF SaveContract, Reject
  <2> QED  BY <2>2, <2>3, <2>4, <2>6, <2>7
<1>4. CASE FindEvent(s)
  <2>1. UNCHANGED <<contracts, doc, hit>> /\ pc[s] = "find_event" /\ pc'[s] \in {"next", "add_event"}
    BY <1>0, <1>4, GotoMoves DEF FindEvent, Accept, tables, locals
  <2> QED  BY <2>1 DEF HitOf, RowOf
<1>5. CASE \/ StartSync(s) \/ PickDoc(s) \/ EndSync(s) \/ AddEvent(s) \/ StatementFails(s)
           \/ \E k \in Kinds : FindParent(s, k) \/ AddParent(s, k)
  <2>1. \E op, l : Goto(s, op, l) /\ l \notin {"embed", "save", "find_event", "add_event"}
    BY <1>5, NextLabels DEF StartSync, PickDoc, EndSync, AddEvent, StatementFails, FindParent, AddParent,
       Reject, Accept, AddLabel, FindLabel
  <2>2. pc'[s] \notin {"embed", "save", "find_event", "add_event"}
    BY <1>0, <2>1, GotoMoves
  <2> QED  BY <2>2 DEF HitOf
<1> QED  BY <1>1, <1>2, <1>3, <1>4, <1>5 DEF SyncStep

LEMMA HitStep ==
    ASSUME IType, IdsInv, HitInv, [Next]_vars
    PROVE  HitInv'
<1>1. /\ \A s \in Sources : HitOf(s)
      /\ \A c \in Clients : pc[c] = "audit" => \E r \in contracts : r.id = hit[c]
  BY DEF HitInv, HitOf
<1>2. ASSUME NEW t, TaskStep(t)
      PROVE  /\ \A s \in Sources : s # t => HitOf(s)'
             /\ \A c \in Clients : c # t => (pc[c] = "audit" => \E r \in contracts : r.id = hit[c])'
  <2>1. RowsLive
    BY <1>2, RowsStep
  <2>2. ASSUME NEW s \in Sources, s # t PROVE HitOf(s)'
    BY <1>1, <1>2, <2>1, <2>2, TaskSets DEF TaskStep, OneTask, HitOf, RowOf, RowsLive
  <2>3. ASSUME NEW c \in Clients, c # t, pc'[c] = "audit" PROVE \E r \in contracts' : r.id = hit'[c]
    BY <1>1, <1>2, <2>1, <2>3, TaskSets DEF TaskStep, OneTask, RowsLive
  <2> QED  BY <2>2, <2>3
<1>3. ASSUME NEW s \in Sources, SyncStep(s) PROVE HitInv'
  <2>1. HitOf(s)' /\ TaskStep(s)
    BY <1>1, <1>3, HitSync, StepIsTaskStep
  <2> QED  BY <1>2, <2>1, TaskSets DEF HitInv, HitOf
<1>4. ASSUME UsaStep PROVE HitInv'
  BY <1>2, <1>4, StepIsTaskStep, TaskSets DEF HitInv, HitOf
<1>5. ASSUME NEW c \in Clients, ClientStep(c) PROVE HitInv'
  <2>0. c \in Tasks /\ TaskStep(c) /\ RowsLive
    BY <1>5, TaskSets, StepIsTaskStep, RowsStep
  <2>1. ASSUME pc'[c] = "audit" PROVE \E r \in contracts' : r.id = hit'[c]
    <3>1. CASE InsertCreate(c)
      <4>1. Inserts(c) /\ hit'[c] = nextId
        <5>1. InsertCreate(c) => \/ UseNextId /\ Committed(c)
                                 \/ Fail(c)
          BY DEF InsertCreate
        <5>2. ~Fail(c)
          BY <2>0, <2>1, GotoMoves DEF Fail
        <5>3. /\ contracts' = contracts \cup {NewRow(nextId, doc[c], NoRef)}
              /\ hit' = [hit EXCEPT ![c] = nextId] /\ UseNextId
          BY <3>1, <5>2 DEF InsertCreate
        <5>4. doc[c] \in Docs /\ pc[c] = "save" /\ UNCHANGED <<parents, audits>>
          BY <3>1, TaskSets DEF InsertCreate, IType, LocalsBound
        <5> QED  BY <2>0, <5>3, <5>4, NoRefType, TaskTypes DEF Inserts, UseNextId
      <4>2. PICK r \in [Kinds -> Nat \cup {None}] : contracts' = contracts \cup {NewRow(nextId, doc[c], r)}
        BY <4>1 DEF Inserts
      <4>3. doc[c] \in Docs
        BY <4>1 DEF Inserts
      <4>4. NewRow(nextId, doc[c], r).id = nextId
        BY <4>3, NewFields, TaskTypes
      <4> QED  BY <4>1, <4>2, <4>4
    <3>2. CASE PatchContract(c)
      <4>1. PICK row \in contracts : hit' = [hit EXCEPT ![c] = row.id]
        BY <3>2 DEF PatchContract
      <4>2. hit'[c] = row.id
        BY <2>0, <4>1, TaskTypes
      <4> QED  BY <2>0, <4>2 DEF RowsLive
    <3>3. CASE CheckCreate(c)
      BY <2>0, <2>1, <3>3, GotoMoves DEF CheckCreate
    <3>4. CASE EmbedCreate(c)
      BY <2>0, <2>1, <3>4, GotoMoves DEF EmbedCreate, Fail
    <3>5. CASE RecordAudit(c)
      BY <2>0, <2>1, <3>5, GotoMoves DEF RecordAudit
    <3> QED  BY <1>5, <3>1, <3>2, <3>3, <3>4, <3>5 DEF ClientStep
  <2> QED  BY <1>2, <2>0, <2>1, TaskSets DEF HitInv, HitOf
<1>6. ASSUME Crash PROVE HitInv'
  BY <1>6, TaskSets DEF Crash, HitInv
<1>7. ASSUME UNCHANGED vars PROVE HitInv'
  BY <1>7 DEF vars, locals, tables, HitInv, RowOf
<1>8. ASSUME Seed PROVE HitInv'
  BY <1>8, SeedFrame DEF locals, HitInv, RowOf
<1> QED  BY <1>3, <1>4, <1>5, <1>6, <1>7, <1>8 DEF Next, Terminated

-----------------------------------------------------------------------------
(* Agencies, vendors and events: one row per key.                          *)

\* In memory a select that found nothing keeps the loop, so nobody else steps.
LEMMA Alone ==
    ASSUME NEW t, OneTask(t), NEW u \in Tasks, turn = u
    PROVE  u = t
  BY ConstantsAssumption DEF OneTask, CanRun

LEMMA AddLabels ==
    /\ AddLabel("agency") = "add_agency" /\ AddLabel("vendor") = "add_vendor"
    /\ FindLabel("agency") = "find_agency" /\ FindLabel("vendor") = "find_vendor"
  BY DEF AddLabel, FindLabel

\* A vendor without a UEI is inserted with a NULL key.
LEMMA NextAdds ==
    ASSUME NEW d \in Docs, NEW k \in Kinds
    PROVE  /\ FirstStep(d) = AddLabel(k) => ParentKey(k, d) = None
           /\ \A j \in Kinds : AfterParent(j, d) = AddLabel(k) => ParentKey(k, d) = None
  BY AddLabels DEF FirstStep, AfterParent, AfterAgency, ParentKey, Kinds

KeyFree(s, k) ==
    turn = s /\ (ParentKey(k, doc[s]) # None => ParentsWith(k, ParentKey(k, doc[s])) = {})

ParentAlone(s) == \A k \in Kinds : pc[s] = AddLabel(k) => KeyFree(s, k)

LEMMA ParentSync ==
    ASSUME IType, DocsInv, ~Postgres, NEW s \in Sources, SyncStep(s)
    PROVE  ParentAlone(s)'
<1>0. s \in Tasks /\ doc \in [Tasks -> Docs \cup {None}]
  BY TaskTypes, TaskSets
<1>1. SUFFICES ASSUME NEW k \in Kinds, pc'[s] = AddLabel(k)
               PROVE  KeyFree(s, k)'
  BY DEF ParentAlone
<1>2. AddLabel(k) \in {"add_agency", "add_vendor"}
  BY DEF AddLabel
<1>3. CASE PickDoc(s)
  <2>1. PICK d \in todo[s] :
          /\ doc' = [doc EXCEPT ![s] = d]
          /\ Goto(s, "run", "next") \/ Goto(s, "run", FirstStep(d))
    BY <1>3 DEF PickDoc
  <2>2. d \in Docs /\ doc'[s] = d
    BY <1>0, <2>1, TaskTypes
  <2>3. Goto(s, "run", FirstStep(d)) /\ FirstStep(d) = AddLabel(k)
    BY <1>0, <1>1, <1>2, <2>1, GotoMoves
  <2>4. turn' = s
    BY <2>3, <1>2 DEF Goto, Suspends
  <2> QED  BY <2>2, <2>3, <2>4, NextAdds DEF KeyFree
<1>4. ASSUME NEW j \in Kinds, FindParent(s, j)
      PROVE  KeyFree(s, k)'
  <2>1. doc[s] \in Docs /\ UNCHANGED <<doc, parents>>
    BY <1>4, TaskSets DEF FindParent, FindLabel, IType, LocalsBound, tables
  <2>2. CASE Goto(s, "db", AfterParent(j, doc[s]))
    <3>1. AfterParent(j, doc[s]) = AddLabel(k)
      BY <1>0, <1>1, <2>2, GotoMoves
    <3>2. turn' = s
      BY <1>2, <2>2, <3>1 DEF Goto, Suspends
    <3> QED  BY <2>1, <3>1, <3>2, NextAdds DEF KeyFree
  <2>3. CASE ParentsWith(j, ParentKey(j, doc[s])) = {} /\ Goto(s, "db", AddLabel(j))
    <3>1. AddLabel(j) = AddLabel(k)
      BY <1>0, <1>1, <2>3, GotoMoves
    <3>2. j = k
      BY <3>1 DEF AddLabel, Kinds
    <3>3. turn' = s
      BY <1>2, <2>3, <3>2 DEF Goto, Suspends
    <3> QED  BY <2>1, <2>3, <3>2, <3>3 DEF ParentsWith, KeyFree
  <2> QED  BY <1>4, <2>2, <2>3 DEF FindParent
<1>5. ASSUME NEW j \in Kinds, AddParent(s, j)
      PROVE  KeyFree(s, k)'
  <2>1. doc[s] \in Docs /\ UNCHANGED doc
    BY <1>5, TaskSets DEF AddParent, AddLabel, IType, LocalsBound
  <2>2. Goto(s, "db", AfterParent(j, doc[s])) \/ Goto(s, "run", "next")
    BY <1>5 DEF AddParent, Reject
  <2>3. Goto(s, "db", AfterParent(j, doc[s])) /\ AfterParent(j, doc[s]) = AddLabel(k)
    BY <1>0, <1>1, <1>2, <2>2, GotoMoves
  <2>4. turn' = s
    BY <1>2, <2>3 DEF Goto, Suspends
  <2> QED  BY <2>1, <2>3, <2>4, NextAdds DEF KeyFree
<1>6. CASE \/ StartSync(s) \/ EndSync(s) \/ SelectContract(s) \/ EmbedDoc(s) \/ SaveContract(s)
           \/ FindEvent(s) \/ AddEvent(s) \/ StatementFails(s)
  <2>1. \E op, l : Goto(s, op, l) /\ l \notin {"add_agency", "add_vendor"}
    BY <1>6, NextLabels DEF StartSync, EndSync, SelectContract, EmbedDoc, SaveContract, Saved,
       FindEvent, AddEvent, StatementFails, Reject, Accept
  <2> QED  BY <1>0, <1>1, <1>2, <2>1, GotoMoves
<1> QED  BY <1>1, <1>3, <1>4, <1>5, <1>6 DEF SyncStep

LEMMA ParentStep ==
    ASSUME IType, DocsInv, ParentLoop, ParentKeysUnique, [Next]_vars
    PROVE  ParentLoop' /\ ParentKeysUnique'
<1>0. ~Postgres => \A s \in Sources : ParentAlone(s)
  BY DEF ParentLoop, ParentAlone, KeyFree
<1>1. ASSUME NEW t, TaskStep(t), t \in Sources => (~Postgres => ParentAlone(t)')
      PROVE  ParentLoop'
  <2>1. ASSUME ~Postgres, NEW s \in Sources PROVE ParentAlone(s)'
    <3>1. CASE s = t
      BY <1>1, <2>1, <3>1
    <3>2. CASE s # t
      BY <1>0, <1>1, <2>1, <3>2, Alone, TaskSets DEF TaskStep, OneTask, ParentAlone, KeyFree
    <3> QED  BY <3>1, <3>2
  <2> QED  BY <2>1 DEF ParentLoop, ParentAlone, KeyFree
<1>2. ASSUME NEW s \in Sources, SyncStep(s) PROVE ParentLoop' /\ ParentKeysUnique'
  <2>1. ParentLoop'
    BY <1>1, <1>2, ParentSync, StepIsTaskStep
  <2>2. ASSUME NEW k \in Kinds, AddParent(s, k) PROVE ParentKeysUnique'
    <3> DEFINE key == ParentKey(k, doc[s])
               new == [id |-> nextId, kind |-> k, key |-> key]
    <3>1. CASE UNCHANGED parents
      BY <3>1 DEF ParentKeysUnique
    <3>2. CASE ~ParentConflict(k, key) /\ parents' = parents \cup {new}
      <4>1. key # None => ParentsWith(k, key) = {}
        BY <1>0, <2>2, <3>2 DEF ParentConflict, ParentAlone, KeyFree, AddParent
      <4>2. \A p \in parents : key # None => ~(p.kind = k /\ p.key = key)
        BY <4>1 DEF ParentsWith
      <4>3. new.kind = k /\ new.key = key
        OBVIOUS
      <4> HIDE DEF new
      <4> HIDE DEF key
      <4> QED  BY <3>2, <4>2, <4>3 DEF ParentKeysUnique
    <3> QED  BY <2>2, <3>1, <3>2 DEF AddParent, Reject, tables
  <2>3. CASE \A k \in Kinds : ~AddParent(s, k)
    <3>1. UNCHANGED parents
      BY <1>2, <2>3 DEF SyncStep, StartSync, PickDoc, EndSync, FindParent, SelectContract, EmbedDoc,
         SaveContract, FindEvent, AddEvent, StatementFails, Reject, tables
    <3> QED  BY <2>1, <3>1 DEF ParentKeysUnique
  <2> QED  BY <2>1, <2>2, <2>3
<1>3. ASSUME UsaStep PROVE ParentLoop' /\ ParentKeysUnique'
  BY <1>1, <1>3, UsaOneTask, StepIsTaskStep, TaskSets DEF ParentKeysUnique
<1>4. ASSUME NEW c \in Clients, ClientStep(c) PROVE ParentLoop' /\ ParentKeysUnique'
  BY <1>1, <1>4, ClientOneTask, StepIsTaskStep, TaskSets DEF ParentKeysUnique
<1>5. ASSUME Crash PROVE ParentLoop' /\ ParentKeysUnique'
  BY <1>5, TaskSets DEF Crash, tables, ParentLoop, ParentKeysUnique, AddLabel
<1>6. ASSUME UNCHANGED vars PROVE ParentLoop' /\ ParentKeysUnique'
  BY <1>6 DEF vars, locals, tables, ParentLoop, ParentKeysUnique, ParentsWith
<1>7. ASSUME Seed PROVE ParentLoop' /\ ParentKeysUnique'
  <2>1. ParentLoop'
    BY <1>7 DEF Seed, SeedContract, SeedParent, ParentLoop
  <2>2. ASSUME NEW k \in Kinds, SeedParent(k) PROVE ParentKeysUnique'
    <3>1. PICK d \in DocsOf("seed") :
            /\ ~ParentConflict(k, ParentKey(k, d))
            /\ parents' = parents \cup {[id |-> nextId, kind |-> k, key |-> ParentKey(k, d)]}
      BY <2>2 DEF SeedParent
    <3> DEFINE key == ParentKey(k, d)
               new == [id |-> nextId, kind |-> k, key |-> key]
    <3>2. \A p \in parents : key # None => ~(p.kind = k /\ p.key = key)
      BY <2>2, <3>1 DEF ParentConflict, ParentsWith, SeedParent
    <3>3. new.kind = k /\ new.key = key /\ parents' = parents \cup {new}
      BY <3>1
    <3> HIDE DEF new
    <3> HIDE DEF key
    <3> QED  BY <3>2, <3>3 DEF ParentKeysUnique
  <2>3. CASE SeedContract
    BY <2>1, <2>3 DEF SeedContract, ParentKeysUnique
  <2> QED  BY <1>7, <2>1, <2>2, <2>3 DEF Seed
<1> QED  BY <1>2, <1>3, <1>4, <1>5, <1>6, <1>7 DEF Next, Terminated

EventAlone(s) ==
    pc[s] = "add_event" => turn = s /\ (doc[s].notice # None => EventsOf(doc[s].notice) = {})

LEMMA EventSync ==
    ASSUME IType, ~Postgres, NEW s \in Sources, SyncStep(s)
    PROVE  EventAlone(s)'
<1>0. s \in Tasks
  BY TaskSets
<1>1. CASE SaveContract(s)
  <2>1. UNCHANGED doc
    BY <1>1 DEF SaveContract
  <2>2. \/ Goto(s, "db", EventLabel(doc[s]))
        \/ \E op : Goto(s, op, "next")
    BY <1>1 DEF SaveContract, Saved, Accept, Reject
  <2>3. CASE Goto(s, "db", EventLabel(doc[s]))
    <3>1. pc'[s] = "add_event" => doc[s].notice = None
      BY <1>0, <2>3, GotoMoves DEF EventLabel
    <3>2. turn' = s
      BY <2>3 DEF Goto, Suspends, EventLabel
    <3> QED  BY <2>1, <3>1, <3>2 DEF EventAlone
  <2>4. CASE \E op : Goto(s, op, "next")
    BY <1>0, <2>4, GotoMoves DEF EventAlone
  <2> QED  BY <2>2, <2>3, <2>4
<1>2. CASE FindEvent(s)
  <2>1. UNCHANGED <<doc, events>>
    BY <1>2 DEF FindEvent, tables, locals
  <2>2. CASE EventsOf(doc[s].notice) = {} /\ Goto(s, "db", "add_event")
    <3>1. turn' = s
      BY <2>2 DEF Goto, Suspends
    <3> QED  BY <2>1, <2>2, <3>1 DEF EventAlone, EventsOf
  <2>3. CASE Goto(s, "db", "next")
    BY <1>0, <2>3, GotoMoves DEF EventAlone
  <2> QED  BY <1>2, <2>2, <2>3 DEF FindEvent, Accept
<1>3. CASE \/ StartSync(s) \/ EndSync(s) \/ SelectContract(s) \/ EmbedDoc(s) \/ PickDoc(s)
           \/ AddEvent(s) \/ StatementFails(s)
           \/ \E k \in Kinds : FindParent(s, k) \/ AddParent(s, k)
  <2>1. \E op, l : Goto(s, op, l) /\ l # "add_event"
    BY <1>3, NextLabels DEF StartSync, EndSync, SelectContract, EmbedDoc, PickDoc,
       FindParent, AddParent, AddEvent, StatementFails, Reject, Accept, AddLabel
  <2> QED  BY <1>0, <2>1, GotoMoves DEF EventAlone
<1> QED  BY <1>1, <1>2, <1>3 DEF SyncStep

LEMMA EventStep ==
    ASSUME IType, EventLoop, OneEventPerNotice, [Next]_vars
    PROVE  EventLoop' /\ OneEventPerNotice'
<1>0. ~Postgres => \A s \in Sources : EventAlone(s)
  BY DEF EventLoop, EventAlone
<1>1. ASSUME NEW t, TaskStep(t), t \in Sources => (~Postgres => EventAlone(t)')
      PROVE  EventLoop'
  <2>1. ASSUME ~Postgres, NEW s \in Sources PROVE EventAlone(s)'
    <3>1. CASE s = t
      BY <1>1, <2>1, <3>1
    <3>2. CASE s # t
      BY <1>0, <1>1, <2>1, <3>2, Alone, TaskSets DEF TaskStep, OneTask, EventAlone
    <3> QED  BY <3>1, <3>2
  <2> QED  BY <2>1 DEF EventLoop, EventAlone
<1>2. ASSUME NEW s \in Sources, SyncStep(s) PROVE EventLoop' /\ OneEventPerNotice'
  <2>1. EventLoop'
    BY <1>1, <1>2, EventSync, StepIsTaskStep
  <2>2. CASE AddEvent(s)
    <3> DEFINE n == doc[s].notice
               new == [id |-> nextId, notice |-> n, contract |-> hit[s]]
    <3>1. CASE UNCHANGED events
      BY <2>1, <3>1 DEF OneEventPerNotice
    <3>2. CASE BindsObjects /\ events' = events \cup {new}
      <4>1. n # None => EventsOf(n) = {}
        BY <1>0, <2>2, <3>2 DEF BindsObjects, EventAlone, AddEvent
      <4>2. \A e \in events : n # None => e.notice # n
        BY <4>1 DEF EventsOf
      <4>3. new.notice = n
        OBVIOUS
      <4> HIDE DEF new
      <4> HIDE DEF n
      <4> QED  BY <2>1, <3>2, <4>2, <4>3 DEF OneEventPerNotice
    <3> QED  BY <2>2, <3>1, <3>2 DEF AddEvent, Reject, tables
  <2>3. CASE ~AddEvent(s)
    <3>1. UNCHANGED events
      BY <1>2, <2>3 DEF SyncStep, StartSync, PickDoc, EndSync, FindParent, AddParent, SelectContract, EmbedDoc,
         SaveContract, FindEvent, StatementFails, Reject, tables
    <3> QED  BY <2>1, <3>1 DEF OneEventPerNotice
  <2> QED  BY <2>2, <2>3
<1>3. ASSUME UsaStep PROVE EventLoop' /\ OneEventPerNotice'
  BY <1>1, <1>3, UsaOneTask, StepIsTaskStep, TaskSets DEF OneEventPerNotice
<1>4. ASSUME NEW c \in Clients, ClientStep(c) PROVE EventLoop' /\ OneEventPerNotice'
  BY <1>1, <1>4, ClientOneTask, StepIsTaskStep, TaskSets DEF OneEventPerNotice
<1>5. ASSUME Crash PROVE EventLoop' /\ OneEventPerNotice'
  BY <1>5, TaskSets DEF Crash, tables, EventLoop, OneEventPerNotice
<1>6. ASSUME UNCHANGED vars PROVE EventLoop' /\ OneEventPerNotice'
  BY <1>6 DEF vars, locals, tables, EventLoop, OneEventPerNotice, EventsOf
<1>7. ASSUME Seed PROVE EventLoop' /\ OneEventPerNotice'
  BY <1>7 DEF Seed, SeedContract, SeedParent, EventLoop, OneEventPerNotice
<1> QED  BY <1>2, <1>3, <1>4, <1>5, <1>6, <1>7 DEF Next, Terminated

-----------------------------------------------------------------------------
(* Rows point to the agency and the vendor their document names.           *)

LinkOf(s) ==
    /\ pc[s] \in {"find_agency", "add_agency"} => ref[s] = NoRef /\ doc[s].agency # None
    /\ pc[s] \in {"find_vendor", "add_vendor"} =>
        Linked("agency", doc[s], ref[s]) /\ ref[s].vendor = None /\ doc[s].vendor # None
    /\ pc[s] \in {"find_contract", "embed", "save"} => \A k \in Kinds : Linked(k, doc[s], ref[s])

\* The id of the parent that document d names for k has been noted.
LEMMA LinkNoted ==
    ASSUME IType, NEW s \in Sources, NEW k \in Kinds, LinkOf(s), doc[s] \in Docs,
           pc[s] \in {FindLabel(k), AddLabel(k)}, UNCHANGED doc, parents \subseteq parents',
           pc'[s] = AfterParent(k, doc[s]),
           NEW p \in parents', p.kind = k, p.key = ParentKey(k, doc[s]),
           ref' = [ref EXCEPT ![s][k] = p.id]
    PROVE  LinkOf(s)'
<1>0. ref[s] \in [Kinds -> Nat \cup {None}] /\ ref' = [ref EXCEPT ![s] = [ref[s] EXCEPT ![k] = p.id]]
      /\ ref \in [Sources -> [Kinds -> Nat \cup {None}]]
  BY TaskTypes
<1>1. ref'[s][k] = p.id /\ \A j \in Kinds : j # k => ref'[s][j] = ref[s][j]
  BY <1>0
<1>2. doc'[s][k] # None => Linked(k, doc[s], ref[s])'
  BY <1>1 DEF Linked, ParentKey
<1>3. CASE k = "agency"
  <2>1. ref[s] = NoRef /\ doc[s].agency # None
    BY <1>3, AddLabels DEF LinkOf
  <2>2. Linked("agency", doc[s], ref[s])' /\ ref'[s].vendor = None
    BY <1>1, <1>2, <1>3, <2>1 DEF NoRef, Kinds
  <2>3. pc'[s] = "find_contract" => doc[s].vendor = None
    BY <1>3 DEF AfterParent, AfterAgency
  <2>4. pc'[s] \in {"find_vendor", "add_vendor"} => doc[s].vendor # None
    BY <1>3 DEF AfterParent, AfterAgency
  <2>5. pc'[s] \in {"find_vendor", "add_vendor", "find_contract"}
    BY NextLabels
  <2>6. doc[s].vendor = None => Linked("vendor", doc[s], ref[s])'
    BY <2>2 DEF Linked
  <2> QED  BY <2>2, <2>3, <2>4, <2>5, <2>6 DEF LinkOf, Kinds
<1>4. CASE k = "vendor"
  <2>1. Linked("agency", doc[s], ref[s]) /\ doc[s].vendor # None
    BY <1>4, AddLabels DEF LinkOf
  <2>2. ref'[s].agency = ref[s].agency
    BY <1>1, <1>4 DEF Kinds
  <2>3. Linked("agency", doc[s], ref[s])'
    BY <2>1, <2>2 DEF Linked, ParentKey
  <2>4. Linked("vendor", doc[s], ref[s])'
    BY <1>2, <1>4, <2>1
  <2>5. pc'[s] = "find_contract"
    BY <1>4 DEF AfterParent
  <2> QED  BY <2>3, <2>4, <2>5 DEF LinkOf, Kinds
<1> QED  BY <1>3, <1>4 DEF Kinds

LEMMA LinkSync ==
    ASSUME IType, NEW s \in Sources, LinkOf(s), SyncStep(s)
    PROVE  LinkOf(s)'
<1>0. s \in Tasks /\ doc \in [Tasks -> Docs \cup {None}] /\ ref \in [Sources -> [Kinds -> Nat \cup {None}]]
  BY TaskTypes, TaskSets
<1>1. CASE PickDoc(s)
  <2>1. PICK d \in todo[s] :
          /\ doc' = [doc EXCEPT ![s] = d]
          /\ ref' = [ref EXCEPT ![s] = NoRef]
          /\ Goto(s, "run", "next") \/ Goto(s, "run", FirstStep(d))
    BY <1>1 DEF PickDoc, StartRefs
  <2>2. doc'[s] = d /\ ref'[s] = NoRef
    BY <1>0, <2>1
  <2>3. CASE Goto(s, "run", "next")
    BY <1>0, <2>3, GotoMoves DEF LinkOf
  <2>4. CASE Goto(s, "run", FirstStep(d))
    <3>1. pc'[s] = FirstStep(d)
      BY <1>0, <2>4, GotoMoves
    <3>2. CASE d.agency # None
      BY <2>2, <3>1, <3>2 DEF FirstStep, LinkOf
    <3>3. CASE d.agency = None
      <4>1. Linked("agency", doc[s], ref[s])' /\ ref'[s].vendor = None
        BY <2>2, <3>3 DEF Linked, NoRef, Kinds
      <4>2. pc'[s] = AfterAgency(d)
        BY <3>1, <3>3 DEF FirstStep
      <4>3. CASE d.vendor = None
        <5>1. Linked("vendor", doc[s], ref[s])'
          BY <2>2, <4>1, <4>3 DEF Linked
        <5> QED  BY <4>1, <4>2, <4>3, <5>1 DEF AfterAgency, LinkOf, Kinds
      <4>4. CASE d.vendor # None
        BY <2>2, <4>1, <4>2, <4>4 DEF AfterAgency, LinkOf
      <4> QED  BY <4>3, <4>4
    <3> QED  BY <3>2, <3>3
  <2> QED  BY <2>1, <2>3, <2>4
<1>2. ASSUME NEW k \in Kinds, FindParent(s, k) PROVE LinkOf(s)'
  <2>1. doc[s] \in Docs /\ UNCHANGED <<doc, parents>> /\ pc[s] = FindLabel(k)
    BY <1>2, TaskSets DEF FindParent, FindLabel, IType, LocalsBound, tables
  <2>2. CASE \E p \in ParentsWith(k, ParentKey(k, doc[s])) :
               ref' = [ref EXCEPT ![s][k] = p.id] /\ Goto(s, "db", AfterParent(k, doc[s]))
    <3>1. PICK p \in ParentsWith(k, ParentKey(k, doc[s])) :
               ref' = [ref EXCEPT ![s][k] = p.id] /\ Goto(s, "db", AfterParent(k, doc[s]))
      BY <2>2
    <3>2. p \in parents' /\ p.kind = k /\ p.key = ParentKey(k, doc[s])
      BY <2>1 DEF ParentsWith
    <3>3. pc'[s] = AfterParent(k, doc[s])
      BY <1>0, <3>1, GotoMoves
    <3> QED  BY <2>1, <3>1, <3>2, <3>3, LinkNoted
  <2>3. CASE Goto(s, "db", AddLabel(k)) /\ UNCHANGED ref
    <3>1. pc'[s] = AddLabel(k)
      BY <1>0, <2>3, GotoMoves
    <3> QED  BY <2>1, <2>3, <3>1 DEF LinkOf, Linked, ParentKey, FindLabel, AddLabel, Kinds
  <2> QED  BY <1>2, <2>2, <2>3 DEF FindParent
<1>3. ASSUME NEW k \in Kinds, AddParent(s, k) PROVE LinkOf(s)'
  <2>1. doc[s] \in Docs /\ UNCHANGED doc /\ pc[s] = AddLabel(k)
    BY <1>3, TaskSets DEF AddParent, AddLabel, IType, LocalsBound
  <2>2. CASE Reject(s)
    BY <1>0, <2>2, GotoMoves DEF LinkOf, Reject
  <2> DEFINE new == [id |-> nextId, kind |-> k, key |-> ParentKey(k, doc[s])]
  <2>3. CASE /\ parents' = parents \cup {new}
             /\ ref' = [ref EXCEPT ![s][k] = nextId]
             /\ Goto(s, "db", AfterParent(k, doc[s]))
    <3>1. new.id = nextId /\ new.kind = k /\ new.key = ParentKey(k, doc[s])
      OBVIOUS
    <3>2. pc'[s] = AfterParent(k, doc[s])
      BY <1>0, <2>3, GotoMoves
    <3> HIDE DEF new
    <3>3. new \in parents' /\ parents \subseteq parents' /\ ref' = [ref EXCEPT ![s][k] = new.id]
      BY <2>3, <3>1
    <3> QED  BY <2>1, <3>1, <3>2, <3>3, LinkNoted
  <2> QED  BY <1>3, <2>2, <2>3 DEF AddParent
<1>4. CASE SelectContract(s) \/ EmbedDoc(s)
  <2>1. UNCHANGED <<doc, ref, parents>> /\ pc[s] \in {"find_contract", "embed"}
    BY <1>4 DEF SelectContract, EmbedDoc, Reject, tables
  <2>2. pc'[s] \in {"embed", "save", "next"}
    BY <1>0, <1>4, GotoMoves DEF SelectContract, EmbedDoc, Reject
  <2> QED  BY <2>1, <2>2 DEF LinkOf, Linked, ParentKey
<1>5. CASE \/ StartSync(s) \/ EndSync(s) \/ SaveContract(s)
           \/ FindEvent(s) \/ AddEvent(s) \/ StatementFails(s)
  <2>1. \E op : \E l \in {"idle", "next", "find_event", "add_event"} : Goto(s, op, l)
    BY <1>5, NextLabels DEF StartSync, EndSync, SaveContract, Saved, FindEvent, AddEvent,
       StatementFails, Reject, Accept
  <2> QED  BY <1>0, <2>1, GotoMoves DEF LinkOf
<1> QED  BY <1>1, <1>2, <1>3, <1>4, <1>5 DEF SyncStep

LEMMA LinksStep ==
    ASSUME IType, IdsInv, LinksInv, [Next]_vars
    PROVE  LinksInv'
<1>0. \A s \in Sources : LinkOf(s)
  BY DEF LinksInv, LinkOf
<1>1. ASSUME NEW t, TaskStep(t), t \in Sources => LinkOf(t)'
      PROVE  LinksInv'
  <2>1. ASSUME NEW s \in Sources, s # t PROVE LinkOf(s)'
    BY <1>0, <1>1, <2>1, TaskSets DEF TaskStep, OneTask, LinkOf, Linked, ParentKey
  <2> QED  BY <1>1, <2>1 DEF LinksInv, LinkOf
<1>2. ASSUME Crash PROVE LinksInv'
  BY <1>2, TaskSets DEF Crash, LinksInv
<1>3. ASSUME UNCHANGED vars PROVE LinksInv'
  BY <1>3 DEF vars, locals, tables, LinksInv, Linked, ParentKey
<1>4. ASSUME Seed PROVE LinksInv'
  BY <1>4, SeedFrame DEF locals, LinksInv, Linked, ParentKey
<1> QED  BY <1>0, <1>1, <1>2, <1>3, <1>4, LinkSync, StepIsTaskStep, TaskSets DEF Next, Terminated

RowLinked(c) ==
    c.cols.src \in Sources => \A k \in Kinds : "synced" \notin c.edits => Linked(k, c.cols, c.ref)

LEMMA RowLinkedIs == LinksMatchDocument <=> \A c \in contracts : RowLinked(c)
  BY DEF LinksMatchDocument, RowLinked, Linked

\* The document written by the INSERT or UPDATE of t, and the links it writes.
LEMMA SourceWrite ==
    ASSUME IType, DocsInv, LinksInv, NEW s \in Sources, pc[s] = "save"
    PROVE  /\ doc[s] \in Docs /\ doc[s].src = s /\ doc[s].src # "api" /\ s \notin Clients
           /\ \A k \in Kinds : Linked(k, doc[s], ref[s])
<1>1. doc[s] \in DocsOf(s)
  BY DEF DocsInv
<1> QED  BY <1>1, TaskSets DEF DocsOf, LinksInv, Sources

\* Where a row of the table after a step comes from: it was there with the same
\* columns and links, or coroutine t just wrote its document.
KeptRow(c, d) ==
    /\ d.id = c.id /\ d.cols = c.cols /\ d.ref = c.ref /\ c.edits \subseteq d.edits
    /\ d.raw = c.raw \/ (Enriches /\ c.id = snap.id /\ d.raw = snap.raw)

WrittenRow(t, d) ==
    /\ t # "usa" /\ pc[t] = "save" /\ doc[t] \in Docs /\ d.cols = doc[t] /\ d.raw = RawOf(doc[t])
    /\ t \in Sources => d.ref = ref[t]
    /\ Overwrites(t) \/ (Inserts(t) /\ d.id = nextId)

LEMMA RowOrigin ==
    ASSUME IType, NEW t, TaskStep(t), NEW d \in contracts'
    PROVE  WrittenRow(t, d) \/ \E c \in contracts : KeptRow(c, d)
<1>0. contracts \subseteq Row /\ nextId \in Nat
  BY TaskTypes
<1>1. CASE UNCHANGED contracts
  BY <1>1 DEF KeptRow
<1>2. CASE Overwrites(t) /\ t # "usa"
  <2>1. /\ doc[t] \in Docs /\ ref[t] \in [Kinds -> Nat \cup {None}] /\ pc[t] = "save"
    BY <1>2 DEF Overwrites
  <2>2. PICK c \in contracts : d = IF c.id = hit[t] THEN Overwritten(c, doc[t], ref[t]) ELSE c
    BY <1>2 DEF Overwrites
  <2>3. CASE c.id = hit[t]
    <3>1. d.cols = doc[t] /\ d.raw = RawOf(doc[t]) /\ d.ref = ref[t]
      BY <1>0, <2>1, <2>2, <2>3, OverwrittenFields
    <3> QED  BY <1>2, <2>1, <3>1 DEF WrittenRow
  <2>4. CASE c.id # hit[t]
    BY <2>2, <2>4 DEF KeptRow
  <2> QED  BY <2>3, <2>4
<1>3. CASE Inserts(t) /\ t # "usa"
  <2>1. PICK r \in [Kinds -> Nat \cup {None}] :
            /\ r = IF t \in Clients THEN NoRef ELSE ref[t]
            /\ contracts' = contracts \cup {NewRow(nextId, doc[t], r)}
    BY <1>3 DEF Inserts
  <2>2. doc[t] \in Docs /\ pc[t] = "save"
    BY <1>3 DEF Inserts
  <2>3. CASE d \in contracts
    BY <2>3 DEF KeptRow
  <2>4. CASE d = NewRow(nextId, doc[t], r)
    <3>1. d.id = nextId /\ d.cols = doc[t] /\ d.raw = RawOf(doc[t]) /\ d.ref = r
      BY <1>0, <2>2, <2>4, NewFields
    <3>2. t \in Sources => r = ref[t]
      BY <2>1, TaskSets
    <3> QED  BY <1>3, <2>2, <3>1, <3>2 DEF WrittenRow
  <2> QED  BY <2>1, <2>3, <2>4
<1>4. CASE Patches(t)
  <2>1. PICK row \in contracts, fields \in SUBSET {"synced", "kept"} :
          contracts' = (contracts \ {row}) \cup {[row EXCEPT !.edits = @ \cup fields]}
    BY <1>4 DEF Patches
  <2>2. CASE d \in contracts
    BY <2>2 DEF KeptRow
  <2>3. CASE d = [row EXCEPT !.edits = @ \cup fields]
    <3>1. d.id = row.id /\ d.cols = row.cols /\ d.ref = row.ref /\ d.raw = row.raw /\ d.edits = row.edits \cup fields
      BY <1>0, <2>3, PatchedFields
    <3> QED  BY <3>1 DEF KeptRow
  <2> QED  BY <2>1, <2>2, <2>3
<1>5. CASE Enriches
  <2>1. PICK c \in contracts : d = IF c.id = snap.id THEN Enriched(c) ELSE c
    BY <1>5 DEF Enriches
  <2>2. CASE c.id = snap.id
    <3>1. d.id = c.id /\ d.cols = c.cols /\ d.ref = c.ref /\ d.raw = snap.raw /\ d.edits = c.edits
      BY <1>0, <2>1, <2>2, EnrichedFields
    <3> QED  BY <1>5, <2>2, <3>1 DEF KeptRow
  <2>3. CASE c.id # snap.id
    BY <2>1, <2>3 DEF KeptRow
  <2> QED  BY <2>2, <2>3
<1> QED  BY <1>1, <1>2, <1>3, <1>4, <1>5 DEF TaskStep, TableWrite

\* A client writes a body of the API.
LEMMA ClientWrite ==
    ASSUME IType, DocsInv, NEW c \in Clients, pc[c] = "save"
    PROVE  doc[c] \in Docs /\ doc[c].src = "api"
  BY DEF DocsInv, DocsOf

LEMMA LinksMatchStep ==
    ASSUME IType, IdsInv, DocsInv, LinksInv, LinksMatchDocument, [Next]_vars
    PROVE  LinksMatchDocument'
<1>1. ASSUME NEW t, TaskStep(t), NEW d \in contracts' PROVE RowLinked(d)'
  <2>1. parents \subseteq parents'
    BY <1>1 DEF TaskStep
  <2>2. ASSUME NEW c \in contracts, KeptRow(c, d) PROVE RowLinked(d)'
    BY <2>1, <2>2, RowLinkedIs DEF KeptRow, RowLinked, Linked, ParentKey
  <2>3. ASSUME t \in Sources, WrittenRow(t, d) PROVE RowLinked(d)'
    <3>1. \A k \in Kinds : Linked(k, d.cols, d.ref)
      BY <2>3, SourceWrite DEF WrittenRow
    <3> QED  BY <2>1, <3>1 DEF RowLinked, Linked, ParentKey
  <2>4. ASSUME t \in Clients, WrittenRow(t, d) PROVE RowLinked(d)'
    BY <2>4, ClientWrite DEF WrittenRow, RowLinked, Sources
  <2>5. WrittenRow(t, d) => t \in Sources \cup Clients
    BY <1>1 DEF TaskStep, WrittenRow, Tasks, Ingestors
  <2> QED  BY <1>1, <2>2, <2>3, <2>4, <2>5, RowOrigin
<1>2. ASSUME NEW t, TaskStep(t) PROVE LinksMatchDocument'
  <2>1. (\A c \in contracts : RowLinked(c))'
    BY <1>1, <1>2
  <2> QED  BY <2>1 DEF LinksMatchDocument, RowLinked, Linked
<1>3. ASSUME Crash PROVE LinksMatchDocument'
  BY <1>3 DEF Crash, tables, LinksMatchDocument, ParentKey
<1>4. ASSUME UNCHANGED vars PROVE LinksMatchDocument'
  BY <1>4 DEF vars, tables, LinksMatchDocument, ParentKey
<1>5. ASSUME Seed PROVE LinksMatchDocument'
  <2>1. \A d \in contracts' : d.cols.src \in Sources => d \in contracts
    BY <1>5, SeedFrame DEF Sources
  <2>2. ASSUME NEW d \in contracts' PROVE RowLinked(d)'
    BY <1>5, <2>1, <2>2, SeedFrame, RowLinkedIs DEF RowLinked, Linked, ParentKey
  <2>3. (\A c \in contracts : RowLinked(c))'
    BY <2>2
  <2> QED  BY <2>3 DEF LinksMatchDocument, RowLinked, Linked
<1> QED  BY <1>2, <1>3, <1>4, <1>5, StepIsTaskStep DEF Next, Terminated

-----------------------------------------------------------------------------
(* Events, and the documents a run counts as stored.                       *)

LEMMA EventContractStep ==
    ASSUME IType, IdsInv, HitInv, EventOnItsContract, [Next]_vars
    PROVE  EventOnItsContract'
<1>1. ASSUME NEW t, TaskStep(t), UNCHANGED events PROVE EventOnItsContract'
  BY <1>1, RowsStep DEF EventOnItsContract, RowsLive
<1>2. ASSUME NEW s \in Sources, SyncStep(s) PROVE EventOnItsContract'
  <2>1. TaskStep(s)
    BY <1>2, StepIsTaskStep
  <2>2. CASE AddEvent(s)
    <3> DEFINE new == [id |-> nextId, notice |-> doc[s].notice, contract |-> hit[s]]
    <3>1. CASE UNCHANGED events
      BY <1>1, <2>1, <3>1
    <3>2. CASE events' = events \cup {new} /\ UNCHANGED contracts
      <4>1. doc[s] \in Docs /\ RowOf(hit[s], doc[s].piid)
        BY <2>2, TaskSets DEF AddEvent, IType, LocalsBound, HitInv
      <4>2. new.notice = doc[s].notice /\ new.contract = hit[s]
        OBVIOUS
      <4> HIDE DEF new
      <4> QED  BY <3>2, <4>1, <4>2 DEF EventOnItsContract, RowOf
    <3> QED  BY <2>2, <3>1, <3>2 DEF AddEvent, Reject, tables
  <2>3. CASE ~AddEvent(s)
    <3>1. UNCHANGED events
      BY <1>2, <2>3 DEF SyncStep, StartSync, PickDoc, EndSync, FindParent, AddParent, SelectContract, EmbedDoc,
         SaveContract, FindEvent, StatementFails, Reject, tables
    <3> QED  BY <1>1, <2>1, <3>1
  <2> QED  BY <2>2, <2>3
<1>3. ASSUME UsaStep PROVE EventOnItsContract'
  BY <1>1, <1>3, UsaOneTask, StepIsTaskStep
<1>4. ASSUME NEW c \in Clients, ClientStep(c) PROVE EventOnItsContract'
  BY <1>1, <1>4, ClientOneTask, StepIsTaskStep
<1>5. ASSUME Crash PROVE EventOnItsContract'
  BY <1>5 DEF Crash, tables, EventOnItsContract
<1>6. ASSUME UNCHANGED vars PROVE EventOnItsContract'
  BY <1>6 DEF vars, tables, EventOnItsContract
<1>7. ASSUME Seed PROVE EventOnItsContract'
  BY <1>7, SeedFrame DEF EventOnItsContract
<1> QED  BY <1>2, <1>3, <1>4, <1>5, <1>6, <1>7 DEF Next, Terminated

\* d is in the database, and so is its event if one is due.
Present(d) ==
    /\ WithPiid(d.piid) # {}
    /\ HasEvent(d) /\ d.notice # None => EventsOf(d.notice) # {}

\* What Accept notes is in the database.
LEMMA AcceptedIsPresent ==
    ASSUME IType, IdsInv, HitInv, NEW s \in Sources, SyncStep(s), stored'[s] # stored[s]
    PROVE  /\ stored'[s] = stored[s] \cup {doc[s]} /\ UNCHANGED doc
           /\ Present(doc[s])'
<1>0. stored \in [Sources -> SUBSET Docs] /\ s \in Tasks /\ RowsLive
  BY TaskTypes, TaskSets, StepIsTaskStep, RowsStep
<1>1. CASE SaveContract(s)
  <2>1. doc[s] \in Docs /\ TaskStep(s)
    BY <1>1, TaskSets, StepIsTaskStep DEF SaveContract, IType, LocalsBound, SyncStep
  <2>2. ~HasEvent(doc[s]) /\ Accept(s)
    BY <1>1 DEF SaveContract, Saved, Reject
  <2>3. RowOf(hit[s], doc[s].piid) \/ Inserts(s)
    <3>1. hit[s] # None => RowOf(hit[s], doc[s].piid)
      BY <1>1 DEF SaveContract, HitInv
    <3>2. ASSUME hit[s] = None PROVE Inserts(s)
      <4>1. UseNextId /\ contracts' = contracts \cup {NewRow(nextId, doc[s], ref[s])} /\ UNCHANGED <<parents, audits>>
        BY <1>1, <3>2, <2>2 DEF SaveContract, Accept, Reject
      <4>2. ref[s] \in [Kinds -> Nat \cup {None}] /\ s \notin Clients /\ pc[s] = "save"
        BY <1>1, TaskSets, TaskTypes DEF SaveContract
      <4> QED  BY <2>1, <4>1, <4>2 DEF Inserts, UseNextId
    <3> QED  BY <3>1, <3>2
  <2>4. WithPiid(doc[s].piid)' # {}
    <3>1. CASE RowOf(hit[s], doc[s].piid)
      <4>1. UNCHANGED doc
        BY <1>1 DEF SaveContract
      <4> QED  BY <1>0, <3>1, <4>1 DEF RowOf, RowsLive, WithPiid
    <3>2. CASE Inserts(s)
      <4>1. PICK r \in [Kinds -> Nat \cup {None}] : contracts' = contracts \cup {NewRow(nextId, doc[s], r)}
        BY <3>2 DEF Inserts
      <4>2. NewRow(nextId, doc[s], r).piid = doc[s].piid
        BY <2>1, NewFields, TaskTypes
      <4>3. UNCHANGED doc
        BY <1>1 DEF SaveContract
      <4> QED  BY <4>1, <4>2, <4>3 DEF WithPiid
    <3> QED  BY <2>3, <3>1, <3>2
  <2>5. UNCHANGED doc
    BY <1>1 DEF SaveContract
  <2> QED  BY <1>0, <2>1, <2>2, <2>4, <2>5 DEF Present, Accept, HasEvent
<1>2. CASE FindEvent(s)
  <2>1. doc[s] \in Docs /\ RowOf(hit[s], doc[s].piid) /\ UNCHANGED <<contracts, events, doc>>
    BY <1>2, TaskSets DEF FindEvent, IType, LocalsBound, HitInv, tables, locals
  <2>2. EventsOf(doc[s].notice) # {} /\ Accept(s)
    BY <1>2 DEF FindEvent
  <2> QED  BY <1>0, <2>1, <2>2 DEF Present, Accept, WithPiid, EventsOf, RowOf, HasEvent
<1>3. CASE AddEvent(s)
  <2>1. doc[s] \in Docs /\ RowOf(hit[s], doc[s].piid) /\ UNCHANGED doc
    BY <1>3, TaskSets DEF AddEvent, IType, LocalsBound, HitInv
  <2> DEFINE new == [id |-> nextId, notice |-> doc[s].notice, contract |-> hit[s]]
  <2>2. Accept(s) /\ events' = events \cup {new} /\ UNCHANGED contracts
    BY <1>3 DEF AddEvent, Reject
  <2>3. new.notice = doc[s].notice
    OBVIOUS
  <2> HIDE DEF new
  <2> QED  BY <1>0, <2>1, <2>2, <2>3 DEF Present, Accept, WithPiid, EventsOf, RowOf, HasEvent
<1>4. CASE ~SaveContract(s) /\ ~FindEvent(s) /\ ~AddEvent(s)
  BY <1>4 DEF SyncStep, StartSync, PickDoc, EndSync, FindParent, AddParent, SelectContract, EmbedDoc,
     StatementFails, Reject, tally
<1> QED  BY <1>1, <1>2, <1>3, <1>4

LEMMA StoredStep ==
    ASSUME IType, IdsInv, HitInv, StoredIsPresent, [Next]_vars
    PROVE  StoredIsPresent'
<1>0. \A s \in Sources : \A d \in stored[s] : Present(d)
  BY DEF StoredIsPresent, Present
<1>1. ASSUME NEW t, TaskStep(t), NEW d, Present(d) PROVE Present(d)'
  BY <1>1, RowsStep DEF TaskStep, Present, WithPiid, EventsOf, RowsLive, HasEvent
<1>2. ASSUME NEW t, TaskStep(t), NEW s \in Sources, NEW d \in stored'[s], SyncStep(s) \/ stored'[s] = stored[s]
      PROVE  Present(d)'
  <2>1. CASE d \in stored[s]
    BY <1>0, <1>1, <1>2, <2>1
  <2>2. CASE d \notin stored[s]
    <3>1. d = doc'[s] /\ Present(doc[s])'
      BY <1>2, <2>2, AcceptedIsPresent
    <3> QED  BY <3>1 DEF Present, WithPiid, EventsOf, HasEvent
  <2> QED  BY <2>1, <2>2
<1>3. ASSUME NEW s \in Sources, SyncStep(s) PROVE StoredIsPresent'
  <2>1. TaskStep(s) /\ \A u \in Sources : SyncStep(u) \/ u = s \/ stored'[u] = stored[u]
    BY <1>3, StepIsTaskStep, SyncOneTask DEF OneTask
  <2>2. \A u \in Sources : \A d \in stored'[u] : Present(d)'
    BY <1>2, <1>3, <2>1
  <2> QED  BY <2>2 DEF StoredIsPresent, Present
<1>4. ASSUME UsaStep PROVE StoredIsPresent'
  <2>1. \A u \in Sources : \A d \in stored'[u] : Present(d)'
    BY <1>2, <1>4, StepIsTaskStep, UsaOneTask
  <2> QED  BY <2>1 DEF StoredIsPresent, Present
<1>5. ASSUME NEW c \in Clients, ClientStep(c) PROVE StoredIsPresent'
  <2>1. \A u \in Sources : \A d \in stored'[u] : Present(d)'
    BY <1>2, <1>5, StepIsTaskStep, ClientOneTask
  <2> QED  BY <2>1 DEF StoredIsPresent, Present
<1>6. ASSUME Crash PROVE StoredIsPresent'
  BY <1>6 DEF Crash, tables, StoredIsPresent, WithPiid, EventsOf, HasEvent
<1>7. ASSUME UNCHANGED vars PROVE StoredIsPresent'
  BY <1>7 DEF vars, tables, tally, StoredIsPresent, WithPiid, EventsOf, HasEvent
<1>8. ASSUME Seed PROVE StoredIsPresent'
  <2>1. UNCHANGED <<stored, events>> /\ contracts \subseteq contracts'
    BY <1>8, SeedFrame DEF tally
  <2> QED  BY <2>1 DEF StoredIsPresent, WithPiid, EventsOf, HasEvent
<1> QED  BY <1>3, <1>4, <1>5, <1>6, <1>7, <1>8 DEF Next, Terminated

-----------------------------------------------------------------------------
(* raw_json and the audit trail.                                           *)

LEMMA RawStep ==
    ASSUME IType, IdsInv, SnapshotLoop, [Next]_vars
    PROVE  SnapshotLoop'
<1>0. contracts \subseteq Row /\ "usa" \in Tasks /\ pc \in [Tasks -> Labels]
  BY TaskTypes, TaskSets
<1> SUFFICES ASSUME ~Postgres, ~RealServices
             PROVE  /\ pc'["usa"] # "idle" => turn' = "usa"
                    /\ \A r \in rows' : pc'["usa"] # "idle" =>
                          \A c \in contracts' : c.id = r.id => r.raw = RawOf(c.cols)
                    /\ pc'["usa"] = "enrich" =>
                          \A c \in contracts' : c.id = snap'.id => snap'.raw = RawOf(c.cols)
                    /\ RawMatchesColumns'
  BY DEF SnapshotLoop
<1> DEFINE Goal == /\ pc'["usa"] # "idle" => turn' = "usa"
                   /\ \A r \in rows' : pc'["usa"] # "idle" =>
                          \A c \in contracts' : c.id = r.id => r.raw = RawOf(c.cols)
                   /\ pc'["usa"] = "enrich" =>
                          \A c \in contracts' : c.id = snap'.id => snap'.raw = RawOf(c.cols)
                   /\ RawMatchesColumns'
<1>1. /\ pc["usa"] # "idle" => turn = "usa"
      /\ \A r \in rows : pc["usa"] # "idle" =>
            \A c \in contracts : c.id = r.id => r.raw = RawOf(c.cols)
      /\ pc["usa"] = "enrich" => \A c \in contracts : c.id = snap.id => snap.raw = RawOf(c.cols)
      /\ \A c \in contracts : c.raw = RawOf(c.cols)
  BY DEF SnapshotLoop, RawMatchesColumns
<1>2. ASSUME NEW t, TaskStep(t) PROVE RawMatchesColumns'
  <2>1. ASSUME NEW d \in contracts' PROVE d.raw = RawOf(d.cols)
    BY <1>1, <1>2, <2>1, RowOrigin DEF KeptRow, WrittenRow, Enriches
  <2> QED  BY <2>1 DEF RawMatchesColumns
<1>3. ASSUME NEW t, TaskStep(t), t # "usa" PROVE Goal
  <2>1. pc["usa"] = "idle" /\ pc'["usa"] = "idle"
    BY <1>0, <1>1, <1>3, Alone DEF TaskStep, OneTask
  <2> QED  BY <1>2, <1>3, <2>1
<1>4. ASSUME UsaStep PROVE Goal
  <2>0. TaskStep("usa") /\ RawMatchesColumns'
    BY <1>2, <1>4, StepIsTaskStep
  <2>1. \E op \in {"db", "fetch", "run"}, l \in Labels : Goto("usa", op, l)
    BY <1>4 DEF UsaStep, StartUsa, FetchAward, EnrichContract, Labels
  <2>2. pc'["usa"] # "idle" => turn' = "usa"
    BY <1>0, <2>1 DEF Goto, Suspends
  <2>3. CASE StartUsa
    <3>1. rows' = contracts /\ UNCHANGED contracts /\ pc'["usa"] = "next"
      BY <1>0, <2>3, GotoMoves DEF StartUsa, tables
    <3> QED  BY <1>1, <2>0, <2>2, <3>1 DEF IdsInv
  <2>4. CASE FetchAward
    <3>1. UNCHANGED contracts /\ rows' \subseteq rows /\ pc["usa"] = "next"
      BY <2>4 DEF FetchAward, tables
    <3>2. pc'["usa"] = "enrich" => snap' \in rows
      BY <1>0, <2>4, GotoMoves DEF FetchAward
    <3> QED  BY <1>1, <2>0, <2>2, <3>1, <3>2
  <2>5. CASE EnrichContract
    <3>1. rows' = rows /\ pc["usa"] = "enrich" /\ pc'["usa"] = "next"
      BY <1>0, <2>5, GotoMoves DEF EnrichContract
    <3>2. \A d \in contracts' : \E c \in contracts : d.id = c.id /\ d.cols = c.cols
      <4>1. \A d \in contracts' : ~WrittenRow("usa", d)
        BY DEF WrittenRow
      <4> QED  BY <2>0, <4>1, RowOrigin DEF KeptRow
    <3> QED  BY <1>1, <2>0, <2>2, <3>1, <3>2
  <2> QED  BY <1>4, <2>3, <2>4, <2>5 DEF UsaStep
<1>5. ASSUME NEW s \in Sources \cup Clients, TaskStep(s) PROVE Goal
  BY <1>3, <1>5, TaskSets
<1>6. ASSUME Crash PROVE Goal
  BY <1>0, <1>6 DEF Crash, RawMatchesColumns
<1>7. ASSUME UNCHANGED vars PROVE Goal
  BY <1>1, <1>7 DEF vars, tables, locals, RawMatchesColumns
<1>8. ~Seed
  BY DEF Seed, SeedContract, SeedParent
<1> QED  BY <1>4, <1>5, <1>6, <1>7, <1>8, StepIsTaskStep DEF Next, Terminated

LEMMA AuditStep ==
    ASSUME IType, IdsInv, DocsInv, HitInv, AuditLoop, [Next]_vars
    PROVE  AuditLoop'
<1>0. contracts \subseteq Row /\ nextId \in Nat /\ hit \in [Tasks -> Nat \cup {None}] /\ pc \in [Tasks -> Labels]
  BY TaskTypes
<1> DEFINE Named == \A a \in audits : \E c \in contracts : c.id = a
           Audited(c) == c.id \in audits \/ \E t \in Clients : pc[t] = "audit" /\ hit[t] = c.id
           AllAudited == \A c \in contracts : c.cols.src = "api" => Audited(c)
<1>1. (NoPhantomAudit <=> Named) /\ (ApiRowsAudited <=> AllAudited)
  BY DEF NoPhantomAudit, ApiRowsAudited
<1>2. (NoPhantomAudit <=> Named)' /\ (ApiRowsAudited <=> AllAudited)'
  BY DEF NoPhantomAudit, ApiRowsAudited
<1>3. ASSUME NEW t, TaskStep(t), audits' \subseteq audits, Named PROVE Named'
  BY <1>3, RowsStep DEF RowsLive
<1>4. ASSUME NEW c \in Clients, RecordAudit(c), Named PROVE Named'
  <2>1. \E r \in contracts : r.id = hit[c]
    BY <1>4 DEF RecordAudit, HitInv
  <2> QED  BY <1>4, <2>1 DEF RecordAudit, tables
<1>5. ASSUME NEW t, TaskStep(t), UNCHANGED audits, AllAudited, t \in Clients => pc[t] # "audit",
             \A d \in contracts' : WrittenRow(t, d) => d.cols.src # "api"
      PROVE  AllAudited'
  <2>1. ASSUME NEW d \in contracts', d.cols.src = "api" PROVE Audited(d)'
    <3>1. PICK c \in contracts : KeptRow(c, d)
      BY <1>5, <2>1, RowOrigin
    <3>2. Audited(c) /\ d.id = c.id
      BY <1>5, <2>1, <3>1 DEF KeptRow
    <3> QED  BY <1>5, <3>2, TaskSets DEF TaskStep, OneTask
  <2> QED  BY <2>1
<1>6. ASSUME NEW s \in Sources, SyncStep(s) PROVE (Named => Named') /\ (AllAudited => AllAudited')
  <2>1. TaskStep(s) /\ UNCHANGED audits /\ s \notin Clients
    BY <1>6, StepIsTaskStep, SyncWrites, TaskSets
  <2>2. \A d \in contracts' : WrittenRow(s, d) => d.cols.src # "api"
    BY DEF WrittenRow, DocsInv, DocsOf, Sources
  <2>3. Named => Named'
    BY <1>3, <2>1
  <2> HIDE DEF Named, AllAudited
  <2> QED  BY <1>5, <2>1, <2>2, <2>3
<1>7. ASSUME UsaStep PROVE (Named => Named') /\ (AllAudited => AllAudited')
  <2>1. TaskStep("usa") /\ UNCHANGED audits /\ "usa" \notin Clients
    BY <1>7, StepIsTaskStep, UsaOneTask, TaskSets
  <2>2. \A d \in contracts' : WrittenRow("usa", d) => d.cols.src # "api"
    BY DEF WrittenRow
  <2>3. Named => Named'
    BY <1>3, <2>1
  <2> HIDE DEF Named, AllAudited
  <2> QED  BY <1>5, <2>1, <2>2, <2>3
<1>8. ASSUME NEW c \in Clients, ClientStep(c) PROVE Named => Named'
  <2>1. CASE RecordAudit(c)
    BY <1>4, <2>1
  <2>2. CASE ~RecordAudit(c)
    <3>1. UNCHANGED audits
      BY <1>8, <2>2 DEF ClientStep, CheckCreate, EmbedCreate, InsertCreate, PatchContract
    <3> QED  BY <1>3, <1>8, <3>1, StepIsTaskStep
  <2> QED  BY <2>1, <2>2
<1>9. ASSUME ~RealServices, NEW c \in Clients, ClientStep(c) PROVE AllAudited => AllAudited'
  <2>0. c \in Tasks /\ TaskStep(c)
    BY <1>9, StepIsTaskStep, TaskSets
  <2>1. CASE RecordAudit(c)
    <3>1. UNCHANGED <<contracts, hit>> /\ audits' = audits \cup {hit[c]}
      BY <1>9, <2>1 DEF RecordAudit, tables, locals
    <3>2. \A t \in Clients : t # c => pc'[t] = pc[t]
      BY <2>0, TaskSets DEF TaskStep, OneTask
    <3> QED  BY <3>1, <3>2
  <2>2. CASE ~RecordAudit(c)
    <3>1. UNCHANGED audits /\ pc[c] # "audit"
      BY <1>9, <2>2 DEF ClientStep, CheckCreate, EmbedCreate, InsertCreate, PatchContract, Accepting
    <3>2. CASE Inserts(c) /\ hit'[c] = nextId /\ pc'[c] = "audit"
      <4>1. ASSUME AllAudited, NEW d \in contracts', d.cols.src = "api" PROVE Audited(d)'
        <5>1. CASE WrittenRow(c, d)
          <6>1. d.id = nextId
            BY <1>0, <3>2, <5>1 DEF WrittenRow, Overwrites, Inserts
          <6> QED  BY <3>2, <6>1
        <5>2. ASSUME NEW r \in contracts, KeptRow(r, d) PROVE Audited(d)'
          <6>1. Audited(r) /\ d.id = r.id
            BY <4>1, <5>2 DEF KeptRow
          <6> QED  BY <2>0, <3>1, <6>1, TaskSets DEF TaskStep, OneTask
        <5> QED  BY <2>0, <5>1, <5>2, RowOrigin
      <4> QED  BY <4>1
    <3>3. CASE UNCHANGED contracts \/ (pc[c] = "idle" /\ Patches(c))
      <4>1. ASSUME AllAudited, NEW d \in contracts', d.cols.src = "api" PROVE Audited(d)'
        <5>1. PICK r \in contracts : d.id = r.id /\ d.cols = r.cols
          <6>1. CASE UNCHANGED contracts
            BY <4>1, <6>1
          <6>2. CASE pc[c] = "idle"
            BY <2>0, <4>1, <6>2, RowOrigin DEF WrittenRow, KeptRow
          <6> QED  BY <3>3, <6>1, <6>2
        <5>2. Audited(r)
          BY <4>1, <5>1
        <5> QED  BY <2>0, <3>1, <5>1, <5>2, TaskSets DEF TaskStep, OneTask
      <4> QED  BY <4>1
    <3> QED  BY <1>9, <3>2, <3>3, ClientWrites
  <2> QED  BY <2>1, <2>2
<1>10. ASSUME Crash
       PROVE  /\ Postgres \/ ~RealServices => (Named => Named')
              /\ ~Postgres => AllAudited'
  BY <1>10 DEF Crash, tables
<1>11. ASSUME UNCHANGED vars PROVE (Named => Named') /\ (AllAudited => AllAudited')
  BY <1>11 DEF vars, tables, locals
<1>12. ASSUME Seed PROVE Postgres /\ (Named => Named')
  <2>1. Postgres /\ UNCHANGED audits /\ contracts \subseteq contracts'
    BY <1>12, SeedFrame
  <2> QED  BY <2>1
<1>13. Postgres \/ ~RealServices => (Named => Named')
  BY <1>6, <1>7, <1>8, <1>10, <1>11, <1>12 DEF Next, Terminated
<1>14. ~Postgres /\ ~RealServices => (AllAudited => AllAudited')
  BY <1>6, <1>7, <1>9, <1>10, <1>11, <1>12 DEF Next, Terminated
<1> HIDE DEF Named, AllAudited
<1> QED  BY <1>1, <1>2, <1>13, <1>14 DEF AuditLoop

-----------------------------------------------------------------------------
(* The theorems.                                                           *)

LEMMA StoreInit == Init => StoreInv
<1> SUFFICES ASSUME Init PROVE StoreInv
  OBVIOUS
<1>1. IType
  BY InitType
<1>2. contracts = {} /\ parents = {} /\ events = {} /\ audits = {} /\ rows = {}
  BY DEF Init
<1>3. \A t \in Tasks : pc[t] = "idle"
  BY DEF Init
<1>4. \A s \in Sources : todo[s] = {} /\ stored[s] = {}
  BY DEF Init
<1> QED  BY <1>1, <1>2, <1>3, <1>4, TaskSets
         DEF StoreInv, IdsInv, DocsInv, HitInv, ParentLoop, ParentKeysUnique, EventLoop, OneEventPerNotice,
             LinksInv, LinksMatchDocument, EventOnItsContract, StoredIsPresent, SnapshotLoop, RawMatchesColumns,
             AuditLoop, NoPhantomAudit, ApiRowsAudited, AddLabel

LEMMA IdsStep ==
    ASSUME IType, IdsInv, [Next]_vars
    PROVE  IdsInv'
<1>1. ASSUME Crash PROVE IdsInv'
  BY <1>1 DEF Crash, tables, IdsInv
<1>2. ASSUME UNCHANGED vars PROVE IdsInv'
  BY <1>2 DEF vars, tables, IdsInv
<1> QED  BY <1>1, <1>2, SeedFrame, RowsStep, StepIsTaskStep DEF Next, Terminated

LEMMA StoreNext == StoreInv /\ [Next]_vars => StoreInv'
<1> SUFFICES ASSUME StoreInv, [Next]_vars PROVE StoreInv'
  OBVIOUS
<1>1. IType' /\ IdsInv' /\ DocsInv' /\ HitInv'
  BY NextType, IdsStep, DocsStep, HitStep DEF StoreInv
<1>2. ParentLoop' /\ ParentKeysUnique' /\ EventLoop' /\ OneEventPerNotice'
  BY ParentStep, EventStep DEF StoreInv
<1>3. LinksInv' /\ LinksMatchDocument' /\ EventOnItsContract' /\ StoredIsPresent'
  BY LinksStep, LinksMatchStep, EventContractStep, StoredStep DEF StoreInv
<1>4. SnapshotLoop' /\ AuditLoop'
  BY RawStep, AuditStep DEF StoreInv
<1> QED  BY <1>1, <1>2, <1>3, <1>4 DEF StoreInv

LEMMA StoreAlways == Spec => []StoreInv
BY StoreInit, StoreNext, PTL DEF Spec

\* Two runs that name the same agency or awardee share its row: with Postgres
\* because of the unique keys, in memory because the loop is not given away
\* between the select and the insert.
THEOREM OneRowPerParent == Spec => []ParentKeysUnique
<1>1. StoreInv => ParentKeysUnique
  BY DEF StoreInv
<1> QED  BY <1>1, StoreAlways, PTL

\* A notice that is delivered again, also after a restart, has one event.
THEOREM NoticeHasOneEvent == Spec => []OneEventPerNotice
<1>1. StoreInv => OneEventPerNotice
  BY DEF StoreInv
<1> QED  BY <1>1, StoreAlways, PTL

\* The contract id that upsert_recompete_event is handed is that of the
\* contract its notice is about.
THEOREM EventsHangOnTheirContract == Spec => []EventOnItsContract
<1>1. StoreInv => EventOnItsContract
  BY DEF StoreInv
<1> QED  BY <1>1, StoreAlways, PTL

\* No agency or vendor id leaks from one document to the row of another.
THEOREM LinksAreTheDocuments == Spec => []LinksMatchDocument
<1>1. StoreInv => LinksMatchDocument
  BY DEF StoreInv
<1> QED  BY <1>1, StoreAlways, PTL

\* What a run counts as stored is in the database.
THEOREM StoredDocumentsArePresent == Spec => []StoredIsPresent
<1>1. StoreInv => StoredIsPresent
  BY DEF StoreInv
<1> QED  BY <1>1, StoreAlways, PTL

\* No writer puts back a column that only people edit.
THEOREM EditsSurvive == Spec => KeptEditsSurvive
<1>1. ASSUME StoreInv, [Next]_vars
      PROVE  [\A c \in contracts : "kept" \in c.edits =>
                 \A d \in contracts' : d.id = c.id => "kept" \in d.edits]_vars
  <2>1. IType /\ IdsInv
    BY <1>1 DEF StoreInv
  <2>2. ASSUME NEW t, TaskStep(t) PROVE KeptEdits
    BY <2>1, <2>2, KeptStep
  <2>3. ASSUME Crash PROVE KeptEdits
    BY <2>1, <2>3 DEF Crash, tables, KeptEdits, IdsInv
  <2>4. ASSUME Seed PROVE KeptEdits
    BY <2>1, <2>4, SeedFrame DEF KeptEdits, IdsInv
  <2> QED  BY <1>1, <2>1, <2>2, <2>3, <2>4, StepIsTaskStep DEF Next, Terminated, KeptEdits
<1> QED  BY <1>1, StoreAlways, PTL DEF Spec, KeptEditsSurvive

\* Audit events name committed rows.  Postgres outlives the process; without
\* ClickHouse the audit trail does not, so they are lost together.
THEOREM AuditsNameRows ==
    ASSUME Postgres \/ ~RealServices
    PROVE  Spec => []NoPhantomAudit
<1>1. StoreInv => NoPhantomAudit
  BY DEF StoreInv, AuditLoop
<1> QED  BY <1>1, StoreAlways, PTL

\* In memory and without services no API row misses its audit event.
THEOREM ApiRowsGetAudited ==
    ASSUME ~Postgres, ~RealServices
    PROVE  Spec => []ApiRowsAudited
<1>1. StoreInv => ApiRowsAudited
  BY DEF StoreInv, AuditLoop
<1> QED  BY <1>1, StoreAlways, PTL

\* In memory and without services the enrichment runs alone, so that the
\* snapshot it writes back is never old.
THEOREM RawJsonIsTheDocument ==
    ASSUME ~Postgres, ~RealServices
    PROVE  Spec => []RawMatchesColumns
<1>1. StoreInv => RawMatchesColumns
  BY DEF StoreInv, SnapshotLoop
<1> QED  BY <1>1, StoreAlways, PTL

\* In memory, and with embeddings that do not suspend, the answer of the
\* duplicate check is still true when the row is inserted.
THEOREM CheckedPiidStaysFree ==
    ASSUME ~Postgres, ~OpenAI
    PROVE  Spec => []CheckStillHolds
<1>1. PiidInv => CheckStillHolds
  BY TaskSets DEF PiidInv, LoopProtects, AtWrite, CheckIsFresh, CheckStillHolds
<1>2. PiidInv /\ [Next]_vars => PiidInv'
  BY PiidNext
<1> QED  BY <1>1, <1>2, PiidInit, PTL DEF Spec

=============================================================================
