------------------------ MODULE ContractIngestProofs ------------------------
(***************************************************************************)
(* Proofs about ContractIngest, for every set of documents, keys and       *)
(* clients and every number of runs and crashes.                           *)
(***************************************************************************)
EXTENDS ContractIngest, TLAPS

\* Wherever a coroutine is suspended, the local variables the code reads next
\* are bound: the document, the contract id, the snapshot's row.
LocalsBound ==
    /\ \A t \in Sources \cup Clients :
        /\ pc[t] \notin {"idle", "next", "audit"} => doc[t] \in Docs
        /\ pc[t] \in {"find_event", "add_event", "audit"} => hit[t] \in Nat
    /\ pc["usa"] = "enrich" => snap \in Row

\* The inductive invariant of the type.
IType == TypeOK /\ LocalsBound

\* What a step of the loop does to pc and turn.
LEMMA GotoLemma ==
    ASSUME NEW t \in Tasks, NEW l \in Labels, NEW op,
           pc \in [Tasks -> Labels], turn \in Tasks \cup {None},
           Goto(t, op, l)
    PROVE  /\ pc' \in [Tasks -> Labels] /\ turn' \in Tasks \cup {None}
           /\ pc'[t] = l
           /\ \A u \in Tasks : u # t => pc'[u] = pc[u]
BY DEF Goto

LEMMA NextLabels ==
    ASSUME NEW d
    PROVE  /\ AfterAgency(d) \in {"find_contract", "add_vendor", "find_vendor"}
           /\ FirstStep(d) \in {"find_agency", "find_contract", "add_vendor",
                                "find_vendor"}
           /\ EventLabel(d) \in {"find_event", "add_event"}
           /\ \A k : AfterParent(k, d) \in {"find_contract", "add_vendor", "find_vendor"}
BY DEF AfterAgency, FirstStep, AfterParent, EventLabel

LEMMA TaskSets ==
    /\ Sources \subseteq Tasks /\ Clients \subseteq Tasks /\ "usa" \in Tasks
    /\ Sources \cap Clients = {} /\ "usa" \notin Sources \cup Clients
BY ConstantsAssumption DEF Tasks, Ingestors, Sources

LEMMA RowTypes ==
    ASSUME NEW d \in Docs, NEW r \in [Kinds -> Nat \cup {None}]
    PROVE  /\ \A id \in Nat : NewRow(id, d, r) \in Row
           /\ \A c \in Row : Overwritten(c, d, r) \in Row
<1>1. RawOf(d) \in Docs \cup {None} /\ d.piid \in Piids \cup {None}
  BY ConstantsAssumption DEF RawOf, DocType
<1> QED BY <1>1 DEF NewRow, Overwritten, Row

LEMMA NoRefType == NoRef \in [Kinds -> Nat \cup {None}]
BY DEF NoRef

\* Setting one of the two local ids of a source.
LEMMA SetRefType ==
    ASSUME NEW s \in Sources, NEW k \in Kinds, NEW id \in Nat,
           ref \in [Sources -> [Kinds -> Nat \cup {None}]],
           ref' = [ref EXCEPT ![s][k] = id]
    PROVE  ref' \in [Sources -> [Kinds -> Nat \cup {None}]]
<1>1. [ref[s] EXCEPT ![k] = id] \in [Kinds -> Nat \cup {None}]
  OBVIOUS
<1>2. ref' = [ref EXCEPT ![s] = [ref[s] EXCEPT ![k] = id]]
  OBVIOUS
<1> QED BY <1>1, <1>2

LEMMA ParentTypes ==
    ASSUME NEW d \in Docs, NEW k \in Kinds, NEW id \in Nat
    PROVE  [id |-> id, kind |-> k, key |-> ParentKey(k, d)] \in Parent
<1>1. d.agency \in AgencyCodes \cup {None} /\ d.vendor \in Ueis \cup {NoUei, None}
  BY ConstantsAssumption DEF DocType
<1>2. CASE k = "agency"
  BY <1>1, <1>2 DEF Parent, ParentKey, Kinds
<1>3. CASE k = "vendor"
  BY <1>1, <1>3 DEF Parent, ParentKey, Kinds
<1> QED BY <1>2, <1>3 DEF Kinds

LEMMA InitType == Init => IType
BY TaskSets, ConstantsAssumption
   DEF Init, IType, TypeOK, LocalsBound, Labels, NoRef, Sources

LEMMA StartSyncType ==
    ASSUME NEW s \in Sources, IType, StartSync(s)
    PROVE  IType'
<1>1. pc' \in [Tasks -> Labels] /\ turn' \in Tasks \cup {None} /\ pc'[s] = "next"
      /\ \A u \in Tasks : u # s => pc'[u] = pc[u]
  BY GotoLemma, TaskSets DEF StartSync, IType, TypeOK, Labels
<1>2. TypeOK'
  <2>1. todo' \in [Sources -> SUBSET Docs]
    BY DEF StartSync, IType, TypeOK, DocsOf
  <2>2. runs' \in [Tasks -> Nat]
    BY TaskSets DEF StartSync, IType, TypeOK
  <2> QED BY <1>1, <2>1, <2>2 DEF StartSync, IType, TypeOK, tables, tally
<1>3. LocalsBound'
  BY <1>1, TaskSets DEF StartSync, IType, LocalsBound, tables, tally
<1> QED BY <1>2, <1>3 DEF IType

LEMMA RejectLemma ==
    ASSUME NEW s \in Sources, IType, doc[s] \in Docs, Reject(s)
    PROVE  /\ rejected' \in [Sources -> SUBSET Docs]
           /\ pc' \in [Tasks -> Labels] /\ turn' \in Tasks \cup {None} /\ pc'[s] = "next"
           /\ \A u \in Tasks : u # s => pc'[u] = pc[u]
           /\ UNCHANGED <<tables, nextId, ref, hit, stored>>
BY GotoLemma, TaskSets DEF Reject, IType, TypeOK, Labels

LEMMA AcceptLemma ==
    ASSUME NEW s \in Sources, IType, doc[s] \in Docs, Accept(s)
    PROVE  /\ stored' \in [Sources -> SUBSET Docs]
           /\ pc' \in [Tasks -> Labels] /\ turn' \in Tasks \cup {None} /\ pc'[s] = "next"
           /\ \A u \in Tasks : u # s => pc'[u] = pc[u]
BY GotoLemma, TaskSets DEF Accept, IType, TypeOK, Labels

LEMMA PickDocType ==
    ASSUME NEW s \in Sources, IType, PickDoc(s)
    PROVE  IType'
<1>1. PICK d \in todo[s] :
        /\ todo' = [todo EXCEPT ![s] = @ \ {d}]
        /\ doc' = [doc EXCEPT ![s] = d]
        /\ ref' = [ref EXCEPT ![s] = StartRefs(s)]
        /\ IF d.piid = None
           THEN /\ Goto(s, "run", "next")
                /\ rejected' = [rejected EXCEPT ![s] = @ \cup {d}]
           ELSE Goto(s, "run", FirstStep(d)) /\ UNCHANGED rejected
  BY DEF PickDoc
<1>2. d \in Docs
  BY DEF IType, TypeOK
<1>3. \E l \in Labels : /\ Goto(s, "run", l)
                       /\ l \notin {"find_event", "add_event", "audit"}
  BY <1>1, NextLabels DEF Labels
<1>4. pc' \in [Tasks -> Labels] /\ turn' \in Tasks \cup {None}
      /\ pc'[s] \notin {"find_event", "add_event", "audit"}
      /\ \A u \in Tasks : u # s => pc'[u] = pc[u]
  BY <1>3, GotoLemma, TaskSets DEF IType, TypeOK
<1>5. TypeOK'
  <2>1. todo' \in [Sources -> SUBSET Docs]
    BY <1>1 DEF IType, TypeOK
  <2>2. doc' \in [Tasks -> Docs \cup {None}] /\ doc'[s] = d
        /\ ref' \in [Sources -> [Kinds -> Nat \cup {None}]]
    BY <1>1, <1>2, TaskSets, NoRefType DEF IType, TypeOK, StartRefs
  <2>3. rejected' \in [Sources -> SUBSET Docs]
    BY <1>1, <1>2 DEF IType, TypeOK
  <2> QED BY <1>4, <2>1, <2>2, <2>3 DEF PickDoc, IType, TypeOK, tables
<1>6. LocalsBound'
  <2>1. doc'[s] \in Docs /\ \A u \in Tasks : u # s => doc'[u] = doc[u]
    BY <1>1, <1>2, TaskSets DEF IType, TypeOK
  <2> QED BY <1>4, <2>1, TaskSets DEF PickDoc, IType, LocalsBound
<1> QED BY <1>5, <1>6 DEF IType

LEMMA EndSyncType ==
    ASSUME NEW s \in Sources, IType, EndSync(s)
    PROVE  IType'
<1>1. pc' \in [Tasks -> Labels] /\ turn' \in Tasks \cup {None} /\ pc'[s] = "idle"
      /\ \A u \in Tasks : u # s => pc'[u] = pc[u]
  BY GotoLemma, TaskSets DEF EndSync, IType, TypeOK, Labels
<1>2. TypeOK'
  BY <1>1 DEF EndSync, IType, TypeOK, tables, tally, locals
<1>3. LocalsBound'
  BY <1>1, TaskSets DEF EndSync, IType, LocalsBound, tables, tally, locals
<1> QED BY <1>2, <1>3 DEF IType

LEMMA FindParentType ==
    ASSUME NEW s \in Sources, NEW k \in Kinds, IType, FindParent(s, k)
    PROVE  IType'
<1>1. \E l \in Labels : /\ Goto(s, "db", l)
                       /\ l \notin {"find_event", "add_event", "audit"}
  BY NextLabels DEF FindParent, Labels, AddLabel
<1>2. pc' \in [Tasks -> Labels] /\ turn' \in Tasks \cup {None}
      /\ pc'[s] \notin {"find_event", "add_event", "audit"}
      /\ \A u \in Tasks : u # s => pc'[u] = pc[u]
  BY <1>1, GotoLemma, TaskSets DEF IType, TypeOK
<1>3. doc[s] \in Docs
  BY TaskSets DEF FindParent, FindLabel, IType, LocalsBound
<1>4. ref' \in [Sources -> [Kinds -> Nat \cup {None}]]
  <2>1. \A p \in parents : p.id \in Nat
    BY DEF IType, TypeOK, Parent
  <2>2. \/ ref' = ref
        \/ \E p \in parents : ref' = [ref EXCEPT ![s][k] = p.id]
    BY DEF FindParent, ParentsWith
  <2> QED BY <2>1, <2>2, SetRefType DEF IType, TypeOK
<1>5. TypeOK'
  BY <1>2, <1>4 DEF FindParent, IType, TypeOK, tables, tally
<1>6. LocalsBound'
  BY <1>2, <1>3, TaskSets DEF FindParent, IType, LocalsBound, tables, tally
<1> QED BY <1>5, <1>6 DEF IType

LEMMA AddParentType ==
    ASSUME NEW s \in Sources, NEW k \in Kinds, IType, AddParent(s, k)
    PROVE  IType'
<1>1. doc[s] \in Docs
  BY TaskSets DEF AddParent, AddLabel, IType, LocalsBound
<1>2. CASE ParentConflict(k, ParentKey(k, doc[s])) /\ Reject(s)
  <2>1. TypeOK'
    BY <1>1, <1>2, RejectLemma DEF AddParent, IType, TypeOK, tables
  <2>2. LocalsBound'
    BY <1>1, <1>2, RejectLemma, TaskSets DEF AddParent, IType, LocalsBound, tables
  <2> QED BY <2>1, <2>2 DEF IType
<1>3. CASE /\ UseNextId
           /\ parents' = parents \cup
                  {[id |-> nextId, kind |-> k, key |-> ParentKey(k, doc[s])]}
           /\ ref' = [ref EXCEPT ![s][k] = nextId]
           /\ Goto(s, "db", AfterParent(k, doc[s]))
           /\ UNCHANGED <<contracts, events, hit, tally>>
  <2>1. /\ pc' \in [Tasks -> Labels] /\ turn' \in Tasks \cup {None}
        /\ pc'[s] \notin {"find_event", "add_event", "audit", "enrich"}
        /\ \A u \in Tasks : u # s => pc'[u] = pc[u]
    <3>1. AfterParent(k, doc[s]) \in Labels \ {"find_event", "add_event", "audit", "enrich"}
      BY NextLabels DEF Labels
    <3> QED BY <1>3, <3>1, GotoLemma, TaskSets DEF IType, TypeOK
  <2>2. parents' \subseteq Parent /\ nextId' \in Nat
    BY <1>1, <1>3, ParentTypes DEF IType, TypeOK, UseNextId
  <2>3. ref' \in [Sources -> [Kinds -> Nat \cup {None}]]
    BY <1>3, SetRefType DEF IType, TypeOK
  <2>4. TypeOK'
    BY <1>3, <2>1, <2>2, <2>3 DEF AddParent, IType, TypeOK, tally
  <2>5. LocalsBound'
    BY <1>1, <1>3, <2>1, TaskSets DEF AddParent, IType, LocalsBound
  <2> QED BY <2>4, <2>5 DEF IType
<1> QED BY <1>2, <1>3 DEF AddParent

LEMMA SelectContractType ==
    ASSUME NEW s \in Sources, IType, SelectContract(s)
    PROVE  IType'
<1>1. doc[s] \in Docs
  BY TaskSets DEF SelectContract, IType, LocalsBound
<1>2. /\ pc' \in [Tasks -> Labels] /\ turn' \in Tasks \cup {None} /\ pc'[s] = "embed"
      /\ \A u \in Tasks : u # s => pc'[u] = pc[u]
  BY GotoLemma, TaskSets DEF SelectContract, IType, TypeOK, Labels
<1>3. hit' \in [Tasks -> Nat \cup {None}] /\ \A u \in Tasks : u # s => hit'[u] = hit[u]
  <2>1. \A c \in contracts : c.id \in Nat
    BY DEF IType, TypeOK, Row
  <2> QED BY <2>1, TaskSets DEF SelectContract, WithPiid, IType, TypeOK
<1>4. TypeOK'
  BY <1>2, <1>3 DEF SelectContract, IType, TypeOK, tables, tally
<1>5. LocalsBound'
  BY <1>1, <1>2, <1>3, TaskSets DEF SelectContract, IType, LocalsBound
<1> QED BY <1>4, <1>5 DEF IType

LEMMA EmbedDocType ==
    ASSUME NEW s \in Sources, IType, EmbedDoc(s)
    PROVE  IType'
<1>1. doc[s] \in Docs
  BY TaskSets DEF EmbedDoc, IType, LocalsBound
<1>2. /\ pc' \in [Tasks -> Labels] /\ turn' \in Tasks \cup {None}
      /\ pc'[s] \in {"save", "next"}
      /\ \A u \in Tasks : u # s => pc'[u] = pc[u]
      /\ rejected' \in [Sources -> SUBSET Docs]
      /\ UNCHANGED <<tables, nextId, ref, hit, stored>>
  <2>1. CASE Goto(s, "embed", "save") /\ UNCHANGED <<tables, nextId, ref, hit, tally>>
    BY <2>1, GotoLemma, TaskSets DEF IType, TypeOK, Labels, tally
  <2>2. CASE Reject(s)
    BY <2>2, <1>1, RejectLemma
  <2> QED BY <2>1, <2>2 DEF EmbedDoc
<1>3. TypeOK'
  BY <1>2 DEF EmbedDoc, IType, TypeOK, tables
<1>4. LocalsBound'
  BY <1>1, <1>2, TaskSets DEF EmbedDoc, IType, LocalsBound
<1> QED BY <1>3, <1>4 DEF IType

\* Where a document goes when its contract is saved.
LEMMA SavedLemma ==
    ASSUME NEW s \in Sources, IType, doc[s] \in Docs, Saved(s)
    PROVE  /\ stored' \in [Sources -> SUBSET Docs]
           /\ pc' \in [Tasks -> Labels] /\ turn' \in Tasks \cup {None}
           /\ pc'[s] \in {"find_event", "add_event", "next"}
           /\ \A u \in Tasks : u # s => pc'[u] = pc[u]
<1>1. CASE Accept(s)
  BY <1>1, AcceptLemma
<1>2. CASE Goto(s, "db", EventLabel(doc[s])) /\ UNCHANGED stored
  BY <1>2, GotoLemma, NextLabels, TaskSets DEF IType, TypeOK, Labels
<1> QED BY <1>1, <1>2 DEF Saved

LEMMA SaveContractType ==
    ASSUME NEW s \in Sources, IType, SaveContract(s)
    PROVE  IType'
<1>1. doc[s] \in Docs /\ ref[s] \in [Kinds -> Nat \cup {None}]
      /\ hit[s] \in Nat \cup {None}
  BY TaskSets DEF SaveContract, IType, LocalsBound, TypeOK
<1>2. CASE hit[s] # None /\ Saved(s)
           /\ contracts' = {IF c.id = hit[s] THEN Overwritten(c, doc[s], ref[s])
                                             ELSE c : c \in contracts}
           /\ UNCHANGED <<parents, events, nextId, hit, ref, rejected>>
  <2>1. contracts' \subseteq Row
    BY <1>1, <1>2, RowTypes DEF IType, TypeOK
  <2>2. TypeOK'
    BY <1>1, <1>2, <2>1, SavedLemma DEF SaveContract, IType, TypeOK
  <2>3. LocalsBound'
    BY <1>1, <1>2, SavedLemma, TaskSets DEF SaveContract, IType, LocalsBound
  <2> QED BY <2>2, <2>3 DEF IType
<1>3. CASE /\ UseNextId
           /\ contracts' = contracts \cup {NewRow(nextId, doc[s], ref[s])}
           /\ hit' = [hit EXCEPT ![s] = nextId]
           /\ Saved(s)
           /\ UNCHANGED <<parents, events, ref, rejected>>
  <2>1. contracts' \subseteq Row /\ nextId' \in Nat
    BY <1>1, <1>3, RowTypes DEF IType, TypeOK, UseNextId
  <2>2. /\ hit' \in [Tasks -> Nat \cup {None}] /\ hit'[s] \in Nat
        /\ \A u \in Tasks : u # s => hit'[u] = hit[u]
    BY <1>3, TaskSets DEF IType, TypeOK
  <2>3. TypeOK'
    BY <1>1, <1>3, <2>1, <2>2, SavedLemma DEF SaveContract, IType, TypeOK
  <2>4. LocalsBound'
    BY <1>1, <1>3, <2>2, SavedLemma, TaskSets DEF SaveContract, IType, LocalsBound
  <2> QED BY <2>3, <2>4 DEF IType
<1>4. CASE Reject(s)
  <2>1. TypeOK'
    BY <1>1, <1>4, RejectLemma DEF SaveContract, IType, TypeOK, tables
  <2>2. LocalsBound'
    BY <1>1, <1>4, RejectLemma, TaskSets DEF SaveContract, IType, LocalsBound
  <2> QED BY <2>1, <2>2 DEF IType
<1> QED BY <1>2, <1>3, <1>4 DEF SaveContract

LEMMA FindEventType ==
    ASSUME NEW s \in Sources, IType, FindEvent(s)
    PROVE  IType'
<1>1. doc[s] \in Docs /\ hit[s] \in Nat
  BY TaskSets DEF FindEvent, IType, LocalsBound
<1>2. /\ pc' \in [Tasks -> Labels] /\ turn' \in Tasks \cup {None}
      /\ pc'[s] \in {"next", "add_event"}
      /\ \A u \in Tasks : u # s => pc'[u] = pc[u]
      /\ stored' \in [Sources -> SUBSET Docs]
  <2>1. CASE Accept(s)
    BY <2>1, <1>1, AcceptLemma
  <2>2. CASE Goto(s, "db", "add_event") /\ UNCHANGED stored
    BY <2>2, GotoLemma, TaskSets DEF IType, TypeOK, Labels
  <2> QED BY <2>1, <2>2 DEF FindEvent
<1>3. TypeOK'
  BY <1>2 DEF FindEvent, IType, TypeOK, tables, locals
<1>4. LocalsBound'
  BY <1>1, <1>2, TaskSets DEF FindEvent, IType, LocalsBound, locals
<1> QED BY <1>3, <1>4 DEF IType

LEMMA AddEventType ==
    ASSUME NEW s \in Sources, IType, AddEvent(s)
    PROVE  IType'
<1>1. doc[s] \in Docs /\ hit[s] \in Nat
  BY TaskSets DEF AddEvent, IType, LocalsBound
<1>2. CASE Reject(s)
  <2>1. TypeOK'
    BY <1>1, <1>2, RejectLemma DEF AddEvent, IType, TypeOK, tables
  <2>2. LocalsBound'
    BY <1>1, <1>2, RejectLemma, TaskSets DEF AddEvent, IType, LocalsBound
  <2> QED BY <2>1, <2>2 DEF IType
<1>3. CASE /\ UseNextId
           /\ events' = events \cup
                 {[id |-> nextId, notice |-> doc[s].notice, contract |-> hit[s]]}
           /\ Accept(s)
           /\ UNCHANGED <<contracts, parents, ref, hit, rejected>>
  <2>1. doc[s].notice \in Notices \cup {None}
    BY <1>1, ConstantsAssumption DEF DocType
  <2>2. events' \subseteq Event /\ nextId' \in Nat
    BY <1>1, <1>3, <2>1 DEF IType, TypeOK, UseNextId, Event
  <2>3. TypeOK'
    BY <1>1, <1>3, <2>2, AcceptLemma DEF AddEvent, IType, TypeOK
  <2>4. LocalsBound'
    BY <1>1, <1>3, AcceptLemma, TaskSets DEF AddEvent, IType, LocalsBound
  <2> QED BY <2>3, <2>4 DEF IType
<1> QED BY <1>2, <1>3 DEF AddEvent

LEMMA StatementFailsType ==
    ASSUME NEW s \in Sources, IType, StatementFails(s)
    PROVE  IType'
<1>1. doc[s] \in Docs
  BY TaskSets DEF StatementFails, DbLabels, IType, LocalsBound
<1>2. TypeOK'
  BY <1>1, RejectLemma DEF StatementFails, IType, TypeOK, tables
<1>3. LocalsBound'
  BY <1>1, RejectLemma, TaskSets DEF StatementFails, IType, LocalsBound
<1> QED BY <1>2, <1>3 DEF IType

LEMMA UsaType ==
    ASSUME IType, UsaStep
    PROVE  IType'
<1>1. CASE StartUsa
  <2>1. pc' \in [Tasks -> Labels] /\ turn' \in Tasks \cup {None} /\ pc'["usa"] = "next"
        /\ \A u \in Tasks : u # "usa" => pc'[u] = pc[u]
    BY <1>1, GotoLemma, TaskSets DEF StartUsa, IType, TypeOK, Labels
  <2>2. runs' \in [Tasks -> Nat]
    BY <1>1, TaskSets DEF StartUsa, IType, TypeOK
  <2>3. TypeOK'
    BY <1>1, <2>1, <2>2 DEF StartUsa, IType, TypeOK, tables, tally
  <2>4. LocalsBound'
    BY <1>1, <2>1, TaskSets DEF StartUsa, IType, LocalsBound
  <2> QED BY <2>3, <2>4 DEF IType
<1>2. CASE FetchAward
  <2>1. /\ pc' \in [Tasks -> Labels] /\ turn' \in Tasks \cup {None}
        /\ pc'["usa"] = "enrich" => snap' \in rows
        /\ snap' \in rows \/ snap' = snap
        /\ \A u \in Tasks : u # "usa" => pc'[u] = pc[u]
        /\ rows' \subseteq rows
    <3>1. CASE \E c \in rows : /\ rows' = rows \ {c}
                              /\ snap' = c /\ Goto("usa", "fetch", "enrich")
      BY <3>1, GotoLemma, TaskSets DEF IType, TypeOK, Labels
    <3>2. CASE \E c \in rows : /\ rows' = rows \ {c}
                              /\ UNCHANGED snap /\ Goto("usa", "fetch", "next")
      BY <3>2, GotoLemma, TaskSets DEF IType, TypeOK, Labels
    <3>3. CASE rows' = {} /\ Goto("usa", "run", "idle") /\ UNCHANGED snap
      BY <3>3, GotoLemma, TaskSets DEF IType, TypeOK, Labels
    <3> QED BY <1>2, <3>1, <3>2, <3>3 DEF FetchAward
  <2>2. TypeOK'
    BY <1>2, <2>1 DEF FetchAward, IType, TypeOK, tables, tally
  <2>3. LocalsBound'
    BY <1>2, <2>1, TaskSets DEF FetchAward, IType, LocalsBound, TypeOK
  <2> QED BY <2>2, <2>3 DEF IType
<1>3. CASE EnrichContract
  <2>1. /\ pc' \in [Tasks -> Labels] /\ turn' \in Tasks \cup {None} /\ pc'["usa"] = "next"
        /\ \A u \in Tasks : u # "usa" => pc'[u] = pc[u]
    BY <1>3, GotoLemma, TaskSets DEF EnrichContract, IType, TypeOK, Labels
  <2>2. snap \in Row
    BY <1>3 DEF EnrichContract, IType, LocalsBound
  <2>3. contracts' \subseteq Row
    <3>1. \A c \in Row : Enriched(c) \in Row
      BY <2>2 DEF Enriched, Row
    <3> QED BY <1>3, <3>1 DEF EnrichContract, IType, TypeOK
  <2>4. TypeOK'
    BY <1>3, <2>1, <2>3 DEF EnrichContract, IType, TypeOK, tally
  <2>5. LocalsBound'
    BY <1>3, <2>1, TaskSets DEF EnrichContract, IType, LocalsBound
  <2> QED BY <2>4, <2>5 DEF IType
<1> QED BY <1>1, <1>2, <1>3 DEF UsaStep

LEMMA ClientType ==
    ASSUME NEW c \in Clients, IType, ClientStep(c)
    PROVE  IType'
<1>1. CASE CheckCreate(c)
  <2>1. /\ pc' \in [Tasks -> Labels] /\ turn' \in Tasks \cup {None}
        /\ pc'[c] \in {"idle", "embed"} /\ (pc'[c] = "embed" => doc'[c] \in Docs)
        /\ \A u \in Tasks : u # c => pc'[u] = pc[u] /\ doc'[u] = doc[u]
        /\ doc' \in [Tasks -> Docs \cup {None}]
    <3>1. CASE Goto(c, "run", "idle") /\ UNCHANGED doc
      BY <3>1, GotoLemma, TaskSets DEF IType, TypeOK, Labels
    <3>2. CASE \E d \in Docs : Goto(c, "db", "embed") /\ doc' = [doc EXCEPT ![c] = d]
      BY <3>2, GotoLemma, TaskSets DEF IType, TypeOK, Labels
    <3> QED BY <1>1, <3>1, <3>2 DEF CheckCreate, DocsOf
  <2>2. runs' \in [Tasks -> Nat]
    BY <1>1, TaskSets DEF CheckCreate, Accepting, IType, TypeOK
  <2>3. TypeOK'
    BY <1>1, <2>1, <2>2 DEF CheckCreate, IType, TypeOK, tables, tally
  <2>4. LocalsBound'
    BY <1>1, <2>1, TaskSets DEF CheckCreate, IType, LocalsBound
  <2> QED BY <2>3, <2>4 DEF IType
<1>2. CASE EmbedCreate(c)
  <2>1. /\ pc' \in [Tasks -> Labels] /\ turn' \in Tasks \cup {None}
        /\ pc'[c] \in {"idle", "save"}
        /\ \A u \in Tasks : u # c => pc'[u] = pc[u]
    BY <1>2, GotoLemma, TaskSets DEF EmbedCreate, Fail, IType, TypeOK, Labels
  <2>2. TypeOK'
    BY <1>2, <2>1 DEF EmbedCreate, IType, TypeOK, tables, tally, locals
  <2>3. LocalsBound'
    BY <1>2, <2>1, TaskSets DEF EmbedCreate, IType, LocalsBound, locals
  <2> QED BY <2>2, <2>3 DEF IType
<1>3. CASE InsertCreate(c)
  <2>1. doc[c] \in Docs
    BY <1>3, TaskSets DEF InsertCreate, IType, LocalsBound
  <2>2. /\ pc' \in [Tasks -> Labels] /\ turn' \in Tasks \cup {None}
        /\ pc'[c] \in {"idle", "audit"}
        /\ pc'[c] = "audit" => hit'[c] = nextId
        /\ \A u \in Tasks : u # c => pc'[u] = pc[u] /\ hit'[u] = hit[u]
        /\ hit' \in [Tasks -> Nat \cup {None}]
    BY <1>3, GotoLemma, TaskSets
       DEF InsertCreate, Fail, Committed, IType, TypeOK, Labels
  <2>3. contracts' \subseteq Row /\ nextId' \in Nat
    BY <1>3, <2>1, RowTypes, NoRefType DEF InsertCreate, UseNextId, IType, TypeOK
  <2>4. TypeOK'
    BY <1>3, <2>2, <2>3 DEF InsertCreate, IType, TypeOK, tally
  <2>5. LocalsBound'
    BY <1>3, <2>2, TaskSets DEF InsertCreate, IType, LocalsBound, TypeOK
  <2> QED BY <2>4, <2>5 DEF IType
<1>4. CASE PatchContract(c)
  <2>1. PICK row \in contracts, fields \in SUBSET {"synced", "kept"} :
          /\ contracts' = (contracts \ {row}) \cup
                            {[row EXCEPT !.edits = @ \cup fields]}
          /\ hit' = [hit EXCEPT ![c] = row.id]
    BY <1>4 DEF PatchContract
  <2>2. row \in Row /\ row.id \in Nat
    BY DEF IType, TypeOK, Row
  <2>3. /\ pc' \in [Tasks -> Labels] /\ turn' \in Tasks \cup {None} /\ pc'[c] = "audit"
        /\ \A u \in Tasks : u # c => pc'[u] = pc[u]
    BY <1>4, GotoLemma, TaskSets DEF PatchContract, Committed, IType, TypeOK, Labels
  <2>4. /\ hit' \in [Tasks -> Nat \cup {None}] /\ hit'[c] \in Nat
        /\ \A u \in Tasks : u # c => hit'[u] = hit[u]
    BY <2>1, <2>2, TaskSets DEF IType, TypeOK
  <2>5. contracts' \subseteq Row
    <3>1. row.edits \cup fields \in SUBSET {"synced", "kept"}
      BY <2>2 DEF Row
    <3>2. [row EXCEPT !.edits = @ \cup fields] \in Row
      BY <2>2, <3>1 DEF Row
    <3> QED BY <2>1, <3>2 DEF IType, TypeOK
  <2>6. runs' \in [Tasks -> Nat]
    BY <1>4, TaskSets DEF PatchContract, Accepting, IType, TypeOK
  <2>7. TypeOK'
    BY <1>4, <2>3, <2>4, <2>5, <2>6 DEF PatchContract, IType, TypeOK, tally
  <2>8. LocalsBound'
    BY <1>4, <2>3, <2>4, TaskSets DEF PatchContract, IType, LocalsBound
  <2> QED BY <2>7, <2>8 DEF IType
<1>5. CASE RecordAudit(c)
  <2>1. /\ pc' \in [Tasks -> Labels] /\ turn' \in Tasks \cup {None} /\ pc'[c] = "idle"
        /\ \A u \in Tasks : u # c => pc'[u] = pc[u]
    BY <1>5, GotoLemma, TaskSets DEF RecordAudit, IType, TypeOK, Labels
  <2>2. audits' \subseteq Nat
    <3>1. hit[c] \in Nat
      BY <1>5 DEF RecordAudit, IType, LocalsBound
    <3> QED BY <1>5, <3>1 DEF RecordAudit, IType, TypeOK
  <2>3. TypeOK'
    BY <1>5, <2>1, <2>2 DEF RecordAudit, IType, TypeOK, tables, tally, locals
  <2>4. LocalsBound'
    BY <1>5, <2>1, TaskSets DEF RecordAudit, IType, LocalsBound, locals
  <2> QED BY <2>3, <2>4 DEF IType
<1> QED BY <1>1, <1>2, <1>3, <1>4, <1>5 DEF ClientStep

LEMMA CrashType ==
    ASSUME IType, Crash
    PROVE  IType'
<1>1. TypeOK'
  BY NoRefType DEF Crash, IType, TypeOK, tables, Labels
<1>2. LocalsBound'
  BY TaskSets DEF Crash, LocalsBound
<1> QED BY <1>1, <1>2 DEF IType

LEMMA SeedType ==
    ASSUME IType, Seed
    PROVE  IType'
<1>1. CASE SeedContract
  <2>1. PICK d \in DocsOf("seed") : contracts' = contracts \cup {NewRow(nextId, d, NoRef)}
    BY <1>1 DEF SeedContract
  <2>2. contracts' \subseteq Row /\ nextId' \in Nat
    BY <1>1, <2>1, RowTypes, NoRefType DEF SeedContract, UseNextId, DocsOf, IType, TypeOK
  <2> QED BY <1>1, <2>2 DEF SeedContract, IType, TypeOK, LocalsBound, locals, tally
<1>2. ASSUME NEW k \in Kinds, SeedParent(k) PROVE IType'
  <2>1. PICK d \in DocsOf("seed") :
          parents' = parents \cup {[id |-> nextId, kind |-> k, key |-> ParentKey(k, d)]}
    BY <1>2 DEF SeedParent
  <2>2. parents' \subseteq Parent /\ nextId' \in Nat
    BY <1>2, <2>1, ParentTypes DEF SeedParent, UseNextId, DocsOf, IType, TypeOK
  <2> QED BY <1>2, <2>2 DEF SeedParent, IType, TypeOK, LocalsBound, locals, tally
<1> QED BY <1>1, <1>2 DEF Seed

LEMMA StutterType ==
    ASSUME IType, UNCHANGED vars
    PROVE  IType'
BY DEF vars, tables, locals, tally, IType, TypeOK, LocalsBound

LEMMA NextType == IType /\ [Next]_vars => IType'
<1> SUFFICES ASSUME IType, [Next]_vars PROVE IType'
  OBVIOUS
<1>1. ASSUME NEW s \in Sources, SyncStep(s) PROVE IType'
  BY <1>1, StartSyncType, PickDocType, EndSyncType, FindParentType, AddParentType,
     SelectContractType, EmbedDocType, SaveContractType, FindEventType,
     AddEventType, StatementFailsType DEF SyncStep
<1>2. ASSUME Terminated PROVE IType'
  BY <1>2, StutterType DEF Terminated
<1> QED BY <1>1, <1>2, UsaType, ClientType, SeedType, CrashType, StutterType DEF Next

\* Type correctness for every instance, and with it that no coroutine resumes
\* with an unbound local variable.
THEOREM TypeCorrect == Spec => []TypeOK
<1>1. IType => TypeOK
  BY DEF IType
<1> QED BY <1>1, InitType, NextType, PTL DEF Spec

-----------------------------------------------------------------------------
(* PiidUnique.  With Postgres the seed's ON CONFLICT (piid) decides at the *)
(* INSERT, and nobody else's INSERT gets through.  In memory nothing does,  *)
(* and the reason is the event loop: when the embedding does not suspend   *)
(* either, whoever looked for a PIID still owns the loop when it inserts.  *)

AtWrite(t) == t \in Sources \cup Clients /\ pc[t] \in {"embed", "save"}

\* t owns the loop and what its SELECT said still holds.
CheckIsFresh(t) ==
    /\ turn = t
    /\ t \in Clients \/ hit[t] = None => WithPiid(doc[t].piid) = {}

LoopProtects == ~Postgres => \A t \in Tasks : AtWrite(t) => CheckIsFresh(t)

PiidInv == IType /\ PiidUnique /\ LoopProtects

\* While one coroutine runs, no other is between its check and its write.
LEMMA LoopStep ==
    ASSUME NEW t \in Tasks, LoopProtects, CanRun(t),
           \A u \in Tasks : u # t => pc'[u] = pc[u],
           ~Postgres /\ AtWrite(t)' => CheckIsFresh(t)'
    PROVE  LoopProtects'
<1> SUFFICES ASSUME ~Postgres, NEW u \in Tasks, AtWrite(u)' PROVE CheckIsFresh(u)'
  BY DEF LoopProtects
<1>1. CASE u = t
  BY <1>1
<1>2. CASE u # t
  <2>1. AtWrite(u)
    BY <1>2 DEF AtWrite
  <2>2. turn = u
    BY <2>1 DEF LoopProtects, CheckIsFresh
  <2> QED BY <1>2, <2>2, ConstantsAssumption DEF CanRun
<1> QED BY <1>1, <1>2

\* A step of t that leaves it anywhere but before a write.
LEMMA LoopStepAway ==
    ASSUME NEW t \in Tasks, NEW op, NEW l \in Labels \ {"embed", "save"},
           IType, LoopProtects, CanRun(t), Goto(t, op, l)
    PROVE  LoopProtects'
<1>1. pc'[t] = l /\ \A u \in Tasks : u # t => pc'[u] = pc[u]
  BY GotoLemma DEF IType, TypeOK
<1>2. ~AtWrite(t)'
  BY <1>1 DEF AtWrite
<1> QED BY <1>1, <1>2, LoopStep

\* Inserting a row whose PIID no row has.
LEMMA RowInsert ==
    ASSUME NEW row, PiidUnique, contracts' = contracts \cup {row},
           WithPiid(row.piid) = {}
    PROVE  PiidUnique'
BY DEF PiidUnique, WithPiid

LEMMA PiidInit == Init => PiidInv
BY InitType DEF Init, PiidInv, PiidUnique, LoopProtects, AtWrite

LEMMA PiidQuietSync ==
    ASSUME NEW s \in Sources, PiidInv,
           \/ StartSync(s) \/ PickDoc(s) \/ EndSync(s) \/ FindEvent(s)
           \/ AddEvent(s) \/ StatementFails(s)
           \/ \E k \in Kinds : FindParent(s, k) \/ AddParent(s, k)
    PROVE  PiidUnique' /\ LoopProtects'
<1>1. UNCHANGED contracts /\ CanRun(s)
  BY DEF StartSync, PickDoc, EndSync, FindEvent, AddEvent, StatementFails,
         FindParent, AddParent, Accept, Reject, CanRun, tables
<1>2. \E l \in Labels \ {"embed", "save"} : \E op \in {"run", "db", "fetch"} : Goto(s, op, l)
  <2>1. CASE StartSync(s) \/ EndSync(s)
    BY <2>1 DEF StartSync, EndSync, Labels
  <2>2. CASE PickDoc(s)
    BY <2>2, NextLabels DEF PickDoc, Labels
  <2>3. CASE FindEvent(s) \/ AddEvent(s) \/ StatementFails(s)
    BY <2>3 DEF FindEvent, AddEvent, StatementFails, Accept, Reject, Labels
  <2>4. ASSUME NEW k \in Kinds, FindParent(s, k) \/ AddParent(s, k)
        PROVE  \E l \in Labels \ {"embed", "save"} :
                  \E op \in {"run", "db", "fetch"} : Goto(s, op, l)
    <3>1. AfterParent(k, doc[s]) \in Labels \ {"embed", "save"}
      BY NextLabels DEF Labels
    <3> QED BY <2>4, <3>1 DEF FindParent, AddParent, AddLabel, Reject, Labels
  <2> QED BY <2>1, <2>2, <2>3, <2>4
<1>3. PiidUnique'
  BY <1>1 DEF PiidInv, PiidUnique
<1> QED BY <1>1, <1>2, <1>3, LoopStepAway, TaskSets DEF PiidInv

LEMMA PiidSelect ==
    ASSUME NEW s \in Sources, PiidInv, ~OpenAI \/ Postgres, SelectContract(s)
    PROVE  PiidUnique' /\ LoopProtects'
<1>1. PiidUnique'
  BY DEF SelectContract, PiidInv, PiidUnique, tables
<1>2. \A u \in Tasks : u # s => pc'[u] = pc[u]
  BY GotoLemma, TaskSets DEF SelectContract, PiidInv, IType, TypeOK, Labels
<1>3. ASSUME ~Postgres PROVE CheckIsFresh(s)'
  <2>1. turn' = s
    BY <1>3 DEF SelectContract, Goto, Suspends
  <2>2. ASSUME hit'[s] = None PROVE WithPiid(doc[s].piid) = {}
    <3>1. \A c \in contracts : c.id # None
      BY ConstantsAssumption DEF PiidInv, IType, TypeOK, Row
    <3> QED BY <2>2, <3>1, TaskSets DEF SelectContract, WithPiid, PiidInv, IType, TypeOK
  <2>3. s \notin Clients
    BY TaskSets
  <2> QED BY <2>1, <2>2, <2>3 DEF SelectContract, CheckIsFresh, WithPiid, tables
<1> QED BY <1>1, <1>2, <1>3, LoopStep, TaskSets DEF PiidInv, SelectContract

LEMMA PiidEmbed ==
    ASSUME NEW t \in Sources \cup Clients, PiidInv, ~OpenAI \/ Postgres,
           CanRun(t), pc[t] = "embed", UNCHANGED <<contracts, hit, doc>>,
           \/ Goto(t, "embed", "save")
           \/ \E l \in {"next", "idle"} : Goto(t, "run", l)
    PROVE  PiidUnique' /\ LoopProtects'
<1>1. PiidUnique'
  BY DEF PiidInv, PiidUnique
<1>2. CASE Goto(t, "embed", "save")
  <2>1. \A u \in Tasks : u # t => pc'[u] = pc[u]
    BY <1>2, GotoLemma, TaskSets DEF PiidInv, IType, TypeOK, Labels
  <2>2. ASSUME ~Postgres PROVE CheckIsFresh(t)'
    <3>1. CheckIsFresh(t)
      BY <2>2, TaskSets DEF PiidInv, LoopProtects, AtWrite
    <3>2. turn' = t
      BY <1>2, <2>2 DEF Goto, Suspends
    <3> QED BY <3>1, <3>2 DEF CheckIsFresh, WithPiid
  <2> QED BY <1>1, <2>1, <2>2, LoopStep, TaskSets DEF PiidInv
<1>3. CASE \E l \in {"next", "idle"} : Goto(t, "run", l)
  BY <1>1, <1>3, LoopStepAway, TaskSets DEF PiidInv, Labels
<1> QED BY <1>2, <1>3

LEMMA PiidSave ==
    ASSUME NEW s \in Sources, PiidInv, SaveContract(s)
    PROVE  PiidUnique' /\ LoopProtects'
<1>1. \E l \in Labels \ {"embed", "save"} : \E op \in {"run", "db"} : Goto(s, op, l)
  BY NextLabels DEF SaveContract, Saved, Accept, Reject, Labels
<1>2. LoopProtects'
  BY <1>1, LoopStepAway, TaskSets DEF PiidInv, SaveContract
<1>3. CASE contracts' = {IF c.id = hit[s] THEN Overwritten(c, doc[s], ref[s])
                                          ELSE c : c \in contracts}
  <2>1. \A c \in contracts : Overwritten(c, doc[s], ref[s]).piid = c.piid
    BY DEF Overwritten, PiidInv, IType, TypeOK, Row
  <2> QED BY <1>2, <1>3, <2>1 DEF PiidInv, PiidUnique
<1>4. CASE /\ hit[s] = None /\ BindsObjects
           /\ contracts' = contracts \cup {NewRow(nextId, doc[s], ref[s])}
  <2>1. WithPiid(doc[s].piid) = {}
    <3>1. AtWrite(s)
      BY DEF AtWrite, SaveContract
    <3> QED BY <1>4, <3>1, TaskSets DEF BindsObjects, PiidInv, LoopProtects, CheckIsFresh
  <2> QED BY <1>2, <1>4, <2>1, RowInsert DEF PiidInv, NewRow
<1>5. CASE UNCHANGED contracts
  BY <1>2, <1>5 DEF PiidInv, PiidUnique
<1> QED BY <1>3, <1>4, <1>5 DEF SaveContract, Reject, tables

LEMMA PiidUsa ==
    ASSUME PiidInv, UsaStep
    PROVE  PiidUnique' /\ LoopProtects'
<1>1. CanRun("usa")
  BY DEF UsaStep, StartUsa, FetchAward, EnrichContract, CanRun
<1>2. \E l \in Labels \ {"embed", "save"} :
          \E op \in {"run", "db", "fetch"} : Goto("usa", op, l)
  BY DEF UsaStep, StartUsa, FetchAward, EnrichContract, Labels
<1>3. LoopProtects'
  BY <1>1, <1>2, LoopStepAway, TaskSets DEF PiidInv
<1>4. CASE contracts' = {IF c.id = snap.id THEN Enriched(c) ELSE c : c \in contracts}
  <2>1. \A c \in contracts : Enriched(c).piid = c.piid
    BY DEF Enriched, PiidInv, IType, TypeOK, Row
  <2> QED BY <1>3, <1>4, <2>1 DEF PiidInv, PiidUnique
<1>5. CASE UNCHANGED contracts
  BY <1>3, <1>5 DEF PiidInv, PiidUnique
<1> QED BY <1>4, <1>5 DEF UsaStep, StartUsa, FetchAward, EnrichContract, tables

LEMMA PiidClient ==
    ASSUME NEW c \in Clients, PiidInv, ~OpenAI \/ Postgres, ClientStep(c)
    PROVE  PiidUnique' /\ LoopProtects'
<1>1. CASE CheckCreate(c)
  <2>1. PiidUnique'
    BY <1>1 DEF CheckCreate, PiidInv, PiidUnique, tables
  <2>2. CanRun(c)
    BY <1>1 DEF CheckCreate, Accepting, CanRun
  <2>3. CASE Goto(c, "run", "idle")
    BY <2>1, <2>2, <2>3, LoopStepAway, TaskSets DEF PiidInv, Labels
  <2>4. CASE \E d \in Docs : /\ WithPiid(d.piid) = {}
                            /\ Goto(c, "db", "embed") /\ doc' = [doc EXCEPT ![c] = d]
    <3>1. \A u \in Tasks : u # c => pc'[u] = pc[u]
      BY <2>4, GotoLemma, TaskSets DEF PiidInv, IType, TypeOK, Labels
    <3>2. ASSUME ~Postgres PROVE CheckIsFresh(c)'
      <4>1. turn' = c
        BY <2>4, <3>2 DEF Goto, Suspends
      <4>2. WithPiid(doc'[c].piid) = {}
        BY <2>4, TaskSets DEF PiidInv, IType, TypeOK
      <4> QED BY <1>1, <4>1, <4>2 DEF CheckCreate, CheckIsFresh, WithPiid, tables
    <3> QED BY <2>1, <2>2, <3>1, <3>2, LoopStep, TaskSets DEF PiidInv
  <2> QED BY <1>1, <2>3, <2>4 DEF CheckCreate, DocsOf
<1>2. CASE EmbedCreate(c)
  BY <1>2, PiidEmbed DEF EmbedCreate, Fail, tables, locals
<1>3. CASE InsertCreate(c)
  <2>1. \E l \in Labels \ {"embed", "save"} : \E op \in {"run", "db"} : Goto(c, op, l)
    BY <1>3 DEF InsertCreate, Committed, Fail, Labels
  <2>2. LoopProtects'
    BY <1>3, <2>1, LoopStepAway, TaskSets DEF PiidInv, InsertCreate
  <2>3. CASE /\ BindsObjects
             /\ contracts' = contracts \cup {NewRow(nextId, doc[c], NoRef)}
    <3>1. WithPiid(doc[c].piid) = {}
      <4>1. AtWrite(c)
        BY <1>3 DEF AtWrite, InsertCreate
      <4> QED BY <2>3, <4>1, TaskSets DEF BindsObjects, PiidInv, LoopProtects, CheckIsFresh
    <3> QED BY <2>2, <2>3, <3>1, RowInsert DEF PiidInv, NewRow
  <2>4. CASE UNCHANGED contracts
    BY <2>2, <2>4 DEF PiidInv, PiidUnique
  <2> QED BY <1>3, <2>3, <2>4 DEF InsertCreate
<1>4. CASE PatchContract(c)
  <2>1. LoopProtects'
    BY <1>4, LoopStepAway, TaskSets
       DEF PiidInv, PatchContract, Accepting, Committed, CanRun, Labels
  <2>2. PICK row \in contracts, fields \in SUBSET {"synced", "kept"} :
          contracts' = (contracts \ {row}) \cup {[row EXCEPT !.edits = @ \cup fields]}
    BY <1>4 DEF PatchContract
  <2>3. [row EXCEPT !.edits = @ \cup fields].piid = row.piid
    BY DEF PiidInv, IType, TypeOK, Row
  <2> QED BY <2>1, <2>2, <2>3 DEF PiidInv, PiidUnique
<1>5. CASE RecordAudit(c)
  <2>1. LoopProtects'
    BY <1>5, LoopStepAway, TaskSets DEF PiidInv, RecordAudit, Labels
  <2> QED BY <1>5, <2>1 DEF RecordAudit, PiidInv, PiidUnique, tables
<1> QED BY <1>1, <1>2, <1>3, <1>4, <1>5 DEF ClientStep

LEMMA PiidSeed ==
    ASSUME PiidInv, Seed
    PROVE  PiidUnique' /\ LoopProtects'
<1>1. Postgres /\ LoopProtects'
  BY DEF Seed, SeedContract, SeedParent, LoopProtects
<1>2. CASE SeedContract
  <2>1. PICK d \in DocsOf("seed") : /\ ~PiidConflict(d.piid)
                                  /\ contracts' = contracts \cup {NewRow(nextId, d, NoRef)}
    BY <1>2 DEF SeedContract
  <2>2. WithPiid(NewRow(nextId, d, NoRef).piid) = {}
    BY <2>1 DEF PiidConflict, NewRow
  <2> QED BY <1>1, <2>1, <2>2, RowInsert DEF PiidInv
<1>3. CASE UNCHANGED contracts
  BY <1>1, <1>3 DEF PiidInv, PiidUnique
<1> QED BY <1>2, <1>3 DEF Seed, SeedParent

LEMMA PiidCrash ==
    ASSUME PiidInv, Crash
    PROVE  PiidUnique' /\ LoopProtects'
<1>1. PiidUnique'
  BY DEF Crash, PiidInv, PiidUnique, tables
<1>2. LoopProtects'
  BY DEF Crash, LoopProtects, AtWrite
<1> QED BY <1>1, <1>2

LEMMA PiidStutter ==
    ASSUME PiidInv, UNCHANGED vars
    PROVE  PiidUnique' /\ LoopProtects'
BY DEF PiidInv, PiidUnique, LoopProtects, AtWrite, CheckIsFresh, WithPiid,
       vars, tables, locals

LEMMA PiidNext ==
    ASSUME ~OpenAI \/ Postgres
    PROVE  PiidInv /\ [Next]_vars => PiidInv'
<1> SUFFICES ASSUME PiidInv, [Next]_vars PROVE PiidUnique' /\ LoopProtects'
  BY NextType DEF PiidInv
<1>1. ASSUME NEW s \in Sources, EmbedDoc(s) PROVE PiidUnique' /\ LoopProtects'
  BY <1>1, PiidEmbed DEF EmbedDoc, Reject, tables
<1>2. ASSUME NEW s \in Sources, SyncStep(s) PROVE PiidUnique' /\ LoopProtects'
  BY <1>1, <1>2, PiidQuietSync, PiidSelect, PiidSave DEF SyncStep
<1>3. CASE UNCHANGED vars \/ Terminated
  BY <1>3, PiidStutter DEF Terminated
<1> QED BY <1>2, <1>3, PiidUsa, PiidClient, PiidSeed, PiidCrash DEF Next

\* One row per PIID, whatever the ingestors, the enrichment and the API
\* interleave and wherever the process dies, unless the service runs without
\* Postgres but with remote embeddings.
THEOREM PiidStaysUnique ==
    ASSUME ~OpenAI \/ Postgres
    PROVE  Spec => []PiidUnique
<1>1. PiidInv => PiidUnique
  BY DEF PiidInv
<1>2. PiidInv /\ [Next]_vars => PiidInv'
  BY PiidNext
<1> QED BY <1>1, <1>2, PiidInit, PTL DEF Spec

=============================================================================
