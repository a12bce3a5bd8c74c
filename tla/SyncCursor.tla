----------------------------- MODULE SyncCursor -----------------------------
(***************************************************************************)
(* One scheduled ingestor and its sync state in Redis: which window of the *)
(* feed a run asks for, how it pages through it, and what it records when  *)
(* it ends (run_sam_sync, run_fpds_sync, SyncStateStore, IngestScheduler). *)
(* What a document does to the database is ContractIngest; here it is one  *)
(* step.  The feed itself is external: it lists its notices in some order, *)
(* and may change while a run pages through it.                            *)
(*                                                                         *)
(* Operators marked [fault] are deliberately wrong versions of the one     *)
(* that follows them: exchanged for it, they must break a property.        *)
(***************************************************************************)
EXTENDS Integers, FiniteSets

CONSTANTS
    Notices, None,
    PageSize, MaxPages,     \* SAM: limit and max_pages; FPDS: one page
    Backlog,                \* days a source without a last sync looks back
    WithdrawalsAt,          \* labels of the run at which the feed may drop a notice
    SpansMidnight,          \* may a run end on a later day than it started?
    MaxDay,                 \* bound: days the model lives
    MaxFaults               \* bound: failed fetches and lost runs

ASSUME CursorAssumption ==
    /\ {PageSize, MaxPages} \subseteq Nat \ {0}
    /\ {Backlog, MaxDay, MaxFaults} \subseteq Nat
    /\ SpansMidnight \in BOOLEAN /\ IsFiniteSet(Notices)
    /\ None \notin Int

Days == 0..MaxDay

VARIABLES
    day,        \* datetime.now(UTC).date()
    posted,     \* day each notice appeared in the feed
    place,      \* where the feed lists each notice, 0 when it does not
    pc,         \* of the run: idle, fetch, handle or finish
    from,       \* posted_from / since of the run
    offset, pages, total, page,     \* paging variables; page: not yet handled
    state,      \* the source's SyncState in Redis
    handled,    \* notices upserted or counted as rejected by some run
    since,      \* first day of the window of the first run that succeeded
    faults

feed == <<posted, place>>
run  == <<from, offset, pages, total, page>>
vars == <<day, feed, pc, run, state, handled, since, faults>>

SyncState == [last: Days \cup {None}, errors: Nat, failures: Nat]

Init ==
    /\ day = 0 /\ posted = [n \in Notices |-> None] /\ place = [n \in Notices |-> 0]
    /\ pc = "idle" /\ from = 0 /\ offset = 0 /\ pages = 0 /\ total = 0 /\ page = {}
    /\ state = [last |-> None, errors |-> 0, failures |-> 0]
    /\ handled = {} /\ since = None /\ faults = 0

-----------------------------------------------------------------------------
(* The feed and the calendar.                                              *)

Listed == {n \in Notices : posted[n] # None}

\* A new notice may appear anywhere in the list; those behind it move up.
Publish(n) ==
    /\ posted[n] = None
    /\ posted' = [posted EXCEPT ![n] = day]
    /\ \E i \in 1..Cardinality(Listed) + 1 :
        place' = [m \in Notices |-> IF m = n THEN i
                                   ELSE IF place[m] >= i THEN place[m] + 1 ELSE place[m]]
    /\ UNCHANGED <<day, pc, run, state, handled, since, faults>>

Withdraw(n) ==
    /\ pc \in WithdrawalsAt /\ posted[n] # None
    /\ posted' = [posted EXCEPT ![n] = None]
    /\ place' = [m \in Notices |-> IF m = n THEN 0
                                  ELSE IF place[m] > place[n] THEN place[m] - 1 ELSE place[m]]
    /\ UNCHANGED <<day, pc, run, state, handled, since, faults>>

NextDay ==
    /\ day < MaxDay /\ (pc = "idle" \/ SpansMidnight)
    /\ day' = day + 1
    /\ UNCHANGED <<feed, pc, run, state, handled, since, faults>>

-----------------------------------------------------------------------------
(* A run.                                                                  *)

\* [fault] the last sync is ignored.
WindowFromNow == day

\* The day of the last sync; without one, a few days back.
WindowStart ==
    IF state.last # None THEN state.last
    ELSE IF day > Backlog THEN day - Backlog ELSE 0

\* The scheduler starts the job: read the state, fix the window.
StartRun ==
    /\ pc = "idle"
    /\ pc' = "fetch" /\ from' = WindowStart
    /\ offset' = 0 /\ pages' = 0 /\ total' = 0 /\ page' = {}
    /\ since' = IF state.last = None THEN WindowStart ELSE since
    /\ UNCHANGED <<day, feed, state, handled, faults>>

\* What the feed holds of the window, its first day included.
Window == {n \in Listed : posted[n] >= from}

\* How many of them the feed lists before n.
Ahead(n) == Cardinality({m \in Window : place[m] < place[n]})

\* One request: the next page of the window as the feed lists it now.
FetchPage ==
    /\ pc = "fetch"
    /\ page' = {n \in Window : offset <= Ahead(n) /\ Ahead(n) < offset + PageSize}
    /\ total' = Cardinality(Window)
    /\ offset' = offset + Cardinality(page') /\ pages' = pages + 1
    /\ pc' = "handle"
    /\ UNCHANGED <<day, feed, from, state, handled, since, faults>>

HandleNotice ==
    /\ pc = "handle"
    /\ \E n \in page : handled' = handled \cup {n} /\ page' = page \ {n}
    /\ UNCHANGED <<day, feed, pc, from, offset, pages, total, state, since, faults>>

\* [fault] one page is taken for the whole window.
OnePage == TRUE

\* No more records, or no more pages allowed.
LastPage == offset >= total \/ pages >= MaxPages

\* The page is done: the next one, or the end.
PageDone ==
    /\ pc = "handle" /\ page = {}
    /\ pc' = IF LastPage THEN "finish" ELSE "fetch"
    /\ UNCHANGED <<day, feed, run, state, handled, since, faults>>

\* [fault] the next window starts after this one.
RecordedNextDay == [state EXCEPT !.last = day + 1, !.failures = 0]

\* The success path writes last_sync = now.
Recorded == [state EXCEPT !.last = day, !.failures = 0]

Finish ==
    /\ pc = "finish"
    /\ state' = Recorded
    /\ pc' = "idle"
    /\ UNCHANGED <<day, feed, run, handled, since, faults>>

\* [fault] the failure path advances last_sync too.
FailedToday == [state EXCEPT !.last = day, !.errors = @ + 1, !.failures = @ + 1]

\* The failure path keeps last_sync.
Failed == [state EXCEPT !.errors = @ + 1, !.failures = @ + 1]

\* The request or the parsing of its answer raises.
FetchFails ==
    /\ pc = "fetch" /\ faults < MaxFaults
    /\ faults' = faults + 1
    /\ state' = Failed
    /\ pc' = "idle"
    /\ UNCHANGED <<day, feed, run, handled, since>>

\* The process dies, or Redis refuses the write: nothing is recorded.
RunLost ==
    /\ pc # "idle" /\ faults < MaxFaults
    /\ faults' = faults + 1
    /\ pc' = "idle"
    /\ UNCHANGED <<day, feed, run, state, handled, since>>

RunStep == StartRun \/ FetchPage \/ HandleNotice \/ PageDone \/ Finish

Next ==
    \/ \E n \in Notices : Publish(n) \/ Withdraw(n)
    \/ NextDay \/ RunStep \/ FetchFails \/ RunLost

\* The scheduler fires every day, and requests have a timeout of 30 seconds.
Spec == Init /\ [][Next]_vars /\ WF_vars(RunStep)

-----------------------------------------------------------------------------
(* Properties.                                                             *)

TypeOK ==
    /\ day \in Days /\ posted \in [Notices -> Days \cup {None}]
    /\ place \in [Notices -> Nat] /\ page \subseteq Notices
    /\ pc \in {"idle", "fetch", "handle", "finish"}
    /\ from \in Days /\ {offset, pages, total, faults} \subseteq Nat
    /\ state \in SyncState /\ handled \subseteq Notices
    /\ since \in Days \cup {None}

\* Everything the feed published before the recorded last sync has been
\* handled: failed, lost and truncated runs do not move last_sync over notices
\* nobody looked at.
CoveredUpToCursor ==
    state.last # None =>
        \A n \in Notices :
            posted[n] # None /\ since <= posted[n] /\ posted[n] < state.last
                => n \in handled

\* A run asks for a window that reaches back to the first day not covered yet,
\* whatever happened to the runs before it.
NoGapBeforeWindow ==
    pc # "idle" =>
        \A n \in Notices :
            posted[n] # None /\ since <= posted[n] /\ posted[n] < from
                => n \in handled

\* Every notice is eventually handled: later runs make up for failed and lost
\* ones, unless the feed drops it first or it predates the first window.
EventuallyHandled ==
    \A n \in Notices :
        posted[n] # None ~> \/ n \in handled \/ posted[n] = None
                            \/ since # None /\ posted[n] < since

\* SyncCursor implements FeedCoverage: every step of the code is a step of the
\* feed's promise, or changes nothing in it.
Coverage == INSTANCE FeedCoverage WITH upto <- state.last
ImplementsFeedCoverage == Coverage!Spec

=============================================================================
