--------------------------- MODULE SyncCursorProofs ---------------------------
(***************************************************************************)
(* Proofs about SyncCursor, for every feed, page size and number of days.  *)
(* A run asks for the page at an offset of a list that grows while it      *)
(* pages.  A notice that is inserted pushes others back, never forward, so *)
(* that an offset may read one twice but skips none; the rest is counting: *)
(* every page but the last is full.                                        *)
(***************************************************************************)
EXTENDS SyncCursor, FiniteSetTheorems, TLAPS

\* How many members of W stand before n in the order of pl.
Before(W, pl, n) == Cardinality({m \in W : pl[m] < pl[n]})

LEMMA BeforeBound ==
    ASSUME NEW W \in SUBSET Notices, NEW pl \in [Notices -> Nat], NEW n \in W
    PROVE  Before(W, pl, n) \in Nat /\ Before(W, pl, n) < Cardinality(W)
<1>1. IsFiniteSet(W)
  BY CursorAssumption, FS_Subset
<1>2. IsFiniteSet(W \ {n}) /\ Cardinality(W \ {n}) = Cardinality(W) - 1 /\ Cardinality(W) \in Nat
  BY <1>1, FS_RemoveElement, FS_CardinalityType
<1>3. {m \in W : pl[m] < pl[n]} \in SUBSET (W \ {n})
  OBVIOUS
<1>4. /\ Cardinality({m \in W : pl[m] < pl[n]}) <= Cardinality(W \ {n})
      /\ Cardinality({m \in W : pl[m] < pl[n]}) \in Nat
  BY <1>2, <1>3, FS_Subset, FS_CardinalityType
<1> QED  BY <1>2, <1>4 DEF Before

LEMMA BeforeGrows ==
    ASSUME NEW W \in SUBSET Notices, NEW pl \in [Notices -> Nat], NEW m \in W, NEW n \in W, pl[m] < pl[n]
    PROVE  Before(W, pl, m) < Before(W, pl, n)
<1> DEFINE M == {k \in W : pl[k] < pl[m]}
           N == {k \in W : pl[k] < pl[n]}
<1>1. IsFiniteSet(W)
  BY CursorAssumption, FS_Subset
<1>2. IsFiniteSet(N) /\ Cardinality(N) \in Nat
  BY <1>1, FS_Subset, FS_CardinalityType
<1>3. m \in N /\ M \in SUBSET (N \ {m})
  OBVIOUS
<1>4. IsFiniteSet(N \ {m}) /\ Cardinality(N \ {m}) = Cardinality(N) - 1
  BY <1>2, <1>3, FS_RemoveElement
<1>5. Cardinality(M) <= Cardinality(N \ {m}) /\ Cardinality(M) \in Nat
  BY <1>3, <1>4, FS_Subset, FS_CardinalityType
<1> QED  BY <1>2, <1>4, <1>5 DEF Before

\* Those whose rank is at least a and below b: no more than b - a.
Ranked(W, pl, a, b) == {n \in W : a <= Before(W, pl, n) /\ Before(W, pl, n) < b}

LEMMA RankedFew ==
    ASSUME NEW W \in SUBSET Notices, NEW pl \in [Notices -> Nat],
           \A m, n \in W : pl[m] = pl[n] => m = n,
           NEW a \in Nat, NEW b \in Nat, a <= b
    PROVE  LET P == Ranked(W, pl, a, b)
           IN  IsFiniteSet(P) /\ Cardinality(P) \in Nat /\ Cardinality(P) <= b - a
<1> DEFINE P == Ranked(W, pl, a, b)
           f == [n \in P |-> Before(W, pl, n)]
<1>0. \A n \in P : n \in W /\ Before(W, pl, n) \in Nat /\ a <= Before(W, pl, n) /\ Before(W, pl, n) < b
  BY BeforeBound DEF Ranked
<1>1. IsFiniteSet(P) /\ Cardinality(P) \in Nat
  <2>1. P \in SUBSET Notices
    BY DEF Ranked
  <2> QED  BY <2>1, CursorAssumption, FS_Subset, FS_CardinalityType
<1> HIDE DEF P
<1>2. \A n \in P : Before(W, pl, n) \in a..b - 1
  BY <1>0
<1>3. \A m, n \in P : Before(W, pl, m) = Before(W, pl, n) => m = n
  <2> SUFFICES ASSUME NEW m \in P, NEW n \in P, m # n PROVE Before(W, pl, m) # Before(W, pl, n)
    OBVIOUS
  <2>1. pl[m] < pl[n] \/ pl[n] < pl[m]
    BY <1>0
  <2>2. Before(W, pl, m) < Before(W, pl, n) \/ Before(W, pl, n) < Before(W, pl, m)
    BY <1>0, <2>1, BeforeGrows
  <2> QED  BY <1>0, <2>2
<1>4. f \in Injection(P, a..b - 1)
  <2>1. f \in [P -> a..b - 1]
    BY <1>2
  <2>2. \A m, n \in P : f[m] = f[n] => m = n
    BY <1>3
  <2> HIDE DEF f
  <2> QED  BY <2>1, <2>2 DEF Injection, IsInjective
<1>5. IsFiniteSet(a..b - 1) /\ Cardinality(a..b - 1) = b - a
  BY FS_Interval
<1> HIDE DEF f
<1>6. Cardinality(P) <= Cardinality(a..b - 1)
  BY <1>4, <1>5, FS_Injection
<1>7. IsFiniteSet(P) /\ Cardinality(P) \in Nat /\ Cardinality(P) <= b - a
  BY <1>1, <1>5, <1>6
<1> QED  BY <1>7 DEF P

\* A page is full unless it is the last: either it holds size notices, or the
\* offset passes the end of the window.
LEMMA PageFull ==
    ASSUME NEW W \in SUBSET Notices, NEW pl \in [Notices -> Nat],
           \A m, n \in W : pl[m] = pl[n] => m = n,
           NEW start \in Nat, NEW size \in Nat
    PROVE  LET P == Ranked(W, pl, start, start + size)
           IN  /\ Cardinality(P) \in Nat /\ Cardinality(P) <= size
               /\ Cardinality(P) = size \/ start + Cardinality(P) >= Cardinality(W)
<1> DEFINE P == Ranked(W, pl, start, start + size)
           L == Ranked(W, pl, 0, start)
           H == Ranked(W, pl, start + size, Cardinality(W))
<1>1. IsFiniteSet(P) /\ Cardinality(P) \in Nat /\ Cardinality(P) <= size
  BY RankedFew
<1>2. IsFiniteSet(L) /\ Cardinality(L) \in Nat /\ Cardinality(L) <= start
  BY RankedFew
<1>3. IsFiniteSet(W) /\ Cardinality(W) \in Nat
  BY CursorAssumption, FS_Subset, FS_CardinalityType
<1>4. /\ IsFiniteSet(H) /\ Cardinality(H) \in Nat
      /\ start + size <= Cardinality(W) => Cardinality(H) <= Cardinality(W) - (start + size)
      /\ start + size > Cardinality(W) => Cardinality(H) = 0
  <2>1. CASE start + size <= Cardinality(W)
    BY <1>3, <2>1, RankedFew
  <2>2. CASE start + size > Cardinality(W)
    <3>1. H = {}
      BY <1>3, <2>2, BeforeBound DEF Ranked
    <3>2. IsFiniteSet({}) /\ Cardinality({}) = 0
      BY FS_EmptySet
    <3>3. IsFiniteSet(H) /\ Cardinality(H) = 0
      BY <3>1, <3>2
    <3> HIDE DEF H
    <3> QED  BY <1>3, <2>2, <3>3
  <2> QED  BY <1>3, <2>1, <2>2
<1>5. W = (L \cup P) \cup H /\ L \cap P = {} /\ (L \cup P) \cap H = {}
  BY BeforeBound DEF Ranked
<1> HIDE DEF L, P, H
<1>6. IsFiniteSet(L \cup P) /\ Cardinality(L \cup P) = Cardinality(L) + Cardinality(P)
  <2>1. Cardinality(L \cap P) = 0
    BY <1>5, FS_EmptySet
  <2>2. /\ IsFiniteSet(L \cup P)
        /\ Cardinality(L \cup P) = Cardinality(L) + Cardinality(P) - Cardinality(L \cap P)
    BY <1>1, <1>2, FS_Union
  <2> QED  BY <1>1, <1>2, <2>1, <2>2
<1>7. Cardinality(W) = Cardinality(L \cup P) + Cardinality(H)
  <2>1. Cardinality((L \cup P) \cap H) = 0
    BY <1>5, FS_EmptySet
  <2>2. Cardinality((L \cup P) \cup H) = Cardinality(L \cup P) + Cardinality(H) - Cardinality((L \cup P) \cap H)
    BY <1>4, <1>6, FS_Union
  <2> QED  BY <1>1, <1>2, <1>4, <1>5, <1>6, <2>1, <2>2
<1>8. Cardinality(P) = size \/ start + Cardinality(P) >= Cardinality(W)
  BY <1>1, <1>2, <1>3, <1>4, <1>6, <1>7
<1> QED  BY <1>1, <1>8 DEF P

\* A list that gains members keeps the order of the others: no rank gets smaller.
LEMMA RankKept ==
    ASSUME NEW W \in SUBSET Notices, NEW V \in SUBSET Notices, W \subseteq V,
           NEW pl \in [Notices -> Nat], NEW ql \in [Notices -> Nat],
           \A m, n \in W : pl[m] < pl[n] => ql[m] < ql[n], NEW n \in W
    PROVE  Before(W, pl, n) <= Before(V, ql, n)
<1>1. {m \in W : pl[m] < pl[n]} \subseteq {m \in V : ql[m] < ql[n]}
  OBVIOUS
<1>2. IsFiniteSet({m \in V : ql[m] < ql[n]})
  <2>1. {m \in V : ql[m] < ql[n]} \in SUBSET Notices
    OBVIOUS
  <2> QED  BY <2>1, CursorAssumption, FS_Subset
<1> QED  BY <1>1, <1>2, FS_Subset DEF Before

-----------------------------------------------------------------------------
(* The inductive invariant.                                                *)

\* When the recorded day can be trusted: no run spans midnight, the feed drops
\* nothing while a run pages through it, and it fits into the pages of a run.
FeedFits ==
    /\ ~SpansMidnight /\ WithdrawalsAt \subseteq {"idle", "finish"}
    /\ Cardinality(Notices) <= PageSize * MaxPages

\* The feed is a list: no two notices in one place.
PlacesInv == \A m, n \in Listed : place[m] = place[n] => m = n

\* Where the window of a run starts, and where that of the first one did.
WindowInv ==
    /\ state.last # None => since # None /\ state.last <= day
    /\ pc # "idle" =>
        /\ from <= day
        /\ IF state.last = None THEN since = from ELSE from = state.last
    /\ pc \in {"fetch", "finish"} => page = {}

\* The offset is past everything of earlier days that has been read, and when it
\* is past the end, or the pages are spent, everything has been.
Seen(n) == n \in handled \cup page

PagingInv ==
    /\ pc \in {"fetch", "handle"} =>
        \A n \in Window : posted[n] < day /\ Ahead(n) < offset => Seen(n)
    /\ pc = "fetch"  => pages < MaxPages /\ offset >= pages * PageSize
    /\ pc = "handle" => pages <= MaxPages /\ (offset >= total \/ offset >= pages * PageSize)
    /\ pc = "handle" => total <= Cardinality(Notices)
    /\ pc = "finish" \/ (pc = "handle" /\ offset >= total) =>
        \A n \in Window : posted[n] < day => Seen(n)

CursorInv == TypeOK /\ PlacesInv /\ WindowInv /\ CoveredUpToCursor /\ NoGapBeforeWindow /\ PagingInv

-----------------------------------------------------------------------------
(* Type correctness.                                                       *)

LEMMA Typed ==
    ASSUME TypeOK
    PROVE  /\ day \in Nat /\ posted \in [Notices -> Days \cup {None}] /\ place \in [Notices -> Nat]
           /\ page \subseteq Notices /\ from \in Nat /\ offset \in Nat /\ pages \in Nat /\ total \in Nat
           /\ faults \in Nat /\ state.last \in Days \cup {None} /\ Days \subseteq Nat
           /\ Window \in SUBSET Notices /\ Listed \in SUBSET Notices /\ None \notin Days
  BY CursorAssumption DEF TypeOK, Days, SyncState, Window, Listed

LEMMA Cardinals ==
    /\ \A S \in SUBSET Notices : IsFiniteSet(S) /\ Cardinality(S) \in Nat /\ Cardinality(S) <= Cardinality(Notices)
    /\ Cardinality(Notices) \in Nat /\ PageSize \in Nat \ {0} /\ MaxPages \in Nat \ {0}
  BY CursorAssumption, FS_Subset, FS_CardinalityType

LEMMA AheadIs == \A n : Ahead(n) = Before(Window, place, n)
  BY DEF Ahead, Before

LEMMA WindowStartType == ASSUME TypeOK PROVE WindowStart \in Days
  BY CursorAssumption DEF TypeOK, WindowStart, Days, SyncState

LEMMA TypeInit == Init => TypeOK
  BY CursorAssumption DEF Init, TypeOK, Days, SyncState

LEMMA TypeStep == TypeOK /\ [Next]_vars => TypeOK'
<1> SUFFICES ASSUME TypeOK, [Next]_vars PROVE TypeOK'
  OBVIOUS
<1>1. ASSUME NEW n \in Notices, Publish(n) PROVE TypeOK'
  <2>1. PICK i \in 1..Cardinality(Listed) + 1 :
            place' = [m \in Notices |-> IF m = n THEN i
                                       ELSE IF place[m] >= i THEN place[m] + 1 ELSE place[m]]
    BY <1>1 DEF Publish
  <2>2. i \in Nat
    BY Typed, Cardinals
  <2>3. place' \in [Notices -> Nat]
    BY <2>1, <2>2, Typed
  <2>4. posted' \in [Notices -> Days \cup {None}]
    BY <1>1, Typed DEF Publish, TypeOK
  <2> QED  BY <1>1, <2>3, <2>4 DEF Publish, TypeOK, run
<1>2. ASSUME NEW n \in Notices, Withdraw(n) PROVE TypeOK'
  <2>1. place' = [m \in Notices |-> IF m = n THEN 0
                                    ELSE IF place[m] > place[n] THEN place[m] - 1 ELSE place[m]]
    BY <1>2 DEF Withdraw
  <2>2. \A m \in Notices : place[m] > place[n] => place[m] - 1 \in Nat
    BY Typed
  <2>3. place' \in [Notices -> Nat]
    BY <2>1, <2>2, Typed
  <2>4. posted' \in [Notices -> Days \cup {None}]
    BY <1>2, Typed DEF Withdraw
  <2> QED  BY <1>2, <2>3, <2>4 DEF Withdraw, TypeOK, run
<1>3. ASSUME NextDay PROVE TypeOK'
  BY <1>3, CursorAssumption DEF NextDay, TypeOK, feed, run, Days
<1>4. ASSUME StartRun PROVE TypeOK'
  BY <1>4, WindowStartType DEF StartRun, TypeOK, feed
<1>5. ASSUME FetchPage PROVE TypeOK'
  <2>1. page' \in SUBSET Notices
    BY <1>5, Typed DEF FetchPage
  <2>2. offset' \in Nat /\ total' \in Nat /\ pages' \in Nat
    BY <1>5, <2>1, Typed, Cardinals DEF FetchPage
  <2> QED  BY <1>5, <2>1, <2>2 DEF FetchPage, TypeOK, feed
<1>6. ASSUME HandleNotice PROVE TypeOK'
  BY <1>6 DEF HandleNotice, TypeOK, feed
<1>7. ASSUME PageDone PROVE TypeOK'
  BY <1>7 DEF PageDone, TypeOK, feed, run
<1>8. ASSUME Finish PROVE TypeOK'
  BY <1>8 DEF Finish, Recorded, TypeOK, SyncState, feed, run
<1>9. ASSUME FetchFails PROVE TypeOK'
  <2>1. state \in SyncState /\ state.errors + 1 \in Nat /\ state.failures + 1 \in Nat
    BY DEF TypeOK, SyncState
  <2>2. state' = [state EXCEPT !.errors = state.errors + 1, !.failures = state.failures + 1]
    BY <1>9 DEF FetchFails, Failed
  <2>3. state' \in SyncState
    BY <2>1, <2>2 DEF SyncState
  <2>4. faults' \in Nat
    BY <1>9, Typed DEF FetchFails
  <2> QED  BY <1>9, <2>3, <2>4 DEF FetchFails, TypeOK, feed, run
<1>10. ASSUME RunLost PROVE TypeOK'
  BY <1>10 DEF RunLost, TypeOK, feed, run
<1>11. ASSUME UNCHANGED vars PROVE TypeOK'
  BY <1>11 DEF vars, TypeOK, feed, run
<1> QED  BY <1>1, <1>2, <1>3, <1>4, <1>5, <1>6, <1>7, <1>8, <1>9, <1>10, <1>11 DEF Next, RunStep

\* The sync state, the window and the paging variables of a run stay typed; in
\* particular the window never starts before the first day or after today.
THEOREM CursorTypeCorrect == Spec => []TypeOK
  BY TypeInit, TypeStep, PTL DEF Spec

-----------------------------------------------------------------------------
(* The steps of the feed.                                                  *)

LEMMA PublishStep ==
    ASSUME CursorInv, FeedFits, NEW n \in Notices, Publish(n)
    PROVE  PlacesInv' /\ WindowInv' /\ CoveredUpToCursor' /\ NoGapBeforeWindow' /\ PagingInv'
<1>0. TypeOK /\ TypeOK'
  BY TypeStep DEF CursorInv, Next
<1>1. PICK i \in Nat :
          place' = [m \in Notices |-> IF m = n THEN i
                                     ELSE IF place[m] >= i THEN place[m] + 1 ELSE place[m]]
  <2>1. \A i \in 1..Cardinality(Listed) + 1 : i \in Nat
    BY <1>0, Typed, Cardinals
  <2> QED  BY <2>1 DEF Publish
<1>2. /\ posted[n] = None /\ posted' = [posted EXCEPT ![n] = day] /\ place \in [Notices -> Nat]
      /\ UNCHANGED <<day, pc, run, state, handled, since, faults>>
      /\ posted \in [Notices -> Days \cup {None}] /\ day \in Days /\ from \in Nat /\ day \in Nat
  BY <1>0, Typed DEF Publish, TypeOK
<1>3. \A m \in Notices : m # n => posted'[m] = posted[m]
  BY <1>2
<1>4. posted'[n] = day
  BY <1>2
<1>5. \A k, m \in Notices : k # n /\ m # n /\ place[k] < place[m] => place'[k] < place'[m]
  BY <1>1, <1>2
<1>6. PlacesInv'
  BY <1>1, <1>2, <1>3 DEF CursorInv, PlacesInv, Listed
<1>7. WindowInv'
  BY <1>2 DEF CursorInv, WindowInv, run
<1>8. CoveredUpToCursor' /\ NoGapBeforeWindow'
  <2>1. state.last # None => state.last <= day
    BY DEF CursorInv, WindowInv
  <2>2. pc # "idle" => from <= day
    BY DEF CursorInv, WindowInv
  <2>3. CoveredUpToCursor'
    <3> SUFFICES ASSUME state.last # None, NEW m \in Notices,
                        posted'[m] # None, since <= posted'[m], posted'[m] < state.last
                 PROVE  m \in handled
      BY <1>2 DEF CoveredUpToCursor
    <3>1. state.last \in Nat
      BY <1>0, Typed
    <3>2. m # n
      BY <1>2, <1>4, <2>1, <3>1
    <3> QED  BY <1>3, <3>2 DEF CursorInv, CoveredUpToCursor
  <2>4. NoGapBeforeWindow'
    <3> SUFFICES ASSUME pc # "idle", NEW m \in Notices,
                        posted'[m] # None, since <= posted'[m], posted'[m] < from
                 PROVE  m \in handled
      BY <1>2 DEF NoGapBeforeWindow, run
    <3>2. m # n
      BY <1>2, <1>4, <2>2
    <3> QED  BY <1>3, <3>2 DEF CursorInv, NoGapBeforeWindow
  <2> QED  BY <2>3, <2>4
<1>9. ASSUME pc # "idle", NEW m \in Window', posted'[m] < day
      PROVE  m \in Window /\ m # n /\ posted'[m] = posted[m] /\ Ahead(m) <= Ahead(m)'
  <2>1. m # n
    BY <1>0, <1>2, <1>4, <1>9
  <2>2. m \in Window /\ posted'[m] = posted[m]
    BY <1>2, <1>3, <1>9, <2>1 DEF Window, Listed, run
  <2>3. Window \in SUBSET Notices /\ Window' \in SUBSET Notices /\ Window \subseteq Window' /\ n \notin Window
    BY <1>2, <1>3 DEF Window, Listed, run
  <2>4. place' \in [Notices -> Nat]
    BY <1>0 DEF TypeOK
  <2>5. Before(Window, place, m) <= Before(Window', place', m)
    BY <1>2, <1>5, <2>2, <2>3, <2>4, RankKept
  <2>6. Ahead(m)' = Before(Window', place', m)
    BY DEF Ahead, Before
  <2> QED  BY <2>1, <2>2, <2>5, <2>6, AheadIs
<1>10. PagingInv'
  <2>1. ASSUME NEW m \in Window', pc # "idle", posted'[m] < day, Ahead(m)' < offset PROVE Ahead(m) < offset
    <3>1. Ahead(m) \in Nat
      BY <1>0, <1>9, <2>1, AheadIs, BeforeBound, Typed
    <3>2. Ahead(m)' \in Nat
      <4>1. Window' \in SUBSET Notices /\ place' \in [Notices -> Nat]
        BY <1>0 DEF TypeOK, Window, Listed
      <4> QED  BY <4>1, <2>1, BeforeBound DEF Ahead, Before
    <3> QED  BY <1>0, <1>9, <2>1, <3>1, <3>2, Typed
  <2> QED  BY <1>2, <1>9, <2>1 DEF CursorInv, PagingInv, Seen, run
<1> QED  BY <1>6, <1>7, <1>8, <1>10

LEMMA WithdrawStep ==
    ASSUME CursorInv, FeedFits, NEW n \in Notices, Withdraw(n)
    PROVE  PlacesInv' /\ WindowInv' /\ CoveredUpToCursor' /\ NoGapBeforeWindow' /\ PagingInv'
<1>0. TypeOK /\ pc \in {"idle", "finish"} /\ place \in [Notices -> Nat]
  BY Typed DEF CursorInv, FeedFits, Withdraw
<1>1. place' = [m \in Notices |-> IF m = n THEN 0
                                  ELSE IF place[m] > place[n] THEN place[m] - 1 ELSE place[m]]
  BY DEF Withdraw
<1>2. /\ posted[n] # None /\ posted' = [posted EXCEPT ![n] = None]
      /\ UNCHANGED <<day, pc, run, state, handled, since, faults>>
      /\ posted \in [Notices -> Days \cup {None}]
  BY <1>0, Typed DEF Withdraw
<1>3. posted'[n] = None /\ \A m \in Notices : m # n => posted'[m] = posted[m]
  BY <1>2
<1>4. PlacesInv'
  <2> SUFFICES ASSUME NEW k \in Notices, NEW m \in Notices, k # n, m # n, place'[k] = place'[m],
                      posted[k] # None, posted[m] # None
               PROVE  k = m
    BY <1>3 DEF PlacesInv, Listed
  <2>1. place[k] # place[n] /\ place[m] # place[n]
    BY <1>2 DEF CursorInv, PlacesInv, Listed
  <2>2. place[k] = place[m]
    BY <1>0, <1>1, <2>1
  <2> QED  BY <2>2 DEF CursorInv, PlacesInv, Listed
<1>5. WindowInv'
  BY <1>2 DEF CursorInv, WindowInv, run
<1>6. CoveredUpToCursor' /\ NoGapBeforeWindow'
  BY <1>2, <1>3 DEF CursorInv, CoveredUpToCursor, NoGapBeforeWindow, run
<1>7. PagingInv'
  BY <1>0, <1>2, <1>3 DEF CursorInv, PagingInv, Seen, Window, Listed, run
<1> QED  BY <1>4, <1>5, <1>6, <1>7

-----------------------------------------------------------------------------
(* The steps of a run.                                                     *)

LEMMA StartStep ==
    ASSUME CursorInv, StartRun
    PROVE  PlacesInv' /\ WindowInv' /\ CoveredUpToCursor' /\ NoGapBeforeWindow' /\ PagingInv'
<1>0. TypeOK /\ TypeOK'
  BY TypeStep DEF CursorInv, Next, RunStep
<1>1. /\ pc' = "fetch" /\ from' = WindowStart /\ offset' = 0 /\ pages' = 0 /\ page' = {}
      /\ since' = (IF state.last = None THEN WindowStart ELSE since)
      /\ UNCHANGED <<day, posted, place, state, handled>>
  BY DEF StartRun, feed
<1>2. WindowStart \in Nat /\ WindowStart <= day /\ (state.last # None => WindowStart = state.last)
  BY <1>0, Typed, CursorAssumption DEF CursorInv, WindowInv, WindowStart
<1>3. PlacesInv'
  BY <1>1 DEF CursorInv, PlacesInv, Listed
<1>4. WindowInv'
  BY <1>1, <1>2 DEF CursorInv, WindowInv
<1>5. CoveredUpToCursor'
  BY <1>1 DEF CursorInv, CoveredUpToCursor
<1>6. NoGapBeforeWindow'
  <2> SUFFICES ASSUME NEW n \in Notices, posted[n] # None, since' <= posted[n], posted[n] < WindowStart
               PROVE  n \in handled
    BY <1>1 DEF NoGapBeforeWindow
  <2>1. posted[n] \in Nat
    BY <1>0, Typed
  <2>2. state.last # None
    BY <1>1, <1>2, <2>1
  <2> QED  BY <1>1, <1>2, <2>2 DEF CursorInv, CoveredUpToCursor
<1>7. PagingInv'
  <2>1. \A n \in Window' : Ahead(n)' \in Nat
    <3>1. Window' \in SUBSET Notices /\ place' \in [Notices -> Nat]
      BY <1>0 DEF TypeOK, Window, Listed
    <3> QED  BY <3>1, BeforeBound DEF Ahead, Before
  <2> QED  BY <1>1, <2>1, Cardinals DEF PagingInv
<1> QED  BY <1>3, <1>4, <1>5, <1>6, <1>7

LEMMA FetchStep ==
    ASSUME CursorInv, FetchPage
    PROVE  PlacesInv' /\ WindowInv' /\ CoveredUpToCursor' /\ NoGapBeforeWindow' /\ PagingInv'
<1>0. TypeOK /\ page = {} /\ pc = "fetch"
  BY DEF CursorInv, WindowInv, FetchPage
<1> DEFINE P == Ranked(Window, place, offset, offset + PageSize)
<1>1. /\ page' = P /\ total' = Cardinality(Window) /\ offset' = offset + Cardinality(P) /\ pages' = pages + 1
      /\ pc' = "handle" /\ UNCHANGED <<day, posted, place, from, state, handled, since>>
  BY AheadIs DEF FetchPage, Ranked, feed
<1>2. UNCHANGED <<Window, Listed>> /\ \A n : Ahead(n)' = Ahead(n)
  BY <1>1 DEF Window, Listed, Ahead
<1>3. Window \in SUBSET Notices /\ place \in [Notices -> Nat] /\ \A m, n \in Window : place[m] = place[n] => m = n
  BY <1>0, Typed DEF CursorInv, PlacesInv, Window
<1>4. /\ Cardinality(P) \in Nat /\ Cardinality(P) <= PageSize
      /\ Cardinality(P) = PageSize \/ offset + Cardinality(P) >= Cardinality(Window)
  BY <1>0, <1>3, PageFull, Cardinals, Typed
<1>5. /\ offset \in Nat /\ pages \in Nat /\ PageSize \in Nat /\ MaxPages \in Nat
      /\ Cardinality(Window) \in Nat /\ Cardinality(Window) <= Cardinality(Notices)
      /\ pages < MaxPages /\ offset >= pages * PageSize
  BY <1>0, <1>3, Typed, Cardinals DEF CursorInv, PagingInv
<1>6. ASSUME NEW n \in Window, posted[n] < day, Ahead(n) < offset + Cardinality(P)
      PROVE  n \in handled \cup P
  <2>1. Ahead(n) \in Nat /\ Ahead(n) = Before(Window, place, n)
    BY <1>3, AheadIs, BeforeBound
  <2>2. CASE Ahead(n) < offset
    BY <1>0, <1>6, <2>2 DEF CursorInv, PagingInv, Seen
  <2>3. CASE offset <= Ahead(n)
    BY <1>4, <1>5, <1>6, <2>1, <2>3 DEF Ranked
  <2> QED  BY <1>5, <2>1, <2>2, <2>3
<1>7. ASSUME offset + Cardinality(P) >= Cardinality(Window), NEW n \in Window, posted[n] < day
      PROVE  n \in handled \cup P
  <2>1. Ahead(n) \in Nat /\ Ahead(n) < Cardinality(Window)
    BY <1>3, AheadIs, BeforeBound
  <2> QED  BY <1>4, <1>5, <1>6, <1>7, <2>1
<1>8. offset + Cardinality(P) >= Cardinality(Window) \/ offset + Cardinality(P) >= (pages + 1) * PageSize
  <2>1. (pages + 1) * PageSize = pages * PageSize + PageSize /\ pages * PageSize \in Nat
    BY <1>5
  <2> QED  BY <1>4, <1>5, <2>1
<1> HIDE DEF P
<1>9. PagingInv'
  BY <1>1, <1>2, <1>5, <1>6, <1>7, <1>8 DEF PagingInv, Seen
<1> QED  BY <1>0, <1>1, <1>2, <1>9 DEF CursorInv, PlacesInv, WindowInv, CoveredUpToCursor, NoGapBeforeWindow

LEMMA HandleStep ==
    ASSUME CursorInv, HandleNotice
    PROVE  PlacesInv' /\ WindowInv' /\ CoveredUpToCursor' /\ NoGapBeforeWindow' /\ PagingInv'
<1>1. PICK n \in page : handled' = handled \cup {n} /\ page' = page \ {n}
  BY DEF HandleNotice
<1>2. pc = "handle" /\ UNCHANGED <<day, posted, place, pc, from, offset, pages, total, state, since>>
  BY DEF HandleNotice, feed
<1>3. UNCHANGED <<Window, Listed>> /\ (\A m : Ahead(m)' = Ahead(m)) /\ \A m : Seen(m) => Seen(m)'
  BY <1>1, <1>2 DEF Window, Listed, Ahead, Seen
<1>4. PagingInv'
  BY <1>2, <1>3 DEF CursorInv, PagingInv
<1> QED  BY <1>1, <1>2, <1>3, <1>4 DEF CursorInv, PlacesInv, WindowInv, CoveredUpToCursor, NoGapBeforeWindow

LEMMA PageDoneStep ==
    ASSUME CursorInv, FeedFits, PageDone
    PROVE  PlacesInv' /\ WindowInv' /\ CoveredUpToCursor' /\ NoGapBeforeWindow' /\ PagingInv'
<1>0. TypeOK /\ pc = "handle" /\ page = {}
      /\ UNCHANGED <<day, posted, place, from, offset, pages, total, page, state, handled, since>>
  BY DEF CursorInv, PageDone, feed, run
<1>1. UNCHANGED <<Window, Listed>> /\ (\A m : Ahead(m)' = Ahead(m)) /\ \A m : Seen(m)' = Seen(m)
  BY <1>0 DEF Window, Listed, Ahead, Seen
<1>2. /\ offset \in Nat /\ pages \in Nat /\ total \in Nat /\ MaxPages \in Nat /\ PageSize \in Nat
      /\ Cardinality(Notices) \in Nat
  BY <1>0, Typed, Cardinals
<1>3. CASE LastPage
  <2>1. pc' = "finish"
    BY <1>3 DEF PageDone
  <2>2. offset >= total
    <3>1. CASE pages >= MaxPages
      <4>1. pages = MaxPages
        BY <1>0, <1>2, <3>1 DEF CursorInv, PagingInv
      <4>2. Cardinality(Notices) <= pages * PageSize /\ pages * PageSize \in Nat
        BY <1>2, <4>1 DEF FeedFits
      <4>3. total <= Cardinality(Notices) /\ (offset >= total \/ offset >= pages * PageSize)
        BY <1>0 DEF CursorInv, PagingInv
      <4> QED  BY <1>2, <4>2, <4>3
    <3> QED  BY <1>3, <3>1 DEF LastPage
  <2>3. \A n \in Window : posted[n] < day => Seen(n)
    BY <1>0, <2>2 DEF CursorInv, PagingInv
  <2>4. PagingInv'
    BY <1>0, <1>1, <2>1, <2>3 DEF PagingInv
  <2> QED  BY <1>0, <1>1, <2>1, <2>4 DEF CursorInv, PlacesInv, WindowInv, CoveredUpToCursor, NoGapBeforeWindow
<1>4. CASE ~LastPage
  <2>1. pc' = "fetch"
    BY <1>4 DEF PageDone
  <2>2. pages < MaxPages /\ offset >= pages * PageSize
    BY <1>0, <1>2, <1>4 DEF LastPage, CursorInv, PagingInv
  <2>3. PagingInv'
    BY <1>0, <1>1, <2>1, <2>2 DEF CursorInv, PagingInv
  <2> QED  BY <1>0, <1>1, <2>1, <2>3 DEF CursorInv, PlacesInv, WindowInv, CoveredUpToCursor, NoGapBeforeWindow
<1> QED  BY <1>3, <1>4

\* The day the run ends on is covered: what lies before its window was, and what
\* lies in it has been read.
LEMMA DayCovered ==
    ASSUME CursorInv, pc = "finish", NEW n \in Notices, posted[n] # None, since <= posted[n], posted[n] < day
    PROVE  n \in handled
<1>1. posted[n] \in Nat /\ from \in Nat
  BY Typed DEF CursorInv
<1>2. CASE posted[n] < from
  BY <1>2 DEF CursorInv, NoGapBeforeWindow
<1>3. CASE posted[n] >= from
  <2>1. n \in Window /\ page = {}
    BY <1>3 DEF Window, Listed, CursorInv, WindowInv
  <2> QED  BY <2>1 DEF CursorInv, PagingInv, Seen
<1> QED  BY <1>1, <1>2, <1>3

LEMMA FinishStep ==
    ASSUME CursorInv, Finish
    PROVE  PlacesInv' /\ WindowInv' /\ CoveredUpToCursor' /\ NoGapBeforeWindow' /\ PagingInv'
<1>0. TypeOK /\ pc = "finish" /\ pc' = "idle" /\ UNCHANGED <<day, posted, place, handled, since>> /\ since # None
  <2>1. from # None /\ (state.last = None => since = from) /\ (state.last # None => since # None)
    BY Typed, CursorAssumption DEF CursorInv, WindowInv, Finish
  <2> QED  BY <2>1 DEF CursorInv, Finish, feed
<1>1. state'.last = day
  BY <1>0 DEF Finish, Recorded, TypeOK, SyncState
<1>2. day \in Nat /\ day # None
  BY <1>0, Typed DEF TypeOK
<1>3. CoveredUpToCursor'
  BY <1>0, <1>1, DayCovered DEF CoveredUpToCursor
<1> QED  BY <1>0, <1>1, <1>2, <1>3 DEF CursorInv, PlacesInv, Listed, WindowInv, NoGapBeforeWindow, PagingInv

LEMMA QuietStep ==
    ASSUME CursorInv, FeedFits, NextDay \/ FetchFails \/ RunLost \/ UNCHANGED vars
    PROVE  PlacesInv' /\ WindowInv' /\ CoveredUpToCursor' /\ NoGapBeforeWindow' /\ PagingInv'
<1>0. TypeOK
  BY DEF CursorInv
<1>1. CASE UNCHANGED vars
  BY <1>1 DEF vars, feed, run, CursorInv, PlacesInv, Listed, WindowInv, CoveredUpToCursor, NoGapBeforeWindow,
              PagingInv, Window, Ahead, Seen
<1>2. CASE NextDay
  <2>1. pc = "idle" /\ pc' = "idle" /\ day' = day + 1 /\ UNCHANGED <<posted, place, state, handled, since>>
    BY <1>2 DEF NextDay, FeedFits, feed
  <2> QED  BY <1>0, <2>1, Typed
      DEF CursorInv, PlacesInv, Listed, WindowInv, CoveredUpToCursor, NoGapBeforeWindow, PagingInv
<1>3. CASE FetchFails \/ RunLost
  <2>1. pc' = "idle" /\ UNCHANGED <<day, posted, place, handled, since>>
    BY <1>3 DEF FetchFails, RunLost, feed
  <2>2. state'.last = state.last
    BY <1>0, <1>3 DEF FetchFails, RunLost, Failed, TypeOK, SyncState
  <2> QED  BY <2>1, <2>2
      DEF CursorInv, PlacesInv, Listed, WindowInv, CoveredUpToCursor, NoGapBeforeWindow, PagingInv
<1> QED  BY <1>1, <1>2, <1>3

LEMMA CursorInit == Init => CursorInv
<1> SUFFICES ASSUME Init PROVE CursorInv
  OBVIOUS
<1>1. TypeOK
  BY TypeInit
<1> QED  BY <1>1 DEF Init, CursorInv, PlacesInv, Listed, WindowInv, CoveredUpToCursor, NoGapBeforeWindow, PagingInv

LEMMA CursorNext == FeedFits => (CursorInv /\ [Next]_vars => CursorInv')
<1> SUFFICES ASSUME FeedFits, CursorInv, [Next]_vars PROVE CursorInv'
  OBVIOUS
<1>1. TypeOK'
  BY TypeStep DEF CursorInv
<1>2. PlacesInv' /\ WindowInv' /\ CoveredUpToCursor' /\ NoGapBeforeWindow' /\ PagingInv'
  BY PublishStep, WithdrawStep, StartStep, FetchStep, HandleStep, PageDoneStep, FinishStep, QuietStep
  DEF Next, RunStep
<1> QED  BY <1>1, <1>2 DEF CursorInv

\* The recorded day is never ahead of what was looked at, whatever runs failed,
\* were lost or read while the feed grew.
THEOREM CursorIsCovered ==
    ASSUME FeedFits
    PROVE  Spec => []CoveredUpToCursor
<1>1. CursorInv => CoveredUpToCursor
  BY DEF CursorInv
<1>2. CursorInv /\ [Next]_vars => CursorInv'
  BY CursorNext
<1> QED  BY <1>1, <1>2, CursorInit, PTL DEF Spec

\* Each run asks for all that the runs before it have not covered.
THEOREM WindowsLeaveNoGap ==
    ASSUME FeedFits
    PROVE  Spec => []NoGapBeforeWindow
<1>1. CursorInv => NoGapBeforeWindow
  BY DEF CursorInv
<1>2. CursorInv /\ [Next]_vars => CursorInv'
  BY CursorNext
<1> QED  BY <1>1, <1>2, CursorInit, PTL DEF Spec

-----------------------------------------------------------------------------
(* Every step is a step of the feed's promise, or changes nothing in it.   *)

LEMMA CoverageInit == Init => Coverage!Init
  BY DEF Init, Coverage!Init

LEMMA FeedRefines ==
    ASSUME CursorInv, NEW n \in Notices, Publish(n) \/ Withdraw(n)
    PROVE  Coverage!Next
<1>1. CASE Publish(n)
  <2>1. day \in Days /\ (state.last # None => day >= state.last)
    BY Typed DEF CursorInv, TypeOK, WindowInv
  <2>2. Coverage!Publish(n, day)
    BY <1>1, <2>1 DEF Publish, Coverage!Publish
  <2> QED  BY <2>1, <2>2 DEF Coverage!Next
<1>2. CASE Withdraw(n)
  <2>1. Coverage!Withdraw(n)
    BY <1>2 DEF Withdraw, Coverage!Withdraw
  <2> QED  BY <2>1 DEF Coverage!Next
<1> QED  BY <1>1, <1>2

LEMMA RunRefines ==
    ASSUME CursorInv, StartRun \/ HandleNotice \/ Finish
    PROVE  Coverage!Next \/ UNCHANGED Coverage!vars
<1>0. TypeOK
  BY DEF CursorInv
<1>1. CASE StartRun
  <2>1. CASE state.last = None
    <3>1. WindowStart \in Days
      BY <1>0, WindowStartType
    <3>2. Coverage!Begin(WindowStart)
      BY <1>1, <2>1 DEF StartRun, Coverage!Begin, feed
    <3> QED  BY <3>1, <3>2 DEF Coverage!Next
  <2>2. CASE state.last # None
    BY <1>1, <2>2 DEF StartRun, Coverage!vars, feed
  <2> QED  BY <2>1, <2>2
<1>2. CASE HandleNotice
  <2>1. PICK n \in page : handled' = handled \cup {n}
    BY <1>2 DEF HandleNotice
  <2>2. n \in Notices
    BY <1>0, Typed
  <2>3. Coverage!Handle(n)
    BY <1>2, <2>1 DEF HandleNotice, Coverage!Handle, feed
  <2> QED  BY <2>2, <2>3 DEF Coverage!Next
<1>3. CASE Finish
  <2>1. state'.last = day
    BY <1>0, <1>3 DEF Finish, Recorded, TypeOK, SyncState
  <2>2. since # None
    <3>1. from # None /\ (state.last = None => since = from) /\ (state.last # None => since # None)
      BY <1>0, <1>3, Typed, CursorAssumption DEF CursorInv, WindowInv, Finish
    <3> QED  BY <3>1
  <2>3. day \in Days /\ (state.last # None => day >= state.last)
    BY <1>0, Typed DEF CursorInv, TypeOK, WindowInv
  <2>4. Coverage!Covered(day)
    BY <1>0, <1>3, DayCovered, Typed DEF Coverage!Covered, Finish
  <2>5. Coverage!Advance(day)
    BY <1>3, <2>1, <2>2, <2>3, <2>4 DEF Finish, Coverage!Advance, feed
  <2> QED  BY <2>3, <2>5 DEF Coverage!Next
<1> QED  BY <1>1, <1>2, <1>3

\* The calendar, the paging and the failures are invisible in the promise.
LEMMA OthersStutter ==
    ASSUME TypeOK, NextDay \/ FetchPage \/ PageDone \/ FetchFails \/ RunLost \/ UNCHANGED vars
    PROVE  UNCHANGED Coverage!vars
<1>1. UNCHANGED <<posted, handled, since>>
  BY DEF NextDay, FetchPage, PageDone, FetchFails, RunLost, vars, feed
<1>2. state'.last = state.last
  BY DEF NextDay, FetchPage, PageDone, FetchFails, RunLost, vars, Failed, TypeOK, SyncState
<1> QED  BY <1>1, <1>2 DEF Coverage!vars

LEMMA StepRefines == CursorInv /\ [Next]_vars => [Coverage!Next]_(Coverage!vars)
<1> SUFFICES ASSUME CursorInv, [Next]_vars PROVE Coverage!Next \/ UNCHANGED Coverage!vars
  OBVIOUS
<1>1. TypeOK
  BY DEF CursorInv
<1> QED  BY <1>1, FeedRefines, RunRefines, OthersStutter DEF Next, RunStep

\* The ingestor keeps the promise of FeedCoverage: its recorded day advances
\* only over notices that were read, for every feed that fits into a run.
THEOREM CursorKeepsThePromise ==
    ASSUME FeedFits
    PROVE  Spec => ImplementsFeedCoverage
<1>1. CursorInv /\ [Next]_vars => CursorInv'
  BY CursorNext
<1> QED  BY <1>1, CursorInit, CoverageInit, StepRefines, PTL DEF Spec, ImplementsFeedCoverage, Coverage!Spec

=============================================================================
