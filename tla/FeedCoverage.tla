---------------------------- MODULE FeedCoverage ----------------------------
(***************************************************************************)
(* What an incremental ingestor promises about a feed it polls: the date   *)
(* it has recorded as its last sync only advances over notices it has      *)
(* handled.  SyncCursor implements it.                                     *)
(***************************************************************************)
EXTENDS Naturals

CONSTANTS Notices, Days, None

VARIABLES
    posted,     \* the day a notice appeared in the feed, None if it is not there
    handled,    \* notices upserted, or looked at and rejected
    since,      \* first day of the window that is to be covered first
    upto        \* recorded last sync, None before the first one

vars == <<posted, handled, since, upto>>

Init ==
    /\ posted = [n \in Notices |-> None] /\ handled = {}
    /\ since = None /\ upto = None

\* Notices appear at the present day, never behind the recorded date.
Publish(n, d) ==
    /\ posted[n] = None
    /\ upto # None => d >= upto
    /\ posted' = [posted EXCEPT ![n] = d]
    /\ UNCHANGED <<handled, since, upto>>

Withdraw(n) ==
    /\ posted' = [posted EXCEPT ![n] = None]
    /\ UNCHANGED <<handled, since, upto>>

\* A notice may be gone from the feed by the time it is handled.
Handle(n) ==
    /\ handled' = handled \cup {n}
    /\ UNCHANGED <<posted, since, upto>>

Begin(d) ==
    /\ upto = None
    /\ since' = d
    /\ UNCHANGED <<posted, handled, upto>>

Covered(d) ==
    \A n \in Notices : posted[n] \in Days /\ since <= posted[n] /\ posted[n] < d
                         => n \in handled

Advance(d) ==
    /\ since # None /\ Covered(d)
    /\ upto # None => d >= upto
    /\ upto' = d
    /\ UNCHANGED <<posted, handled, since>>

Next ==
    \/ \E n \in Notices : Withdraw(n) \/ Handle(n) \/ \E d \in Days : Publish(n, d)
    \/ \E d \in Days : Begin(d) \/ Advance(d)

Spec == Init /\ [][Next]_vars
=============================================================================
