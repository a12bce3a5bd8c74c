---------------------------- MODULE BackupQueue -----------------------------
(***************************************************************************)
(* What the silver-medalist buffer of a requisition promises: backups wait *)
(* in a line, the first of the line is promoted, and nobody leaves it in   *)
(* another way than by being promoted, released, or displaced by a backup  *)
(* for whom the caller asked for a place of its own.                       *)
(***************************************************************************)
EXTENDS Naturals, Sequences, SequencesExt

CONSTANTS Entries, Reqs

VARIABLES
    line,       \* per requisition, the entries waiting, first to go first
    gone,       \* entries promoted, released or displaced
    placed      \* entries for which a place was asked

vars == <<line, gone, placed>>

Init == line = [r \in Reqs |-> <<>>] /\ gone = {} /\ placed = {}

Waiting == UNION {ToSet(line[r]) : r \in Reqs}

Join(r, e) ==
    /\ e \notin Waiting \cup gone
    /\ line' = [line EXCEPT ![r] = Append(@, e)]
    /\ UNCHANGED <<gone, placed>>

\* The place is between two others, or that of a backup who then has to go.
PlaceIn(r, e) ==
    /\ e \notin Waiting \cup gone
    /\ placed' = placed \cup {e}
    /\ \/ /\ \E i \in 1..Len(line[r]) + 1 : line' = [line EXCEPT ![r] = InsertAt(@, i, e)]
          /\ UNCHANGED gone
       \/ \E i \in DOMAIN line[r] :
            /\ line' = [line EXCEPT ![r][i] = e]
            /\ gone' = gone \cup {line[r][i]}

Promote(r) ==
    /\ line[r] # <<>>
    /\ line' = [line EXCEPT ![r] = Tail(@)]
    /\ gone' = gone \cup {Head(line[r])}
    /\ UNCHANGED placed

Release(r, e) ==
    /\ \E i \in DOMAIN line[r] : line[r][i] = e /\ line' = [line EXCEPT ![r] = RemoveAt(@, i)]
    /\ gone' = gone \cup {e}
    /\ UNCHANGED placed

\* The process restarts: the lines are kept in its memory.
Forget ==
    /\ line' = [r \in Reqs |-> <<>>]
    /\ gone' = gone \cup Waiting
    /\ UNCHANGED placed

Next ==
    \/ \E r \in Reqs : Promote(r) \/ \E e \in Entries : Join(r, e) \/ PlaceIn(r, e) \/ Release(r, e)
    \/ Forget

Spec == Init /\ [][Next]_vars
=============================================================================
