----------------------------- MODULE SilverPool -----------------------------
(***************************************************************************)
(* The silver-medalist buffer of the pipeline service: SilverPool and the  *)
(* requests that hold and promote backups.  A bucket is a Python dict from *)
(* rank to entry; it is modelled with its iteration order, as the sequence *)
(* of its items.  Entries are numbered in the order in which hold makes    *)
(* them.                                                                   *)
(*                                                                         *)
(* Operators marked [fault] are deliberately wrong versions of the one     *)
(* that follows them: exchanged for it, they must break a property.        *)
(***************************************************************************)
EXTENDS Integers, Sequences, FiniteSets, SequencesExt, FiniteSetsExt, Sorting

CONSTANTS
    Reqs, Candidates, None,
    Ranks,          \* ranks a caller of hold may dictate
    MaxHolds,       \* bound: holds in all
    MaxCrashes      \* bound: restarts of the service

ASSUME PoolAssumption ==
    /\ None \notin Int /\ Ranks \subseteq Int
    /\ {MaxHolds, MaxCrashes} \subseteq Nat

VARIABLES
    bucket,     \* per requisition, the items of its dict in iteration order
    holder,     \* per entry ever made: its candidate, and whether a rank was asked for
    promoted,   \* entries promoted, in order, with their requisition
    released,   \* entries released
    auditing,   \* promoted entries whose request awaits the audit write
    audited,    \* promoted entries in the audit log
    crashes

poolVars == <<bucket, holder, promoted, released, auditing, audited, crashes>>

Numbers == 1..MaxHolds
Item    == [rank : Int, no : Numbers]

PoolInit ==
    /\ bucket = [r \in Reqs |-> <<>>] /\ holder = <<>>
    /\ promoted = <<>> /\ released = {} /\ auditing = {} /\ audited = {}
    /\ crashes = 0

Keys(b) == {item.rank : item \in ToSet(b)}
Held(b) == {item.no : item \in ToSet(b)}
Made    == DOMAIN holder

-----------------------------------------------------------------------------
(* Operations of the pool.                                                 *)

\* [fault] the next rank is the number of backups plus one.
CountPlusOne(b) == Len(b) + 1

\* max(bucket, default=0) + 1
NextRank(b) == IF b = <<>> THEN 1 ELSE Max(Keys(b)) + 1

\* [fault] the bucket is a list.
Listed(b, k, n) == Append(b, [rank |-> k, no |-> n])

\* bucket[rank] = entry: a key that is there keeps its place.
Put(b, k, n) ==
    IF k \in Keys(b)
    THEN [i \in DOMAIN b |-> IF b[i].rank = k THEN [rank |-> k, no |-> n] ELSE b[i]]
    ELSE Append(b, [rank |-> k, no |-> n])

\* POST /silver/hold; r is None, or the rank the caller wants.
Hold(q, c, r) ==
    /\ Len(holder) < MaxHolds
    /\ LET k == IF r = None THEN NextRank(bucket[q]) ELSE r
           n == Len(holder) + 1
       IN /\ bucket' = [bucket EXCEPT ![q] = Put(@, k, n)]
          /\ holder' = Append(holder, [who |-> c, asked |-> r # None])
    /\ UNCHANGED <<promoted, released, auditing, audited, crashes>>

\* release: the first item of the candidate, if there is one.  Ranks stay.
Release(q, c) ==
    /\ \E i \in DOMAIN bucket[q] :
        /\ holder[bucket[q][i].no].who = c
        /\ \A j \in 1..i - 1 : holder[bucket[q][j].no].who # c
        /\ released' = released \cup {bucket[q][i].no}
        /\ bucket' = [bucket EXCEPT ![q] = RemoveAt(@, i)]
    /\ UNCHANGED <<holder, promoted, auditing, audited, crashes>>

\* [fault] the survivors are renumbered in the order the dict lists them.
AsListed(b) == b

\* sorted(bucket.values(), key=rank)
ByRank(b) == Sorted(b, DOMAIN b, [i \in DOMAIN b |-> b[i].rank])

\* [fault] the promoted entry is not deleted.
AllOf(sorted) == sorted

\* del bucket[promoted.rank]
Survivors(sorted) == Tail(sorted)

\* enumerate(survivors, start=1)
Renumbered(b) == [i \in DOMAIN b |-> [rank |-> i, no |-> b[i].no]]

\* POST /silver/promote: the lowest rank leaves, the survivors are renumbered,
\* and only then the request goes on to the audit log.
Promote(q) ==
    /\ bucket[q] # <<>>
    /\ LET sorted == ByRank(bucket[q])
       IN /\ bucket' = [bucket EXCEPT ![q] = Renumbered(Survivors(sorted))]
          /\ promoted' = Append(promoted, [req |-> q, no |-> Head(sorted).no])
          /\ auditing' = auditing \cup {Head(sorted).no}
    /\ UNCHANGED <<holder, released, audited, crashes>>

\* The audit write ends, or fails and is only logged.
Audit(n) ==
    /\ n \in auditing
    /\ auditing' = auditing \ {n}
    /\ audited' \in {audited, audited \cup {n}}
    /\ UNCHANGED <<bucket, holder, promoted, released, crashes>>

\* The service restarts: lifespan makes an empty pool.
PoolRestart ==
    /\ crashes < MaxCrashes
    /\ crashes' = crashes + 1
    /\ bucket' = [r \in Reqs |-> <<>>] /\ auditing' = {}
    /\ UNCHANGED <<holder, promoted, released, audited>>

PoolNext ==
    \/ \E q \in Reqs :
        \/ Promote(q)
        \/ \E c \in Candidates : Release(q, c) \/ \E r \in Ranks \cup {None} : Hold(q, c, r)
    \/ \E n \in Made : Audit(n)
    \/ PoolRestart

PoolSpec == PoolInit /\ [][PoolNext]_poolVars

-----------------------------------------------------------------------------
(* Properties.                                                             *)

PoolTypeOK ==
    /\ \A q \in Reqs : bucket[q] \in Seq(Item) /\ Cardinality(Keys(bucket[q])) = Len(bucket[q])
    /\ DOMAIN bucket = Reqs /\ holder \in Seq([who : Candidates, asked : BOOLEAN])
    /\ promoted \in Seq([req : Reqs, no : Made]) /\ released \subseteq Made
    /\ auditing \subseteq Made /\ audited \subseteq Made

\* SilverPool implements BackupQueue: whoever asks for no rank goes to the end of
\* the line, the lowest rank is promoted, releases and renumbering change nobody's
\* turn, a backup who was promoted is not promoted again, and the only way to push
\* one out is to ask for its rank.
LineOf(b) == [n \in DOMAIN b |-> b[CHOOSE i \in DOMAIN b :
    Cardinality({j \in DOMAIN b : b[j].rank < b[i].rank}) = n - 1].no]
Out == {promoted[i].no : i \in DOMAIN promoted}
Queue == INSTANCE BackupQueue WITH
    Entries <- Numbers,
    line <- [q \in Reqs |-> LineOf(bucket[q])],
    gone <- Out \cup (Made \ UNION {Held(bucket[q]) : q \in Reqs}),
    placed <- {n \in Made : holder[n].asked}
ImplementsBackupQueue == Queue!Spec

=============================================================================
