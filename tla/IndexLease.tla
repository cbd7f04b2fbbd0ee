----------------------------- MODULE IndexLease -----------------------------
(***************************************************************************)
(* What the vector index cache promises to a query: the index it is handed *)
(* is the one that serves the field, every query of the field shares it,   *)
(* and it is not freed before each of them has given it back.  An index    *)
(* that was retired serves nobody again and is freed in the end.           *)
(***************************************************************************)
CONSTANTS
  Users,    \* who queries
  Fields,   \* what is queried
  Indexes,  \* the vector indexes in memory
  None      \* no index; not a member of Indexes

VARIABLES
  serving,  \* the index that serves each field, or None
  lease,    \* the index each user may search, or None
  retired   \* indexes withdrawn from service and not freed yet

leaseVars == <<serving, lease, retired>>

Serving == {serving[f] : f \in Fields} \ {None}
Leased  == {lease[u] : u \in Users} \ {None}

LeaseTypeOK ==
  /\ serving \in [Fields -> Indexes \cup {None}]
  /\ lease \in [Users -> Indexes \cup {None}]
  /\ retired \subseteq Indexes

LeaseInit ==
  /\ serving = [f \in Fields |-> None]
  /\ lease = [u \in Users |-> None]
  /\ retired = {}

\* A user gets the index that serves the field, or one read from the segment
\* that serves it from now on.
Grant(u, f) ==
  /\ lease[u] = None
  /\ \E i \in Indexes :
       /\ \/ i = serving[f]
          \/ serving[f] = None /\ i \notin Serving \cup retired
       /\ lease' = [lease EXCEPT ![u] = i]
       /\ serving' = [serving EXCEPT ![f] = i]
  /\ UNCHANGED retired

Return(u) ==
  /\ lease[u] # None
  /\ lease' = [lease EXCEPT ![u] = None]
  /\ UNCHANGED <<serving, retired>>

\* Indexes nobody holds are withdrawn.
Retire(S) ==
  /\ S # {}
  /\ S \subseteq Serving \ Leased
  /\ retired' = retired \cup S
  /\ serving' = [f \in Fields |-> IF serving[f] \in S THEN None ELSE serving[f]]
  /\ UNCHANGED lease

Free(i) ==
  /\ i \in retired
  /\ retired' = retired \ {i}
  /\ UNCHANGED <<serving, lease>>

LeaseNext ==
  \/ \E u \in Users : Return(u) \/ \E f \in Fields : Grant(u, f)
  \/ \E S \in SUBSET Serving : Retire(S)
  \/ \E i \in Indexes : Free(i)

LeaseSpec == LeaseInit /\ [][LeaseNext]_leaseVars

LeaseFairSpec == LeaseSpec /\ \A i \in Indexes : WF_leaseVars(Free(i))
=============================================================================
