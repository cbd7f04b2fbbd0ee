----------------------------- MODULE SortedJoin -----------------------------
(***************************************************************************)
(* What an enumerator promises: it shows the entries of several sorted     *)
(* sources one at a time, by key and then by source, each of them once.    *)
(* When it is through, another one may be made.                            *)
(***************************************************************************)
EXTENDS Integers

CONSTANTS
  Sources,  \* numbers of the sources
  Keys,     \* keys, numbers too
  Nobody    \* no entry

VARIABLES
  left,   \* the entries that have not been passed, the shown one included
  shown   \* the entry shown, or Nobody

joinVars == <<left, shown>>

\* Entries are <<key, source>>.
Precedes(a, b) == a[1] < b[1] \/ (a[1] = b[1] /\ a[2] < b[2])
Least(S) == {a \in S : \A b \in S \ {a} : Precedes(a, b)}

Shows(S, e) == IF S = {} THEN e = Nobody ELSE e \in Least(S)

JoinInit ==
  /\ left \in SUBSET (Keys \X Sources)
  /\ Shows(left, shown)

Advance ==
  /\ shown # Nobody
  /\ left' = left \ {shown}
  /\ Shows(left', shown')

\* A source may fail, and that is the end.
Break ==
  /\ shown # Nobody
  /\ left' = left \ {shown}
  /\ shown' = Nobody

Restart ==
  /\ shown = Nobody
  /\ left' \in SUBSET (Keys \X Sources)
  /\ Shows(left', shown')

JoinNext == Advance \/ Break \/ Restart

JoinSpec == JoinInit /\ [][JoinNext]_joinVars
=============================================================================
