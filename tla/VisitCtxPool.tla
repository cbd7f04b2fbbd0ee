---------------------------- MODULE VisitCtxPool ----------------------------
(***************************************************************************)
(* Reading stored documents through the contexts of visitDocumentCtxPool   *)
(* (segment.go:526-647) and the merge, which keeps one context for all the *)
(* documents it visits (merge.go:400-401, 455).                            *)
(*                                                                         *)
(* A context has a reader, set to the meta bytes of a document, and a      *)
(* buffer its data is decoded into; both are named by the document they    *)
(* hold.  Users interleave at the places where a context changes.          *)
(***************************************************************************)
EXTENDS Integers

CONSTANTS
  Users,       \* goroutines that read stored documents
  Docs,        \* documents
  Ctxs,        \* visitDocumentCtx structures
  Kinds,       \* calls made: a subset of AllKinds
  Nothing,     \* a reader or buffer before its first use; no call
  MaxCopies    \* bound: copies of a context in the pool when a call begins

\* "visit" and "stopAtId" call VisitStoredFields, with a visitor that wants the
\* fields or stops at "_id"; "docID" calls DocID, "merge" is a merge.
AllKinds == {"visit", "stopAtId", "docID", "merge"}

ASSUME PoolAssumption == Kinds \subseteq AllKinds /\ Nothing \notin Ctxs \cup Docs

VARIABLES
  pool,    \* how many times the pool holds each context
  reader,  \* vdc.reader of each context
  buf,     \* vdc.buf of each context
  pc,      \* where each user is
  call,    \* the call each user makes: kind, document and context
  twice    \* history: contexts that a visitor made the pool get twice

vars == <<pool, reader, buf, pc, call, twice>>

TypeOK ==
  /\ pool \in [Ctxs -> Nat]
  /\ reader \in [Ctxs -> Docs \cup {Nothing}]
  /\ buf \in [Ctxs -> Docs \cup {Nothing}]
  /\ pc \in [Users -> {"idle", "got", "id", "fields", "put"}]
  /\ call \in [Users -> [kind : AllKinds, doc : Docs, ctx : Ctxs]
                          \cup {Nothing}]
  /\ twice \subseteq Ctxs

Init ==
  /\ pool = [c \in Ctxs |-> 0]
  /\ reader = [c \in Ctxs |-> Nothing]
  /\ buf = [c \in Ctxs |-> Nothing]
  /\ pc = [u \in Users |-> "idle"]
  /\ call = [u \in Users |-> Nothing]
  /\ twice = {}

InCall(u) == pc[u] # "idle"

\* A context that nothing refers to stands for one the pool allocates.
Fresh(c) == pool[c] = 0 /\ \A u \in Users : InCall(u) => call[u].ctx # c

Goto(u, label) == pc' = [pc EXCEPT ![u] = label]

Get(u) ==
  /\ pc[u] = "idle"
  /\ \A c \in Ctxs : pool[c] <= MaxCopies
  /\ \E kind \in Kinds, doc \in Docs, c \in Ctxs :
       /\ pool[c] > 0 \/ Fresh(c)
       /\ pool' = IF pool[c] > 0 THEN [pool EXCEPT ![c] = @ - 1] ELSE pool
       /\ call' = [call EXCEPT ![u] = [kind |-> kind, doc |-> doc, ctx |-> c]]
       /\ twice' = IF Fresh(c) THEN twice \ {c} ELSE twice
  /\ Goto(u, "got")
  /\ UNCHANGED <<reader, buf>>

\* Mutant of ReadMeta: the reader is set the first time only.
MutReadMetaOnce(u) ==
  /\ pc[u] = "got"
  /\ reader' = [reader EXCEPT ![call[u].ctx] = IF @ = Nothing THEN call[u].doc ELSE @]
  /\ Goto(u, "id")
  /\ UNCHANGED <<pool, buf, call, twice>>

\* vdc.reader.Reset(meta), and the document's "_id" from there.
ReadMeta(u) ==
  /\ pc[u] = "got"
  /\ reader' = [reader EXCEPT ![call[u].ctx] = call[u].doc]
  /\ Goto(u, "id")
  /\ UNCHANGED <<pool, buf, call, twice>>

\* visitStoredFields: the visitor stops at "_id", the context goes back to the
\* pool.  The caller's deferred Put is still to come.
StopAtId(u) ==
  /\ pc[u] = "id" /\ call[u].kind = "stopAtId"
  /\ pool' = [pool EXCEPT ![call[u].ctx] = @ + 1]
  /\ twice' = twice \cup {call[u].ctx}
  /\ Goto(u, "put")
  /\ UNCHANGED <<reader, buf, call>>

\* DocID has what it wants.
IdRead(u) ==
  /\ pc[u] = "id" /\ call[u].kind = "docID"
  /\ Goto(u, "put")
  /\ UNCHANGED <<pool, reader, buf, call, twice>>

\* snappy.Decode into the buffer of the context.
Decode(u) ==
  /\ pc[u] = "id" /\ call[u].kind \in {"visit", "merge"}
  /\ buf' = [buf EXCEPT ![call[u].ctx] = call[u].doc]
  /\ Goto(u, "fields")
  /\ UNCHANGED <<pool, reader, call, twice>>

\* The fields are visited; a merge goes on with another document.
FieldsVisited(u) ==
  /\ pc[u] = "fields"
  /\ \/ Goto(u, "put") /\ UNCHANGED call
     \/ /\ call[u].kind = "merge"
        /\ \E doc \in Docs : call' = [call EXCEPT ![u].doc = doc]
        /\ Goto(u, "got")
  /\ UNCHANGED <<pool, reader, buf, twice>>

\* Mutant of Put: DocID has put its context back before it read the "_id".
MutPutTwice(u) ==
  /\ pc[u] = "put"
  /\ pool' = [pool EXCEPT ![call[u].ctx] = IF call[u].kind = "docID" THEN @ + 2 ELSE @ + 1]
  /\ call' = [call EXCEPT ![u] = Nothing]
  /\ Goto(u, "idle")
  /\ UNCHANGED <<reader, buf, twice>>

\* The Put at the end: deferred by VisitStoredFields and the merge.
Put(u) ==
  /\ pc[u] = "put"
  /\ pool' = [pool EXCEPT ![call[u].ctx] = @ + 1]
  /\ call' = [call EXCEPT ![u] = Nothing]
  /\ Goto(u, "idle")
  /\ UNCHANGED <<reader, buf, twice>>

\* ReadUvarint or snappy.Decode fails: DocID returns without a Put.
ReadFail(u) ==
  /\ pc[u] \in {"id", "fields"}
  /\ IF call[u].kind = "docID"
     THEN call' = [call EXCEPT ![u] = Nothing] /\ Goto(u, "idle")
     ELSE UNCHANGED call /\ Goto(u, "put")
  /\ UNCHANGED <<pool, reader, buf, twice>>

\* The garbage collector empties the pool of a context.
Forget(c) ==
  /\ pool[c] > 0
  /\ pool' = [pool EXCEPT ![c] = @ - 1]
  /\ UNCHANGED <<reader, buf, pc, call, twice>>

Next ==
  \/ \E u \in Users :
       \/ Get(u) \/ ReadMeta(u) \/ StopAtId(u) \/ IdRead(u) \/ Decode(u)
       \/ FieldsVisited(u) \/ Put(u) \/ ReadFail(u)
  \/ \E c \in Ctxs : Forget(c)

Spec == Init /\ [][Next]_vars

-----------------------------------------------------------------------------
\* While a call reads fields, both the meta bytes and the data are those of the
\* document it was asked for, whatever other goroutines read meanwhile; only a
\* context of a visitor that stopped at "_id" may betray it.
ReadsOwnDoc ==
  \A u \in Users : InCall(u) /\ call[u].ctx \notin twice =>
    /\ pc[u] \in {"id", "fields"} => reader[call[u].ctx] = call[u].doc
    /\ pc[u] = "fields" => buf[call[u].ctx] = call[u].doc

\* A context serves one call at a time, and the pool has no second copy of it,
\* unless a visitor stopped at "_id": the damage stays with the context that
\* was put back twice, until the pool forgets it.
Exclusive ==
  \A u \in Users : InCall(u) /\ call[u].ctx \notin twice =>
    /\ pool[call[u].ctx] = 0
    /\ \A v \in Users \ {u} : InCall(v) => call[v].ctx # call[u].ctx

\* segment.go:526-527 says a context "holds data structures that are reusable
\* across multiple VisitDocument() calls": no two calls use it at once, also
\* when a visitor stops at "_id".
NoTwoCallsShare ==
  \A u, v \in Users : u # v /\ InCall(u) /\ InCall(v) => call[u].ctx # call[v].ctx
=============================================================================
