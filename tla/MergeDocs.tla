------------------------------ MODULE MergeDocs ------------------------------
(***************************************************************************)
(* The merge of segments into a new one (merge.go): the plan of fields and *)
(* documents, the stored documents, written one by one or copied as bytes, *)
(* the new document numbers, the merge of the sections, and what becomes   *)
(* of the file when closeCh is closed or a write fails.                    *)
(*                                                                         *)
(* A field is a number, in the order of the names, and "_id" is 0: field   *)
(* lists are sorted with "_id" first (new.go:188, merge.go:630), so a list *)
(* is given by its set and the ID of a field is its rank.  A stored value  *)
(* is <<segment, document, field>> and a stored document the set of its    *)
(* <<field ID, value>>; every document takes one unit of the output.       *)
(***************************************************************************)
EXTENDS Integers, FiniteSets, Sequences

CONSTANTS
  NumSegs,   \* segments to merge
  MaxDocs,   \* bound: documents of a segment
  Fields,    \* every field, "_id" among them
  Sections,  \* the registered sections
  Updatable, \* bound: fields whose mapping may have changed
  Infos,     \* the UpdateFieldInfo a segment may hold of a field
  NoInfo,    \* a field without one
  Dropped,   \* docDropped, which is no document number
  Unset      \* the new number of a document the merge has not reached

ASSUME MergeAssumption ==
  /\ NumSegs \in Nat /\ MaxDocs \in Nat
  /\ Fields \subseteq Nat /\ IsFiniteSet(Fields) /\ 0 \in Fields
  /\ Updatable \subseteq Fields \ {0}
  /\ Infos \subseteq [deleted : BOOLEAN, store : BOOLEAN, docValues : BOOLEAN]
  /\ Dropped \notin Nat /\ Unset \notin Nat /\ Dropped # Unset

VARIABLES
  segs,       \* the segments with their drops; the merge only reads them
  closed,     \* closeCh is closed
  pc,         \* the step mergeSegmentBases is at
  segI,       \* segment being merged, from 1
  docNum,     \* document of that segment
  newDocNum,  \* next number in the new segment
  remap,      \* newDocNums
  offsets,    \* docNumOffsets
  out,        \* stored documents written so far; its length is w.Count()
  todo,       \* sections not merged yet
  file,       \* "absent", "partial" or "complete"
  result      \* what Merge returned: "none" yet, "ok", "ErrClosed", "error"

storedVars == <<segI, docNum, newDocNum, remap, offsets, out>>
vars == <<segs, closed, pc, storedVars, todo, file, result>>

Segs == 1..NumSegs
DocNums == 0..(MaxDocs - 1)

\* The fields of a segment, what each document stores, the documents to drop,
\* and the fields whose mapping changed since.
Segment == [fields  : {F \in SUBSET Fields : 0 \in F},
            numDocs : 0..MaxDocs,
            docs    : [DocNums -> {F \in SUBSET Fields : 0 \in F}],
            drops   : SUBSET DocNums,
            updated : [Updatable -> {NoInfo} \cup Infos]]

WellFormed(s) ==
  /\ \A d \in DocNums : s.docs[d] \subseteq IF d < s.numDocs THEN s.fields ELSE {0}
  /\ s.drops \subseteq 0..(s.numDocs - 1)

-----------------------------------------------------------------------------
\* The ID of a field in a sorted field list, and the field of an ID.
FieldID(F, f) == Cardinality({g \in F : g < f})
FieldOf(F, id) == CHOOSE f \in F : FieldID(F, f) = id

\* A stored document as the file of its segment holds it.
StoredDoc(s, d) ==
  {<<FieldID(segs[s].fields, f), <<s, d, f>>>> : f \in segs[s].docs[d]}

\* Mutant of FieldsSame: only the lengths of the lists are compared.
MutFieldsSameLength ==
  \A s, t \in Segs : Cardinality(segs[s].fields) = Cardinality(segs[t].fields)

\* mergeFields: the fields are the same, and all of them.
FieldsSame == \A s, t \in Segs : segs[s].fields = segs[t].fields
AllFields == {0} \cup UNION {segs[s].fields : s \in Segs}

\* mergeUpdatedFields: the first segment that knows of a field gives its info,
\* and the infos of later ones are combined with it.
Combine(acc, info) ==
  [deleted   |-> acc.deleted \/ info.deleted,
   store     |-> acc.store \/ info.store,
   docValues |-> acc.store \/ info.store \/ info.docValues]
MergedInfo(f) ==
  LET upTo[s \in 0..NumSegs] ==
        IF s = 0 THEN NoInfo
        ELSE IF segs[s].updated[f] = NoInfo THEN upTo[s - 1]
        ELSE IF upTo[s - 1] = NoInfo THEN segs[s].updated[f]
        ELSE Combine(upTo[s - 1], segs[s].updated[f])
  IN  upTo[NumSegs]

NoUpdates == \A f \in Updatable : MergedInfo(f) = NoInfo
IsDeleted(f) == f \in Updatable /\ MergedInfo(f) # NoInfo /\ MergedInfo(f).deleted
IsUnstored(f) == f \in Updatable /\ MergedInfo(f) # NoInfo /\ MergedInfo(f).store

\* filterFields.
NewFields == {f \in AllFields : ~IsDeleted(f)}

\* Mutant of NewDocCount: the drops are not subtracted.
MutNewDocCountAll ==
  LET upTo[s \in 0..NumSegs] == IF s = 0 THEN 0 ELSE upTo[s - 1] + segs[s].numDocs
  IN  upTo[NumSegs]

\* computeNewDocCount.
NewDocCount ==
  LET upTo[s \in 0..NumSegs] ==
        IF s = 0 THEN 0
        ELSE upTo[s - 1] + segs[s].numDocs - Cardinality(segs[s].drops)
  IN  upTo[NumSegs]

\* The fields the visitor collects: it stops at the first one that is deleted
\* and steps over those whose stored part is.
Collected(s, d) ==
  {f \in segs[s].docs[d] :
     /\ ~IsUnstored(f)
     /\ \A g \in segs[s].docs[d] : g <= f => g \in NewFields}

\* The document as it is written to the new segment.
MergedDoc(s, d) == {<<FieldID(NewFields, f), <<s, d, f>>>> : f \in Collected(s, d)}

-----------------------------------------------------------------------------
Init ==
  /\ segs \in [Segs -> {s \in Segment : WellFormed(s)}]
  /\ closed = FALSE
  /\ pc = "open"
  /\ segI = 1 /\ docNum = 0 /\ newDocNum = 0
  /\ remap = [s \in Segs |-> [d \in DocNums |-> Unset]]
  /\ offsets = <<>> /\ out = <<>>
  /\ todo = Sections
  /\ file = "absent"
  /\ result = "none"

\* mergeSegmentBases: open the file.
OpenFile ==
  /\ pc = "open"
  /\ file' = "partial"
  /\ pc' = "plan"
  /\ UNCHANGED <<segs, closed, storedVars, todo, result>>

\* Mutant of Abort: the error is returned without cleanup.
MutAbortNoCleanup(err) ==
  /\ pc' = "done"
  /\ result' = err
  /\ UNCHANGED <<segs, closed, storedVars, todo, file>>

\* cleanup of mergeSegmentBases, and the return of the error.
Abort(err) ==
  /\ file' = "absent"
  /\ pc' = "done"
  /\ result' = err
  /\ UNCHANGED <<segs, closed, storedVars, todo>>

\* Mutant of Plan: closeCh is not looked at.
MutPlanBlind ==
  /\ pc = "plan"
  /\ pc' = IF NewDocCount > 0 THEN "segment" ELSE "finish"
  /\ offsets' = [n \in 1..NewDocCount |-> 0]
  /\ UNCHANGED <<segs, closed, segI, docNum, newDocNum, remap, out, todo, file, result>>

\* mergeToWriter: the plan, and the first look at closeCh.
Plan ==
  /\ pc = "plan"
  /\ ~closed
  /\ pc' = IF NewDocCount > 0 THEN "segment" ELSE "finish"
  /\ offsets' = [n \in 1..NewDocCount |-> 0]
  /\ UNCHANGED <<segs, closed, segI, docNum, newDocNum, remap, out, todo, file, result>>

\* mergeStoredAndRemap: nothing of the documents changes on the way.
Copyable(s) == FieldsSame /\ segs[s].drops = {} /\ NoUpdates

\* copyStoredDocs: one write, and the offsets moved to where it went.
CopySegment ==
  LET n == segs[segI].numDocs IN
  /\ pc = "segment" /\ ~closed /\ segI <= NumSegs
  /\ Copyable(segI)
  /\ out' = out \o [i \in 1..n |-> StoredDoc(segI, i - 1)]
  /\ offsets' = [m \in DOMAIN offsets |->
                   IF m - 1 \in newDocNum..(newDocNum + n - 1)
                   THEN Len(out) + m - 1 - newDocNum ELSE offsets[m]]
  /\ remap' = [remap EXCEPT ![segI] =
                 [d \in DocNums |-> IF d < n THEN newDocNum + d ELSE Unset]]
  /\ newDocNum' = newDocNum + n
  /\ segI' = segI + 1
  /\ UNCHANGED <<segs, closed, pc, docNum, todo, file, result>>

EnterSegment ==
  /\ pc = "segment" /\ ~closed /\ segI <= NumSegs
  /\ ~Copyable(segI)
  /\ docNum' = 0
  /\ pc' = "doc"
  /\ UNCHANGED <<segs, closed, segI, newDocNum, remap, offsets, out, todo, file, result>>

\* Mutant of DropDoc: a dropped document uses up a number.
MutDropDocCounted ==
  /\ pc = "doc" /\ docNum < segs[segI].numDocs
  /\ docNum \in segs[segI].drops
  /\ remap' = [remap EXCEPT ![segI][docNum] = Dropped]
  /\ docNum' = docNum + 1
  /\ newDocNum' = newDocNum + 1
  /\ UNCHANGED <<segs, closed, pc, segI, offsets, out, todo, file, result>>

DropDoc ==
  /\ pc = "doc" /\ docNum < segs[segI].numDocs
  /\ docNum \in segs[segI].drops
  /\ remap' = [remap EXCEPT ![segI][docNum] = Dropped]
  /\ docNum' = docNum + 1
  /\ UNCHANGED <<segs, closed, pc, segI, newDocNum, offsets, out, todo, file, result>>

WriteDoc ==
  /\ pc = "doc" /\ docNum < segs[segI].numDocs
  /\ docNum \notin segs[segI].drops
  /\ remap' = [remap EXCEPT ![segI][docNum] = newDocNum]
  /\ offsets' = [offsets EXCEPT ![newDocNum + 1] = Len(out)]
  /\ out' = Append(out, MergedDoc(segI, docNum))
  /\ newDocNum' = newDocNum + 1
  /\ docNum' = docNum + 1
  /\ UNCHANGED <<segs, closed, pc, segI, todo, file, result>>

LeaveSegment ==
  /\ pc = "doc" /\ docNum = segs[segI].numDocs
  /\ segI' = segI + 1
  /\ pc' = "segment"
  /\ UNCHANGED <<segs, closed, docNum, newDocNum, remap, offsets, out, todo, file, result>>

\* The stored index follows the last segment, without a look at closeCh.
WriteStoredIndex ==
  /\ pc = "segment" /\ segI > NumSegs
  /\ pc' = "sections"
  /\ UNCHANGED <<segs, closed, storedVars, todo, file, result>>

\* The sections are merged in the order of a map iteration.
MergeSection(x) ==
  /\ pc = "sections" /\ x \in todo
  /\ todo' = todo \ {x}
  /\ pc' = IF todo = {x} THEN "finish" ELSE pc
  /\ UNCHANGED <<segs, closed, storedVars, file, result>>

\* persistFieldsSection, persistFooter, Flush, Sync and Close.
Finish ==
  /\ pc = "finish"
  /\ file' = "complete"
  /\ pc' = "done"
  /\ result' = "ok"
  /\ UNCHANGED <<segs, closed, storedVars, todo>>

\* closeCh is closed: before the plan, at a segment, in a section.
SeeClosed ==
  /\ closed
  /\ \/ pc = "plan"
     \/ pc = "segment" /\ segI <= NumSegs
     \/ pc = "sections"
  /\ Abort("ErrClosed")

\* The file cannot be opened, or a read, a write or the sync fails.
Fail == pc \notin {"done"} /\ Abort("error")

CloseMerge ==
  /\ ~closed /\ result = "none"
  /\ closed' = TRUE
  /\ UNCHANGED <<segs, pc, storedVars, todo, file, result>>

Step ==
  \/ OpenFile \/ Plan
  \/ CopySegment \/ EnterSegment \/ DropDoc \/ WriteDoc \/ LeaveSegment
  \/ WriteStoredIndex
  \/ \E x \in Sections : MergeSection(x)
  \/ Finish
  \/ SeeClosed

Next == Step \/ Fail \/ CloseMerge

Spec == Init /\ [][Next]_vars

\* One goroutine runs the merge.
FairSpec == Spec /\ WF_vars(Step)

-----------------------------------------------------------------------------
TypeOK ==
  /\ segs \in [Segs -> Segment]
  /\ closed \in BOOLEAN
  /\ pc \in {"open", "plan", "segment", "doc", "sections", "finish", "done"}
  /\ segI \in 1..(NumSegs + 1)
  /\ docNum \in 0..MaxDocs
  /\ newDocNum \in 0..NewDocCount
  /\ remap \in [Segs -> [DocNums -> Nat \cup {Dropped, Unset}]]
  /\ Len(offsets) \in {0, NewDocCount}
  /\ todo \subseteq Sections
  /\ file \in {"absent", "partial", "complete"}
  /\ result \in {"none", "ok", "ErrClosed", "error"}

\* The documents that have a number in the new segment.
Numbered == {p \in Segs \X DocNums : remap[p[1]][p[2]] \in Nat}
Earlier(p, q) == p[1] < q[1] \/ (p[1] = q[1] /\ p[2] < q[2])

\* Whether its segment was copied or visited (merge.go:424-445), a document is
\* numbered exactly if it is not dropped, the numbers keep the order of the
\* segments and their documents, and none is left out or used twice.
RemapExact ==
  /\ \A s \in Segs, d \in DocNums :
       /\ remap[s][d] \in Nat => d < segs[s].numDocs /\ d \notin segs[s].drops
       /\ remap[s][d] = Dropped => d \in segs[s].drops
  /\ \A p, q \in Numbered :
       Earlier(p, q) => remap[p[1]][p[2]] < remap[q[1]][q[2]]
  /\ {remap[p[1]][p[2]] : p \in Numbered} = 0..(newDocNum - 1)

\* What visitStoredFields makes of a document of the new segment.
Visited(n) ==
  {<<FieldOf(NewFields, p[1]), p[2]>> : p \in out[offsets[n + 1] + 1]}

\* merge.go:36-38 says that the new segment contains "the remaining data": the
\* document found under its new number has the stored values of the old one,
\* each under its own field, except those of deleted or unstored fields.
StoredPreserved ==
  \A p \in Numbered :
    LET s == p[1]
        d == p[2]
    IN  Visited(remap[s][d]) =
          {<<f, <<s, d, f>>>> : f \in
             {g \in segs[s].docs[d] : ~IsDeleted(g) /\ ~IsUnstored(g)}}

\* A merge that succeeds has numbered every document it does not drop, and as
\* many as computeNewDocCount announced to the footer.
ResultComplete ==
  result = "ok" =>
    /\ newDocNum = NewDocCount
    /\ NewDocCount > 0 => \A s \in Segs : \A d \in 0..(segs[s].numDocs - 1) :
                            d \notin segs[s].drops => <<s, d>> \in Numbered

\* The merge comes to an end, and what it leaves at the path is the segment if
\* it succeeded and nothing if not, wherever closeCh was closed or I/O failed
\* (merge.go:66-108).
MergeReturns ==
  <>[](\/ result = "ok" /\ file = "complete"
       \/ result \in {"ErrClosed", "error"} /\ file = "absent")

\* A merge that is asked to stop before it has reached its last segment does
\* not succeed.
StopsWhenClosed ==
  (/\ closed
   /\ \/ pc \in {"open", "plan"}
      \/ pc = "segment" /\ segI <= NumSegs
      \/ pc = "doc" /\ segI < NumSegs)
    ~> result \in {"ErrClosed", "error"}
=============================================================================
