------------------------- MODULE VisitCtxPool_proofs -------------------------
(***************************************************************************)
(* A context of the pool serves one call at a time and holds the document  *)
(* of that call, for any number of goroutines, contexts and copies in the  *)
(* pool; a visitor that stops at "_id" spoils its own context only.        *)
(***************************************************************************)
EXTENDS VisitCtxPool, TLAPS

\* The calls as they are made: the kind is one of those allowed.
Calls == [kind : AllKinds, doc : Docs, ctx : Ctxs]

\* A user that is in a call has one.
CallsMade == \A u \in Users : InCall(u) => call[u] \in Calls

\* A context that was not put back twice is in one place: the pool has one copy
\* of it and no call, or a call has it and the pool none.
OneCopy ==
  /\ \A c \in Ctxs \ twice : pool[c] \in {0, 1}
  /\ Exclusive

PoolInv == TypeOK /\ CallsMade /\ OneCopy /\ ReadsOwnDoc

LEMMA InitPoolInv == Init => PoolInv
BY DEF Init, PoolInv, TypeOK, CallsMade, OneCopy, Exclusive, ReadsOwnDoc, InCall

-----------------------------------------------------------------------------
\* Get: the context comes out of the pool, or nobody has it.
LEMMA GetKeeps ==
  ASSUME PoolInv, NEW u \in Users, Get(u)
  PROVE  PoolInv'
<1> USE DEF PoolInv
<1>1. PICK kind \in Kinds, doc \in Docs, c \in Ctxs :
        /\ pool[c] > 0 \/ Fresh(c)
        /\ pool' = IF pool[c] > 0 THEN [pool EXCEPT ![c] = @ - 1] ELSE pool
        /\ call' = [call EXCEPT ![u] = [kind |-> kind, doc |-> doc, ctx |-> c]]
        /\ twice' = IF Fresh(c) THEN twice \ {c} ELSE twice
  BY DEF Get
<1>2. pc[u] = "idle" /\ pc' = [pc EXCEPT ![u] = "got"] /\ UNCHANGED <<reader, buf>>
  BY DEF Get, Goto
<1> DEFINE made == [kind |-> kind, doc |-> doc, ctx |-> c]
<1>3. made \in Calls
  BY PoolAssumption DEF PoolAssumption, Calls
<1>4. /\ pc' \in [Users -> {"idle", "got", "id", "fields", "put"}] /\ pc'[u] = "got"
      /\ \A v \in Users \ {u} : pc'[v] = pc[v]
  BY <1>2 DEF TypeOK
<1>5. /\ call' \in [Users -> Calls \cup {Nothing}] /\ call'[u] = made
      /\ \A v \in Users \ {u} : call'[v] = call[v]
  <2> HIDE DEF made
  <2> QED  BY <1>1, <1>3 DEF TypeOK, Calls, made
<1>6. /\ pool' \in [Ctxs -> Nat]
      /\ \A x \in Ctxs \ {c} : pool'[x] = pool[x]
      /\ pool'[c] = IF pool[c] > 0 THEN pool[c] - 1 ELSE pool[c]
  BY <1>1 DEF TypeOK
<1>7. /\ twice' \subseteq Ctxs
      /\ \A x \in Ctxs \ {c} : x \in twice' <=> x \in twice
      /\ c \notin twice' => c \notin twice \/ Fresh(c)
  BY <1>1 DEF TypeOK
<1>8. TypeOK'
  BY <1>2, <1>4, <1>5, <1>6, <1>7 DEF TypeOK, Calls
<1>9. CallsMade'
  BY <1>3, <1>4, <1>5 DEF CallsMade, InCall
<1>10. c \notin twice' => pool'[c] = 0 /\ \A v \in Users \ {u} : InCall(v) => call[v].ctx # c
  <2> SUFFICES ASSUME c \notin twice'
               PROVE  pool'[c] = 0 /\ \A v \in Users \ {u} : InCall(v) => call[v].ctx # c
    OBVIOUS
  <2>1. CASE Fresh(c)
    BY <1>6, <2>1 DEF Fresh, TypeOK
  <2>2. CASE ~Fresh(c)
    <3>1. pool[c] > 0 /\ c \notin twice
      BY <1>1, <1>7, <2>2
    <3>2. pool[c] = 1
      BY <3>1 DEF OneCopy, TypeOK
    <3> QED  BY <1>6, <3>1, <3>2 DEF OneCopy, Exclusive
  <2> QED  BY <2>1, <2>2
<1>11. OneCopy'
  <2>1. \A x \in Ctxs \ twice' : pool'[x] \in {0, 1}
    BY <1>6, <1>7, <1>10 DEF OneCopy
  <2>2. Exclusive'
    <3> SUFFICES ASSUME NEW v \in Users, InCall(v)', call'[v].ctx \notin twice'
                 PROVE  /\ pool'[call'[v].ctx] = 0
                        /\ \A w \in Users \ {v} : InCall(w)' => call'[w].ctx # call'[v].ctx
      BY DEF Exclusive
    <3>1. CASE v = u
      BY <1>4, <1>5, <1>10, <3>1 DEF InCall
    <3>2. CASE v # u
      <4>1. InCall(v) /\ call'[v] = call[v] /\ call[v].ctx \in Ctxs
        BY <1>4, <1>5, <3>2 DEF InCall, CallsMade, Calls
      <4>2. call[v].ctx # c
        BY <1>10, <3>2, <4>1
      <4>3. call[v].ctx \notin twice /\ pool'[call[v].ctx] = pool[call[v].ctx]
        BY <1>6, <1>7, <4>1, <4>2
      <4>4. \A w \in Users \ {v} : InCall(w)' => call'[w].ctx # call[v].ctx
        BY <1>4, <1>5, <4>1, <4>2, <4>3 DEF InCall, OneCopy, Exclusive
      <4> QED  BY <4>1, <4>3, <4>4 DEF OneCopy, Exclusive
    <3> QED  BY <3>1, <3>2
  <2> QED  BY <2>1, <2>2 DEF OneCopy
<1>12. ReadsOwnDoc'
  <2> SUFFICES ASSUME NEW v \in Users, InCall(v)', call'[v].ctx \notin twice'
               PROVE  /\ pc'[v] \in {"id", "fields"} => reader'[call'[v].ctx] = call'[v].doc
                      /\ pc'[v] = "fields" => buf'[call'[v].ctx] = call'[v].doc
    BY DEF ReadsOwnDoc
  <2>1. CASE v = u
    BY <1>4, <2>1
  <2>2. CASE v # u
    <3>1. InCall(v) /\ call'[v] = call[v] /\ pc'[v] = pc[v] /\ call[v].ctx \in Ctxs
      BY <1>4, <1>5, <2>2 DEF InCall, CallsMade, Calls
    <3>2. call[v].ctx # c
      BY <1>10, <2>2, <3>1
    <3> QED  BY <1>2, <1>7, <3>1, <3>2 DEF ReadsOwnDoc
  <2> QED  BY <2>1, <2>2
<1> QED  BY <1>8, <1>9, <1>11, <1>12

-----------------------------------------------------------------------------
\* A step inside a call, or one that ends it, when the pool does not change and
\* the context of the call may be written: other calls see nothing of it.
LEMMA StepInCall ==
  ASSUME PoolInv, NEW u \in Users, InCall(u),
         UNCHANGED <<pool, twice>>,
         NEW label \in {"idle", "got", "id", "fields", "put"},
         pc' = [pc EXCEPT ![u] = label],
         NEW made \in Calls \cup {Nothing}, call' = [call EXCEPT ![u] = made],
         label # "idle" => made \in Calls /\ made.ctx = call[u].ctx,
         reader' \in [Ctxs -> Docs \cup {Nothing}], buf' \in [Ctxs -> Docs \cup {Nothing}],
         \A x \in Ctxs \ {call[u].ctx} : reader'[x] = reader[x] /\ buf'[x] = buf[x],
         call[u].ctx \notin twice =>
           /\ label \in {"id", "fields"} => reader'[made.ctx] = made.doc
           /\ label = "fields" => buf'[made.ctx] = made.doc
  PROVE  PoolInv'
<1> USE DEF PoolInv
<1>1. /\ pc' \in [Users -> {"idle", "got", "id", "fields", "put"}] /\ pc'[u] = label
      /\ \A v \in Users \ {u} : pc'[v] = pc[v]
  BY DEF TypeOK
<1>2. /\ call' \in [Users -> Calls \cup {Nothing}] /\ call'[u] = made
      /\ \A v \in Users \ {u} : call'[v] = call[v]
  BY DEF TypeOK, Calls
<1>3. TypeOK'
  BY <1>1, <1>2 DEF TypeOK, Calls
<1>4. CallsMade'
  BY <1>1, <1>2 DEF CallsMade, InCall
<1>5. \A v \in Users : InCall(v)' =>
        InCall(v) /\ call[v] \in Calls /\ call'[v].ctx = call[v].ctx /\ call[v].ctx \in Ctxs
  BY <1>1, <1>2 DEF InCall, CallsMade, Calls
<1>6. OneCopy'
  BY <1>5 DEF OneCopy, Exclusive
<1>7. ReadsOwnDoc'
  <2> SUFFICES ASSUME NEW v \in Users, InCall(v)', call'[v].ctx \notin twice'
               PROVE  /\ pc'[v] \in {"id", "fields"} => reader'[call'[v].ctx] = call'[v].doc
                      /\ pc'[v] = "fields" => buf'[call'[v].ctx] = call'[v].doc
    BY DEF ReadsOwnDoc
  <2>1. CASE v = u
    BY <1>1, <1>2, <1>5, <2>1
  <2>2. CASE v # u
    <3>1. InCall(v) /\ call'[v] = call[v] /\ pc'[v] = pc[v] /\ call[v].ctx \in Ctxs
      BY <1>1, <1>2, <1>5, <2>2
    <3>2. call[v].ctx # call[u].ctx
      BY <2>2, <3>1 DEF OneCopy, Exclusive
    <3> QED  BY <3>1, <3>2 DEF ReadsOwnDoc
  <2> QED  BY <2>1, <2>2
<1> QED  BY <1>3, <1>4, <1>6, <1>7

\* In a call, the call is what CallsMade says, and EXCEPT of itself changes
\* nothing.
LEMMA InCallHas ==
  ASSUME PoolInv, NEW u \in Users, pc[u] # "idle"
  PROVE  /\ InCall(u) /\ call[u] \in Calls /\ call[u].ctx \in Ctxs /\ call[u].doc \in Docs
         /\ call[u].kind \in AllKinds
         /\ call = [call EXCEPT ![u] = call[u]]
BY DEF PoolInv, TypeOK, CallsMade, InCall, Calls

LEMMA ReadMetaKeeps == ASSUME PoolInv, NEW u \in Users, ReadMeta(u) PROVE PoolInv'
<1>1. pc[u] = "got" /\ UNCHANGED <<pool, buf, call, twice>>
      /\ pc' = [pc EXCEPT ![u] = "id"]
      /\ reader' = [reader EXCEPT ![call[u].ctx] = call[u].doc]
  BY DEF ReadMeta, Goto
<1>2. /\ InCall(u) /\ call[u] \in Calls /\ call[u].ctx \in Ctxs /\ call[u].doc \in Docs
      /\ call' = [call EXCEPT ![u] = call[u]]
  BY <1>1, InCallHas
<1>3. /\ reader' \in [Ctxs -> Docs \cup {Nothing}] /\ reader'[call[u].ctx] = call[u].doc
      /\ \A x \in Ctxs \ {call[u].ctx} : reader'[x] = reader[x]
      /\ buf' \in [Ctxs -> Docs \cup {Nothing}]
  BY <1>1, <1>2 DEF PoolInv, TypeOK
<1> QED  BY <1>1, <1>2, <1>3, StepInCall

LEMMA DecodeKeeps == ASSUME PoolInv, NEW u \in Users, Decode(u) PROVE PoolInv'
<1>1. pc[u] = "id" /\ UNCHANGED <<pool, reader, call, twice>>
      /\ pc' = [pc EXCEPT ![u] = "fields"]
      /\ buf' = [buf EXCEPT ![call[u].ctx] = call[u].doc]
  BY DEF Decode, Goto
<1>2. /\ InCall(u) /\ call[u] \in Calls /\ call[u].ctx \in Ctxs /\ call[u].doc \in Docs
      /\ call' = [call EXCEPT ![u] = call[u]]
  BY <1>1, InCallHas
<1>3. /\ buf' \in [Ctxs -> Docs \cup {Nothing}] /\ buf'[call[u].ctx] = call[u].doc
      /\ \A x \in Ctxs \ {call[u].ctx} : buf'[x] = buf[x]
      /\ reader' \in [Ctxs -> Docs \cup {Nothing}]
  BY <1>1, <1>2 DEF PoolInv, TypeOK
<1>4. call[u].ctx \notin twice => reader'[call[u].ctx] = call[u].doc
  BY <1>1, <1>2 DEF PoolInv, ReadsOwnDoc
<1> QED  BY <1>1, <1>2, <1>3, <1>4, StepInCall

\* The steps that change neither the contexts nor the pool.
LEMMA IdRead_FieldsVisited_ReadFail_Keep ==
  ASSUME PoolInv, NEW u \in Users, IdRead(u) \/ FieldsVisited(u) \/ ReadFail(u)
  PROVE  PoolInv'
<1>1. pc[u] \in {"id", "fields"} /\ UNCHANGED <<pool, reader, buf, twice>>
  BY DEF IdRead, FieldsVisited, ReadFail
<1>2. /\ InCall(u) /\ call[u] \in Calls /\ call = [call EXCEPT ![u] = call[u]]
  BY <1>1, InCallHas
<1>3. PICK label \in {"idle", "got", "put"}, made \in Calls \cup {Nothing} :
        /\ pc' = [pc EXCEPT ![u] = label] /\ call' = [call EXCEPT ![u] = made]
        /\ label # "idle" => made \in Calls /\ made.ctx = call[u].ctx
  <2>1. CASE pc' = [pc EXCEPT ![u] = "put"] /\ UNCHANGED call
    BY <1>2, <2>1
  <2>2. CASE pc' = [pc EXCEPT ![u] = "idle"] /\ call' = [call EXCEPT ![u] = Nothing]
    BY <2>2
  <2>3. ASSUME NEW doc \in Docs, call' = [call EXCEPT ![u].doc = doc],
               pc' = [pc EXCEPT ![u] = "got"]
        PROVE  \E label \in {"idle", "got", "put"}, made \in Calls \cup {Nothing} :
                 /\ pc' = [pc EXCEPT ![u] = label] /\ call' = [call EXCEPT ![u] = made]
                 /\ label # "idle" => made \in Calls /\ made.ctx = call[u].ctx
    <3>1. /\ call' = [call EXCEPT ![u] = [call[u] EXCEPT !.doc = doc]]
          /\ [call[u] EXCEPT !.doc = doc] \in Calls
          /\ [call[u] EXCEPT !.doc = doc].ctx = call[u].ctx
      BY <1>2, <2>3 DEF Calls
    <3> QED  BY <2>3, <3>1
  <2> QED  BY <2>1, <2>2, <2>3 DEF IdRead, FieldsVisited, ReadFail, Goto
<1>4. reader' \in [Ctxs -> Docs \cup {Nothing}] /\ buf' \in [Ctxs -> Docs \cup {Nothing}]
  BY <1>1 DEF PoolInv, TypeOK
<1> QED  BY <1>1, <1>2, <1>3, <1>4, StepInCall

-----------------------------------------------------------------------------
\* The steps that put a context back.

\* A visitor stops: from now on its context counts as put back twice.
LEMMA StopAtIdKeeps == ASSUME PoolInv, NEW u \in Users, StopAtId(u) PROVE PoolInv'
<1> USE DEF PoolInv
<1> DEFINE c == call[u].ctx
<1>1. /\ pc[u] = "id" /\ UNCHANGED <<reader, buf, call>>
      /\ pool' = [pool EXCEPT ![c] = @ + 1] /\ twice' = twice \cup {c}
      /\ pc' = [pc EXCEPT ![u] = "put"]
  BY DEF StopAtId, Goto
<1>2. InCall(u) /\ c \in Ctxs
  BY <1>1, InCallHas
<1> HIDE DEF c
<1>3. /\ pc' \in [Users -> {"idle", "got", "id", "fields", "put"}]
      /\ \A v \in Users : (InCall(v)' <=> InCall(v)) /\ (pc'[v] = pc[v] \/ pc'[v] = "put")
  BY <1>1, <1>2 DEF TypeOK, InCall
<1>4. /\ pool' \in [Ctxs -> Nat] /\ \A x \in Ctxs \ {c} : pool'[x] = pool[x]
      /\ twice' \subseteq Ctxs
  BY <1>1, <1>2 DEF TypeOK
<1>5. TypeOK' /\ CallsMade'
  BY <1>1, <1>3, <1>4 DEF TypeOK, CallsMade
<1>6. OneCopy'
  <2>1. \A x \in Ctxs \ twice' : x # c /\ x \notin twice
    BY <1>1
  <2>2. \A v \in Users : InCall(v) => call[v].ctx \in Ctxs
    BY DEF CallsMade, Calls
  <2> QED  BY <1>1, <1>3, <1>4, <2>1, <2>2 DEF OneCopy, Exclusive
<1>7. ReadsOwnDoc'
  BY <1>1, <1>3 DEF ReadsOwnDoc
<1> QED  BY <1>5, <1>6, <1>7

LEMMA PutKeeps == ASSUME PoolInv, NEW u \in Users, Put(u) PROVE PoolInv'
<1> USE DEF PoolInv
<1> DEFINE c == call[u].ctx
<1>1. /\ pc[u] = "put" /\ UNCHANGED <<reader, buf, twice>>
      /\ pool' = [pool EXCEPT ![c] = @ + 1] /\ call' = [call EXCEPT ![u] = Nothing]
      /\ pc' = [pc EXCEPT ![u] = "idle"]
  BY DEF Put, Goto
<1>2. InCall(u) /\ c \in Ctxs
  BY <1>1, InCallHas
<1>3. c \notin twice => pool[c] = 0 /\ \A v \in Users \ {u} : InCall(v) => call[v].ctx # c
  BY <1>2 DEF OneCopy, Exclusive
<1> HIDE DEF c
<1>4. /\ pc' \in [Users -> {"idle", "got", "id", "fields", "put"}]
      /\ call' \in [Users -> Calls \cup {Nothing}]
      /\ \A v \in Users : InCall(v)' => v # u /\ InCall(v) /\ pc'[v] = pc[v]
                                        /\ call'[v] = call[v] /\ call[v].ctx \in Ctxs
  BY <1>1, <1>2 DEF TypeOK, InCall, CallsMade, Calls
<1>5. /\ pool' \in [Ctxs -> Nat] /\ \A x \in Ctxs \ {c} : pool'[x] = pool[x]
      /\ pool'[c] = pool[c] + 1
  BY <1>1, <1>2 DEF TypeOK
<1>6. TypeOK' /\ CallsMade'
  BY <1>1, <1>4, <1>5 DEF TypeOK, CallsMade, Calls
<1>7. OneCopy'
  <2>1. \A x \in Ctxs \ twice' : pool'[x] \in {0, 1}
    BY <1>1, <1>3, <1>5 DEF OneCopy
  <2>2. Exclusive'
    <3> SUFFICES ASSUME NEW v \in Users, InCall(v)', call'[v].ctx \notin twice'
                 PROVE  /\ pool'[call'[v].ctx] = 0
                        /\ \A w \in Users \ {v} : InCall(w)' => call'[w].ctx # call'[v].ctx
      BY DEF Exclusive
    <3>1. v # u /\ InCall(v) /\ call'[v] = call[v] /\ call[v].ctx \in Ctxs
      BY <1>4
    <3>2. call[v].ctx # c
      BY <1>1, <1>3, <3>1
    <3> QED  BY <1>1, <1>4, <1>5, <3>1, <3>2 DEF OneCopy, Exclusive
  <2> QED  BY <2>1, <2>2 DEF OneCopy
<1>8. ReadsOwnDoc'
  BY <1>1, <1>4 DEF ReadsOwnDoc
<1> QED  BY <1>6, <1>7, <1>8

LEMMA ForgetKeeps == ASSUME PoolInv, NEW c \in Ctxs, Forget(c) PROVE PoolInv'
<1> USE DEF PoolInv
<1>1. /\ pool[c] > 0 /\ pool' = [pool EXCEPT ![c] = @ - 1]
      /\ UNCHANGED <<reader, buf, pc, call, twice>>
  BY DEF Forget
<1>2. /\ pool' \in [Ctxs -> Nat] /\ \A x \in Ctxs \ {c} : pool'[x] = pool[x]
      /\ pool'[c] = pool[c] - 1 /\ pool[c] \in Nat
  BY <1>1 DEF TypeOK
<1>3. TypeOK' /\ CallsMade' /\ ReadsOwnDoc'
  BY <1>1, <1>2 DEF TypeOK, CallsMade, ReadsOwnDoc, InCall
<1>4. OneCopy'
  <2>1. \A x \in Ctxs \ twice' : pool'[x] \in {0, 1}
    BY <1>1, <1>2 DEF OneCopy
  <2>2. Exclusive'
    <3> SUFFICES ASSUME NEW v \in Users, InCall(v), call[v].ctx \notin twice
                 PROVE  /\ pool'[call[v].ctx] = 0
                        /\ \A w \in Users \ {v} : InCall(w) => call[w].ctx # call[v].ctx
      BY <1>1 DEF Exclusive, InCall
    <3>1. call[v].ctx \in Ctxs /\ pool[call[v].ctx] = 0
      BY DEF CallsMade, Calls, OneCopy, Exclusive
    <3> QED  BY <1>1, <1>2, <3>1 DEF OneCopy, Exclusive
  <2> QED  BY <2>1, <2>2 DEF OneCopy
<1> QED  BY <1>3, <1>4

-----------------------------------------------------------------------------
LEMMA PoolInvariant == Spec => []PoolInv
<1>1. PoolInv /\ [Next]_vars => PoolInv'
  <2> SUFFICES ASSUME PoolInv, [Next]_vars PROVE PoolInv'
    OBVIOUS
  <2>1. ASSUME NEW u \in Users,
               Get(u) \/ ReadMeta(u) \/ StopAtId(u) \/ IdRead(u) \/ Decode(u)
                 \/ FieldsVisited(u) \/ Put(u) \/ ReadFail(u)
        PROVE  PoolInv'
    BY <2>1, GetKeeps, ReadMetaKeeps, StopAtIdKeeps, DecodeKeeps, PutKeeps,
       IdRead_FieldsVisited_ReadFail_Keep
  <2>2. ASSUME NEW c \in Ctxs, Forget(c) PROVE PoolInv'
    BY <2>2, ForgetKeeps
  <2>3. CASE UNCHANGED vars
    BY <2>3 DEF vars, PoolInv, TypeOK, CallsMade, OneCopy, Exclusive, ReadsOwnDoc, InCall
  <2> QED  BY <2>1, <2>2, <2>3 DEF Next
<1> QED  BY <1>1, InitPoolInv, PTL DEF Spec

\* A context serves one call at a time (Exclusive).
THEOREM OneCallAtATime == Spec => []Exclusive
<1>1. PoolInv => Exclusive
  BY DEF PoolInv, OneCopy
<1> QED  BY <1>1, PoolInvariant, PTL

\* A call that reads fields reads those of its own document (ReadsOwnDoc).
THEOREM OwnDocAlways == Spec => []ReadsOwnDoc
<1>1. PoolInv => ReadsOwnDoc
  BY DEF PoolInv
<1> QED  BY <1>1, PoolInvariant, PTL

\* segment.go:526-527, for the calls that the code keeps apart: without a
\* visitor that stops at "_id" no two calls use a context at once.
THEOREM NeverShared == "stopAtId" \notin Kinds => (Spec => []NoTwoCallsShare)
<1> SUFFICES ASSUME "stopAtId" \notin Kinds PROVE Spec => []NoTwoCallsShare
  OBVIOUS
<1> DEFINE NoneTwice == twice = {} /\ \A u \in Users : InCall(u) => call[u].kind \in Kinds
<1>1. Init => NoneTwice
  BY DEF Init, InCall
<1>2. PoolInv /\ NoneTwice /\ [Next]_vars => NoneTwice'
  <2> SUFFICES ASSUME PoolInv, NoneTwice, [Next]_vars PROVE NoneTwice'
    OBVIOUS
  <2>1. ASSUME NEW u \in Users, Get(u) PROVE NoneTwice'
    <3>1. PICK kind \in Kinds, doc \in Docs, c \in Ctxs :
            call' = [call EXCEPT ![u] = [kind |-> kind, doc |-> doc, ctx |-> c]]
      BY <2>1 DEF Get
    <3>2. twice' = {} /\ pc' = [pc EXCEPT ![u] = "got"]
      BY <2>1 DEF Get, Goto
    <3> QED  BY <3>1, <3>2 DEF InCall, PoolInv, TypeOK
  <2>2. ASSUME NEW u \in Users,
               ReadMeta(u) \/ IdRead(u) \/ Decode(u) \/ FieldsVisited(u) \/ Put(u) \/ ReadFail(u)
        PROVE  NoneTwice'
    <3>1. /\ twice' = twice /\ pc[u] # "idle"
          /\ pc' \in {[pc EXCEPT ![u] = label] : label \in {"idle", "id", "fields", "put", "got"}}
      BY <2>2 DEF ReadMeta, IdRead, Decode, FieldsVisited, Put, ReadFail, Goto
    <3>2. \/ UNCHANGED call
          \/ \E doc \in Docs : call' = [call EXCEPT ![u].doc = doc]
          \/ call' = [call EXCEPT ![u] = Nothing] /\ pc' = [pc EXCEPT ![u] = "idle"]
      BY <2>2 DEF ReadMeta, IdRead, Decode, FieldsVisited, Put, ReadFail, Goto
    <3>3. InCall(u) /\ call[u] \in Calls
      BY <3>1, InCallHas
    <3>4. \A v \in Users : InCall(v)' => InCall(v) /\ call'[v].kind = call[v].kind
      BY <3>1, <3>2, <3>3 DEF InCall, PoolInv, TypeOK, Calls
    <3> QED  BY <3>1, <3>4
  <2>3. ASSUME NEW u \in Users, StopAtId(u) PROVE FALSE
    BY <2>3 DEF StopAtId, InCall
  <2>4. ASSUME NEW c \in Ctxs, Forget(c) PROVE NoneTwice'
    BY <2>4 DEF Forget, InCall
  <2>5. CASE UNCHANGED vars
    BY <2>5 DEF vars, InCall
  <2> QED  BY <2>1, <2>2, <2>3, <2>4, <2>5 DEF Next
<1>3. PoolInv /\ NoneTwice => NoTwoCallsShare
  BY DEF PoolInv, OneCopy, Exclusive, NoTwoCallsShare
<1> QED  BY <1>1, <1>2, <1>3, PoolInvariant, PTL DEF Spec
=============================================================================
