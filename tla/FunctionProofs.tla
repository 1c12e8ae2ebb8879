--------------------------- MODULE FunctionProofs ----------------------------
(***************************************************************************)
(* Proofs about what functions leave behind (FunctionStore) and how they   *)
(* are deployed and run (FunctionExecution), for any number of functions,  *)
(* databases, keys, requests and versions, and any limits.                 *)
(***************************************************************************)
EXTENDS FunctionParts, FiniteSetTheorems, TLAPS

\* The part of the inductive invariant that counts nothing: what requests know is true,
\* and rows, data and files belong together.
KnownInv ==
    /\ TypeOK
    /\ \A r \in Requests : RequestInv(r)
    /\ OneMaker /\ DeletionTracked /\ DatabaseFiles /\ NoResurrection

-----------------------------------------------------------------------------
(* What a step does to the requests *)

ReqType == [Requests -> [pc : PC, f : Functions \cup {None}, d : Databases \cup {None}]]

\* Request r goes on at pc with function f and database d, and no other request moves.
Becomes(r, pc, f, d) ==
    /\ req' \in ReqType
    /\ req'[r].pc = pc /\ req'[r].f = f /\ req'[r].d = d
    /\ \A q \in Requests : q # r => req'[q] = req[q]

\* No request begins to make a database, or a function.
NoNewMaker == \A q \in Requests : q \in Making' => q \in Making
NoNewCreator == \A q \in Requests : At(q, "createRow")' => At(q, "createRow")

\* A request that returns is idle and knows nothing.
LEMMA ReturnFacts ==
    ASSUME TypeOK, NEW r \in Requests, Return(r)
    PROVE  Becomes(r, "idle", None, None)
  BY DEF TypeOK, Return, Becomes, ReqType, Idle, PC

\* A request enters with what it was given.
LEMMA EnterFacts ==
    ASSUME TypeOK, NEW r \in Requests, NEW p \in PC, NEW f \in Functions \cup {None},
           NEW d \in Databases \cup {None}, Enter(r, p, f, d)
    PROVE  Becomes(r, p, f, d)
  BY DEF TypeOK, Enter, Becomes, ReqType, PC

\* A request that goes on keeps what it knows.
LEMMA GotoFacts ==
    ASSUME TypeOK, NEW r \in Requests, NEW p \in PC, Goto(r, p)
    PROVE  Becomes(r, p, req[r].f, req[r].d)
  BY DEF TypeOK, Goto, Becomes, ReqType, PC

\* A request that goes on with another database keeps its function.
LEMMA CarryFacts ==
    ASSUME TypeOK, NEW r \in Requests, NEW p \in PC, NEW d \in Databases \cup {None},
           Carry(r, p, d)
    PROVE  Becomes(r, p, req[r].f, d)
  BY DEF TypeOK, Carry, Becomes, ReqType, PC

\* A query ends in the function that made it, or with the owner's request.
LEMMA QueryReturnsFacts ==
    ASSUME TypeOK, NEW r \in Requests, QueryReturns(r)
    PROVE  \/ req[r].f = None /\ Becomes(r, "idle", None, None)
           \/ req[r].f # None /\ Becomes(r, "use", req[r].f, None)
  BY ReturnFacts, CarryFacts DEF QueryReturns, PC

-----------------------------------------------------------------------------
\* The count of the functions, under the mutex.
LEMMA CreateCountKnown ==
    ASSUME KnownInv, NEW r \in Requests, CreateCount(r)
    PROVE  KnownInv' /\ NoNewMaker
  <1>1. TypeOK /\ \A q \in Requests : RequestInv(q)
    BY DEF KnownInv
  <1>2. Becomes(r, "createRow", req[r].f, req[r].d)
    BY <1>1, GotoFacts DEF CreateCount, PC
  <1>3. TypeOK'
    BY <1>1, <1>2, FunctionStoreAssumption DEF TypeOK, At, Becomes, ReqType, data, dbs,
           CreateCount
  <1>4. ASSUME NEW q \in Requests PROVE RequestInv(q)'
    BY <1>1, <1>2, FunctionStoreAssumption DEF KnownInv, TypeOK, RequestInv, At, Becomes,
           ReqType, data, dbs, Live, CreateCount
  <1>5. OneMaker'
    BY <1>1, <1>2 DEF KnownInv, OneMaker, At, Becomes, ReqType, CreateCount
  <1>6. NoResurrection'
    BY <1>1 DEF KnownInv, NoResurrection, TypeOK, data, dbs, CreateCount
  <1>7. DeletionTracked'
    BY <1>1, <1>2 DEF KnownInv, DeletionTracked, TypeOK, At, Becomes, ReqType, data, CreateCount
  <1>8. DatabaseFiles'
    BY <1>1, <1>2 DEF KnownInv, DatabaseFiles, DatabaseHasFile, NoLitter, TypeOK, At, Becomes,
           ReqType, dbs, CreateCount
  <1>9. NoNewMaker
    BY <1>2 DEF NoNewMaker, Making, At, Becomes, ReqType, CreateCount
  <1>10. QED
    BY <1>3, <1>4, <1>5, <1>6, <1>7, <1>8, <1>9 DEF KnownInv

\* The insert of a function; it has no data yet.
LEMMA CreateDeploymentKnown ==
    ASSUME KnownInv, NEW r \in Requests, NEW f \in Functions, CreateDeployment(r, f)
    PROVE  KnownInv' /\ NoNewMaker /\ NoNewCreator
  <1>1. TypeOK /\ \A q \in Requests : RequestInv(q)
    BY DEF KnownInv
  <1>2. Becomes(r, "idle", None, None)
    BY <1>1, ReturnFacts DEF CreateDeployment
  <1>3. TypeOK'
    BY <1>1, <1>2, FunctionStoreAssumption DEF TypeOK, At, Becomes, ReqType, data, dbs,
           CreateDeployment
  <1>4. ASSUME NEW q \in Requests PROVE RequestInv(q)'
    BY <1>1, <1>2, FunctionStoreAssumption DEF KnownInv, TypeOK, RequestInv, At, Becomes,
           ReqType, data, dbs, Live, CreateDeployment
  <1>5. OneMaker'
    BY <1>1, <1>2 DEF KnownInv, OneMaker, At, Becomes, ReqType, CreateDeployment
  <1>6. NoResurrection'
    BY <1>1 DEF KnownInv, NoResurrection, TypeOK, data, dbs, CreateDeployment
  <1>7. DeletionTracked'
    BY <1>1, <1>2 DEF KnownInv, DeletionTracked, TypeOK, At, Becomes, ReqType, data,
           CreateDeployment
  <1>8. DatabaseFiles'
    BY <1>1, <1>2 DEF KnownInv, DatabaseFiles, DatabaseHasFile, NoLitter, TypeOK, At, Becomes,
           ReqType, dbs, CreateDeployment
  <1>9. NoNewMaker /\ NoNewCreator
    BY <1>2 DEF NoNewMaker, Making, NoNewCreator, At, Becomes, ReqType, CreateDeployment
  <1>10. QED
    BY <1>3, <1>4, <1>5, <1>6, <1>7, <1>8, <1>9 DEF KnownInv

\* A creation that fails.
LEMMA CreateConflictKnown ==
    ASSUME KnownInv, NEW r \in Requests, CreateConflict(r)
    PROVE  KnownInv' /\ NoNewMaker /\ NoNewCreator
  <1>1. TypeOK /\ \A q \in Requests : RequestInv(q)
    BY DEF KnownInv
  <1>2. Becomes(r, "idle", None, None)
    BY <1>1, ReturnFacts DEF CreateConflict
  <1>3. TypeOK'
    BY <1>1, <1>2, FunctionStoreAssumption DEF TypeOK, At, Becomes, ReqType, data, dbs,
           CreateConflict
  <1>4. ASSUME NEW q \in Requests PROVE RequestInv(q)'
    BY <1>1, <1>2, FunctionStoreAssumption DEF KnownInv, TypeOK, RequestInv, At, Becomes,
           ReqType, data, dbs, Live, CreateConflict
  <1>5. OneMaker'
    BY <1>1, <1>2 DEF KnownInv, OneMaker, At, Becomes, ReqType, CreateConflict
  <1>6. NoResurrection'
    BY <1>1 DEF KnownInv, NoResurrection, TypeOK, data, dbs, CreateConflict
  <1>7. DeletionTracked'
    BY <1>1, <1>2 DEF KnownInv, DeletionTracked, TypeOK, At, Becomes, ReqType, data,
           CreateConflict
  <1>8. DatabaseFiles'
    BY <1>1, <1>2 DEF KnownInv, DatabaseFiles, DatabaseHasFile, NoLitter, TypeOK, At, Becomes,
           ReqType, dbs, CreateConflict
  <1>9. NoNewMaker /\ NoNewCreator
    BY <1>2 DEF NoNewMaker, Making, NoNewCreator, At, Becomes, ReqType, CreateConflict
  <1>10. QED
    BY <1>3, <1>4, <1>5, <1>6, <1>7, <1>8, <1>9 DEF KnownInv

\* The first half of a deletion: from now on the request owes the second.
LEMMA DeleteRowKnown ==
    ASSUME KnownInv, NEW r \in Requests, NEW f \in Functions, DeleteRow(r, f)
    PROVE  KnownInv' /\ NoNewMaker /\ NoNewCreator
  <1>1. TypeOK /\ \A q \in Requests : RequestInv(q)
    BY DEF KnownInv
  <1>2. Becomes(r, "deleteData", f, None)
    BY <1>1, EnterFacts DEF DeleteRow, PC
  <1>3. TypeOK'
    BY <1>1, <1>2, FunctionStoreAssumption DEF TypeOK, At, Becomes, ReqType, data, dbs,
           DeleteRow
  <1>4. ASSUME NEW q \in Requests PROVE RequestInv(q)'
    BY <1>1, <1>2, FunctionStoreAssumption DEF KnownInv, TypeOK, RequestInv, At, Becomes,
           ReqType, data, dbs, Live, DeleteRow
  <1>5. OneMaker'
    BY <1>1, <1>2 DEF KnownInv, OneMaker, At, Becomes, ReqType, DeleteRow
  <1>6. NoResurrection'
    BY <1>1 DEF KnownInv, NoResurrection, TypeOK, data, dbs, DeleteRow
  <1>7. DeletionTracked'
    BY <1>1, <1>2 DEF KnownInv, DeletionTracked, TypeOK, At, Becomes, ReqType, data, DeleteRow
  <1>8. DatabaseFiles'
    BY <1>1, <1>2 DEF KnownInv, DatabaseFiles, DatabaseHasFile, NoLitter, TypeOK, At, Becomes,
           ReqType, dbs, DeleteRow
  <1>9. NoNewMaker /\ NoNewCreator
    BY <1>2 DEF NoNewMaker, Making, NoNewCreator, At, Becomes, ReqType, DeleteRow
  <1>10. QED
    BY <1>3, <1>4, <1>5, <1>6, <1>7, <1>8, <1>9 DEF KnownInv

\* The second half: the data goes and the tombstone comes in one transaction.
LEMMA DeleteFunctionKnown ==
    ASSUME KnownInv, NEW r \in Requests, DeleteFunction(r)
    PROVE  KnownInv' /\ NoNewMaker /\ NoNewCreator
  <1>1. TypeOK /\ \A q \in Requests : RequestInv(q)
    BY DEF KnownInv
  <1>2. Becomes(r, "idle", None, None)
    BY <1>1, ReturnFacts DEF DeleteFunction
  <1>3. TypeOK'
    BY <1>1, <1>2, FunctionStoreAssumption DEF TypeOK, RequestInv, At, Becomes, ReqType, data,
           dbs, DeleteFunction
  <1>4. ASSUME NEW q \in Requests PROVE RequestInv(q)'
    BY <1>1, <1>2, FunctionStoreAssumption DEF KnownInv, TypeOK, RequestInv, At, Becomes,
           ReqType, data, dbs, Live, DeleteFunction
  <1>5. OneMaker'
    BY <1>1, <1>2 DEF KnownInv, OneMaker, At, Becomes, ReqType, DeleteFunction
  <1>6. NoResurrection'
    BY <1>1 DEF KnownInv, NoResurrection, TypeOK, RequestInv, At, DeleteFunction
  <1>7. DeletionTracked'
    BY <1>1, <1>2 DEF KnownInv, DeletionTracked, TypeOK, RequestInv, At, Becomes, ReqType, data,
           DeleteFunction
  <1>8. DatabaseFiles'
    BY <1>1, <1>2 DEF KnownInv, DatabaseFiles, DatabaseHasFile, NoLitter, TypeOK, At, Becomes,
           ReqType, dbs, DeleteFunction
  <1>9. NoNewMaker /\ NoNewCreator
    BY <1>2 DEF NoNewMaker, Making, NoNewCreator, At, Becomes, ReqType, DeleteFunction
  <1>10. QED
    BY <1>3, <1>4, <1>5, <1>6, <1>7, <1>8, <1>9 DEF KnownInv

\* A second half that fails leaves its function in leaked.
LEMMA DeleteFunctionFailsKnown ==
    ASSUME KnownInv, NEW r \in Requests, DeleteFunctionFails(r)
    PROVE  KnownInv' /\ NoNewMaker /\ NoNewCreator
  <1>1. TypeOK /\ \A q \in Requests : RequestInv(q)
    BY DEF KnownInv
  <1>2. Becomes(r, "idle", None, None)
    BY <1>1, ReturnFacts DEF DeleteFunctionFails
  <1>3. TypeOK'
    BY <1>1, <1>2, FunctionStoreAssumption DEF TypeOK, RequestInv, At, Becomes, ReqType, Fault,
           data, dbs, DeleteFunctionFails
  <1>4. ASSUME NEW q \in Requests PROVE RequestInv(q)'
    BY <1>1, <1>2, FunctionStoreAssumption DEF KnownInv, TypeOK, RequestInv, At, Becomes,
           ReqType, data, dbs, Live, DeleteFunctionFails
  <1>5. OneMaker'
    BY <1>1, <1>2 DEF KnownInv, OneMaker, At, Becomes, ReqType, DeleteFunctionFails
  <1>6. NoResurrection'
    BY <1>1 DEF KnownInv, NoResurrection, TypeOK, data, dbs, DeleteFunctionFails
  <1>7. DeletionTracked'
    BY <1>1, <1>2 DEF KnownInv, DeletionTracked, TypeOK, RequestInv, At, Becomes, ReqType, data,
           DeleteFunctionFails
  <1>8. DatabaseFiles'
    BY <1>1, <1>2 DEF KnownInv, DatabaseFiles, DatabaseHasFile, NoLitter, TypeOK, At, Becomes,
           ReqType, dbs, DeleteFunctionFails
  <1>9. NoNewMaker /\ NoNewCreator
    BY <1>2 DEF NoNewMaker, Making, NoNewCreator, At, Becomes, ReqType, DeleteFunctionFails
  <1>10. QED
    BY <1>3, <1>4, <1>5, <1>6, <1>7, <1>8, <1>9 DEF KnownInv

\* A lookup finds a function that exists.
LEMMA StartUseKnown ==
    ASSUME KnownInv, NEW r \in Requests, NEW f \in Functions, StartUse(r, f)
    PROVE  KnownInv' /\ NoNewMaker /\ NoNewCreator
  <1>1. TypeOK /\ \A q \in Requests : RequestInv(q)
    BY DEF KnownInv
  <1>2. Becomes(r, "use", f, None)
    BY <1>1, EnterFacts DEF StartUse, PC
  <1>3. TypeOK'
    BY <1>1, <1>2, FunctionStoreAssumption DEF TypeOK, At, Becomes, ReqType, data, dbs, StartUse
  <1>4. ASSUME NEW q \in Requests PROVE RequestInv(q)'
    BY <1>1, <1>2, FunctionStoreAssumption DEF KnownInv, TypeOK, RequestInv, At, Becomes,
           ReqType, data, dbs, Live, StartUse
  <1>5. OneMaker'
    BY <1>1, <1>2 DEF KnownInv, OneMaker, At, Becomes, ReqType, StartUse
  <1>6. NoResurrection'
    BY <1>1 DEF KnownInv, NoResurrection, TypeOK, data, dbs, StartUse
  <1>7. DeletionTracked'
    BY <1>1, <1>2 DEF KnownInv, DeletionTracked, TypeOK, At, Becomes, ReqType, data, StartUse
  <1>8. DatabaseFiles'
    BY <1>1, <1>2 DEF KnownInv, DatabaseFiles, DatabaseHasFile, NoLitter, TypeOK, At, Becomes,
           ReqType, dbs, StartUse
  <1>9. NoNewMaker /\ NoNewCreator
    BY <1>2 DEF NoNewMaker, Making, NoNewCreator, At, Becomes, ReqType, StartUse
  <1>10. QED
    BY <1>3, <1>4, <1>5, <1>6, <1>7, <1>8, <1>9 DEF KnownInv

\* A write finds no tombstone: the function is live, leaked or about to lose its data.
LEMMA PutKnown ==
    ASSUME KnownInv, NEW r \in Requests, NEW k \in Keys, Put(r, k)
    PROVE  KnownInv' /\ NoNewMaker /\ NoNewCreator
  <1>1. TypeOK /\ \A q \in Requests : RequestInv(q)
    BY DEF KnownInv
  <1>2. req' = req
    BY DEF Put
  <1>3. TypeOK'
    BY <1>1, <1>2, FunctionStoreAssumption DEF TypeOK, RequestInv, At, data, dbs, Put
  <1>4. ASSUME NEW q \in Requests PROVE RequestInv(q)'
    BY <1>1, <1>2, FunctionStoreAssumption DEF KnownInv, TypeOK, RequestInv, At, data, dbs,
           Live, Put
  <1>5. OneMaker'
    BY <1>1, <1>2 DEF KnownInv, OneMaker, At, Put
  <1>6. NoResurrection'
    BY <1>1 DEF KnownInv, NoResurrection, TypeOK, Put
  <1>7. DeletionTracked'
    BY <1>1, <1>2 DEF KnownInv, DeletionTracked, TypeOK, RequestInv, At, data, Put
  <1>8. DatabaseFiles'
    BY <1>1, <1>2 DEF KnownInv, DatabaseFiles, DatabaseHasFile, NoLitter, TypeOK, At, dbs, Put
  <1>9. NoNewMaker /\ NoNewCreator
    BY <1>2 DEF NoNewMaker, Making, NoNewCreator, At, Put
  <1>10. QED
    BY <1>3, <1>4, <1>5, <1>6, <1>7, <1>8, <1>9 DEF KnownInv

\* The removal of an item.
LEMMA DeleteKnown ==
    ASSUME KnownInv, NEW r \in Requests, NEW k \in Keys, Delete(r, k)
    PROVE  KnownInv' /\ NoNewMaker /\ NoNewCreator
  <1>1. TypeOK /\ \A q \in Requests : RequestInv(q)
    BY DEF KnownInv
  <1>2. req' = req
    BY DEF Delete
  <1>3. TypeOK'
    BY <1>1, <1>2, FunctionStoreAssumption DEF TypeOK, At, data, dbs, Delete
  <1>4. ASSUME NEW q \in Requests PROVE RequestInv(q)'
    BY <1>1, <1>2, FunctionStoreAssumption DEF KnownInv, TypeOK, RequestInv, At, data, dbs,
           Live, Delete
  <1>5. OneMaker'
    BY <1>1, <1>2 DEF KnownInv, OneMaker, At, Delete
  <1>6. NoResurrection'
    BY <1>1 DEF KnownInv, NoResurrection, TypeOK, Delete
  <1>7. DeletionTracked'
    BY <1>1, <1>2 DEF KnownInv, DeletionTracked, TypeOK, RequestInv, At, data, Delete
  <1>8. DatabaseFiles'
    BY <1>1, <1>2 DEF KnownInv, DatabaseFiles, DatabaseHasFile, NoLitter, TypeOK, At, dbs,
           Delete
  <1>9. NoNewMaker /\ NoNewCreator
    BY <1>2 DEF NoNewMaker, Making, NoNewCreator, At, Delete
  <1>10. QED
    BY <1>3, <1>4, <1>5, <1>6, <1>7, <1>8, <1>9 DEF KnownInv

\* A request that is over.
LEMMA EndUseKnown ==
    ASSUME KnownInv, NEW r \in Requests, EndUse(r)
    PROVE  KnownInv' /\ NoNewMaker /\ NoNewCreator
  <1>1. TypeOK /\ \A q \in Requests : RequestInv(q)
    BY DEF KnownInv
  <1>2. Becomes(r, "idle", None, None)
    BY <1>1, ReturnFacts DEF EndUse
  <1>3. TypeOK'
    BY <1>1, <1>2, FunctionStoreAssumption DEF TypeOK, At, Becomes, ReqType, data, dbs, EndUse
  <1>4. ASSUME NEW q \in Requests PROVE RequestInv(q)'
    BY <1>1, <1>2, FunctionStoreAssumption DEF KnownInv, TypeOK, RequestInv, At, Becomes,
           ReqType, data, dbs, Live, EndUse
  <1>5. OneMaker'
    BY <1>1, <1>2 DEF KnownInv, OneMaker, At, Becomes, ReqType, EndUse
  <1>6. NoResurrection'
    BY <1>1 DEF KnownInv, NoResurrection, TypeOK, data, dbs, EndUse
  <1>7. DeletionTracked'
    BY <1>1, <1>2 DEF KnownInv, DeletionTracked, TypeOK, At, Becomes, ReqType, data, EndUse
  <1>8. DatabaseFiles'
    BY <1>1, <1>2 DEF KnownInv, DatabaseFiles, DatabaseHasFile, NoLitter, TypeOK, At, Becomes,
           ReqType, dbs, EndUse
  <1>9. NoNewMaker /\ NoNewCreator
    BY <1>2 DEF NoNewMaker, Making, NoNewCreator, At, Becomes, ReqType, EndUse
  <1>10. QED
    BY <1>3, <1>4, <1>5, <1>6, <1>7, <1>8, <1>9 DEF KnownInv

\* The count of the databases.
LEMMA CountDatabasesKnown ==
    ASSUME KnownInv, NEW r \in Requests, CountDatabases(r)
    PROVE  KnownInv' /\ NoNewCreator
  <1>1. TypeOK /\ \A q \in Requests : RequestInv(q)
    BY DEF KnownInv
  <1>2. Becomes(r, "dbFile", req[r].f, req[r].d)
    BY <1>1, GotoFacts DEF CountDatabases, PC
  <1>3. TypeOK'
    BY <1>1, <1>2, FunctionStoreAssumption DEF TypeOK, At, Becomes, ReqType, data, dbs,
           CountDatabases
  <1>4. ASSUME NEW q \in Requests PROVE RequestInv(q)'
    BY <1>1, <1>2, FunctionStoreAssumption DEF KnownInv, TypeOK, RequestInv, At, Becomes,
           ReqType, data, dbs, Live, CountDatabases
  <1>5. OneMaker'
    BY <1>1, <1>2 DEF KnownInv, OneMaker, At, Becomes, ReqType, CountDatabases
  <1>6. NoResurrection'
    BY <1>1 DEF KnownInv, NoResurrection, TypeOK, data, dbs, CountDatabases
  <1>7. DeletionTracked'
    BY <1>1, <1>2 DEF KnownInv, DeletionTracked, TypeOK, At, Becomes, ReqType, data,
           CountDatabases
  <1>8. DatabaseFiles'
    BY <1>1, <1>2 DEF KnownInv, DatabaseFiles, DatabaseHasFile, NoLitter, TypeOK, At, Becomes,
           ReqType, dbs, CountDatabases
  <1>9. NoNewCreator
    BY <1>2 DEF NoNewCreator, At, Becomes, ReqType, CountDatabases
  <1>10. QED
    BY <1>3, <1>4, <1>5, <1>6, <1>7, <1>8, <1>9 DEF KnownInv

\* The new file is in nobody else's hands.
LEMMA CreateFileKnown ==
    ASSUME KnownInv, NEW r \in Requests, NEW d \in Databases, CreateFile(r, d)
    PROVE  KnownInv' /\ NoNewMaker /\ NoNewCreator
  <1>1. TypeOK /\ \A q \in Requests : RequestInv(q)
    BY DEF KnownInv
  <1>2. Becomes(r, "dbRow", req[r].f, d)
    BY <1>1, CarryFacts DEF CreateFile, PC
  <1>3. TypeOK'
    BY <1>1, <1>2, FunctionStoreAssumption DEF TypeOK, At, Becomes, ReqType, data, dbs,
           CreateFile
  <1>4. ASSUME NEW q \in Requests PROVE RequestInv(q)'
    BY <1>1, <1>2, FunctionStoreAssumption DEF KnownInv, TypeOK, RequestInv, At, Becomes,
           ReqType, data, dbs, Live, CreateFile
  <1>5. OneMaker'
    BY <1>1, <1>2 DEF KnownInv, OneMaker, RequestInv, At, Becomes, ReqType, TypeOK, CreateFile
  <1>6. NoResurrection'
    BY <1>1 DEF KnownInv, NoResurrection, TypeOK, data, dbs, CreateFile
  <1>7. DeletionTracked'
    BY <1>1, <1>2 DEF KnownInv, DeletionTracked, TypeOK, At, Becomes, ReqType, data, CreateFile
  <1>8. DatabaseFiles'
    BY <1>1, <1>2 DEF KnownInv, DatabaseFiles, DatabaseHasFile, NoLitter, TypeOK, RequestInv,
           At, Becomes, ReqType, dbs, CreateFile
  <1>9. NoNewMaker /\ NoNewCreator
    BY <1>2 DEF NoNewMaker, Making, NoNewCreator, At, Becomes, ReqType, CreateFile
  <1>10. QED
    BY <1>3, <1>4, <1>5, <1>6, <1>7, <1>8, <1>9 DEF KnownInv

\* No file, no row.
LEMMA CreateFileFailsKnown ==
    ASSUME KnownInv, NEW r \in Requests, CreateFileFails(r)
    PROVE  KnownInv' /\ NoNewMaker /\ NoNewCreator
  <1>1. TypeOK /\ \A q \in Requests : RequestInv(q)
    BY DEF KnownInv
  <1>2. Becomes(r, "idle", None, None)
    BY <1>1, ReturnFacts DEF CreateFileFails
  <1>3. TypeOK'
    BY <1>1, <1>2, FunctionStoreAssumption DEF TypeOK, At, Becomes, ReqType, data, dbs,
           CreateFileFails
  <1>4. ASSUME NEW q \in Requests PROVE RequestInv(q)'
    BY <1>1, <1>2, FunctionStoreAssumption DEF KnownInv, TypeOK, RequestInv, At, Becomes,
           ReqType, data, dbs, Live, CreateFileFails
  <1>5. OneMaker'
    BY <1>1, <1>2 DEF KnownInv, OneMaker, At, Becomes, ReqType, CreateFileFails
  <1>6. NoResurrection'
    BY <1>1 DEF KnownInv, NoResurrection, TypeOK, data, dbs, CreateFileFails
  <1>7. DeletionTracked'
    BY <1>1, <1>2 DEF KnownInv, DeletionTracked, TypeOK, At, Becomes, ReqType, data,
           CreateFileFails
  <1>8. DatabaseFiles'
    BY <1>1, <1>2 DEF KnownInv, DatabaseFiles, DatabaseHasFile, NoLitter, TypeOK, At, Becomes,
           ReqType, dbs, CreateFileFails
  <1>9. NoNewMaker /\ NoNewCreator
    BY <1>2 DEF NoNewMaker, Making, NoNewCreator, At, Becomes, ReqType, CreateFileFails
  <1>10. QED
    BY <1>3, <1>4, <1>5, <1>6, <1>7, <1>8, <1>9 DEF KnownInv

\* The row comes after its file.
LEMMA InsertDatabaseKnown ==
    ASSUME KnownInv, NEW r \in Requests, InsertDatabase(r)
    PROVE  KnownInv' /\ NoNewMaker /\ NoNewCreator
  <1>1. TypeOK /\ \A q \in Requests : RequestInv(q)
    BY DEF KnownInv
  <1>2. Becomes(r, "idle", None, None)
    BY <1>1, ReturnFacts DEF InsertDatabase
  <1>3. TypeOK'
    BY <1>1, <1>2, FunctionStoreAssumption DEF TypeOK, At, Becomes, ReqType, data, dbs,
           InsertDatabase
  <1>4. ASSUME NEW q \in Requests PROVE RequestInv(q)'
    BY <1>1, <1>2, FunctionStoreAssumption DEF KnownInv, OneMaker, TypeOK, RequestInv, At,
           Becomes, ReqType, data, dbs, Live, InsertDatabase
  <1>5. OneMaker'
    BY <1>1, <1>2 DEF KnownInv, OneMaker, At, Becomes, ReqType, InsertDatabase
  <1>6. NoResurrection'
    BY <1>1 DEF KnownInv, NoResurrection, TypeOK, data, dbs, InsertDatabase
  <1>7. DeletionTracked'
    BY <1>1, <1>2 DEF KnownInv, DeletionTracked, TypeOK, At, Becomes, ReqType, data,
           InsertDatabase
  <1>8. DatabaseFiles'
    <2>1. PICK d \in Databases : d = req[r].d /\ d \in files
      BY <1>1 DEF InsertDatabase, RequestInv, TypeOK, At
    <2>2. /\ \A e \in Databases : db'[e] = "live" <=> db[e] = "live" \/ e = d
          /\ UNCHANGED <<files, litter, denied>>
      BY <1>1, <2>1 DEF InsertDatabase, TypeOK
    <2>3. DatabaseHasFile'
      BY <2>1, <2>2 DEF KnownInv, DatabaseFiles, DatabaseHasFile
    <2>4. NoLitter'
      BY <1>1, <1>2, <2>1, <2>2 DEF KnownInv, DatabaseFiles, NoLitter, TypeOK, Becomes, ReqType
    <2>5. QED
      BY <2>3, <2>4 DEF DatabaseFiles
  <1>9. NoNewMaker /\ NoNewCreator
    BY <1>2 DEF NoNewMaker, Making, NoNewCreator, At, Becomes, ReqType, InsertDatabase
  <1>10. QED
    BY <1>3, <1>4, <1>5, <1>6, <1>7, <1>8, <1>9 DEF KnownInv

\* The file that goes has no row.
LEMMA InsertDatabaseFailsKnown ==
    ASSUME KnownInv, NEW r \in Requests, InsertDatabaseFails(r)
    PROVE  KnownInv' /\ NoNewMaker /\ NoNewCreator
  <1>1. TypeOK /\ \A q \in Requests : RequestInv(q)
    BY DEF KnownInv
  <1>2. Becomes(r, "idle", None, None)
    BY <1>1, ReturnFacts DEF InsertDatabaseFails
  <1>3. TypeOK'
    BY <1>1, <1>2, FunctionStoreAssumption DEF TypeOK, RequestInv, At, Becomes, ReqType, Fault,
           data, dbs, InsertDatabaseFails
  <1>4. ASSUME NEW q \in Requests PROVE RequestInv(q)'
    BY <1>1, <1>2, FunctionStoreAssumption DEF KnownInv, OneMaker, TypeOK, RequestInv, At,
           Becomes, ReqType, data, dbs, Live, InsertDatabaseFails
  <1>5. OneMaker'
    BY <1>1, <1>2 DEF KnownInv, OneMaker, At, Becomes, ReqType, InsertDatabaseFails
  <1>6. NoResurrection'
    BY <1>1 DEF KnownInv, NoResurrection, TypeOK, data, dbs, InsertDatabaseFails
  <1>7. DeletionTracked'
    BY <1>1, <1>2 DEF KnownInv, DeletionTracked, TypeOK, At, Becomes, ReqType, data,
           InsertDatabaseFails
  <1>8. DatabaseFiles'
    BY <1>1, <1>2 DEF KnownInv, DatabaseFiles, DatabaseHasFile, NoLitter, TypeOK, RequestInv,
           At, Becomes, ReqType, dbs, InsertDatabaseFails
  <1>9. NoNewMaker /\ NoNewCreator
    BY <1>2 DEF NoNewMaker, Making, NoNewCreator, At, Becomes, ReqType, InsertDatabaseFails
  <1>10. QED
    BY <1>3, <1>4, <1>5, <1>6, <1>7, <1>8, <1>9 DEF KnownInv

\* The row that stays alone is remembered.
LEMMA InsertDatabaseLostKnown ==
    ASSUME KnownInv, NEW r \in Requests, InsertDatabaseLost(r)
    PROVE  KnownInv' /\ NoNewMaker /\ NoNewCreator
  <1>1. TypeOK /\ \A q \in Requests : RequestInv(q)
    BY DEF KnownInv
  <1>2. Becomes(r, "idle", None, None)
    BY <1>1, ReturnFacts DEF InsertDatabaseLost
  <1>3. TypeOK'
    BY <1>1, <1>2, FunctionStoreAssumption DEF TypeOK, RequestInv, At, Becomes, ReqType, Fault,
           data, dbs, InsertDatabaseLost
  <1>4. ASSUME NEW q \in Requests PROVE RequestInv(q)'
    BY <1>1, <1>2, FunctionStoreAssumption DEF KnownInv, OneMaker, TypeOK, RequestInv, At,
           Becomes, ReqType, data, dbs, Live, InsertDatabaseLost
  <1>5. OneMaker'
    BY <1>1, <1>2 DEF KnownInv, OneMaker, At, Becomes, ReqType, InsertDatabaseLost
  <1>6. NoResurrection'
    BY <1>1 DEF KnownInv, NoResurrection, TypeOK, data, dbs, InsertDatabaseLost
  <1>7. DeletionTracked'
    BY <1>1, <1>2 DEF KnownInv, DeletionTracked, TypeOK, At, Becomes, ReqType, data,
           InsertDatabaseLost
  <1>8. DatabaseFiles'
    BY <1>1, <1>2 DEF KnownInv, DatabaseFiles, DatabaseHasFile, NoLitter, TypeOK, RequestInv,
           At, Becomes, ReqType, dbs, InsertDatabaseLost
  <1>9. NoNewMaker /\ NoNewCreator
    BY <1>2 DEF NoNewMaker, Making, NoNewCreator, At, Becomes, ReqType, InsertDatabaseLost
  <1>10. QED
    BY <1>3, <1>4, <1>5, <1>6, <1>7, <1>8, <1>9 DEF KnownInv

\* A deletion finds a database that is listed.
LEMMA DeleteDatabaseKnown ==
    ASSUME KnownInv, NEW r \in Requests, NEW d \in Databases, DeleteDatabase(r, d)
    PROVE  KnownInv' /\ NoNewMaker /\ NoNewCreator
  <1>1. TypeOK /\ \A q \in Requests : RequestInv(q)
    BY DEF KnownInv
  <1>2. Becomes(r, "dbDrop", None, d)
    BY <1>1, EnterFacts DEF DeleteDatabase, PC
  <1>3. TypeOK'
    BY <1>1, <1>2, FunctionStoreAssumption DEF TypeOK, At, Becomes, ReqType, data, dbs,
           DeleteDatabase
  <1>4. ASSUME NEW q \in Requests PROVE RequestInv(q)'
    BY <1>1, <1>2, FunctionStoreAssumption DEF KnownInv, TypeOK, RequestInv, At, Becomes,
           ReqType, data, dbs, Live, DeleteDatabase
  <1>5. OneMaker'
    BY <1>1, <1>2 DEF KnownInv, OneMaker, At, Becomes, ReqType, DeleteDatabase
  <1>6. NoResurrection'
    BY <1>1 DEF KnownInv, NoResurrection, TypeOK, data, dbs, DeleteDatabase
  <1>7. DeletionTracked'
    BY <1>1, <1>2 DEF KnownInv, DeletionTracked, TypeOK, At, Becomes, ReqType, data,
           DeleteDatabase
  <1>8. DatabaseFiles'
    BY <1>1, <1>2 DEF KnownInv, DatabaseFiles, DatabaseHasFile, NoLitter, TypeOK, At, Becomes,
           ReqType, dbs, DeleteDatabase
  <1>9. NoNewMaker /\ NoNewCreator
    BY <1>2 DEF NoNewMaker, Making, NoNewCreator, At, Becomes, ReqType, DeleteDatabase
  <1>10. QED
    BY <1>3, <1>4, <1>5, <1>6, <1>7, <1>8, <1>9 DEF KnownInv

\* Bindings and row go before the file, which the request still owes.
LEMMA DropDatabaseKnown ==
    ASSUME KnownInv, NEW r \in Requests, DropDatabase(r)
    PROVE  KnownInv' /\ NoNewMaker /\ NoNewCreator
  <1>1. TypeOK /\ \A q \in Requests : RequestInv(q)
    BY DEF KnownInv
  <1>2. Becomes(r, "dbUnlink", req[r].f, req[r].d)
    BY <1>1, GotoFacts DEF DropDatabase, PC
  <1>3. TypeOK'
    BY <1>1, <1>2, FunctionStoreAssumption DEF TypeOK, RequestInv, At, Becomes, ReqType, data,
           dbs, DropDatabase
  <1>4. ASSUME NEW q \in Requests PROVE RequestInv(q)'
    BY <1>1, <1>2, FunctionStoreAssumption DEF KnownInv, TypeOK, RequestInv, At, Becomes,
           ReqType, data, dbs, Live, DropDatabase
  <1>5. OneMaker'
    BY <1>1, <1>2 DEF KnownInv, OneMaker, At, Becomes, ReqType, DropDatabase
  <1>6. NoResurrection'
    BY <1>1 DEF KnownInv, NoResurrection, TypeOK, data, dbs, DropDatabase
  <1>7. DeletionTracked'
    BY <1>1, <1>2 DEF KnownInv, DeletionTracked, TypeOK, At, Becomes, ReqType, data,
           DropDatabase
  <1>8. DatabaseFiles'
    BY <1>1, <1>2 DEF KnownInv, DatabaseFiles, DatabaseHasFile, NoLitter, TypeOK, RequestInv,
           At, Becomes, ReqType, dbs, DropDatabase
  <1>9. NoNewMaker /\ NoNewCreator
    BY <1>2 DEF NoNewMaker, Making, NoNewCreator, At, Becomes, ReqType, DropDatabase
  <1>10. QED
    BY <1>3, <1>4, <1>5, <1>6, <1>7, <1>8, <1>9 DEF KnownInv

\* A transaction that fails changes nothing.
LEMMA DropDatabaseFailsKnown ==
    ASSUME KnownInv, NEW r \in Requests, DropDatabaseFails(r)
    PROVE  KnownInv' /\ NoNewMaker /\ NoNewCreator
  <1>1. TypeOK /\ \A q \in Requests : RequestInv(q)
    BY DEF KnownInv
  <1>2. Becomes(r, "idle", None, None)
    BY <1>1, ReturnFacts DEF DropDatabaseFails
  <1>3. TypeOK'
    BY <1>1, <1>2, FunctionStoreAssumption DEF TypeOK, At, Becomes, ReqType, Fault, data, dbs,
           DropDatabaseFails
  <1>4. ASSUME NEW q \in Requests PROVE RequestInv(q)'
    BY <1>1, <1>2, FunctionStoreAssumption DEF KnownInv, TypeOK, RequestInv, At, Becomes,
           ReqType, data, dbs, Live, DropDatabaseFails
  <1>5. OneMaker'
    BY <1>1, <1>2 DEF KnownInv, OneMaker, At, Becomes, ReqType, DropDatabaseFails
  <1>6. NoResurrection'
    BY <1>1 DEF KnownInv, NoResurrection, TypeOK, data, dbs, DropDatabaseFails
  <1>7. DeletionTracked'
    BY <1>1, <1>2 DEF KnownInv, DeletionTracked, TypeOK, At, Becomes, ReqType, data,
           DropDatabaseFails
  <1>8. DatabaseFiles'
    BY <1>1, <1>2 DEF KnownInv, DatabaseFiles, DatabaseHasFile, NoLitter, TypeOK, At, Becomes,
           ReqType, dbs, DropDatabaseFails
  <1>9. NoNewMaker /\ NoNewCreator
    BY <1>2 DEF NoNewMaker, Making, NoNewCreator, At, Becomes, ReqType, DropDatabaseFails
  <1>10. QED
    BY <1>3, <1>4, <1>5, <1>6, <1>7, <1>8, <1>9 DEF KnownInv

\* The file that stays alone is remembered.
LEMMA DropDatabaseLostKnown ==
    ASSUME KnownInv, NEW r \in Requests, DropDatabaseLost(r)
    PROVE  KnownInv' /\ NoNewMaker /\ NoNewCreator
  <1>1. TypeOK /\ \A q \in Requests : RequestInv(q)
    BY DEF KnownInv
  <1>2. Becomes(r, "idle", None, None)
    BY <1>1, ReturnFacts DEF DropDatabaseLost
  <1>3. TypeOK'
    BY <1>1, <1>2, FunctionStoreAssumption DEF TypeOK, RequestInv, At, Becomes, ReqType, Fault, data,
           dbs, DropDatabaseLost
  <1>4. ASSUME NEW q \in Requests PROVE RequestInv(q)'
    BY <1>1, <1>2, FunctionStoreAssumption DEF KnownInv, TypeOK, RequestInv, At, Becomes,
           ReqType, data, dbs, Live, DropDatabaseLost
  <1>5. OneMaker'
    BY <1>1, <1>2 DEF KnownInv, OneMaker, At, Becomes, ReqType, DropDatabaseLost
  <1>6. NoResurrection'
    BY <1>1 DEF KnownInv, NoResurrection, TypeOK, data, dbs, DropDatabaseLost
  <1>7. DeletionTracked'
    BY <1>1, <1>2 DEF KnownInv, DeletionTracked, TypeOK, At, Becomes, ReqType, data,
           DropDatabaseLost
  <1>8. DatabaseFiles'
    BY <1>1, <1>2 DEF KnownInv, DatabaseFiles, DatabaseHasFile, NoLitter, TypeOK, RequestInv,
           At, Becomes, ReqType, dbs, DropDatabaseLost
  <1>9. NoNewMaker /\ NoNewCreator
    BY <1>2 DEF NoNewMaker, Making, NoNewCreator, At, Becomes, ReqType, DropDatabaseLost
  <1>10. QED
    BY <1>3, <1>4, <1>5, <1>6, <1>7, <1>8, <1>9 DEF KnownInv

\* The file that goes belongs to no row.
LEMMA RemoveFileKnown ==
    ASSUME KnownInv, NEW r \in Requests, RemoveFile(r)
    PROVE  KnownInv' /\ NoNewMaker /\ NoNewCreator
  <1>1. TypeOK /\ \A q \in Requests : RequestInv(q)
    BY DEF KnownInv
  <1>2. Becomes(r, "idle", None, None)
    BY <1>1, ReturnFacts DEF RemoveFile
  <1>3. TypeOK'
    BY <1>1, <1>2, FunctionStoreAssumption DEF TypeOK, At, Becomes, ReqType, data, dbs,
           RemoveFile
  <1>4. ASSUME NEW q \in Requests PROVE RequestInv(q)'
    BY <1>1, <1>2, FunctionStoreAssumption DEF KnownInv, TypeOK, RequestInv, At, Becomes,
           ReqType, data, dbs, Live, RemoveFile
  <1>5. OneMaker'
    BY <1>1, <1>2 DEF KnownInv, OneMaker, At, Becomes, ReqType, RemoveFile
  <1>6. NoResurrection'
    BY <1>1 DEF KnownInv, NoResurrection, TypeOK, data, dbs, RemoveFile
  <1>7. DeletionTracked'
    BY <1>1, <1>2 DEF KnownInv, DeletionTracked, TypeOK, At, Becomes, ReqType, data, RemoveFile
  <1>8. DatabaseFiles'
    BY <1>1, <1>2 DEF KnownInv, DatabaseFiles, DatabaseHasFile, NoLitter, TypeOK, RequestInv,
           At, Becomes, ReqType, dbs, RemoveFile
  <1>9. NoNewMaker /\ NoNewCreator
    BY <1>2 DEF NoNewMaker, Making, NoNewCreator, At, Becomes, ReqType, RemoveFile
  <1>10. QED
    BY <1>3, <1>4, <1>5, <1>6, <1>7, <1>8, <1>9 DEF KnownInv

\* A file that stays is litter.
LEMMA RemoveFileFailsKnown ==
    ASSUME KnownInv, NEW r \in Requests, RemoveFileFails(r)
    PROVE  KnownInv' /\ NoNewMaker /\ NoNewCreator
  <1>1. TypeOK /\ \A q \in Requests : RequestInv(q)
    BY DEF KnownInv
  <1>2. Becomes(r, "idle", None, None)
    BY <1>1, ReturnFacts DEF RemoveFileFails
  <1>3. TypeOK'
    BY <1>1, <1>2, FunctionStoreAssumption DEF TypeOK, RequestInv, At, Becomes, ReqType, Fault,
           data, dbs, RemoveFileFails
  <1>4. ASSUME NEW q \in Requests PROVE RequestInv(q)'
    BY <1>1, <1>2, FunctionStoreAssumption DEF KnownInv, TypeOK, RequestInv, At, Becomes,
           ReqType, data, dbs, Live, RemoveFileFails
  <1>5. OneMaker'
    BY <1>1, <1>2 DEF KnownInv, OneMaker, At, Becomes, ReqType, RemoveFileFails
  <1>6. NoResurrection'
    BY <1>1 DEF KnownInv, NoResurrection, TypeOK, data, dbs, RemoveFileFails
  <1>7. DeletionTracked'
    BY <1>1, <1>2 DEF KnownInv, DeletionTracked, TypeOK, At, Becomes, ReqType, data,
           RemoveFileFails
  <1>8. DatabaseFiles'
    BY <1>1, <1>2 DEF KnownInv, DatabaseFiles, DatabaseHasFile, NoLitter, TypeOK, RequestInv,
           At, Becomes, ReqType, dbs, RemoveFileFails
  <1>9. NoNewMaker /\ NoNewCreator
    BY <1>2 DEF NoNewMaker, Making, NoNewCreator, At, Becomes, ReqType, RemoveFileFails
  <1>10. QED
    BY <1>3, <1>4, <1>5, <1>6, <1>7, <1>8, <1>9 DEF KnownInv

\* The first check of a binding.
LEMMA BindDatabaseKnown ==
    ASSUME KnownInv, NEW r \in Requests, NEW f \in Functions, BindDatabase(r, f)
    PROVE  KnownInv' /\ NoNewMaker /\ NoNewCreator
  <1>1. TypeOK /\ \A q \in Requests : RequestInv(q)
    BY DEF KnownInv
  <1>2. Becomes(r, "bindCheck", f, None)
    BY <1>1, EnterFacts DEF BindDatabase, PC
  <1>3. TypeOK'
    BY <1>1, <1>2, FunctionStoreAssumption DEF TypeOK, At, Becomes, ReqType, data, dbs,
           BindDatabase
  <1>4. ASSUME NEW q \in Requests PROVE RequestInv(q)'
    BY <1>1, <1>2, FunctionStoreAssumption DEF KnownInv, TypeOK, RequestInv, At, Becomes,
           ReqType, data, dbs, Live, BindDatabase
  <1>5. OneMaker'
    BY <1>1, <1>2 DEF KnownInv, OneMaker, At, Becomes, ReqType, BindDatabase
  <1>6. NoResurrection'
    BY <1>1 DEF KnownInv, NoResurrection, TypeOK, data, dbs, BindDatabase
  <1>7. DeletionTracked'
    BY <1>1, <1>2 DEF KnownInv, DeletionTracked, TypeOK, At, Becomes, ReqType, data,
           BindDatabase
  <1>8. DatabaseFiles'
    BY <1>1, <1>2 DEF KnownInv, DatabaseFiles, DatabaseHasFile, NoLitter, TypeOK, At, Becomes,
           ReqType, dbs, BindDatabase
  <1>9. NoNewMaker /\ NoNewCreator
    BY <1>2 DEF NoNewMaker, Making, NoNewCreator, At, Becomes, ReqType, BindDatabase
  <1>10. QED
    BY <1>3, <1>4, <1>5, <1>6, <1>7, <1>8, <1>9 DEF KnownInv

\* The second check of a binding.
LEMMA DatabaseOwnedKnown ==
    ASSUME KnownInv, NEW r \in Requests, NEW d \in Databases, DatabaseOwned(r, d)
    PROVE  KnownInv' /\ NoNewMaker /\ NoNewCreator
  <1>1. TypeOK /\ \A q \in Requests : RequestInv(q)
    BY DEF KnownInv
  <1>2. \/ db[d] = "live" /\ Becomes(r, "bindPut", req[r].f, d)
        \/ Becomes(r, "idle", None, None)
    BY <1>1, CarryFacts, ReturnFacts DEF DatabaseOwned, PC
  <1>3. TypeOK'
    BY <1>1, <1>2, FunctionStoreAssumption DEF TypeOK, At, Becomes, ReqType, data, dbs,
           DatabaseOwned
  <1>4. ASSUME NEW q \in Requests PROVE RequestInv(q)'
    BY <1>1, <1>2, FunctionStoreAssumption DEF KnownInv, TypeOK, RequestInv, At, Becomes,
           ReqType, data, dbs, Live, DatabaseOwned
  <1>5. OneMaker'
    BY <1>1, <1>2 DEF KnownInv, OneMaker, At, Becomes, ReqType, DatabaseOwned
  <1>6. NoResurrection'
    BY <1>1 DEF KnownInv, NoResurrection, TypeOK, data, dbs, DatabaseOwned
  <1>7. DeletionTracked'
    BY <1>1, <1>2 DEF KnownInv, DeletionTracked, TypeOK, At, Becomes, ReqType, data,
           DatabaseOwned
  <1>8. DatabaseFiles'
    BY <1>1, <1>2 DEF KnownInv, DatabaseFiles, DatabaseHasFile, NoLitter, TypeOK, At, Becomes,
           ReqType, dbs, DatabaseOwned
  <1>9. NoNewMaker /\ NoNewCreator
    BY <1>2 DEF NoNewMaker, Making, NoNewCreator, At, Becomes, ReqType, DatabaseOwned
  <1>10. QED
    BY <1>3, <1>4, <1>5, <1>6, <1>7, <1>8, <1>9 DEF KnownInv

\* The binding itself.
LEMMA UpsertBindingKnown ==
    ASSUME KnownInv, NEW r \in Requests, UpsertBinding(r)
    PROVE  KnownInv' /\ NoNewMaker /\ NoNewCreator
  <1>1. TypeOK /\ \A q \in Requests : RequestInv(q)
    BY DEF KnownInv
  <1>2. Becomes(r, "idle", None, None)
    BY <1>1, ReturnFacts DEF UpsertBinding
  <1>3. TypeOK'
    BY <1>1, <1>2, FunctionStoreAssumption DEF TypeOK, At, Becomes, ReqType, data, dbs,
           UpsertBinding
  <1>4. ASSUME NEW q \in Requests PROVE RequestInv(q)'
    BY <1>1, <1>2, FunctionStoreAssumption DEF KnownInv, TypeOK, RequestInv, At, Becomes,
           ReqType, data, dbs, Live, UpsertBinding
  <1>5. OneMaker'
    BY <1>1, <1>2 DEF KnownInv, OneMaker, At, Becomes, ReqType, UpsertBinding
  <1>6. NoResurrection'
    BY <1>1 DEF KnownInv, NoResurrection, TypeOK, data, dbs, UpsertBinding
  <1>7. DeletionTracked'
    BY <1>1, <1>2 DEF KnownInv, DeletionTracked, TypeOK, At, Becomes, ReqType, data,
           UpsertBinding
  <1>8. DatabaseFiles'
    BY <1>1, <1>2 DEF KnownInv, DatabaseFiles, DatabaseHasFile, NoLitter, TypeOK, At, Becomes,
           ReqType, dbs, UpsertBinding
  <1>9. NoNewMaker /\ NoNewCreator
    BY <1>2 DEF NoNewMaker, Making, NoNewCreator, At, Becomes, ReqType, UpsertBinding
  <1>10. QED
    BY <1>3, <1>4, <1>5, <1>6, <1>7, <1>8, <1>9 DEF KnownInv

\* The check before a binding is removed.
LEMMA UnbindDatabaseKnown ==
    ASSUME KnownInv, NEW r \in Requests, NEW f \in Functions, UnbindDatabase(r, f)
    PROVE  KnownInv' /\ NoNewMaker /\ NoNewCreator
  <1>1. TypeOK /\ \A q \in Requests : RequestInv(q)
    BY DEF KnownInv
  <1>2. Becomes(r, "unbind", f, None)
    BY <1>1, EnterFacts DEF UnbindDatabase, PC
  <1>3. TypeOK'
    BY <1>1, <1>2, FunctionStoreAssumption DEF TypeOK, At, Becomes, ReqType, data, dbs,
           UnbindDatabase
  <1>4. ASSUME NEW q \in Requests PROVE RequestInv(q)'
    BY <1>1, <1>2, FunctionStoreAssumption DEF KnownInv, TypeOK, RequestInv, At, Becomes,
           ReqType, data, dbs, Live, UnbindDatabase
  <1>5. OneMaker'
    BY <1>1, <1>2 DEF KnownInv, OneMaker, At, Becomes, ReqType, UnbindDatabase
  <1>6. NoResurrection'
    BY <1>1 DEF KnownInv, NoResurrection, TypeOK, data, dbs, UnbindDatabase
  <1>7. DeletionTracked'
    BY <1>1, <1>2 DEF KnownInv, DeletionTracked, TypeOK, At, Becomes, ReqType, data,
           UnbindDatabase
  <1>8. DatabaseFiles'
    BY <1>1, <1>2 DEF KnownInv, DatabaseFiles, DatabaseHasFile, NoLitter, TypeOK, At, Becomes,
           ReqType, dbs, UnbindDatabase
  <1>9. NoNewMaker /\ NoNewCreator
    BY <1>2 DEF NoNewMaker, Making, NoNewCreator, At, Becomes, ReqType, UnbindDatabase
  <1>10. QED
    BY <1>3, <1>4, <1>5, <1>6, <1>7, <1>8, <1>9 DEF KnownInv

\* The removal of a binding.
LEMMA DeleteBindingKnown ==
    ASSUME KnownInv, NEW r \in Requests, DeleteBinding(r)
    PROVE  KnownInv' /\ NoNewMaker /\ NoNewCreator
  <1>1. TypeOK /\ \A q \in Requests : RequestInv(q)
    BY DEF KnownInv
  <1>2. Becomes(r, "idle", None, None)
    BY <1>1, ReturnFacts DEF DeleteBinding
  <1>3. TypeOK'
    BY <1>1, <1>2, FunctionStoreAssumption DEF TypeOK, At, Becomes, ReqType, data, dbs,
           DeleteBinding
  <1>4. ASSUME NEW q \in Requests PROVE RequestInv(q)'
    BY <1>1, <1>2, FunctionStoreAssumption DEF KnownInv, TypeOK, RequestInv, At, Becomes,
           ReqType, data, dbs, Live, DeleteBinding
  <1>5. OneMaker'
    BY <1>1, <1>2 DEF KnownInv, OneMaker, At, Becomes, ReqType, DeleteBinding
  <1>6. NoResurrection'
    BY <1>1 DEF KnownInv, NoResurrection, TypeOK, data, dbs, DeleteBinding
  <1>7. DeletionTracked'
    BY <1>1, <1>2 DEF KnownInv, DeletionTracked, TypeOK, At, Becomes, ReqType, data,
           DeleteBinding
  <1>8. DatabaseFiles'
    BY <1>1, <1>2 DEF KnownInv, DatabaseFiles, DatabaseHasFile, NoLitter, TypeOK, At, Becomes,
           ReqType, dbs, DeleteBinding
  <1>9. NoNewMaker /\ NoNewCreator
    BY <1>2 DEF NoNewMaker, Making, NoNewCreator, At, Becomes, ReqType, DeleteBinding
  <1>10. QED
    BY <1>3, <1>4, <1>5, <1>6, <1>7, <1>8, <1>9 DEF KnownInv

\* A running function finds a binding and its database.
LEMMA QueryBindingKnown ==
    ASSUME KnownInv, NEW r \in Requests, QueryBinding(r)
    PROVE  KnownInv' /\ NoNewMaker /\ NoNewCreator
  <1>1. TypeOK /\ \A q \in Requests : RequestInv(q)
    BY DEF KnownInv
  <1>2. Becomes(r, "open", req[r].f, bind[req[r].f])
    BY <1>1, CarryFacts DEF QueryBinding, PC, Live, TypeOK
  <1>3. TypeOK'
    BY <1>1, <1>2, FunctionStoreAssumption DEF TypeOK, At, Becomes, ReqType, data, dbs,
           QueryBinding
  <1>4. ASSUME NEW q \in Requests PROVE RequestInv(q)'
    BY <1>1, <1>2, FunctionStoreAssumption DEF KnownInv, TypeOK, RequestInv, At, Becomes,
           ReqType, data, dbs, Live, QueryBinding
  <1>5. OneMaker'
    BY <1>1, <1>2 DEF KnownInv, OneMaker, At, Becomes, ReqType, QueryBinding
  <1>6. NoResurrection'
    BY <1>1 DEF KnownInv, NoResurrection, TypeOK, data, dbs, QueryBinding
  <1>7. DeletionTracked'
    BY <1>1, <1>2 DEF KnownInv, DeletionTracked, TypeOK, At, Becomes, ReqType, data,
           QueryBinding
  <1>8. DatabaseFiles'
    BY <1>1, <1>2 DEF KnownInv, DatabaseFiles, DatabaseHasFile, NoLitter, TypeOK, At, Becomes,
           ReqType, dbs, QueryBinding
  <1>9. NoNewMaker /\ NoNewCreator
    BY <1>2 DEF NoNewMaker, Making, NoNewCreator, At, Becomes, ReqType, QueryBinding
  <1>10. QED
    BY <1>3, <1>4, <1>5, <1>6, <1>7, <1>8, <1>9 DEF KnownInv

\* The owner's query finds a database.
LEMMA QueryDatabaseKnown ==
    ASSUME KnownInv, NEW r \in Requests, NEW d \in Databases, QueryDatabase(r, d)
    PROVE  KnownInv' /\ NoNewMaker /\ NoNewCreator
  <1>1. TypeOK /\ \A q \in Requests : RequestInv(q)
    BY DEF KnownInv
  <1>2. Becomes(r, "open", None, d)
    BY <1>1, EnterFacts DEF QueryDatabase, PC
  <1>3. TypeOK'
    BY <1>1, <1>2, FunctionStoreAssumption DEF TypeOK, At, Becomes, ReqType, data, dbs,
           QueryDatabase
  <1>4. ASSUME NEW q \in Requests PROVE RequestInv(q)'
    BY <1>1, <1>2, FunctionStoreAssumption DEF KnownInv, TypeOK, RequestInv, At, Becomes,
           ReqType, data, dbs, Live, QueryDatabase
  <1>5. OneMaker'
    BY <1>1, <1>2 DEF KnownInv, OneMaker, At, Becomes, ReqType, QueryDatabase
  <1>6. NoResurrection'
    BY <1>1 DEF KnownInv, NoResurrection, TypeOK, data, dbs, QueryDatabase
  <1>7. DeletionTracked'
    BY <1>1, <1>2 DEF KnownInv, DeletionTracked, TypeOK, At, Becomes, ReqType, data,
           QueryDatabase
  <1>8. DatabaseFiles'
    BY <1>1, <1>2 DEF KnownInv, DatabaseFiles, DatabaseHasFile, NoLitter, TypeOK, At, Becomes,
           ReqType, dbs, QueryDatabase
  <1>9. NoNewMaker /\ NoNewCreator
    BY <1>2 DEF NoNewMaker, Making, NoNewCreator, At, Becomes, ReqType, QueryDatabase
  <1>10. QED
    BY <1>3, <1>4, <1>5, <1>6, <1>7, <1>8, <1>9 DEF KnownInv

\* The file is looked at, not made.
LEMMA OpenDatabaseKnown ==
    ASSUME KnownInv, NEW r \in Requests, OpenDatabase(r)
    PROVE  KnownInv' /\ NoNewMaker /\ NoNewCreator
  <1>1. TypeOK /\ \A q \in Requests : RequestInv(q)
    BY DEF KnownInv
  <1>2. \/ Becomes(r, "exec", req[r].f, req[r].d)
        \/ req[r].f = None /\ Becomes(r, "idle", None, None)
        \/ req[r].f # None /\ Becomes(r, "use", req[r].f, None)
    BY <1>1, GotoFacts, QueryReturnsFacts DEF OpenDatabase, PC
  <1>3. TypeOK'
    BY <1>1, <1>2, FunctionStoreAssumption DEF TypeOK, At, Becomes, ReqType, data, dbs,
           OpenDatabase
  <1>4. ASSUME NEW q \in Requests PROVE RequestInv(q)'
    BY <1>1, <1>2, FunctionStoreAssumption DEF KnownInv, TypeOK, RequestInv, At, Becomes,
           ReqType, data, dbs, Live, OpenDatabase
  <1>5. OneMaker'
    BY <1>1, <1>2 DEF KnownInv, OneMaker, At, Becomes, ReqType, OpenDatabase
  <1>6. NoResurrection'
    BY <1>1 DEF KnownInv, NoResurrection, TypeOK, data, dbs, OpenDatabase
  <1>7. DeletionTracked'
    BY <1>1, <1>2 DEF KnownInv, DeletionTracked, TypeOK, At, Becomes, ReqType, data,
           OpenDatabase
  <1>8. DatabaseFiles'
    BY <1>1, <1>2 DEF KnownInv, DatabaseFiles, DatabaseHasFile, NoLitter, TypeOK, At, Becomes,
           ReqType, dbs, OpenDatabase
  <1>9. NoNewMaker /\ NoNewCreator
    BY <1>2 DEF NoNewMaker, Making, NoNewCreator, At, Becomes, ReqType, OpenDatabase
  <1>10. QED
    BY <1>3, <1>4, <1>5, <1>6, <1>7, <1>8, <1>9 DEF KnownInv

\* The file is not made by the statement either.
LEMMA ExecKnown ==
    ASSUME KnownInv, NEW r \in Requests, Exec(r)
    PROVE  KnownInv' /\ NoNewMaker /\ NoNewCreator
  <1>1. TypeOK /\ \A q \in Requests : RequestInv(q)
    BY DEF KnownInv
  <1>2. \/ req[r].f = None /\ Becomes(r, "idle", None, None)
        \/ req[r].f # None /\ Becomes(r, "use", req[r].f, None)
    BY <1>1, QueryReturnsFacts DEF Exec, PC
  <1>3. TypeOK'
    BY <1>1, <1>2, FunctionStoreAssumption DEF TypeOK, At, Becomes, ReqType, data, dbs, Exec
  <1>4. ASSUME NEW q \in Requests PROVE RequestInv(q)'
    BY <1>1, <1>2, FunctionStoreAssumption DEF KnownInv, TypeOK, RequestInv, At, Becomes,
           ReqType, data, dbs, Live, Exec
  <1>5. OneMaker'
    BY <1>1, <1>2 DEF KnownInv, OneMaker, At, Becomes, ReqType, Exec
  <1>6. NoResurrection'
    BY <1>1 DEF KnownInv, NoResurrection, TypeOK, data, dbs, Exec
  <1>7. DeletionTracked'
    BY <1>1, <1>2 DEF KnownInv, DeletionTracked, TypeOK, At, Becomes, ReqType, data, Exec
  <1>8. DatabaseFiles'
    BY <1>1, <1>2 DEF KnownInv, DatabaseFiles, DatabaseHasFile, NoLitter, TypeOK, At, Becomes,
           ReqType, dbs, Exec
  <1>9. NoNewMaker /\ NoNewCreator
    BY <1>2 DEF NoNewMaker, Making, NoNewCreator, At, Becomes, ReqType, Exec
  <1>10. QED
    BY <1>3, <1>4, <1>5, <1>6, <1>7, <1>8, <1>9 DEF KnownInv

\* A crash turns what requests owed into leaked data and litter.
LEMMA CrashKnown ==
    ASSUME KnownInv, Crash
    PROVE  KnownInv' /\ NoNewMaker /\ NoNewCreator
  <1>1. TypeOK /\ \A q \in Requests : RequestInv(q)
    BY DEF KnownInv
  <1>2. req' = [q \in Requests |-> Idle]
    BY DEF Crash
  <1>3. TypeOK'
    BY <1>1, <1>2, FunctionStoreAssumption DEF TypeOK, RequestInv, At, Idle, Fault, PC, data,
           dbs, Crash
  <1>4. ASSUME NEW q \in Requests PROVE RequestInv(q)'
    BY <1>1, <1>2, FunctionStoreAssumption DEF KnownInv, TypeOK, RequestInv, At, Idle, data,
           dbs, Live, Crash
  <1>5. OneMaker'
    BY <1>1, <1>2 DEF KnownInv, OneMaker, At, Idle, Crash
  <1>6. NoResurrection'
    BY <1>1 DEF KnownInv, NoResurrection, TypeOK, data, dbs, Crash
  <1>7. DeletionTracked'
    BY <1>1, <1>2 DEF KnownInv, DeletionTracked, TypeOK, RequestInv, At, Idle, data, Crash
  <1>8. DatabaseFiles'
    BY <1>1, <1>2 DEF KnownInv, DatabaseFiles, DatabaseHasFile, NoLitter, TypeOK, RequestInv,
           At, Idle, dbs, Crash
  <1>9. NoNewMaker /\ NoNewCreator
    BY <1>2 DEF NoNewMaker, Making, NoNewCreator, At, Idle, Crash
  <1>10. QED
    BY <1>3, <1>4, <1>5, <1>6, <1>7, <1>8, <1>9 DEF KnownInv

\* Every step keeps what the requests know true, and only the two counts let a request make
\* something.
LEMMA NextKnown ==
    ASSUME KnownInv, Next
    PROVE  /\ KnownInv'
           /\ NoNewMaker \/ \E r \in Requests : CountDatabases(r)
           /\ NoNewCreator \/ \E r \in Requests : CreateCount(r)
  <1>1. CASE \E r \in Requests :
            \/ CreateCount(r) \/ CreateConflict(r) \/ DeleteFunction(r)
            \/ DeleteFunctionFails(r) \/ EndUse(r) \/ CountDatabases(r) \/ CreateFileFails(r)
            \/ InsertDatabase(r) \/ InsertDatabaseFails(r) \/ InsertDatabaseLost(r)
    BY <1>1, CreateCountKnown, CreateConflictKnown, DeleteFunctionKnown,
       DeleteFunctionFailsKnown, EndUseKnown, CountDatabasesKnown, CreateFileFailsKnown,
       InsertDatabaseKnown, InsertDatabaseFailsKnown, InsertDatabaseLostKnown
  <1>2. CASE \E r \in Requests :
            \/ DropDatabase(r) \/ DropDatabaseFails(r) \/ DropDatabaseLost(r) \/ RemoveFile(r)
            \/ RemoveFileFails(r)
            \/ UpsertBinding(r) \/ DeleteBinding(r) \/ QueryBinding(r) \/ OpenDatabase(r)
            \/ Exec(r)
    BY <1>2, DropDatabaseKnown, DropDatabaseFailsKnown, DropDatabaseLostKnown, RemoveFileKnown,
       RemoveFileFailsKnown, UpsertBindingKnown, DeleteBindingKnown, QueryBindingKnown,
       OpenDatabaseKnown, ExecKnown
  <1>3. CASE \E r \in Requests, f \in Functions :
            \/ CreateDeployment(r, f) \/ DeleteRow(r, f) \/ StartUse(r, f)
            \/ BindDatabase(r, f) \/ UnbindDatabase(r, f)
    BY <1>3, CreateDeploymentKnown, DeleteRowKnown, StartUseKnown, BindDatabaseKnown,
       UnbindDatabaseKnown
  <1>4. CASE \E r \in Requests, k \in Keys :
            \/ Put(r, k) \/ Delete(r, k)
    BY <1>4, PutKnown, DeleteKnown
  <1>5. CASE \E r \in Requests, d \in Databases :
            \/ CreateFile(r, d) \/ DeleteDatabase(r, d) \/ DatabaseOwned(r, d)
            \/ QueryDatabase(r, d)
    BY <1>5, CreateFileKnown, DeleteDatabaseKnown, DatabaseOwnedKnown, QueryDatabaseKnown
  <1>6. CASE Crash
    BY <1>6, CrashKnown
  <1>7. QED
    BY <1>1, <1>2, <1>3, <1>4, <1>5, <1>6 DEF Next

-----------------------------------------------------------------------------
(* The counts *)

\* Only these steps touch the functions or the mutex.
LEMMA FunctionSteps ==
    ASSUME Next
    PROVE  \/ UNCHANGED <<fn, createMu>>
           \/ \E r \in Requests : CreateCount(r) \/ CreateConflict(r)
           \/ \E r \in Requests, f \in Functions : CreateDeployment(r, f) \/ DeleteRow(r, f)
           \/ Crash
  BY DEF Next, CreateCount, CreateConflict, CreateDeployment, DeleteRow, DeleteFunction,
         DeleteFunctionFails, StartUse, Put, Delete, EndUse, CountDatabases, CreateFile,
         CreateFileFails, InsertDatabase, InsertDatabaseFails, InsertDatabaseLost, DeleteDatabase, DropDatabase,
         DropDatabaseFails, DropDatabaseLost, RemoveFile, RemoveFileFails, BindDatabase, DatabaseOwned,
         UpsertBinding, UnbindDatabase, DeleteBinding, QueryBinding, QueryDatabase,
         OpenDatabase, Exec

\* Only these steps touch the items.
LEMMA ItemSteps ==
    ASSUME Next
    PROVE  \/ UNCHANGED items
           \/ \E r \in Requests : DeleteFunction(r)
           \/ \E r \in Requests, k \in Keys : Put(r, k) \/ Delete(r, k)
  BY DEF Next, CreateCount, CreateConflict, CreateDeployment, DeleteRow, data,
         DeleteFunctionFails, StartUse, EndUse, CountDatabases, CreateFile, CreateFileFails,
         InsertDatabase, InsertDatabaseFails, InsertDatabaseLost, DeleteDatabase, DropDatabase, DropDatabaseFails, DropDatabaseLost,
         RemoveFile, RemoveFileFails, BindDatabase, DatabaseOwned, UpsertBinding,
         UnbindDatabase, DeleteBinding, QueryBinding, QueryDatabase, OpenDatabase, Exec, Crash

\* Only these steps touch the rows of databases.
LEMMA DatabaseSteps ==
    ASSUME Next
    PROVE  \/ UNCHANGED db
           \/ \E r \in Requests : InsertDatabase(r) \/ InsertDatabaseLost(r)
           \/ \E r \in Requests : DropDatabase(r) \/ DropDatabaseLost(r)
  BY DEF Next, CreateCount, CreateConflict, CreateDeployment, DeleteRow, DeleteFunction, dbs,
         DeleteFunctionFails, StartUse, Put, Delete, EndUse, CountDatabases, CreateFile,
         CreateFileFails, InsertDatabaseFails, DeleteDatabase, DropDatabaseFails, RemoveFile,
         RemoveFileFails, BindDatabase, DatabaseOwned, UpsertBinding, UnbindDatabase,
         DeleteBinding, QueryBinding, QueryDatabase, OpenDatabase, Exec, Crash

\* A table has finitely many live rows, and one more row adds one at most.
LEMMA LiveCount ==
    ASSUME NEW S, IsFiniteSet(S), NEW table, NEW table2, DOMAIN table = S, DOMAIN table2 = S
    PROVE  /\ Cardinality(Live(table)) \in Nat /\ Cardinality(Live(table2)) \in Nat
           /\ Live(table2) \subseteq Live(table) =>
                 Cardinality(Live(table2)) <= Cardinality(Live(table))
           /\ \A x : Live(table2) \subseteq Live(table) \cup {x} =>
                 Cardinality(Live(table2)) <= Cardinality(Live(table)) + 1
  <1>1. IsFiniteSet(Live(table)) /\ IsFiniteSet(Live(table2))
    BY FS_Subset DEF Live
  <1>2. Cardinality(Live(table)) \in Nat /\ Cardinality(Live(table2)) \in Nat
    BY <1>1, FS_CardinalityType
  <1>3. ASSUME Live(table2) \subseteq Live(table)
        PROVE  Cardinality(Live(table2)) <= Cardinality(Live(table))
    BY <1>1, <1>3, FS_Subset
  <1>4. ASSUME NEW x, Live(table2) \subseteq Live(table) \cup {x}
        PROVE  Cardinality(Live(table2)) <= Cardinality(Live(table)) + 1
    <2>1. IsFiniteSet(Live(table) \cup {x})
      BY <1>1, FS_AddElement
    <2>2. Cardinality(Live(table2)) <= Cardinality(Live(table) \cup {x})
      BY <2>1, <1>4, FS_Subset
    <2>3. Cardinality(Live(table) \cup {x})
            = IF x \in Live(table) THEN Cardinality(Live(table)) ELSE Cardinality(Live(table)) + 1
      BY <1>1, FS_AddElement
    <2>4. Cardinality(Live(table) \cup {x}) \in Nat
      BY <2>1, FS_CardinalityType
    <2>5. QED
      BY <1>2, <2>2, <2>3, <2>4
  <1>5. QED
    BY <1>2, <1>3, <1>4

\* The limit on functions: the mutex keeps the count true until the insert.
LEMMA FunctionLimitStep ==
    ASSUME KnownInv, KnownInv', FunctionLimit, CountHolds, Next,
           NoNewCreator \/ \E r \in Requests : CreateCount(r)
    PROVE  FunctionLimit' /\ CountHolds'
  <1>1. TypeOK /\ TypeOK'
    BY DEF KnownInv
  <1>2. /\ Cardinality(Live(fn)) \in Nat /\ Cardinality(Live(fn)') \in Nat
        /\ Live(fn)' \subseteq Live(fn) => Cardinality(Live(fn)') <= Cardinality(Live(fn))
        /\ \A x : Live(fn)' \subseteq Live(fn) \cup {x} =>
              Cardinality(Live(fn)') <= Cardinality(Live(fn)) + 1
    BY <1>1, LiveCount, FunctionStoreAssumption DEF TypeOK
  <1>3. CASE UNCHANGED <<fn, createMu>> /\ NoNewCreator
    BY <1>3 DEF FunctionLimit, CountHolds, NoNewCreator, Live
  <1>4. ASSUME NEW r \in Requests, CreateCount(r) PROVE FunctionLimit' /\ CountHolds'
    <2>1. Becomes(r, "createRow", req[r].f, req[r].d)
      BY <1>1, <1>4, GotoFacts DEF CreateCount, PC
    <2>2. QED
      BY <1>4, <2>1, FunctionStoreAssumption DEF CreateCount, FunctionLimit, CountHolds,
             Becomes, At, Live
  <1>5. ASSUME NEW r \in Requests, CreateConflict(r) PROVE FunctionLimit' /\ CountHolds'
    <2>1. Becomes(r, "idle", None, None)
      BY <1>1, <1>5, ReturnFacts DEF CreateConflict
    <2>2. QED
      BY <1>5, <2>1 DEF CreateConflict, FunctionLimit, CountHolds, Becomes, At, Live
  <1>6. ASSUME NEW r \in Requests, NEW f \in Functions, CreateDeployment(r, f)
        PROVE  FunctionLimit' /\ CountHolds'
    <2>1. Becomes(r, "idle", None, None)
      BY <1>1, <1>6, ReturnFacts DEF CreateDeployment
    <2>2. CountHolds'
      BY <1>6, <2>1 DEF CreateDeployment, CountHolds, Becomes, At
    <2>3. Live(fn)' \subseteq Live(fn) \cup {f}
      BY <1>1, <1>6 DEF CreateDeployment, TypeOK, Live
    <2>4. Cardinality(Live(fn)) < MaxFunctions
      BY <1>6 DEF CreateDeployment, CountHolds
    <2>5. QED
      BY <1>2, <2>2, <2>3, <2>4, FunctionStoreAssumption DEF FunctionLimit
  <1>7. ASSUME NEW r \in Requests, NEW f \in Functions, DeleteRow(r, f)
        PROVE  FunctionLimit' /\ CountHolds'
    <2>1. Becomes(r, "deleteData", f, None)
      BY <1>1, <1>7, EnterFacts DEF DeleteRow, PC
    <2>2. Live(fn)' \subseteq Live(fn)
      BY <1>1, <1>7 DEF DeleteRow, TypeOK, Live
    <2>3. Cardinality(Live(fn)') <= Cardinality(Live(fn))
      BY <1>2, <2>2
    <2>4. CountHolds'
      BY <1>2, <1>7, <2>1, <2>3, FunctionStoreAssumption DEF DeleteRow, CountHolds, Becomes, At
    <2>5. QED
      BY <1>2, <2>3, <2>4, FunctionStoreAssumption DEF FunctionLimit
  <1>8. CASE Crash
    BY <1>8 DEF Crash, FunctionLimit, CountHolds, At, Idle, Live
  <1>9. QED
    BY <1>3, <1>4, <1>5, <1>6, <1>7, <1>8, FunctionSteps

\* The limit on items: count and upsert are one transaction.
LEMMA ItemLimitStep ==
    ASSUME KnownInv, ItemLimit, Next
    PROVE  ItemLimit'
  <1>1. TypeOK /\ \A r \in Requests : RequestInv(r)
    BY DEF KnownInv
  <1>2. ASSUME NEW f \in Functions PROVE IsFiniteSet(items[f]) /\ Cardinality(items[f]) \in Nat
    BY <1>1, FunctionStoreAssumption, FS_Subset, FS_CardinalityType DEF TypeOK
  <1>3. CASE UNCHANGED items
    BY <1>3 DEF ItemLimit
  <1>4. ASSUME NEW r \in Requests, DeleteFunction(r) PROVE ItemLimit'
    <2>1. \A f \in Functions : items'[f] = items[f] \/ items'[f] = {}
      BY <1>1, <1>4 DEF TypeOK, DeleteFunction
    <2>2. QED
      BY <2>1, FS_EmptySet, FunctionStoreAssumption DEF ItemLimit
  <1>5. ASSUME NEW r \in Requests, NEW k \in Keys, Put(r, k) PROVE ItemLimit'
    <2> DEFINE g == req[r].f
    <2>1. g \in Functions
      BY <1>1, <1>5 DEF Put, At, RequestInv, TypeOK
    <2>2. items'[g] = items[g] \cup {k} /\ \A f \in Functions \ {g} : items'[f] = items[f]
      BY <1>1, <1>5, <2>1 DEF Put, TypeOK
    <2>3. k \in items[g] \/ Cardinality(items[g]) < MaxItems
      BY <1>5 DEF Put
    <2> HIDE DEF g
    <2>4. Cardinality(items[g] \cup {k})
            = IF k \in items[g] THEN Cardinality(items[g]) ELSE Cardinality(items[g]) + 1
      BY <1>2, <2>1, FS_AddElement
    <2>5. Cardinality(items'[g]) <= MaxItems
      BY <1>2, <2>1, <2>2, <2>3, <2>4, FunctionStoreAssumption DEF ItemLimit
    <2>6. QED
      BY <2>2, <2>5 DEF ItemLimit
  <1>6. ASSUME NEW r \in Requests, NEW k \in Keys, Delete(r, k) PROVE ItemLimit'
    <2>1. \A f \in Functions : items'[f] \subseteq items[f]
      BY <1>1, <1>6 DEF Delete, TypeOK
    <2>2. ASSUME NEW f \in Functions PROVE Cardinality(items'[f]) <= MaxItems
      <3>1. /\ Cardinality(items'[f]) <= Cardinality(items[f])
            /\ IsFiniteSet(items'[f])
        BY <1>2, <2>1, FS_Subset
      <3>2. Cardinality(items'[f]) \in Nat
        BY <3>1, FS_CardinalityType
      <3>3. QED
        BY <1>2, <3>1, <3>2, FunctionStoreAssumption DEF ItemLimit
    <2>3. QED
      BY <2>2 DEF ItemLimit
  <1>7. QED
    BY <1>3, <1>4, <1>5, <1>6, ItemSteps

\* The limit on databases: whoever has counted below the limit adds one at most.
LEMMA MakersStep ==
    ASSUME KnownInv, KnownInv', MakersCounted, Next,
           NoNewMaker \/ \E r \in Requests : CountDatabases(r)
    PROVE  MakersCounted'
  <1>1. TypeOK /\ TypeOK' /\ \A r \in Requests : RequestInv(r)
    BY DEF KnownInv
  <1>2. /\ Cardinality(Live(db)) \in Nat /\ Cardinality(Live(db)') \in Nat
        /\ Live(db)' \subseteq Live(db) => Cardinality(Live(db)') <= Cardinality(Live(db))
        /\ \A x : Live(db)' \subseteq Live(db) \cup {x} =>
              Cardinality(Live(db)') <= Cardinality(Live(db)) + 1
    BY <1>1, LiveCount, FunctionStoreAssumption DEF TypeOK
  <1>3. IsFiniteSet(Making) /\ IsFiniteSet(Making') /\ Making' \subseteq Requests
    BY FS_Subset, FunctionStoreAssumption DEF Making
  <1>4. /\ Cardinality(Making) \in Nat /\ Cardinality(Making') \in Nat
        /\ Cardinality(Requests) \in Nat /\ Cardinality(Making') <= Cardinality(Requests)
    BY <1>3, FS_CardinalityType, FS_Subset, FunctionStoreAssumption
  <1>5. ASSUME NEW r \in Requests, InsertDatabase(r) \/ InsertDatabaseLost(r)
        PROVE  MakersCounted'
    <2>1. Becomes(r, "idle", None, None)
      BY <1>1, <1>5, ReturnFacts DEF InsertDatabase, InsertDatabaseLost
    <2>2. Making' = Making \ {r} /\ r \in Making
      BY <1>5, <2>1 DEF InsertDatabase, InsertDatabaseLost, Making, Becomes, At
    <2>3. Cardinality(Making') = Cardinality(Making) - 1
      BY <1>3, <2>2, FS_RemoveElement
    <2>4. Live(db)' \subseteq Live(db) \cup {req[r].d}
      BY <1>1, <1>5 DEF InsertDatabase, InsertDatabaseLost, TypeOK, Live
    <2>5. Cardinality(Live(db)') <= Cardinality(Live(db)) + 1
      BY <1>2, <2>4
    <2>6. QED
      BY <1>2, <1>4, <2>3, <2>5, FunctionStoreAssumption DEF MakersCounted
  <1>6. ASSUME NEW r \in Requests, CountDatabases(r) PROVE MakersCounted'
    <2>1. Cardinality(Live(db)) < MaxDatabases /\ Live(db)' = Live(db)
      BY <1>6 DEF CountDatabases, dbs, Live
    <2>2. QED
      BY <1>2, <1>4, <2>1, FunctionStoreAssumption DEF MakersCounted
  <1>7. ASSUME NoNewMaker, Live(db)' \subseteq Live(db) PROVE MakersCounted'
    <2>1. Making' \subseteq Making
      BY <1>7 DEF NoNewMaker, Making
    <2>2. Cardinality(Making') <= Cardinality(Making)
      BY <1>3, <2>1, FS_Subset
    <2>3. Cardinality(Live(db)') <= Cardinality(Live(db))
      BY <1>2, <1>7
    <2>4. QED
      BY <1>2, <1>4, <2>2, <2>3, FunctionStoreAssumption DEF MakersCounted
  <1>8. CASE UNCHANGED db
    <2>1. Live(db)' = Live(db)
      BY <1>8 DEF Live
    <2>2. QED
      BY <1>6, <1>7, <2>1
  <1>9. ASSUME NEW r \in Requests, DropDatabase(r) \/ DropDatabaseLost(r)
        PROVE  MakersCounted'
    <2>1. Live(db)' \subseteq Live(db)
      BY <1>1, <1>9 DEF DropDatabase, DropDatabaseLost, TypeOK, Live
    <2>2. QED
      BY <1>6, <1>7, <2>1
  <1>10. QED
    BY <1>5, <1>8, <1>9, DatabaseSteps

-----------------------------------------------------------------------------

\* The inductive invariant.
FunctionsInv == KnownInv /\ FunctionLimit /\ ItemLimit /\ CountHolds /\ MakersCounted

\* It holds initially.
LEMMA InitFunctionsInv == Init => FunctionsInv
  <1> SUFFICES ASSUME Init PROVE FunctionsInv
    OBVIOUS
  <1>1. TypeOK
    BY FunctionStoreAssumption DEF Init, TypeOK, Idle, PC
  <1>2. \A r \in Requests : RequestInv(r)
    BY DEF Init, RequestInv, Idle
  <1>3. OneMaker /\ DeletionTracked /\ DatabaseFiles /\ NoResurrection
    BY DEF Init, OneMaker, DeletionTracked, DatabaseFiles, DatabaseHasFile, NoLitter,
           NoResurrection, At, Idle
  <1>4. Live(fn) = {} /\ Live(db) = {} /\ Making = {}
    BY DEF Init, Live, Making, Idle
  <1>5. FunctionLimit /\ ItemLimit
    BY <1>4, FS_EmptySet, FunctionStoreAssumption DEF Init, FunctionLimit, ItemLimit
  <1>6. CountHolds
    BY DEF Init, CountHolds, At, Idle
  <1>7. MakersCounted
    BY <1>4, FS_EmptySet, FS_CardinalityType, FunctionStoreAssumption DEF MakersCounted
  <1>8. QED
    BY <1>1, <1>2, <1>3, <1>5, <1>6, <1>7 DEF FunctionsInv, KnownInv

\* The inductive invariant of one owner's functions and databases: no request acts on what
\* has ceased to be true, whatever the interleaving, failures and crashes.
THEOREM FunctionsInvariant == Spec => []FunctionsInv
  <1>1. FunctionsInv /\ [Next]_vars => FunctionsInv'
    <2> SUFFICES ASSUME FunctionsInv, [Next]_vars PROVE FunctionsInv'
      OBVIOUS
    <2>1. CASE Next
      <3>1. /\ KnownInv'
            /\ NoNewMaker \/ \E r \in Requests : CountDatabases(r)
            /\ NoNewCreator \/ \E r \in Requests : CreateCount(r)
        BY <2>1, NextKnown DEF FunctionsInv
      <3>2. FunctionLimit' /\ CountHolds'
        BY <2>1, <3>1, FunctionLimitStep DEF FunctionsInv
      <3>3. ItemLimit'
        BY <2>1, ItemLimitStep DEF FunctionsInv
      <3>4. MakersCounted'
        BY <2>1, <3>1, MakersStep DEF FunctionsInv
      <3>5. QED
        BY <3>1, <3>2, <3>3, <3>4 DEF FunctionsInv
    <2>2. CASE UNCHANGED vars
      BY <2>2 DEF vars, FunctionsInv, KnownInv, TypeOK, RequestInv, OneMaker, DeletionTracked,
             DatabaseFiles, DatabaseHasFile, NoLitter, NoResurrection, FunctionLimit, ItemLimit,
             CountHolds, MakersCounted, Making, Live, At
    <2>3. QED
      BY <2>1, <2>2
  <1>2. QED
    BY InitFunctionsInv, <1>1, PTL DEF Spec

\* Deletion is final and complete: a request or a running function that checked a function
\* before its deletion can bring nothing of it back, and nothing of it stays unless the
\* second half of the deletion failed (functions/data.go:183, service.go:197).
THEOREM DeletionFinal == Spec => []DataFollowsFunction
  <1>1. FunctionsInv => DataFollowsFunction
    BY DEF FunctionsInv, KnownInv, TypeOK, NoResurrection, DeletionTracked, DataFollowsFunction,
           DataHasFunction
  <1>2. QED
    BY FunctionsInvariant, <1>1, PTL

\* A listed database has its file through failures and crashes, unless its INSERT took effect
\* and reported an error; a file without a row is accounted for; and concurrent creations exceed the limit on databases by one each at most,
\* the others not at all (functions/sql_database.go:87-110, service.go:126).
THEOREM DatabasesSound == Spec => []DatabasesInv
  <1>1. FunctionsInv => DatabasesInv
    <2> SUFFICES ASSUME FunctionsInv PROVE DatabasesInv
      OBVIOUS
    <2>1. Cardinality(Live(db)) \in Nat
      BY LiveCount, FunctionStoreAssumption DEF FunctionsInv, KnownInv, TypeOK
    <2>2. Cardinality(Making) \in Nat /\ Cardinality(Requests) \in Nat
      BY FS_Subset, FS_CardinalityType, FunctionStoreAssumption DEF Making
    <2>3. DatabaseOvershoot
      BY <2>1, <2>2, FunctionStoreAssumption DEF FunctionsInv, MakersCounted, DatabaseOvershoot
    <2>4. QED
      BY <2>3 DEF FunctionsInv, KnownInv, DatabasesInv, Limits, RequestsInv
  <1>2. QED
    BY FunctionsInvariant, <1>1, PTL

-----------------------------------------------------------------------------
(* Deploying and running one function *)


\* The instance counts as FiniteSets does.
LEMMA ExecCount ==
    ASSUME NEW S
    PROVE  /\ Execution!Cardinality(S) = Cardinality(S)
           /\ Execution!IsFiniteSet(S) <=> IsFiniteSet(S)
  <1>1. Execution!Cardinality(S) = Cardinality(S)
    BY DEF Execution!Cardinality, Cardinality
  <1>2. Execution!IsFiniteSet(S) <=> IsFiniteSet(S)
    BY DEF Execution!IsFiniteSet, IsFiniteSet
  <1>3. QED
    BY <1>1, <1>2

\* One request becomes q, the others stay as they are.
ExecBecomes(r, q) ==
    /\ q \in Execution!Request
    /\ execReq' \in [Functions -> Execution!Request]
    /\ execReq'[r] = q
    /\ \A t \in Functions \ {r} : execReq'[t] = execReq[t]

\* The assignments the steps make to a request.
LEMMA ExecMoves ==
    ASSUME Execution!TypeOK, NEW r \in Functions
    PROVE  /\ \A q \in Execution!Request :
                execReq' = [execReq EXCEPT ![r] = q] => ExecBecomes(r, q)
           /\ Execution!End(r) => ExecBecomes(r, Execution!Idle)
           /\ \A pc \in Execution!PC : Execution!Go(r, pc) =>
                ExecBecomes(r, [execReq[r] EXCEPT !.pc = pc])
  <1>1. execReq \in [Functions -> Execution!Request] /\ execReq[r] \in Execution!Request
    BY DEF Execution!TypeOK
  <1>2. \A q \in Execution!Request : execReq' = [execReq EXCEPT ![r] = q] => ExecBecomes(r, q)
    BY <1>1 DEF ExecBecomes
  <1>3. Execution!Idle \in Execution!Request
    BY DEF Execution!Idle, Execution!Request, Execution!PC
  <1>4. ASSUME NEW pc \in Execution!PC, Execution!Go(r, pc)
        PROVE  ExecBecomes(r, [execReq[r] EXCEPT !.pc = pc])
    <2>1. [execReq[r] EXCEPT !.pc = pc] \in Execution!Request
      BY <1>1 DEF Execution!Request
    <2>2. execReq' = [execReq EXCEPT ![r] = [execReq[r] EXCEPT !.pc = pc]]
      BY <1>4 DEF Execution!Go
    <2>3. QED
      BY <1>2, <2>1, <2>2
  <1>5. QED
    BY <1>2, <1>3, <1>4 DEF Execution!End

\* What a request is about, as statements about the request alone.
Holds(q) == q.pc \in {"running", "validating"}
Deploys(q) == q.pc \in {"build", "compile", "validate", "validating", "store"}
Sets(q) == q.pc \in {"setKey", "answerKey", "answerNoKey"}

Relies(q) ==
    /\ q.pc \in {"admit", "running", "store"} => q.ver \in valid
    /\ q.pc \in {"admit", "running"} =>
        /\ q.ver \notin q.oldVersions
        /\ q.key # None => q.key \notin q.oldKeys
    /\ Deploys(q) => q.ver \in Requests \ (replaced \cup {row.dep})
    /\ Sets(q) => q.key \notin issued /\ q.oldKeys \subseteq issued
    /\ Sets(q) /\ q.pc # "setKey" => row.key \notin q.oldKeys
    /\ q.pc = "load" => q.oldKeys \subseteq dead /\ q.oldVersions \subseteq replaced

\* What the row and the histories say of each other.
RowSound ==
    /\ row.dep \in valid \ replaced
    /\ dead \subseteq issued /\ expired \subseteq dead
    /\ row.key \notin dead \ expired

\* No two requests deploy one version or set one key.
OneEach ==
    \A r, t \in Functions : r # t =>
        /\ Deploys(execReq[r]) /\ Deploys(execReq[t]) => execReq[r].ver # execReq[t].ver
        /\ Sets(execReq[r]) /\ Sets(execReq[t]) /\ execReq[r].key # None =>
            execReq[r].key # execReq[t].key

\* The invariant in these terms.
ExecParts ==
    /\ Execution!TypeOK /\ Execution!SlotsHeld /\ Execution!BuildsHeld
    /\ RowSound /\ OneEach
    /\ \A r \in Functions : Relies(execReq[r])

\* The two readings agree.
LEMMA ExecInvParts == Execution!ExecutionInv <=> ExecParts
  <1>1. ASSUME Execution!ExecutionInv PROVE ExecParts
    <2>1. /\ Execution!TypeOK /\ Execution!SlotsHeld /\ Execution!BuildsHeld
          /\ Execution!OnlyValidRuns /\ Execution!FreshVersionRuns /\ Execution!DeadKeyRefused
          /\ Execution!NewVersions /\ Execution!NewKeys /\ Execution!KeysEnd
          /\ Execution!OverBefore
      BY <1>1 DEF Execution!ExecutionInv
    <2>2. RowSound
      BY <2>1 DEF RowSound, Execution!OnlyValidRuns, Execution!NewVersions, Execution!KeysEnd
    <2>3. OneEach
      BY <2>1 DEF OneEach, Execution!NewVersions, Execution!NewKeys, Execution!Deploying,
             Execution!Setting, Deploys, Sets
    <2>4. ASSUME NEW r \in Functions PROVE Relies(execReq[r])
      BY <2>1 DEF Relies, Deploys, Sets, Execution!OnlyValidRuns, Execution!FreshVersionRuns,
             Execution!DeadKeyRefused, Execution!NewVersions, Execution!NewKeys,
             Execution!KeysEnd, Execution!OverBefore, Execution!Deploying, Execution!Setting
    <2>5. QED
      BY <2>1, <2>2, <2>3, <2>4 DEF ExecParts
  <1>2. ASSUME ExecParts PROVE Execution!ExecutionInv
    <2>1. /\ Execution!TypeOK /\ Execution!SlotsHeld /\ Execution!BuildsHeld /\ RowSound
          /\ OneEach /\ \A r \in Functions : Relies(execReq[r])
      BY <1>2 DEF ExecParts
    <2>2. Execution!OnlyValidRuns /\ Execution!FreshVersionRuns /\ Execution!DeadKeyRefused
      BY <2>1 DEF RowSound, Relies, Execution!OnlyValidRuns, Execution!FreshVersionRuns,
             Execution!DeadKeyRefused
    <2>3. Execution!NewVersions
      BY <2>1 DEF RowSound, Relies, OneEach, Execution!NewVersions, Execution!Deploying, Deploys
    <2>4. Execution!NewKeys
      BY <2>1 DEF Relies, OneEach, Execution!NewKeys, Execution!Setting, Sets
    <2>5. Execution!KeysEnd /\ Execution!OverBefore
      BY <2>1 DEF RowSound, Relies, Sets, Execution!KeysEnd, Execution!OverBefore,
             Execution!Setting
    <2>6. Execution!BuildsBounded
      <3>1. /\ builds = Execution!Cardinality(Execution!Compiling)
            /\ containers \ orphans = Execution!Compiling
        BY <2>1 DEF Execution!BuildsHeld
      <3>2. builds <= MaxBuilds
        BY <2>1 DEF Execution!TypeOK
      <3>3. Execution!Cardinality(containers \ orphans) = builds
        BY <3>1
      <3>4. QED
        BY <3>2, <3>3 DEF Execution!BuildsBounded
    <2>7. QED
      BY <2>1, <2>2, <2>3, <2>4, <2>5, <2>6 DEF Execution!ExecutionInv
  <1>3. QED
    BY <1>1, <1>2

\* A request takes a slot when it begins to run or to validate, and gives it back when it
\* ceases to, whatever way.
SlotStep(r, q) ==
    \/ (Holds(q) <=> Holds(execReq[r])) /\ UNCHANGED slots
    \/ Holds(q) /\ ~Holds(execReq[r]) /\ slots < MaxRunning /\ slots' = slots + 1
    \/ ~Holds(q) /\ Holds(execReq[r]) /\ slots' = slots - 1

\* The slots of the runtime are the requests that hold one, and stay so when one request
\* takes a slot, returns it or does neither.
LEMMA SlotsCounted ==
    ASSUME Execution!FunctionExecutionAssumption, Execution!TypeOK, Execution!SlotsHeld,
           NEW r \in Functions, NEW q, ExecBecomes(r, q), SlotStep(r, q)
    PROVE  Execution!SlotsHeld' /\ slots' \in 0 .. MaxRunning
  <1> DEFINE H == Execution!Holding
  <1>1. \A t \in Functions : t \in H <=> Holds(execReq[t])
    BY DEF Execution!Holding, Holds
  <1>2. \A t \in Functions : t \in H' <=> Holds(execReq'[t])
    BY DEF Execution!Holding, Holds
  <1>3. execReq'[r] = q /\ \A t \in Functions \ {r} : execReq'[t] = execReq[t]
    BY DEF ExecBecomes
  <1>4. H \subseteq Functions /\ H' \subseteq Functions
    BY DEF Execution!Holding
  <1>5. IsFiniteSet(H)
    BY <1>4, ExecCount, FS_Subset, FunctionStoreAssumption
  <1>6. slots = Cardinality(H) /\ slots \in Nat /\ slots <= MaxRunning /\ MaxRunning \in Nat
    BY ExecCount DEF Execution!SlotsHeld, Execution!TypeOK, Execution!FunctionExecutionAssumption
  <1>7. CASE (Holds(q) <=> Holds(execReq[r])) /\ UNCHANGED slots
    <2>1. H' = H
      BY <1>1, <1>2, <1>3, <1>4, <1>7
    <2>2. QED
      BY <1>6, <1>7, <2>1, ExecCount DEF Execution!SlotsHeld
  <1>8. CASE Holds(q) /\ ~Holds(execReq[r]) /\ slots < MaxRunning /\ slots' = slots + 1
    <2>1. H' = H \cup {r} /\ r \notin H
      BY <1>1, <1>2, <1>3, <1>4, <1>8
    <2>2. Cardinality(H \cup {r}) = Cardinality(H) + 1
      BY <1>5, <2>1, FS_AddElement
    <2>3. QED
      BY <1>6, <1>8, <2>1, <2>2, ExecCount DEF Execution!SlotsHeld
  <1>9. CASE ~Holds(q) /\ Holds(execReq[r]) /\ slots' = slots - 1
    <2>1. H' = H \ {r} /\ r \in H
      BY <1>1, <1>2, <1>3, <1>4, <1>9
    <2>2. Cardinality(H \ {r}) = Cardinality(H) - 1 /\ Cardinality(H \ {r}) \in Nat
      BY <1>5, <2>1, FS_RemoveElement, FS_CardinalityType
    <2>3. QED
      BY <1>6, <1>9, <2>1, <2>2, ExecCount DEF Execution!SlotsHeld
  <1>10. QED
    BY <1>7, <1>8, <1>9 DEF SlotStep

\* A request takes a build slot with its container, and gives the slot back without fail: the
\* container goes with it, or is an orphan from then on.
BuildStep(r, q) ==
    \/ /\ q.pc = "compile" <=> execReq[r].pc = "compile"
       /\ q.pc = "build" => r \notin containers
       /\ UNCHANGED <<builds, containers, orphans>>
    \/ /\ q.pc = "compile" /\ execReq[r].pc = "build" /\ builds < MaxBuilds
       /\ builds' = builds + 1 /\ containers' = containers \cup {r} /\ UNCHANGED orphans
    \/ /\ q.pc \notin {"build", "compile"} /\ execReq[r].pc = "compile" /\ builds' = builds - 1
       /\ \/ containers' = containers \ {r} /\ UNCHANGED orphans
          \/ orphans' = orphans \cup {r} /\ UNCHANGED containers

\* The same for the slots of the build service and its containers.
LEMMA BuildsCounted ==
    ASSUME Execution!FunctionExecutionAssumption, Execution!TypeOK, Execution!BuildsHeld,
           NEW r \in Functions, NEW q, ExecBecomes(r, q), BuildStep(r, q)
    PROVE  /\ Execution!BuildsHeld' /\ builds' \in 0 .. MaxBuilds
           /\ containers' \subseteq Functions /\ orphans' \subseteq containers'
  <1> DEFINE C == Execution!Compiling
  <1>1. \A t \in Functions : t \in C <=> execReq[t].pc = "compile"
    BY DEF Execution!Compiling
  <1>2. \A t \in Functions : t \in C' <=> execReq'[t].pc = "compile"
    BY DEF Execution!Compiling
  <1>3. execReq'[r] = q /\ \A t \in Functions \ {r} : execReq'[t] = execReq[t]
    BY DEF ExecBecomes
  <1>4. C \subseteq Functions /\ C' \subseteq Functions
    BY DEF Execution!Compiling
  <1>5. IsFiniteSet(C)
    BY <1>4, FS_Subset, FunctionStoreAssumption
  <1>6. /\ builds = Cardinality(C) /\ builds \in Nat /\ builds <= MaxBuilds /\ MaxBuilds \in Nat
        /\ containers \ orphans = C
        /\ containers \subseteq Functions /\ orphans \subseteq containers
    BY ExecCount DEF Execution!BuildsHeld, Execution!TypeOK,
           Execution!FunctionExecutionAssumption
  <1>7. \A t \in Functions : execReq[t].pc = "build" => t \notin containers
    BY DEF Execution!BuildsHeld
  <1>8. ASSUME containers' \ orphans' = C', builds' = Cardinality(C'),
               \A t \in Functions : execReq'[t].pc = "build" => t \notin containers'
        PROVE  Execution!BuildsHeld'
    BY <1>8, ExecCount DEF Execution!BuildsHeld
  <1> HIDE DEF C
  <1>9. CASE /\ q.pc = "compile" <=> execReq[r].pc = "compile"
             /\ q.pc = "build" => r \notin containers
             /\ UNCHANGED <<builds, containers, orphans>>
    <2>1. C' = C
      BY <1>1, <1>2, <1>3, <1>4, <1>9
    <2>2. \A t \in Functions : execReq'[t].pc = "build" => t \notin containers'
      BY <1>3, <1>7, <1>9
    <2>3. QED
      BY <1>6, <1>8, <1>9, <2>1, <2>2
  <1>10. CASE /\ q.pc = "compile" /\ execReq[r].pc = "build" /\ builds < MaxBuilds
              /\ builds' = builds + 1 /\ containers' = containers \cup {r} /\ UNCHANGED orphans
    <2>1. C' = C \cup {r} /\ r \notin C
      BY <1>1, <1>2, <1>3, <1>4, <1>10
    <2>2. Cardinality(C \cup {r}) = Cardinality(C) + 1
      BY <1>5, <2>1, FS_AddElement
    <2>3. r \notin orphans
      BY <1>6, <1>7, <1>10
    <2>4. containers' \ orphans' = C'
      BY <1>6, <1>10, <2>1, <2>3
    <2>5. \A t \in Functions : execReq'[t].pc = "build" => t \notin containers'
      BY <1>3, <1>7, <1>10
    <2>6. QED
      BY <1>6, <1>8, <1>10, <2>1, <2>2, <2>4, <2>5
  <1>11. CASE /\ q.pc \notin {"build", "compile"} /\ execReq[r].pc = "compile"
              /\ builds' = builds - 1
              /\ \/ containers' = containers \ {r} /\ UNCHANGED orphans
                 \/ orphans' = orphans \cup {r} /\ UNCHANGED containers
    <2>1. C' = C \ {r} /\ r \in C
      BY <1>1, <1>2, <1>3, <1>4, <1>11
    <2>2. Cardinality(C \ {r}) = Cardinality(C) - 1 /\ Cardinality(C \ {r}) \in Nat
      BY <1>5, <2>1, FS_RemoveElement, FS_CardinalityType
    <2>3. containers' \ orphans' = C' /\ containers' \subseteq containers
      BY <1>6, <1>11, <2>1
    <2>4. orphans' \subseteq containers'
      BY <1>6, <1>11, <2>1
    <2>5. \A t \in Functions : execReq'[t].pc = "build" => t \notin containers'
      BY <1>3, <1>7, <1>11, <2>3
    <2>6. QED
      BY <1>6, <1>8, <1>11, <2>1, <2>2, <2>3, <2>4, <2>5
  <1>12. QED
    BY <1>9, <1>10, <1>11 DEF BuildStep

\* One request moves: what the others rely on stays true when nothing that was over begins
\* again, no version that they deploy comes into the row, no key that they set is answered,
\* and no key that they end comes into the row.
LEMMA ExecStep ==
    ASSUME Execution!FunctionExecutionAssumption, ExecParts,
           NEW r \in Functions, NEW q, ExecBecomes(r, q), SlotStep(r, q), BuildStep(r, q),
           row' \in Execution!Row, valid' \subseteq Requests, replaced' \subseteq Requests,
           issued' \subseteq Keys, expired' \subseteq Keys, dead' \subseteq Keys,
           RowSound', Relies(q)',
           valid \subseteq valid', replaced \subseteq replaced', issued \subseteq issued',
           dead \subseteq dead',
           \A t \in Functions \ {r} :
                /\ Deploys(execReq[t]) => execReq[t].ver \notin replaced' \cup {row'.dep}
                /\ Sets(execReq[t]) => execReq[t].key \notin issued'
                /\ Sets(execReq[t]) /\ execReq[t].pc # "setKey" =>
                    row'.key \notin execReq[t].oldKeys,
           Deploys(q) => \/ Deploys(execReq[r]) /\ q.ver = execReq[r].ver
                         \/ \A t \in Functions : execReq[t].ver # q.ver,
           Sets(q) => \/ Sets(execReq[r]) /\ q.key = execReq[r].key
                      \/ q.key = None
                      \/ \A t \in Functions : execReq[t].key # q.key
    PROVE  ExecParts'
  <1>1. execReq'[r] = q /\ \A t \in Functions \ {r} : execReq'[t] = execReq[t]
    BY DEF ExecBecomes
  <1>2. /\ Execution!TypeOK /\ Execution!SlotsHeld /\ Execution!BuildsHeld /\ OneEach
        /\ \A t \in Functions : Relies(execReq[t])
    BY DEF ExecParts
  <1>3. Execution!SlotsHeld' /\ slots' \in 0 .. MaxRunning
    BY <1>2, SlotsCounted
  <1>4. /\ Execution!BuildsHeld' /\ builds' \in 0 .. MaxBuilds
        /\ containers' \subseteq Functions /\ orphans' \subseteq containers'
    BY <1>2, BuildsCounted
  <1>5. Execution!TypeOK'
    BY <1>3, <1>4 DEF Execution!TypeOK, ExecBecomes
  <1>6. OneEach'
    <2> SUFFICES ASSUME NEW u \in Functions, NEW t \in Functions, u # t
                 PROVE  /\ Deploys(execReq'[u]) /\ Deploys(execReq'[t]) =>
                            execReq'[u].ver # execReq'[t].ver
                        /\ Sets(execReq'[u]) /\ Sets(execReq'[t]) /\ execReq'[u].key # None =>
                            execReq'[u].key # execReq'[t].key
      BY DEF OneEach, Deploys, Sets
    <2>1. CASE u # r /\ t # r
      BY <1>1, <1>2, <2>1 DEF OneEach
    <2>2. CASE u = r
      BY <1>1, <1>2, <2>2 DEF OneEach
    <2>3. CASE t = r
      BY <1>1, <1>2, <2>3 DEF OneEach
    <2>4. QED
      BY <2>1, <2>2, <2>3
  <1>7. ASSUME NEW t \in Functions PROVE Relies(execReq[t])'
    <2>1. CASE t = r
      BY <1>1, <2>1 DEF Relies, Deploys, Sets
    <2>2. CASE t # r
      BY <1>1, <1>2, <2>2 DEF Relies, Deploys, Sets
    <2>3. QED
      BY <2>1, <2>2
  <1>8. QED
    BY <1>3, <1>4, <1>5, <1>6, <1>7 DEF ExecParts

\* What a step leaves alone that only concerns the request and the slots.
execRest == <<row, valid, replaced, issued, expired, dead>>

\* A step that changes the request and the slots only.
LEMMA ExecQuiet ==
    ASSUME Execution!FunctionExecutionAssumption, ExecParts,
           NEW r \in Functions, NEW q, ExecBecomes(r, q), SlotStep(r, q), BuildStep(r, q),
           UNCHANGED execRest, Relies(q),
           Deploys(q) => \/ Deploys(execReq[r]) /\ q.ver = execReq[r].ver
                         \/ \A t \in Functions : execReq[t].ver # q.ver,
           Sets(q) => \/ Sets(execReq[r]) /\ q.key = execReq[r].key
                      \/ q.key = None
                      \/ \A t \in Functions : execReq[t].key # q.key
    PROVE  ExecParts'
  <1>1. UNCHANGED <<row, valid, replaced, issued, expired, dead>>
    BY DEF execRest
  <1>2. /\ row' \in Execution!Row /\ valid' \subseteq Requests /\ replaced' \subseteq Requests
        /\ issued' \subseteq Keys /\ expired' \subseteq Keys /\ dead' \subseteq Keys
    BY <1>1 DEF ExecParts, Execution!TypeOK
  <1>3. RowSound' /\ Relies(q)'
    BY <1>1 DEF ExecParts, RowSound, Relies, Deploys, Sets
  <1>4. \A t \in Functions :
            /\ Deploys(execReq[t]) => execReq[t].ver \notin replaced' \cup {row'.dep}
            /\ Sets(execReq[t]) => execReq[t].key \notin issued'
            /\ Sets(execReq[t]) /\ execReq[t].pc # "setKey" => row'.key \notin execReq[t].oldKeys
    BY <1>1 DEF ExecParts, Relies
  <1>5. QED
    BY <1>1, <1>2, <1>3, <1>4, ExecStep

\* A request that ends without effect gives back what it holds.
LEMMA ExecEnds ==
    ASSUME Execution!FunctionExecutionAssumption, ExecParts,
           NEW r \in Functions, Execution!End(r), UNCHANGED execRest,
           SlotStep(r, Execution!Idle), BuildStep(r, Execution!Idle)
    PROVE  ExecParts'
  <1>1. PICK q : q = Execution!Idle
    OBVIOUS
  <1>2. ExecBecomes(r, q)
    BY <1>1, ExecMoves DEF ExecParts
  <1>3. Relies(q) /\ ~Deploys(q) /\ ~Sets(q)
    BY <1>1 DEF Execution!Idle, Relies, Deploys, Sets
  <1>4. SlotStep(r, q) /\ BuildStep(r, q)
    BY <1>1
  <1>5. QED
    BY <1>2, <1>3, <1>4, ExecQuiet

\* A request that goes on with the version and the key it has.
LEMMA ExecGoes ==
    ASSUME Execution!FunctionExecutionAssumption, ExecParts,
           NEW r \in Functions, NEW pc \in Execution!PC, Execution!Go(r, pc), UNCHANGED execRest,
           NEW q, q = [execReq[r] EXCEPT !.pc = pc],
           SlotStep(r, q), BuildStep(r, q),
           Deploys(q) => Deploys(execReq[r]), ~Sets(q),
           pc \in {"admit", "running"} => execReq[r].pc \in {"admit", "running"},
           pc \notin {"store", "load"}
    PROVE  ExecParts'
  <1>1. ExecBecomes(r, q)
    BY ExecMoves DEF ExecParts
  <1>2. execReq[r] \in Execution!Request
    BY DEF ExecParts, Execution!TypeOK
  <1>3. /\ q.pc = pc /\ q.ver = execReq[r].ver /\ q.key = execReq[r].key
        /\ q.oldKeys = execReq[r].oldKeys /\ q.oldVersions = execReq[r].oldVersions
    BY <1>2 DEF Execution!Request
  <1>4. Relies(execReq[r])
    BY DEF ExecParts
  <1>5. Relies(q)
    BY <1>3, <1>4 DEF Relies, Deploys
  <1>6. QED
    BY <1>1, <1>3, <1>5, ExecQuiet

-----------------------------------------------------------------------------
(* One lemma for each group of steps *)

\* Invoking: the version that is read is valid and not over, and so is the key.
LEMMA RunKeeps ==
    ASSUME Execution!FunctionExecutionAssumption, ExecParts, NEW r \in Functions,
           \/ \E k \in Keys \cup {None} : Execution!Begin(r, k)
           \/ Execution!Run(r)
    PROVE  ExecParts'
  <1>1. /\ Execution!TypeOK /\ RowSound /\ Relies(execReq[r])
        /\ execReq[r] \in Execution!Request
    BY DEF ExecParts, Execution!TypeOK
  <1>2. ASSUME NEW k \in Keys \cup {None}, Execution!Begin(r, k) PROVE ExecParts'
    <2>1. PICK q : q = [pc |-> "load", ver |-> None, key |-> k, oldKeys |-> dead,
                        oldVersions |-> replaced]
      OBVIOUS
    <2>2. q \in Execution!Request
      BY <1>1, <2>1 DEF Execution!Request, Execution!PC, Execution!TypeOK
    <2>3. /\ execReq' = [execReq EXCEPT ![r] = q] /\ UNCHANGED execRest /\ UNCHANGED slots
          /\ UNCHANGED <<builds, containers, orphans>> /\ execReq[r].pc = "idle"
      BY <1>2, <2>1 DEF Execution!Begin, execRest, Execution!builder, Execution!history,
             Execution!keys
    <2>4. ExecBecomes(r, q)
      BY <1>1, <2>2, <2>3, ExecMoves
    <2>5. Relies(q) /\ ~Deploys(q) /\ ~Sets(q) /\ SlotStep(r, q) /\ BuildStep(r, q)
      BY <2>1, <2>3 DEF Relies, Deploys, Sets, SlotStep, BuildStep, Holds
    <2>6. QED
      BY <2>3, <2>4, <2>5, ExecQuiet
  <1>3. CASE Execution!Load(r)
    <2>1. PICK q : q = [execReq[r] EXCEPT !.pc = "admit", !.ver = row.dep]
      OBVIOUS
    <2>2. /\ q \in Execution!Request /\ q.pc = "admit" /\ q.ver = row.dep
          /\ q.key = execReq[r].key /\ q.oldKeys = execReq[r].oldKeys
          /\ q.oldVersions = execReq[r].oldVersions
      BY <1>1, <2>1 DEF Execution!Request, Execution!PC, Execution!TypeOK, Execution!Row
    <2>3. /\ execReq' = [execReq EXCEPT ![r] = q] /\ UNCHANGED execRest /\ UNCHANGED slots
          /\ UNCHANGED <<builds, containers, orphans>> /\ execReq[r].pc = "load"
          /\ execReq[r].key = None \/ (execReq[r].key = row.key /\ execReq[r].key \notin expired)
      BY <1>3, <2>1 DEF Execution!Load, execRest, Execution!builder, Execution!history,
             Execution!keys
    <2>4. ExecBecomes(r, q)
      BY <1>1, <2>2, <2>3, ExecMoves
    <2>5. Relies(q) /\ ~Deploys(q) /\ ~Sets(q) /\ SlotStep(r, q) /\ BuildStep(r, q)
      BY <1>1, <2>2, <2>3 DEF Relies, RowSound, Deploys, Sets, SlotStep, BuildStep, Holds
    <2>6. QED
      BY <2>3, <2>4, <2>5, ExecQuiet
  <1>4. CASE Execution!Admit(r)
    <2>1. PICK q : q = [execReq[r] EXCEPT !.pc = "running"]
      OBVIOUS
    <2>2. q.pc = "running"
      BY <1>1, <2>1 DEF Execution!Request
    <2>3. /\ Execution!Go(r, "running") /\ UNCHANGED execRest /\ execReq[r].pc = "admit"
          /\ SlotStep(r, q) /\ BuildStep(r, q) /\ ~Deploys(q) /\ ~Sets(q)
      BY <1>4, <2>2 DEF Execution!Admit, execRest, Execution!builder, Execution!history,
             Execution!keys, SlotStep, BuildStep, Holds, Deploys, Sets
    <2>4. "running" \in Execution!PC
      BY DEF Execution!PC
    <2>5. QED
      BY <2>1, <2>3, <2>4, ExecGoes
  <1>5. CASE Execution!LoadFails(r) \/ Execution!Busy(r) \/ Execution!RunEnds(r)
    <2>1. Execution!End(r) /\ UNCHANGED execRest
      BY <1>5 DEF Execution!LoadFails, Execution!Busy, Execution!RunEnds, execRest,
             Execution!builder, Execution!history, Execution!keys
    <2>2. SlotStep(r, Execution!Idle) /\ BuildStep(r, Execution!Idle)
      BY <1>5 DEF Execution!LoadFails, Execution!Busy, Execution!RunEnds, SlotStep, BuildStep,
             Holds, Execution!Idle, Execution!builder
    <2>3. QED
      BY <2>1, <2>2, ExecEnds
  <1>6. QED
    BY <1>2, <1>3, <1>4, <1>5 DEF Execution!Run

\* Building: the version is new, and the container goes with the slot or is an orphan.
LEMMA BuildKeeps ==
    ASSUME Execution!FunctionExecutionAssumption, ExecParts, NEW r \in Functions,
           \/ \E v \in Requests : Execution!UpdateSource(r, v) \/ Execution!Update(r, v)
           \/ Execution!Build(r)
    PROVE  ExecParts'
  <1>1. /\ Execution!TypeOK /\ RowSound /\ Relies(execReq[r])
        /\ execReq[r] \in Execution!Request
    BY DEF ExecParts, Execution!TypeOK
  <1>2. ASSUME NEW v \in Requests, Execution!UpdateSource(r, v) \/ Execution!Update(r, v)
        PROVE  ExecParts'
    <2>1. PICK p \in {"build", "validate"} :
            /\ execReq' = [execReq EXCEPT ![r] =
                            [Execution!Idle EXCEPT !.pc = p, !.ver = v]]
            /\ p = "build" => r \notin containers
      BY <1>2 DEF Execution!UpdateSource, Execution!Update
    <2>2. PICK q : q = [Execution!Idle EXCEPT !.pc = p, !.ver = v]
      OBVIOUS
    <2>3. q \in Execution!Request /\ q.pc = p /\ q.ver = v
      BY <2>2 DEF Execution!Request, Execution!PC, Execution!Idle
    <2>4. /\ UNCHANGED execRest /\ UNCHANGED slots /\ UNCHANGED <<builds, containers, orphans>>
          /\ execReq[r].pc = "idle" /\ v \notin Execution!Used
      BY <1>2 DEF Execution!UpdateSource, Execution!Update, execRest, Execution!builder,
             Execution!history, Execution!keys
    <2>5. ExecBecomes(r, q)
      BY <1>1, <2>1, <2>2, <2>3, ExecMoves
    <2>6. v \notin replaced \cup {row.dep} /\ \A t \in Functions : execReq[t].ver # v
      BY <2>4 DEF Execution!Used
    <2>7. Relies(q) /\ ~Sets(q) /\ SlotStep(r, q) /\ BuildStep(r, q)
      BY <2>1, <2>3, <2>4, <2>6 DEF Relies, Deploys, Sets, SlotStep, BuildStep, Holds
    <2>8. QED
      BY <2>3, <2>4, <2>5, <2>6, <2>7, ExecQuiet
  <1>3. CASE Execution!BuildStarts(r)
    <2>1. PICK q : q = [execReq[r] EXCEPT !.pc = "compile"]
      OBVIOUS
    <2>2. q.pc = "compile" /\ "compile" \in Execution!PC
      BY <1>1, <2>1 DEF Execution!Request, Execution!PC
    <2>3. /\ Execution!Go(r, "compile") /\ UNCHANGED execRest
          /\ SlotStep(r, q) /\ BuildStep(r, q) /\ Deploys(execReq[r]) /\ ~Sets(q)
      BY <1>3, <2>2 DEF Execution!BuildStarts, execRest, Execution!history, Execution!keys,
             SlotStep, BuildStep, Holds, Deploys, Sets
    <2>4. QED
      BY <2>1, <2>2, <2>3, ExecGoes
  <1>4. CASE Execution!BuildSucceeds(r)
    <2>1. PICK q : q = [execReq[r] EXCEPT !.pc = "validate"]
      OBVIOUS
    <2>2. q.pc = "validate" /\ "validate" \in Execution!PC
      BY <1>1, <2>1 DEF Execution!Request, Execution!PC
    <2>3. /\ Execution!Go(r, "validate") /\ UNCHANGED execRest
          /\ SlotStep(r, q) /\ BuildStep(r, q) /\ Deploys(execReq[r]) /\ ~Sets(q)
      BY <1>4, <2>2 DEF Execution!BuildSucceeds, execRest, Execution!history, Execution!keys,
             SlotStep, BuildStep, Holds, Deploys, Sets
    <2>4. QED
      BY <2>1, <2>2, <2>3, ExecGoes
  <1>5. CASE Execution!BuildRefused(r) \/ Execution!BuildFails(r) \/ Execution!BuildTimesOut(r)
    <2>1. Execution!End(r) /\ UNCHANGED execRest
      BY <1>5 DEF Execution!BuildRefused, Execution!BuildFails, Execution!BuildTimesOut,
             execRest, Execution!builder, Execution!history, Execution!keys
    <2>2. SlotStep(r, Execution!Idle) /\ BuildStep(r, Execution!Idle)
      BY <1>5 DEF Execution!BuildRefused, Execution!BuildFails, Execution!BuildTimesOut,
             SlotStep, BuildStep, Holds, Execution!Idle, Execution!builder
    <2>3. QED
      BY <2>1, <2>2, ExecEnds
  <1>6. QED
    BY <1>2, <1>3, <1>4, <1>5 DEF Execution!Build

\* Validating and storing: only what was accepted comes into the row, and what it replaces
\* is neither the new version nor one that another request deploys.
LEMMA StoreKeeps ==
    ASSUME Execution!FunctionExecutionAssumption, ExecParts, NEW r \in Functions,
           Execution!Store(r)
    PROVE  ExecParts'
  <1>1. /\ Execution!TypeOK /\ RowSound /\ Relies(execReq[r])
        /\ execReq[r] \in Execution!Request
    BY DEF ExecParts, Execution!TypeOK
  <1>2. /\ row \in Execution!Row /\ valid \subseteq Requests /\ replaced \subseteq Requests
        /\ issued \subseteq Keys /\ expired \subseteq Keys /\ dead \subseteq Keys
    BY <1>1 DEF Execution!TypeOK
  <1>3. CASE Execution!ValidateStarts(r)
    <2>1. PICK q : q = [execReq[r] EXCEPT !.pc = "validating"]
      OBVIOUS
    <2>2. q.pc = "validating" /\ "validating" \in Execution!PC
      BY <1>1, <2>1 DEF Execution!Request, Execution!PC
    <2>3. /\ Execution!Go(r, "validating") /\ UNCHANGED execRest
          /\ SlotStep(r, q) /\ BuildStep(r, q) /\ Deploys(execReq[r]) /\ ~Sets(q)
      BY <1>3, <2>2 DEF Execution!ValidateStarts, execRest, Execution!builder,
             Execution!history, Execution!keys, SlotStep, BuildStep, Holds, Deploys, Sets
    <2>4. QED
      BY <2>1, <2>2, <2>3, ExecGoes
  <1>4. CASE Execution!ValidateRejects(r)
    <2>1. Execution!End(r) /\ UNCHANGED execRest
      BY <1>4 DEF Execution!ValidateRejects, execRest, Execution!builder, Execution!history,
             Execution!keys
    <2>2. SlotStep(r, Execution!Idle) /\ BuildStep(r, Execution!Idle)
      BY <1>4 DEF Execution!ValidateRejects, SlotStep, BuildStep, Holds, Execution!Idle,
             Execution!builder
    <2>3. QED
      BY <2>1, <2>2, ExecEnds
  <1>5. CASE Execution!ValidateAccepts(r)
    <2>1. PICK q : q = [execReq[r] EXCEPT !.pc = "store"]
      OBVIOUS
    <2>2. /\ q.pc = "store" /\ q.ver = execReq[r].ver
      BY <1>1, <2>1 DEF Execution!Request
    <2>3. /\ Execution!Go(r, "store") /\ execReq[r].pc = "validating" /\ slots' = slots - 1
          /\ valid' = valid \cup {q.ver}
          /\ UNCHANGED <<row, replaced, issued, expired, dead, builds, containers, orphans>>
      BY <1>5, <2>2 DEF Execution!ValidateAccepts, Execution!builder, Execution!keys
    <2>4. ExecBecomes(r, q)
      BY <1>1, <2>1, <2>3, ExecMoves DEF Execution!PC
    <2>5. SlotStep(r, q) /\ BuildStep(r, q) /\ Deploys(execReq[r]) /\ ~Sets(q)
      BY <2>2, <2>3 DEF SlotStep, BuildStep, Holds, Deploys, Sets
    <2>6. q.ver \in Requests \ (replaced \cup {row.dep})
      BY <1>1, <2>2, <2>5 DEF Relies
    <2>7. RowSound' /\ Relies(q)'
      BY <1>1, <2>2, <2>3, <2>5, <2>6 DEF RowSound, Relies, Deploys
    <2>8. \A t \in Functions :
            /\ Deploys(execReq[t]) => execReq[t].ver \notin replaced' \cup {row'.dep}
            /\ Sets(execReq[t]) => execReq[t].key \notin issued'
            /\ Sets(execReq[t]) /\ execReq[t].pc # "setKey" => row'.key \notin execReq[t].oldKeys
      BY <2>3 DEF ExecParts, Relies
    <2>9. QED
      BY <1>2, <2>2, <2>3, <2>4, <2>5, <2>6, <2>7, <2>8, ExecStep
  <1>6. CASE Execution!UpdateDeployment(r)
    <2>1. PICK q : q = Execution!Idle
      OBVIOUS
    <2>2. /\ Execution!End(r) /\ execReq[r].pc = "store"
          /\ UNCHANGED <<slots, valid, issued, expired, dead, builds, containers, orphans>>
      BY <1>6 DEF Execution!UpdateDeployment, Execution!builder, Execution!keys
    <2>3. ExecBecomes(r, q)
      BY <1>1, <2>1, <2>2, ExecMoves
    <2>4. SlotStep(r, q) /\ BuildStep(r, q) /\ Deploys(execReq[r]) /\ ~Deploys(q) /\ ~Sets(q)
      BY <2>1, <2>2 DEF SlotStep, BuildStep, Holds, Deploys, Sets, Execution!Idle
    <2>5. execReq[r].ver \in valid \ (replaced \cup {row.dep})
      BY <1>1, <2>2, <2>4 DEF Relies
    <2>6. \/ row' = [row EXCEPT !.dep = execReq[r].ver] /\ replaced' = replaced \cup {row.dep}
          \/ UNCHANGED <<row, replaced>>
      BY <1>6 DEF Execution!UpdateDeployment
    <2>7. /\ row' \in Execution!Row /\ row'.key = row.key
          /\ replaced \subseteq replaced' /\ replaced' \subseteq replaced \cup {row.dep}
          /\ row'.dep \in {row.dep, execReq[r].ver} /\ row'.dep \notin replaced'
      BY <1>1, <1>2, <2>5, <2>6 DEF Execution!Row, RowSound
    <2>8. RowSound' /\ Relies(q)'
      BY <1>1, <2>1, <2>2, <2>5, <2>7 DEF RowSound, Relies, Deploys, Sets, Execution!Idle
    <2>9. ASSUME NEW t \in Functions \ {r}
          PROVE  /\ Deploys(execReq[t]) => execReq[t].ver \notin replaced' \cup {row'.dep}
                 /\ Sets(execReq[t]) => execReq[t].key \notin issued'
                 /\ Sets(execReq[t]) /\ execReq[t].pc # "setKey" =>
                        row'.key \notin execReq[t].oldKeys
      <3>1. Relies(execReq[t])
        BY DEF ExecParts
      <3>2. Deploys(execReq[t]) => execReq[t].ver # execReq[r].ver
        BY <2>4 DEF ExecParts, OneEach
      <3>3. QED
        BY <2>2, <2>7, <3>1, <3>2 DEF Relies
    <2>10. replaced' \subseteq Requests
      BY <1>2, <2>7 DEF Execution!Row
    <2>11. QED
      BY <1>2, <2>2, <2>3, <2>4, <2>7, <2>8, <2>9, <2>10, ExecStep
  <1>7. QED
    BY <1>3, <1>4, <1>5, <1>6 DEF Execution!Store

\* Keys: a new key is in no one's set of keys to end; once the row has it, none of the keys
\* this request ends comes back, so that the answer may count them as dead.
LEMMA KeysKeep ==
    ASSUME Execution!FunctionExecutionAssumption, ExecParts, NEW r \in Functions,
           \/ \E k \in Keys \cup {None} : Execution!KeyRequest(r, k)
           \/ Execution!Key(r)
    PROVE  ExecParts'
  <1>1. /\ Execution!TypeOK /\ RowSound /\ Relies(execReq[r])
        /\ execReq[r] \in Execution!Request
    BY DEF ExecParts, Execution!TypeOK
  <1>2. /\ row \in Execution!Row /\ valid \subseteq Requests /\ replaced \subseteq Requests
        /\ issued \subseteq Keys /\ expired \subseteq Keys /\ dead \subseteq Keys
    BY <1>1 DEF Execution!TypeOK
  <1>3. None \notin Keys
    BY DEF Execution!FunctionExecutionAssumption
  <1>4. ASSUME NEW k \in Keys \cup {None}, Execution!KeyRequest(r, k) PROVE ExecParts'
    <2>1. PICK q : q = [Execution!Idle EXCEPT !.pc = "setKey", !.key = k, !.oldKeys = issued]
      OBVIOUS
    <2>2. q \in Execution!Request /\ q.pc = "setKey" /\ q.key = k /\ q.oldKeys = issued
      BY <1>2, <2>1 DEF Execution!Request, Execution!PC, Execution!Idle
    <2>3. /\ execReq' = [execReq EXCEPT ![r] = q] /\ UNCHANGED execRest /\ UNCHANGED slots
          /\ UNCHANGED <<builds, containers, orphans>> /\ execReq[r].pc = "idle"
          /\ k = None \/ k \notin Execution!UsedKeys
      BY <1>4, <2>1 DEF Execution!KeyRequest, execRest, Execution!builder, Execution!history,
             Execution!keys
    <2>4. ExecBecomes(r, q)
      BY <1>1, <2>2, <2>3, ExecMoves
    <2>5. k \notin issued /\ (k = None \/ \A t \in Functions : execReq[t].key # k)
      BY <1>2, <1>3, <2>3 DEF Execution!UsedKeys
    <2>6. Relies(q) /\ ~Deploys(q) /\ SlotStep(r, q) /\ BuildStep(r, q)
      BY <2>2, <2>3, <2>5 DEF Relies, Deploys, Sets, SlotStep, BuildStep, Holds
    <2>7. QED
      BY <2>2, <2>3, <2>4, <2>5, <2>6, ExecQuiet
  <1>5. CASE Execution!SetKeyFails(r)
    <2>1. Execution!End(r) /\ UNCHANGED execRest
      BY <1>5 DEF Execution!SetKeyFails, execRest, Execution!builder, Execution!history,
             Execution!keys
    <2>2. SlotStep(r, Execution!Idle) /\ BuildStep(r, Execution!Idle)
      BY <1>5 DEF Execution!SetKeyFails, SlotStep, BuildStep, Holds, Execution!Idle,
             Execution!builder
    <2>3. QED
      BY <2>1, <2>2, ExecEnds
  <1>6. CASE Execution!SetKey(r)
    <2>1. PICK p \in {"answerKey", "answerNoKey"} : Execution!Go(r, p)
      BY <1>6 DEF Execution!SetKey
    <2>2. PICK q : q = [execReq[r] EXCEPT !.pc = p]
      OBVIOUS
    <2>3. q.pc = p /\ q.key = execReq[r].key /\ q.oldKeys = execReq[r].oldKeys
      BY <1>1, <2>2 DEF Execution!Request
    <2>4. ExecBecomes(r, q)
      BY <1>1, <2>1, <2>2, ExecMoves DEF Execution!PC
    <2>5. /\ execReq[r].pc = "setKey" /\ row' = [row EXCEPT !.key = q.key]
          /\ UNCHANGED <<slots, valid, replaced, issued, expired, dead>>
          /\ UNCHANGED <<builds, containers, orphans>>
      BY <1>6, <2>3 DEF Execution!SetKey, Execution!builder, Execution!history, Execution!keys
    <2>6. SlotStep(r, q) /\ BuildStep(r, q) /\ ~Deploys(q) /\ Sets(q) /\ Sets(execReq[r])
      BY <2>1, <2>3, <2>5 DEF SlotStep, BuildStep, Holds, Deploys, Sets
    <2>7. q.key \in Keys \cup {None} /\ q.key \notin issued /\ q.oldKeys \subseteq issued
      BY <1>1, <2>3, <2>6 DEF Execution!Request, Relies
    <2>8. row' \in Execution!Row /\ row'.dep = row.dep /\ row'.key = q.key
      BY <1>2, <2>5, <2>7 DEF Execution!Row
    <2>9. RowSound' /\ Relies(q)'
      BY <1>1, <2>1, <2>3, <2>5, <2>6, <2>7, <2>8 DEF RowSound, Relies
    <2>10. ASSUME NEW t \in Functions
           PROVE  /\ Deploys(execReq[t]) => execReq[t].ver \notin replaced' \cup {row'.dep}
                  /\ Sets(execReq[t]) => execReq[t].key \notin issued'
                  /\ Sets(execReq[t]) /\ execReq[t].pc # "setKey" =>
                        row'.key \notin execReq[t].oldKeys
      <3>1. Relies(execReq[t])
        BY DEF ExecParts
      <3>2. QED
        BY <2>5, <2>7, <2>8, <3>1 DEF Relies
    <2>11. QED
      BY <1>2, <2>3, <2>4, <2>5, <2>6, <2>8, <2>9, <2>10, ExecStep
  <1>7. CASE Execution!AnswerKey(r)
    <2>1. PICK q : q = Execution!Idle
      OBVIOUS
    <2>2. /\ Execution!End(r) /\ execReq[r].pc \in {"answerKey", "answerNoKey"}
          /\ issued' = issued \cup ({execReq[r].key} \ {None})
          /\ dead' = dead \cup execReq[r].oldKeys
          /\ UNCHANGED <<row, slots, valid, replaced, expired, builds, containers, orphans>>
      BY <1>7 DEF Execution!AnswerKey, Execution!builder, Execution!history
    <2>3. ExecBecomes(r, q)
      BY <1>1, <2>1, <2>2, ExecMoves
    <2>4. SlotStep(r, q) /\ BuildStep(r, q) /\ Sets(execReq[r]) /\ ~Deploys(q) /\ ~Sets(q)
      BY <2>1, <2>2 DEF SlotStep, BuildStep, Holds, Deploys, Sets, Execution!Idle
    <2>5. /\ execReq[r].key \notin issued /\ execReq[r].oldKeys \subseteq issued
          /\ row.key \notin execReq[r].oldKeys
      BY <1>1, <2>2, <2>4 DEF Relies
    <2>6. issued' \subseteq Keys /\ dead' \subseteq Keys
      BY <1>1, <1>2, <2>2 DEF Execution!Request
    <2>7. RowSound' /\ Relies(q)'
      BY <1>1, <2>1, <2>2, <2>5 DEF RowSound, Relies, Deploys, Sets, Execution!Idle
    <2>8. ASSUME NEW t \in Functions \ {r}
          PROVE  /\ Deploys(execReq[t]) => execReq[t].ver \notin replaced' \cup {row'.dep}
                 /\ Sets(execReq[t]) => execReq[t].key \notin issued'
                 /\ Sets(execReq[t]) /\ execReq[t].pc # "setKey" =>
                        row'.key \notin execReq[t].oldKeys
      <3>1. Relies(execReq[t])
        BY DEF ExecParts
      <3>2. Sets(execReq[t]) /\ execReq[r].key # None => execReq[t].key # execReq[r].key
        BY <2>4 DEF ExecParts, OneEach
      <3>3. QED
        BY <2>2, <3>1, <3>2 DEF Relies
    <2>9. QED
      BY <1>2, <2>2, <2>3, <2>4, <2>6, <2>7, <2>8, ExecStep
  <1>8. QED
    BY <1>4, <1>5, <1>6, <1>7 DEF Execution!Key

\* Time, the deletion of the function and the end of an orphan move no request.
LEMMA OutsideKeeps ==
    ASSUME Execution!FunctionExecutionAssumption, ExecParts,
           \/ \E r \in Functions : Execution!OrphanEnds(r)
           \/ \E k \in Keys : Execution!Expire(k)
           \/ Execution!Delete
           \/ UNCHANGED Execution!vars
    PROVE  ExecParts'
  <1>1. /\ Execution!TypeOK /\ Execution!SlotsHeld /\ Execution!BuildsHeld /\ RowSound /\ OneEach
        /\ \A r \in Functions : Relies(execReq[r])
    BY DEF ExecParts
  <1>2. UNCHANGED <<execReq, slots, builds, valid, replaced, issued>>
    BY DEF Execution!OrphanEnds, Execution!Expire, Execution!Delete, Execution!vars,
           Execution!builder, Execution!history, Execution!keys
  <1>3. Execution!SlotsHeld' /\ OneEach'
    BY <1>1, <1>2, ExecCount DEF Execution!SlotsHeld, Execution!Holding, OneEach, Deploys, Sets
  <1>4. /\ containers' \ orphans' = containers \ orphans /\ containers' \subseteq containers
        /\ orphans' \subseteq containers'
    <2>1. orphans \subseteq containers
      BY <1>1 DEF Execution!TypeOK
    <2>2. QED
      BY <2>1 DEF Execution!OrphanEnds, Execution!Expire, Execution!Delete, Execution!vars,
             Execution!builder
  <1>5. Execution!BuildsHeld'
    BY <1>1, <1>2, <1>4, ExecCount DEF Execution!BuildsHeld, Execution!Compiling
  <1>6. /\ row' \in Execution!Row /\ row'.dep = row.dep /\ row'.key = row.key
    BY <1>1 DEF Execution!TypeOK, Execution!Row, Execution!OrphanEnds, Execution!Expire,
           Execution!Delete, Execution!vars
  <1>7. \/ UNCHANGED <<expired, dead>>
        \/ \E k \in issued : expired' = expired \cup {k} /\ dead' = dead \cup {k}
    BY DEF Execution!OrphanEnds, Execution!Expire, Execution!Delete, Execution!vars,
           Execution!keys
  <1>8. RowSound'
    BY <1>1, <1>2, <1>6, <1>7 DEF RowSound
  <1>9. dead \subseteq dead'
    BY <1>7
  <1>10. ASSUME NEW r \in Functions PROVE Relies(execReq[r])'
    BY <1>1, <1>2, <1>6, <1>9 DEF Relies, Deploys, Sets
  <1>11. Execution!TypeOK'
    BY <1>1, <1>2, <1>4, <1>6, <1>7 DEF Execution!TypeOK
  <1>12. QED
    BY <1>3, <1>5, <1>8, <1>10, <1>11 DEF ExecParts

\* A function whose first version was accepted, and nothing under way.
LEMMA ExecInit ==
    ASSUME Execution!FunctionExecutionAssumption, Execution!Init
    PROVE  ExecParts
  <1>1. \A r \in Functions : execReq[r] = Execution!Idle
    BY DEF Execution!Init
  <1>2. Execution!Idle \in Execution!Request /\ Execution!Idle.pc = "idle"
    BY DEF Execution!Idle, Execution!Request, Execution!PC
  <1>3. Execution!TypeOK
    BY <1>2 DEF Execution!Init, Execution!TypeOK, Execution!Row,
           Execution!FunctionExecutionAssumption
  <1>4. Execution!Holding = {} /\ Execution!Compiling = {}
    BY <1>1, <1>2 DEF Execution!Holding, Execution!Compiling
  <1>5. Execution!SlotsHeld /\ Execution!BuildsHeld
    BY <1>1, <1>2, <1>4, ExecCount, FS_EmptySet DEF Execution!Init, Execution!SlotsHeld,
           Execution!BuildsHeld, Execution!FunctionExecutionAssumption
  <1>6. RowSound
    BY DEF Execution!Init, RowSound
  <1>7. OneEach /\ \A r \in Functions : Relies(execReq[r])
    BY <1>1, <1>2 DEF OneEach, Relies, Deploys, Sets
  <1>8. QED
    BY <1>3, <1>5, <1>6, <1>7 DEF ExecParts

\* Slots of the runtime and of the build service are never lost or exceeded, however a run or
\* a build ends; only modules that validate accepted are stored or run; no invocation runs a
\* version that was overwritten, or with a key that was ended, before the invocation came in,
\* however many uploads and key requests overlap (functions/service.go:303,
\* :356, :375, repository.go:69, :113, cmd/function-builder/main.go).
THEOREM ExecutionSound ==
    ASSUME Execution!FunctionExecutionAssumption
    PROVE  Execution!Spec => []ExecutionInv
  <1>1. Execution!Init => ExecParts
    BY ExecInit
  <1>2. ExecParts /\ [Execution!Next]_(Execution!vars) => ExecParts'
    BY RunKeeps, BuildKeeps, StoreKeeps, KeysKeep, OutsideKeeps
    DEF Execution!Next, Execution!Step
  <1>3. ExecParts <=> ExecutionInv
    BY ExecInvParts DEF ExecutionInv
  <1>4. QED
    BY <1>1, <1>2, <1>3, PTL DEF Execution!Spec
=============================================================================
