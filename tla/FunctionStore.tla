---------------------------- MODULE FunctionStore ----------------------------
(***************************************************************************)
(* One owner's functions and their data.  A function is a row of the       *)
(* platform database; its JSON items, its tombstone, the owner's SQLite    *)
(* databases and the bindings of functions to them are rows of a second    *)
(* database, and each SQLite database is a file.  No transaction spans two *)
(* of the three.  A running function keeps writing items after the check   *)
(* that it exists, so its deletion leaves a tombstone behind.              *)
(***************************************************************************)
EXTENDS Naturals, FiniteSets

CONSTANTS
    Functions,      \* function IDs, never reused
    Databases,      \* database IDs
    Keys,           \* item keys of a function
    Requests,       \* requests and running functions
    None,           \* no request, function or database
    MaxFunctions,   \* MaxFunctionsPerUser
    MaxItems,       \* MaxDataItemsPerFunction
    MaxDatabases,   \* maxDatabasesPerOwner
    MaxFaults       \* bound on failures and crashes

ASSUME FunctionStoreAssumption ==
    /\ IsFiniteSet(Functions) /\ IsFiniteSet(Databases) /\ IsFiniteSet(Requests)
    /\ IsFiniteSet(Keys)
    /\ MaxFunctions \in Nat /\ MaxItems \in Nat /\ MaxDatabases \in Nat \ {0}
    /\ MaxFaults \in Nat
    /\ None \notin Functions \cup Databases \cup Requests

VARIABLES
    fn,        \* rows of the functions table
    tomb,      \* deleted_functions
    items,     \* function_data: keys of each function
    db,        \* rows of app_databases
    files,     \* database files on disk
    bind,      \* app_database_bindings, one alias per function
    createMu,  \* holder of Service.createMu
    req,       \* what each request is doing, with which function or database
    faults,    \* failures so far
    leaked,    \* history: functions whose second half of the deletion failed
    litter,    \* history: files whose removal failed or was never tried
    denied     \* history: databases listed although their INSERT answered with an error

data == <<tomb, items>>
dbs == <<db, files>>
vars == <<fn, tomb, items, db, files, bind, createMu, req, faults, leaked, litter, denied>>

PC == {"idle", "createRow", "deleteData", "use", "dbFile", "dbRow", "dbDrop",
       "dbUnlink", "bindCheck", "bindPut", "unbind", "open", "exec"}

TypeOK ==
    /\ fn \in [Functions -> {"none", "live", "deleted"}]
    /\ tomb \subseteq {f \in Functions : fn[f] = "deleted"}
    /\ items \in [Functions -> SUBSET Keys]
    /\ db \in [Databases -> {"none", "live", "deleted"}]
    /\ files \subseteq Databases
    /\ bind \in [Functions -> Databases \cup {None}]
    /\ createMu \in Requests \cup {None}
    /\ req \in [Requests -> [pc : PC, f : Functions \cup {None}, d : Databases \cup {None}]]
    /\ faults \in 0 .. MaxFaults
    /\ leaked \subseteq Functions
    /\ litter \subseteq Databases /\ denied \subseteq Databases

Idle == [pc |-> "idle", f |-> None, d |-> None]

Init ==
    /\ fn = [f \in Functions |-> "none"]
    /\ tomb = {}
    /\ items = [f \in Functions |-> {}]
    /\ db = [d \in Databases |-> "none"]
    /\ files = {}
    /\ bind = [f \in Functions |-> None]
    /\ createMu = None
    /\ req = [r \in Requests |-> Idle]
    /\ faults = 0
    /\ leaked = {}
    /\ litter = {} /\ denied = {}

At(r, pc) == req[r].pc = pc
Return(r) == req' = [req EXCEPT ![r] = Idle]
Enter(r, pc, f, d) == req' = [req EXCEPT ![r] = [pc |-> pc, f |-> f, d |-> d]]
Goto(r, pc) == req' = [req EXCEPT ![r].pc = pc]
Carry(r, pc, d) == req' = [req EXCEPT ![r].pc = pc, ![r].d = d]
QueryReturns(r) == IF req[r].f = None THEN Return(r) ELSE Carry(r, "use", None)
Fault == faults < MaxFaults /\ faults' = faults + 1

Live(table) == {x \in DOMAIN table : table[x] = "live"}

-----------------------------------------------------------------------------
(* Seeded faults: what the definitions below would be with a plausible bug. *)

CreateCountUnlocked(r) ==
    /\ At(r, "idle")
    /\ Cardinality(Live(fn)) < MaxFunctions
    /\ createMu' = r
    /\ Goto(r, "createRow")
    /\ UNCHANGED <<fn, data, dbs, bind, faults, leaked, litter, denied>>

PutWithoutTombstone(r, k) ==
    LET f == req[r].f
    IN  /\ At(r, "use")
        /\ k \in items[f] \/ Cardinality(items[f]) < MaxItems
        /\ items' = [items EXCEPT ![f] = @ \cup {k}]
        /\ UNCHANGED <<fn, tomb, dbs, bind, createMu, req, faults, leaked, litter, denied>>

\* mode=rwc, the default of SQLite
ExecCreatesFile(r) ==
    /\ At(r, "exec")
    /\ files' = files \cup {req[r].d}
    /\ QueryReturns(r)
    /\ UNCHANGED <<fn, data, db, bind, createMu, faults, leaked, litter, denied>>

-----------------------------------------------------------------------------
(* Functions *)

\* Create and CreateSource, once the module is valid: createMu is held from the
\* count to the insert.
CreateCount(r) ==
    /\ At(r, "idle") /\ createMu = None
    /\ Cardinality(Live(fn)) < MaxFunctions
    /\ createMu' = r
    /\ Goto(r, "createRow")
    /\ UNCHANGED <<fn, data, dbs, bind, faults, leaked, litter, denied>>

CreateDeployment(r, f) ==
    /\ At(r, "createRow") /\ fn[f] = "none"
    /\ fn' = [fn EXCEPT ![f] = "live"]
    /\ createMu' = None
    /\ Return(r)
    /\ UNCHANGED <<data, dbs, bind, faults, leaked, litter, denied>>

\* The name is taken, or the insert fails.
CreateConflict(r) ==
    /\ At(r, "createRow")
    /\ createMu' = None
    /\ Return(r)
    /\ UNCHANGED <<fn, data, dbs, bind, faults, leaked, litter, denied>>

\* Delete: the row first, then the data; a second Delete finds no row.
DeleteRow(r, f) ==
    /\ At(r, "idle") /\ fn[f] = "live"
    /\ fn' = [fn EXCEPT ![f] = "deleted"]
    /\ Enter(r, "deleteData", f, None)
    /\ UNCHANGED <<data, dbs, bind, createMu, faults, leaked, litter, denied>>

DeleteFunction(r) ==
    /\ At(r, "deleteData")
    /\ items' = [items EXCEPT ![req[r].f] = {}]
    /\ bind' = [bind EXCEPT ![req[r].f] = None]
    /\ tomb' = tomb \cup {req[r].f}
    /\ Return(r)
    /\ UNCHANGED <<fn, dbs, createMu, faults, leaked, litter, denied>>

DeleteFunctionFails(r) ==
    /\ At(r, "deleteData")
    /\ Fault
    /\ leaked' = leaked \cup {req[r].f}
    /\ Return(r)
    /\ UNCHANGED <<fn, data, dbs, bind, createMu, litter, denied>>

\* dataFor, or the lookup before an invocation: from here on the request works
\* with the IDs, whatever becomes of the function.
StartUse(r, f) ==
    /\ At(r, "idle") /\ fn[f] = "live"
    /\ Enter(r, "use", f, None)
    /\ UNCHANGED <<fn, data, dbs, bind, createMu, faults, leaked, litter, denied>>

\* One transaction: tombstone, count, upsert.
Put(r, k) ==
    LET f == req[r].f
    IN  /\ At(r, "use") /\ f \notin tomb
        /\ k \in items[f] \/ Cardinality(items[f]) < MaxItems
        /\ items' = [items EXCEPT ![f] = @ \cup {k}]
        /\ UNCHANGED <<fn, tomb, dbs, bind, createMu, req, faults, leaked, litter, denied>>

Delete(r, k) ==
    /\ At(r, "use") /\ k \in items[req[r].f]
    /\ items' = [items EXCEPT ![req[r].f] = @ \ {k}]
    /\ UNCHANGED <<fn, tomb, dbs, bind, createMu, req, faults, leaked, litter, denied>>

EndUse(r) ==
    /\ At(r, "use")
    /\ Return(r)
    /\ UNCHANGED <<fn, data, dbs, bind, createMu, faults, leaked, litter, denied>>

-----------------------------------------------------------------------------
(* SQLite databases *)

\* CreateDatabase: count, file, row; no lock is held over them.
CountDatabases(r) ==
    /\ At(r, "idle")
    /\ Cardinality(Live(db)) < MaxDatabases
    /\ Goto(r, "dbFile")
    /\ UNCHANGED <<fn, data, dbs, bind, createMu, faults, leaked, litter, denied>>

CreateFile(r, d) ==
    /\ At(r, "dbFile") /\ db[d] = "none" /\ d \notin files
    /\ files' = files \cup {d}
    /\ Carry(r, "dbRow", d)
    /\ UNCHANGED <<fn, data, db, bind, createMu, faults, leaked, litter, denied>>

\* No file could be made (in the model: no fresh ID is left).
CreateFileFails(r) ==
    /\ At(r, "dbFile")
    /\ Return(r)
    /\ UNCHANGED <<fn, data, dbs, bind, createMu, faults, leaked, litter, denied>>

InsertDatabase(r) ==
    /\ At(r, "dbRow")
    /\ db' = [db EXCEPT ![req[r].d] = "live"]
    /\ Return(r)
    /\ UNCHANGED <<fn, data, files, bind, createMu, faults, leaked, litter, denied>>

\* The name is taken, or the insert fails: the deferred os.Remove runs, and nobody asks
\* whether it worked.
InsertDatabaseFails(r) ==
    /\ At(r, "dbRow")
    /\ \/ files' = files \ {req[r].d} /\ UNCHANGED <<faults, litter>>
       \/ Fault /\ litter' = litter \cup {req[r].d} /\ UNCHANGED files
    /\ Return(r)
    /\ UNCHANGED <<fn, data, db, bind, createMu, leaked, denied>>

\* The row is there, but the statement or RowsAffected answers with an error: os.Remove
\* runs as well.
InsertDatabaseLost(r) ==
    /\ At(r, "dbRow") /\ Fault
    /\ db' = [db EXCEPT ![req[r].d] = "live"]
    /\ files' = files \ {req[r].d}
    /\ denied' = denied \cup {req[r].d}
    /\ Return(r)
    /\ UNCHANGED <<fn, data, bind, createMu, leaked, litter>>

\* DeleteDatabase: ownership, one transaction for bindings and row, file.
DeleteDatabase(r, d) ==
    /\ At(r, "idle") /\ db[d] = "live"
    /\ Enter(r, "dbDrop", None, d)
    /\ UNCHANGED <<fn, data, dbs, bind, createMu, faults, leaked, litter, denied>>

DropDatabase(r) ==
    /\ At(r, "dbDrop")
    /\ bind' = [f \in Functions |-> IF bind[f] = req[r].d THEN None ELSE bind[f]]
    /\ db' = [db EXCEPT ![req[r].d] = "deleted"]
    /\ Goto(r, "dbUnlink")
    /\ UNCHANGED <<fn, data, files, createMu, faults, leaked, litter, denied>>

DropDatabaseFails(r) ==
    /\ At(r, "dbDrop")
    /\ Fault
    /\ Return(r)
    /\ UNCHANGED <<fn, data, dbs, bind, createMu, leaked, litter, denied>>

\* The commit took effect and answers with an error: the file is never removed.
DropDatabaseLost(r) ==
    /\ At(r, "dbDrop") /\ Fault
    /\ bind' = [f \in Functions |-> IF bind[f] = req[r].d THEN None ELSE bind[f]]
    /\ db' = [db EXCEPT ![req[r].d] = "deleted"]
    /\ litter' = litter \cup {req[r].d}
    /\ Return(r)
    /\ UNCHANGED <<fn, data, files, createMu, leaked, denied>>

RemoveFile(r) ==
    /\ At(r, "dbUnlink")
    /\ files' = files \ {req[r].d}
    /\ Return(r)
    /\ UNCHANGED <<fn, data, db, bind, createMu, faults, leaked, litter, denied>>

RemoveFileFails(r) ==
    /\ At(r, "dbUnlink")
    /\ Fault
    /\ litter' = litter \cup {req[r].d}
    /\ Return(r)
    /\ UNCHANGED <<fn, data, dbs, bind, createMu, leaked, denied>>

\* BindDatabase: the function exists, the database is owned, then the upsert;
\* three statements, on two connections.
BindDatabase(r, f) ==
    /\ At(r, "idle") /\ fn[f] = "live"
    /\ Enter(r, "bindCheck", f, None)
    /\ UNCHANGED <<fn, data, dbs, bind, createMu, faults, leaked, litter, denied>>

DatabaseOwned(r, d) ==
    /\ At(r, "bindCheck")
    /\ IF db[d] = "live" THEN Carry(r, "bindPut", d)
                         ELSE Return(r)
    /\ UNCHANGED <<fn, data, dbs, bind, createMu, faults, leaked, litter, denied>>

UpsertBinding(r) ==
    /\ At(r, "bindPut")
    /\ bind' = [bind EXCEPT ![req[r].f] = req[r].d]
    /\ Return(r)
    /\ UNCHANGED <<fn, data, dbs, createMu, faults, leaked, litter, denied>>

UnbindDatabase(r, f) ==
    /\ At(r, "idle") /\ fn[f] = "live"
    /\ Enter(r, "unbind", f, None)
    /\ UNCHANGED <<fn, data, dbs, bind, createMu, faults, leaked, litter, denied>>

DeleteBinding(r) ==
    /\ At(r, "unbind")
    /\ bind' = [bind EXCEPT ![req[r].f] = None]
    /\ Return(r)
    /\ UNCHANGED <<fn, data, dbs, createMu, faults, leaked, litter, denied>>

\* A running function queries a database it is bound to: the binding and the row
\* are found together (and the row once more by QueryDatabase).
QueryBinding(r) ==
    LET d == bind[req[r].f] IN
    /\ At(r, "use") /\ d \in Live(db)
    /\ Carry(r, "open", d)
    /\ UNCHANGED <<fn, data, dbs, bind, createMu, faults, leaked, litter, denied>>

\* Or the owner does, with a statement that validateSQL accepts.
QueryDatabase(r, d) ==
    /\ At(r, "idle") /\ d \in Live(db)
    /\ Enter(r, "open", None, d)
    /\ UNCHANGED <<fn, data, dbs, bind, createMu, faults, leaked, litter, denied>>

\* openDatabase: os.Lstat finds the file, or the query fails.
OpenDatabase(r) ==
    /\ At(r, "open")
    /\ IF req[r].d \in files THEN Goto(r, "exec") ELSE QueryReturns(r)
    /\ UNCHANGED <<fn, data, dbs, bind, createMu, faults, leaked, litter, denied>>

\* The file is opened by the first statement, the PRAGMA, with mode=rw: one that has
\* been removed since Lstat is not made again.  What is in it is not modelled.
Exec(r) ==
    /\ At(r, "exec")
    /\ QueryReturns(r)
    /\ UNCHANGED <<fn, data, dbs, bind, createMu, faults, leaked, litter, denied>>

\* The API dies: requests and the mutex are gone, both databases and the files
\* stay.
Crash ==
    /\ \E r \in Requests : ~At(r, "idle")
    /\ Fault
    /\ leaked' = leaked \cup {req[r].f : r \in {q \in Requests : At(q, "deleteData")}}
    /\ litter' = litter \cup {req[r].d : r \in {q \in Requests : At(q, "dbRow") \/ At(q, "dbUnlink")}}
    /\ req' = [r \in Requests |-> Idle]
    /\ createMu' = None
    /\ UNCHANGED <<fn, data, dbs, bind, denied>>

-----------------------------------------------------------------------------

Next ==
    \/ \E r \in Requests :
        \/ CreateCount(r) \/ CreateConflict(r) \/ DeleteFunction(r) \/ DeleteFunctionFails(r)
        \/ EndUse(r) \/ CountDatabases(r) \/ CreateFileFails(r)
        \/ InsertDatabase(r) \/ InsertDatabaseFails(r) \/ InsertDatabaseLost(r)
        \/ DropDatabase(r) \/ DropDatabaseFails(r) \/ DropDatabaseLost(r) \/ RemoveFile(r) \/ RemoveFileFails(r)
        \/ UpsertBinding(r) \/ DeleteBinding(r)
        \/ QueryBinding(r) \/ OpenDatabase(r) \/ Exec(r)
    \/ \E r \in Requests, f \in Functions :
        \/ CreateDeployment(r, f) \/ DeleteRow(r, f) \/ StartUse(r, f)
        \/ BindDatabase(r, f) \/ UnbindDatabase(r, f)
    \/ \E r \in Requests, k \in Keys : Put(r, k) \/ Delete(r, k)
    \/ \E r \in Requests, d \in Databases :
        \/ CreateFile(r, d) \/ DeleteDatabase(r, d) \/ DatabaseOwned(r, d) \/ QueryDatabase(r, d)
    \/ Crash

Spec == Init /\ [][Next]_vars

-----------------------------------------------------------------------------
(* Properties *)

\* Once a function's data is deleted, a request or a running function that
\* checked it before cannot write any: the tombstone is in the same
\* transaction as the write (data.go:183).
NoResurrection == \A f \in tomb : items[f] = {}

\* Items belong to a function that exists, or is just being deleted; otherwise
\* the second half of its deletion failed (service.go:197).
DataHasFunction ==
    \A f \in Functions : items[f] # {} =>
        \/ fn[f] = "live"
        \/ f \in leaked
        \/ \E r \in Requests : At(r, "deleteData") /\ req[r].f = f

\* Deletion is final and complete: nothing of a function comes back, and nothing of
\* it stays (data.go:183, service.go:197).
DataFollowsFunction == NoResurrection /\ DataHasFunction

\* The limit on functions holds for concurrent creations (service.go:120).
FunctionLimit == Cardinality(Live(fn)) <= MaxFunctions

\* The limit on items holds for concurrent writers (data.go:201).
ItemLimit == \A f \in Functions : Cardinality(items[f]) <= MaxItems

\* A listed database has its file, through failures and crashes, because the file
\* is made before the row and removed after it (sql_database.go:189); only an INSERT
\* that took effect and answered with an error leaves a row alone (line 110).
DatabaseHasFile == \A d \in Databases : db[d] = "live" => d \in files \cup denied

\* A file without a row belongs to a request under way; otherwise its removal
\* failed, a lost answer or a crash came before it.  A query that is overtaken by
\* the deletion of its database does not bring the file back (sql_database.go:65).
NoLitter ==
    \A d \in files : db[d] # "live" =>
        \/ d \in litter
        \/ \E r \in Requests : req[r].pc \in {"dbRow", "dbUnlink"} /\ req[r].d = d

\* The count and the insert of CreateDatabase are not atomic, so concurrent
\* requests can exceed the limit, but each by one only (sql_database.go:87).
DatabaseOvershoot ==
    Cardinality(Live(db)) <= MaxDatabases + Cardinality(Requests) - 1

\* Databases and their files belong together (sql_database.go:110, 189).
DatabaseFiles == DatabaseHasFile /\ NoLitter

\* The limits on functions and items hold for concurrent requests, the one on
\* databases up to one for each of them.
Limits == TypeOK /\ FunctionLimit /\ ItemLimit /\ DatabaseOvershoot

-----------------------------------------------------------------------------
(* What the requests under way rely on *)

\* The row a request has looked up is still there or was deleted, and a file that waits
\* for its row has none and has not been removed.
RequestInv(r) ==
    LET q == req[r] IN
    /\ q.f # None => fn[q.f] # "none"
    /\ q.pc \in {"use", "deleteData", "bindCheck", "bindPut", "unbind"} => q.f # None
    /\ q.pc \in {"dbRow", "dbDrop", "dbUnlink", "bindPut", "open", "exec"} => q.d # None
    /\ q.pc = "deleteData" => fn[q.f] = "deleted"
    /\ q.pc = "dbRow" => db[q.d] = "none" /\ q.d \in files
    /\ q.pc = "dbDrop" => db[q.d] # "none"
    /\ q.pc = "dbUnlink" => db[q.d] = "deleted"

\* No two requests make the same database.
OneMaker ==
    \A r, q \in Requests :
        At(r, "dbRow") /\ At(q, "dbRow") /\ req[r].d = req[q].d => r = q

\* A deletion that has begun is finished, failed or under way; and no data comes before
\* its function.
DeletionTracked ==
    \A f \in Functions :
        /\ fn[f] = "none" => items[f] = {}
        /\ fn[f] = "deleted" =>
              \/ f \in tomb
              \/ f \in leaked
              \/ \E r \in Requests : At(r, "deleteData") /\ req[r].f = f

\* A creation that has counted the functions holds the mutex, so the count is not stale.
CountHolds ==
    \A r \in Requests :
        At(r, "createRow") => createMu = r /\ Cardinality(Live(fn)) < MaxFunctions

\* The requests between the count of the databases and the insert.
Making == {r \in Requests : req[r].pc \in {"dbFile", "dbRow"}}

\* Every request that has counted may still add a database, the last of them to an
\* inventory that was below the limit.
MakersCounted ==
    Cardinality(Live(db)) + Cardinality(Making) <= MaxDatabases + Cardinality(Requests) - 1

RequestsInv ==
    /\ \A r \in Requests : RequestInv(r)
    /\ OneMaker /\ DeletionTracked /\ CountHolds /\ MakersCounted

\* Databases and files belong together, but for lost answers and failed removals
\* (functions/sql_database.go:110, 189),
\* and limits hold under concurrent creations (functions/service.go:126), because no
\* request acts on what it no longer knows.
DatabasesInv == DatabaseFiles /\ Limits /\ RequestsInv
=============================================================================
