----------------------------- MODULE Repositories -----------------------------
(***************************************************************************)
(* The repositories of the server and of the two gateways, on top of ent.  *)
(* Every write is one statement, except the registration of an app, which  *)
(* looks the instance up and then inserts.  A read is a plan: one or more  *)
(* selects, each a statement for its rows followed by one statement per    *)
(* edge it loads, and no transaction holds them together, so other         *)
(* requests write in between.                                              *)
(***************************************************************************)
EXTENDS EntStore, Sequences

CONSTANTS
    Emails, GoogleIds, Jtis,        \* of accounts
    Servers, Hosts,                 \* OpenStack ids of instances, host names of apps
    KeyNames, Swift, Names,         \* of key pairs; Swift names of containers; names of
                                    \* containers and of functions
    Versions,                       \* what a request brings along, by request
    Callers,                        \* requests that register an app
    PageSizes,                      \* the page sizes an administrator asks for
    MaxRows,                        \* bound: rows ever made in a table
    MaxOverlap                      \* bound: writes while a read is under way

\* Emails and names are strings, ids of rows numbers, and none of them is SQL's NULL; what
\* a request brings along is neither NULL nor empty; a page has rows.
ASSUME RepositoriesAssumption ==
    /\ Null \notin Emails \cup Servers \cup Hosts \cup KeyNames \cup Names
    /\ Null \notin Nat
    /\ \A n \in Names : n \notin Nat
    /\ \A t \in Tables : \A f \in Columns[t], v \in Versions : Value(f, v) \notin {Null, Empty}
    /\ PageSizes \subseteq Nat \ {0}

VARIABLES
    db,         \* the database
    made,       \* made[t]: rows ever made in table t
    saving,     \* saving[c]: the registration of an app under way, or what it returned
    view        \* one read under way: reads change nothing, so one stands for any number

vars == <<db, made, saving, view>>

None == [c \in {} |-> 0]
Idle == [at |-> "idle"]

-----------------------------------------------------------------------------
(* Predicates of queries.                                                  *)

Matches(r, where) == \A c \in DOMAIN where : r[c] = where[c]

\* Has<Edge>With: the row's neighbour exists and matches.
HasOwnerWith(d, t, r, where) ==
    \E u \in d["users"] : u.id = r[Loads[t]["owner"].column] /\ Matches(u, where)

Owned(d, t, owner, where) ==
    {r \in d[t] : Matches(r, where) /\ HasOwnerWith(d, t, r, [id |-> owner])}

\* The id of an account, which requests carry since their authentication.
UserRow(d, e) == {u \in d["users"] : u.email = e}
OwnerId(e) == (CHOOSE u \in UserRow(db, e) : TRUE).id

-----------------------------------------------------------------------------
(* Reads.  A select: the table, what the rows and their owner must match,  *)
(* the columns the response takes, the edges it loads in order, and        *)
(* whether it counts, wants exactly one row, or takes a page.              *)

Select(t, where, owner, cols) ==
    [table |-> t, where |-> where, owner |-> owner, cols |-> cols, edges |-> <<>>,
     count |-> FALSE, only |-> FALSE, page |-> 0, limit |-> 0]
Only(s) == [s EXCEPT !.only = TRUE]
With(s, e, cols) == [s EXCEPT !.edges = Append(@, [edge |-> e, cols |-> cols])]
Count(t) == [Select(t, None, None, {}) EXCEPT !.count = TRUE]
Paged(s, p) == [s EXCEPT !.page = p.page, !.limit = p.limit]

\* A read for the account `of` (Null: for an administrator or a gateway), of the entity
\* known by `key` (Null: of all), with the selects it makes.
Query(of, key, selects) ==
    [of |-> of, key |-> key, selects |-> selects, parallel |-> FALSE, must |-> FALSE]

\* What the responses take of a row.
toUser == {"id", "email", "name", "google_id", "google_access_token", "google_refresh_token",
           "google_token_expiry", "current_refresh_jti"}
entToInstance == {"openstack_id", "name", "status", "image_id", "flavor_id", "key_name", "note",
                  "provider_created_at"}
entToContainer == {"openstack_name", "name", "created_at"}
toKeyPair == {"openstack_name", "fingerprint", "public_key"}
toFunction == {"id", "name", "wasm", "language", "data_mode", "source", "key_hash",
               "key_created_at", "key_expires_at", "created_at", "updated_at"}
userResponse == {"id", "email", "name", "created_at", "updated_at"}
instanceResponse == {"openstack_id", "name", "status", "flavor_id", "image_id", "created_at",
                     "updated_at"}
containerResponse == {"id", "name", "openstack_name", "created_at", "updated_at"}
keypairResponse == {"id", "openstack_name", "fingerprint", "source_type", "created_at",
                    "updated_at"}
owner_of == {"id", "email", "name"}

FindByEmail(e) == Query(e, Null, <<Only(Select("users", [email |-> e], None, toUser))>>)

\* Seeded fault: an instance is found for whoever asks.
InstanceOfAnyone(id, s, cols) == Only(Select("instances", [openstack_id |-> s], None, cols))

InstancesOf(id, cols) == Select("instances", None, [id |-> id], cols)
InstanceOf(id, s, cols) ==
    Only(Select("instances", [openstack_id |-> s], [id |-> id], cols))

ListInstances(e) ==
    Query(e, Null, <<With(InstancesOf(OwnerId(e), entToInstance), "app", {"id", "host"})>>)
FindByOpenstackID(e, s) ==
    Query(e, s, <<With(InstanceOf(OwnerId(e), s, entToInstance), "app", {"id", "host"})>>)
FindInstanceName(e, s) == Query(e, s, <<InstanceOf(OwnerId(e), s, {"name"})>>)
FindConsoleTarget(e, s) == Query(e, s, <<InstanceOf(OwnerId(e), s, {"openstack_id", "name"})>>)
ListInstancesByEmail(e) ==
    Query(e, Null, <<Select("instances", None, [email |-> e],
                            {"openstack_id", "name", "status"})>>)

\* The gateway wants the instance behind the host and reports its absence as an error.
FindByHost(h) ==
    [Query(Null, h, <<Only(With(Select("apps", [host |-> h], None, {"host"}),
                                "instance", {"openstack_id"}))>>) EXCEPT !.must = TRUE]

ListKeyPairs(e) == Query(e, Null, <<Select("key_pairs", None, [id |-> OwnerId(e)], toKeyPair)>>)
FindKeyPair(e, k) ==
    Query(e, k, <<Only(Select("key_pairs", [openstack_name |-> k], [id |-> OwnerId(e)],
                              toKeyPair))>>)

ListContainers(e) ==
    Query(e, Null, <<Select("containers", None, [id |-> OwnerId(e)], entToContainer)>>)
\* With the index on owner and name, the fallback to the first of several rows is dead.
FindContainer(e, n) ==
    Query(e, n, <<Only(Select("containers", [name |-> n], [id |-> OwnerId(e)],
                              entToContainer))>>)

ListFunctions(e) ==
    Query(e, Null, <<Select("functions", None, [id |-> OwnerId(e)],
                            toFunction \ {"wasm", "source"})>>)
GetFunction(e, f) ==
    Query(e, f, <<Only(Select("functions", [id |-> f], [id |-> OwnerId(e)], toFunction))>>)
GetPublicFunction(f) ==
    Query(Null, f, <<With(Only(Select("functions", [id |-> f], None, toFunction)),
                          "owner", {"id"})>>)

\* The administrator's views.  Four goroutines count for the summary.
SummaryCounts ==
    [Query(Null, Null,
           <<Count("users"), Count("containers"), Count("key_pairs"),
             Select("instances", None, None, {"openstack_id", "status"})>>)
     EXCEPT !.parallel = TRUE]

\* Edges are loaded in the order of the generated sqlAll, not of the calls.
AdminUsers(p) ==
    Query(Null, Null,
          <<Paged(Count("users"), p),
            Paged(With(With(With(Select("users", None, None, userResponse),
                                 "instances", {"id"}), "keypairs", {"id"}),
                       "containers", {"id"}), p)>>)

AdminInstances(p) ==
    Query(Null, Null,
          <<Paged(Count("instances"), p),
            Paged(With(Select("instances", None, None, instanceResponse), "owner", owner_of),
                  p)>>)
AdminInstance(s) ==
    Query(Null, s, <<Only(With(Select("instances", [openstack_id |-> s], None,
                                      instanceResponse), "owner", owner_of))>>)

AdminContainers(p) ==
    Query(Null, Null,
          <<Paged(Count("containers"), p),
            Paged(With(Select("containers", None, None, containerResponse), "owner", owner_of),
                  p)>>)
AdminContainer(i) ==
    Query(Null, i, <<Only(With(Select("containers", [id |-> i], None, containerResponse),
                               "owner", owner_of))>>)

UserResources(e) ==
    Query(e, Null,
          <<Only(Select("users", [id |-> OwnerId(e)], None, userResponse)),
            With(InstancesOf(OwnerId(e), instanceResponse), "owner", owner_of),
            With(Select("containers", None, [id |-> OwnerId(e)], containerResponse),
                 "owner", owner_of),
            With(Select("key_pairs", None, [id |-> OwnerId(e)], keypairResponse),
                 "instances", {"id"})>>)

-----------------------------------------------------------------------------
(* Running a read.                                                         *)

pageOffset(s) == (s.page - 1) * s.limit

\* The number of pages (none is reported with the counts of the summary).
paginationResponse(s, total) ==
    IF total > 0 /\ s.limit > 0 THEN (total + s.limit - 1) \div s.limit ELSE 0

Edge(s, k) == s.edges[k].edge

\* What one select has so far: statements done, rows, neighbours by edge, count, error.
Blank(s) ==
    [done |-> 0, rows |-> {}, near |-> [k \in 1..Len(s.edges) |-> {}], n |-> 0, err |-> ""]

\* The statement for the rows (or the count) of a select.
sqlAll(d, s) ==
    LET rows == {r \in d[s.table] :
                    /\ Matches(r, s.where)
                    /\ s.owner # None => HasOwnerWith(d, s.table, r, s.owner)}
        taken == IF s.page = 0 THEN rows ELSE Page(rows, pageOffset(s), s.limit)
    IN  [Blank(s) EXCEPT !.done = 1,
                         !.rows = IF s.count THEN {} ELSE Nodes(s.table, taken),
                         !.n = Cardinality(rows),
                         !.err = IF s.only THEN OnlyErr(rows) ELSE ""]

\* The statement that loads the next edge.
LoadEdge(d, s, g) ==
    [g EXCEPT !.done = @ + 1,
              !.near[g.done] = Neighbours(d, s.table, g.rows, Edge(s, g.done))]

\* A select that failed, found no rows, or loaded all edges is over.
Over(s, g) == g.done > 0 /\ (g.err # "" \/ g.rows = {} \/ g.done > Len(s.edges))

Selects(v) == DOMAIN v.query.selects
IsOver(v, i) == Over(v.query.selects[i], v.got[i])

\* One select after the other, up to the first error; or all at once.
MayRun(v, i) ==
    /\ ~IsOver(v, i)
    /\ v.query.parallel \/ \A j \in 1..(i - 1) : IsOver(v, j) /\ v.got[j].err = ""

Answered(v) == v.at = "read" /\ \A i \in Selects(v) : ~MayRun(v, i)

\* The error of the answer: the first of its selects, or an edge that is not there.
Error(v) ==
    IF \E i \in Selects(v) : v.got[i].err # ""
    THEN v.got[CHOOSE i \in Selects(v) :
                  v.got[i].err # "" /\ \A j \in 1..(i - 1) : v.got[j].err = ""].err
    ELSE IF v.query.must /\ v.got[1].near[1] = {} THEN "not found"
    ELSE ""

-----------------------------------------------------------------------------
(* What a read is about, said without selects: the facts that the database *)
(* holds of the accounts and entities it asks for.                         *)

KeyOf ==
    [users |-> {"id", "email"}, instances |-> {"openstack_id"}, apps |-> {"host"},
     key_pairs |-> {"openstack_name"}, containers |-> {"name", "id"}, functions |-> {"id"}]

EmailOf(d, t, r) ==
    IF t = "users" THEN r.email
    ELSE IF t = "apps" THEN Null
    ELSE (CHOOSE u \in d["users"] : u.id = r[Loads[t]["owner"].column]).email

Asked(d, q, t) ==
    {r \in d[t] : /\ q.of # Null => EmailOf(d, t, r) = q.of
                  /\ q.key # Null => \E c \in KeyOf[t] : r[c] = q.key}

\* The rows of the page of select s, latest first: full pages of later rows precede it.
OnPage(rows, s) ==
    {r \in rows :
        Cardinality({o \in rows : o.created_at > r.created_at}) \div s.limit = s.page - 1}

Linked(d, t, r, e) ==
    LET l == Loads[t][e] IN
    {o \in d[l.table] : IF l.inverse THEN o.id = r[l.column] ELSE o[l.column] = r.id}

\* What select i tells: of a row, of a link over its k-th edge, of the neighbour there,
\* of a total and the number of pages for it.
RowFact(q, i, r) == <<i, "row", 0, OnlyIn(r, q.selects[i].cols)>>
NearFact(q, i, k, o) == <<i, "near", k, <<o.id, OnlyIn(o, q.selects[i].edges[k].cols)>>>>
LinkFacts(q, i, k, r, o) ==
    {<<i, "link", k, <<r.id, o.id>>>>, NearFact(q, i, k, o)}
CountFacts(i, n, pages) == {<<i, "total", 0, n>>, <<i, "pages", 0, pages>>}

Told(d, q, i, rows) ==
    LET s == q.selects[i] IN
    {RowFact(q, i, r) : r \in rows}
    \cup UNION {UNION {LinkFacts(q, i, k, r, o) : o \in Linked(d, s.table, r, Edge(s, k))} :
                   r \in rows, k \in DOMAIN s.edges}

Counted(d, q, i) ==
    LET s == q.selects[i]
        n == Cardinality(d[s.table])
    IN  CountFacts(i, n, CHOOSE p \in 0..n :
                            \/ s.limit = 0 /\ p = 0
                            \/ s.limit > 0 /\ p * s.limit >= n
                               /\ (p > 0 => (p - 1) * s.limit < n))

\* What rows say of themselves, whoever is linked to them at the moment.
Neighbouring(d, q, i) ==
    LET s == q.selects[i] IN
    UNION {{NearFact(q, i, k, o) : o \in d[Loads[s.table][Edge(s, k)].table]} :
              k \in DOMAIN s.edges}

\* All that is true of what is asked, and what an answer given at once contains.  A link
\* and what the neighbour says may be true at different moments: they are read by
\* different statements.
Truth(d, q) ==
    UNION {IF q.selects[i].count THEN Counted(d, q, i)
           ELSE Told(d, q, i, Asked(d, q, q.selects[i].table)) \cup Neighbouring(d, q, i) :
              i \in DOMAIN q.selects}

AtOnce(d, q) ==
    UNION {LET s == q.selects[i]
               rows == Asked(d, q, s.table)
           IN  IF s.count THEN Counted(d, q, i)
               ELSE Told(d, q, i, IF s.page = 0 THEN rows ELSE OnPage(rows, s)) :
           i \in DOMAIN q.selects}

\* What the answer tells.
Reported(v) ==
    LET q == v.query IN
    UNION {LET s == q.selects[i]
               g == v.got[i]
           IN  IF s.count THEN CountFacts(i, g.n, paginationResponse(s, g.n))
               ELSE {RowFact(q, i, r) : r \in g.rows}
                    \cup UNION {UNION {LinkFacts(q, i, k, r, o) :
                                          o \in Attached(s.table, r, Edge(s, k), g.near[k])} :
                                   r \in g.rows, k \in DOMAIN s.edges} :
           i \in Selects(v)}

-----------------------------------------------------------------------------
(* Steps.                                                                  *)

Init ==
    /\ db = EmptyDatabase
    /\ made = [t \in Tables |-> 0]
    /\ saving = [c \in Callers |-> Idle]
    /\ view = Idle

\* A statement was committed: ever and always follow what was true during the read.
Commit(d) ==
    /\ view.at = "read" => view.overlap < MaxOverlap
    /\ db' = d
    /\ view' = IF view.at # "read" \/ d = db THEN view
               ELSE [view EXCEPT !.overlap = @ + 1,
                                 !.ever = @ \cup Truth(d, view.query),
                                 !.always = @ \cap AtOnce(d, view.query)]

\* An insert makes a row with the next number; a failed one makes none.
Create(t, o) ==
    /\ Commit(o.db)
    /\ made' = [made EXCEPT ![t] = @ + Cardinality(o.db[t]) - Cardinality(db[t])]
    /\ made'[t] <= MaxRows

Change(o) == Commit(o.db) /\ UNCHANGED made

\* Values of version v for the columns of S.
Versioned(S, v) == [f \in S |-> Value(f, v)]

Pick(f, x) == [g \in {f} |-> x]

-----------------------------------------------------------------------------
(* Seeded faults: plausible slips of the upsert.                           *)

\* A login without a refresh token erases the stored one.
UpsertUserErases(e, g, v, refresh, jti) ==
    LET token == Pick("google_refresh_token",
                      IF refresh = Empty THEN Empty ELSE Value("google_refresh_token", refresh))
        set == Override(Versioned({"name", "google_access_token", "google_token_expiry"}, v),
                        Override(Pick("google_id", g), token))
        current == IF jti = Null THEN None ELSE Pick("current_refresh_jti", jti)
        new == Override(Override(set, current), Pick("email", e))
        onConflict == Override(Override(set, current), UpdateDefaults)
    IN  /\ Create("users", Upsert(db, "users", CreateBuilder("users", new, NoEdge),
                                  made["users"] + 1, {"email"},
                                  OnlyIn(onConflict, UserUpsertSetters)))
        /\ UNCHANGED saving

\* A login of a known account takes over all values of the new row, its time of creation
\* included (the conflict clause is ResolveWithNewValues alone).
ResolveWithNewValues(e, g, v, refresh, jti) ==
    LET token == Pick("google_refresh_token",
                      IF refresh = Empty THEN Empty ELSE Value("google_refresh_token", refresh))
        set == Override(Versioned({"name", "google_access_token", "google_token_expiry"}, v),
                        Override(Pick("google_id", g), token))
        current == IF jti = Null THEN None ELSE Pick("current_refresh_jti", jti)
        new == Override(Override(set, current), Pick("email", e))
        m == CreateBuilder("users", new, NoEdge)
    IN  /\ Create("users", Upsert(db, "users", m, made["users"] + 1, {"email"},
                                  OnlyIn(Filled("users", m, made["users"] + 1),
                                         UserInsert \ {"id"})))
        /\ UNCHANGED saving

-----------------------------------------------------------------------------
(* Accounts.                                                               *)

UpsertUser(e, g, v, refresh, jti) ==
    LET token == Pick("google_refresh_token",
                      IF refresh = Empty THEN Empty ELSE Value("google_refresh_token", refresh))
        set == Override(Versioned({"name", "google_access_token", "google_token_expiry"}, v),
                        Pick("google_id", g))
        current == IF jti = Null THEN None ELSE Pick("current_refresh_jti", jti)
        new == Override(Override(Override(set, token), current), Pick("email", e))
        kept == IF refresh = Empty THEN None ELSE token
        onConflict == Override(Override(Override(set, kept), current), UpdateDefaults)
    IN  /\ Create("users", Upsert(db, "users", CreateBuilder("users", new, NoEdge),
                                  made["users"] + 1, {"email"},
                                  OnlyIn(onConflict, UserUpsertSetters)))
        /\ UNCHANGED saving

\* UPDATE users with a new jti, or with none.
Session(rows, jti) ==
    /\ Change(Update(db, "users", rows,
                     IF jti = Null THEN UpdateBuilder("users", None, {"current_refresh_jti"})
                     ELSE UpdateBuilder("users", [current_refresh_jti |-> jti], {})))
    /\ UNCHANGED saving

SetRefreshJTI(e, jti) == Session(UserRow(db, e), jti)

RotateRefreshJTI(e, old, new) ==
    Session({u \in UserRow(db, e) : u.current_refresh_jti = old}, new)

ClearRefreshJTIIfMatches(e, expected) ==
    Session({u \in UserRow(db, e) : u.current_refresh_jti = expected}, Null)

-----------------------------------------------------------------------------
(* Instances and apps.                                                     *)

SaveInstance(e, s, v) ==
    LET set == Override(Versioned({"name", "status", "image_id", "flavor_id", "key_name", "note",
                                   "provider_created_at"}, v), Pick("openstack_id", s))
    IN  /\ UserRow(db, e) # {}
        /\ Create("instances",
                  Insert(db, "instances",
                         CreateBuilder("instances", set, [owner |-> OwnerId(e)]),
                         made["instances"] + 1))
        /\ UNCHANGED saving

UpdateInstanceMetadata(e, s, v, rename) ==
    LET set == Versioned({"key_name", "note"} \cup IF rename THEN {"name"} ELSE {}, v) IN
    /\ UserRow(db, e) # {}
    /\ Change(Update(db, "instances", Owned(db, "instances", OwnerId(e), [openstack_id |-> s]),
                     UpdateBuilder("instances", set, {})))
    /\ UNCHANGED saving

DeleteByOpenstackID(e, s) ==
    /\ UserRow(db, e) # {}
    /\ Change(Delete(db, "instances", Owned(db, "instances", OwnerId(e), [openstack_id |-> s])))
    /\ UNCHANGED saving

\* SaveForInstance: the lookup of the instance, ...
SaveForInstance(c, e, s, h) ==
    LET found == Owned(db, "instances", OwnerId(e), [openstack_id |-> s]) IN
    /\ saving[c] = Idle /\ UserRow(db, e) # {}
    /\ saving' = [saving EXCEPT ![c] =
          IF found = {} THEN [at |-> "saved", err |-> "ErrInstanceNotFound"]
          ELSE [at |-> "insert", host |-> h, instance |-> (CHOOSE r \in found : TRUE).id]]
    /\ UNCHANGED <<db, made, view>>

\* ... and the insert; every constraint it breaks is reported as an app that exists.
InsertApp(c) ==
    LET s == saving[c]
        o == Insert(db, "apps", CreateBuilder("apps", [host |-> s.host],
                                              [instance |-> s.instance]), made["apps"] + 1)
    IN  /\ s.at = "insert"
        /\ Create("apps", o)
        /\ saving' = [saving EXCEPT ![c] =
              [at |-> "saved",
               err |-> IF o.err = "constraint" THEN "ErrAppAlreadyExists" ELSE o.err]]

SaveReturns(c) ==
    /\ saving[c].at = "saved"
    /\ saving' = [saving EXCEPT ![c] = Idle]
    /\ UNCHANGED <<db, made, view>>

DeleteByInstance(e, s) ==
    /\ UserRow(db, e) # {}
    /\ Change(Delete(db, "apps",
                     {a \in db["apps"] :
                        \E r \in Owned(db, "instances", OwnerId(e), [openstack_id |-> s]) :
                            a.instance_app = r.id}))
    /\ UNCHANGED saving

-----------------------------------------------------------------------------
(* Key pairs, containers, functions.                                       *)

SaveKeyPair(e, k, v) ==
    LET set == Override(Versioned({"fingerprint", "public_key"}, v),
                        [openstack_name |-> k, source_type |-> "user_uploaded"])
    IN  /\ UserRow(db, e) # {}
        /\ Create("key_pairs",
                  Insert(db, "key_pairs",
                         CreateBuilder("key_pairs", set, [owner |-> OwnerId(e)]),
                         made["key_pairs"] + 1))
        /\ UNCHANGED saving

DeleteByName(e, k) ==
    /\ UserRow(db, e) # {}
    /\ Change(Delete(db, "key_pairs",
                     Owned(db, "key_pairs", OwnerId(e), [openstack_name |-> k])))
    /\ UNCHANGED saving

SaveContainer(e, n, c) ==
    /\ UserRow(db, e) # {}
    /\ Create("containers",
              Insert(db, "containers",
                     CreateBuilder("containers", [openstack_name |-> c, name |-> n],
                                   [owner |-> OwnerId(e)]), made["containers"] + 1))
    /\ UNCHANGED saving

DeleteContainer(e, n) ==
    /\ UserRow(db, e) # {}
    /\ Change(Delete(db, "containers", Owned(db, "containers", OwnerId(e), [name |-> n])))
    /\ UNCHANGED saving

Deployment(v) == Versioned({"wasm", "language", "data_mode", "source"}, v)

CreateDeployment(e, n, v) ==
    /\ UserRow(db, e) # {}
    /\ Create("functions",
              Insert(db, "functions",
                     CreateBuilder("functions", Override(Deployment(v), [name |-> n]),
                                   [owner |-> OwnerId(e)]), made["functions"] + 1))
    /\ UNCHANGED saving

\* UpdateOneID(f).Where(owned(e)).
UpdateFunction(e, f, set, cleared) ==
    /\ UserRow(db, e) # {}
    /\ Change(UpdateOne(db, "functions", Owned(db, "functions", OwnerId(e), [id |-> f]),
                        UpdateBuilder("functions", set, cleared)))
    /\ UNCHANGED saving

UpdateDeployment(e, f, v) == UpdateFunction(e, f, Deployment(v), {})

KeyFields == {"key_hash", "key_created_at", "key_expires_at"}

SetKey(e, f, v) == UpdateFunction(e, f, Versioned(KeyFields, v), {})

DeleteKey(e, f) == UpdateFunction(e, f, None, KeyFields)

DeleteFunction(e, f) ==
    /\ UserRow(db, e) # {}
    /\ Change(Delete(db, "functions", Owned(db, "functions", OwnerId(e), [id |-> f])))
    /\ UNCHANGED saving

-----------------------------------------------------------------------------
(* Reads.                                                                  *)

Ask(q) ==
    /\ view = Idle
    /\ view' = [at |-> "read", query |-> q,
                got |-> [i \in DOMAIN q.selects |-> Blank(q.selects[i])],
                overlap |-> 0, ever |-> Truth(db, q), always |-> AtOnce(db, q)]
    /\ UNCHANGED <<db, made, saving>>

Statement(i) ==
    /\ view.at = "read" /\ i \in Selects(view) /\ MayRun(view, i)
    /\ view' = [view EXCEPT !.got[i] =
          IF @.done = 0 THEN sqlAll(db, view.query.selects[i])
          ELSE LoadEdge(db, view.query.selects[i], @)]
    /\ UNCHANGED <<db, made, saving>>

\* The database or the request's context fails a statement: the answer is an error, and
\* what the other selects find is dropped.
StatementFails(i) ==
    /\ view.at = "read" /\ i \in Selects(view) /\ MayRun(view, i)
    /\ view' = [at |-> "failed"]
    /\ UNCHANGED <<db, made, saving>>

Answer ==
    /\ view.at = "failed" \/ Answered(view)
    /\ view' = Idle
    /\ UNCHANGED <<db, made, saving>>

-----------------------------------------------------------------------------
Ids == 1..MaxRows

AccountWrites ==
    \E e \in Emails :
        \/ \E g \in GoogleIds, v \in Versions, jti \in Jtis \cup {Null} :
              \E refresh \in {v, Empty} : UpsertUser(e, g, v, refresh, jti)
        \/ \E jti \in Jtis \cup {Null} : SetRefreshJTI(e, jti)
        \/ \E old, new \in Jtis : RotateRefreshJTI(e, old, new)
        \/ \E jti \in Jtis : ClearRefreshJTIIfMatches(e, jti)

ComputeWrites ==
    \/ \E e \in Emails, s \in Servers :
          \/ \E v \in Versions : SaveInstance(e, s, v)
          \/ \E v \in Versions, rename \in BOOLEAN : UpdateInstanceMetadata(e, s, v, rename)
          \/ DeleteByOpenstackID(e, s)
          \/ DeleteByInstance(e, s)
          \/ \E c \in Callers, h \in Hosts : SaveForInstance(c, e, s, h)
    \/ \E c \in Callers : InsertApp(c) \/ SaveReturns(c)

KeyWrites ==
    \E e \in Emails, k \in KeyNames : DeleteByName(e, k) \/ \E v \in Versions : SaveKeyPair(e, k, v)

ContainerWrites ==
    \E e \in Emails, n \in Names :
        DeleteContainer(e, n) \/ \E c \in Swift : SaveContainer(e, n, c)

FunctionWrites ==
    \E e \in Emails :
        \/ \E n \in Names, v \in Versions : CreateDeployment(e, n, v)
        \/ \E f \in Ids : \/ \E v \in Versions : UpdateDeployment(e, f, v) \/ SetKey(e, f, v)
                          \/ DeleteKey(e, f)
                          \/ DeleteFunction(e, f)

Accounts == {e \in Emails : UserRow(db, e) # {}}
\* The pages that can have rows.
Pages == {p \in [page : 1..MaxRows, limit : PageSizes] : (p.page - 1) * p.limit < MaxRows}

AccountReads == {FindByEmail(e) : e \in Emails}

InstanceReads ==
    {ListInstancesByEmail(e) : e \in Emails}
    \cup (UNION {{FindInstanceName(e, s), FindConsoleTarget(e, s)} :
                    e \in Accounts, s \in Servers})
    \cup {AdminInstances(p) : p \in Pages} \cup {AdminInstance(s) : s \in Servers}

AppReads ==
    {ListInstances(e) : e \in Accounts}
    \cup {FindByOpenstackID(e, s) : e \in Accounts, s \in Servers}
    \cup {FindByHost(h) : h \in Hosts}

KeyReads ==
    {ListKeyPairs(e) : e \in Accounts} \cup {FindKeyPair(e, k) : e \in Accounts, k \in KeyNames}

ContainerReads ==
    {ListContainers(e) : e \in Accounts} \cup {FindContainer(e, n) : e \in Accounts, n \in Names}
    \cup {AdminContainers(p) : p \in Pages} \cup {AdminContainer(i) : i \in Ids}

FunctionReads ==
    {ListFunctions(e) : e \in Accounts} \cup {GetFunction(e, f) : e \in Accounts, f \in Ids}
    \cup {GetPublicFunction(f) : f \in Ids}

SummaryReads ==
    {SummaryCounts} \cup {AdminUsers(p) : p \in Pages} \cup {UserResources(e) : e \in Accounts}

Reading ==
    \/ \E i \in 1..4 : Statement(i) \/ StatementFails(i)
    \/ Answer

Next ==
    \/ AccountWrites \/ ComputeWrites \/ KeyWrites \/ ContainerWrites \/ FunctionWrites
    \/ \E q \in AccountReads \cup InstanceReads \cup AppReads \cup KeyReads
              \cup ContainerReads \cup FunctionReads \cup SummaryReads : Ask(q)
    \/ Reading

Spec == Init /\ [][Next]_vars

-----------------------------------------------------------------------------
(* Properties.                                                             *)

\* Types: rows have exactly the columns of their table and ids that were given out.
TypeOK ==
    /\ DOMAIN db = Tables
    /\ \A t \in Tables : \A r \in db[t] : DOMAIN r = RowColumns(t) /\ r.id \in 1..made[t]
    /\ \A c \in Callers : saving[c].at \in {"idle", "insert", "saved"}
    /\ view.at \in {"idle", "read", "failed"}

\* Reads are faithful although no transaction holds their statements together (admin,
\* compute, access, storage, functions and gateway repositories): an answer without error
\* tells only rows, links, totals and page counts that were true at some moment of the
\* read, of the accounts and entities asked for only, and leaves out none that was there
\* throughout; "not found" is never the answer to what was there throughout.
ViewsFaithful ==
    Answered(view) =>
        /\ Error(view) = "" => /\ Reported(view) \subseteq view.ever
                               /\ view.always \subseteq Reported(view)
        /\ Error(view) \in {"not found", "not singular"} => view.always = {}

ViewsInv == TypeOK /\ ViewsFaithful

\* The rows of the entities as Records knows them.  Version(x) is the request that a
\* stored value came from; a record whose values came from several has none (Empty).
Version(x) == IF x \in {Null, Empty} THEN x ELSE x[2]

Together(r, fields) ==
    LET versions == {Version(r[f]) : f \in fields}
    IN  IF Cardinality(versions) = 1 THEN CHOOSE v \in versions : TRUE ELSE Empty

AccountOf(r) ==
    [google_id |-> r.google_id,
     profile |-> Together(r, {"name", "google_access_token", "google_token_expiry"}),
     refresh |-> Version(r.google_refresh_token), jti |-> r.current_refresh_jti]

InstanceRecord(d, r) ==
    [owner |-> EmailOf(d, "instances", r), name |-> Version(r.name),
     note |-> Together(r, {"key_name", "note"}),
     rest |-> Together(r, {"status", "image_id", "flavor_id", "provider_created_at"})]

KeyRecord(d, r) ==
    [owner |-> EmailOf(d, "key_pairs", r), key |-> Together(r, {"fingerprint", "public_key"})]

FunctionRecord(r) ==
    [deployment |-> Together(r, {"wasm", "language", "data_mode", "source"}),
     key |-> Together(r, KeyFields)]

\* F of the node of the only row of table t in database d that matches, or None.
Of(d, t, where, F(_)) ==
    LET rows == {r \in d[t] : Matches(r, where)}
    IN  IF rows = {} THEN None ELSE F(Node(t, CHOOSE r \in rows : TRUE))

AccountIn(d, e) == Of(d, "users", [email |-> e], AccountOf)
InstanceIn(d, s) == Of(d, "instances", [openstack_id |-> s], LAMBDA r : InstanceRecord(d, r))
AppIn(d, s) ==
    Of(d, "instances", [openstack_id |-> s],
       LAMBDA r : Of(d, "apps", [instance_app |-> r.id], LAMBDA a : [host |-> a.host]))
KeyIn(d, k) == Of(d, "key_pairs", [openstack_name |-> k], LAMBDA r : KeyRecord(d, r))

\* What user e has under name n.
Named(d, t, e, n) ==
    Override(Pick("name", n),
             Pick(Loads[t]["owner"].column, (CHOOSE u \in UserRow(d, e) : TRUE).id))
ContainerIn(d, e, n) ==
    IF UserRow(d, e) = {} THEN None
    ELSE Of(d, "containers", Named(d, "containers", e, n),
            LAMBDA r : [swift |-> r.openstack_name])
FunctionIn(d, e, n) ==
    IF UserRow(d, e) = {} THEN None
    ELSE Of(d, "functions", Named(d, "functions", e, n), FunctionRecord)

account == [e \in Emails |-> AccountIn(db, e)]
instance == [s \in Servers |-> InstanceIn(db, s)]
app == [s \in Servers |-> AppIn(db, s)]
keypair == [k \in KeyNames |-> KeyIn(db, k)]
container == [e \in Emails |-> [n \in Names |-> ContainerIn(db, e, n)]]
function == [e \in Emails |-> [n \in Names |-> FunctionIn(db, e, n)]]

Abstract == INSTANCE Records

\* Rows keep their identity: no write of another request gives an existing row another
\* id, creation time, owner or instance, and an id is never given out again.
RowsKeepIdentity ==
    [][\A t \in Tables : \A n \in db'[t] \ db[t] :
          \/ n.id > made[t]
          \/ \E o \in db[t] : \A c \in {"id", "created_at"} \cup DOMAIN ForeignKeys[t] :
                o[c] = n[c]]_vars
=============================================================================
