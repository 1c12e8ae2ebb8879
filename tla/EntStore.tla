------------------------------- MODULE EntStore -------------------------------
(***************************************************************************)
(* The statements that ent's builders run, over the facts of EntSchema.    *)
(* db is the database: for each table a set of rows.  A statement is       *)
(* atomic; the program never opens a transaction around two of them.  The  *)
(* part below the generated code (sqlgraph, PostgreSQL) is external.       *)
(***************************************************************************)
EXTENDS EntSchema, FiniteSets, TLC

RowColumns(t) == Columns[t] \cup DOMAIN ForeignKeys[t]

EmptyDatabase == [t \in Tables |-> {}]

\* g where it is defined, f elsewhere; and f on the members of S only.
Override(f, g) == [x \in DOMAIN f \cup DOMAIN g |-> IF x \in DOMAIN g THEN g[x] ELSE f[x]]
OnlyIn(f, S) == [x \in DOMAIN f \cap S |-> f[x]]

\* The outcome of a statement: the database after it, the number of rows it touched and
\* the error class ent reports ("" for none).
Done(db, n) == [db |-> db, n |-> n, err |-> ""]
Failed(db, err) == [db |-> db, n |-> 0, err |-> err]

-----------------------------------------------------------------------------
(* Builders collect a mutation: fields set, fields cleared, edges set.     *)

\* What the setters of a builder leave in the mutation.
Mutation(t, setters, set, cleared, edge) ==
    [set |-> OnlyIn(set, setters \cap Mutable[t]),
     cleared |-> cleared,
     edge |-> OnlyIn(edge, setters \cap DOMAIN Edges[t])]

NoEdge == [e \in {} |-> 0]

CreateBuilder(t, set, edge) == Mutation(t, CreateSetters[t], set, {}, edge)

UpdateBuilder(t, set, cleared) ==
    Mutation(t, UpdateSetters[t], set, cleared \cap Clearers[t], NoEdge)

\* Validators: NotEmpty for a function's name and module, the enum of a key's source.
Valid(t, set) ==
    /\ t = "functions" => \A f \in FunctionNotEmpty \cap DOMAIN set : set[f] # Empty
    /\ t = "key_pairs" => set["source_type"] \in SourceTypes

\* Create: defaults for what was not set, then check, then the row the spec describes.
Filled(t, m, n) == Override(CreateDefaults(n)[t], m.set)

Checked(t, m, n) ==
    LET filled == Filled(t, m, n) IN
    /\ Required[t] \subseteq DOMAIN filled \cup DOMAIN m.edge
    /\ Valid(t, filled)

EdgeColumns(t, m) == {Edges[t][e] : e \in DOMAIN m.edge}

NewRow(t, m, n) ==
    LET filled == Filled(t, m, n) IN
    [c \in RowColumns(t) |->
        IF c \in Inserted[t] \cap DOMAIN filled THEN filled[c]
        ELSE IF c \in Inserted[t] \cap EdgeColumns(t, m)
             THEN m.edge[CHOOSE e \in DOMAIN m.edge : Edges[t][e] = c]
        ELSE Null]

-----------------------------------------------------------------------------
(* Statements.                                                             *)

\* Row r next to rows others breaks a unique index, a reference or a NOT NULL.
Breaks(db, t, r, others) ==
    \/ \E o \in others : \E u \in Unique[t] : \A c \in u : o[c] = r[c] /\ r[c] # Null
    \/ \E k \in DOMAIN ForeignKeys[t] :
          r[k] # Null /\ ~\E o \in db[ForeignKeys[t][k]] : o.id = r[k]
    \/ \E c \in RowColumns(t) \ Nullable : r[c] = Null

Insert(db, t, m, n) ==
    LET r == NewRow(t, m, n) IN
    IF ~Checked(t, m, n) THEN Failed(db, "validation")
    ELSE IF Breaks(db, t, r, db[t]) THEN Failed(db, "constraint")
    ELSE Done([db EXCEPT ![t] = @ \cup {r}], 1)

\* INSERT ... ON CONFLICT (target) DO UPDATE SET: only a row with the same target is
\* updated, a conflict on any other unique index is an error.
Upsert(db, t, m, n, target, set) ==
    LET r == NewRow(t, m, n)
        same == {o \in db[t] : \A c \in target : o[c] = r[c]}
        new == {Override(o, set) : o \in same}
    IN  IF ~Checked(t, m, n) THEN Failed(db, "validation")
        ELSE IF same = {} THEN Insert(db, t, m, n)
        ELSE IF \E o \in new : Breaks(db, t, o, db[t] \ same) THEN Failed(db, "constraint")
        ELSE Done([db EXCEPT ![t] = (@ \ same) \cup new], 1)

UpdateDefaults == [updated_at |-> "update"]

\* UPDATE of the rows that match: what is set, and NULL for what is cleared.
Update(db, t, rows, m) ==
    LET set == OnlyIn(Override(UpdateDefaults, m.set), Updated[t])
        New(o) == [c \in RowColumns(t) |->
                      IF c \in m.cleared THEN Null
                      ELSE IF c \in DOMAIN set THEN set[c] ELSE o[c]]
        new == {New(o) : o \in rows}
    IN  IF ~Valid(t, m.set) THEN Failed(db, "validation")
        ELSE IF \E o \in new : Breaks(db, t, o, (db[t] \ rows) \cup (new \ {o}))
        THEN Failed(db, "constraint")
        ELSE Done([db EXCEPT ![t] = (@ \ rows) \cup new], Cardinality(rows))

\* UpdateOneID(id).Where(...): no matching row is a NotFoundError.
UpdateOne(db, t, rows, m) ==
    IF rows = {} /\ Valid(t, m.set) THEN Failed(db, "not found") ELSE Update(db, t, rows, m)

\* The rows of other tables that refer to one of rows through column k.
Referring(db, t, rows, u, k) ==
    IF ForeignKeys[u][k] = t THEN {o \in db[u] : \E r \in rows : o[k] = r.id} ELSE {}

\* DELETE of the rows that match.
Delete(db, t, rows) ==
    LET Kept(u) == IF u = t THEN db[u] \ rows ELSE db[u]
        Lost(u, o) ==
            [c \in DOMAIN o |->
                IF c \in OnDeleteSetNull \cap DOMAIN ForeignKeys[u]
                   /\ o \in Referring(db, t, rows, u, c)
                THEN Null ELSE o[c]]
    IN  IF \E u \in Tables : \E k \in DOMAIN ForeignKeys[u] \ OnDeleteSetNull :
              Referring(db, t, rows, u, k) # {}
        THEN Failed(db, "constraint")
        ELSE Done([u \in Tables |-> {Lost(u, o) : o \in Kept(u)}], Cardinality(rows))

-----------------------------------------------------------------------------
(* Queries.                                                                *)

\* The entity a row is read into: what no case of assignValues takes stays zero.
Node(t, r) == [c \in RowColumns(t) |-> IF c \in Assigned[t] THEN r[c] ELSE Empty]

Nodes(t, rows) == {Node(t, r) : r \in rows}

\* Only reads at most two rows and wants exactly one.
OnlyErr(rows) ==
    IF rows = {} THEN "not found" ELSE IF Cardinality(rows) = 1 THEN "" ELSE "not singular"

\* The neighbours that loading edge e of nodes reads, by one statement of its own.
Neighbours(db, t, nodes, e) ==
    LET l == Loads[t][e] IN
    Nodes(l.table,
          {r \in db[l.table] :
              \E n \in nodes : IF l.inverse THEN r.id = n[l.column] ELSE r[l.column] = n.id})

\* The neighbours that are attached to node n.
Attached(t, n, e, neighbours) ==
    LET l == Loads[t][e] IN
    {r \in neighbours : IF l.inverse THEN r.id = n[l.column] ELSE r[l.column] = n.id}

\* The page [offset, offset + limit) of the rows, latest first.
Page(rows, offset, limit) ==
    {r \in rows :
        LET before == Cardinality({o \in rows : o.created_at > r.created_at})
        IN  before >= offset /\ before < offset + limit}
=============================================================================
