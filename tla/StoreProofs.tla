----------------------------- MODULE StoreProofs -----------------------------
(***************************************************************************)
(* The database of the repositories: what every statement keeps of it,     *)
(* what every read tells of it although other requests write in between,   *)
(* and that its writes are the steps of Records.                           *)
(***************************************************************************)
EXTENDS MCStore, FiniteSetTheorems, TLAPS

\* The columns that say which row a row is, and whose: no request updates them.
FixedColumns(t) == {"id", "created_at"} \cup DOMAIN ForeignKeys[t] \cup KeyOf[t]

\* Every table has the columns that identify a row; the foreign keys are columns of
\* their own.
LEMMA SchemaColumns ==
    ASSUME NEW t \in Tables
    PROVE  /\ DOMAIN ForeignKeys[t] \subseteq
                 {"instance_app", "user_containers", "user_functions", "user_instances",
                  "key_pair_instances", "user_keypairs"}
           /\ DOMAIN ForeignKeys[t] \cap Columns[t] = {}
           /\ {"id", "created_at"} \subseteq Columns[t] \cap Inserted[t]
           /\ {"id"} \in Unique[t]
           /\ \A k \in DOMAIN ForeignKeys[t] : ForeignKeys[t][k] \in Tables
  <1>1. CASE t = "users"
    BY <1>1 DEF ForeignKeys, Columns, Inserted, Unique, NoKeys, UserColumns, UserUnique,
           UserInsert, Tables
  <1>2. CASE t = "instances"
    BY <1>2 DEF ForeignKeys, Columns, Inserted, Unique, InstanceForeignKeys, InstanceColumns,
           InstanceUnique, InstanceInsert, Tables
  <1>3. CASE t = "apps"
    BY <1>3 DEF ForeignKeys, Columns, Inserted, Unique, AppForeignKeys, AppColumns, AppUnique,
           AppInsert, Tables
  <1>4. CASE t = "key_pairs"
    BY <1>4 DEF ForeignKeys, Columns, Inserted, Unique, KeyPairForeignKeys, KeyPairColumns,
           KeyPairUnique, KeyPairInsert, Tables
  <1>5. CASE t = "containers"
    BY <1>5 DEF ForeignKeys, Columns, Inserted, Unique, ContainerForeignKeys,
           ContainerColumns, ContainerUnique, ContainerInsert, Tables
  <1>6. CASE t = "functions"
    BY <1>6 DEF ForeignKeys, Columns, Inserted, Unique, FunctionForeignKeys, FunctionColumns,
           FunctionUnique, FunctionInsert, Tables
  <1>7. QED
    BY <1>1, <1>2, <1>3, <1>4, <1>5, <1>6 DEF Tables

\* What an entity is known by are columns of its table that no update sets to NULL.
LEMMA KeyColumns ==
    ASSUME NEW t \in Tables
    PROVE  /\ KeyOf[t] \subseteq Columns[t] /\ "updated_at" \notin KeyOf[t]
           /\ t \in {"users", "instances", "functions"} => KeyOf[t] \cap Clearers[t] = {}
  BY DEF Tables, KeyOf, Columns, UserColumns, InstanceColumns, AppColumns, KeyPairColumns,
         ContainerColumns, FunctionColumns, Clearers, UserClearers, FunctionClearers

\* What a builder collects and a save fills in.
LEMMA OverrideFacts ==
    ASSUME NEW f, NEW g
    PROVE  /\ DOMAIN Override(f, g) = DOMAIN f \cup DOMAIN g
           /\ \A x \in DOMAIN g : Override(f, g)[x] = g[x]
           /\ \A x \in DOMAIN f \ DOMAIN g : Override(f, g)[x] = f[x]
  BY DEF Override

\* A create starts from defaults that give the row its number as id and creation time.
LEMMA DefaultIds ==
    ASSUME NEW t \in Tables, NEW n
    PROVE  /\ {"id", "created_at"} \subseteq DOMAIN CreateDefaults(n)[t]
           /\ DOMAIN CreateDefaults(n)[t] \cap DOMAIN ForeignKeys[t] = {}
           /\ CreateDefaults(n)[t]["id"] = n /\ CreateDefaults(n)[t]["created_at"] = n
  <1>1. CASE t = "users"
    BY <1>1 DEF CreateDefaults, UserDefaults, ForeignKeys, NoKeys
  <1>2. CASE t = "instances"
    BY <1>2 DEF CreateDefaults, InstanceDefaults, ForeignKeys, InstanceForeignKeys
  <1>3. CASE t = "apps"
    BY <1>3 DEF CreateDefaults, AppDefaults, ForeignKeys, AppForeignKeys
  <1>4. CASE t = "key_pairs"
    BY <1>4 DEF CreateDefaults, KeyPairDefaults, ForeignKeys, KeyPairForeignKeys
  <1>5. CASE t = "containers"
    BY <1>5 DEF CreateDefaults, ContainerDefaults, ForeignKeys, ContainerForeignKeys
  <1>6. CASE t = "functions"
    BY <1>6 DEF CreateDefaults, FunctionDefaults, ForeignKeys, FunctionForeignKeys
  <1>7. QED
    BY <1>1, <1>2, <1>3, <1>4, <1>5, <1>6 DEF Tables

\* A mutation sets no foreign key as a field: keys are set through edges only.
LEMMA MutableColumns ==
    ASSUME NEW t \in Tables
    PROVE  DOMAIN ForeignKeys[t] \cap Mutable[t] = {}
  <1>1. CASE t = "users"
    BY <1>1 DEF ForeignKeys, NoKeys
  <1>2. CASE t = "instances"
    BY <1>2 DEF ForeignKeys, InstanceForeignKeys, Mutable, InstanceServer, InstanceChoices,
           InstanceTimes
  <1>3. CASE t = "apps"
    BY <1>3 DEF ForeignKeys, AppForeignKeys, Mutable, AppFields
  <1>4. CASE t = "key_pairs"
    BY <1>4 DEF ForeignKeys, KeyPairForeignKeys, Mutable, KeyPairFields, KeyPairTimes
  <1>5. CASE t = "containers"
    BY <1>5 DEF ForeignKeys, ContainerForeignKeys, Mutable, ContainerFields
  <1>6. CASE t = "functions"
    BY <1>6 DEF ForeignKeys, FunctionForeignKeys, Mutable, FunctionFields, FunctionNillable,
           FunctionTimes
  <1>7. QED
    BY <1>1, <1>2, <1>3, <1>4, <1>5, <1>6 DEF Tables

\* What an update builder sets and clears, and what the update writes.
LEMMA UpdateColumns ==
    ASSUME NEW t \in {"users", "instances", "functions"}
    PROVE  /\ {"id", "created_at"} \cap (Clearers[t] \cup UpdateSetters[t]) = {}
           /\ {"id", "created_at"} \cap Updated[t] = {}
           /\ Clearers[t] \cap DOMAIN ForeignKeys[t] = {}
  <1>1. CASE t = "users"
    BY <1>1 DEF ForeignKeys, NoKeys, Clearers, UpdateSetters, Updated, UserClearers,
           UserUpdateSetters, UserSetters, UserUpdate
  <1>2. CASE t = "instances"
    BY <1>2 DEF ForeignKeys, InstanceForeignKeys, Clearers, UpdateSetters, Updated,
           InstanceUpdateSetters, InstanceSetters, InstanceUpdate
  <1>3. CASE t = "functions"
    BY <1>3 DEF ForeignKeys, FunctionForeignKeys, Clearers, UpdateSetters, Updated,
           FunctionClearers, FunctionUpdateSetters, FunctionSetters, FunctionUpdate
  <1>4. QED
    BY <1>1, <1>2, <1>3

-----------------------------------------------------------------------------
(* An intact database.                                                     *)

\* A row of table t, one of the first n.
RowOf(t, n, r) ==
    /\ r = [c \in RowColumns(t) |-> r[c]]
    /\ r["id"] \in 1 .. n
    /\ t = "instances" => r["key_pair_instances"] = Null
    /\ t = "containers" => r["name"] \notin Nat

\* Database d, of whose table t m[t] rows were ever made: it has the tables of the schema,
\* finitely many rows with the columns of their table, ids that were given out, no
\* instance with a key pair (nobody sets that edge), no container with a number for a name,
\* and no row next to the others breaks a unique index, a reference or a NOT NULL.
Intact(d, m) ==
    /\ d = [t \in Tables |-> d[t]]
    /\ m \in [Tables -> Nat]
    /\ \A t \in Tables :
          /\ IsFiniteSet(d[t])
          /\ \A r \in d[t] : RowOf(t, m[t], r) /\ ~Breaks(d, t, r, d[t] \ {r})

\* Row n is row o of the same table.
SameRow(t, n, o) == \A c \in FixedColumns(t) : o[c] = n[c]

\* The rows of table t in database d are still there in e.
Lasts(d, t, e) == \A o \in d[t] : \E n \in e[t] : SameRow(t, n, o)

\* What a statement may do to database d to make it e: rows stay who they are and new rows
\* have new ids, accounts stay, and rows come or go, not both.
KeepsRows(d, m, e) ==
    /\ \A t \in Tables : \A n \in e[t] :
          n["id"] > m[t] \/ \E o \in d[t] : SameRow(t, n, o)
    /\ Lasts(d, "users", e)
    /\ \/ \A t \in Tables : Lasts(d, t, e)
       \/ \A t \in Tables : \A n \in e[t] : \E o \in d[t] : SameRow(t, n, o)

\* A row that did not change is the same, and a database that did not change.
LEMMA Unmoved ==
    /\ \A t, o : SameRow(t, o, o)
    /\ \A d, m : KeepsRows(d, m, d)
  <1>1. \A t, o : SameRow(t, o, o)
    BY DEF SameRow
  <1>2. QED
    BY <1>1 DEF KeepsRows, Lasts

\* Two rows of an intact table have different ids.
LEMMA IdsDiffer ==
    ASSUME NEW d, NEW m, Intact(d, m), NEW t \in Tables, NEW r \in d[t], NEW o \in d[t],
           r["id"] = o["id"]
    PROVE  r = o
  <1>1. SUFFICES ASSUME r # o PROVE FALSE
    OBVIOUS
  <1>2. ~Breaks(d, t, r, d[t] \ {r})
    BY DEF Intact
  <1>3. {"id"} \in Unique[t] /\ "id" \in RowColumns(t) /\ "id" \notin Nullable
    BY SchemaColumns DEF RowColumns, Nullable
  <1>4. r["id"] # Null
    BY <1>2, <1>3 DEF Breaks
  <1>5. QED
    BY <1>1, <1>2, <1>3, <1>4 DEF Breaks

\* A table has as many ids as rows.
LEMMA IdCount ==
    ASSUME NEW S, IsFiniteSet(S), \A r, o \in S : r["id"] = o["id"] => r = o
    PROVE  Cardinality({r["id"] : r \in S}) = Cardinality(S)
  <1> DEFINE f == [r \in S |-> r["id"]]
  <1>1. f \in Bijection(S, {r["id"] : r \in S})
    BY DEF Bijection, Injection, Surjection, IsInjective
  <1>2. QED
    BY <1>1, FS_Bijection DEF ExistsBijection

-----------------------------------------------------------------------------
(* Inserts and upserts.                                                    *)

\* A mutation of a create: it leaves id and creation time to the defaults, and the edge to
\* a key pair alone.
CreateMutation(t, mu) ==
    /\ {"id", "created_at"} \cap DOMAIN mu.set = {}
    /\ DOMAIN mu.set \cap DOMAIN ForeignKeys[t] = {}
    /\ DOMAIN mu.edge \subseteq DOMAIN Edges[t] \ {"keypair"}
    /\ t = "containers" => "name" \in DOMAIN mu.set /\ mu.set["name"] \notin Nat

\* The builders of creates make such mutations.
LEMMA CreateBuilderFacts ==
    ASSUME NEW t \in Tables, NEW set, NEW edge, {"id", "created_at"} \cap DOMAIN set = {},
           "keypair" \notin DOMAIN edge,
           t = "containers" => "name" \in DOMAIN set /\ set["name"] \notin Nat
    PROVE  CreateMutation(t, CreateBuilder(t, set, edge))
  <1> DEFINE mu == CreateBuilder(t, set, edge)
  <1>1. /\ DOMAIN mu.set \subseteq DOMAIN set \cap Mutable[t]
        /\ DOMAIN mu.edge \subseteq DOMAIN edge \cap DOMAIN Edges[t]
    BY DEF CreateBuilder, Mutation, OnlyIn
  <1>2. ASSUME t = "containers" PROVE "name" \in DOMAIN mu.set /\ mu.set["name"] = set["name"]
    <2>1. "name" \in CreateSetters[t] \cap Mutable[t]
      BY <1>2 DEF CreateSetters, ContainerSetters, Mutable, ContainerFields
    <2>2. QED
      BY <1>2, <2>1 DEF CreateBuilder, Mutation, OnlyIn
  <1>3. QED
    BY <1>1, <1>2, MutableColumns DEF CreateMutation

\* The row of a create: its columns are those of the table, its id the number it is given.
LEMMA NewRowFacts ==
    ASSUME NEW t \in Tables, NEW mu, CreateMutation(t, mu), NEW n \in Nat \ {0}
    PROVE  RowOf(t, n, NewRow(t, mu, n)) /\ NewRow(t, mu, n)["id"] = n
  <1> DEFINE filled == Filled(t, mu, n)
             r == NewRow(t, mu, n)
  <1>1. /\ "id" \in DOMAIN filled /\ filled["id"] = n
        /\ DOMAIN filled \cap DOMAIN ForeignKeys[t] = {}
    <2>1. /\ DOMAIN filled = DOMAIN CreateDefaults(n)[t] \cup DOMAIN mu.set
          /\ \A c \in DOMAIN CreateDefaults(n)[t] \ DOMAIN mu.set :
                filled[c] = CreateDefaults(n)[t][c]
      BY OverrideFacts DEF Filled
    <2>2. "id" \in DOMAIN CreateDefaults(n)[t] /\ CreateDefaults(n)[t]["id"] = n
      BY DefaultIds
    <2>3. "id" \notin DOMAIN mu.set
      BY DEF CreateMutation
    <2>4. DOMAIN CreateDefaults(n)[t] \cap DOMAIN ForeignKeys[t] = {}
      BY DefaultIds
    <2>5. QED
      BY <2>1, <2>2, <2>3, <2>4 DEF CreateMutation
  <1>2. "id" \in RowColumns(t) /\ "id" \in Inserted[t]
    BY SchemaColumns DEF RowColumns
  <1>3. r = [c \in RowColumns(t) |-> r[c]] /\ r["id"] = n
    BY <1>1, <1>2 DEF NewRow
  <1>4. ASSUME t = "instances" PROVE r["key_pair_instances"] = Null
    <2>1. "key_pair_instances" \in DOMAIN ForeignKeys[t]
      BY <1>4 DEF ForeignKeys, InstanceForeignKeys
    <2>2. EdgeColumns(t, mu) \subseteq {"user_instances"}
      BY <1>4 DEF CreateMutation, EdgeColumns, Edges, InstanceEdges
    <2>3. QED
      BY <1>1, <2>1, <2>2 DEF NewRow, RowColumns
  <1>5. ASSUME t = "containers" PROVE r["name"] \notin Nat
    <2>1. "name" \in DOMAIN mu.set /\ mu.set["name"] \notin Nat
      BY <1>5 DEF CreateMutation
    <2>2. "name" \in DOMAIN filled /\ filled["name"] = mu.set["name"]
      <3>1. filled = Override(CreateDefaults(n)[t], mu.set)
        BY DEF Filled
      <3> HIDE DEF filled
      <3>2. PICK f : f = CreateDefaults(n)[t]
        OBVIOUS
      <3>3. /\ DOMAIN Override(f, mu.set) = DOMAIN f \cup DOMAIN mu.set
            /\ \A c \in DOMAIN mu.set : Override(f, mu.set)[c] = mu.set[c]
        BY DEF Override
      <3>4. QED
        BY <2>1, <3>1, <3>2, <3>3
    <2>3. "name" \in RowColumns(t) \cap Inserted[t]
      BY <1>5 DEF RowColumns, Columns, ContainerColumns, Inserted, ContainerInsert
    <2>4. r["name"] = filled["name"]
      BY <2>2, <2>3 DEF NewRow
    <2>5. QED
      BY <2>1, <2>2, <2>4
  <1>6. QED
    BY <1>3, <1>4, <1>5 DEF RowOf

\* What a create in table t may make of an intact database: the same or one more row of t.
Creates(d, m, t, e) ==
    \E k \in {m[t], m[t] + 1} :
        /\ k = m[t] + Cardinality(e[t]) - Cardinality(d[t])
        /\ Intact(e, [m EXCEPT ![t] = k])
        /\ KeepsRows(d, m, e)

\* A statement that fails creates nothing.
LEMMA NothingCreated ==
    ASSUME NEW d, NEW m, Intact(d, m), NEW t \in Tables
    PROVE  Creates(d, m, t, d)
  <1>1. m[t] \in Nat /\ Cardinality(d[t]) \in Nat /\ [m EXCEPT ![t] = m[t]] = m
    BY FS_CardinalityType DEF Intact
  <1>2. m[t] = m[t] + Cardinality(d[t]) - Cardinality(d[t])
    BY <1>1
  <1>3. KeepsRows(d, m, d)
    BY Unmoved
  <1>4. Intact(d, [m EXCEPT ![t] = m[t]])
    BY <1>1
  <1>5. QED
    BY <1>2, <1>3, <1>4 DEF Creates

\* One more row that breaks nothing.
LEMMA InsertKeeps ==
    ASSUME NEW d, NEW m, Intact(d, m), NEW t \in Tables, NEW mu, CreateMutation(t, mu)
    PROVE  Creates(d, m, t, Insert(d, t, mu, m[t] + 1).db)
  <1> DEFINE n == m[t] + 1
             r == NewRow(t, mu, n)
             e == [d EXCEPT ![t] = @ \cup {r}]
  <1>1. CASE Insert(d, t, mu, n).db = d
    BY <1>1, NothingCreated
  <1>2. CASE Insert(d, t, mu, n).db = e /\ ~Breaks(d, t, r, d[t])
    <2>1. m[t] \in Nat /\ n \in Nat \ {0}
      BY DEF Intact
    <2>2. RowOf(t, n, r) /\ r["id"] = n
      BY <2>1, NewRowFacts
    <2>3. r \notin d[t]
      <3>1. \A o \in d[t] : o["id"] \in 1 .. m[t]
        BY DEF Intact, RowOf
      <3>2. n \notin 1 .. m[t]
        BY <2>1
      <3>3. QED
        BY <2>2, <3>1, <3>2
    <2>4. /\ e = [u \in Tables |-> e[u]] /\ e[t] = d[t] \cup {r}
          /\ \A u \in Tables : d[u] \subseteq e[u] /\ (u # t => e[u] = d[u])
      BY DEF Intact
    <2>5. IsFiniteSet(e[t]) /\ Cardinality(e[t]) = Cardinality(d[t]) + 1
      BY <2>3, <2>4, FS_AddElement DEF Intact
    <2>6. Cardinality(d[t]) \in Nat
      BY FS_CardinalityType DEF Intact
    <2>7. n = m[t] + Cardinality(e[t]) - Cardinality(d[t])
      BY <2>1, <2>5, <2>6
    <2>8. ~Breaks(e, t, r, e[t] \ {r})
      BY <1>2, <2>3, <2>4, SchemaColumns DEF Breaks
    <2>9. ASSUME NEW u \in Tables, NEW o \in d[u]
          PROVE  ~Breaks(e, u, o, e[u] \ {o})
      <3>1. ~Breaks(d, u, o, d[u] \ {o})
        BY DEF Intact
      <3>2. CASE u # t
        BY <2>4, <3>1, <3>2, SchemaColumns DEF Breaks
      <3>3. CASE u = t
        <4>1. ~\E w \in Unique[t] : \A c \in w : r[c] = o[c] /\ o[c] # Null
          BY <1>2, <3>3 DEF Breaks
        <4>2. QED
          BY <2>4, <3>1, <3>3, <4>1, SchemaColumns DEF Breaks
      <3>4. QED
        BY <3>2, <3>3
    <2>10. Intact(e, [m EXCEPT ![t] = n])
      <3>1. [m EXCEPT ![t] = n] \in [Tables -> Nat]
        BY <2>1 DEF Intact
      <3>2. ASSUME NEW u \in Tables, NEW o \in e[u]
            PROVE  RowOf(u, [m EXCEPT ![t] = n][u], o) /\ ~Breaks(e, u, o, e[u] \ {o})
        <4>1. CASE o \in d[u]
          <5>1. PICK j \in Nat : j = m[u]
            BY DEF Intact
          <5>2. [m EXCEPT ![t] = n][u] \in {j, j + 1}
            BY <2>1, <5>1 DEF Intact
          <5>3. RowOf(u, j, o)
            BY <4>1, <5>1 DEF Intact
          <5>4. RowOf(u, j + 1, o)
            BY <5>3 DEF RowOf
          <5>5. QED
            BY <2>9, <4>1, <5>2, <5>3, <5>4
        <4>2. CASE u = t /\ o = r
          BY <2>2, <2>8, <4>2 DEF Intact
        <4>3. QED
          BY <2>4, <4>1, <4>2
      <3>3. \A u \in Tables : IsFiniteSet(e[u])
        BY <2>4, <2>5 DEF Intact
      <3>4. QED
        BY <2>4, <3>1, <3>2, <3>3 DEF Intact
    <2>11. KeepsRows(d, m, e)
      <3>1. \A u \in Tables : Lasts(d, u, e)
        BY <2>4, Unmoved DEF Lasts
      <3>2. ASSUME NEW u \in Tables, NEW x \in e[u]
            PROVE  x["id"] > m[u] \/ \E o \in d[u] : SameRow(u, x, o)
        BY <2>1, <2>2, <2>4, Unmoved
      <3>3. "users" \in Tables
        BY DEF Tables
      <3>4. QED
        BY <3>1, <3>2, <3>3 DEF KeepsRows
    <2>12. QED
      BY <1>2, <2>1, <2>7, <2>10, <2>11 DEF Creates
  <1>3. QED
    BY <1>1, <1>2 DEF Insert, Failed, Done

\* Database e is d with rows of table t replaced by what f makes of them.
Replaces(d, m, t, rows, f, e) ==
    LET new == {f[o] : o \in rows} IN
    /\ rows \subseteq d[t]
    /\ \A o \in rows : RowOf(t, m[t], f[o]) /\ SameRow(t, f[o], o)
    /\ \A n \in new : ~Breaks(d, t, n, (d[t] \ rows) \cup (new \ {n}))
    /\ e = [d EXCEPT ![t] = (@ \ rows) \cup new]

\* It is intact when each row keeps its identity and its place among the others.
LEMMA ReplaceKeeps ==
    ASSUME NEW d, NEW m, Intact(d, m), NEW t \in Tables, NEW rows, NEW f, NEW e,
           Replaces(d, m, t, rows, f, e)
    PROVE  /\ Intact(e, m) /\ KeepsRows(d, m, e)
           /\ Cardinality(e[t]) = Cardinality(d[t])
  <1> DEFINE new == {f[o] : o \in rows}
  <1> USE DEF Replaces
  <1>1. /\ e = [u \in Tables |-> e[u]] /\ e[t] = (d[t] \ rows) \cup new
        /\ \A u \in Tables : u # t => e[u] = d[u]
    BY DEF Intact
  <1>2. \A o \in rows : f[o]["id"] = o["id"]
    BY DEF SameRow, FixedColumns
  <1>3. {n["id"] : n \in e[t]} = {o["id"] : o \in d[t]}
    BY <1>1, <1>2
  <1>4. \A u \in Tables : {n["id"] : n \in e[u]} = {o["id"] : o \in d[u]}
    BY <1>1, <1>3
  <1>5. ASSUME NEW u \in Tables, NEW x, NEW others, Breaks(e, u, x, others)
        PROVE  Breaks(d, u, x, others)
    <2>1. \A w \in Tables : \A v :
              (\E o \in d[w] : o["id"] = v) <=> (\E o \in e[w] : o["id"] = v)
      BY <1>4
    <2>2. \A k \in DOMAIN ForeignKeys[u] :
              (\E o \in d[ForeignKeys[u][k]] : o["id"] = x[k])
                <=> (\E o \in e[ForeignKeys[u][k]] : o["id"] = x[k])
      <3>1. ASSUME NEW k \in DOMAIN ForeignKeys[u]
            PROVE  ForeignKeys[u][k] \in Tables
        BY SchemaColumns
      <3>2. ASSUME NEW k \in DOMAIN ForeignKeys[u]
            PROVE  (\E o \in d[ForeignKeys[u][k]] : o["id"] = x[k])
                     <=> (\E o \in e[ForeignKeys[u][k]] : o["id"] = x[k])
        <4> DEFINE w == ForeignKeys[u][k]
        <4>1. w \in Tables
          BY <3>1
        <4> HIDE DEF w
        <4>2. (\E o \in d[w] : o["id"] = x[k]) <=> (\E o \in e[w] : o["id"] = x[k])
          BY <2>1, <4>1
        <4>3. QED
          BY <4>2 DEF w
      <3>3. QED
        BY <3>2
    <2>3. QED
      BY <1>5, <2>2 DEF Breaks
  <1>6. ASSUME NEW n \in e[t]
        PROVE  RowOf(t, m[t], n) /\ ~Breaks(e, t, n, e[t] \ {n})
    <2>1. CASE n \in new
      <3>1. RowOf(t, m[t], n)
        BY <2>1
      <3>2. ~Breaks(d, t, n, e[t] \ {n})
        BY <1>1, <2>1 DEF Breaks
      <3>3. QED
        BY <1>5, <3>1, <3>2
    <2>2. CASE n \in d[t] \ rows
      <3>1. RowOf(t, m[t], n) /\ ~Breaks(d, t, n, d[t] \ {n})
        BY <2>2 DEF Intact
      <3>2. ASSUME NEW o \in new, NEW w \in Unique[t],
                   \A c \in w : o[c] = n[c] /\ n[c] # Null
            PROVE  FALSE
        <4>1. \A c \in w : n[c] = o[c] /\ o[c] # Null
          BY <3>2
        <4>2. Breaks(d, t, o, (d[t] \ rows) \cup (new \ {o}))
          BY <2>2, <4>1 DEF Breaks
        <4>3. QED
          BY <4>2
      <3>3. ~Breaks(d, t, n, e[t] \ {n})
        BY <1>1, <3>1, <3>2 DEF Breaks
      <3>4. QED
        BY <1>5, <3>1, <3>3
    <2>3. QED
      BY <1>1, <2>1, <2>2
  <1>7. IsFiniteSet(e[t])
    <2>1. IsFiniteSet(d[t])
      BY DEF Intact
    <2>2. IsFiniteSet(rows) /\ IsFiniteSet(d[t] \ rows)
      BY <2>1, FS_Subset
    <2>3. IsFiniteSet(new)
      <3> DEFINE g == [o \in rows |-> f[o]]
      <3>1. g \in Surjection(rows, new)
        BY DEF Surjection
      <3>2. QED
        BY <2>2, <3>1, FS_Surjection
    <2>4. QED
      BY <1>1, <2>2, <2>3, FS_Union
  <1>8. Intact(e, m)
    <2>1. ASSUME NEW u \in Tables, NEW n \in e[u]
          PROVE  RowOf(u, m[u], n) /\ ~Breaks(e, u, n, e[u] \ {n})
      <3>1. CASE u = t
        BY <1>6, <3>1
      <3>2. CASE u # t
        <4>1. RowOf(u, m[u], n) /\ ~Breaks(d, u, n, e[u] \ {n})
          BY <1>1, <3>2 DEF Intact
        <4>2. QED
          BY <1>5, <4>1
      <3>3. QED
        BY <3>1, <3>2
    <2>2. \A u \in Tables : IsFiniteSet(e[u])
      BY <1>1, <1>7 DEF Intact
    <2>3. m \in [Tables -> Nat]
      BY DEF Intact
    <2>4. QED
      BY <1>1, <2>1, <2>2, <2>3 DEF Intact
  <1>9. KeepsRows(d, m, e)
    <2>1. ASSUME NEW u \in Tables, NEW n \in e[u]
          PROVE  \E o \in d[u] : SameRow(u, n, o)
      <3>1. CASE u = t /\ n \in new
        BY <3>1
      <3>2. CASE n \in d[u]
        BY <3>2, Unmoved
      <3>3. QED
        BY <1>1, <3>1, <3>2
    <2>2. ASSUME NEW u \in Tables, NEW o \in d[u]
          PROVE  \E n \in e[u] : SameRow(u, n, o)
      <3>1. CASE u = t /\ o \in rows
        BY <1>1, <3>1
      <3>2. CASE o \in e[u]
        BY <3>2, Unmoved
      <3>3. QED
        BY <1>1, <3>1, <3>2
    <2>3. "users" \in Tables
      BY DEF Tables
    <2>4. QED
      BY <2>1, <2>2, <2>3 DEF KeepsRows, Lasts
  <1>10. Cardinality(e[t]) = Cardinality(d[t])
    <2>1. \A r, o \in e[t] : r["id"] = o["id"] => r = o
      BY <1>8, IdsDiffer
    <2>2. \A r, o \in d[t] : r["id"] = o["id"] => r = o
      BY IdsDiffer
    <2>3. IsFiniteSet(d[t])
      BY DEF Intact
    <2>4. /\ Cardinality({n["id"] : n \in e[t]}) = Cardinality(e[t])
          /\ Cardinality({n["id"] : n \in d[t]}) = Cardinality(d[t])
      BY <1>7, <2>1, <2>2, <2>3, IdCount
    <2>5. QED
      BY <1>3, <2>4
  <1>11. QED
    BY <1>8, <1>9, <1>10

\* An upsert of an account: the row with the email takes what is set, or there is a new one.
LEMMA UpsertKeeps ==
    ASSUME NEW d, NEW m, Intact(d, m), NEW mu, CreateMutation("users", mu),
           NEW set, DOMAIN set \subseteq UserUpsertSetters \ {"email"}
    PROVE  Creates(d, m, "users",
                   Upsert(d, "users", mu, m["users"] + 1, {"email"}, set).db)
  <1> DEFINE n == m["users"] + 1
             r == NewRow("users", mu, n)
             same == {o \in d["users"] : \A c \in {"email"} : o[c] = r[c]}
             new == {Override(o, set) : o \in same}
             out == Upsert(d, "users", mu, n, {"email"}, set)
  <1>1. "users" \in Tables
    BY DEF Tables
  <1>2. CASE out.db = d
    BY <1>1, <1>2, NothingCreated
  <1>3. CASE out = Insert(d, "users", mu, n)
    BY <1>1, <1>3, InsertKeeps
  <1>4. CASE /\ out.db = [d EXCEPT !["users"] = (@ \ same) \cup new]
             /\ \A o \in new : ~Breaks(d, "users", o, d["users"] \ same)
    <2>1. ASSUME NEW x \in same, NEW y \in same
          PROVE  x = y
      <3>1. /\ {"email"} \in Unique["users"] /\ "email" \in RowColumns("users")
            /\ "email" \notin Nullable
        BY DEF Unique, UserUnique, RowColumns, Columns, UserColumns, Nullable
      <3>2. ~Breaks(d, "users", x, d["users"] \ {x})
        BY <1>1 DEF Intact
      <3>3. x["email"] # Null
        BY <3>1, <3>2 DEF Breaks
      <3>4. x["email"] = y["email"]
        OBVIOUS
      <3>5. QED
        BY <3>1, <3>2, <3>3, <3>4 DEF Breaks
    <2> DEFINE f == [o \in same |-> Override(o, set)]
    <2>2. \A o \in new : ~Breaks(d, "users", o, (d["users"] \ same) \cup (new \ {o}))
      <3>1. \A o \in new : new \ {o} = {}
        BY <2>1
      <3>2. QED
        BY <1>4, <3>1
    <2>3. ASSUME NEW o \in same
          PROVE  RowOf("users", m["users"], f[o]) /\ SameRow("users", f[o], o)
      <3>1. RowOf("users", m["users"], o)
        BY <1>1 DEF Intact
      <3>2. /\ UserUpsertSetters \subseteq RowColumns("users")
            /\ {"id", "created_at"} \cap UserUpsertSetters = {}
            /\ FixedColumns("users") = {"id", "created_at", "email"}
            /\ {"id", "created_at", "email"} \subseteq RowColumns("users")
        BY DEF UserUpsertSetters, RowColumns, Columns, UserColumns, FixedColumns, ForeignKeys,
               NoKeys, KeyOf
      <3>3. DOMAIN o = RowColumns("users")
        BY <3>1 DEF RowOf
      <3>4. f[o] = [c \in RowColumns("users") |-> IF c \in DOMAIN set THEN set[c] ELSE o[c]]
        BY <3>2, <3>3 DEF Override
      <3>5. /\ f[o]["id"] = o["id"] /\ f[o]["created_at"] = o["created_at"]
            /\ f[o]["email"] = o["email"]
        BY <3>2, <3>4
      <3>6. QED
        BY <3>1, <3>2, <3>4, <3>5 DEF RowOf, SameRow
    <2>4. new = {f[o] : o \in same}
      OBVIOUS
    <2>5. same \in SUBSET d["users"]
      OBVIOUS
    <2>6. /\ Intact(out.db, m) /\ KeepsRows(d, m, out.db)
          /\ Cardinality(out.db["users"]) = Cardinality(d["users"])
      <3>1. PICK e : e = out.db
        OBVIOUS
      <3>2. PICK t \in Tables : t = "users"
        BY <1>1
      <3>3. e = [d EXCEPT ![t] = (@ \ same) \cup new]
        BY <1>4, <3>1, <3>2
      <3>4. \A o \in same : RowOf(t, m[t], f[o]) /\ SameRow(t, f[o], o)
        BY <2>3, <3>2
      <3>5. \A o \in new : ~Breaks(d, t, o, (d[t] \ same) \cup (new \ {o}))
        BY <2>2, <3>2
      <3>6. same \in SUBSET d[t]
        BY <2>5, <3>2
      <3> HIDE DEF f
      <3>7. Replaces(d, m, t, same, f, e)
        BY <2>4, <3>3, <3>4, <3>5, <3>6 DEF Replaces
      <3> HIDE DEF new, same, out
      <3>8. /\ Intact(e, m) /\ KeepsRows(d, m, e) /\ Cardinality(e[t]) = Cardinality(d[t])
        BY <3>7, ReplaceKeeps
      <3>9. QED
        BY <3>1, <3>2, <3>8
    <2>7. /\ m["users"] \in Nat /\ Cardinality(d["users"]) \in Nat
          /\ [m EXCEPT !["users"] = m["users"]] = m
      BY <1>1, FS_CardinalityType DEF Intact
    <2>8. m["users"] = m["users"] + Cardinality(out.db["users"]) - Cardinality(d["users"])
      BY <2>6, <2>7
    <2>9. QED
      BY <2>6, <2>7, <2>8 DEF Creates
  <1>5. QED
    <2>1. \/ out.db = d \/ out = Insert(d, "users", mu, n)
          \/ /\ out.db = [d EXCEPT !["users"] = (@ \ same) \cup new]
             /\ \A o \in new : ~Breaks(d, "users", o, d["users"] \ same)
      BY DEF Upsert, Failed, Done
    <2>2. QED
      BY <1>2, <1>3, <1>4, <2>1

-----------------------------------------------------------------------------
(* Updates and deletes.                                                    *)

\* An update of rows of a table that has updates.
LEMMA UpdateKeeps ==
    ASSUME NEW d, NEW m, Intact(d, m), NEW t \in {"users", "instances", "functions"},
           NEW rows, rows \subseteq d[t], NEW set, NEW cleared, DOMAIN set \cap KeyOf[t] = {}
    PROVE  LET e == Update(d, t, rows, UpdateBuilder(t, set, cleared)).db
           IN  Intact(e, m) /\ KeepsRows(d, m, e)
  <1> DEFINE mu == UpdateBuilder(t, set, cleared)
             sets == OnlyIn(Override(UpdateDefaults, mu.set), Updated[t])
             New(o) == [c \in RowColumns(t) |->
                          IF c \in mu.cleared THEN Null
                          ELSE IF c \in DOMAIN sets THEN sets[c] ELSE o[c]]
             f == [o \in rows |-> New(o)]
             new == {New(o) : o \in rows}
             out == Update(d, t, rows, mu)
  <1>1. t \in Tables
    BY DEF Tables
  <1>2. /\ mu.cleared \subseteq Clearers[t]
        /\ DOMAIN mu.set \subseteq UpdateSetters[t] \cap Mutable[t]
        /\ DOMAIN mu.set \cap KeyOf[t] = {}
    BY DEF UpdateBuilder, Mutation, OnlyIn
  <1>3. DOMAIN sets \subseteq ({"updated_at"} \cup DOMAIN mu.set) \cap Updated[t]
    <2>1. DOMAIN Override(UpdateDefaults, mu.set) = DOMAIN UpdateDefaults \cup DOMAIN mu.set
      BY OverrideFacts
    <2>2. QED
      BY <2>1 DEF OnlyIn, UpdateDefaults
  <1>4. FixedColumns(t) \subseteq RowColumns(t)
    BY <1>1, SchemaColumns, KeyColumns DEF FixedColumns, RowColumns
  <1>5. \A c \in FixedColumns(t) : c \notin mu.cleared /\ c \notin DOMAIN sets
    <2>1. "updated_at" \notin DOMAIN ForeignKeys[t]
      BY <1>1, SchemaColumns
    <2>2. DOMAIN ForeignKeys[t] \cap Mutable[t] = {}
      BY <1>1, MutableColumns
    <2>3. KeyOf[t] \cap (Clearers[t] \cup {"updated_at"}) = {}
      BY <1>1, KeyColumns
    <2> HIDE DEF mu, sets
    <2>4. QED
      BY <1>2, <1>3, <2>1, <2>2, <2>3, UpdateColumns DEF FixedColumns
  <1>6. ASSUME NEW o \in rows
        PROVE  RowOf(t, m[t], f[o]) /\ SameRow(t, f[o], o)
    <2>1. RowOf(t, m[t], o)
      BY <1>1 DEF Intact
    <2>2. /\ f[o] = [c \in RowColumns(t) |-> f[o][c]]
          /\ \A c \in FixedColumns(t) : f[o][c] = o[c]
      <3> HIDE DEF mu, sets
      <3>1. QED
        BY <1>4, <1>5
    <2>3. /\ "id" \in FixedColumns(t) /\ t # "containers"
          /\ t = "instances" => "key_pair_instances" \in FixedColumns(t)
      BY DEF FixedColumns, ForeignKeys, InstanceForeignKeys
    <2> HIDE DEF f
    <2>4. QED
      BY <2>1, <2>2, <2>3 DEF RowOf, SameRow
  <1>7. CASE out.db = d
    BY <1>7, Unmoved
  <1>8. CASE /\ out.db = [d EXCEPT ![t] = (@ \ rows) \cup new]
             /\ \A n \in new : ~Breaks(d, t, n, (d[t] \ rows) \cup (new \ {n}))
    <2>1. new = {f[o] : o \in rows}
      OBVIOUS
    <2>2. Replaces(d, m, t, rows, f, out.db)
      <3> HIDE DEF f, new, out
      <3>1. QED
        BY <1>6, <1>8, <2>1 DEF Replaces
    <2> HIDE DEF f, new, out
    <2>3. Intact(out.db, m) /\ KeepsRows(d, m, out.db)
      BY <1>1, <2>2, ReplaceKeeps
    <2>4. QED
      BY <2>3 DEF out
  <1>9. QED
    <2>1. \/ out.db = d
          \/ /\ out.db = [d EXCEPT ![t] = (@ \ rows) \cup new]
             /\ \A n \in new : ~Breaks(d, t, n, (d[t] \ rows) \cup (new \ {n}))
      BY DEF Update, Failed, Done
    <2>2. QED
      BY <1>7, <1>8, <2>1

\* Neither an instance's reference to a key pair nor any other is set to NULL in rows that
\* stay: no instance has a key pair, and the other references forbid the deletion.
LEMMA DeleteKeeps ==
    ASSUME NEW d, NEW m, Intact(d, m), NEW t \in Tables \ {"users"},
           NEW rows, rows \subseteq d[t]
    PROVE  LET e == Delete(d, t, rows).db IN Intact(e, m) /\ KeepsRows(d, m, e)
  <1> DEFINE out == Delete(d, t, rows)
             Kept(u) == IF u = t THEN d[u] \ rows ELSE d[u]
             Lost(u, o) ==
                [c \in DOMAIN o |->
                    IF c \in OnDeleteSetNull \cap DOMAIN ForeignKeys[u]
                       /\ o \in Referring(d, t, rows, u, c)
                    THEN Null ELSE o[c]]
             refused == \E u \in Tables : \E k \in DOMAIN ForeignKeys[u] \ OnDeleteSetNull :
                            Referring(d, t, rows, u, k) # {}
  <1>1. CASE refused
    BY <1>1, Unmoved DEF Delete, Failed
  <1>2. CASE ~refused
    <2>1. ASSUME NEW u \in Tables, NEW o \in d[u]
          PROVE  Lost(u, o) = o
      <3>1. RowOf(u, m[u], o)
        BY DEF Intact
      <3>2. o = [c \in DOMAIN o |-> o[c]]
        BY <3>1 DEF RowOf
      <3>3. \A c \in OnDeleteSetNull \cap DOMAIN ForeignKeys[u] : o[c] = Null
        <4>1. ASSUME "key_pair_instances" \in DOMAIN ForeignKeys[u] PROVE u = "instances"
          BY <4>1 DEF ForeignKeys, Tables, NoKeys, AppForeignKeys, KeyPairForeignKeys,
                 ContainerForeignKeys, FunctionForeignKeys
        <4>2. QED
          BY <3>1, <4>1 DEF RowOf, OnDeleteSetNull
      <3>4. \A c \in DOMAIN o : Lost(u, o)[c] = o[c]
        BY <3>3
      <3>5. QED
        BY <3>2, <3>4
    <2>2. out.db = [u \in Tables |-> {Lost(u, o) : o \in Kept(u)}]
      BY <1>2 DEF Delete, Done
    <2> HIDE DEF Lost, out
    <2>3. \A u \in Tables : out.db[u] = Kept(u)
      BY <2>1, <2>2
    <2>4. out.db = [u \in Tables |-> out.db[u]]
      BY <2>2
    <2>5. ASSUME NEW u \in Tables, NEW o \in Kept(u)
          PROVE  RowOf(u, m[u], o) /\ ~Breaks(out.db, u, o, Kept(u) \ {o})
      <3>1. o \in d[u] /\ Kept(u) \subseteq d[u]
        OBVIOUS
      <3>2. RowOf(u, m[u], o) /\ ~Breaks(d, u, o, d[u] \ {o})
        BY <3>1 DEF Intact
      <3>3. ASSUME NEW k \in DOMAIN ForeignKeys[u], o[k] # Null
            PROVE  \E x \in out.db[ForeignKeys[u][k]] : x["id"] = o[k]
        <4>1. PICK x \in d[ForeignKeys[u][k]] : x["id"] = o[k]
          BY <3>2, <3>3 DEF Breaks
        <4>2. ForeignKeys[u][k] \in Tables
          BY SchemaColumns
        <4>3. k \notin OnDeleteSetNull
          <5>1. ASSUME "key_pair_instances" \in DOMAIN ForeignKeys[u] PROVE u = "instances"
            BY <5>1 DEF ForeignKeys, Tables, NoKeys, AppForeignKeys, KeyPairForeignKeys,
                   ContainerForeignKeys, FunctionForeignKeys
          <5>2. QED
            BY <3>2, <3>3, <5>1 DEF RowOf, OnDeleteSetNull
        <4>4. Referring(d, t, rows, u, k) = {}
          BY <1>2, <4>3
        <4>5. ForeignKeys[u][k] = t => x \notin rows
          BY <3>1, <4>1, <4>4 DEF Referring
        <4>6. x \in Kept(ForeignKeys[u][k])
          BY <4>1, <4>5
        <4>7. QED
          BY <2>3, <4>1, <4>2, <4>6
      <3>4. \A x \in Kept(u) \ {o} : x \in d[u] \ {o}
        BY <3>1
      <3> HIDE DEF Kept
      <3>5. QED
        BY <3>2, <3>3, <3>4 DEF Breaks
    <2>6. \A u \in Tables : IsFiniteSet(Kept(u))
      <3>1. ASSUME NEW u \in Tables PROVE IsFiniteSet(Kept(u))
        <4>1. IsFiniteSet(d[u]) /\ Kept(u) \subseteq d[u]
          BY DEF Intact
        <4>2. QED
          BY <4>1, FS_Subset
      <3>2. QED
        BY <3>1
    <2>7. m \in [Tables -> Nat]
      BY DEF Intact
    <2>8. \A u \in Tables : Kept(u) \subseteq d[u]
      OBVIOUS
    <2>12. Kept("users") = d["users"] /\ "users" \in Tables
      BY DEF Tables
    <2> HIDE DEF Kept
    <2>9. Intact(out.db, m)
      BY <2>3, <2>4, <2>5, <2>6, <2>7 DEF Intact
    <2>10. KeepsRows(d, m, out.db)
      BY <2>3, <2>8, <2>12, Unmoved DEF KeepsRows, Lasts
    <2>11. QED
      BY <2>9, <2>10 DEF out
  <1>3. QED
    BY <1>1, <1>2

\* UpdateOneID reports a row that is not there and otherwise updates.
LEMMA UpdateOneKeeps ==
    ASSUME NEW d, NEW m, Intact(d, m), NEW t \in {"users", "instances", "functions"},
           NEW rows, rows \subseteq d[t], NEW set, NEW cleared, DOMAIN set \cap KeyOf[t] = {}
    PROVE  LET e == UpdateOne(d, t, rows, UpdateBuilder(t, set, cleared)).db
           IN  Intact(e, m) /\ KeepsRows(d, m, e)
  <1>1. CASE UpdateOne(d, t, rows, UpdateBuilder(t, set, cleared)).db = d
    BY <1>1, Unmoved
  <1>2. CASE UpdateOne(d, t, rows, UpdateBuilder(t, set, cleared)) =
                Update(d, t, rows, UpdateBuilder(t, set, cleared))
    BY <1>2, UpdateKeeps
  <1>3. QED
    BY <1>1, <1>2 DEF UpdateOne, Failed

-----------------------------------------------------------------------------
(* The requests.                                                           *)

\* A step keeps the database intact and the identity of its rows.
StoreStep ==
    /\ Intact(db', made') /\ KeepsRows(db, made, db')
    /\ \A t \in Tables : made[t] <= made'[t]

\* The steps that leave the database alone.
LEMMA QuietStep ==
    ASSUME Intact(db, made), UNCHANGED <<db, made>>
    PROVE  StoreStep
  BY Unmoved DEF StoreStep, Intact

\* A request that creates a row, with its commit.
LEMMA CreateStep ==
    ASSUME Intact(db, made), NEW t \in Tables, NEW o, Creates(db, made, t, o.db), Create(t, o)
    PROVE  StoreStep
  <1>1. PICK k \in {made[t], made[t] + 1} :
                 /\ k = made[t] + Cardinality(o.db[t]) - Cardinality(db[t])
                 /\ Intact(o.db, [made EXCEPT ![t] = k]) /\ KeepsRows(db, made, o.db)
    BY DEF Creates
  <1>2. db' = o.db /\ made' = [made EXCEPT ![t] = k]
    BY <1>1 DEF Create, Commit
  <1>3. ASSUME NEW u \in Tables PROVE made[u] <= made'[u]
    <2>1. made[u] \in Nat /\ made \in [Tables -> Nat]
      BY DEF Intact
    <2>2. made'[u] \in {made[u], made[u] + 1}
      BY <1>1, <1>2, <2>1
    <2>3. QED
      BY <2>1, <2>2
  <1>4. QED
    BY <1>1, <1>2, <1>3 DEF StoreStep

\* A request that changes or removes rows, with its commit.
LEMMA ChangeStep ==
    ASSUME NEW o, Intact(o.db, made), KeepsRows(db, made, o.db), Change(o)
    PROVE  StoreStep
  BY DEF Change, Commit, StoreStep, Intact

\* The columns of what a request brings along.
LEMMA BroughtColumns ==
    /\ \A S, v : DOMAIN Versioned(S, v) = S
    /\ \A f, x : DOMAIN Pick(f, x) = {f}
    /\ DOMAIN None = {}
  BY DEF Versioned, Pick, None

\* The columns of what is put together from two parts.
LEMMA OverrideColumns == \A f, g : DOMAIN Override(f, g) = DOMAIN f \cup DOMAIN g
  BY OverrideFacts

\* A login.
LEMMA UpsertUserStep ==
    ASSUME Intact(db, made), NEW e, NEW g, NEW v, NEW refresh, NEW jti,
           UpsertUser(e, g, v, refresh, jti)
    PROVE  StoreStep
  <1> DEFINE token == Pick("google_refresh_token",
                           IF refresh = Empty THEN Empty
                           ELSE Value("google_refresh_token", refresh))
             set == Override(Versioned({"name", "google_access_token", "google_token_expiry"}, v),
                             Pick("google_id", g))
             current == IF jti = Null THEN None ELSE Pick("current_refresh_jti", jti)
             new == Override(Override(Override(set, token), current), Pick("email", e))
             kept == IF refresh = Empty THEN None ELSE token
             onConflict == Override(Override(Override(set, kept), current), UpdateDefaults)
             mu == CreateBuilder("users", new, NoEdge)
             o == Upsert(db, "users", mu, made["users"] + 1, {"email"},
                         OnlyIn(onConflict, UserUpsertSetters))
  <1>1. /\ DOMAIN set = {"name", "google_access_token", "google_token_expiry", "google_id"}
        /\ DOMAIN token = {"google_refresh_token"}
        /\ DOMAIN current \subseteq {"current_refresh_jti"}
        /\ DOMAIN Pick("email", e) = {"email"}
    <2>1. DOMAIN set =
            DOMAIN Versioned({"name", "google_access_token", "google_token_expiry"}, v)
              \cup DOMAIN Pick("google_id", g)
      BY OverrideColumns
    <2>2. /\ DOMAIN Versioned({"name", "google_access_token", "google_token_expiry"}, v) =
                {"name", "google_access_token", "google_token_expiry"}
          /\ DOMAIN Pick("google_id", g) = {"google_id"}
      BY BroughtColumns
    <2>3. DOMAIN set = {"name", "google_access_token", "google_token_expiry", "google_id"}
      BY <2>1, <2>2
    <2>4. DOMAIN token = {"google_refresh_token"} /\ DOMAIN Pick("email", e) = {"email"}
      BY BroughtColumns
    <2>5. DOMAIN current \subseteq {"current_refresh_jti"}
      BY BroughtColumns
    <2> HIDE DEF set, token, current
    <2>6. QED
      BY <2>3, <2>4, <2>5
  <1>2. {"id", "created_at"} \cap DOMAIN new = {}
    <2> HIDE DEF set, token, current
    <2>1. DOMAIN Override(set, token) = DOMAIN set \cup DOMAIN token
      BY OverrideColumns
    <2>2. DOMAIN Override(Override(set, token), current) =
            DOMAIN Override(set, token) \cup DOMAIN current
      BY OverrideColumns
    <2>3. DOMAIN new =
            DOMAIN Override(Override(set, token), current) \cup DOMAIN Pick("email", e)
      BY OverrideColumns
    <2>4. QED
      BY <1>1, <2>1, <2>2, <2>3
  <1>3. CreateMutation("users", mu)
    <2> HIDE DEF new
    <2>1. "users" \in Tables /\ "keypair" \notin DOMAIN NoEdge
      BY DEF Tables, NoEdge
    <2>2. QED
      BY <1>2, <2>1, CreateBuilderFacts
  <1>4. DOMAIN OnlyIn(onConflict, UserUpsertSetters) \subseteq UserUpsertSetters \ {"email"}
    <2>1. DOMAIN kept \subseteq {"google_refresh_token"}
      BY <1>1, BroughtColumns
    <2>2. DOMAIN UpdateDefaults = {"updated_at"}
      BY DEF UpdateDefaults
    <2> HIDE DEF set, kept, current
    <2>3. DOMAIN Override(set, kept) = DOMAIN set \cup DOMAIN kept
      BY OverrideColumns
    <2>4. DOMAIN Override(Override(set, kept), current) =
            DOMAIN Override(set, kept) \cup DOMAIN current
      BY OverrideColumns
    <2>5. DOMAIN onConflict =
            DOMAIN Override(Override(set, kept), current) \cup DOMAIN UpdateDefaults
      BY OverrideColumns
    <2>6. "email" \notin DOMAIN onConflict
      BY <1>1, <2>1, <2>2, <2>3, <2>4, <2>5
    <2> HIDE DEF onConflict
    <2>7. QED
      BY <2>6 DEF OnlyIn
  <1>5. Creates(db, made, "users", o.db)
    <2> HIDE DEF mu, onConflict
    <2>1. QED
      BY <1>3, <1>4, UpsertKeeps
  <1>6. Create("users", o)
    BY DEF UpsertUser
  <1> HIDE DEF o
  <1>7. QED
    BY <1>5, <1>6, CreateStep DEF Tables

\* A change of the current refresh token.
LEMMA SessionStep ==
    ASSUME Intact(db, made), NEW rows, rows \subseteq db["users"], NEW jti, Session(rows, jti)
    PROVE  StoreStep
  <1>1. PICK set, cleared :
            /\ Change(Update(db, "users", rows, UpdateBuilder("users", set, cleared)))
            /\ DOMAIN set \subseteq {"current_refresh_jti"}
    BY DEF Session, None
  <1>2. DOMAIN set \cap KeyOf["users"] = {}
    BY <1>1 DEF KeyOf
  <1>3. QED
    BY <1>1, <1>2, UpdateKeeps, ChangeStep

\* The creation of a row from what the request sets, for the owner or the instance.
LEMMA InsertStep ==
    ASSUME Intact(db, made), NEW t \in Tables, NEW set, NEW edge,
           {"id", "created_at"} \cap DOMAIN set = {}, "keypair" \notin DOMAIN edge,
           t = "containers" => "name" \in DOMAIN set /\ set["name"] \notin Nat,
           Create(t, Insert(db, t, CreateBuilder(t, set, edge), made[t] + 1))
    PROVE  StoreStep
  BY CreateBuilderFacts, InsertKeeps, CreateStep

\* The deletion of rows.
LEMMA DeleteStep ==
    ASSUME Intact(db, made), NEW t \in Tables \ {"users"}, NEW rows, rows \subseteq db[t],
           Change(Delete(db, t, rows))
    PROVE  StoreStep
  BY DeleteKeeps, ChangeStep

\* The registration of an instance.
LEMMA SaveInstanceStep ==
    ASSUME Intact(db, made), NEW e, NEW s, NEW v, SaveInstance(e, s, v)
    PROVE  StoreStep
  <1> DEFINE told == Versioned({"name", "status", "image_id", "flavor_id", "key_name", "note",
                                "provider_created_at"}, v)
             set == Override(told, Pick("openstack_id", s))
             edge == [owner |-> OwnerId(e)]
  <1>1. {"id", "created_at"} \cap DOMAIN set = {}
    <2>1. DOMAIN set = DOMAIN told \cup DOMAIN Pick("openstack_id", s)
      BY OverrideColumns
    <2>2. DOMAIN told = {"name", "status", "image_id", "flavor_id", "key_name", "note",
                         "provider_created_at"}
      BY BroughtColumns
    <2>3. DOMAIN Pick("openstack_id", s) = {"openstack_id"}
      BY BroughtColumns
    <2>4. QED
      BY <2>1, <2>2, <2>3
  <1>2. "keypair" \notin DOMAIN edge /\ "instances" \in Tables
    BY DEF Tables
  <1>3. Create("instances", Insert(db, "instances", CreateBuilder("instances", set, edge),
                                   made["instances"] + 1))
    BY DEF SaveInstance
  <1> HIDE DEF set, edge
  <1>4. QED
    BY <1>1, <1>2, <1>3, InsertStep

\* The change of an instance's name, key name or note.
LEMMA UpdateInstanceMetadataStep ==
    ASSUME Intact(db, made), NEW e, NEW s, NEW v, NEW rename,
           UpdateInstanceMetadata(e, s, v, rename)
    PROVE  StoreStep
  <1> DEFINE rows == Owned(db, "instances", OwnerId(e), [openstack_id |-> s])
             set == Versioned({"key_name", "note"} \cup IF rename THEN {"name"} ELSE {}, v)
  <1>1. rows \subseteq db["instances"]
    BY DEF Owned
  <1>2. Change(Update(db, "instances", rows, UpdateBuilder("instances", set, {})))
    BY DEF UpdateInstanceMetadata
  <1>3. DOMAIN set \cap KeyOf["instances"] = {}
    BY DEF Versioned, KeyOf
  <1> HIDE DEF rows, set
  <1>4. QED
    BY <1>1, <1>2, <1>3, UpdateKeeps, ChangeStep

\* The registration of an app.
LEMMA InsertAppStep ==
    ASSUME Intact(db, made), NEW c, InsertApp(c)
    PROVE  StoreStep
  <1> DEFINE set == [host |-> saving[c].host]
             edge == [instance |-> saving[c].instance]
  <1>1. {"id", "created_at"} \cap DOMAIN set = {} /\ "keypair" \notin DOMAIN edge
    OBVIOUS
  <1>2. Create("apps", Insert(db, "apps", CreateBuilder("apps", set, edge), made["apps"] + 1))
    BY DEF InsertApp
  <1> HIDE DEF set, edge
  <1>3. QED
    BY <1>1, <1>2, InsertStep DEF Tables

\* The registration of a key.
LEMMA SaveKeyPairStep ==
    ASSUME Intact(db, made), NEW e, NEW k, NEW v, SaveKeyPair(e, k, v)
    PROVE  StoreStep
  <1> DEFINE told == Versioned({"fingerprint", "public_key"}, v)
             set == Override(told, [openstack_name |-> k, source_type |-> "user_uploaded"])
             edge == [owner |-> OwnerId(e)]
  <1>1. {"id", "created_at"} \cap DOMAIN set = {}
    <2>1. DOMAIN set =
            DOMAIN told \cup DOMAIN [openstack_name |-> k, source_type |-> "user_uploaded"]
      BY OverrideColumns
    <2>2. DOMAIN told = {"fingerprint", "public_key"}
      BY BroughtColumns
    <2>3. QED
      BY <2>1, <2>2
  <1>2. "keypair" \notin DOMAIN edge /\ "key_pairs" \in Tables
    BY DEF Tables
  <1>3. Create("key_pairs", Insert(db, "key_pairs", CreateBuilder("key_pairs", set, edge),
                                   made["key_pairs"] + 1))
    BY DEF SaveKeyPair
  <1> HIDE DEF set, edge
  <1>4. QED
    BY <1>1, <1>2, <1>3, InsertStep

\* The registration of a container.
LEMMA SaveContainerStep ==
    ASSUME Intact(db, made), NEW e, NEW n, n \notin Nat, NEW c, SaveContainer(e, n, c)
    PROVE  StoreStep
  <1> DEFINE set == [openstack_name |-> c, name |-> n]
             edge == [owner |-> OwnerId(e)]
  <1>1. {"id", "created_at"} \cap DOMAIN set = {} /\ "keypair" \notin DOMAIN edge
    OBVIOUS
  <1>2. Create("containers", Insert(db, "containers", CreateBuilder("containers", set, edge),
                                    made["containers"] + 1))
    BY DEF SaveContainer
  <1>3. "name" \in DOMAIN set /\ set["name"] \notin Nat
    OBVIOUS
  <1> HIDE DEF set, edge
  <1>4. QED
    BY <1>1, <1>2, <1>3, InsertStep DEF Tables

\* A first deployment.
LEMMA CreateDeploymentStep ==
    ASSUME Intact(db, made), NEW e, NEW n, NEW v, CreateDeployment(e, n, v)
    PROVE  StoreStep
  <1> DEFINE set == Override(Deployment(v), [name |-> n])
             edge == [owner |-> OwnerId(e)]
  <1>1. {"id", "created_at"} \cap DOMAIN set = {}
    <2>1. DOMAIN set = DOMAIN Deployment(v) \cup DOMAIN [name |-> n]
      BY OverrideColumns
    <2>2. DOMAIN Deployment(v) = {"wasm", "language", "data_mode", "source"}
      BY BroughtColumns DEF Deployment
    <2>3. QED
      BY <2>1, <2>2
  <1>2. "keypair" \notin DOMAIN edge /\ "functions" \in Tables
    BY DEF Tables
  <1>3. Create("functions", Insert(db, "functions", CreateBuilder("functions", set, edge),
                                   made["functions"] + 1))
    BY DEF CreateDeployment
  <1> HIDE DEF set, edge
  <1>4. QED
    BY <1>1, <1>2, <1>3, InsertStep

\* A change of a function: a deployment, a key or its removal.
LEMMA UpdateFunctionStep ==
    ASSUME Intact(db, made), NEW e, NEW f, NEW set, NEW cleared, "id" \notin DOMAIN set,
           UpdateFunction(e, f, set, cleared)
    PROVE  StoreStep
  <1> DEFINE rows == Owned(db, "functions", OwnerId(e), [id |-> f])
  <1>1. rows \subseteq db["functions"]
    BY DEF Owned
  <1>2. Change(UpdateOne(db, "functions", rows, UpdateBuilder("functions", set, cleared)))
    BY DEF UpdateFunction
  <1>3. DOMAIN set \cap KeyOf["functions"] = {}
    BY DEF KeyOf
  <1> HIDE DEF rows
  <1>4. QED
    BY <1>1, <1>2, <1>3, UpdateOneKeeps, ChangeStep

\* The deletions remove rows of one table.
LEMMA DeletionStep ==
    ASSUME Intact(db, made), NEW e, NEW x,
           \/ DeleteByOpenstackID(e, x) \/ DeleteByInstance(e, x) \/ DeleteByName(e, x)
           \/ DeleteContainer(e, x) \/ DeleteFunction(e, x)
    PROVE  StoreStep
  <1>1. PICK t, rows : /\ t \in Tables \ {"users"} /\ rows \subseteq db[t]
                       /\ Change(Delete(db, t, rows))
    <2>1. ASSUME NEW t \in Tables, NEW id, NEW where
          PROVE  Owned(db, t, id, where) \subseteq db[t]
      BY DEF Owned
    <2>2. CASE DeleteByInstance(e, x)
      <3>1. PICK rows \in SUBSET db["apps"] : Change(Delete(db, "apps", rows))
        BY <2>2 DEF DeleteByInstance
      <3>2. QED
        BY <3>1 DEF Tables
    <2>3. CASE \/ DeleteByOpenstackID(e, x) \/ DeleteByName(e, x)
               \/ DeleteContainer(e, x) \/ DeleteFunction(e, x)
      <3>1. PICK t, id, where :
                t \in Tables \ {"users"} /\ Change(Delete(db, t, Owned(db, t, id, where)))
        BY <2>3 DEF DeleteByOpenstackID, DeleteByName, DeleteContainer, DeleteFunction, Tables
      <3>2. QED
        BY <2>1, <3>1
    <2>4. QED
      BY <2>2, <2>3
  <1>2. QED
    BY <1>1, DeleteStep

\* The steps of a request that writes, or looks up what it is going to write.
Request ==
    \/ \E e, g, v, refresh, jti : UpsertUser(e, g, v, refresh, jti)
    \/ \E rows \in SUBSET db["users"] : \E jti : Session(rows, jti)
    \/ \E e, s, v : SaveInstance(e, s, v)
    \/ \E e, s, v, rename : UpdateInstanceMetadata(e, s, v, rename)
    \/ \E c : InsertApp(c) \/ SaveReturns(c)
    \/ \E c, e, s, h : SaveForInstance(c, e, s, h)
    \/ \E e, k, v : SaveKeyPair(e, k, v)
    \/ \E e, n, c : n \notin Nat /\ SaveContainer(e, n, c)
    \/ \E e, n, v : CreateDeployment(e, n, v)
    \/ \E e, f, set, cleared : "id" \notin DOMAIN set /\ UpdateFunction(e, f, set, cleared)
    \/ \E e, x : \/ DeleteByOpenstackID(e, x) \/ DeleteByInstance(e, x) \/ DeleteByName(e, x)
                 \/ DeleteContainer(e, x) \/ DeleteFunction(e, x)

\* Each of them keeps the database intact.
LEMMA RequestStep ==
    ASSUME Intact(db, made), Request
    PROVE  StoreStep
  <1>1. CASE \E c : SaveReturns(c)
    BY <1>1, QuietStep DEF SaveReturns
  <1>2. CASE \E c, e, s, h : SaveForInstance(c, e, s, h)
    BY <1>2, QuietStep DEF SaveForInstance
  <1>3. CASE \E e, g, v, refresh, jti : UpsertUser(e, g, v, refresh, jti)
    BY <1>3, UpsertUserStep
  <1>4. CASE \E rows \in SUBSET db["users"] : \E jti : Session(rows, jti)
    BY <1>4, SessionStep
  <1>5. CASE \E e, s, v : SaveInstance(e, s, v)
    BY <1>5, SaveInstanceStep
  <1>6. CASE \E e, s, v, rename : UpdateInstanceMetadata(e, s, v, rename)
    BY <1>6, UpdateInstanceMetadataStep
  <1>7. CASE \E c : InsertApp(c)
    BY <1>7, InsertAppStep
  <1>8. CASE \E e, k, v : SaveKeyPair(e, k, v)
    BY <1>8, SaveKeyPairStep
  <1>9. CASE \E e, n, c : n \notin Nat /\ SaveContainer(e, n, c)
    BY <1>9, SaveContainerStep
  <1>10. CASE \E e, n, v : CreateDeployment(e, n, v)
    BY <1>10, CreateDeploymentStep
  <1>11. CASE \E e, f, set, cleared :
                "id" \notin DOMAIN set /\ UpdateFunction(e, f, set, cleared)
    BY <1>11, UpdateFunctionStep
  <1>12. CASE \E e, x : \/ DeleteByOpenstackID(e, x) \/ DeleteByInstance(e, x)
                        \/ DeleteByName(e, x) \/ DeleteContainer(e, x) \/ DeleteFunction(e, x)
    BY <1>12, DeletionStep
  <1>13. QED
    BY <1>1, <1>2, <1>3, <1>4, <1>5, <1>6, <1>7, <1>8, <1>9, <1>10, <1>11, <1>12 DEF Request

\* The writes of every group are such requests.
LEMMA WritesAreRequests ==
    ASSUME \/ AccountWrites \/ KeyWrites \/ ContainerWrites \/ FunctionWrites \/ SignUp
           \/ Compute \/ SomeInstances \/ SomeApps \/ SomeKeys \/ SomeFunctions \/ SomeOfAll
    PROVE  Request
  <1>1. CASE AccountWrites
    <2>1. ASSUME NEW e, NEW jti, SetRefreshJTI(e, jti)
          PROVE  Request
      <3>1. UserRow(db, e) \in SUBSET db["users"]
        BY DEF UserRow
      <3>2. QED
        BY <2>1, <3>1 DEF SetRefreshJTI, Request
    <2>2. ASSUME NEW e, NEW old, NEW new, RotateRefreshJTI(e, old, new)
          PROVE  Request
      <3>1. {u \in UserRow(db, e) : u.current_refresh_jti = old} \in SUBSET db["users"]
        BY DEF UserRow
      <3>2. QED
        BY <2>2, <3>1 DEF RotateRefreshJTI, Request
    <2>3. ASSUME NEW e, NEW jti, ClearRefreshJTIIfMatches(e, jti)
          PROVE  Request
      <3>1. {u \in UserRow(db, e) : u.current_refresh_jti = jti} \in SUBSET db["users"]
        BY DEF UserRow
      <3>2. QED
        BY <2>3, <3>1 DEF ClearRefreshJTIIfMatches, Request
    <2>4. QED
      BY <1>1, <2>1, <2>2, <2>3 DEF AccountWrites, Request
  <1>2. CASE SignUp
    BY <1>2 DEF SignUp, Request
  <1>3. CASE Compute
    BY <1>3 DEF Compute, Request
  <1>4. CASE SomeInstances \/ SomeApps
    BY <1>4 DEF SomeInstances, SomeApps, Request
  <1>5. CASE KeyWrites \/ SomeKeys
    BY <1>5 DEF KeyWrites, SomeKeys, Request
  <1>6. CASE ContainerWrites
    BY <1>6, RepositoriesAssumption DEF ContainerWrites, Request
  <1>7. CASE FunctionWrites \/ SomeFunctions
    <2>1. ASSUME NEW v
          PROVE  /\ "id" \notin DOMAIN Deployment(v)
                 /\ "id" \notin DOMAIN Versioned(KeyFields, v)
                 /\ "id" \notin DOMAIN None
      BY BroughtColumns DEF Deployment, KeyFields
    <2>2. ASSUME NEW e, NEW f, NEW v, UpdateDeployment(e, f, v) \/ SetKey(e, f, v)
          PROVE  Request
      BY <2>1, <2>2 DEF UpdateDeployment, SetKey, Request
    <2>3. ASSUME NEW e, NEW f, DeleteKey(e, f)
          PROVE  Request
      BY <2>1, <2>3 DEF DeleteKey, Request
    <2>4. QED
      BY <1>7, <2>2, <2>3 DEF FunctionWrites, SomeFunctions, Request
  <1>8. CASE SomeOfAll
    BY <1>8, RepositoriesAssumption DEF SomeOfAll, Request
  <1>9. QED
    BY <1>1, <1>2, <1>3, <1>4, <1>5, <1>6, <1>7, <1>8

\* A step of the run is a request, or a step of a read.
LEMMA Steps ==
    ASSUME MCNext
    PROVE  Request \/ (\E q : Ask(q)) \/ Reading
  BY WritesAreRequests DEF MCNext, Asking

\* Every step of the run keeps the database intact and the identity of its rows.
LEMMA StoreSteps ==
    ASSUME Intact(db, made), [MCNext]_mcvars
    PROVE  StoreStep
  <1>1. CASE Request
    BY <1>1, RequestStep
  <1>2. CASE (\E q : Ask(q)) \/ Reading
    BY <1>2, QuietStep DEF Ask, Reading, Statement, StatementFails, Answer
  <1>3. CASE UNCHANGED mcvars
    BY <1>3, QuietStep DEF mcvars, vars
  <1>4. QED
    BY <1>1, <1>2, <1>3, Steps

\* It is empty at first.
LEMMA StoreInit ==
    ASSUME Init
    PROVE  Intact(db, made)
  <1>1. IsFiniteSet({})
    BY FS_EmptySet
  <1>2. QED
    BY <1>1 DEF Init, Intact, EmptyDatabase

\* The database is intact, always: no unique index, reference or NOT NULL is broken, ids
\* were given out, and instances have no key pair (the generated builders and the external
\* constraints together).
THEOREM DatabaseIntact == MCSpec => []Intact(db, made)
  <1>1. MCInit => Intact(db, made)
    BY StoreInit DEF MCInit
  <1>2. Intact(db, made) /\ [MCNext]_mcvars => Intact(db, made)'
    BY StoreSteps DEF StoreStep
  <1>3. QED
    BY <1>1, <1>2, PTL DEF MCSpec

\* Rows keep their identity: a statement of any request leaves each row its id, creation
\* time, owner and instance, and gives a new row an id that was never given out.
THEOREM IdentityKept == MCSpec => RowsKeepIdentity
  <1>1. ASSUME Intact(db, made), [MCNext]_mcvars
        PROVE  \A t \in Tables : \A n \in db'[t] \ db[t] :
                  \/ n.id > made[t]
                  \/ \E o \in db[t] : \A c \in {"id", "created_at"} \cup DOMAIN ForeignKeys[t] :
                        o[c] = n[c]
    BY <1>1, StoreSteps DEF StoreStep, KeepsRows, SameRow, FixedColumns
  <1>2. QED
    BY <1>1, DatabaseIntact, PTL DEF MCSpec, RowsKeepIdentity, mcvars

-----------------------------------------------------------------------------
(* Reads: what a select asks for.                                          *)

\* A node is its row: the generated scans take every column.
LEMMA NodeIsRow ==
    ASSUME NEW t \in Tables, NEW n, NEW r, RowOf(t, n, r)
    PROVE  Node(t, r) = r
  <1>1. RowColumns(t) \subseteq Assigned[t]
    <2>1. CASE t = "users"
      BY <2>1 DEF RowColumns, Columns, ForeignKeys, NoKeys, Assigned, UserAssign
    <2>2. CASE t = "instances"
      BY <2>2 DEF RowColumns, Columns, ForeignKeys, InstanceForeignKeys, Assigned,
             InstanceAssign
    <2>3. CASE t = "apps"
      BY <2>3 DEF RowColumns, Columns, ForeignKeys, AppForeignKeys, Assigned, AppAssign
    <2>4. CASE t = "key_pairs"
      BY <2>4 DEF RowColumns, Columns, ForeignKeys, KeyPairForeignKeys, Assigned,
             KeyPairAssign
    <2>5. CASE t = "containers"
      BY <2>5 DEF RowColumns, Columns, ForeignKeys, ContainerForeignKeys, Assigned,
             ContainerAssign
    <2>6. CASE t = "functions"
      BY <2>6 DEF RowColumns, Columns, ForeignKeys, FunctionForeignKeys, Assigned,
             FunctionAssign
    <2>7. QED
      BY <2>1, <2>2, <2>3, <2>4, <2>5, <2>6 DEF Tables
  <1>2. r = [c \in RowColumns(t) |-> r[c]]
    BY DEF RowOf
  <1>3. Node(t, r) = [c \in RowColumns(t) |-> r[c]]
    BY <1>1 DEF Node
  <1>4. QED
    BY <1>2, <1>3

\* So the nodes of rows are the rows.
LEMMA NodesAreRows ==
    ASSUME NEW d, NEW m, Intact(d, m), NEW t \in Tables, NEW rows, rows \subseteq d[t]
    PROVE  Nodes(t, rows) = rows
  <1>1. ASSUME NEW r \in rows PROVE Node(t, r) = r
    BY NodeIsRow DEF Intact
  <1>2. QED
    BY <1>1 DEF Nodes

\* The tables whose rows have an owner, and the column that tells it.
OwnedTables == {"instances", "key_pairs", "containers", "functions"}
OwnerColumn(t) == Loads[t]["owner"].column

\* It is a foreign key of the table that refers to the accounts and is never NULL.
LEMMA OwnerColumns ==
    ASSUME NEW t \in OwnedTables
    PROVE  /\ t \in Tables /\ t # "users" /\ t # "apps"
           /\ OwnerColumn(t) \in DOMAIN ForeignKeys[t]
           /\ ForeignKeys[t][OwnerColumn(t)] = "users"
           /\ OwnerColumn(t) \notin Nullable
  BY DEF OwnedTables, Tables, OwnerColumn, Loads, InstanceLoads, KeyPairLoads, ContainerLoads,
         FunctionLoads, ForeignKeys, InstanceForeignKeys, KeyPairForeignKeys,
         ContainerForeignKeys, FunctionForeignKeys, Nullable

\* The account with id a, if the read needs one, has the email e.
Knows(d, a, e) == a # 0 => \E u \in d["users"] : u["id"] = a /\ u["email"] = e

\* A reference that may not be NULL leads to a row.
LEMMA RefersTo ==
    ASSUME NEW d, NEW m, Intact(d, m), NEW t \in Tables, NEW r \in d[t],
           NEW k \in DOMAIN ForeignKeys[t], k \notin Nullable \/ r[k] # Null
    PROVE  /\ ForeignKeys[t][k] \in Tables
           /\ \E o \in d[ForeignKeys[t][k]] : o["id"] = r[k]
  <1>1. ~Breaks(d, t, r, d[t] \ {r})
    BY DEF Intact
  <1>2. k \in RowColumns(t) /\ ForeignKeys[t][k] \in Tables
    BY SchemaColumns DEF RowColumns
  <1>3. r[k] # Null
    BY <1>1, <1>2 DEF Breaks
  <1>4. QED
    BY <1>1, <1>2, <1>3 DEF Breaks

\* The owner of a row: the account its column refers to, whose email it is known by.
LEMMA OwnerFacts ==
    ASSUME NEW d, NEW m, Intact(d, m), NEW t \in OwnedTables, NEW r \in d[t]
    PROVE  \E u \in d["users"] :
              /\ u["id"] = r[OwnerColumn(t)] /\ EmailOf(d, t, r) = u["email"]
              /\ \A w \in d["users"] : w["id"] = r[OwnerColumn(t)] => w = u
  <1>1. \E u \in d["users"] : u["id"] = r[OwnerColumn(t)]
    BY OwnerColumns, RefersTo
  <1>2. \A u, w \in d["users"] : u["id"] = w["id"] => u = w
    BY IdsDiffer DEF Tables
  <1>3. EmailOf(d, t, r) = (CHOOSE u \in d["users"] : u["id"] = r[OwnerColumn(t)])["email"]
    BY OwnerColumns DEF EmailOf, OwnerColumn
  <1>4. QED
    BY <1>1, <1>2, <1>3

\* Two accounts have different emails.
LEMMA EmailsDiffer ==
    ASSUME NEW d, NEW m, Intact(d, m), NEW u \in d["users"], NEW w \in d["users"],
           u["email"] = w["email"]
    PROVE  u = w
  <1>1. {"email"} \in Unique["users"] /\ "email" \in RowColumns("users")
        /\ "email" \notin Nullable /\ "users" \in Tables
    BY DEF Unique, UserUnique, RowColumns, Columns, UserColumns, Nullable, Tables
  <1>2. ~Breaks(d, "users", u, d["users"] \ {u})
    BY <1>1 DEF Intact
  <1>3. u["email"] # Null
    BY <1>1, <1>2 DEF Breaks
  <1>4. QED
    BY <1>1, <1>2, <1>3 DEF Breaks

\* The rows that an account owns are those with its id, and those with its email.
LEMMA OwnedBy ==
    ASSUME NEW d, NEW m, Intact(d, m), NEW t \in OwnedTables, NEW r \in d[t], NEW a, NEW e,
           NEW v \in d["users"], v["id"] = a, v["email"] = e
    PROVE  /\ (r[OwnerColumn(t)] = a) <=> (EmailOf(d, t, r) = e)
           /\ HasOwnerWith(d, t, r, [id |-> a]) <=> (EmailOf(d, t, r) = e)
  <1>1. PICK u \in d["users"] :
            /\ u["id"] = r[OwnerColumn(t)] /\ EmailOf(d, t, r) = u["email"]
            /\ \A w \in d["users"] : w["id"] = r[OwnerColumn(t)] => w = u
    BY OwnerFacts
  <1>2. (r[OwnerColumn(t)] = a) <=> (EmailOf(d, t, r) = e)
    BY <1>1, EmailsDiffer
  <1>3. HasOwnerWith(d, t, r, [id |-> a]) <=> (r[OwnerColumn(t)] = a)
    BY DEF HasOwnerWith, Matches, OwnerColumn
  <1>4. QED
    BY <1>2, <1>3

-----------------------------------------------------------------------------
(* Reads: selects pick what is asked for.                                  *)

\* The rows that the statement of select s finds.
Picked(d, s) ==
    {r \in d[s.table] : /\ Matches(r, s.where)
                        /\ s.owner # None => HasOwnerWith(d, s.table, r, s.owner)}

\* Select s of query q, by the account with id a (0: by none), picks what q asks for, and
\* at most one row when it wants only one.
Faithful(q, a, s) ==
    \A d, m : Intact(d, m) /\ Knows(d, a, q.of) =>
        /\ Picked(d, s) = Asked(d, q, s.table)
        /\ s.only => \A x, y \in Picked(d, s) : x = y

\* A column that tells the entity with key k of table t.
Tells(t, c, k) ==
    \/ KeyOf[t] = {c}
    \/ t = "containers" /\ ((c = "name" /\ k \notin Nat) \/ (c = "id" /\ k \in Nat))

\* It tells it: the other key of a container is of another type.
LEMMA KeyTells ==
    ASSUME NEW d, NEW m, Intact(d, m), NEW t \in Tables, NEW r \in d[t], NEW c, NEW k,
           Tells(t, c, k)
    PROVE  (\E b \in KeyOf[t] : r[b] = k) <=> r[c] = k
  <1>1. CASE KeyOf[t] = {c}
    BY <1>1
  <1>2. CASE t = "containers" /\ ((c = "name" /\ k \notin Nat) \/ (c = "id" /\ k \in Nat))
    <2>1. KeyOf[t] = {"name", "id"}
      BY <1>2 DEF KeyOf
    <2>2. r["id"] \in Nat /\ r["name"] \notin Nat
      <3>1. RowOf(t, m[t], r) /\ m[t] \in Nat
        BY DEF Intact
      <3>2. QED
        BY <1>2, <3>1 DEF RowOf
    <2>3. QED
      BY <1>2, <2>1, <2>2
  <1>3. QED
    BY <1>1, <1>2 DEF Tells

\* A select of all rows for no one in particular, or of the row with a key.
LEMMA PicksByKey ==
    ASSUME NEW q, NEW s, s.table \in Tables, q.of = Null, s.owner = None,
           \/ q.key = Null /\ s.where = None /\ ~s.only
           \/ \E c : /\ q.key # Null /\ s.where = [b \in {c} |-> q.key]
                     /\ Tells(s.table, c, q.key)
                     /\ {c} \in Unique[s.table] /\ c \in RowColumns(s.table) \ Nullable
    PROVE  Faithful(q, 0, s)
  <1> SUFFICES ASSUME NEW d, NEW m, Intact(d, m)
               PROVE  /\ Picked(d, s) = Asked(d, q, s.table)
                      /\ s.only => \A x, y \in Picked(d, s) : x = y
    BY DEF Faithful
  <1>1. CASE q.key = Null /\ s.where = None /\ ~s.only
    BY <1>1 DEF Picked, Asked, Matches, None
  <1>2. ASSUME NEW c, q.key # Null, s.where = [b \in {c} |-> q.key],
               Tells(s.table, c, q.key), {c} \in Unique[s.table],
               c \in RowColumns(s.table) \ Nullable
        PROVE  /\ Picked(d, s) = Asked(d, q, s.table)
               /\ \A x, y \in Picked(d, s) : x = y
    <2>1. Picked(d, s) = {r \in d[s.table] : r[c] = q.key}
      BY <1>2 DEF Picked, Matches
    <2>2. Asked(d, q, s.table) = {r \in d[s.table] : \E b \in KeyOf[s.table] : r[b] = q.key}
      BY <1>2 DEF Asked
    <2>3. \A r \in d[s.table] : (\E b \in KeyOf[s.table] : r[b] = q.key) <=> r[c] = q.key
      BY <1>2, KeyTells
    <2>4. Picked(d, s) = Asked(d, q, s.table)
      BY <2>1, <2>2, <2>3
    <2>5. ASSUME NEW x \in Picked(d, s), NEW y \in Picked(d, s)
          PROVE  x = y
      <3>1. x \in d[s.table] /\ y \in d[s.table] /\ x[c] = y[c]
        BY <2>1
      <3>2. ~Breaks(d, s.table, x, d[s.table] \ {x})
        BY <3>1 DEF Intact
      <3>3. x[c] # Null
        BY <1>2, <3>2 DEF Breaks
      <3>4. QED
        BY <1>2, <3>1, <3>2, <3>3 DEF Breaks
    <2>6. QED
      BY <2>4, <2>5
  <1>3. QED
    BY <1>1, <1>2

\* A select of the rows an account owns, or of the one with a key among them.
LEMMA PicksOwned ==
    ASSUME NEW q, NEW s, NEW a, a # 0, s.table \in OwnedTables, q.of # Null,
           s.owner = [id |-> a],
           \/ q.key = Null /\ s.where = None /\ ~s.only
           \/ \E c : /\ q.key # Null /\ s.where = [b \in {c} |-> q.key]
                     /\ Tells(s.table, c, q.key)
                     /\ \/ {c} \in Unique[s.table]
                        \/ {c, OwnerColumn(s.table)} \in Unique[s.table]
                     /\ c \in RowColumns(s.table) \ Nullable
    PROVE  Faithful(q, a, s)
  <1> SUFFICES ASSUME NEW d, NEW m, Intact(d, m), Knows(d, a, q.of)
               PROVE  /\ Picked(d, s) = Asked(d, q, s.table)
                      /\ s.only => \A x, y \in Picked(d, s) : x = y
    BY DEF Faithful
  <1>1. PICK v \in d["users"] : v["id"] = a /\ v["email"] = q.of
    BY DEF Knows
  <1>2. \A r \in d[s.table] :
            /\ (r[OwnerColumn(s.table)] = a) <=> (EmailOf(d, s.table, r) = q.of)
            /\ HasOwnerWith(d, s.table, r, [id |-> a]) <=> (EmailOf(d, s.table, r) = q.of)
    BY <1>1, OwnedBy
  <1>3. s.owner # None /\ s.table \in Tables
    <2>1. DOMAIN s.owner = {"id"} /\ DOMAIN None = {}
      BY DEF None
    <2>2. QED
      BY <2>1, OwnerColumns
  <1>4. Picked(d, s) = {r \in d[s.table] : Matches(r, s.where) /\ EmailOf(d, s.table, r) = q.of}
    BY <1>2, <1>3 DEF Picked
  <1>5. CASE q.key = Null /\ s.where = None /\ ~s.only
    BY <1>4, <1>5 DEF Asked, Matches, None
  <1>6. ASSUME NEW c, q.key # Null, s.where = [b \in {c} |-> q.key],
               Tells(s.table, c, q.key),
               {c} \in Unique[s.table] \/ {c, OwnerColumn(s.table)} \in Unique[s.table],
               c \in RowColumns(s.table) \ Nullable
        PROVE  /\ Picked(d, s) = Asked(d, q, s.table)
               /\ \A x, y \in Picked(d, s) : x = y
    <2>1. Picked(d, s) = {r \in d[s.table] : r[c] = q.key /\ EmailOf(d, s.table, r) = q.of}
      BY <1>4, <1>6 DEF Matches
    <2>2. Asked(d, q, s.table) =
            {r \in d[s.table] : /\ EmailOf(d, s.table, r) = q.of
                                /\ \E b \in KeyOf[s.table] : r[b] = q.key}
      BY <1>6 DEF Asked
    <2>3. \A r \in d[s.table] : (\E b \in KeyOf[s.table] : r[b] = q.key) <=> r[c] = q.key
      BY <1>3, <1>6, KeyTells
    <2>4. Picked(d, s) = Asked(d, q, s.table)
      BY <2>1, <2>2, <2>3
    <2>5. ASSUME NEW x \in Picked(d, s), NEW y \in Picked(d, s)
          PROVE  x = y
      <3>1. /\ x \in d[s.table] /\ y \in d[s.table] /\ x[c] = y[c]
            /\ x[OwnerColumn(s.table)] = y[OwnerColumn(s.table)]
        BY <1>2, <2>1
      <3>2. ~Breaks(d, s.table, x, d[s.table] \ {x}) /\ ~Breaks(d, s.table, y, d[s.table] \ {y})
        BY <1>3, <3>1 DEF Intact
      <3>3. OwnerColumn(s.table) \in RowColumns(s.table) \ Nullable
        BY OwnerColumns DEF RowColumns
      <3>4. x[c] # Null /\ x[OwnerColumn(s.table)] # Null
        BY <1>6, <3>2, <3>3 DEF Breaks
      <3>5. QED
        BY <1>6, <3>1, <3>2, <3>4 DEF Breaks
    <2>6. QED
      BY <2>4, <2>5
  <1>7. QED
    BY <1>5, <1>6

\* A select of the instances of whoever has the email.
LEMMA PicksByEmail ==
    ASSUME NEW q, NEW s, s.table \in OwnedTables, q.of # Null, q.key = Null,
           s.owner = [email |-> q.of], s.where = None, ~s.only
    PROVE  Faithful(q, 0, s)
  <1> SUFFICES ASSUME NEW d, NEW m, Intact(d, m)
               PROVE  Picked(d, s) = Asked(d, q, s.table)
    BY DEF Faithful
  <1>1. s.owner # None
    <2>1. DOMAIN s.owner = {"email"} /\ DOMAIN None = {}
      BY DEF None
    <2>2. QED
      BY <2>1
  <1>2. ASSUME NEW r \in d[s.table]
        PROVE  HasOwnerWith(d, s.table, r, s.owner) <=> EmailOf(d, s.table, r) = q.of
    <2>1. PICK u \in d["users"] :
              /\ u["id"] = r[OwnerColumn(s.table)] /\ EmailOf(d, s.table, r) = u["email"]
              /\ \A w \in d["users"] : w["id"] = r[OwnerColumn(s.table)] => w = u
      BY OwnerFacts
    <2>2. HasOwnerWith(d, s.table, r, s.owner) <=>
            \E w \in d["users"] : w["id"] = r[OwnerColumn(s.table)] /\ w["email"] = q.of
      BY DEF HasOwnerWith, Matches, OwnerColumn
    <2>3. QED
      BY <2>1, <2>2
  <1>3. Picked(d, s) = {r \in d[s.table] : HasOwnerWith(d, s.table, r, s.owner)}
    BY <1>1 DEF Picked, Matches, None
  <1>4. Asked(d, q, s.table) = {r \in d[s.table] : EmailOf(d, s.table, r) = q.of}
    BY DEF Asked
  <1>5. QED
    BY <1>2, <1>3, <1>4

\* A select of the account with an email, or with an id.
LEMMA PicksAccount ==
    ASSUME NEW q, NEW s, NEW a, s.table = "users", q.of # Null, q.key = Null,
           s.owner = None,
           \/ s.where = [email |-> q.of]
           \/ s.where = [id |-> a] /\ a # 0
    PROVE  /\ Faithful(q, a, s)
           /\ a # 0 => \A d, m : Intact(d, m) /\ Knows(d, a, q.of) => Picked(d, s) # {}
  <1>1. ASSUME NEW d, NEW m, Intact(d, m), Knows(d, a, q.of)
        PROVE  /\ Picked(d, s) = Asked(d, q, s.table)
               /\ \A x, y \in Picked(d, s) : x = y
               /\ a # 0 => Picked(d, s) # {}
    <2>1. Picked(d, s) = {u \in d["users"] : Matches(u, s.where)}
      BY DEF Picked
    <2>2. Asked(d, q, s.table) = {u \in d["users"] : u["email"] = q.of}
      BY DEF Asked, EmailOf
    <2>3. \A u, w \in d["users"] : u["email"] = w["email"] => u = w
      BY <1>1, EmailsDiffer
    <2>4. \A u, w \in d["users"] : u["id"] = w["id"] => u = w
      BY <1>1, IdsDiffer DEF Tables
    <2>5. \A u \in d["users"] : Matches(u, s.where) <=> u["email"] = q.of
      <3>1. CASE s.where = [email |-> q.of]
        BY <3>1 DEF Matches
      <3>2. CASE s.where = [id |-> a] /\ a # 0
        <4>1. \A u \in d["users"] : Matches(u, s.where) <=> u["id"] = a
          BY <3>2 DEF Matches
        <4>2. PICK v \in d["users"] : v["id"] = a /\ v["email"] = q.of
          BY <1>1, <3>2 DEF Knows
        <4>3. QED
          BY <2>3, <2>4, <4>1, <4>2
      <3>3. QED
        BY <3>1, <3>2
    <2>6. Picked(d, s) = {u \in d["users"] : u["email"] = q.of}
      BY <2>1, <2>5
    <2>7. a # 0 => Picked(d, s) # {}
      BY <1>1, <2>6 DEF Knows
    <2>8. \A x, y \in Picked(d, s) : x = y
      BY <2>3, <2>6
    <2>9. QED
      BY <2>2, <2>6, <2>7, <2>8
  <1>2. QED
    BY <1>1 DEF Faithful

-----------------------------------------------------------------------------
(* Reads: the selects of the queries.                                      *)

\* An edge is kept in a foreign key: of the row, which is never NULL, or of the neighbour.
FineEdge(t, e) ==
    LET l == Loads[t][e] IN
    /\ l.table \in Tables
    /\ \/ /\ l.inverse = TRUE /\ l.column \in DOMAIN ForeignKeys[t] \ Nullable
          /\ ForeignKeys[t][l.column] = l.table
       \/ /\ l.inverse = FALSE /\ l.column \in DOMAIN ForeignKeys[l.table]
          /\ ForeignKeys[l.table][l.column] = t

\* The edges that reads load.
LoadedEdges(t) == DOMAIN Loads[t] \ {"keypair"}

\* They are all kept that way.
LEMMA LoadedColumns ==
    ASSUME NEW t \in Tables, NEW e \in LoadedEdges(t)
    PROVE  FineEdge(t, e)
  <1>1. CASE t = "users"
    BY <1>1 DEF LoadedEdges, FineEdge, Loads, UserLoads, Tables, ForeignKeys, InstanceForeignKeys,
           KeyPairForeignKeys, ContainerForeignKeys, FunctionForeignKeys
  <1>2. CASE t = "instances"
    BY <1>2 DEF LoadedEdges, FineEdge, Loads, InstanceLoads, Tables, ForeignKeys,
           InstanceForeignKeys, AppForeignKeys, Nullable
  <1>3. CASE t = "apps"
    BY <1>3 DEF LoadedEdges, FineEdge, Loads, AppLoads, Tables, ForeignKeys, AppForeignKeys,
           Nullable
  <1>4. CASE t = "key_pairs"
    BY <1>4 DEF LoadedEdges, FineEdge, Loads, KeyPairLoads, Tables, ForeignKeys,
           KeyPairForeignKeys, InstanceForeignKeys, Nullable
  <1>5. CASE t = "containers"
    BY <1>5 DEF LoadedEdges, FineEdge, Loads, ContainerLoads, Tables, ForeignKeys,
           ContainerForeignKeys, Nullable
  <1>6. CASE t = "functions"
    BY <1>6 DEF LoadedEdges, FineEdge, Loads, FunctionLoads, Tables, ForeignKeys,
           FunctionForeignKeys, Nullable
  <1>7. QED
    BY <1>1, <1>2, <1>3, <1>4, <1>5, <1>6 DEF Tables

\* A select as the queries build them: a record, with edges that can be loaded.
AllColumns == UNION {Columns[t] : t \in Tables}
SelectFields ==
    {"table", "where", "owner", "cols", "edges", "count", "only", "page", "limit"}
IsSelect(s) ==
    /\ DOMAIN s = SelectFields
    /\ s.table \in Tables
    /\ s.edges \in Seq([edge : LoadedEdges(s.table), cols : SUBSET AllColumns])

\* Select x is select s but for field f.
But(s, x, f) == \A g \in SelectFields \ {f} : x[g] = s[g]

\* What Select, Only, With, Paged and Count make of a select: a plain one, ...
LEMMA SelectFacts ==
    ASSUME NEW t \in Tables, NEW where, NEW owner, NEW cols
    PROVE  LET s == Select(t, where, owner, cols)
           IN  /\ IsSelect(s) /\ s.table = t /\ s.where = where /\ s.owner = owner
               /\ s.edges = <<>> /\ s.count = FALSE /\ s.only = FALSE /\ s.page = 0
               /\ s.limit = 0
  BY DEF Select, IsSelect, SelectFields

\* ... one that wants exactly one row, ...
LEMMA OnlyFacts ==
    ASSUME NEW s, IsSelect(s)
    PROVE  IsSelect(Only(s)) /\ But(s, Only(s), "only") /\ Only(s).only = TRUE
  BY DEF Only, IsSelect, SelectFields, But

\* ... one that loads another edge, ...
LEMMA WithFacts ==
    ASSUME NEW s, IsSelect(s), NEW e \in LoadedEdges(s.table), NEW cols \in SUBSET AllColumns
    PROVE  /\ IsSelect(With(s, e, cols)) /\ But(s, With(s, e, cols), "edges")
           /\ Len(With(s, e, cols).edges) = Len(s.edges) + 1
           /\ With(s, e, cols).edges[Len(s.edges) + 1].edge = e
  <1>1. [edge |-> e, cols |-> cols] \in [edge : LoadedEdges(s.table), cols : SUBSET AllColumns]
    OBVIOUS
  <1>2. With(s, e, cols).edges = Append(s.edges, [edge |-> e, cols |-> cols])
    BY DEF With, IsSelect, SelectFields
  <1>3. DOMAIN With(s, e, cols) = SelectFields /\ But(s, With(s, e, cols), "edges")
    BY DEF With, IsSelect, SelectFields, But
  <1>4. With(s, e, cols).table = s.table
    BY <1>3 DEF But, SelectFields
  <1>5. /\ s.edges \in Seq([edge : LoadedEdges(s.table), cols : SUBSET AllColumns])
        /\ s.table \in Tables
    BY DEF IsSelect
  <1>6. With(s, e, cols).edges \in Seq([edge : LoadedEdges(s.table), cols : SUBSET AllColumns])
    BY <1>1, <1>2, <1>5
  <1>7. /\ Len(With(s, e, cols).edges) = Len(s.edges) + 1
        /\ With(s, e, cols).edges[Len(s.edges) + 1] = [edge |-> e, cols |-> cols]
    BY <1>1, <1>2, <1>5
  <1>8. QED
    BY <1>3, <1>4, <1>5, <1>6, <1>7 DEF IsSelect

\* ... one that takes a page, ...
LEMMA PagedFacts ==
    ASSUME NEW s, IsSelect(s), NEW p
    PROVE  /\ IsSelect(Paged(s, p)) /\ Paged(s, p).page = p.page /\ Paged(s, p).limit = p.limit
           /\ \A g \in SelectFields \ {"page", "limit"} : Paged(s, p)[g] = s[g]
  BY DEF Paged, IsSelect, SelectFields

\* ... and one that counts.
LEMMA CountSelect ==
    ASSUME NEW t \in Tables
    PROVE  /\ IsSelect(Count(t)) /\ Count(t).count = TRUE
           /\ But(Select(t, None, None, {}), Count(t), "count")
  <1>1. IsSelect(Select(t, None, None, {}))
    BY SelectFacts
  <1>2. QED
    BY <1>1 DEF Count, IsSelect, SelectFields, But

\* A select of query q, by the account with id a: what its fields can be together.
SelectFine(q, a, s) ==
    /\ IsSelect(s)
    /\ s.count \in BOOLEAN /\ s.only \in BOOLEAN
    /\ s.count => s.where = None /\ s.owner = None /\ s.edges = <<>> /\ ~s.only
    /\ ~s.count => Faithful(q, a, s)
    /\ s.page \in Nat /\ s.limit \in Nat
    /\ s.page # 0 => s.limit # 0 /\ ~s.only

\* A query by the account with id a.  The only select that must find a row asks for the
\* account itself; the others that want a row are alone.
QueryFine(q, a) ==
    /\ a \in Nat
    /\ \E n \in {1, 2, 4} : DOMAIN q.selects = 1 .. n
    /\ q.parallel \in BOOLEAN /\ q.must \in BOOLEAN
    /\ \A i \in DOMAIN q.selects : SelectFine(q, a, q.selects[i])
    /\ \A i \in DOMAIN q.selects : q.selects[i].only =>
          \/ DOMAIN q.selects = 1 .. 1
          \/ \A d, m : Intact(d, m) /\ Knows(d, a, q.of) => Picked(d, q.selects[i]) # {}
    /\ q.must =>
          /\ DOMAIN q.selects = 1 .. 1 /\ q.selects[1].only
          /\ Len(q.selects[1].edges) = 1
          /\ Loads[q.selects[1].table][Edge(q.selects[1], 1)].inverse

-----------------------------------------------------------------------------
(* Reads: pages.                                                           *)

\* Numbers a whole multiple apart are at least that far apart.
LEMMA Multiples ==
    ASSUME NEW x \in Int, NEW y \in Int, NEW b \in Nat, NEW l \in Nat \ {0},
           x * l <= b, b < x * l + l, y * l <= b, b < y * l + l
    PROVE  x = y
  <1>1. ASSUME NEW u \in Int, NEW v \in Int, u < v
        PROVE  u * l + l <= v * l
    <2>1. PICK c \in Nat : v = u + 1 + c
      BY <1>1
    <2>2. v * l = u * l + l + c * l /\ c * l >= 0
      BY <2>1
    <2>3. QED
      BY <2>2
  <1>2. ~(x < y) /\ ~(y < x)
    BY <1>1
  <1>3. QED
    BY <1>2

\* Rows from an offset, up to a limit, are those with so many full pages before them.
LEMMA PageOfOffset ==
    ASSUME NEW b \in Nat, NEW p \in Nat \ {0}, NEW l \in Nat \ {0}
    PROVE  (b >= (p - 1) * l /\ b < (p - 1) * l + l) <=> b \div l = p - 1
  <1>1. b \div l \in Nat /\ (b \div l) * l <= b /\ b < (b \div l) * l + l
    OBVIOUS
  <1>2. ASSUME b >= (p - 1) * l, b < (p - 1) * l + l
        PROVE  b \div l = p - 1
    BY <1>1, <1>2, Multiples
  <1>3. QED
    BY <1>1, <1>2

\* So the statement's page is the page that is asked for.
LEMMA PagesAgree ==
    ASSUME NEW rows, IsFiniteSet(rows), NEW s, s.page \in Nat \ {0}, s.limit \in Nat \ {0}
    PROVE  Page(rows, pageOffset(s), s.limit) = OnPage(rows, s)
  <1>1. ASSUME NEW r \in rows
        PROVE  Cardinality({o \in rows : o.created_at > r.created_at}) \in Nat
    <2>1. {o \in rows : o.created_at > r.created_at} \subseteq rows
      OBVIOUS
    <2>2. QED
      BY <2>1, FS_Subset, FS_CardinalityType
  <1>2. QED
    BY <1>1, PageOfOffset DEF Page, OnPage, pageOffset

\* The number of pages that is answered is the least that holds all rows.
LEMMA PageCount ==
    ASSUME NEW n \in Nat, NEW s, s.limit \in Nat
    PROVE  paginationResponse(s, n) =
              CHOOSE p \in 0 .. n :
                  \/ s.limit = 0 /\ p = 0
                  \/ s.limit > 0 /\ p * s.limit >= n /\ (p > 0 => (p - 1) * s.limit < n)
  <1> DEFINE l == s.limit
             Fits(p) == \/ l = 0 /\ p = 0
                        \/ l > 0 /\ p * l >= n /\ (p > 0 => (p - 1) * l < n)
             k == paginationResponse(s, n)
  <1>1. k \in 0 .. n /\ Fits(k)
    <2>1. CASE l = 0 \/ n = 0
      <3>1. k = 0
        BY <2>1 DEF paginationResponse
      <3>2. l = 0 \/ (l > 0 /\ 0 * l >= n)
        BY <2>1
      <3>3. QED
        BY <3>1, <3>2
    <2>2. CASE l > 0 /\ n > 0
      <3> DEFINE b == n + l - 1
      <3>1. k = b \div l /\ b \in Nat /\ l \in Nat \ {0}
        BY <2>2 DEF paginationResponse
      <3>2. k \in Nat /\ k * l <= b /\ b < k * l + l
        BY <3>1
      <3>3. k * l >= n
        BY <2>2, <3>2
      <3>4. (k - 1) * l = k * l - l
        BY <3>2
      <3>5. (k - 1) * l < n
        BY <2>2, <3>2, <3>4
      <3>6. k <= n
        <4>1. SUFFICES ASSUME k > n PROVE FALSE
          BY <3>2
        <4>2. PICK c \in Nat : k = n + 1 + c
          BY <3>2, <4>1
        <4>3. (k - 1) * l = n * l + c * l /\ c * l >= 0 /\ n * l >= n
          BY <2>2, <4>2
        <4>4. QED
          BY <3>5, <4>3
      <3>7. QED
        BY <2>2, <3>2, <3>3, <3>5, <3>6
    <2>3. QED
      BY <2>1, <2>2
  <1>2. ASSUME NEW p \in 0 .. n, Fits(p)
        PROVE  p = k
    <2>1. CASE l = 0
      BY <1>1, <1>2, <2>1
    <2>2. CASE l > 0 /\ n = 0
      BY <1>1, <1>2, <2>2
    <2>3. CASE l > 0 /\ n > 0
      <3>1. ASSUME NEW x \in 0 .. n, x * l >= n, x > 0 => (x - 1) * l < n
            PROVE  (x - 1) * l <= n - 1 /\ n - 1 < (x - 1) * l + l /\ x - 1 \in Int
        <4>1. (x - 1) * l + l = x * l
          OBVIOUS
        <4>2. x > 0
          BY <2>3, <3>1
        <4>3. QED
          BY <2>3, <3>1, <4>1, <4>2
      <3>2. p - 1 = k - 1
        <4>1. n - 1 \in Nat /\ l \in Nat \ {0}
          BY <2>3
        <4>2. /\ (p - 1) * l <= n - 1 /\ n - 1 < (p - 1) * l + l /\ p - 1 \in Int
              /\ (k - 1) * l <= n - 1 /\ n - 1 < (k - 1) * l + l /\ k - 1 \in Int
          BY <1>1, <1>2, <2>3, <3>1
        <4> HIDE DEF k, l
        <4>3. QED
          BY <4>1, <4>2, Multiples
      <3>3. QED
        BY <1>1, <3>2
    <2>4. QED
      BY <2>1, <2>2, <2>3
  <1>3. QED
    BY <1>1, <1>2

-----------------------------------------------------------------------------
(* Reads: facts.                                                           *)

\* The facts of a select, and how its k-th edge is stored.
Row(i, y) == <<i, "row", 0, y>>
Link(i, k, a, b) == <<i, "link", k, <<a, b>>>>
Near(i, k, a, y) == <<i, "near", k, <<a, y>>>>
Stored(s, k) == Loads[s.table][Edge(s, k)]

\* Row r and its neighbour o over an edge that is stored as l says.
Joined(l, r, o) == IF l.inverse THEN o["id"] = r[l.column] ELSE o[l.column] = r["id"]

\* The rows that select i tells of when it is answered at once.
Sought(d, q, i) ==
    LET s == q.selects[i]
        rows == Asked(d, q, s.table)
    IN  IF s.page = 0 THEN rows ELSE OnPage(rows, s)

\* A fact that an answer given at once contains is one of these.
LEMMA FactForms ==
    ASSUME NEW d, NEW q, NEW x \in AtOnce(d, q)
    PROVE  \E i \in DOMAIN q.selects :
              LET s == q.selects[i] IN
              \/ s.count /\ x \in Counted(d, q, i)
              \/ /\ ~s.count
                 /\ \E r \in Sought(d, q, i) :
                       \/ x = Row(i, OnlyIn(r, s.cols))
                       \/ \E k \in DOMAIN s.edges :
                             \E o \in d[Stored(s, k).table] :
                                /\ Joined(Stored(s, k), r, o)
                                /\ \/ x = Link(i, k, r["id"], o["id"])
                                   \/ x = Near(i, k, o["id"], OnlyIn(o, s.edges[k].cols))
  <1>1. PICK i \in DOMAIN q.selects :
            x \in (IF q.selects[i].count THEN Counted(d, q, i)
                   ELSE Told(d, q, i, Sought(d, q, i)))
    BY DEF AtOnce, Sought
  <1> DEFINE s == q.selects[i]
  <1>2. CASE ~s.count
    <2>1. x \in Told(d, q, i, Sought(d, q, i))
      BY <1>1, <1>2
    <2>2. \/ \E r \in Sought(d, q, i) : x = RowFact(q, i, r)
          \/ \E r \in Sought(d, q, i) : \E k \in DOMAIN s.edges :
                \E o \in Linked(d, s.table, r, Edge(s, k)) : x \in LinkFacts(q, i, k, r, o)
      BY <2>1 DEF Told
    <2>3. CASE \E r \in Sought(d, q, i) : x = RowFact(q, i, r)
      BY <1>2, <2>3 DEF RowFact, Row
    <2>4. ASSUME NEW r \in Sought(d, q, i), NEW k \in DOMAIN s.edges,
                 NEW o \in Linked(d, s.table, r, Edge(s, k)), x \in LinkFacts(q, i, k, r, o)
          PROVE  /\ o \in d[Stored(s, k).table] /\ Joined(Stored(s, k), r, o)
                 /\ \/ x = Link(i, k, r["id"], o["id"])
                    \/ x = Near(i, k, o["id"], OnlyIn(o, s.edges[k].cols))
      BY <2>4 DEF Linked, LinkFacts, NearFact, Link, Near, Stored, Joined
    <2>5. QED
      BY <1>2, <2>2, <2>3, <2>4
  <1>3. QED
    BY <1>1, <1>2

\* The same for the facts of one select.
LEMMA FactOf ==
    ASSUME NEW d, NEW q, NEW i \in DOMAIN q.selects, NEW x \in AtOnce(d, q), x[1] = i
    PROVE  LET s == q.selects[i] IN
           \/ s.count /\ x \in Counted(d, q, i)
           \/ /\ ~s.count
              /\ \E r \in Sought(d, q, i) :
                    \/ x = Row(i, OnlyIn(r, s.cols))
                    \/ \E k \in DOMAIN s.edges :
                          \E o \in d[Stored(s, k).table] :
                             /\ Joined(Stored(s, k), r, o)
                             /\ \/ x = Link(i, k, r["id"], o["id"])
                                \/ x = Near(i, k, o["id"], OnlyIn(o, s.edges[k].cols))
  <1>1. PICK j \in DOMAIN q.selects :
            \/ q.selects[j].count /\ x \in Counted(d, q, j)
            \/ /\ ~q.selects[j].count
               /\ \E r \in Sought(d, q, j) :
                     \/ x = Row(j, OnlyIn(r, q.selects[j].cols))
                     \/ \E k \in DOMAIN q.selects[j].edges :
                           \E o \in d[Stored(q.selects[j], k).table] :
                              /\ Joined(Stored(q.selects[j], k), r, o)
                              /\ \/ x = Link(j, k, r["id"], o["id"])
                                 \/ x = Near(j, k, o["id"],
                                             OnlyIn(o, q.selects[j].edges[k].cols))
    BY FactForms
  <1>2. ASSUME x \in Counted(d, q, j) PROVE x[1] = j
    BY <1>2 DEF Counted, CountFacts
  <1>3. \A k, a, b, y : Row(j, y)[1] = j /\ Link(j, k, a, b)[1] = j /\ Near(j, k, a, y)[1] = j
    BY DEF Row, Link, Near
  <1>4. x[1] = j
    BY <1>1, <1>2, <1>3
  <1>5. QED
    BY <1>1, <1>4

\* A fact of a select that counts is its count.
LEMMA CountKinds ==
    ASSUME NEW d, NEW q, NEW i \in DOMAIN q.selects, q.selects[i].count,
           NEW x \in AtOnce(d, q), x[1] = i
    PROVE  x \in Counted(d, q, i)
  BY FactOf

\* A row with columns y, or a neighbour over the k-th edge, with id a and columns y.
RowSought(d, q, i, y) == \E r \in Sought(d, q, i) : y = OnlyIn(r, q.selects[i].cols)

NearSought(d, q, i, k, a, y) ==
    LET s == q.selects[i] IN
    \E r \in Sought(d, q, i) : \E o \in d[Stored(s, k).table] :
        Joined(Stored(s, k), r, o) /\ a = o["id"] /\ y = OnlyIn(o, s.edges[k].cols)

\* What is told of a row is told of one of the rows, ...
LEMMA RowKinds ==
    ASSUME NEW d, NEW q, NEW i \in DOMAIN q.selects, ~q.selects[i].count,
           NEW y, Row(i, y) \in AtOnce(d, q)
    PROVE  RowSought(d, q, i, y)
  <1> DEFINE s == q.selects[i]
  <1>1. Row(i, y)[1] = i
    BY DEF Row
  <1>2. PICK r \in Sought(d, q, i) :
            \/ Row(i, y) = Row(i, OnlyIn(r, s.cols))
            \/ \E k \in DOMAIN s.edges : \E o \in d[Stored(s, k).table] :
                  \/ Row(i, y) = Link(i, k, r["id"], o["id"])
                  \/ Row(i, y) = Near(i, k, o["id"], OnlyIn(o, s.edges[k].cols))
    BY <1>1, FactOf
  <1>3. /\ \A k, b, c : Row(i, y) # Link(i, k, b, c)
        /\ \A k, b, z : Row(i, y) # Near(i, k, b, z)
        /\ \A z : Row(i, y) = Row(i, z) => y = z
    BY DEF Row, Link, Near
  <1>4. QED
    BY <1>2, <1>3 DEF RowSought

\* ... a link leads from one of the rows, ...
LEMMA LinkKinds ==
    ASSUME NEW d, NEW q, NEW i \in DOMAIN q.selects, ~q.selects[i].count,
           NEW k, NEW a, NEW b, Link(i, k, a, b) \in AtOnce(d, q)
    PROVE  LET s == q.selects[i]
           IN  /\ k \in DOMAIN s.edges
               /\ \E r \in Sought(d, q, i) : \E o \in d[Stored(s, k).table] :
                     Joined(Stored(s, k), r, o) /\ a = r["id"] /\ b = o["id"]
  <1> DEFINE s == q.selects[i]
  <1>1. Link(i, k, a, b)[1] = i
    BY DEF Link
  <1>2. PICK r \in Sought(d, q, i) :
            \/ Link(i, k, a, b) = Row(i, OnlyIn(r, s.cols))
            \/ \E l \in DOMAIN s.edges : \E o \in d[Stored(s, l).table] :
                  /\ Joined(Stored(s, l), r, o)
                  /\ \/ Link(i, k, a, b) = Link(i, l, r["id"], o["id"])
                     \/ Link(i, k, a, b) = Near(i, l, o["id"], OnlyIn(o, s.edges[l].cols))
    BY <1>1, FactOf
  <1>3. /\ \A z : Link(i, k, a, b) # Row(i, z)
        /\ \A l, c, z : Link(i, k, a, b) # Near(i, l, c, z)
        /\ \A l, c, z : Link(i, k, a, b) = Link(i, l, c, z) => k = l /\ a = c /\ b = z
    BY DEF Row, Link, Near
  <1> HIDE DEF s
  <1>4. PICK l \in DOMAIN s.edges :
            \E o \in d[Stored(s, l).table] :
                Joined(Stored(s, l), r, o) /\ Link(i, k, a, b) = Link(i, l, r["id"], o["id"])
    BY <1>2, <1>3
  <1>5. PICK o \in d[Stored(s, l).table] :
            Joined(Stored(s, l), r, o) /\ Link(i, k, a, b) = Link(i, l, r["id"], o["id"])
    BY <1>4
  <1>6. k = l /\ a = r["id"] /\ b = o["id"]
    BY <1>3, <1>5
  <1>7. /\ k \in DOMAIN s.edges
        /\ \E n \in Sought(d, q, i) : \E p \in d[Stored(s, k).table] :
              Joined(Stored(s, k), n, p) /\ a = n["id"] /\ b = p["id"]
    BY <1>5, <1>6
  <1>8. QED
    BY <1>7 DEF s

\* ... and a neighbour is the neighbour of one of them.
LEMMA NearKinds ==
    ASSUME NEW d, NEW q, NEW i \in DOMAIN q.selects, ~q.selects[i].count,
           NEW k, NEW a, NEW y, Near(i, k, a, y) \in AtOnce(d, q)
    PROVE  k \in DOMAIN q.selects[i].edges /\ NearSought(d, q, i, k, a, y)
  <1> DEFINE s == q.selects[i]
  <1>1. Near(i, k, a, y)[1] = i
    BY DEF Near
  <1>2. PICK r \in Sought(d, q, i) :
            \/ Near(i, k, a, y) = Row(i, OnlyIn(r, s.cols))
            \/ \E l \in DOMAIN s.edges : \E o \in d[Stored(s, l).table] :
                  /\ Joined(Stored(s, l), r, o)
                  /\ \/ Near(i, k, a, y) = Link(i, l, r["id"], o["id"])
                     \/ Near(i, k, a, y) = Near(i, l, o["id"], OnlyIn(o, s.edges[l].cols))
    BY <1>1, FactOf
  <1>3. /\ \A z : Near(i, k, a, y) # Row(i, z)
        /\ \A l, c, z : Near(i, k, a, y) # Link(i, l, c, z)
        /\ \A l, c, z : Near(i, k, a, y) = Near(i, l, c, z) => k = l /\ a = c /\ y = z
    BY DEF Row, Link, Near
  <1> HIDE DEF s
  <1>4. PICK l \in DOMAIN s.edges :
            \E o \in d[Stored(s, l).table] :
                /\ Joined(Stored(s, l), r, o)
                /\ Near(i, k, a, y) = Near(i, l, o["id"], OnlyIn(o, s.edges[l].cols))
    BY <1>2, <1>3
  <1>5. PICK o \in d[Stored(s, l).table] :
            /\ Joined(Stored(s, l), r, o)
            /\ Near(i, k, a, y) = Near(i, l, o["id"], OnlyIn(o, s.edges[l].cols))
    BY <1>4
  <1>6. k = l /\ a = o["id"] /\ y = OnlyIn(o, s.edges[l].cols)
    BY <1>3, <1>5
  <1>7. /\ k \in DOMAIN s.edges
        /\ \E n \in Sought(d, q, i) : \E p \in d[Stored(s, k).table] :
              /\ Joined(Stored(s, k), n, p)
              /\ a = p["id"] /\ y = OnlyIn(p, s.edges[k].cols)
    BY <1>5, <1>6
  <1>8. QED
    BY <1>7 DEF s, NearSought

\* What is true of the rows that are asked for, and of the neighbours there are.
LEMMA TruthHolds ==
    ASSUME NEW d, NEW q, NEW i \in DOMAIN q.selects
    PROVE  LET s == q.selects[i]
           IN  /\ s.count => Counted(d, q, i) \subseteq Truth(d, q)
               /\ ~s.count =>
                     /\ \A r \in Asked(d, q, s.table) : Row(i, OnlyIn(r, s.cols)) \in Truth(d, q)
                     /\ \A r \in Asked(d, q, s.table) : \A k \in DOMAIN s.edges :
                           \A o \in d[Stored(s, k).table] : Joined(Stored(s, k), r, o) =>
                              Link(i, k, r["id"], o["id"]) \in Truth(d, q)
                     /\ \A k \in DOMAIN s.edges : \A o \in d[Stored(s, k).table] :
                           Near(i, k, o["id"], OnlyIn(o, s.edges[k].cols)) \in Truth(d, q)
  <1> DEFINE s == q.selects[i]
  <1>1. CASE s.count
    BY <1>1 DEF Truth
  <1>2. CASE ~s.count
    <2>1. /\ Told(d, q, i, Asked(d, q, s.table)) \subseteq Truth(d, q)
          /\ Neighbouring(d, q, i) \subseteq Truth(d, q)
      BY <1>2 DEF Truth
    <2>2. ASSUME NEW r \in Asked(d, q, s.table)
          PROVE  Row(i, OnlyIn(r, s.cols)) \in Truth(d, q)
      BY <2>1 DEF Told, RowFact, Row
    <2>3. ASSUME NEW r \in Asked(d, q, s.table), NEW k \in DOMAIN s.edges,
                 NEW o \in d[Stored(s, k).table], Joined(Stored(s, k), r, o)
          PROVE  Link(i, k, r["id"], o["id"]) \in Truth(d, q)
      <3>1. o \in Linked(d, s.table, r, Edge(s, k))
        BY <2>3 DEF Linked, Stored, Joined
      <3>2. LinkFacts(q, i, k, r, o) \subseteq Told(d, q, i, Asked(d, q, s.table))
        <4>1. LinkFacts(q, i, k, r, o) \subseteq
                 UNION {LinkFacts(q, i, k, r, n) : n \in Linked(d, s.table, r, Edge(s, k))}
          BY <3>1
        <4>2. UNION {LinkFacts(q, i, k, r, n) : n \in Linked(d, s.table, r, Edge(s, k))}
                 \subseteq Told(d, q, i, Asked(d, q, s.table))
          <5> DEFINE rows == Asked(d, q, s.table)
                     All(x, l) == UNION {LinkFacts(q, i, l, x, n) :
                                            n \in Linked(d, s.table, x, Edge(s, l))}
          <5>1. UNION {All(x, l) : x \in rows, l \in DOMAIN s.edges} \subseteq Told(d, q, i, rows)
            BY DEF Told
          <5>2. All(r, k) \in {All(x, l) : x \in rows, l \in DOMAIN s.edges}
            OBVIOUS
          <5>3. All(r, k) \subseteq Told(d, q, i, rows)
            <6> HIDE DEF rows, All
            <6>1. QED
              BY <5>1, <5>2
          <5>4. QED
            BY <5>3
        <4>3. QED
          BY <4>1, <4>2
      <3>3. Link(i, k, r["id"], o["id"]) \in LinkFacts(q, i, k, r, o)
        BY DEF LinkFacts, Link
      <3>4. QED
        BY <2>1, <3>2, <3>3
    <2>4. ASSUME NEW k \in DOMAIN s.edges, NEW o \in d[Stored(s, k).table]
          PROVE  Near(i, k, o["id"], OnlyIn(o, s.edges[k].cols)) \in Truth(d, q)
      BY <2>1 DEF Neighbouring, NearFact, Near, Stored
    <2>5. QED
      BY <1>2, <2>2, <2>3, <2>4
  <1>3. QED
    BY <1>1, <1>2

\* A row that stays who it is stays among what is asked for, or outside.
LEMMA AskedStays ==
    ASSUME NEW d, NEW m, Intact(d, m), NEW e, NEW k, Intact(e, k), KeepsRows(d, m, e),
           NEW q, NEW t \in Tables, NEW o \in d[t], NEW n \in e[t], SameRow(t, n, o)
    PROVE  n \in Asked(e, q, t) <=> o \in Asked(d, q, t)
  <1>1. \A c \in FixedColumns(t) : o[c] = n[c]
    BY DEF SameRow
  <1>2. EmailOf(e, t, n) = EmailOf(d, t, o)
    <2>1. CASE t = "users"
      <3>1. "email" \in FixedColumns(t)
        BY <2>1 DEF FixedColumns, KeyOf
      <3>2. QED
        BY <1>1, <2>1, <3>1 DEF EmailOf
    <2>2. CASE t = "apps"
      BY <2>2 DEF EmailOf
    <2>3. CASE t \in OwnedTables
      <3>1. PICK u \in d["users"] : u["id"] = o[OwnerColumn(t)] /\ EmailOf(d, t, o) = u["email"]
        BY <2>3, OwnerFacts
      <3>2. PICK w \in e["users"] :
                /\ w["id"] = n[OwnerColumn(t)] /\ EmailOf(e, t, n) = w["email"]
                /\ \A x \in e["users"] : x["id"] = n[OwnerColumn(t)] => x = w
        BY <2>3, OwnerFacts
      <3>3. PICK v \in e["users"] : SameRow("users", v, u)
        BY DEF KeepsRows, Lasts
      <3>4. v["id"] = u["id"] /\ v["email"] = u["email"]
        BY <3>3 DEF SameRow, FixedColumns, KeyOf
      <3>5. o[OwnerColumn(t)] = n[OwnerColumn(t)]
        BY <1>1, <2>3, OwnerColumns DEF FixedColumns
      <3>6. QED
        BY <3>1, <3>2, <3>4, <3>5
    <2>4. QED
      BY <2>1, <2>2, <2>3 DEF Tables, OwnedTables
  <1>3. \A c \in KeyOf[t] : o[c] = n[c]
    BY <1>1 DEF FixedColumns
  <1>4. QED
    BY <1>2, <1>3 DEF Asked

-----------------------------------------------------------------------------
(* Reads: what a select knows.                                             *)

\* Select i of query q and what it has, g.  A row that it read: it was asked for, and still
\* is while it exists; where it refers to was linked to it.
Seen(d, m, q, ever, i, r) ==
    LET s == q.selects[i] IN
    /\ RowOf(s.table, m[s.table], r)
    /\ Row(i, OnlyIn(r, s.cols)) \in ever
    /\ \A k \in DOMAIN s.edges :
          Stored(s, k).inverse => Link(i, k, r["id"], r[Stored(s, k).column]) \in ever
    /\ \A n \in d[s.table] : n["id"] = r["id"] =>
          n \in Asked(d, q, s.table) /\ SameRow(s.table, n, r)

\* What was true throughout is about the rows it read.
Covered(d, q, always, i, g) ==
    LET s == q.selects[i] IN
    /\ \A y : Row(i, y) \in always => \E r \in g.rows : y = OnlyIn(r, s.cols)
    /\ \A k, a, b : Link(i, k, a, b) \in always => \E r \in g.rows : r["id"] = a
    /\ \A k \in DOMAIN s.edges : \A a, y : Near(i, k, a, y) \in always =>
          \A o \in d[Stored(s, k).table] :
              o["id"] = a => \E r \in g.rows : Joined(Stored(s, k), r, o)

\* Its k-th edge, loaded: what is attached was true, and nothing is left out.
Loaded(q, ever, always, i, g, k) ==
    LET s == q.selects[i] IN
    /\ \A r \in g.rows, o \in g.near[k] : Joined(Stored(s, k), r, o) =>
          /\ Link(i, k, r["id"], o["id"]) \in ever
          /\ Near(i, k, o["id"], OnlyIn(o, s.edges[k].cols)) \in ever
    /\ \A a, b : Link(i, k, a, b) \in always =>
          \E r \in g.rows, o \in g.near[k] :
              Joined(Stored(s, k), r, o) /\ r["id"] = a /\ o["id"] = b
    /\ \A a, y : Near(i, k, a, y) \in always =>
          \E r \in g.rows, o \in g.near[k] :
              /\ Joined(Stored(s, k), r, o)
              /\ o["id"] = a /\ y = OnlyIn(o, s.edges[k].cols)

\* The record of a select.
Shape(s, g) ==
    /\ g = [done |-> g.done, rows |-> g.rows, near |-> g.near, n |-> g.n, err |-> g.err]
    /\ g.near = [k \in 1 .. Len(s.edges) |-> g.near[k]]
    /\ g.done \in Nat

\* What a select that has begun knows: its number of rows, or its rows and edges.
CountRead(q, ever, always, i, g) ==
    LET facts == CountFacts(i, g.n, paginationResponse(q.selects[i], g.n)) IN
    facts \subseteq ever /\ \A x \in always : x[1] = i => x \in facts

RowsRead(d, m, q, ever, always, i, g) ==
    LET s == q.selects[i] IN
    /\ \A r \in g.rows : Seen(d, m, q, ever, i, r)
    /\ Covered(d, q, always, i, g)
    /\ s.only /\ g.err = "" => g.rows # {}
    /\ \A k \in DOMAIN s.edges :
          IF k < g.done THEN Loaded(q, ever, always, i, g, k) ELSE g.near[k] = {}

SelectRead(d, m, q, ever, always, i, g) ==
    LET s == q.selects[i] IN
    /\ Shape(s, g)
    /\ g.done = 0 => g = Blank(s)
    /\ g.err # "" => g.err = "not found" /\ always = {}
    /\ s.count /\ g.done > 0 => CountRead(q, ever, always, i, g)
    /\ ~s.count /\ g.done > 0 => RowsRead(d, m, q, ever, always, i, g)

\* An edge of a select is stored in a foreign key, and its tables are tables.
LEMMA EdgeStored ==
    ASSUME NEW s, IsSelect(s), NEW k \in DOMAIN s.edges
    PROVE  /\ s.table \in Tables /\ Stored(s, k).table \in Tables
           /\ \/ /\ Stored(s, k).inverse = TRUE
                 /\ Stored(s, k).column \in DOMAIN ForeignKeys[s.table] \ Nullable
                 /\ ForeignKeys[s.table][Stored(s, k).column] = Stored(s, k).table
              \/ /\ Stored(s, k).inverse = FALSE
                 /\ Stored(s, k).column \in DOMAIN ForeignKeys[Stored(s, k).table]
                 /\ ForeignKeys[Stored(s, k).table][Stored(s, k).column] = s.table
  <1>1. /\ s.table \in Tables
        /\ s.edges \in Seq([edge : LoadedEdges(s.table), cols : SUBSET AllColumns])
    BY DEF IsSelect
  <1>2. s.edges[k] \in [edge : LoadedEdges(s.table), cols : SUBSET AllColumns]
    <2> DEFINE E == [edge : LoadedEdges(s.table), cols : SUBSET AllColumns]
    <2>1. s.edges \in Seq(E)
      BY <1>1
    <2> HIDE DEF E
    <2>2. s.edges[k] \in E
      BY <2>1
    <2>3. QED
      BY <2>2 DEF E
  <1>3. Edge(s, k) \in LoadedEdges(s.table)
    BY <1>2 DEF Edge
  <1>4. FineEdge(s.table, Edge(s, k))
    BY <1>1, <1>3, LoadedColumns
  <1>5. QED
    BY <1>1, <1>4 DEF FineEdge, Stored

\* What select i has after the statement for its rows, in the terms of the query.
Found(d, q, i, g) ==
    LET s == q.selects[i] IN
    /\ Shape(s, g) /\ g.done = 1
    /\ \A k \in DOMAIN s.edges : g.near[k] = {}
    /\ s.count => /\ g.err = ""
                  /\ CountFacts(i, g.n, paginationResponse(s, g.n)) = Counted(d, q, i)
    /\ ~s.count => /\ g.rows = Sought(d, q, i) /\ Sought(d, q, i) \subseteq d[s.table]
                   /\ Sought(d, q, i) \subseteq Asked(d, q, s.table)
    /\ g.err \in {"", "not found"}
    /\ s.only => (g.err = "" <=> g.rows # {}) /\ (g.err = "" <=> Picked(d, s) # {})
    /\ ~s.only => g.err = ""

\* That statement finds it.
LEMMA RowStatement ==
    ASSUME NEW d, NEW m, Intact(d, m), NEW q, NEW a, Knows(d, a, q.of),
           NEW i \in DOMAIN q.selects, SelectFine(q, a, q.selects[i])
    PROVE  Found(d, q, i, sqlAll(d, q.selects[i]))
  <1> DEFINE s == q.selects[i]
             g == sqlAll(d, s)
             rows == Picked(d, s)
             taken == IF s.page = 0 THEN rows ELSE Page(rows, pageOffset(s), s.limit)
  <1>1. /\ s.table \in Tables /\ s.count \in BOOLEAN /\ s.only \in BOOLEAN
        /\ s.page \in Nat /\ s.limit \in Nat
    BY DEF SelectFine, IsSelect
  <1>2. g = [done |-> 1, rows |-> IF s.count THEN {} ELSE Nodes(s.table, taken),
             near |-> [k \in 1 .. Len(s.edges) |-> {}], n |-> Cardinality(rows),
             err |-> IF s.only THEN OnlyErr(rows) ELSE ""]
    <2>1. g = [Blank(s) EXCEPT !.done = 1,
                               !.rows = IF s.count THEN {} ELSE Nodes(s.table, taken),
                               !.n = Cardinality(rows),
                               !.err = IF s.only THEN OnlyErr(rows) ELSE ""]
      BY DEF sqlAll, Picked
    <2> HIDE DEF g, rows, taken
    <2>2. QED
      BY <2>1 DEF Blank
  <1>3. rows \subseteq d[s.table] /\ IsFiniteSet(rows)
    <2>1. rows \subseteq d[s.table]
      BY DEF Picked
    <2>2. IsFiniteSet(d[s.table])
      BY <1>1 DEF Intact
    <2>3. QED
      BY <2>1, <2>2, FS_Subset
  <1>4. DOMAIN s.edges = 1 .. Len(s.edges)
    <2>1. s.edges \in Seq([edge : LoadedEdges(s.table), cols : SUBSET AllColumns])
      BY DEF SelectFine, IsSelect
    <2>2. QED
      BY <2>1
  <1>5. Shape(s, g) /\ g.done = 1 /\ \A k \in DOMAIN s.edges : g.near[k] = {}
    <2> HIDE DEF s, g, rows, taken
    <2>1. QED
      BY <1>2, <1>4 DEF Shape
  <1>6. ASSUME s.count
        PROVE  g.err = "" /\ CountFacts(i, g.n, paginationResponse(s, g.n)) = Counted(d, q, i)
    <2>1. s.where = None /\ s.owner = None /\ ~s.only
      BY <1>6 DEF SelectFine
    <2>2. rows = d[s.table]
      BY <2>1 DEF Picked, Matches, None
    <2>3. g.n = Cardinality(d[s.table]) /\ g.err = ""
      <3> HIDE DEF g, rows, taken
      <3>1. QED
        BY <1>2, <2>1, <2>2
    <2>4. g.n \in Nat
      BY <1>3, <2>2, <2>3, FS_CardinalityType
    <2>5. paginationResponse(s, g.n) =
             CHOOSE p \in 0 .. g.n :
                 \/ s.limit = 0 /\ p = 0
                 \/ s.limit > 0 /\ p * s.limit >= g.n /\ (p > 0 => (p - 1) * s.limit < g.n)
      BY <1>1, <2>4, PageCount
    <2>6. QED
      BY <2>3, <2>5 DEF Counted
  <1>7. ASSUME ~s.count
        PROVE  /\ g.rows = Sought(d, q, i) /\ Sought(d, q, i) \subseteq rows
               /\ rows = Asked(d, q, s.table)
    <2>1. rows = Asked(d, q, s.table)
      BY <1>7 DEF SelectFine, Faithful
    <2>2. taken = Sought(d, q, i)
      <3>1. CASE s.page = 0
        BY <2>1, <3>1 DEF Sought
      <3>2. CASE s.page # 0
        <4>1. s.page \in Nat \ {0} /\ s.limit \in Nat \ {0}
          BY <1>1, <3>2 DEF SelectFine
        <4>2. Page(rows, pageOffset(s), s.limit) = OnPage(rows, s)
          BY <1>3, <4>1, PagesAgree
        <4>3. QED
          BY <2>1, <3>2, <4>2 DEF Sought
      <3>3. QED
        BY <3>1, <3>2
    <2>3. Sought(d, q, i) \subseteq Asked(d, q, s.table)
      BY DEF Sought, OnPage
    <2>4. Nodes(s.table, taken) = taken
      BY <1>1, <1>3, <2>1, <2>2, <2>3, NodesAreRows
    <2>5. g.rows = Nodes(s.table, taken)
      <3> HIDE DEF g, rows, taken
      <3>1. QED
        BY <1>2, <1>7
    <2>6. QED
      BY <2>1, <2>2, <2>3, <2>4, <2>5
  <1>8. ASSUME s.only
        PROVE  /\ g.err \in {"", "not found"} /\ (g.err = "" <=> rows # {})
               /\ (g.err = "" <=> g.rows # {})
    <2>1. ~s.count /\ s.page = 0
      BY <1>8 DEF SelectFine
    <2>2. \A x, y \in rows : x = y
      BY <1>8, <2>1 DEF SelectFine, Faithful
    <2>3. rows # {} => Cardinality(rows) = 1
      <3>1. ASSUME NEW x \in rows PROVE rows = {x}
        BY <2>2
      <3>2. \A x : Cardinality({x}) = 1
        BY FS_Singleton
      <3>3. QED
        BY <3>1, <3>2
    <2>4. g.err = OnlyErr(rows)
      BY <1>2, <1>8
    <2>5. g.err = IF rows = {} THEN "not found" ELSE ""
      BY <2>3, <2>4 DEF OnlyErr
    <2>6. g.rows = rows
      BY <1>7, <2>1 DEF Sought
    <2>7. QED
      BY <2>5, <2>6
  <1>9. ~s.only => g.err = ""
    <2> HIDE DEF g, rows, taken
    <2>1. QED
      BY <1>2
  <1>10. QED
    <2> HIDE DEF s, g, rows
    <2>1. /\ Shape(s, g) /\ g.done = 1
          /\ \A k \in DOMAIN s.edges : g.near[k] = {}
          /\ s.count => /\ g.err = ""
                        /\ CountFacts(i, g.n, paginationResponse(s, g.n)) = Counted(d, q, i)
          /\ ~s.count => /\ g.rows = Sought(d, q, i) /\ Sought(d, q, i) \subseteq d[s.table]
                         /\ Sought(d, q, i) \subseteq Asked(d, q, s.table)
          /\ g.err \in {"", "not found"}
          /\ s.only => (g.err = "" <=> g.rows # {}) /\ (g.err = "" <=> rows # {})
          /\ ~s.only => g.err = ""
      BY <1>1, <1>3, <1>5, <1>6, <1>7, <1>8, <1>9
    <2>2. QED
      BY <2>1 DEF s, g, rows, Found

\* After it the select knows its number of rows, or its rows.
LEMMA RowStatementReads ==
    ASSUME NEW d, NEW m, Intact(d, m), NEW q, NEW a, QueryFine(q, a), Knows(d, a, q.of),
           NEW ever, Truth(d, q) \subseteq ever, NEW always, always \subseteq AtOnce(d, q),
           NEW i \in DOMAIN q.selects
    PROVE  SelectRead(d, m, q, ever, always, i, sqlAll(d, q.selects[i]))
  <1> DEFINE s == q.selects[i]
             g == sqlAll(d, s)
             t == s.table
  <1>1. SelectFine(q, a, s) /\ IsSelect(s) /\ t \in Tables
    BY DEF QueryFine, SelectFine, IsSelect
  <1>2. Found(d, q, i, g)
    BY <1>1, RowStatement
  <1> HIDE DEF g
  <1>3. /\ Shape(s, g) /\ g.done = 1
        /\ \A k \in DOMAIN s.edges : g.near[k] = {}
        /\ s.count => /\ g.err = ""
                      /\ CountFacts(i, g.n, paginationResponse(s, g.n)) = Counted(d, q, i)
        /\ ~s.count => /\ g.rows = Sought(d, q, i) /\ Sought(d, q, i) \subseteq d[t]
                       /\ Sought(d, q, i) \subseteq Asked(d, q, t)
        /\ g.err \in {"", "not found"}
        /\ s.only => (g.err = "" <=> g.rows # {}) /\ (g.err = "" <=> Picked(d, s) # {})
        /\ ~s.only => g.err = ""
    BY <1>2 DEF Found
  <1>4. ASSUME g.err # ""
        PROVE  g.err = "not found" /\ always = {}
    <2>1. s.only /\ Picked(d, s) = {} /\ g.rows = {} /\ g.err = "not found"
      BY <1>3, <1>4
    <2>2. DOMAIN q.selects = 1 .. 1
      BY <2>1 DEF QueryFine
    <2>3. ~s.count
      BY <1>1, <2>1 DEF SelectFine
    <2>4. ASSUME NEW x \in AtOnce(d, q)
          PROVE  FALSE
      <3>1. PICK j \in DOMAIN q.selects :
                \/ q.selects[j].count /\ x \in Counted(d, q, j)
                \/ ~q.selects[j].count /\ Sought(d, q, j) # {}
        BY FactForms
      <3>2. j = i
        BY <2>2
      <3>3. QED
        BY <1>3, <2>1, <2>3, <3>1, <3>2
    <2>5. QED
      BY <2>1, <2>4
  <1>5. ASSUME s.count
        PROVE  CountRead(q, ever, always, i, g)
    <2>1. Counted(d, q, i) \subseteq ever
      BY <1>5, TruthHolds
    <2>2. \A x \in always : x[1] = i => x \in Counted(d, q, i)
      BY <1>5, CountKinds
    <2>3. CountFacts(i, g.n, paginationResponse(s, g.n)) = Counted(d, q, i)
      BY <1>3, <1>5
    <2>4. QED
      BY <2>1, <2>2, <2>3 DEF CountRead
  <1>6. ASSUME ~s.count
        PROVE  RowsRead(d, m, q, ever, always, i, g)
    <2>1. ASSUME NEW r \in g.rows
          PROVE  Seen(d, m, q, ever, i, r)
      <3>1. r \in d[t] /\ r \in Asked(d, q, t)
        BY <1>3, <1>6
      <3>2. RowOf(t, m[t], r)
        BY <1>1, <3>1 DEF Intact
      <3>3. Row(i, OnlyIn(r, s.cols)) \in ever
        BY <1>6, <3>1, TruthHolds
      <3>4. ASSUME NEW k \in DOMAIN s.edges, Stored(s, k).inverse
            PROVE  Link(i, k, r["id"], r[Stored(s, k).column]) \in ever
        <4>1. /\ Stored(s, k).column \in DOMAIN ForeignKeys[t] \ Nullable
              /\ ForeignKeys[t][Stored(s, k).column] = Stored(s, k).table
          BY <1>1, <3>4, EdgeStored
        <4>2. PICK o \in d[Stored(s, k).table] : o["id"] = r[Stored(s, k).column]
          BY <1>1, <3>1, <4>1, RefersTo
        <4>3. Joined(Stored(s, k), r, o)
          BY <3>4, <4>2 DEF Joined
        <4>4. Link(i, k, r["id"], o["id"]) \in Truth(d, q)
          BY <1>6, <3>1, <4>3, TruthHolds
        <4>5. QED
          BY <4>2, <4>4
      <3>5. ASSUME NEW n \in d[t], n["id"] = r["id"]
            PROVE  n \in Asked(d, q, t) /\ SameRow(t, n, r)
        <4>1. n = r
          BY <1>1, <3>1, <3>5, IdsDiffer
        <4>2. QED
          BY <3>1, <4>1, Unmoved
      <3>6. QED
        BY <3>2, <3>3, <3>4, <3>5 DEF Seen
    <2>2. Covered(d, q, always, i, g)
      <3>1. /\ \A y : Row(i, y) \in always => \E r \in g.rows : y = OnlyIn(r, s.cols)
            /\ \A k, b, c : Link(i, k, b, c) \in always => \E r \in g.rows : r["id"] = b
        <4>1. /\ \A y : Row(i, y) \in AtOnce(d, q) =>
                    \E r \in Sought(d, q, i) : y = OnlyIn(r, s.cols)
              /\ \A k, b, c : Link(i, k, b, c) \in AtOnce(d, q) =>
                    \E r \in Sought(d, q, i) : b = r["id"]
          <5>1. ASSUME NEW y, Row(i, y) \in AtOnce(d, q)
                PROVE  \E r \in Sought(d, q, i) : y = OnlyIn(r, s.cols)
            <6>1. RowSought(d, q, i, y)
              BY <1>6, <5>1, RowKinds
            <6>2. QED
              BY <6>1 DEF RowSought
          <5>2. ASSUME NEW k, NEW b, NEW c, Link(i, k, b, c) \in AtOnce(d, q)
                PROVE  \E r \in Sought(d, q, i) : b = r["id"]
            BY <1>6, <5>2, LinkKinds
          <5>3. QED
            BY <5>1, <5>2
        <4>2. g.rows = Sought(d, q, i)
          BY <1>3, <1>6
        <4>3. \A x : x \in always => x \in AtOnce(d, q)
          OBVIOUS
        <4> HIDE DEF s
        <4>4. QED
          BY <4>1, <4>2, <4>3
      <3>2. ASSUME NEW k \in DOMAIN s.edges, NEW b, NEW y, Near(i, k, b, y) \in always,
                   NEW o \in d[Stored(s, k).table], o["id"] = b
            PROVE  \E r \in g.rows : Joined(Stored(s, k), r, o)
        <4>1. Near(i, k, b, y) \in AtOnce(d, q)
          BY <3>2
        <4>2. PICK r \in Sought(d, q, i) : \E n \in d[Stored(s, k).table] :
                  Joined(Stored(s, k), r, n) /\ b = n["id"]
          <5>1. NearSought(d, q, i, k, b, y)
            BY <1>6, <4>1, NearKinds
          <5>2. QED
            BY <5>1 DEF NearSought
        <4>3. PICK n \in d[Stored(s, k).table] : Joined(Stored(s, k), r, n) /\ b = n["id"]
          BY <4>2
        <4>4. Stored(s, k).table \in Tables
          BY <1>1, EdgeStored
        <4>5. n = o
          BY <3>2, <4>3, <4>4, IdsDiffer
        <4>6. QED
          BY <1>3, <1>6, <4>3, <4>5
      <3>3. QED
        BY <3>1, <3>2 DEF Covered
    <2>3. \A k \in DOMAIN s.edges : ~(k < g.done)
      <3>1. DOMAIN s.edges = 1 .. Len(s.edges)
        <4>1. s.edges \in Seq([edge : LoadedEdges(s.table), cols : SUBSET AllColumns])
          BY <1>1 DEF IsSelect
        <4>2. QED
          BY <4>1
      <3>2. g.done = 1
        BY <1>3
      <3>3. QED
        BY <3>1, <3>2
    <2>4. /\ \A k \in DOMAIN s.edges : g.near[k] = {}
          /\ s.only /\ g.err = "" => g.rows # {}
      BY <1>3
    <2>5. QED
      BY <2>1, <2>2, <2>3, <2>4 DEF RowsRead
  <1>7. Shape(s, g) /\ g.done = 1
    BY <1>3
  <1>8. SelectRead(d, m, q, ever, always, i, g)
    <2>1. g.done # 0
      BY <1>7
    <2>2. s.count => CountRead(q, ever, always, i, g)
      BY <1>5
    <2>3. ~s.count => RowsRead(d, m, q, ever, always, i, g)
      BY <1>6
    <2>4. g.err # "" => g.err = "not found" /\ always = {}
      BY <1>4
    <2>5. QED
      BY <1>7, <2>1, <2>2, <2>3, <2>4, Zenon DEF SelectRead
  <1>9. QED
    BY <1>8 DEF g

\* The statement that loads an edge finds the neighbours there are of the rows.
LEMMA EdgeStatement ==
    ASSUME NEW d, NEW m, Intact(d, m), NEW s, IsSelect(s), NEW g, Shape(s, g),
           g.done \in DOMAIN s.edges
    PROVE  LET h == LoadEdge(d, s, g)
           IN  /\ Shape(s, h) /\ h.done = g.done + 1
               /\ h.rows = g.rows /\ h.n = g.n /\ h.err = g.err
               /\ \A k \in DOMAIN s.edges \ {g.done} : h.near[k] = g.near[k]
               /\ h.near[g.done] = {o \in d[Stored(s, g.done).table] :
                                       \E r \in g.rows : Joined(Stored(s, g.done), r, o)}
  <1> DEFINE j == g.done
             l == Stored(s, j)
             found == {o \in d[l.table] : \E r \in g.rows : Joined(l, r, o)}
             h == LoadEdge(d, s, g)
  <1>1. Neighbours(d, s.table, g.rows, Edge(s, j)) = found
    <2>1. Neighbours(d, s.table, g.rows, Edge(s, j)) = Nodes(l.table, found)
      BY DEF Neighbours, Stored, Joined
    <2>2. l.table \in Tables
      BY EdgeStored
    <2>3. found \subseteq d[l.table]
      OBVIOUS
    <2> HIDE DEF found
    <2>4. QED
      BY <2>1, <2>2, <2>3, NodesAreRows
  <1>2. DOMAIN s.edges = 1 .. Len(s.edges)
    <2>1. s.edges \in Seq([edge : LoadedEdges(s.table), cols : SUBSET AllColumns])
      BY DEF IsSelect
    <2>2. QED
      BY <2>1
  <1>3. h = [g EXCEPT !.done = @ + 1, !.near[j] = found]
    BY <1>1 DEF LoadEdge
  <1>4. /\ g = [done |-> g.done, rows |-> g.rows, near |-> g.near, n |-> g.n, err |-> g.err]
        /\ g.near = [k \in DOMAIN s.edges |-> g.near[k]] /\ g.done \in Nat
    BY <1>2 DEF Shape
  <1> HIDE DEF found, h
  <1>5. /\ h = [done |-> g.done + 1, rows |-> g.rows, near |-> [g.near EXCEPT ![j] = found],
                n |-> g.n, err |-> g.err]
    BY <1>3, <1>4
  <1>6. /\ h = [done |-> h.done, rows |-> h.rows, near |-> h.near, n |-> h.n, err |-> h.err]
        /\ h.near = [g.near EXCEPT ![j] = found] /\ h.done = g.done + 1
        /\ h.rows = g.rows /\ h.n = g.n /\ h.err = g.err
    BY <1>5
  <1>7. /\ h.near = [k \in DOMAIN s.edges |-> h.near[k]] /\ h.near[j] = found
        /\ \A k \in DOMAIN s.edges \ {j} : h.near[k] = g.near[k]
    BY <1>4, <1>6
  <1>8. Shape(s, h)
    <2>1. h.near = [k \in 1 .. Len(s.edges) |-> h.near[k]]
      BY <1>2, <1>7
    <2>2. h.done \in Nat
      BY <1>4, <1>6
    <2>3. h = [done |-> h.done, rows |-> h.rows, near |-> h.near, n |-> h.n, err |-> h.err]
      BY <1>6
    <2>4. QED
      BY <2>1, <2>2, <2>3 DEF Shape
  <1>9. QED
    BY <1>6, <1>7, <1>8 DEF h, found

\* After it the select knows its neighbours over that edge: they are linked to rows that are
\* still asked for, or that were linked to them when they were read.
LEMMA EdgeStatementReads ==
    ASSUME NEW d, NEW m, Intact(d, m), NEW q, NEW a, QueryFine(q, a),
           NEW ever, Truth(d, q) \subseteq ever, NEW always, always \subseteq AtOnce(d, q),
           NEW i \in DOMAIN q.selects, NEW g, SelectRead(d, m, q, ever, always, i, g),
           g.done \in DOMAIN q.selects[i].edges
    PROVE  SelectRead(d, m, q, ever, always, i, LoadEdge(d, q.selects[i], g))
  <1> DEFINE s == q.selects[i]
             t == s.table
             j == g.done
             l == Stored(s, j)
             found == {o \in d[l.table] : \E r \in g.rows : Joined(l, r, o)}
             h == LoadEdge(d, s, g)
  <1>1. SelectFine(q, a, s) /\ IsSelect(s) /\ t \in Tables /\ s.count \in BOOLEAN
    BY DEF QueryFine, SelectFine, IsSelect
  <1>2. DOMAIN s.edges = 1 .. Len(s.edges)
    <2>1. s.edges \in Seq([edge : LoadedEdges(s.table), cols : SUBSET AllColumns])
      BY <1>1 DEF IsSelect
    <2>2. QED
      BY <2>1
  <1>3. ~s.count
    <2>1. s.edges # <<>>
      BY <1>2
    <2>2. QED
      BY <1>1, <2>1 DEF SelectFine
  <1>4. /\ Shape(s, h) /\ h.done = j + 1
        /\ h.rows = g.rows /\ h.n = g.n /\ h.err = g.err
        /\ \A k \in DOMAIN s.edges \ {j} : h.near[k] = g.near[k]
        /\ h.near[j] = found
    <2>1. Shape(s, g)
      BY DEF SelectRead
    <2>2. QED
      BY <1>1, <2>1, EdgeStatement
  <1> HIDE DEF h
  <1>5. j \in Nat \ {0}
    BY <1>2
  <1>6. RowsRead(d, m, q, ever, always, i, g)
    <2>1. g.done > 0
      BY <1>5
    <2>2. QED
      BY <1>3, <2>1, Zenon DEF SelectRead
  <1>7. /\ l.table \in Tables
        /\ \/ /\ l.inverse = TRUE /\ l.column \in DOMAIN ForeignKeys[t] \ Nullable
              /\ ForeignKeys[t][l.column] = l.table
           \/ /\ l.inverse = FALSE /\ l.column \in DOMAIN ForeignKeys[l.table]
              /\ ForeignKeys[l.table][l.column] = t
    BY <1>1, EdgeStored
  <1>8. \A r \in g.rows : Seen(d, m, q, ever, i, r)
    BY <1>6 DEF RowsRead
  <1>9. ASSUME NEW r \in g.rows, NEW o \in found, Joined(l, r, o)
        PROVE  /\ Link(i, j, r["id"], o["id"]) \in ever
               /\ Near(i, j, o["id"], OnlyIn(o, s.edges[j].cols)) \in ever
    <2>1. Near(i, j, o["id"], OnlyIn(o, s.edges[j].cols)) \in ever
      BY <1>3, TruthHolds
    <2>2. CASE l.inverse = TRUE
      <3>1. Link(i, j, r["id"], r[l.column]) \in ever
        BY <1>8, <2>2 DEF Seen
      <3>2. o["id"] = r[l.column]
        BY <1>9, <2>2 DEF Joined
      <3>3. QED
        BY <2>1, <3>1, <3>2
    <2>3. CASE l.inverse = FALSE
      <3>1. o[l.column] = r["id"] /\ o \in d[l.table]
        BY <1>9, <2>3 DEF Joined
      <3>2. r["id"] # Null
        <4>1. RowOf(t, m[t], r) /\ m[t] \in Nat
          BY <1>1, <1>8 DEF Seen, Intact
        <4>2. QED
          BY <4>1, RepositoriesAssumption DEF RowOf
      <3>3. l.column \in DOMAIN ForeignKeys[l.table] /\ ForeignKeys[l.table][l.column] = t
        BY <1>7, <2>3
      <3>4. \E n \in d[t] : n["id"] = o[l.column]
        BY <1>7, <3>1, <3>2, <3>3, RefersTo
      <3>5. PICK n \in d[t] : n["id"] = r["id"]
        BY <3>1, <3>4
      <3>6. n \in Asked(d, q, t)
        BY <1>8, <3>5 DEF Seen
      <3>7. Joined(l, n, o)
        BY <2>3, <3>1, <3>5 DEF Joined
      <3>8. Link(i, j, n["id"], o["id"]) \in Truth(d, q)
        BY <1>3, <3>1, <3>6, <3>7, TruthHolds
      <3>9. QED
        BY <2>1, <3>5, <3>8
    <2>4. QED
      BY <1>7, <2>2, <2>3
  <1>10. ASSUME NEW b, NEW c, Link(i, j, b, c) \in always
         PROVE  \E r \in g.rows, o \in found : Joined(l, r, o) /\ r["id"] = b /\ o["id"] = c
    <2>1. Link(i, j, b, c) \in AtOnce(d, q)
      BY <1>10
    <2>2. \E n \in Sought(d, q, i) : \E o \in d[l.table] :
              Joined(l, n, o) /\ b = n["id"] /\ c = o["id"]
      BY <1>3, <2>1, LinkKinds
    <2>3. Sought(d, q, i) \subseteq d[t]
      BY DEF Sought, OnPage, Asked
    <2>4. PICK n \in d[t] : \E o \in d[l.table] :
              Joined(l, n, o) /\ b = n["id"] /\ c = o["id"]
      BY <2>2, <2>3
    <2>5. PICK o \in d[l.table] : Joined(l, n, o) /\ b = n["id"] /\ c = o["id"]
      BY <2>4
    <2>6. PICK r \in g.rows : r["id"] = b
      BY <1>6, <1>10 DEF RowsRead, Covered
    <2>7. SameRow(t, n, r)
      BY <1>8, <2>4, <2>5, <2>6 DEF Seen
    <2>8. Joined(l, r, o)
      <3>1. CASE l.inverse = TRUE
        <4>1. l.column \in FixedColumns(t)
          BY <1>7, <3>1 DEF FixedColumns
        <4>2. QED
          BY <2>5, <2>7, <3>1, <4>1 DEF Joined, SameRow
      <3>2. CASE l.inverse = FALSE
        BY <2>5, <2>6, <3>2 DEF Joined
      <3>3. QED
        BY <1>7, <3>1, <3>2
    <2>9. o \in found
      BY <2>5, <2>6, <2>8
    <2>10. QED
      BY <2>5, <2>6, <2>8, <2>9
  <1>11. ASSUME NEW b, NEW y, Near(i, j, b, y) \in always
         PROVE  \E r \in g.rows, o \in found :
                    /\ Joined(l, r, o)
                    /\ o["id"] = b /\ y = OnlyIn(o, s.edges[j].cols)
    <2>1. Near(i, j, b, y) \in AtOnce(d, q)
      BY <1>11
    <2>2. \E n \in Sought(d, q, i) : \E o \in d[l.table] :
              /\ Joined(l, n, o)
              /\ b = o["id"] /\ y = OnlyIn(o, s.edges[j].cols)
      <3>1. NearSought(d, q, i, j, b, y)
        BY <1>3, <2>1, NearKinds
      <3>2. QED
        BY <3>1 DEF NearSought
    <2>3. PICK o \in d[l.table] : b = o["id"] /\ y = OnlyIn(o, s.edges[j].cols)
      BY <2>2
    <2>4. \E r \in g.rows : Joined(l, r, o)
      BY <1>6, <1>11, <2>3 DEF RowsRead, Covered
    <2>5. QED
      BY <2>3, <2>4
  <1>12. Loaded(q, ever, always, i, h, j)
    <2> HIDE DEF found
    <2>1. QED
      BY <1>4, <1>9, <1>10, <1>11 DEF Loaded
  <1>13. ASSUME NEW k \in DOMAIN s.edges
         PROVE  IF k < h.done THEN Loaded(q, ever, always, i, h, k) ELSE h.near[k] = {}
    <2>1. IF k < j THEN Loaded(q, ever, always, i, g, k) ELSE g.near[k] = {}
      BY <1>6 DEF RowsRead
    <2>2. k \in Nat
      BY <1>2
    <2>3. CASE k = j
      BY <1>4, <1>5, <1>12, <2>3
    <2>4. CASE k # j
      <3>1. h.near[k] = g.near[k] /\ h.rows = g.rows
        BY <1>4, <2>4
      <3>2. Loaded(q, ever, always, i, g, k) => Loaded(q, ever, always, i, h, k)
        BY <3>1 DEF Loaded
      <3>3. k < h.done <=> k < j
        BY <1>4, <1>5, <2>2, <2>4
      <3>4. QED
        BY <2>1, <3>1, <3>2, <3>3
    <2>5. QED
      BY <2>3, <2>4
  <1>14. RowsRead(d, m, q, ever, always, i, h)
    <2>1. Covered(d, q, always, i, h)
      BY <1>4, <1>6 DEF RowsRead, Covered
    <2>2. s.only /\ h.err = "" => h.rows # {}
      BY <1>4, <1>6 DEF RowsRead
    <2>3. \A r \in h.rows : Seen(d, m, q, ever, i, r)
      BY <1>4, <1>8
    <2>4. QED
      BY <1>13, <2>1, <2>2, <2>3 DEF RowsRead
  <1>15. SelectRead(d, m, q, ever, always, i, h)
    <2>1. h.done # 0
      BY <1>4, <1>5
    <2>2. h.err # "" => h.err = "not found" /\ always = {}
      BY <1>4 DEF SelectRead
    <2>3. Shape(s, h)
      BY <1>4
    <2>4. QED
      BY <1>3, <1>14, <2>1, <2>2, <2>3, Zenon DEF SelectRead
  <1>16. QED
    BY <1>15 DEF h

\* A commit of another request disturbs nothing of it: rows that stay keep who they are.
LEMMA CommitReads ==
    ASSUME NEW d, NEW m, Intact(d, m), NEW e, NEW n, Intact(e, n), KeepsRows(d, m, e),
           \A t \in Tables : m[t] <= n[t],
           NEW q, NEW a, QueryFine(q, a), NEW ever, NEW always, always \subseteq AtOnce(d, q),
           NEW since, ever \subseteq since, NEW still, still \subseteq always,
           NEW i \in DOMAIN q.selects, NEW g, SelectRead(d, m, q, ever, always, i, g)
    PROVE  SelectRead(e, n, q, since, still, i, g)
  <1> DEFINE s == q.selects[i]
             t == s.table
  <1>1. SelectFine(q, a, s) /\ IsSelect(s) /\ t \in Tables /\ s.count \in BOOLEAN
    BY DEF QueryFine, SelectFine, IsSelect
  <1>2. m[t] \in Nat /\ n[t] \in Nat /\ m[t] <= n[t]
    BY <1>1 DEF Intact
  <1>3. ASSUME s.count, g.done > 0
        PROVE  CountRead(q, since, still, i, g)
    <2>1. CountRead(q, ever, always, i, g)
      BY <1>3 DEF SelectRead
    <2>2. QED
      BY <2>1 DEF CountRead
  <1>4. ASSUME ~s.count, g.done > 0
        PROVE  RowsRead(e, n, q, since, still, i, g)
    <2>1. RowsRead(d, m, q, ever, always, i, g)
      BY <1>4 DEF SelectRead
    <2>2. ASSUME NEW r \in g.rows
          PROVE  Seen(e, n, q, since, i, r)
      <3>1. Seen(d, m, q, ever, i, r)
        BY <2>1 DEF RowsRead
      <3>2. RowOf(t, m[t], r)
        BY <3>1 DEF Seen
      <3>3. RowOf(t, n[t], r)
        BY <1>2, <3>2 DEF RowOf
      <3>4. ASSUME NEW x \in e[t], x["id"] = r["id"]
            PROVE  x \in Asked(e, q, t) /\ SameRow(t, x, r)
        <4>1. ~(x["id"] > m[t])
          BY <1>2, <3>2, <3>4 DEF RowOf
        <4>2. PICK o \in d[t] : SameRow(t, x, o)
          BY <1>1, <4>1 DEF KeepsRows
        <4>3. o["id"] = r["id"]
          BY <3>4, <4>2 DEF SameRow, FixedColumns
        <4>4. o \in Asked(d, q, t) /\ SameRow(t, o, r)
          BY <3>1, <4>3 DEF Seen
        <4>5. x \in Asked(e, q, t)
          BY <1>1, <4>2, <4>4, AskedStays
        <4>6. SameRow(t, x, r)
          BY <4>2, <4>4 DEF SameRow
        <4>7. QED
          BY <4>5, <4>6
      <3>5. /\ Row(i, OnlyIn(r, s.cols)) \in since
            /\ \A k \in DOMAIN s.edges :
                  Stored(s, k).inverse => Link(i, k, r["id"], r[Stored(s, k).column]) \in since
        BY <3>1 DEF Seen
      <3>6. QED
        BY <3>3, <3>4, <3>5 DEF Seen
    <2>3. Covered(e, q, still, i, g)
      <3>1. Covered(d, q, always, i, g)
        BY <2>1 DEF RowsRead
      <3>2. /\ \A y : Row(i, y) \in still => \E r \in g.rows : y = OnlyIn(r, s.cols)
            /\ \A k, b, c : Link(i, k, b, c) \in still => \E r \in g.rows : r["id"] = b
        BY <3>1 DEF Covered
      <3>3. ASSUME NEW k \in DOMAIN s.edges, NEW b, NEW y, Near(i, k, b, y) \in still,
                   NEW x \in e[Stored(s, k).table], x["id"] = b
            PROVE  \E r \in g.rows : Joined(Stored(s, k), r, x)
        <4> DEFINE l == Stored(s, k)
        <4>1. /\ l.table \in Tables
              /\ \/ l.inverse = TRUE
                 \/ l.inverse = FALSE /\ l.column \in DOMAIN ForeignKeys[l.table]
          BY <1>1, EdgeStored
        <4>2. Near(i, k, b, y) \in always /\ Near(i, k, b, y) \in AtOnce(d, q)
          BY <3>3
        <4>3. \E p \in d[l.table] : b = p["id"]
          <5>1. NearSought(d, q, i, k, b, y)
            BY <1>4, <4>2, NearKinds
          <5>2. QED
            BY <5>1 DEF NearSought
        <4>4. ~(x["id"] > m[l.table])
          <5>1. PICK p \in d[l.table] : b = p["id"]
            BY <4>3
          <5>2. RowOf(l.table, m[l.table], p) /\ m[l.table] \in Nat
            BY <4>1, <5>1 DEF Intact
          <5>3. QED
            BY <3>3, <5>1, <5>2 DEF RowOf
        <4>5. PICK o \in d[l.table] : SameRow(l.table, x, o)
          BY <4>1, <4>4 DEF KeepsRows
        <4>6. o["id"] = b /\ o["id"] = x["id"]
          BY <3>3, <4>5 DEF SameRow, FixedColumns
        <4>7. PICK r \in g.rows : Joined(l, r, o)
          BY <3>1, <4>2, <4>6 DEF Covered
        <4>8. Joined(l, r, x)
          <5>1. CASE l.inverse = TRUE
            BY <4>6, <4>7, <5>1 DEF Joined
          <5>2. CASE l.inverse = FALSE /\ l.column \in DOMAIN ForeignKeys[l.table]
            <6>1. o[l.column] = x[l.column]
              BY <4>5, <5>2 DEF SameRow, FixedColumns
            <6>2. QED
              BY <4>7, <5>2, <6>1 DEF Joined
          <5>3. QED
            BY <4>1, <5>1, <5>2
        <4>9. QED
          BY <4>8
      <3>4. QED
        BY <3>2, <3>3 DEF Covered
    <2>4. ASSUME NEW k \in DOMAIN s.edges
          PROVE  IF k < g.done THEN Loaded(q, since, still, i, g, k) ELSE g.near[k] = {}
      <3>1. IF k < g.done THEN Loaded(q, ever, always, i, g, k) ELSE g.near[k] = {}
        BY <2>1 DEF RowsRead
      <3>2. Loaded(q, ever, always, i, g, k) => Loaded(q, since, still, i, g, k)
        BY DEF Loaded
      <3>3. QED
        BY <3>1, <3>2
    <2>5. s.only /\ g.err = "" => g.rows # {}
      BY <2>1 DEF RowsRead
    <2>6. QED
      BY <2>2, <2>3, <2>4, <2>5 DEF RowsRead
  <1>5. Shape(s, g) /\ (g.done = 0 => g = Blank(s))
    BY DEF SelectRead
  <1>6. g.err # "" => g.err = "not found" /\ still = {}
    BY DEF SelectRead
  <1>7. QED
    BY <1>3, <1>4, <1>5, <1>6, Zenon DEF SelectRead

-----------------------------------------------------------------------------
(* Reads: the steps of a read.                                             *)

\* The gateway's read wants a neighbour of its only row: it misses it only if the row was
\* gone for a moment.
MustRead(d, q, always, g) ==
    q.must =>
        /\ g.done = 1 /\ always # {} =>
              \A r \in g.rows : \E n \in d[q.selects[1].table] : n["id"] = r["id"]
        /\ g.done > 1 /\ g.near[1] = {} => always = {}

\* A read v under way.
UnderWay(d, m, v) ==
    /\ v = [at |-> "read", query |-> v.query, got |-> v.got, overlap |-> v.overlap,
            ever |-> v.ever, always |-> v.always]
    /\ v.got = [i \in DOMAIN v.query.selects |-> v.got[i]]
    /\ \E a : QueryFine(v.query, a) /\ Knows(d, a, v.query.of)
    /\ Truth(d, v.query) \subseteq v.ever
    /\ v.always \subseteq AtOnce(d, v.query)
    /\ \A i \in DOMAIN v.query.selects :
          SelectRead(d, m, v.query, v.ever, v.always, i, v.got[i])
    /\ MustRead(d, v.query, v.always, v.got[1])

ViewFine(d, m, v) == v = Idle \/ v = [at |-> "failed"] \/ UnderWay(d, m, v)

\* Nothing is read yet.
LEMMA BlankReads ==
    ASSUME NEW d, NEW m, NEW q, NEW ever, NEW always, NEW i, IsSelect(q.selects[i])
    PROVE  SelectRead(d, m, q, ever, always, i, Blank(q.selects[i]))
  <1> DEFINE s == q.selects[i]
             g == Blank(s)
  <1>1. /\ g = [done |-> 0, rows |-> {}, near |-> [k \in 1 .. Len(s.edges) |-> {}], n |-> 0,
                err |-> ""]
    BY DEF Blank
  <1> HIDE DEF g
  <1>2. Shape(s, g) /\ g.done = 0 /\ g.err = ""
    BY <1>1 DEF Shape
  <1>3. ~(g.done > 0)
    <2>1. g.done = 0
      BY <1>2
    <2>2. QED
      BY <2>1
  <1>4. SelectRead(d, m, q, ever, always, i, g)
    BY <1>2, <1>3, Zenon DEF SelectRead, g
  <1>5. QED
    BY <1>4 DEF g

\* A read begins.
LEMMA AskReads ==
    ASSUME Intact(db, made), NEW q, NEW a, QueryFine(q, a), Knows(db, a, q.of), Ask(q)
    PROVE  UnderWay(db', made', view')
  <1>1. /\ view' = [at |-> "read", query |-> q,
                    got |-> [i \in DOMAIN q.selects |-> Blank(q.selects[i])],
                    overlap |-> 0, ever |-> Truth(db, q), always |-> AtOnce(db, q)]
        /\ db' = db /\ made' = made
    BY DEF Ask
  <1>2. /\ view' = [at |-> "read", query |-> view'.query, got |-> view'.got,
                    overlap |-> view'.overlap, ever |-> view'.ever, always |-> view'.always]
        /\ view'.query = q /\ view'.ever = Truth(db, q) /\ view'.always = AtOnce(db, q)
        /\ view'.got = [i \in DOMAIN q.selects |-> Blank(q.selects[i])]
    BY <1>1
  <1>3. ASSUME NEW i \in DOMAIN q.selects
        PROVE  /\ SelectRead(db, made, q, view'.ever, view'.always, i, view'.got[i])
               /\ view'.got[i].done = 0
    <2>1. IsSelect(q.selects[i])
      BY DEF QueryFine, SelectFine
    <2>2. view'.got[i] = Blank(q.selects[i])
      BY <1>2
    <2>3. Blank(q.selects[i]).done = 0
      BY DEF Blank
    <2>4. QED
      BY <2>1, <2>2, <2>3, BlankReads
  <1>4. MustRead(db, q, view'.always, view'.got[1])
    <2>1. 1 \in DOMAIN q.selects
      BY DEF QueryFine
    <2>2. view'.got[1].done = 0
      BY <1>3, <2>1
    <2>3. QED
      BY <2>2 DEF MustRead
  <1>5. view'.got = [i \in DOMAIN view'.query.selects |-> view'.got[i]]
    BY <1>2
  <1>6. QED
    BY <1>1, <1>2, <1>3, <1>4, <1>5 DEF UnderWay

\* A select that may run has not begun, or has rows and another edge to load.
LEMMA Runs ==
    ASSUME NEW v, NEW i, Shape(v.query.selects[i], v.got[i]), IsSelect(v.query.selects[i]),
           ~IsOver(v, i)
    PROVE  LET s == v.query.selects[i]
               g == v.got[i]
           IN  \/ g.done = 0
               \/ g.err = "" /\ g.rows # {} /\ g.done \in DOMAIN s.edges
  <1> DEFINE s == v.query.selects[i]
             g == v.got[i]
  <1>1. DOMAIN s.edges = 1 .. Len(s.edges) /\ Len(s.edges) \in Nat
    <2>1. s.edges \in Seq([edge : LoadedEdges(s.table), cols : SUBSET AllColumns])
      BY DEF IsSelect
    <2>2. QED
      BY <2>1
  <1>2. g.done \in Nat
    BY DEF Shape
  <1> HIDE DEF s, g
  <1>3. ~(g.done > 0 /\ (g.err # "" \/ g.rows = {} \/ g.done > Len(s.edges)))
    BY DEF IsOver, Over, s, g
  <1>4. g.done = 0 \/ (g.err = "" /\ g.rows # {} /\ g.done \in DOMAIN s.edges)
    <2>1. CASE g.done > 0
      <3>1. g.err = "" /\ g.rows # {} /\ ~(g.done > Len(s.edges))
        BY <1>3, <2>1
      <3>2. g.done \in DOMAIN s.edges
        <4>1. ~(g.done > Len(s.edges))
          BY <3>1
        <4>2. QED
          BY <1>1, <1>2, <2>1, <4>1
      <3>3. QED
        BY <3>1, <3>2
    <2>2. g.done > 0 \/ g.done = 0
      BY <1>2
    <2>3. QED
      BY <2>1, <2>2, Zenon
  <1>5. QED
    BY <1>4 DEF s, g

\* The next statement of a select.
LEMMA StatementReads ==
    ASSUME Intact(db, made), UnderWay(db, made, view), NEW i, Statement(i)
    PROVE  UnderWay(db', made', view')
  <1> DEFINE q == view.query
             s == q.selects[i]
             g == view.got[i]
             h == IF g.done = 0 THEN sqlAll(db, s) ELSE LoadEdge(db, s, g)
  <1>1. /\ view = [at |-> "read", query |-> view.query, got |-> view.got,
                   overlap |-> view.overlap, ever |-> view.ever, always |-> view.always]
        /\ view.got = [j \in DOMAIN q.selects |-> view.got[j]]
        /\ \A j \in DOMAIN q.selects :
              SelectRead(db, made, q, view.ever, view.always, j, view.got[j])
        /\ MustRead(db, q, view.always, view.got[1])
        /\ Truth(db, q) \subseteq view.ever /\ view.always \subseteq AtOnce(db, q)
    BY DEF UnderWay
  <1>2. PICK a : QueryFine(q, a) /\ Knows(db, a, q.of)
    BY DEF UnderWay
  <1>3. /\ i \in DOMAIN q.selects /\ ~IsOver(view, i)
        /\ view' = [view EXCEPT !.got[i] = h]
        /\ db' = db /\ made' = made
    BY DEF Statement, MayRun, Selects
  <1> HIDE DEF h
  <1>4. /\ view' = [at |-> "read", query |-> view'.query, got |-> view'.got,
                    overlap |-> view'.overlap, ever |-> view'.ever, always |-> view'.always]
        /\ view'.query = q /\ view'.ever = view.ever /\ view'.always = view.always
        /\ view'.got = [view.got EXCEPT ![i] = h]
    BY <1>1, <1>3
  <1>5. /\ view'.got = [j \in DOMAIN q.selects |-> view'.got[j]]
        /\ view'.got[i] = h /\ \A j \in DOMAIN q.selects \ {i} : view'.got[j] = view.got[j]
    BY <1>1, <1>3, <1>4
  <1>6. SelectFine(q, a, s) /\ IsSelect(s) /\ Shape(s, g)
        /\ SelectRead(db, made, q, view.ever, view.always, i, g)
    BY <1>1, <1>2, <1>3 DEF QueryFine, SelectFine, SelectRead
  <1>7. g.done = 0 \/ (g.err = "" /\ g.rows # {} /\ g.done \in DOMAIN s.edges)
    BY <1>3, <1>6, Runs
  <1>8. SelectRead(db, made, q, view.ever, view.always, i, h)
    <2>1. CASE g.done = 0
      <3>1. SelectRead(db, made, q, view.ever, view.always, i, sqlAll(db, s))
        BY <1>1, <1>2, <1>3, RowStatementReads
      <3>2. QED
        BY <2>1, <3>1 DEF h
    <2>2. CASE g.done # 0 /\ g.done \in DOMAIN s.edges
      <3>1. SelectRead(db, made, q, view.ever, view.always, i, LoadEdge(db, s, g))
        BY <1>1, <1>2, <1>3, <1>6, <2>2, EdgeStatementReads
      <3>2. QED
        BY <2>2, <3>1 DEF h
    <2>3. QED
      BY <1>7, <2>1, <2>2
  <1>9. ASSUME q.must
        PROVE  MustRead(db, q, view.always, h)
    <2>1. /\ DOMAIN q.selects = 1 .. 1 /\ q.selects[1].only /\ Len(q.selects[1].edges) = 1
          /\ Loads[q.selects[1].table][Edge(q.selects[1], 1)].inverse
      BY <1>2, <1>9 DEF QueryFine
    <2>2. i = 1
      BY <1>3, <2>1
    <2>3. ~s.count
      BY <1>6, <2>1, <2>2 DEF SelectFine
    <2>4. CASE g.done = 0
      <3>1. Found(db, q, i, h)
        BY <1>2, <1>3, <1>6, <2>4, RowStatement DEF h
      <3>2. h.done = 1 /\ h.rows \subseteq db[s.table]
        BY <2>3, <3>1 DEF Found
      <3>3. QED
        BY <2>2, <3>2 DEF MustRead
    <2>5. CASE g.err = "" /\ g.rows # {} /\ g.done \in DOMAIN s.edges
      <3> DEFINE l == Stored(s, 1)
                 found == {o \in db[l.table] : \E r \in g.rows : Joined(l, r, o)}
      <3>1. DOMAIN s.edges = 1 .. Len(s.edges)
        <4>1. s.edges \in Seq([edge : LoadedEdges(s.table), cols : SUBSET AllColumns])
          BY <1>6 DEF IsSelect
        <4>2. QED
          BY <4>1
      <3>2. g.done = 1
        <4>1. Len(s.edges) = 1 /\ g.done \in DOMAIN s.edges
          BY <2>1, <2>2, <2>5
        <4>2. g.done \in 1 .. 1
          BY <3>1, <4>1
        <4>3. QED
          BY <4>2
      <3>3. h.done = 2 /\ h.near[1] = found
        <4>1. h = LoadEdge(db, s, g)
          BY <3>2 DEF h
        <4>2. h.done = g.done + 1 /\ h.near[g.done] =
                 {o \in db[Stored(s, g.done).table] :
                     \E r \in g.rows : Joined(Stored(s, g.done), r, o)}
          <5>1. g.done \in DOMAIN s.edges
            BY <2>5
          <5>2. QED
            BY <1>6, <4>1, <5>1, EdgeStatement
        <4>3. QED
          BY <3>2, <4>2
      <3>4. ASSUME view.always # {}
            PROVE  found # {}
        <4>1. PICK r \in g.rows : TRUE
          BY <2>5
        <4>2. PICK n \in db[s.table] : n["id"] = r["id"]
          BY <1>1, <1>9, <2>2, <3>2, <3>4, <4>1 DEF MustRead
        <4>3. RowsRead(db, made, q, view.ever, view.always, i, g)
          <5>1. g.done > 0
            BY <3>2
          <5>2. QED
            BY <1>6, <2>3, <5>1, Zenon DEF SelectRead
        <4>4. SameRow(s.table, n, r)
          BY <4>1, <4>2, <4>3 DEF RowsRead, Seen
        <4>5. /\ l.inverse = TRUE /\ l.column \in DOMAIN ForeignKeys[s.table] \ Nullable
              /\ ForeignKeys[s.table][l.column] = l.table /\ s.table \in Tables
          <5>1. 1 \in DOMAIN s.edges
            BY <2>5, <3>2
          <5>2. l.inverse
            BY <2>1, <2>2 DEF Stored
          <5>3. QED
            BY <1>6, <5>1, <5>2, EdgeStored
        <4>6. PICK o \in db[l.table] : o["id"] = n[l.column]
          <5>1. \E o \in db[ForeignKeys[s.table][l.column]] : o["id"] = n[l.column]
            <6> HIDE DEF l, found, s
            <6>1. QED
              BY <4>2, <4>5, RefersTo
          <5>2. QED
            BY <4>5, <5>1
        <4>7. n[l.column] = r[l.column]
          BY <4>4, <4>5 DEF SameRow, FixedColumns
        <4>8. Joined(l, r, o)
          BY <4>5, <4>6, <4>7 DEF Joined
        <4>9. QED
          BY <4>1, <4>6, <4>8
      <3>5. QED
        BY <3>3, <3>4 DEF MustRead
    <2>6. QED
      BY <1>7, <2>4, <2>5
  <1>10. MustRead(db, q, view.always, view'.got[1])
    <2>1. CASE q.must
      <3>1. DOMAIN q.selects = 1 .. 1
        BY <1>2, <2>1 DEF QueryFine
      <3>2. i = 1
        BY <1>3, <3>1
      <3>3. QED
        BY <1>5, <1>9, <2>1, <3>2
    <2>2. CASE ~q.must
      BY <2>2 DEF MustRead
    <2>3. QED
      BY <2>1, <2>2
  <1>11. ASSUME NEW j \in DOMAIN q.selects
         PROVE  SelectRead(db, made, q, view.ever, view.always, j, view'.got[j])
    BY <1>1, <1>5, <1>8
  <1>12. QED
    BY <1>1, <1>2, <1>3, <1>4, <1>5, <1>10, <1>11 DEF UnderWay

\* The account that a read is for stays.
LEMMA KnowsStays ==
    ASSUME NEW d, NEW m, NEW e, KeepsRows(d, m, e), NEW a, NEW x, Knows(d, a, x)
    PROVE  Knows(e, a, x)
  <1>1. CASE a # 0
    <2>1. PICK u \in d["users"] : u["id"] = a /\ u["email"] = x
      BY <1>1 DEF Knows
    <2>2. PICK v \in e["users"] : SameRow("users", v, u)
      BY DEF KeepsRows, Lasts
    <2>3. v["id"] = u["id"] /\ v["email"] = u["email"]
      BY <2>2 DEF SameRow, FixedColumns, KeyOf
    <2>4. QED
      BY <2>1, <2>3 DEF Knows
  <1>2. QED
    BY <1>1 DEF Knows

\* While something asked for is there throughout, the only row that was read is: a commit
\* does not both remove it and make another one with its key.
LEMMA CommitMust ==
    ASSUME NEW d, NEW m, Intact(d, m), NEW e, NEW n, Intact(e, n), KeepsRows(d, m, e),
           NEW q, NEW a, QueryFine(q, a), Knows(d, a, q.of), NEW ever,
           NEW always, NEW still, still \subseteq always \cap AtOnce(e, q),
           NEW g, SelectRead(d, m, q, ever, always, 1, g), MustRead(d, q, always, g)
    PROVE  MustRead(e, q, still, g)
  <1> DEFINE s == q.selects[1]
             t == s.table
  <1>1. SUFFICES ASSUME q.must
                 PROVE  MustRead(e, q, still, g)
    BY DEF MustRead
  <1>2. DOMAIN q.selects = 1 .. 1 /\ s.only
    BY <1>1 DEF QueryFine
  <1>3. SelectFine(q, a, s) /\ t \in Tables
    <2>1. 1 \in DOMAIN q.selects
      BY <1>2
    <2>2. SelectFine(q, a, s)
      BY <2>1 DEF QueryFine
    <2>3. QED
      BY <2>2 DEF SelectFine, IsSelect
  <1>4. ~s.count /\ Faithful(q, a, s)
    BY <1>2, <1>3 DEF SelectFine
  <1>5. ASSUME g.done = 1, still # {}, NEW r \in g.rows
        PROVE  \E x \in e[t] : x["id"] = r["id"]
    <2>1. PICK o \in d[t] : o["id"] = r["id"]
      BY <1>1, <1>5 DEF MustRead
    <2>2. CASE Lasts(d, t, e)
      <3>1. PICK x \in e[t] : SameRow(t, x, o)
        BY <2>2 DEF Lasts
      <3>2. x["id"] = o["id"]
        BY <3>1 DEF SameRow, FixedColumns
      <3>3. QED
        BY <2>1, <3>2
    <2>3. CASE \A x \in e[t] : \E p \in d[t] : SameRow(t, x, p)
      <3>1. PICK f \in AtOnce(e, q) : TRUE
        BY <1>5
      <3>2. PICK j \in DOMAIN q.selects :
                \/ q.selects[j].count /\ f \in Counted(e, q, j)
                \/ ~q.selects[j].count /\ Sought(e, q, j) # {}
        BY FactForms
      <3>3. j = 1
        BY <1>2
      <3>4. PICK x \in Asked(e, q, t) : x \in e[t]
        BY <1>4, <3>2, <3>3 DEF Sought, OnPage, Asked
      <3>5. PICK p \in d[t] : SameRow(t, x, p)
        BY <2>3, <3>4
      <3>6. p \in Asked(d, q, t)
        BY <1>3, <3>4, <3>5, AskedStays
      <3>7. RowsRead(d, m, q, ever, always, 1, g)
        <4>1. g.done > 0
          BY <1>5
        <4>2. QED
          BY <1>4, <4>1, Zenon DEF SelectRead
      <3>8. o \in Asked(d, q, t)
        BY <1>5, <2>1, <3>7 DEF RowsRead, Seen
      <3>9. p = o
        BY <1>2, <1>4, <3>6, <3>8 DEF Faithful
      <3>10. x["id"] = p["id"]
        BY <3>5 DEF SameRow, FixedColumns
      <3>11. QED
        BY <2>1, <3>4, <3>9, <3>10
    <2>4. QED
      BY <1>3, <2>2, <2>3 DEF KeepsRows
  <1>6. ASSUME g.done > 1, g.near[1] = {}
        PROVE  still = {}
    BY <1>1, <1>6 DEF MustRead
  <1>7. ASSUME g.done = 1, still # {}
        PROVE  \A r \in g.rows : \E x \in e[t] : x["id"] = r["id"]
    BY <1>5, <1>7
  <1>8. QED
    BY <1>6, <1>7 DEF MustRead

\* Another request commits.
LEMMA CommitView ==
    ASSUME Intact(db, made), Intact(db', made'), KeepsRows(db, made, db'),
           \A t \in Tables : made[t] <= made'[t],
           ViewFine(db, made, view), Commit(db')
    PROVE  ViewFine(db', made', view')
  <1>1. CASE view = Idle \/ view = [at |-> "failed"]
    <2>1. view.at # "read"
      BY <1>1 DEF Idle
    <2>2. view' = view
      BY <2>1 DEF Commit
    <2>3. QED
      BY <1>1, <2>2 DEF ViewFine
  <1>2. CASE UnderWay(db, made, view)
    <2> DEFINE q == view.query
    <2>1. /\ view = [at |-> "read", query |-> view.query, got |-> view.got,
                     overlap |-> view.overlap, ever |-> view.ever, always |-> view.always]
          /\ view.got = [i \in DOMAIN q.selects |-> view.got[i]]
          /\ \A i \in DOMAIN q.selects :
                SelectRead(db, made, q, view.ever, view.always, i, view.got[i])
          /\ MustRead(db, q, view.always, view.got[1])
          /\ Truth(db, q) \subseteq view.ever /\ view.always \subseteq AtOnce(db, q)
      BY <1>2 DEF UnderWay
    <2>2. PICK a : QueryFine(q, a) /\ Knows(db, a, q.of)
      BY <1>2 DEF UnderWay
    <2>3. /\ view' = [at |-> "read", query |-> view'.query, got |-> view'.got,
                      overlap |-> view'.overlap, ever |-> view'.ever, always |-> view'.always]
          /\ view'.query = q /\ view'.got = view.got
          /\ view.ever \subseteq view'.ever /\ view'.always \subseteq view.always
          /\ Truth(db', q) \subseteq view'.ever /\ view'.always \subseteq AtOnce(db', q)
      <3>1. CASE db' = db /\ view' = view
        BY <2>1, <3>1
      <3>2. CASE view' = [view EXCEPT !.overlap = @ + 1,
                                      !.ever = @ \cup Truth(db', q),
                                      !.always = @ \cap AtOnce(db', q)]
        <4> DEFINE ever == view.ever \cup Truth(db', q)
                   always == view.always \cap AtOnce(db', q)
        <4>1. view' = [at |-> "read", query |-> q, got |-> view.got,
                       overlap |-> view.overlap + 1, ever |-> ever, always |-> always]
          <5> HIDE DEF ever, always
          <5>1. view' = [view EXCEPT !.overlap = view.overlap + 1, !.ever = ever,
                                     !.always = always]
            BY <2>1, <3>2 DEF ever, always
          <5>2. PICK x, y, z, v, w : view = [at |-> "read", query |-> x, got |-> y,
                                             overlap |-> z, ever |-> v, always |-> w]
            BY <2>1
          <5>3. view.query = x /\ view.got = y
            BY <5>2
          <5>4. view' = [at |-> "read", query |-> x, got |-> y, overlap |-> view.overlap + 1,
                         ever |-> ever, always |-> always]
            BY <5>1, <5>2
          <5>5. QED
            BY <5>3, <5>4
        <4>2. /\ view' = [at |-> "read", query |-> view'.query, got |-> view'.got,
                          overlap |-> view'.overlap, ever |-> view'.ever,
                          always |-> view'.always]
              /\ view'.query = q /\ view'.got = view.got
              /\ view'.ever = ever /\ view'.always = always
          <5> HIDE DEF ever, always
          <5>1. QED
            BY <4>1
        <4>3. QED
          BY <4>2
      <3>3. QED
        <4>1. view.at = "read"
          BY <2>1
        <4>2. QED
          BY <3>1, <3>2, <4>1 DEF Commit
    <2>4. Knows(db', a, q.of)
      BY <2>2, KnowsStays
    <2>5. ASSUME NEW i \in DOMAIN q.selects
          PROVE  SelectRead(db', made', q, view'.ever, view'.always, i, view'.got[i])
      <3>1. SelectRead(db, made, q, view.ever, view.always, i, view.got[i])
        BY <2>1
      <3>2. SelectRead(db', made', q, view'.ever, view'.always, i, view.got[i])
        BY <2>1, <2>2, <2>3, <3>1, CommitReads
      <3>3. QED
        BY <2>3, <3>2
    <2>6. MustRead(db', q, view'.always, view'.got[1])
      <3>1. 1 \in DOMAIN q.selects
        BY <2>2 DEF QueryFine
      <3>2. SelectRead(db, made, q, view.ever, view.always, 1, view.got[1])
        BY <2>1, <3>1
      <3>3. view'.always \subseteq view.always \cap AtOnce(db', q)
        BY <2>3
      <3>4. MustRead(db', q, view'.always, view.got[1])
        BY <2>1, <2>2, <3>2, <3>3, CommitMust
      <3>5. QED
        BY <2>3, <3>4
    <2>7. view'.got = [i \in DOMAIN q.selects |-> view'.got[i]]
      BY <2>1, <2>3
    <2>8. UnderWay(db', made', view')
      BY <2>2, <2>3, <2>4, <2>5, <2>6, <2>7 DEF UnderWay
    <2>9. QED
      BY <2>8 DEF ViewFine
  <1>3. QED
    BY <1>1, <1>2 DEF ViewFine

-----------------------------------------------------------------------------
(* Reads: the steps of the run.                                            *)

\* A step of a registration: what it returned, or what it inserts next.
SavingStep ==
    \/ UNCHANGED saving
    \/ \E c, x : saving' = [saving EXCEPT ![c] = x] /\ x.at \in {"idle", "insert", "saved"}

\* A request commits one statement at most, and takes registrations from state to state.
LEMMA RequestCommits ==
    ASSUME Request
    PROVE  (Commit(db') \/ UNCHANGED <<db, made, view>>) /\ SavingStep
  <1>1. ASSUME NEW t, NEW o, Create(t, o) \/ Change(o)
        PROVE  Commit(db')
    BY <1>1 DEF Create, Change, Commit
  <1>2. ASSUME NEW c, NEW e, NEW s, NEW h, SaveForInstance(c, e, s, h)
        PROVE  UNCHANGED <<db, made, view>> /\ SavingStep
    <2>1. PICK x : /\ saving' = [saving EXCEPT ![c] = x]
                   /\ x.at \in {"insert", "saved"}
      <3> DEFINE found == Owned(db, "instances", OwnerId(e), [openstack_id |-> s])
                 x == IF found = {} THEN [at |-> "saved", err |-> "ErrInstanceNotFound"]
                      ELSE [at |-> "insert", host |-> h,
                            instance |-> (CHOOSE r \in found : TRUE).id]
      <3>1. saving' = [saving EXCEPT ![c] = x]
        BY <1>2 DEF SaveForInstance
      <3>2. x.at \in {"insert", "saved"}
        OBVIOUS
      <3> HIDE DEF x
      <3>3. QED
        BY <3>1, <3>2
    <2>2. QED
      BY <1>2, <2>1 DEF SaveForInstance, SavingStep
  <1>3. ASSUME NEW c, SaveReturns(c)
        PROVE  UNCHANGED <<db, made, view>> /\ SavingStep
    <2>1. Idle.at = "idle"
      BY DEF Idle
    <2>2. QED
      BY <1>3, <2>1 DEF SaveReturns, SavingStep
  <1>4. ASSUME NEW c, InsertApp(c)
        PROVE  Commit(db') /\ SavingStep
    <2>1. PICK o, err : /\ Create("apps", o)
                        /\ saving' = [saving EXCEPT ![c] = [at |-> "saved", err |-> err]]
      BY <1>4 DEF InsertApp
    <2>2. [at |-> "saved", err |-> err].at = "saved"
      OBVIOUS
    <2>3. QED
      BY <1>1, <2>1, <2>2 DEF SavingStep
  <1>5. ASSUME NEW e, NEW g, NEW v, NEW refresh, NEW jti, UpsertUser(e, g, v, refresh, jti)
        PROVE  Commit(db') /\ SavingStep
    BY <1>1, <1>5 DEF UpsertUser, SavingStep
  <1>6. ASSUME NEW rows, NEW jti, Session(rows, jti)
        PROVE  Commit(db') /\ SavingStep
    BY <1>1, <1>6 DEF Session, SavingStep
  <1>7. ASSUME NEW e, NEW s, NEW v, NEW rename,
               SaveInstance(e, s, v) \/ UpdateInstanceMetadata(e, s, v, rename)
        PROVE  Commit(db') /\ SavingStep
    BY <1>1, <1>7 DEF SaveInstance, UpdateInstanceMetadata, SavingStep
  <1>8. ASSUME NEW e, NEW x, NEW v,
               SaveKeyPair(e, x, v) \/ SaveContainer(e, x, v) \/ CreateDeployment(e, x, v)
        PROVE  Commit(db') /\ SavingStep
    BY <1>1, <1>8 DEF SaveKeyPair, SaveContainer, CreateDeployment, SavingStep
  <1>9. ASSUME NEW e, NEW f, NEW set, NEW cleared, UpdateFunction(e, f, set, cleared)
        PROVE  Commit(db') /\ SavingStep
    BY <1>1, <1>9 DEF UpdateFunction, SavingStep
  <1>10. ASSUME NEW e, NEW x,
                \/ DeleteByOpenstackID(e, x) \/ DeleteByInstance(e, x) \/ DeleteByName(e, x)
                \/ DeleteContainer(e, x) \/ DeleteFunction(e, x)
         PROVE  Commit(db') /\ SavingStep
    BY <1>1, <1>10 DEF DeleteByOpenstackID, DeleteByInstance, DeleteByName, DeleteContainer,
           DeleteFunction, SavingStep
  <1>11. QED
    BY <1>2, <1>3, <1>4, <1>5, <1>6, <1>7, <1>8, <1>9, <1>10 DEF Request

-----------------------------------------------------------------------------
(* Reads: the queries ask faithfully.                                      *)

\* A select that takes no page.
Built(s, t, where, owner, only) ==
    /\ IsSelect(s) /\ s.table = t /\ s.where = where /\ s.owner = owner
    /\ s.count = FALSE /\ s.only = only /\ s.page = 0 /\ s.limit = 0

\* The ways of building one: plainly, ...
LEMMA BuildSelect ==
    ASSUME NEW t \in Tables, NEW where, NEW owner, NEW cols
    PROVE  Built(Select(t, where, owner, cols), t, where, owner, FALSE)
  <1> DEFINE s == Select(t, where, owner, cols)
  <1>1. IsSelect(s)
    BY SelectFacts
  <1>2. /\ s.table = t /\ s.where = where /\ s.owner = owner
        /\ s.count = FALSE /\ s.only = FALSE /\ s.page = 0 /\ s.limit = 0
    BY DEF Select
  <1> HIDE DEF s
  <1>3. Built(s, t, where, owner, FALSE)
    BY <1>1, <1>2, Zenon DEF Built
  <1>4. QED
    BY <1>3 DEF s

\* ... with exactly one row, ...
LEMMA BuildOnly ==
    ASSUME NEW s, NEW t, NEW where, NEW owner, NEW only, Built(s, t, where, owner, only)
    PROVE  Built(Only(s), t, where, owner, TRUE)
  <1>1. IsSelect(s)
    BY DEF Built
  <1>2. IsSelect(Only(s)) /\ Only(s).only = TRUE /\ But(s, Only(s), "only")
    BY <1>1, OnlyFacts
  <1>3. \A g \in {"table", "where", "owner", "count", "page", "limit"} : Only(s)[g] = s[g]
    BY <1>2 DEF But, SelectFields
  <1>4. QED
    BY <1>2, <1>3 DEF Built

\* ... and with an edge.
LEMMA BuildWith ==
    ASSUME NEW s, NEW t, NEW where, NEW owner, NEW only, Built(s, t, where, owner, only),
           NEW e \in LoadedEdges(t), NEW cols \in SUBSET AllColumns
    PROVE  Built(With(s, e, cols), t, where, owner, only)
  <1>1. IsSelect(s) /\ s.table = t
    BY DEF Built
  <1>2. IsSelect(With(s, e, cols)) /\ But(s, With(s, e, cols), "edges")
    BY <1>1, WithFacts
  <1>3. \A g \in {"table", "where", "owner", "count", "only", "page", "limit"} :
            With(s, e, cols)[g] = s[g]
    BY <1>2 DEF But, SelectFields
  <1>4. QED
    BY <1>2, <1>3 DEF Built

\* Such a select is a fine one of a query it is faithful to.
LEMMA BuiltFine ==
    ASSUME NEW s, NEW t, NEW where, NEW owner, NEW only \in BOOLEAN,
           Built(s, t, where, owner, only), NEW q, NEW a, Faithful(q, a, s)
    PROVE  SelectFine(q, a, s)
  <1>1. s.page = 0 /\ s.limit = 0
    BY DEF Built
  <1>2. s.page \in Nat /\ s.limit \in Nat /\ s.page = 0
    BY <1>1
  <1>3. IsSelect(s) /\ s.count = FALSE /\ s.only = only
    BY DEF Built
  <1>4. s.count \in BOOLEAN /\ s.only \in BOOLEAN /\ ~s.count
    BY <1>3
  <1>5. QED
    BY <1>2, <1>3, <1>4, Zenon DEF SelectFine

\* A query of one select.
LEMMA SingleQuery ==
    ASSUME NEW of, NEW key, NEW s, NEW t, NEW where, NEW owner, NEW only \in BOOLEAN,
           Built(s, t, where, owner, only), NEW a \in Nat,
           Faithful(Query(of, key, <<s>>), a, s)
    PROVE  QueryFine(Query(of, key, <<s>>), a)
  <1> DEFINE q == Query(of, key, <<s>>)
  <1>1. /\ q.selects = <<s>> /\ q.parallel = FALSE /\ q.must = FALSE
    BY DEF Query
  <1>2. DOMAIN q.selects = 1 .. 1 /\ q.selects[1] = s
    BY <1>1
  <1>3. SelectFine(q, a, s)
    BY BuiltFine
  <1> HIDE DEF q
  <1>4. \A i \in DOMAIN q.selects : SelectFine(q, a, q.selects[i])
    BY <1>2, <1>3
  <1>5. QueryFine(q, a)
    BY <1>1, <1>2, <1>4 DEF QueryFine
  <1>6. QED
    BY <1>5 DEF q

\* A column tells the entity of an account, or the entity whoever owns it.
OwnedKey(t, c, k) ==
    /\ Tells(t, c, k) /\ c \in RowColumns(t) \ Nullable
    /\ {c} \in Unique[t] \/ {c, OwnerColumn(t)} \in Unique[t]
AnyKey(t, c, k) ==
    Tells(t, c, k) /\ c \in RowColumns(t) \ Nullable /\ {c} \in Unique[t]

\* The columns that the queries look for.
LEMMA QueryKeys ==
    ASSUME NEW k
    PROVE  /\ OwnedKey("instances", "openstack_id", k) /\ AnyKey("instances", "openstack_id", k)
           /\ OwnedKey("key_pairs", "openstack_name", k)
           /\ k \notin Nat => OwnedKey("containers", "name", k)
           /\ k \in Nat => AnyKey("containers", "id", k)
           /\ OwnedKey("functions", "id", k) /\ AnyKey("functions", "id", k)
           /\ AnyKey("apps", "host", k)
  <1>1. OwnedKey("instances", "openstack_id", k) /\ AnyKey("instances", "openstack_id", k)
    BY DEF OwnedKey, AnyKey, Tells, KeyOf, RowColumns, Columns, InstanceColumns, Nullable,
           Unique, InstanceUnique
  <1>2. OwnedKey("key_pairs", "openstack_name", k)
    BY DEF OwnedKey, Tells, KeyOf, RowColumns, Columns, KeyPairColumns, Nullable, Unique,
           KeyPairUnique
  <1>3. ASSUME k \notin Nat PROVE OwnedKey("containers", "name", k)
    <2>1. OwnerColumn("containers") = "user_containers"
      BY DEF OwnerColumn, Loads, ContainerLoads
    <2>2. Tells("containers", "name", k)
      BY <1>3 DEF Tells
    <2>3. QED
      BY <2>1, <2>2 DEF OwnedKey, RowColumns, Columns, ContainerColumns, Nullable, Unique,
             ContainerUnique
  <1>4. ASSUME k \in Nat PROVE AnyKey("containers", "id", k)
    <2>1. Tells("containers", "id", k)
      BY <1>4 DEF Tells
    <2>2. QED
      BY <2>1 DEF AnyKey, RowColumns, Columns, ContainerColumns, Nullable, Unique,
             ContainerUnique
  <1>5. OwnedKey("functions", "id", k) /\ AnyKey("functions", "id", k)
    BY DEF OwnedKey, AnyKey, Tells, KeyOf, RowColumns, Columns, FunctionColumns, Nullable,
           Unique, FunctionUnique
  <1>6. AnyKey("apps", "host", k)
    BY DEF AnyKey, Tells, KeyOf, RowColumns, Columns, AppColumns, Nullable, Unique, AppUnique
  <1>7. QED
    BY <1>1, <1>2, <1>3, <1>4, <1>5, <1>6

\* One entity of an account.
LEMMA FaithfulToOwner ==
    ASSUME NEW of, of # Null, NEW key, key # Null, NEW ss, NEW t \in OwnedTables, NEW c,
           OwnedKey(t, c, key), NEW a, a # 0, NEW only \in BOOLEAN, NEW s,
           Built(s, t, [b \in {c} |-> key], [id |-> a], only)
    PROVE  Faithful(Query(of, key, ss), a, s)
  <1> DEFINE q == Query(of, key, ss)
  <1>1. q.of = of /\ q.key = key
    BY DEF Query
  <1>2. /\ s.table = t /\ s.owner = [id |-> a] /\ s.where = [b \in {c} |-> q.key]
    BY <1>1 DEF Built
  <1> HIDE DEF q
  <1>3. Faithful(q, a, s)
    BY <1>1, <1>2, PicksOwned DEF OwnedKey
  <1>4. QED
    BY <1>3 DEF q

\* All entities of an account in a table.
LEMMA FaithfulToAccount ==
    ASSUME NEW of, of # Null, NEW ss, NEW t \in OwnedTables, NEW a, a # 0, NEW s,
           Built(s, t, None, [id |-> a], FALSE)
    PROVE  Faithful(Query(of, Null, ss), a, s)
  <1> DEFINE q == Query(of, Null, ss)
  <1>1. q.of = of /\ q.key = Null
    BY DEF Query
  <1>2. s.table = t /\ s.owner = [id |-> a] /\ s.where = None /\ ~s.only
    BY DEF Built
  <1> HIDE DEF q
  <1>3. Faithful(q, a, s)
    BY <1>1, <1>2, PicksOwned
  <1>4. QED
    BY <1>3 DEF q

\* One entity, whoever owns it.
LEMMA FaithfulToKey ==
    ASSUME NEW key, key # Null, NEW ss, NEW t \in Tables, NEW c, AnyKey(t, c, key),
           NEW only \in BOOLEAN, NEW s, Built(s, t, [b \in {c} |-> key], None, only)
    PROVE  Faithful(Query(Null, key, ss), 0, s)
  <1> DEFINE q == Query(Null, key, ss)
  <1>1. q.of = Null /\ q.key = key
    BY DEF Query
  <1>2. s.table = t /\ s.owner = None /\ s.where = [b \in {c} |-> q.key]
    BY <1>1 DEF Built
  <1> HIDE DEF q
  <1>3. Faithful(q, 0, s)
    BY <1>1, <1>2, PicksByKey DEF AnyKey
  <1>4. QED
    BY <1>3 DEF q

\* The account that asks: its id is a number, never 0.
LEMMA AccountKnown ==
    ASSUME Intact(db, made), NEW e \in Accounts
    PROVE  OwnerId(e) \in Nat \ {0} /\ Knows(db, OwnerId(e), e) /\ e # Null
  <1>1. UserRow(db, e) # {} /\ e \in Emails
    BY DEF Accounts
  <1> DEFINE u == CHOOSE u \in UserRow(db, e) : TRUE
  <1>2. u \in UserRow(db, e) /\ OwnerId(e) = u["id"]
    BY <1>1 DEF OwnerId
  <1>3. u \in db["users"] /\ u["email"] = e
    BY <1>2 DEF UserRow
  <1>4. u["id"] \in 1 .. made["users"] /\ made["users"] \in Nat
    BY <1>3 DEF Intact, RowOf, Tables
  <1> HIDE DEF u
  <1>5. QED
    BY <1>1, <1>2, <1>3, <1>4, RepositoriesAssumption DEF Knows

\* The read of one entity of an account.
LEMMA OwnedEntityRead ==
    ASSUME Intact(db, made), NEW e \in Accounts, NEW key, key # Null, NEW t \in OwnedTables,
           NEW c, OwnedKey(t, c, key), NEW s,
           Built(s, t, [b \in {c} |-> key], [id |-> OwnerId(e)], TRUE)
    PROVE  QueryFine(Query(e, key, <<s>>), OwnerId(e))
  <1>1. OwnerId(e) \in Nat \ {0} /\ e # Null
    BY AccountKnown
  <1>2. Faithful(Query(e, key, <<s>>), OwnerId(e), s)
    BY <1>1, FaithfulToOwner
  <1>3. QED
    BY <1>1, <1>2, SingleQuery

\* All of what it owns in a table.
LEMMA OwnedEntitiesRead ==
    ASSUME Intact(db, made), NEW e \in Accounts, NEW t \in OwnedTables, NEW s,
           Built(s, t, None, [id |-> OwnerId(e)], FALSE)
    PROVE  QueryFine(Query(e, Null, <<s>>), OwnerId(e))
  <1>1. OwnerId(e) \in Nat \ {0} /\ e # Null
    BY AccountKnown
  <1>2. Faithful(Query(e, Null, <<s>>), OwnerId(e), s)
    BY <1>1, FaithfulToAccount
  <1>3. QED
    BY <1>1, <1>2, SingleQuery

\* The reads of an entity of anyone.
LEMMA EntityRead ==
    ASSUME NEW key, key # Null, NEW t \in Tables, NEW c, AnyKey(t, c, key), NEW s,
           Built(s, t, [b \in {c} |-> key], None, TRUE)
    PROVE  QueryFine(Query(Null, key, <<s>>), 0)
  BY FaithfulToKey, SingleQuery

\* What is loaded over edges are columns.
LEMMA ColumnsLoaded ==
    /\ {"id", "host"} \in SUBSET AllColumns /\ {"openstack_id"} \in SUBSET AllColumns
    /\ {"id"} \in SUBSET AllColumns /\ owner_of \in SUBSET AllColumns
  <1>1. \A t \in Tables : Columns[t] \subseteq AllColumns
    BY DEF AllColumns
  <1>2. /\ {"id", "host"} \subseteq Columns["apps"]
        /\ {"openstack_id"} \subseteq Columns["instances"]
    BY DEF Columns, AppColumns, InstanceColumns
  <1>3. {"id"} \subseteq Columns["users"] /\ owner_of \subseteq Columns["users"]
    BY DEF Columns, UserColumns, owner_of
  <1>4. QED
    BY <1>1, <1>2, <1>3, Zenon DEF Tables

\* A query that is asked faithfully of the database as it is.
Asks(q) == \E a : QueryFine(q, a) /\ Knows(db, a, q.of)

\* Of an account, by itself; of no account, by nobody.
LEMMA AsksOf ==
    ASSUME Intact(db, made), NEW of, NEW key, NEW selects, NEW a,
           QueryFine(Query(of, key, selects), a), a = 0 \/ (of \in Accounts /\ a = OwnerId(of))
    PROVE  Asks(Query(of, key, selects))
  <1>1. Query(of, key, selects).of = of
    BY DEF Query
  <1>2. Knows(db, a, of)
    BY AccountKnown DEF Knows
  <1>3. QED
    BY <1>1, <1>2 DEF Asks

\* The reads of accounts, instances and apps.
LEMMA AccountReadsFine ==
    ASSUME Intact(db, made), NEW q \in AccountReads
    PROVE  Asks(q)
  <1>1. PICK e \in Emails : q = FindByEmail(e)
    BY DEF AccountReads
  <1> DEFINE s == Only(Select("users", [email |-> e], None, toUser))
  <1>2. Built(s, "users", [email |-> e], None, TRUE)
    BY BuildSelect, BuildOnly DEF Tables
  <1>3. q = Query(e, Null, <<s>>)
    BY <1>1 DEF FindByEmail
  <1> HIDE DEF s
  <1>4. q.of = e /\ q.key = Null
    BY <1>3 DEF Query
  <1>5. Faithful(q, 0, s)
    <2>1. q.of # Null
      BY <1>4, RepositoriesAssumption
    <2>2. s.table = "users" /\ s.owner = None /\ s.where = [email |-> q.of]
      BY <1>2, <1>4 DEF Built
    <2>3. QED
      BY <1>4, <2>1, <2>2, PicksAccount
  <1>6. QueryFine(q, 0)
    BY <1>2, <1>3, <1>5, SingleQuery
  <1>7. QED
    BY <1>3, <1>6, AsksOf

\* One instance of an account, whatever is wanted of it.
LEMMA InstanceOfRead ==
    ASSUME Intact(db, made), NEW e \in Accounts, NEW s \in Servers, NEW cols
    PROVE  /\ Asks(Query(e, s, <<InstanceOf(OwnerId(e), s, cols)>>))
           /\ \A to \in SUBSET AllColumns :
                 Asks(Query(e, s, <<With(InstanceOf(OwnerId(e), s, cols), "app", to)>>))
  <1> DEFINE where == [b \in {"openstack_id"} |-> s]
             owner == [id |-> OwnerId(e)]
             i == InstanceOf(OwnerId(e), s, cols)
  <1>1. Built(i, "instances", where, owner, TRUE)
    <2>1. i = Only(Select("instances", where, owner, cols))
      BY DEF InstanceOf
    <2>2. Built(Select("instances", where, owner, cols), "instances", where, owner, FALSE)
      BY BuildSelect DEF Tables
    <2> HIDE DEF i, where, owner
    <2>3. QED
      BY <2>1, <2>2, BuildOnly
  <1>2. ASSUME NEW x, Built(x, "instances", where, owner, TRUE)
        PROVE  Asks(Query(e, s, <<x>>))
    <2>1. s # Null
      BY RepositoriesAssumption
    <2>2. "instances" \in OwnedTables /\ OwnedKey("instances", "openstack_id", s)
      BY QueryKeys DEF OwnedTables
    <2>3. QueryFine(Query(e, s, <<x>>), OwnerId(e))
      BY <1>2, <2>1, <2>2, OwnedEntityRead
    <2>4. QED
      BY <2>3, AsksOf
  <1>3. ASSUME NEW to \in SUBSET AllColumns
        PROVE  Built(With(i, "app", to), "instances", where, owner, TRUE)
    <2>1. "app" \in LoadedEdges("instances")
      BY DEF LoadedEdges, Loads, InstanceLoads
    <2> HIDE DEF i, where, owner
    <2>2. QED
      BY <1>1, <2>1, BuildWith
  <1> HIDE DEF i, where, owner
  <1>4. /\ Asks(Query(e, s, <<i>>))
        /\ \A to \in SUBSET AllColumns : Asks(Query(e, s, <<With(i, "app", to)>>))
    BY <1>1, <1>2, <1>3
  <1>5. QED
    BY <1>4 DEF i

\* All instances of an account.
LEMMA InstancesOfRead ==
    ASSUME Intact(db, made), NEW e \in Accounts, NEW cols
    PROVE  \A to \in SUBSET AllColumns :
              Asks(Query(e, Null, <<With(InstancesOf(OwnerId(e), cols), "app", to)>>))
  <1> DEFINE owner == [id |-> OwnerId(e)]
             i == InstancesOf(OwnerId(e), cols)
  <1>1. Built(i, "instances", None, owner, FALSE)
    BY BuildSelect DEF InstancesOf, Tables
  <1>2. "app" \in LoadedEdges("instances") /\ "instances" \in OwnedTables
    BY DEF LoadedEdges, Loads, InstanceLoads, OwnedTables
  <1>3. ASSUME NEW to \in SUBSET AllColumns
        PROVE  Asks(Query(e, Null, <<With(i, "app", to)>>))
    <2>1. Built(With(i, "app", to), "instances", None, owner, FALSE)
      <3> HIDE DEF i, owner
      <3>1. QED
        BY <1>1, <1>2, BuildWith
    <2>2. QueryFine(Query(e, Null, <<With(i, "app", to)>>), OwnerId(e))
      <3> HIDE DEF i
      <3>1. QED
        BY <1>2, <2>1, OwnedEntitiesRead
    <2>3. QED
      BY <2>2, AsksOf
  <1>4. QED
    BY <1>3

\* All entities of an account in table t.
LEMMA EntitiesOfRead ==
    ASSUME Intact(db, made), NEW e \in Accounts, NEW t \in OwnedTables, NEW cols
    PROVE  Asks(Query(e, Null, <<Select(t, None, [id |-> OwnerId(e)], cols)>>))
  <1> DEFINE s == Select(t, None, [id |-> OwnerId(e)], cols)
  <1>1. Built(s, t, None, [id |-> OwnerId(e)], FALSE)
    BY BuildSelect DEF Tables, OwnedTables
  <1> HIDE DEF s
  <1>2. QueryFine(Query(e, Null, <<s>>), OwnerId(e))
    BY <1>1, OwnedEntitiesRead
  <1>3. Asks(Query(e, Null, <<s>>))
    BY <1>2, AsksOf
  <1>4. QED
    BY <1>3 DEF s

\* The entity of an account in table t that has key in column c.
LEMMA EntityOfRead ==
    ASSUME Intact(db, made), NEW e \in Accounts, NEW t \in OwnedTables, NEW c, NEW key,
           key # Null, OwnedKey(t, c, key), NEW where, where = [b \in {c} |-> key], NEW cols
    PROVE  Asks(Query(e, key, <<Only(Select(t, where, [id |-> OwnerId(e)], cols))>>))
  <1> DEFINE owner == [id |-> OwnerId(e)]
             s == Only(Select(t, where, owner, cols))
  <1>1. Built(Select(t, where, owner, cols), t, where, owner, FALSE)
    BY BuildSelect DEF Tables, OwnedTables
  <1>2. Built(s, t, where, owner, TRUE)
    BY <1>1, BuildOnly
  <1> HIDE DEF s
  <1>3. QueryFine(Query(e, key, <<s>>), OwnerId(e))
    BY <1>2, OwnedEntityRead
  <1>4. Asks(Query(e, key, <<s>>))
    BY <1>3, AsksOf
  <1>5. QED
    BY <1>4 DEF s

\* The reads of one account's key pairs, containers, functions, instances and apps.
LEMMA OwnReadsFine ==
    ASSUME Intact(db, made), NEW e \in Accounts
    PROVE  /\ Asks(ListInstances(e))
           /\ \A s \in Servers : /\ Asks(FindByOpenstackID(e, s))
                                 /\ Asks(FindInstanceName(e, s))
                                 /\ Asks(FindConsoleTarget(e, s))
           /\ Asks(ListKeyPairs(e)) /\ \A k \in KeyNames : Asks(FindKeyPair(e, k))
           /\ Asks(ListContainers(e)) /\ \A n \in Names : Asks(FindContainer(e, n))
           /\ Asks(ListFunctions(e)) /\ \A f \in Ids : Asks(GetFunction(e, f))
  <1>1. Asks(ListInstances(e))
    <2>1. {"id", "host"} \in SUBSET AllColumns
      BY ColumnsLoaded
    <2>2. Asks(Query(e, Null, <<With(InstancesOf(OwnerId(e), entToInstance), "app",
                                     {"id", "host"})>>))
      BY <2>1, InstancesOfRead, Zenon
    <2>3. QED
      BY <2>2 DEF ListInstances
  <1>2. ASSUME NEW s \in Servers
        PROVE  /\ Asks(FindByOpenstackID(e, s)) /\ Asks(FindInstanceName(e, s))
               /\ Asks(FindConsoleTarget(e, s))
    <2>1. {"id", "host"} \in SUBSET AllColumns
      BY ColumnsLoaded
    <2>2. Asks(Query(e, s, <<With(InstanceOf(OwnerId(e), s, entToInstance), "app",
                                  {"id", "host"})>>))
      BY <2>1, InstanceOfRead, Zenon
    <2>3. /\ Asks(Query(e, s, <<InstanceOf(OwnerId(e), s, {"name"})>>))
          /\ Asks(Query(e, s, <<InstanceOf(OwnerId(e), s, {"openstack_id", "name"})>>))
      BY InstanceOfRead
    <2>4. QED
      BY <2>2, <2>3 DEF FindByOpenstackID, FindInstanceName, FindConsoleTarget
  <1>3. Asks(ListKeyPairs(e)) /\ Asks(ListContainers(e)) /\ Asks(ListFunctions(e))
    BY EntitiesOfRead DEF ListKeyPairs, ListContainers, ListFunctions, OwnedTables
  <1>4. ASSUME NEW k \in KeyNames
        PROVE  Asks(FindKeyPair(e, k))
    <2>1. [openstack_name |-> k] = [b \in {"openstack_name"} |-> k] /\ k # Null
      BY RepositoriesAssumption
    <2>2. OwnedKey("key_pairs", "openstack_name", k) /\ "key_pairs" \in OwnedTables
      BY QueryKeys DEF OwnedTables
    <2>3. QED
      BY <2>1, <2>2, EntityOfRead DEF FindKeyPair
  <1>5. ASSUME NEW n \in Names
        PROVE  Asks(FindContainer(e, n))
    <2>1. [name |-> n] = [b \in {"name"} |-> n] /\ n # Null /\ n \notin Nat
      BY RepositoriesAssumption
    <2>2. OwnedKey("containers", "name", n) /\ "containers" \in OwnedTables
      BY <2>1, QueryKeys DEF OwnedTables
    <2>3. QED
      BY <2>1, <2>2, EntityOfRead DEF FindContainer
  <1>6. ASSUME NEW f \in Ids
        PROVE  Asks(GetFunction(e, f))
    <2>1. f \in Nat
      BY DEF Ids
    <2>2. [id |-> f] = [b \in {"id"} |-> f] /\ f # Null
      BY <2>1, RepositoriesAssumption
    <2>3. OwnedKey("functions", "id", f) /\ "functions" \in OwnedTables
      BY QueryKeys DEF OwnedTables
    <2>4. QED
      BY <2>2, <2>3, EntityOfRead DEF GetFunction
  <1>7. QED
    BY <1>1, <1>2, <1>3, <1>4, <1>5, <1>6

\* An entity of anyone and its owner.
LEMMA EntityOwnerRead ==
    ASSUME Intact(db, made), NEW t \in OwnedTables, NEW c, NEW key, key # Null,
           AnyKey(t, c, key), NEW where, where = [b \in {c} |-> key], NEW cols, NEW to \in SUBSET AllColumns
    PROVE  /\ Asks(Query(Null, key, <<Only(With(Select(t, where, None, cols), "owner", to))>>))
           /\ Asks(Query(Null, key, <<With(Only(Select(t, where, None, cols)), "owner", to)>>))
  <1> DEFINE s == Select(t, where, None, cols)
  <1>1. Built(s, t, where, None, FALSE) /\ t \in Tables
    BY BuildSelect DEF Tables, OwnedTables
  <1>2. "owner" \in LoadedEdges(t)
    BY DEF LoadedEdges, OwnedTables, Loads, InstanceLoads, KeyPairLoads, ContainerLoads,
           FunctionLoads
  <1> HIDE DEF s
  <1>3. ASSUME NEW x, Built(x, t, where, None, TRUE)
        PROVE  Asks(Query(Null, key, <<x>>))
    <2>1. QueryFine(Query(Null, key, <<x>>), 0)
      BY <1>1, <1>3, EntityRead
    <2>2. QED
      BY <2>1, AsksOf
  <1>4. Built(Only(With(s, "owner", to)), t, where, None, TRUE)
    <2>1. Built(With(s, "owner", to), t, where, None, FALSE)
      BY <1>1, <1>2, BuildWith
    <2>2. QED
      BY <2>1, BuildOnly
  <1>5. Built(With(Only(s), "owner", to), t, where, None, TRUE)
    <2>1. Built(Only(s), t, where, None, TRUE)
      BY <1>1, BuildOnly
    <2>2. QED
      BY <1>2, <2>1, BuildWith
  <1>6. /\ Asks(Query(Null, key, <<Only(With(s, "owner", to))>>))
        /\ Asks(Query(Null, key, <<With(Only(s), "owner", to)>>))
    BY <1>3, <1>4, <1>5
  <1>7. QED
    BY <1>6 DEF s

\* The gateway's read wants an edge that every app has.
LEMMA HostReadFine ==
    ASSUME Intact(db, made), NEW h \in Hosts
    PROVE  Asks(FindByHost(h))
  <1> DEFINE where == [host |-> h]
             s == Select("apps", where, None, {"host"})
             w == With(s, "instance", {"openstack_id"})
             x == Only(w)
             p == Query(Null, h, <<x>>)
             q == [p EXCEPT !.must = TRUE]
  <1>1. where = [b \in {"host"} |-> h] /\ h # Null
    BY RepositoriesAssumption
  <1>2. Built(s, "apps", where, None, FALSE) /\ s.edges = <<>>
    <2>1. "apps" \in Tables
      BY DEF Tables
    <2>2. s.edges = <<>>
      BY DEF Select
    <2> HIDE DEF where
    <2>3. QED
      BY <2>1, <2>2, BuildSelect
  <1>3. /\ "instance" \in LoadedEdges("apps") /\ Loads["apps"]["instance"].inverse
        /\ {"openstack_id"} \in SUBSET AllColumns
    BY ColumnsLoaded DEF LoadedEdges, Loads, AppLoads
  <1> HIDE DEF where, s
  <1>4. /\ Built(w, "apps", where, None, FALSE)
        /\ Len(w.edges) = 1 /\ w.edges[1].edge = "instance"
    <2>1. Built(w, "apps", where, None, FALSE)
      BY <1>2, <1>3, BuildWith
    <2>2. IsSelect(s) /\ s.table = "apps"
      BY <1>2 DEF Built
    <2>3. /\ Len(w.edges) = Len(s.edges) + 1
          /\ w.edges[Len(s.edges) + 1].edge = "instance"
      BY <1>3, <2>2, WithFacts
    <2>4. Len(s.edges) = 0
      BY <1>2
    <2>5. Len(s.edges) + 1 = 1
      BY <2>4
    <2> HIDE DEF w
    <2>6. Len(w.edges) = 1 /\ w.edges[1].edge = "instance"
      BY <2>3, <2>5, Zenon
    <2>7. QED
      BY <2>1, <2>6
  <1> HIDE DEF w
  <1>5. /\ Built(x, "apps", where, None, TRUE)
        /\ Len(x.edges) = 1 /\ x.edges[1].edge = "instance"
    <2>1. Built(x, "apps", where, None, TRUE)
      BY <1>4, BuildOnly
    <2>2. IsSelect(w)
      BY <1>4 DEF Built
    <2>3. But(w, x, "only")
      BY <2>2, OnlyFacts
    <2>4. x.edges = w.edges
      BY <2>3 DEF But, SelectFields
    <2>5. QED
      BY <1>4, <2>1, <2>4
  <1> HIDE DEF x
  <1>6. QueryFine(p, 0)
    <2>1. "apps" \in Tables /\ AnyKey("apps", "host", h)
      BY QueryKeys DEF Tables
    <2>2. QED
      BY <1>1, <1>5, <2>1, EntityRead
  <1>7. /\ p.of = Null /\ p.key = h /\ p.parallel = FALSE /\ p.selects = <<x>>
        /\ q.of = Null /\ q.key = h /\ q.parallel = FALSE /\ q.selects = <<x>> /\ q.must = TRUE
    BY DEF Query
  <1> HIDE DEF p, q
  <1>8. DOMAIN q.selects = 1 .. 1 /\ q.selects[1] = x
    BY <1>7
  <1>9. SelectFine(q, 0, x)
    <2>1. 1 \in DOMAIN p.selects /\ p.selects[1] = x
      BY <1>7
    <2>2. SelectFine(p, 0, x)
      BY <1>6, <2>1 DEF QueryFine
    <2>3. Faithful(p, 0, x) => Faithful(q, 0, x)
      BY <1>7 DEF Faithful, Asked
    <2>4. QED
      BY <2>2, <2>3, Zenon DEF SelectFine
  <1>10. x.only /\ Loads[x.table][Edge(x, 1)].inverse
    <2>1. x.table = "apps" /\ x.only = TRUE
      BY <1>5 DEF Built
    <2>2. QED
      BY <1>3, <1>5, <2>1 DEF Edge
  <1>11. \A i \in DOMAIN q.selects : SelectFine(q, 0, q.selects[i])
    BY <1>8, <1>9
  <1>12. QueryFine(q, 0)
    BY <1>5, <1>7, <1>8, <1>10, <1>11 DEF QueryFine
  <1>13. Asks(q)
    BY <1>7, <1>12 DEF Asks, Knows
  <1>14. QED
    BY <1>13 DEF q, p, x, w, s, where, FindByHost

\* Pages are numbered, and have rows.
LEMMA PageNumbers ==
    ASSUME NEW p \in Pages
    PROVE  p.page \in Nat /\ p.limit \in Nat \ {0}
  <1>1. p \in [page : 1 .. MaxRows, limit : PageSizes]
    BY DEF Pages
  <1>2. p.page \in 1 .. MaxRows /\ p.limit \in PageSizes
    BY <1>1
  <1>3. p.page \in Nat
    BY <1>2
  <1>4. QED
    BY <1>2, <1>3, RepositoriesAssumption

\* The selects of the administrator's views: a count of all rows, ...
LEMMA CountFine ==
    ASSUME NEW q, NEW t \in Tables
    PROVE  /\ SelectFine(q, 0, Count(t)) /\ ~Count(t).only
           /\ \A p \in Pages : SelectFine(q, 0, Paged(Count(t), p)) /\ ~Paged(Count(t), p).only
  <1> DEFINE c == Count(t)
             s == Select(t, None, None, {})
  <1>1. IsSelect(c) /\ c.count = TRUE /\ But(s, c, "count")
    BY CountSelect
  <1>2. /\ s.where = None /\ s.owner = None /\ s.edges = <<>> /\ s.only = FALSE
        /\ s.page = 0 /\ s.limit = 0
    BY DEF Select
  <1> HIDE DEF c, s
  <1>3. \A f \in {"where", "owner", "edges", "only", "page", "limit"} : c[f] = s[f]
    BY <1>1 DEF But, SelectFields
  <1>4. c.where = None /\ c.owner = None /\ c.edges = <<>> /\ c.only = FALSE
    BY <1>2, <1>3
  <1>5. c.page = 0 /\ c.limit = 0
    BY <1>2, <1>3
  <1>6. SelectFine(q, 0, c)
    <2>1. c.page \in Nat /\ c.limit \in Nat /\ c.page = 0
      BY <1>5
    <2>2. c.count \in BOOLEAN /\ c.only \in BOOLEAN /\ ~c.only
      BY <1>1, <1>4
    <2>3. QED
      BY <1>1, <1>4, <2>1, <2>2, Zenon DEF SelectFine
  <1>7. ASSUME NEW p \in Pages
        PROVE  SelectFine(q, 0, Paged(c, p)) /\ ~Paged(c, p).only
    <2> DEFINE g == Paged(c, p)
    <2>1. /\ IsSelect(g) /\ g.page = p.page /\ g.limit = p.limit
          /\ \A f \in SelectFields \ {"page", "limit"} : g[f] = c[f]
      BY <1>1, PagedFacts
    <2> HIDE DEF g
    <2>2. /\ g.count = TRUE /\ g.where = None /\ g.owner = None /\ g.edges = <<>>
          /\ g.only = FALSE
      BY <1>1, <1>4, <2>1 DEF SelectFields
    <2>3. g.page \in Nat /\ g.limit \in Nat /\ g.limit # 0
      BY <2>1, PageNumbers
    <2>4. g.count \in BOOLEAN /\ g.only \in BOOLEAN /\ ~g.only
      BY <2>2
    <2>5. SelectFine(q, 0, g) /\ ~g.only
      BY <2>1, <2>2, <2>3, <2>4, Zenon DEF SelectFine
    <2>6. QED
      BY <2>5 DEF g
  <1>8. SelectFine(q, 0, c) /\ ~c.only
    BY <1>4, <1>6
  <1>9. QED
    BY <1>7, <1>8 DEF c

\* ... and all rows, or a page of them.
LEMMA AllFine ==
    ASSUME NEW q, q.of = Null, q.key = Null, NEW t \in Tables, NEW s,
           Built(s, t, None, None, FALSE)
    PROVE  /\ SelectFine(q, 0, s) /\ ~s.only
           /\ \A p \in Pages : SelectFine(q, 0, Paged(s, p)) /\ ~Paged(s, p).only
  <1>1. /\ IsSelect(s) /\ s.table = t /\ s.where = None /\ s.owner = None
        /\ s.count = FALSE /\ s.only = FALSE
    BY DEF Built
  <1>2. Faithful(q, 0, s)
    BY <1>1, PicksByKey
  <1>3. SelectFine(q, 0, s)
    BY <1>2, BuiltFine
  <1>4. ASSUME NEW p \in Pages
        PROVE  SelectFine(q, 0, Paged(s, p)) /\ ~Paged(s, p).only
    <2> DEFINE g == Paged(s, p)
    <2>1. /\ IsSelect(g) /\ g.page = p.page /\ g.limit = p.limit
          /\ \A f \in SelectFields \ {"page", "limit"} : g[f] = s[f]
      BY <1>1, PagedFacts
    <2> HIDE DEF g
    <2>2. /\ g.table = t /\ g.where = None /\ g.owner = None /\ g.count = FALSE
          /\ g.only = FALSE
      BY <1>1, <2>1 DEF SelectFields
    <2>3. Faithful(q, 0, g)
      BY <2>2, PicksByKey
    <2>4. g.page \in Nat /\ g.limit \in Nat /\ g.limit # 0
      BY <2>1, PageNumbers
    <2>5. g.count \in BOOLEAN /\ g.only \in BOOLEAN /\ ~g.count /\ ~g.only
      BY <2>2
    <2>6. SelectFine(q, 0, g) /\ ~g.only
      BY <2>1, <2>3, <2>4, <2>5, Zenon DEF SelectFine
    <2>7. QED
      BY <2>6 DEF g
  <1>5. QED
    BY <1>1, <1>3, <1>4

\* A view of a page: the total, and the rows of the page.
LEMMA PageRead ==
    ASSUME NEW t \in Tables, NEW s, Built(s, t, None, None, FALSE), NEW p \in Pages
    PROVE  Asks(Query(Null, Null, <<Paged(Count(t), p), Paged(s, p)>>))
  <1> DEFINE x == Paged(Count(t), p)
             y == Paged(s, p)
             q == Query(Null, Null, <<x, y>>)
  <1>1. /\ q.of = Null /\ q.key = Null /\ q.selects = <<x, y>>
        /\ q.parallel = FALSE /\ q.must = FALSE
    BY DEF Query
  <1> HIDE DEF q
  <1>2. SelectFine(q, 0, x) /\ ~x.only
    BY CountFine
  <1>3. SelectFine(q, 0, y) /\ ~y.only
    BY <1>1, AllFine
  <1> HIDE DEF x, y
  <1>4. DOMAIN q.selects = 1 .. 2 /\ q.selects[1] = x /\ q.selects[2] = y
    BY <1>1
  <1>5. \A i \in DOMAIN q.selects : SelectFine(q, 0, q.selects[i]) /\ ~q.selects[i].only
    BY <1>2, <1>3, <1>4
  <1>6. QueryFine(q, 0)
    BY <1>1, <1>4, <1>5 DEF QueryFine
  <1>7. Asks(q)
    BY <1>1, <1>6 DEF Asks, Knows
  <1>8. QED
    BY <1>7 DEF q, x, y

\* The administrator's views, and what is read of a function by its id alone.
LEMMA AdminReadsFine ==
    ASSUME Intact(db, made)
    PROVE  /\ \A p \in Pages : /\ Asks(AdminUsers(p)) /\ Asks(AdminInstances(p))
                               /\ Asks(AdminContainers(p))
           /\ \A s \in Servers : Asks(AdminInstance(s))
           /\ \A i \in Ids : Asks(AdminContainer(i)) /\ Asks(GetPublicFunction(i))
  <1>1. ASSUME NEW t \in {"instances", "containers"}, NEW cols
        PROVE  /\ t \in Tables
               /\ Built(With(Select(t, None, None, cols), "owner", owner_of), t, None, None,
                        FALSE)
    <2> DEFINE s == Select(t, None, None, cols)
    <2>1. t \in Tables
      BY DEF Tables
    <2>2. Built(s, t, None, None, FALSE)
      BY <2>1, BuildSelect
    <2>3. "owner" \in LoadedEdges(t)
      BY DEF LoadedEdges, Loads, InstanceLoads, ContainerLoads
    <2> HIDE DEF s
    <2>4. Built(With(s, "owner", owner_of), t, None, None, FALSE)
      BY <2>2, <2>3, BuildWith, ColumnsLoaded
    <2>5. QED
      BY <2>1, <2>4 DEF s
  <1>2. ASSUME NEW p \in Pages
        PROVE  Asks(AdminInstances(p)) /\ Asks(AdminContainers(p))
    BY <1>1, PageRead DEF AdminInstances, AdminContainers
  <1>3. ASSUME NEW p \in Pages
        PROVE  Asks(AdminUsers(p))
    <2> DEFINE s == Select("users", None, None, userResponse)
               x == With(s, "instances", {"id"})
               y == With(x, "keypairs", {"id"})
               z == With(y, "containers", {"id"})
    <2>1. "users" \in Tables
      BY DEF Tables
    <2>2. {"instances", "keypairs", "containers"} \subseteq LoadedEdges("users")
      BY DEF LoadedEdges, Loads, UserLoads
    <2>3. Built(s, "users", None, None, FALSE)
      BY <2>1, BuildSelect
    <2>4. Built(x, "users", None, None, FALSE)
      <3> HIDE DEF s
      <3>1. QED
        BY <2>2, <2>3, BuildWith, ColumnsLoaded
    <2>5. Built(y, "users", None, None, FALSE)
      <3> HIDE DEF x
      <3>1. QED
        BY <2>2, <2>4, BuildWith, ColumnsLoaded
    <2>6. Built(z, "users", None, None, FALSE)
      <3> HIDE DEF y
      <3>1. QED
        BY <2>2, <2>5, BuildWith, ColumnsLoaded
    <2>7. Asks(Query(Null, Null, <<Paged(Count("users"), p), Paged(z, p)>>))
      <3> HIDE DEF z
      <3>1. QED
        BY <2>1, <2>6, PageRead
    <2>8. QED
      BY <2>7 DEF AdminUsers
  <1>4. ASSUME NEW s \in Servers
        PROVE  Asks(AdminInstance(s))
    <2>1. [openstack_id |-> s] = [b \in {"openstack_id"} |-> s] /\ s # Null
      BY RepositoriesAssumption
    <2>2. AnyKey("instances", "openstack_id", s) /\ "instances" \in OwnedTables
      BY QueryKeys DEF OwnedTables
    <2>3. QED
      BY <2>1, <2>2, EntityOwnerRead, ColumnsLoaded DEF AdminInstance
  <1>5. ASSUME NEW i \in Ids
        PROVE  Asks(AdminContainer(i)) /\ Asks(GetPublicFunction(i))
    <2>1. i \in Nat
      BY DEF Ids
    <2>2. [id |-> i] = [b \in {"id"} |-> i] /\ i # Null
      BY <2>1, RepositoriesAssumption
    <2>3. /\ AnyKey("containers", "id", i) /\ "containers" \in OwnedTables
          /\ AnyKey("functions", "id", i) /\ "functions" \in OwnedTables
      BY <2>1, QueryKeys DEF OwnedTables
    <2>4. QED
      BY <2>2, <2>3, EntityOwnerRead, ColumnsLoaded DEF AdminContainer, GetPublicFunction
  <1>6. QED
    BY <1>2, <1>3, <1>4, <1>5

\* The summary: four selects of everything.
LEMMA SummaryFine == Asks(SummaryCounts)
  <1> DEFINE s == Select("instances", None, None, {"openstack_id", "status"})
             u == Count("users")
             c == Count("containers")
             k == Count("key_pairs")
             p == Query(Null, Null, <<u, c, k, s>>)
             q == [p EXCEPT !.parallel = TRUE]
  <1>1. {"users", "containers", "key_pairs", "instances"} \subseteq Tables
    BY DEF Tables
  <1>2. Built(s, "instances", None, None, FALSE)
    BY <1>1, BuildSelect
  <1>3. /\ q.of = Null /\ q.key = Null /\ q.selects = <<u, c, k, s>>
        /\ q.parallel = TRUE /\ q.must = FALSE
    BY DEF Query
  <1> HIDE DEF p, q
  <1>4. /\ SelectFine(q, 0, u) /\ ~u.only /\ SelectFine(q, 0, c) /\ ~c.only
        /\ SelectFine(q, 0, k) /\ ~k.only
    BY <1>1, CountFine
  <1> HIDE DEF s
  <1>5. SelectFine(q, 0, s) /\ ~s.only
    BY <1>1, <1>2, <1>3, AllFine
  <1> HIDE DEF u, c, k
  <1>6. /\ DOMAIN q.selects = 1 .. 4 /\ q.selects[1] = u /\ q.selects[2] = c
        /\ q.selects[3] = k /\ q.selects[4] = s
    BY <1>3
  <1>7. \A i \in DOMAIN q.selects : SelectFine(q, 0, q.selects[i]) /\ ~q.selects[i].only
    BY <1>4, <1>5, <1>6
  <1>8. QueryFine(q, 0)
    BY <1>3, <1>6, <1>7 DEF QueryFine
  <1>9. Asks(q)
    BY <1>3, <1>8 DEF Asks, Knows
  <1>10. QED
    BY <1>9 DEF q, p, s, u, c, k, SummaryCounts

\* What the administrator sees of an account: the account itself, which never goes, and
\* what it owns.
LEMMA ResourcesFine ==
    ASSUME Intact(db, made), NEW e \in Accounts
    PROVE  Asks(UserResources(e))
  <1> DEFINE a == OwnerId(e)
             owner == [id |-> a]
             u == Only(Select("users", [id |-> a], None, userResponse))
             i == With(InstancesOf(a, instanceResponse), "owner", owner_of)
             c == With(Select("containers", None, owner, containerResponse), "owner", owner_of)
             k == With(Select("key_pairs", None, owner, keypairResponse), "instances", {"id"})
             q == Query(e, Null, <<u, i, c, k>>)
  <1>1. a \in Nat \ {0} /\ Knows(db, a, e) /\ e # Null
    BY AccountKnown
  <1> HIDE DEF a
  <1>2. /\ q.of = e /\ q.key = Null /\ q.selects = <<u, i, c, k>>
        /\ q.parallel = FALSE /\ q.must = FALSE
    BY DEF Query
  <1>3. Built(u, "users", [id |-> a], None, TRUE)
    BY BuildSelect, BuildOnly DEF Tables
  <1>4. ASSUME NEW t \in Tables, NEW cols, NEW f \in LoadedEdges(t),
               NEW to \in SUBSET AllColumns
        PROVE  Built(With(Select(t, None, owner, cols), f, to), t, None, owner, FALSE)
    <2> DEFINE s == Select(t, None, owner, cols)
    <2>1. Built(s, t, None, owner, FALSE)
      BY BuildSelect
    <2> HIDE DEF s, owner
    <2>2. Built(With(s, f, to), t, None, owner, FALSE)
      BY <1>4, <2>1, BuildWith
    <2>3. QED
      BY <2>2 DEF s, owner
  <1>5. /\ "owner" \in LoadedEdges("instances") /\ "owner" \in LoadedEdges("containers")
        /\ "instances" \in LoadedEdges("key_pairs")
        /\ {"instances", "containers", "key_pairs"} \subseteq Tables
    BY DEF LoadedEdges, Loads, InstanceLoads, ContainerLoads, KeyPairLoads, Tables
  <1>6. Built(i, "instances", None, owner, FALSE)
    BY <1>4, <1>5, ColumnsLoaded DEF InstancesOf
  <1>7. Built(c, "containers", None, owner, FALSE)
    BY <1>4, <1>5, ColumnsLoaded
  <1>8. Built(k, "key_pairs", None, owner, FALSE)
    BY <1>4, <1>5, ColumnsLoaded
  <1> HIDE DEF u, i, c, k
  <1>9. /\ Faithful(q, a, u)
        /\ \A d, m : Intact(d, m) /\ Knows(d, a, q.of) => Picked(d, u) # {}
    <2>1. u.table = "users" /\ u.owner = None /\ u.where = [id |-> a]
      BY <1>3 DEF Built
    <2>2. q.of # Null /\ q.key = Null /\ a # 0
      BY <1>1, <1>2
    <2> HIDE DEF q
    <2>3. QED
      BY <2>1, <2>2, PicksAccount
  <1>10. Faithful(q, a, i) /\ Faithful(q, a, c) /\ Faithful(q, a, k)
    BY <1>1, <1>6, <1>7, <1>8, FaithfulToAccount DEF OwnedTables
  <1> HIDE DEF q, owner
  <1>11. /\ SelectFine(q, a, u) /\ SelectFine(q, a, i) /\ SelectFine(q, a, c)
         /\ SelectFine(q, a, k)
    BY <1>3, <1>6, <1>7, <1>8, <1>9, <1>10, BuiltFine
  <1>12. i.only = FALSE /\ c.only = FALSE /\ k.only = FALSE
    BY <1>6, <1>7, <1>8 DEF Built
  <1>13. /\ DOMAIN q.selects = 1 .. 4 /\ q.selects[1] = u /\ q.selects[2] = i
         /\ q.selects[3] = c /\ q.selects[4] = k
    BY <1>2
  <1>14. \A j \in DOMAIN q.selects : SelectFine(q, a, q.selects[j])
    BY <1>11, <1>13
  <1>15. ASSUME NEW j \in DOMAIN q.selects, q.selects[j].only
         PROVE  \A d, m : Intact(d, m) /\ Knows(d, a, q.of) => Picked(d, q.selects[j]) # {}
    BY <1>9, <1>12, <1>13, <1>15
  <1>16. QueryFine(q, a)
    BY <1>1, <1>2, <1>13, <1>14, <1>15 DEF QueryFine
  <1>17. Asks(q)
    BY <1>1, <1>2, <1>16 DEF Asks
  <1>18. QED
    BY <1>17 DEF q, u, i, c, k, owner, a, UserResources

\* All reads of the run.
LEMMA ReadsFine ==
    ASSUME Intact(db, made),
           NEW q \in AccountReads \cup InstanceReads \cup AppReads \cup KeyReads
                     \cup ContainerReads \cup FunctionReads \cup SummaryReads
    PROVE  Asks(q)
  <1>1. CASE q \in AccountReads
    BY <1>1, AccountReadsFine
  <1>2. CASE q \in InstanceReads
    <2>1. ASSUME NEW e \in Emails, q = ListInstancesByEmail(e)
          PROVE  Asks(q)
      <3> DEFINE s == Select("instances", None, [email |-> e],
                             {"openstack_id", "name", "status"})
      <3>1. Built(s, "instances", None, [email |-> e], FALSE)
        BY BuildSelect DEF Tables
      <3>2. q = Query(e, Null, <<s>>)
        BY <2>1 DEF ListInstancesByEmail
      <3> HIDE DEF s
      <3>3. q.of = e /\ q.key = Null
        BY <3>2 DEF Query
      <3>4. Faithful(q, 0, s)
        <4>1. q.of # Null
          BY <3>3, RepositoriesAssumption
        <4>2. /\ s.table \in OwnedTables /\ s.owner = [email |-> q.of] /\ s.where = None
              /\ ~s.only
          BY <3>1, <3>3 DEF Built, OwnedTables
        <4>3. QED
          BY <3>3, <4>1, <4>2, PicksByEmail
      <3>5. QueryFine(q, 0)
        BY <3>1, <3>2, <3>4, SingleQuery
      <3>6. QED
        BY <3>2, <3>5, AsksOf
    <2> DEFINE Own == {{FindInstanceName(e, s), FindConsoleTarget(e, s)} :
                          e \in Accounts, s \in Servers}
    <2>2. ASSUME q \in UNION Own
          PROVE  Asks(q)
      <3>1. PICK S \in Own : q \in S
        BY <2>2
      <3>2. PICK e \in Accounts, s \in Servers :
                q \in {FindInstanceName(e, s), FindConsoleTarget(e, s)}
        BY <3>1
      <3>3. QED
        BY <3>2, OwnReadsFine
    <2>3. \/ \E e \in Emails : q = ListInstancesByEmail(e)
          \/ q \in UNION Own
          \/ \E p \in Pages : q = AdminInstances(p)
          \/ \E s \in Servers : q = AdminInstance(s)
      <3> DEFINE Lists == {ListInstancesByEmail(e) : e \in Emails}
                 Views == {AdminInstances(p) : p \in Pages}
                 Looks == {AdminInstance(s) : s \in Servers}
      <3>1. InstanceReads = Lists \cup (UNION Own) \cup Views \cup Looks
        BY DEF InstanceReads
      <3>2. /\ q \in Lists => \E e \in Emails : q = ListInstancesByEmail(e)
            /\ q \in Views => \E p \in Pages : q = AdminInstances(p)
            /\ q \in Looks => \E s \in Servers : q = AdminInstance(s)
        OBVIOUS
      <3> HIDE DEF Own, Lists, Views, Looks
      <3>3. QED
        BY <1>2, <3>1, <3>2
    <2> HIDE DEF Own
    <2>4. QED
      BY <2>1, <2>2, <2>3, AdminReadsFine
  <1>3. CASE q \in AppReads
    BY <1>3, OwnReadsFine, HostReadFine DEF AppReads
  <1>4. CASE q \in KeyReads
    BY <1>4, OwnReadsFine DEF KeyReads
  <1>5. CASE q \in ContainerReads
    BY <1>5, OwnReadsFine, AdminReadsFine DEF ContainerReads
  <1>6. CASE q \in FunctionReads
    BY <1>6, OwnReadsFine, AdminReadsFine DEF FunctionReads
  <1>7. CASE q \in SummaryReads
    BY <1>7, AdminReadsFine, SummaryFine, ResourcesFine DEF SummaryReads
  <1>8. QED
    BY <1>1, <1>2, <1>3, <1>4, <1>5, <1>6, <1>7

-----------------------------------------------------------------------------
(* Reads: what is known throughout.                                        *)

\* Registrations are in one of their states.
SavingFine(sv) ==
    /\ sv = [c \in Callers |-> sv[c]]
    /\ \A c \in Callers : sv[c].at \in {"idle", "insert", "saved"}

\* A step of the run is a request, the beginning of a faithful read, or a step of a read.
LEMMA ReadSteps ==
    ASSUME Intact(db, made), MCNext
    PROVE  Request \/ (\E q : Asks(q) /\ Ask(q)) \/ Reading
  <1> DEFINE Queries == AccountReads \cup InstanceReads \cup AppReads \cup KeyReads
                        \cup ContainerReads \cup FunctionReads \cup SummaryReads
  <1>1. Request \/ Reading \/ \E q \in Queries : Ask(q)
    BY WritesAreRequests DEF MCNext, Asking
  <1>2. \A q \in Queries : Asks(q)
    BY ReadsFine
  <1>3. QED
    BY <1>1, <1>2

\* What is read stays right, and registrations stay registrations.
LEMMA ViewSteps ==
    ASSUME Intact(db, made), ViewFine(db, made, view), SavingFine(saving), [MCNext]_mcvars
    PROVE  ViewFine(db, made, view)' /\ SavingFine(saving)'
  <1>1. ASSUME SavingStep
        PROVE  SavingFine(saving)'
    <2>1. ASSUME NEW c, NEW x, saving' = [saving EXCEPT ![c] = x],
                 x.at \in {"idle", "insert", "saved"}
          PROVE  SavingFine(saving)'
      <3>1. saving' = [b \in Callers |-> IF b = c THEN x ELSE saving[b]]
        BY <2>1 DEF SavingFine
      <3>2. QED
        BY <2>1, <3>1 DEF SavingFine
    <2>2. QED
      BY <1>1, <2>1 DEF SavingStep
  <1>2. CASE Request
    <2>1. /\ Intact(db', made') /\ KeepsRows(db, made, db')
          /\ \A t \in Tables : made[t] <= made'[t]
      BY <1>2, RequestStep DEF StoreStep
    <2>2. (Commit(db') \/ UNCHANGED <<db, made, view>>) /\ SavingStep
      BY <1>2, RequestCommits
    <2>3. ViewFine(db', made', view')
      BY <2>1, <2>2, CommitView
    <2>4. QED
      BY <1>1, <2>2, <2>3
  <1>3. ASSUME NEW q, Asks(q), Ask(q)
        PROVE  ViewFine(db, made, view)' /\ SavingFine(saving)'
    <2>1. UnderWay(db', made', view')
      BY <1>3, AskReads DEF Asks
    <2>2. saving' = saving
      BY <1>3 DEF Ask
    <2>3. QED
      BY <2>1, <2>2 DEF ViewFine
  <1>4. CASE Reading
    <2>1. ASSUME NEW i, Statement(i)
          PROVE  ViewFine(db, made, view)' /\ SavingFine(saving)'
      <3>1. view.at = "read" /\ saving' = saving
        BY <2>1 DEF Statement
      <3>2. UnderWay(db, made, view)
        BY <3>1 DEF ViewFine, Idle
      <3>3. UnderWay(db', made', view')
        BY <2>1, <3>2, StatementReads
      <3>4. QED
        BY <3>1, <3>3 DEF ViewFine
    <2>2. ASSUME NEW i, StatementFails(i)
          PROVE  ViewFine(db, made, view)' /\ SavingFine(saving)'
      BY <2>2 DEF StatementFails, ViewFine
    <2>3. ASSUME Answer
          PROVE  ViewFine(db, made, view)' /\ SavingFine(saving)'
      BY <2>3 DEF Answer, ViewFine
    <2>4. QED
      BY <1>4, <2>1, <2>2, <2>3 DEF Reading
  <1>5. CASE UNCHANGED mcvars
    BY <1>5 DEF mcvars, vars
  <1>6. QED
    BY <1>2, <1>3, <1>4, <1>5, ReadSteps

-----------------------------------------------------------------------------
(* Reads: the answers.                                                     *)

\* What an answer tells from select i.
AnswerOf(q, i, g) ==
    LET s == q.selects[i] IN
    IF s.count THEN CountFacts(i, g.n, paginationResponse(s, g.n))
    ELSE {RowFact(q, i, r) : r \in g.rows}
         \cup UNION {UNION {LinkFacts(q, i, k, r, o) :
                               o \in Attached(s.table, r, Edge(s, k), g.near[k])} :
                        r \in g.rows, k \in DOMAIN s.edges}

\* The answer tells what its selects tell.
LEMMA ReportedAnswers ==
    ASSUME NEW v
    PROVE  Reported(v) = UNION {AnswerOf(v.query, i, v.got[i]) : i \in Selects(v)}
  BY DEF Reported, AnswerOf

\* The facts of a select that finds rows: of a row, of a link, of a neighbour.
LEMMA AnswerForms ==
    ASSUME NEW q, NEW i, ~q.selects[i].count, NEW g
    PROVE  LET s == q.selects[i] IN
           /\ \A x \in AnswerOf(q, i, g) :
                 \/ \E r \in g.rows : x = Row(i, OnlyIn(r, s.cols))
                 \/ \E r \in g.rows : \E k \in DOMAIN s.edges : \E o \in g.near[k] :
                       /\ Joined(Stored(s, k), r, o)
                       /\ \/ x = Link(i, k, r["id"], o["id"])
                          \/ x = Near(i, k, o["id"], OnlyIn(o, s.edges[k].cols))
           /\ \A r \in g.rows : Row(i, OnlyIn(r, s.cols)) \in AnswerOf(q, i, g)
           /\ \A r \in g.rows : \A k \in DOMAIN s.edges : \A o \in g.near[k] :
                 Joined(Stored(s, k), r, o) =>
                    /\ Link(i, k, r["id"], o["id"]) \in AnswerOf(q, i, g)
                    /\ Near(i, k, o["id"], OnlyIn(o, s.edges[k].cols)) \in AnswerOf(q, i, g)
  <1> DEFINE s == q.selects[i]
             Rows == {RowFact(q, i, r) : r \in g.rows}
             At(r, k) == Attached(s.table, r, Edge(s, k), g.near[k])
             Links(r, k) == UNION {LinkFacts(q, i, k, r, o) : o \in At(r, k)}
             All == {Links(r, k) : r \in g.rows, k \in DOMAIN s.edges}
  <1>1. AnswerOf(q, i, g) = Rows \cup (UNION All)
    BY DEF AnswerOf
  <1>2. ASSUME NEW r \in g.rows, NEW k \in DOMAIN s.edges
        PROVE  /\ \A o : o \in At(r, k) <=> o \in g.near[k] /\ Joined(Stored(s, k), r, o)
               /\ \A o : LinkFacts(q, i, k, r, o) =
                            {Link(i, k, r["id"], o["id"]),
                             Near(i, k, o["id"], OnlyIn(o, s.edges[k].cols))}
    BY DEF Attached, Joined, Stored, LinkFacts, NearFact, Link, Near
  <1>3. \A r \in g.rows : RowFact(q, i, r) = Row(i, OnlyIn(r, s.cols))
    BY DEF RowFact, Row
  <1>4. ASSUME NEW x \in AnswerOf(q, i, g)
        PROVE  \/ \E r \in g.rows : x = Row(i, OnlyIn(r, s.cols))
               \/ \E r \in g.rows : \E k \in DOMAIN s.edges : \E o \in g.near[k] :
                     /\ Joined(Stored(s, k), r, o)
                     /\ \/ x = Link(i, k, r["id"], o["id"])
                        \/ x = Near(i, k, o["id"], OnlyIn(o, s.edges[k].cols))
    <2>1. CASE x \in Rows
      BY <1>3, <2>1
    <2>2. CASE x \in UNION All
      <3>1. PICK r \in g.rows, k \in DOMAIN s.edges : x \in Links(r, k)
        BY <2>2
      <3>2. PICK o \in At(r, k) : x \in LinkFacts(q, i, k, r, o)
        BY <3>1
      <3> HIDE DEF s, At
      <3>3. /\ o \in g.near[k] /\ Joined(Stored(s, k), r, o)
            /\ x \in {Link(i, k, r["id"], o["id"]),
                      Near(i, k, o["id"], OnlyIn(o, s.edges[k].cols))}
        BY <1>2, <3>1, <3>2
      <3>4. \/ x = Link(i, k, r["id"], o["id"])
            \/ x = Near(i, k, o["id"], OnlyIn(o, s.edges[k].cols))
        BY <3>3
      <3>5. QED
        BY <3>1, <3>3, <3>4
    <2>3. QED
      BY <1>1, <1>4, <2>1, <2>2
  <1>5. ASSUME NEW r \in g.rows
        PROVE  Row(i, OnlyIn(r, s.cols)) \in AnswerOf(q, i, g)
    BY <1>1, <1>3
  <1>6. ASSUME NEW r \in g.rows, NEW k \in DOMAIN s.edges, NEW o \in g.near[k],
               Joined(Stored(s, k), r, o)
        PROVE  /\ Link(i, k, r["id"], o["id"]) \in AnswerOf(q, i, g)
               /\ Near(i, k, o["id"], OnlyIn(o, s.edges[k].cols)) \in AnswerOf(q, i, g)
    <2>1. o \in At(r, k)
      BY <1>2, <1>6
    <2>2. LinkFacts(q, i, k, r, o) \subseteq Links(r, k)
      <3> HIDE DEF At
      <3>1. QED
        BY <2>1
    <2>3. Links(r, k) \in All
      OBVIOUS
    <2>4. LinkFacts(q, i, k, r, o) \subseteq AnswerOf(q, i, g)
      <3> HIDE DEF Links, All, Rows
      <3>1. QED
        BY <1>1, <2>2, <2>3
    <2>5. LinkFacts(q, i, k, r, o) = {Link(i, k, r["id"], o["id"]),
                                      Near(i, k, o["id"], OnlyIn(o, s.edges[k].cols))}
      BY <1>2
    <2>6. QED
      BY <2>4, <2>5
  <1>7. QED
    BY <1>4, <1>5, <1>6

\* What a select that has begun tells was true.
LEMMA AnswerTrue ==
    ASSUME NEW d, NEW m, NEW q, NEW ever, NEW always, NEW i, IsSelect(q.selects[i]),
           NEW g, SelectRead(d, m, q, ever, always, i, g), g.done > 0
    PROVE  AnswerOf(q, i, g) \subseteq ever
  <1> DEFINE s == q.selects[i]
  <1>1. CASE s.count
    <2>1. CountRead(q, ever, always, i, g)
      BY <1>1, Zenon DEF SelectRead
    <2>2. AnswerOf(q, i, g) = CountFacts(i, g.n, paginationResponse(s, g.n))
      BY <1>1 DEF AnswerOf
    <2>3. QED
      BY <2>1, <2>2 DEF CountRead
  <1>2. CASE ~s.count
    <2>1. RowsRead(d, m, q, ever, always, i, g)
      BY <1>2, Zenon DEF SelectRead
    <2>2. ASSUME NEW r \in g.rows
          PROVE  Row(i, OnlyIn(r, s.cols)) \in ever
      BY <2>1, <2>2 DEF RowsRead, Seen
    <2>3. ASSUME NEW r \in g.rows, NEW k \in DOMAIN s.edges, NEW o \in g.near[k],
                 Joined(Stored(s, k), r, o)
          PROVE  /\ Link(i, k, r["id"], o["id"]) \in ever
                 /\ Near(i, k, o["id"], OnlyIn(o, s.edges[k].cols)) \in ever
      <3>1. IF k < g.done THEN Loaded(q, ever, always, i, g, k) ELSE g.near[k] = {}
        BY <2>1 DEF RowsRead
      <3>2. Loaded(q, ever, always, i, g, k)
        BY <2>3, <3>1
      <3>3. QED
        BY <2>3, <3>2 DEF Loaded
    <2>4. \A x \in AnswerOf(q, i, g) :
             \/ \E r \in g.rows : x = Row(i, OnlyIn(r, s.cols))
             \/ \E r \in g.rows : \E k \in DOMAIN s.edges : \E o \in g.near[k] :
                   /\ Joined(Stored(s, k), r, o)
                   /\ \/ x = Link(i, k, r["id"], o["id"])
                      \/ x = Near(i, k, o["id"], OnlyIn(o, s.edges[k].cols))
      BY <1>2, AnswerForms
    <2> HIDE DEF s
    <2>5. QED
      BY <2>2, <2>3, <2>4
  <1>3. QED
    BY <1>1, <1>2

\* A select without an error.
Clean(g) == g.err = ""

\* What was true throughout is told once the select is over.
LEMMA AnswerWhole ==
    ASSUME NEW d, NEW m, NEW q, NEW ever, NEW always, always \subseteq AtOnce(d, q),
           \A i \in DOMAIN q.selects : IsSelect(q.selects[i]),
           NEW got, \A i \in DOMAIN q.selects : SelectRead(d, m, q, ever, always, i, got[i]),
           \A i \in DOMAIN q.selects : Over(q.selects[i], got[i]) /\ Clean(got[i]),
           NEW x \in always
    PROVE  \E i \in DOMAIN q.selects : x \in AnswerOf(q, i, got[i])
  <1>1. x \in AtOnce(d, q)
    OBVIOUS
  <1>2. PICK i \in DOMAIN q.selects :
            \/ q.selects[i].count /\ x \in Counted(d, q, i)
            \/ /\ ~q.selects[i].count
               /\ \E r \in Sought(d, q, i) :
                     \/ x = Row(i, OnlyIn(r, q.selects[i].cols))
                     \/ \E k \in DOMAIN q.selects[i].edges :
                           \E o \in d[Stored(q.selects[i], k).table] :
                              /\ Joined(Stored(q.selects[i], k), r, o)
                              /\ \/ x = Link(i, k, r["id"], o["id"])
                                 \/ x = Near(i, k, o["id"],
                                             OnlyIn(o, q.selects[i].edges[k].cols))
    BY <1>1, FactForms
  <1> DEFINE s == q.selects[i]
             g == got[i]
  <1>3. SelectRead(d, m, q, ever, always, i, g) /\ Shape(s, g) /\ IsSelect(s)
    BY Zenon DEF SelectRead
  <1>4. g.done > 0 /\ (g.rows = {} \/ g.done > Len(s.edges))
    BY Zenon DEF Over, Clean
  <1> HIDE DEF g
  <1>5. CASE s.count
    <2>1. CountRead(q, ever, always, i, g)
      <3>1. g.done > 0
        BY <1>4
      <3>2. QED
        BY <1>3, <1>5, <3>1, Zenon DEF SelectRead
    <2>2. x[1] = i
      <3>1. x \in Counted(d, q, i)
        BY <1>2, <1>5
      <3>2. QED
        BY <3>1 DEF Counted, CountFacts
    <2>3. AnswerOf(q, i, g) = CountFacts(i, g.n, paginationResponse(s, g.n))
      BY <1>5 DEF AnswerOf
    <2>4. x \in AnswerOf(q, i, g)
      BY <2>1, <2>2, <2>3 DEF CountRead
    <2>5. QED
      BY <2>4 DEF g
  <1>6. CASE ~s.count
    <2>1. RowsRead(d, m, q, ever, always, i, g)
      <3>1. g.done > 0
        BY <1>4
      <3>2. QED
        BY <1>3, <1>6, <3>1, Zenon DEF SelectRead
    <2>2. Covered(d, q, always, i, g)
      BY <2>1 DEF RowsRead
    <2>3. ASSUME NEW k \in DOMAIN s.edges, g.rows # {}
          PROVE  Loaded(q, ever, always, i, g, k)
      <3>1. DOMAIN s.edges = 1 .. Len(s.edges) /\ Len(s.edges) \in Nat
        <4>1. s.edges \in Seq([edge : LoadedEdges(s.table), cols : SUBSET AllColumns])
          BY <1>3 DEF IsSelect
        <4> HIDE DEF s
        <4>2. QED
          BY <4>1
      <3>2. g.done > Len(s.edges) /\ g.done \in Nat
        BY <1>3, <1>4, <2>3 DEF Shape
      <3>3. k < g.done
        <4> HIDE DEF s
        <4>1. k \in 1 .. Len(s.edges)
          BY <2>3, <3>1
        <4>2. QED
          BY <3>1, <3>2, <4>1
      <3>4. QED
        BY <2>1, <3>3 DEF RowsRead
    <2>4. ASSUME NEW y, x = Row(i, y)
          PROVE  x \in AnswerOf(q, i, g)
      <3>1. PICK r \in g.rows : y = OnlyIn(r, s.cols)
        BY <2>2, <2>4 DEF Covered
      <3>2. Row(i, OnlyIn(r, s.cols)) \in AnswerOf(q, i, g)
        BY <1>6, AnswerForms
      <3>3. QED
        BY <2>4, <3>1, <3>2
    <2>5. ASSUME NEW k \in DOMAIN s.edges, NEW a, NEW b, x = Link(i, k, a, b)
          PROVE  x \in AnswerOf(q, i, g)
      <3>1. PICK r \in g.rows : r["id"] = a
        BY <2>2, <2>5 DEF Covered
      <3>2. Loaded(q, ever, always, i, g, k)
        BY <2>3, <3>1
      <3>3. PICK n \in g.rows, o \in g.near[k] :
                Joined(Stored(s, k), n, o) /\ n["id"] = a /\ o["id"] = b
        BY <2>5, <3>2 DEF Loaded
      <3>4. Link(i, k, n["id"], o["id"]) \in AnswerOf(q, i, g)
        BY <1>6, <3>3, AnswerForms
      <3>5. QED
        BY <2>5, <3>3, <3>4
    <2>6. ASSUME NEW k \in DOMAIN s.edges, NEW p \in d[Stored(s, k).table], NEW y,
                 x = Near(i, k, p["id"], y)
          PROVE  x \in AnswerOf(q, i, g)
      <3>1. \E r \in g.rows : Joined(Stored(s, k), r, p)
        BY <2>2, <2>6 DEF Covered
      <3>2. Loaded(q, ever, always, i, g, k)
        BY <2>3, <3>1
      <3>3. PICK n \in g.rows, o \in g.near[k] :
                /\ Joined(Stored(s, k), n, o)
                /\ o["id"] = p["id"] /\ y = OnlyIn(o, s.edges[k].cols)
        BY <2>6, <3>2 DEF Loaded
      <3>4. Near(i, k, o["id"], OnlyIn(o, s.edges[k].cols)) \in AnswerOf(q, i, g)
        BY <1>6, <3>3, AnswerForms
      <3>5. QED
        BY <2>6, <3>3, <3>4
    <2>7. x \in AnswerOf(q, i, g)
      BY <1>2, <1>6, <2>4, <2>5, <2>6
    <2>8. QED
      BY <2>7 DEF g
  <1>7. QED
    BY <1>5, <1>6

\* Selects are at most four, and may run one after the other: with no error, all are over
\* when none may run.
LEMMA AllOver ==
    ASSUME NEW v, \E n \in {1, 2, 4} : Selects(v) = 1 .. n, \A i \in Selects(v) : ~MayRun(v, i),
           \A i \in Selects(v) : Clean(v.got[i])
    PROVE  \A i \in Selects(v) : IsOver(v, i)
  <1>1. ASSUME NEW i \in Selects(v), \A j \in 1 .. (i - 1) : IsOver(v, j)
        PROVE  IsOver(v, i)
    <2>1. \A j \in 1 .. (i - 1) : j \in Selects(v)
      OBVIOUS
    <2>2. \A j \in 1 .. (i - 1) : Clean(v.got[j])
      BY <2>1
    <2>3. \A j \in 1 .. (i - 1) : IsOver(v, j) /\ v.got[j].err = ""
      BY <1>1, <2>2, Zenon DEF Clean
    <2>4. ~MayRun(v, i)
      OBVIOUS
    <2>5. QED
      BY <2>3, <2>4, Zenon DEF MayRun
  <1>2. 1 \in Selects(v) => IsOver(v, 1)
    BY <1>1
  <1>3. 2 \in Selects(v) => IsOver(v, 2)
    BY <1>1, <1>2
  <1>4. 3 \in Selects(v) => IsOver(v, 3)
    BY <1>1, <1>2, <1>3
  <1>5. 4 \in Selects(v) => IsOver(v, 4)
    BY <1>1, <1>2, <1>3, <1>4
  <1>6. QED
    BY <1>2, <1>3, <1>4, <1>5

\* The answer has the error of the first select with one.
LEMMA FirstError ==
    ASSUME NEW v, \E n \in {1, 2, 4} : Selects(v) = 1 .. n,
           NEW k \in Selects(v), ~Clean(v.got[k])
    PROVE  \E i \in Selects(v) : ~Clean(v.got[i]) /\ Error(v) = v.got[i].err
  <1> DEFINE First(i) == ~Clean(v.got[i]) /\ \A j \in 1 .. (i - 1) : Clean(v.got[j])
  <1>1. \E i \in Selects(v) : First(i)
    <2>1. ASSUME \A i \in Selects(v) : ~First(i)
          PROVE  FALSE
      <3>1. 1 \in Selects(v) /\ \A i \in Selects(v) : \A j \in 1 .. (i - 1) : j \in Selects(v)
        OBVIOUS
      <3>2. Clean(v.got[1])
        BY <2>1, <3>1
      <3>3. 2 \in Selects(v) => Clean(v.got[2])
        BY <2>1, <3>2
      <3>4. 3 \in Selects(v) => Clean(v.got[3])
        BY <2>1, <3>2, <3>3
      <3>5. 4 \in Selects(v) => Clean(v.got[4])
        BY <2>1, <3>2, <3>3, <3>4
      <3>6. QED
        BY <3>2, <3>3, <3>4, <3>5
    <2>2. QED
      BY <2>1
  <1> DEFINE f == CHOOSE i \in Selects(v) : First(i)
  <1>2. f \in Selects(v) /\ First(f)
    BY <1>1
  <1>3. f = CHOOSE i \in Selects(v) :
               v.got[i].err # "" /\ \A j \in 1 .. (i - 1) : v.got[j].err = ""
    BY Zenon DEF Clean
  <1>4. \E i \in Selects(v) : v.got[i].err # ""
    BY Zenon DEF Clean
  <1>5. Error(v) = v.got[f].err
    BY <1>3, <1>4, Zenon DEF Error
  <1>6. QED
    BY <1>2, <1>5

\* The only edge that a read wants is there, or nothing was throughout.
LEMMA MustHolds ==
    ASSUME NEW d, NEW m, NEW v, UnderWay(d, m, v), v.query.must,
           \A i \in Selects(v) : IsOver(v, i) /\ Clean(v.got[i]), v.got[1].near[1] = {}
    PROVE  v.always = {}
  <1> DEFINE q == v.query
             s == q.selects[1]
             g == v.got[1]
  <1>1. PICK a : QueryFine(q, a)
    BY DEF UnderWay
  <1>2. DOMAIN q.selects = 1 .. 1 /\ s.only /\ Len(s.edges) = 1
    BY <1>1 DEF QueryFine
  <1>3. SelectFine(q, a, s)
    BY <1>1, <1>2 DEF QueryFine
  <1>4. 1 \in Selects(v)
    BY <1>2 DEF Selects
  <1>5. SelectRead(d, m, q, v.ever, v.always, 1, g)
    BY <1>2 DEF UnderWay
  <1>6. ~s.count
    BY <1>2, <1>3 DEF SelectFine
  <1>7. Clean(g) /\ Over(s, g)
    BY <1>4 DEF IsOver
  <1>8. g.done > 0 /\ (g.rows = {} \/ g.done > Len(s.edges))
    BY <1>7, Zenon DEF Over, Clean
  <1>9. RowsRead(d, m, q, v.ever, v.always, 1, g)
    <2>1. g.done > 0
      BY <1>8
    <2>2. QED
      BY <1>5, <1>6, <2>1, Zenon DEF SelectRead
  <1>10. g.rows # {}
    BY <1>2, <1>7, <1>9, Zenon DEF RowsRead, Clean
  <1>11. g.done > 1
    BY <1>2, <1>8, <1>10
  <1>12. MustRead(d, q, v.always, g)
    BY DEF UnderWay
  <1>13. QED
    BY <1>11, <1>12 DEF MustRead

\* An answer is faithful.
LEMMA AnswerFaithful ==
    ASSUME NEW d, NEW m, NEW v, UnderWay(d, m, v), Answered(v)
    PROVE  /\ Error(v) = "" => Reported(v) \subseteq v.ever /\ v.always \subseteq Reported(v)
           /\ Error(v) \in {"not found", "not singular"} => v.always = {}
  <1> DEFINE q == v.query
  <1>1. PICK a : QueryFine(q, a)
    BY DEF UnderWay
  <1>2. /\ \E n \in {1, 2, 4} : Selects(v) = 1 .. n
        /\ \A i \in Selects(v) : SelectFine(q, a, q.selects[i]) /\ IsSelect(q.selects[i])
    BY <1>1 DEF QueryFine, SelectFine, Selects
  <1>3. \A i \in Selects(v) : SelectRead(d, m, q, v.ever, v.always, i, v.got[i])
    BY DEF UnderWay, Selects
  <1>4. \A i \in Selects(v) : ~MayRun(v, i)
    BY Zenon DEF Answered
  <1>5. CASE \E k \in Selects(v) : ~Clean(v.got[k])
    <2>1. PICK i \in Selects(v) : ~Clean(v.got[i]) /\ Error(v) = v.got[i].err
      BY <1>2, <1>5, FirstError
    <2>2. SelectRead(d, m, q, v.ever, v.always, i, v.got[i])
      BY <1>3
    <2>3. v.always = {} /\ Error(v) # ""
      BY <2>1, <2>2, Zenon DEF SelectRead, Clean
    <2>4. QED
      BY <2>3, Zenon
  <1>6. CASE \A k \in Selects(v) : Clean(v.got[k])
    <2>1. \A i \in Selects(v) : IsOver(v, i)
      BY <1>2, <1>4, <1>6, AllOver
    <2>2. \A i \in Selects(v) : Over(q.selects[i], v.got[i])
      BY <2>1, Zenon DEF IsOver
    <2>3. \A i \in Selects(v) : v.got[i].done > 0
      BY <2>2, Zenon DEF Over
    <2>4. Reported(v) = UNION {AnswerOf(q, i, v.got[i]) : i \in Selects(v)}
      BY ReportedAnswers
    <2>5. Reported(v) \subseteq v.ever
      <3>1. \A i \in Selects(v) : AnswerOf(q, i, v.got[i]) \subseteq v.ever
        BY <1>2, <1>3, <2>3, AnswerTrue
      <3>2. QED
        BY <2>4, <3>1
    <2>6. v.always \subseteq Reported(v)
      <3>1. ASSUME NEW x \in v.always
            PROVE  \E i \in Selects(v) : x \in AnswerOf(q, i, v.got[i])
        <4>1. v.always \subseteq AtOnce(d, q) /\ DOMAIN q.selects = Selects(v)
          BY DEF UnderWay, Selects
        <4>2. QED
          BY <1>2, <1>3, <1>6, <2>2, <4>1, AnswerWhole
      <3>2. QED
        BY <2>4, <3>1
    <2>7. ASSUME Error(v) # ""
          PROVE  v.always = {}
      <3>1. q.must /\ v.got[1].near[1] = {}
        BY <1>6, <2>7, Zenon DEF Error, Clean
      <3>2. QED
        BY <1>6, <2>1, <3>1, MustHolds
    <2>8. "not found" # "" /\ "not singular" # ""
      BY Zenon
    <2>9. QED
      BY <2>5, <2>6, <2>7, <2>8, Zenon
  <1>7. QED
    BY <1>5, <1>6, Zenon

\* The database is intact, the read under way knows what it should, and registrations are
\* in one of their states.
StoreInv == Intact(db, made) /\ ViewFine(db, made, view) /\ SavingFine(saving)

\* Then every answer is a faithful one.
LEMMA StoreInvViews ==
    ASSUME StoreInv
    PROVE  ViewsInv
  <1>1. DOMAIN db = Tables
    BY DEF StoreInv, Intact
  <1>2. ASSUME NEW t \in Tables, NEW r \in db[t]
        PROVE  DOMAIN r = RowColumns(t) /\ r.id \in 1 .. made[t]
    <2>1. RowOf(t, made[t], r)
      BY DEF StoreInv, Intact
    <2>2. r = [c \in RowColumns(t) |-> r[c]] /\ r.id \in 1 .. made[t]
      BY <2>1 DEF RowOf
    <2>3. QED
      BY <2>2
  <1>3. \A c \in Callers : saving[c].at \in {"idle", "insert", "saved"}
    BY DEF StoreInv, SavingFine
  <1>4. view.at \in {"idle", "read", "failed"}
    BY DEF StoreInv, ViewFine, UnderWay, Idle
  <1>5. ViewsFaithful
    <2>1. SUFFICES ASSUME Answered(view)
                   PROVE  /\ Error(view) = "" => /\ Reported(view) \subseteq view.ever
                                                 /\ view.always \subseteq Reported(view)
                          /\ Error(view) \in {"not found", "not singular"} => view.always = {}
      BY Zenon DEF ViewsFaithful
    <2>2. view.at = "read"
      BY <2>1, Zenon DEF Answered
    <2>3. UnderWay(db, made, view)
      BY <2>2 DEF StoreInv, ViewFine, Idle
    <2>4. QED
      BY <2>1, <2>3, AnswerFaithful, Zenon
  <1>6. QED
    BY <1>1, <1>2, <1>3, <1>4, <1>5 DEF ViewsInv, TypeOK

\* Reads are faithful although no transaction holds their statements together (the select
\* of each query, the loading of edges, the paging, and every write of the repositories).
THEOREM ReadsFaithful == MCSpec => []ViewsInv
  <1>1. MCInit => StoreInv
    <2>1. SUFFICES ASSUME MCInit PROVE StoreInv
      OBVIOUS
    <2>2. Intact(db, made)
      BY <2>1, StoreInit DEF MCInit
    <2>3. Idle.at = "idle"
      BY DEF Idle
    <2>4. ViewFine(db, made, view) /\ SavingFine(saving)
      BY <2>1, <2>3 DEF MCInit, Init, ViewFine, SavingFine
    <2>5. QED
      BY <2>2, <2>4 DEF StoreInv
  <1>2. StoreInv /\ [MCNext]_mcvars => StoreInv'
    BY StoreSteps, ViewSteps DEF StoreInv, StoreStep
  <1>3. StoreInv => ViewsInv
    BY StoreInvViews
  <1>4. QED
    BY <1>1, <1>2, <1>3, PTL DEF MCSpec

-----------------------------------------------------------------------------
(* Records: rows as Records knows them.                                    *)

\* The rows behind a record: at most one each.
AccountRows(d, e) == {r \in d["users"] : r["email"] = e}
InstanceRows(d, s) == {r \in d["instances"] : r["openstack_id"] = s}
AppRows(d, s) ==
    {a \in d["apps"] : \E r \in InstanceRows(d, s) : a["instance_app"] = r["id"]}
KeyRows(d, k) == {r \in d["key_pairs"] : r["openstack_name"] = k}
NamedRows(d, t, e, n) == {r \in d[t] : r["name"] = n /\ EmailOf(d, t, r) = e}

\* A unique index on columns that are never NULL.
LEMMA UniqueRows ==
    ASSUME NEW d, NEW m, Intact(d, m), NEW t \in Tables, NEW u \in Unique[t],
           u \subseteq RowColumns(t) \ Nullable, NEW r \in d[t], NEW o \in d[t],
           \A c \in u : r[c] = o[c]
    PROVE  r = o
  <1>1. SUFFICES ASSUME r # o PROVE FALSE
    OBVIOUS
  <1>2. ~Breaks(d, t, r, d[t] \ {r})
    BY DEF Intact
  <1>3. \A c \in u : r[c] # Null
    BY <1>2 DEF Breaks
  <1>4. QED
    BY <1>1, <1>2, <1>3 DEF Breaks

\* What identifies a row of each kind.
LEMMA OneRow ==
    ASSUME NEW d, NEW m, Intact(d, m)
    PROVE  /\ \A r, o \in d["users"] : r["email"] = o["email"] => r = o
           /\ \A r, o \in d["users"] : r["google_id"] = o["google_id"] => r = o
           /\ \A r, o \in d["instances"] : r["openstack_id"] = o["openstack_id"] => r = o
           /\ \A r, o \in d["apps"] : r["host"] = o["host"] => r = o
           /\ \A r, o \in d["apps"] : r["instance_app"] = o["instance_app"] => r = o
           /\ \A r, o \in d["key_pairs"] : r["openstack_name"] = o["openstack_name"] => r = o
           /\ \A r, o \in d["containers"] : r["openstack_name"] = o["openstack_name"] => r = o
           /\ \A r, o \in d["containers"] :
                 r["name"] = o["name"] /\ r["user_containers"] = o["user_containers"] => r = o
           /\ \A r, o \in d["functions"] :
                 r["name"] = o["name"] /\ r["user_functions"] = o["user_functions"] => r = o
  <1>1. \A t \in Tables : \A u \in Unique[t] : \A r, o \in d[t] :
            u \subseteq RowColumns(t) \ Nullable /\ (\A c \in u : r[c] = o[c]) => r = o
    BY UniqueRows
  <1>2. /\ {{"email"}, {"google_id"}} \subseteq Unique["users"]
        /\ {"email", "google_id"} \subseteq RowColumns("users") \ Nullable
        /\ "users" \in Tables
    BY DEF Unique, UserUnique, RowColumns, Columns, UserColumns, Nullable, Tables
  <1>3. /\ {"openstack_id"} \in Unique["instances"] /\ "instances" \in Tables
        /\ "openstack_id" \in RowColumns("instances") \ Nullable
    BY DEF Unique, InstanceUnique, RowColumns, Columns, InstanceColumns, Nullable, Tables
  <1>4. /\ {{"host"}, {"instance_app"}} \subseteq Unique["apps"] /\ "apps" \in Tables
        /\ {"host", "instance_app"} \subseteq RowColumns("apps") \ Nullable
    BY DEF Unique, AppUnique, RowColumns, Columns, AppColumns, ForeignKeys, AppForeignKeys,
           Nullable, Tables
  <1>5. /\ {"openstack_name"} \in Unique["key_pairs"] /\ "key_pairs" \in Tables
        /\ "openstack_name" \in RowColumns("key_pairs") \ Nullable
    BY DEF Unique, KeyPairUnique, RowColumns, Columns, KeyPairColumns, Nullable, Tables
  <1>6. /\ {{"openstack_name"}, {"name", "user_containers"}} \subseteq Unique["containers"]
        /\ {"openstack_name", "name", "user_containers"}
              \subseteq RowColumns("containers") \ Nullable
        /\ "containers" \in Tables
    BY DEF Unique, ContainerUnique, RowColumns, Columns, ContainerColumns, ForeignKeys,
           ContainerForeignKeys, Nullable, Tables
  <1>7. /\ {"name", "user_functions"} \in Unique["functions"]
        /\ {"name", "user_functions"} \subseteq RowColumns("functions") \ Nullable
        /\ "functions" \in Tables
    BY DEF Unique, FunctionUnique, RowColumns, Columns, FunctionColumns, ForeignKeys,
           FunctionForeignKeys, Nullable, Tables
  <1>8. /\ \A r, o \in d["users"] : r["email"] = o["email"] => r = o
        /\ \A r, o \in d["users"] : r["google_id"] = o["google_id"] => r = o
    BY <1>1, <1>2
  <1>9. \A r, o \in d["instances"] : r["openstack_id"] = o["openstack_id"] => r = o
    BY <1>1, <1>3
  <1>10. /\ \A r, o \in d["apps"] : r["host"] = o["host"] => r = o
         /\ \A r, o \in d["apps"] : r["instance_app"] = o["instance_app"] => r = o
    BY <1>1, <1>4
  <1>11. \A r, o \in d["key_pairs"] : r["openstack_name"] = o["openstack_name"] => r = o
    BY <1>1, <1>5
  <1>12. /\ \A r, o \in d["containers"] : r["openstack_name"] = o["openstack_name"] => r = o
         /\ \A r, o \in d["containers"] :
               r["name"] = o["name"] /\ r["user_containers"] = o["user_containers"] => r = o
    BY <1>1, <1>6
  <1>13. \A r, o \in d["functions"] :
            r["name"] = o["name"] /\ r["user_functions"] = o["user_functions"] => r = o
    BY <1>1, <1>7
  <1>14. QED
    BY <1>8, <1>9, <1>10, <1>11, <1>12, <1>13

\* The only row that matches.
LEMMA OnlyMatch ==
    ASSUME NEW d, NEW m, Intact(d, m), NEW t \in Tables, NEW r \in d[t], NEW S, S = {r}
    PROVE  S # {} /\ Node(t, CHOOSE o \in S : TRUE) = r
  <1>1. (CHOOSE o \in S : TRUE) = r
    OBVIOUS
  <1>2. Node(t, r) = r
    BY NodeIsRow DEF Intact
  <1>3. QED
    BY <1>1, <1>2

\* A record is made of its row.
LEMMA AccountOfRow ==
    ASSUME NEW d, NEW m, Intact(d, m), NEW e
    PROVE  /\ AccountRows(d, e) = {} => AccountIn(d, e) = None
           /\ \A r \in AccountRows(d, e) :
                 AccountRows(d, e) = {r} /\ AccountIn(d, e) = AccountOf(r)
  <1> DEFINE S == {r \in d["users"] : Matches(r, [email |-> e])}
  <1>1. S = AccountRows(d, e)
    BY DEF Matches, AccountRows
  <1>2. AccountIn(d, e) =
            IF S = {} THEN None ELSE AccountOf(Node("users", CHOOSE r \in S : TRUE))
    BY DEF AccountIn, Of
  <1> HIDE DEF S
  <1>3. ASSUME NEW r \in AccountRows(d, e)
        PROVE  AccountRows(d, e) = {r} /\ AccountIn(d, e) = AccountOf(r)
    <2>1. AccountRows(d, e) = {r}
      BY OneRow DEF AccountRows
    <2>2. r \in d["users"] /\ "users" \in Tables
      BY DEF AccountRows, Tables
    <2>3. S # {} /\ Node("users", CHOOSE o \in S : TRUE) = r
      BY <1>1, <2>1, <2>2, OnlyMatch
    <2>4. QED
      BY <1>2, <2>1, <2>3
  <1>4. QED
    BY <1>1, <1>2, <1>3

\* The record of an instance, with its owner.
LEMMA InstanceOfRow ==
    ASSUME NEW d, NEW m, Intact(d, m), NEW s
    PROVE  /\ InstanceRows(d, s) = {} => InstanceIn(d, s) = None
           /\ \A r \in InstanceRows(d, s) :
                 InstanceRows(d, s) = {r} /\ InstanceIn(d, s) = InstanceRecord(d, r)
  <1> DEFINE S == {r \in d["instances"] : Matches(r, [openstack_id |-> s])}
  <1>1. S = InstanceRows(d, s)
    BY DEF Matches, InstanceRows
  <1>2. InstanceIn(d, s) =
            IF S = {} THEN None
            ELSE InstanceRecord(d, Node("instances", CHOOSE r \in S : TRUE))
    BY DEF InstanceIn, Of
  <1> HIDE DEF S
  <1>3. ASSUME NEW r \in InstanceRows(d, s)
        PROVE  InstanceRows(d, s) = {r} /\ InstanceIn(d, s) = InstanceRecord(d, r)
    <2>1. InstanceRows(d, s) = {r}
      BY OneRow DEF InstanceRows
    <2>2. r \in d["instances"] /\ "instances" \in Tables
      BY DEF InstanceRows, Tables
    <2>3. S # {} /\ Node("instances", CHOOSE o \in S : TRUE) = r
      BY <1>1, <2>1, <2>2, OnlyMatch
    <2>4. QED
      BY <1>2, <2>1, <2>3
  <1>4. QED
    BY <1>1, <1>2, <1>3

\* The record of a key pair, with its owner.
LEMMA KeyOfRow ==
    ASSUME NEW d, NEW m, Intact(d, m), NEW k
    PROVE  /\ KeyRows(d, k) = {} => KeyIn(d, k) = None
           /\ \A r \in KeyRows(d, k) : KeyRows(d, k) = {r} /\ KeyIn(d, k) = KeyRecord(d, r)
  <1> DEFINE S == {r \in d["key_pairs"] : Matches(r, [openstack_name |-> k])}
  <1>1. S = KeyRows(d, k)
    BY DEF Matches, KeyRows
  <1>2. KeyIn(d, k) =
            IF S = {} THEN None ELSE KeyRecord(d, Node("key_pairs", CHOOSE r \in S : TRUE))
    BY DEF KeyIn, Of
  <1> HIDE DEF S
  <1>3. ASSUME NEW r \in KeyRows(d, k)
        PROVE  KeyRows(d, k) = {r} /\ KeyIn(d, k) = KeyRecord(d, r)
    <2>1. KeyRows(d, k) = {r}
      BY OneRow DEF KeyRows
    <2>2. r \in d["key_pairs"] /\ "key_pairs" \in Tables
      BY DEF KeyRows, Tables
    <2>3. S # {} /\ Node("key_pairs", CHOOSE o \in S : TRUE) = r
      BY <1>1, <2>1, <2>2, OnlyMatch
    <2>4. QED
      BY <1>2, <2>1, <2>3
  <1>4. QED
    BY <1>1, <1>2, <1>3

\* The record of an app is found through its instance.
LEMMA AppOfRow ==
    ASSUME NEW d, NEW m, Intact(d, m), NEW s
    PROVE  /\ AppRows(d, s) = {} => AppIn(d, s) = None
           /\ \A a \in AppRows(d, s) :
                 AppRows(d, s) = {a} /\ AppIn(d, s) = [host |-> a["host"]]
  <1> DEFINE S == {r \in d["instances"] : Matches(r, [openstack_id |-> s])}
             T(r) == {a \in d["apps"] : Matches(a, [instance_app |-> r.id])}
  <1>1. S = InstanceRows(d, s)
    BY DEF Matches, InstanceRows
  <1>2. AppIn(d, s) =
            IF S = {} THEN None
            ELSE LET r == Node("instances", CHOOSE r \in S : TRUE)
                 IN  IF T(r) = {} THEN None
                     ELSE [host |-> Node("apps", CHOOSE a \in T(r) : TRUE).host]
    BY DEF AppIn, Of
  <1>3. \A r : T(r) = {a \in d["apps"] : a["instance_app"] = r["id"]}
    BY DEF Matches
  <1> HIDE DEF S, T
  <1>4. CASE S = {}
    BY <1>1, <1>2, <1>4 DEF AppRows
  <1>5. ASSUME NEW r \in S
        PROVE  /\ AppRows(d, s) = {} => AppIn(d, s) = None
               /\ \A a \in AppRows(d, s) :
                     AppRows(d, s) = {a} /\ AppIn(d, s) = [host |-> a["host"]]
    <2>1. InstanceRows(d, s) = {r} /\ r \in d["instances"] /\ "instances" \in Tables
      BY <1>1, InstanceOfRow DEF InstanceRows, Tables
    <2>2. S # {} /\ Node("instances", CHOOSE o \in S : TRUE) = r
      BY <1>1, <2>1, OnlyMatch
    <2>3. T(r) = AppRows(d, s)
      BY <1>3, <2>1 DEF AppRows
    <2>4. AppIn(d, s) = IF T(r) = {} THEN None
                        ELSE [host |-> Node("apps", CHOOSE a \in T(r) : TRUE).host]
      BY <1>2, <2>2
    <2>5. ASSUME NEW a \in AppRows(d, s)
          PROVE  AppRows(d, s) = {a} /\ AppIn(d, s) = [host |-> a["host"]]
      <3>1. a \in d["apps"] /\ "apps" \in Tables
        BY DEF AppRows, Tables
      <3>2. AppRows(d, s) = {a}
        BY <2>1, OneRow DEF AppRows
      <3>3. T(r) # {} /\ Node("apps", CHOOSE o \in T(r) : TRUE) = a
        BY <2>3, <3>1, <3>2, OnlyMatch
      <3>4. QED
        BY <2>4, <3>2, <3>3
    <2>6. QED
      BY <2>3, <2>4, <2>5
  <1>6. QED
    BY <1>4, <1>5

\* What a user has under a name: the rows with the name that the user owns.
LEMMA NamedMatch ==
    ASSUME NEW d, NEW m, Intact(d, m), NEW t \in {"containers", "functions"}, NEW e, NEW n,
           NEW u \in UserRow(d, e)
    PROVE  {r \in d[t] : Matches(r, Named(d, t, e, n))} = NamedRows(d, t, e, n)
  <1>1. t \in OwnedTables
    BY DEF OwnedTables
  <1>2. u \in d["users"] /\ u["email"] = e
    BY DEF UserRow
  <1>3. (CHOOSE w \in UserRow(d, e) : TRUE).id = u["id"]
    <2>1. UserRow(d, e) = {u}
      BY EmailsDiffer DEF UserRow
    <2>2. QED
      BY <2>1
  <1>4. OwnerColumn(t) # "name"
    BY DEF OwnerColumn, Loads, ContainerLoads, FunctionLoads
  <1> DEFINE where == Named(d, t, e, n)
  <1>5. /\ DOMAIN where = {"name", OwnerColumn(t)}
        /\ where["name"] = n /\ where[OwnerColumn(t)] = u["id"]
    <2>1. where = Override(Pick("name", n), Pick(OwnerColumn(t), u["id"]))
      BY <1>3 DEF Named, OwnerColumn
    <2> DEFINE f == Pick("name", n)
               g == Pick(OwnerColumn(t), u["id"])
    <2>2. /\ DOMAIN f = {"name"} /\ f["name"] = n
          /\ DOMAIN g = {OwnerColumn(t)} /\ g[OwnerColumn(t)] = u["id"]
      BY DEF Pick
    <2>3. where = Override(f, g)
      BY <2>1
    <2> HIDE DEF where, f, g
    <2>4. /\ DOMAIN where = DOMAIN f \cup DOMAIN g
          /\ \A x \in DOMAIN g : where[x] = g[x]
          /\ \A x \in DOMAIN f \ DOMAIN g : where[x] = f[x]
      BY <2>3 DEF Override
    <2>5. QED
      BY <1>4, <2>2, <2>4
  <1> HIDE DEF where
  <1>6. ASSUME NEW r \in d[t]
        PROVE  Matches(r, where) <=> r["name"] = n /\ EmailOf(d, t, r) = e
    <2>1. Matches(r, where) <=> r["name"] = n /\ r[OwnerColumn(t)] = u["id"]
      BY <1>5 DEF Matches
    <2>2. PICK w \in d["users"] :
              /\ w["id"] = r[OwnerColumn(t)] /\ EmailOf(d, t, r) = w["email"]
              /\ \A o \in d["users"] : o["id"] = r[OwnerColumn(t)] => o = w
      BY <1>1, OwnerFacts
    <2>3. (r[OwnerColumn(t)] = u["id"]) <=> (EmailOf(d, t, r) = e)
      BY <1>2, <2>2, EmailsDiffer
    <2>4. QED
      BY <2>1, <2>3
  <1>7. QED
    BY <1>6 DEF where, NamedRows

\* There is at most one such row, and none without the user.
LEMMA NamedRow ==
    ASSUME NEW d, NEW m, Intact(d, m), NEW t \in {"containers", "functions"}, NEW e, NEW n
    PROVE  /\ UserRow(d, e) = {} => NamedRows(d, t, e, n) = {}
           /\ \A r \in NamedRows(d, t, e, n) : NamedRows(d, t, e, n) = {r}
  <1>1. t \in OwnedTables
    BY DEF OwnedTables
  <1>2. \A r \in d[t] : \E u \in d["users"] :
            u["id"] = r[OwnerColumn(t)] /\ EmailOf(d, t, r) = u["email"]
    BY <1>1, OwnerFacts
  <1>3. UserRow(d, e) = {} => NamedRows(d, t, e, n) = {}
    BY <1>2 DEF UserRow, NamedRows
  <1>4. ASSUME NEW r \in NamedRows(d, t, e, n), NEW o \in NamedRows(d, t, e, n)
        PROVE  r = o
    <2>1. /\ r \in d[t] /\ o \in d[t] /\ r["name"] = o["name"]
          /\ EmailOf(d, t, r) = e /\ EmailOf(d, t, o) = e
      BY DEF NamedRows
    <2>2. r[OwnerColumn(t)] = o[OwnerColumn(t)]
      BY <1>2, <2>1, EmailsDiffer
    <2>3. OwnerColumn(t) = IF t = "containers" THEN "user_containers" ELSE "user_functions"
      BY DEF OwnerColumn, Loads, ContainerLoads, FunctionLoads
    <2>4. QED
      BY <2>1, <2>2, <2>3, OneRow
  <1>5. QED
    BY <1>3, <1>4

\* The record of what a user has under a name: a container, ...
LEMMA ContainerOfRow ==
    ASSUME NEW d, NEW m, Intact(d, m), NEW e, NEW n
    PROVE  /\ NamedRows(d, "containers", e, n) = {} => ContainerIn(d, e, n) = None
           /\ \A r \in NamedRows(d, "containers", e, n) :
                 /\ NamedRows(d, "containers", e, n) = {r}
                 /\ ContainerIn(d, e, n) = [swift |-> r["openstack_name"]]
  <1> DEFINE S == {r \in d["containers"] : Matches(r, Named(d, "containers", e, n))}
  <1>1. ContainerIn(d, e, n) =
            IF UserRow(d, e) = {} THEN None
            ELSE IF S = {} THEN None
            ELSE [swift |-> Node("containers", CHOOSE r \in S : TRUE).openstack_name]
    BY DEF ContainerIn, Of
  <1> HIDE DEF S
  <1>2. CASE UserRow(d, e) = {}
    BY <1>1, <1>2, NamedRow
  <1>3. CASE UserRow(d, e) # {}
    <2>1. S = NamedRows(d, "containers", e, n)
      BY <1>3, NamedMatch DEF S
    <2>2. ASSUME NEW r \in NamedRows(d, "containers", e, n)
          PROVE  /\ NamedRows(d, "containers", e, n) = {r}
                 /\ ContainerIn(d, e, n) = [swift |-> r["openstack_name"]]
      <3>1. NamedRows(d, "containers", e, n) = {r}
        BY NamedRow
      <3>2. r \in d["containers"] /\ "containers" \in Tables
        BY DEF NamedRows, Tables
      <3>3. S # {} /\ Node("containers", CHOOSE o \in S : TRUE) = r
        BY <2>1, <3>1, <3>2, OnlyMatch
      <3>4. QED
        BY <1>1, <1>3, <3>1, <3>3
    <2>3. QED
      BY <1>1, <2>1, <2>2
  <1>4. QED
    BY <1>2, <1>3

\* ... or a function.
LEMMA FunctionOfRow ==
    ASSUME NEW d, NEW m, Intact(d, m), NEW e, NEW n
    PROVE  /\ NamedRows(d, "functions", e, n) = {} => FunctionIn(d, e, n) = None
           /\ \A r \in NamedRows(d, "functions", e, n) :
                 /\ NamedRows(d, "functions", e, n) = {r}
                 /\ FunctionIn(d, e, n) = FunctionRecord(r)
  <1> DEFINE S == {r \in d["functions"] : Matches(r, Named(d, "functions", e, n))}
  <1>1. FunctionIn(d, e, n) =
            IF UserRow(d, e) = {} THEN None
            ELSE IF S = {} THEN None
            ELSE FunctionRecord(Node("functions", CHOOSE r \in S : TRUE))
    BY DEF FunctionIn, Of
  <1> HIDE DEF S
  <1>2. CASE UserRow(d, e) = {}
    BY <1>1, <1>2, NamedRow
  <1>3. CASE UserRow(d, e) # {}
    <2>1. S = NamedRows(d, "functions", e, n)
      BY <1>3, NamedMatch DEF S
    <2>2. ASSUME NEW r \in NamedRows(d, "functions", e, n)
          PROVE  /\ NamedRows(d, "functions", e, n) = {r}
                 /\ FunctionIn(d, e, n) = FunctionRecord(r)
      <3>1. NamedRows(d, "functions", e, n) = {r}
        BY NamedRow
      <3>2. r \in d["functions"] /\ "functions" \in Tables
        BY DEF NamedRows, Tables
      <3>3. S # {} /\ Node("functions", CHOOSE o \in S : TRUE) = r
        BY <2>1, <3>1, <3>2, OnlyMatch
      <3>4. QED
        BY <1>1, <1>3, <3>1, <3>3
    <2>3. QED
      BY <1>1, <2>1, <2>2
  <1>4. QED
    BY <1>2, <1>3

-----------------------------------------------------------------------------
(* Records: what a statement leaves as it is.                              *)

\* The email of an owner stays.
LEMMA OwnersStay ==
    ASSUME NEW d, NEW m, Intact(d, m), NEW e, NEW k, Intact(e, k), Lasts(d, "users", e),
           NEW t \in OwnedTables, NEW r \in d[t], NEW n \in e[t],
           n[OwnerColumn(t)] = r[OwnerColumn(t)]
    PROVE  EmailOf(e, t, n) = EmailOf(d, t, r)
  <1>1. PICK u \in d["users"] :
            u["id"] = r[OwnerColumn(t)] /\ EmailOf(d, t, r) = u["email"]
    BY OwnerFacts
  <1>2. PICK w \in e["users"] : w["id"] = u["id"] /\ w["email"] = u["email"]
    <2>1. PICK w \in e["users"] : SameRow("users", w, u)
      BY DEF Lasts
    <2>2. {"id", "email"} \subseteq FixedColumns("users")
      BY DEF FixedColumns, KeyOf
    <2>3. QED
      BY <2>1, <2>2 DEF SameRow
  <1>3. PICK v \in e["users"] :
            /\ EmailOf(e, t, n) = v["email"]
            /\ \A x \in e["users"] : x["id"] = n[OwnerColumn(t)] => x = v
    BY OwnerFacts
  <1>4. QED
    BY <1>1, <1>2, <1>3

\* Records with the same rows are the same.
LEMMA SameRows ==
    ASSUME NEW d, NEW m, Intact(d, m), NEW e, NEW k, Intact(e, k), Lasts(d, "users", e)
    PROVE  /\ \A x : AccountRows(e, x) = AccountRows(d, x) => AccountIn(e, x) = AccountIn(d, x)
           /\ \A s : InstanceRows(e, s) = InstanceRows(d, s)
                     => InstanceIn(e, s) = InstanceIn(d, s)
           /\ \A s : AppRows(e, s) = AppRows(d, s) => AppIn(e, s) = AppIn(d, s)
           /\ \A x : KeyRows(e, x) = KeyRows(d, x) => KeyIn(e, x) = KeyIn(d, x)
           /\ \A x, n : NamedRows(e, "containers", x, n) = NamedRows(d, "containers", x, n)
                        => ContainerIn(e, x, n) = ContainerIn(d, x, n)
           /\ \A x, n : NamedRows(e, "functions", x, n) = NamedRows(d, "functions", x, n)
                        => FunctionIn(e, x, n) = FunctionIn(d, x, n)
  <1>1. \A t \in OwnedTables : \A r \in d[t] \cap e[t] : EmailOf(e, t, r) = EmailOf(d, t, r)
    BY OwnersStay
  <1>2. \A x : AccountRows(e, x) = AccountRows(d, x) => AccountIn(e, x) = AccountIn(d, x)
    BY AccountOfRow
  <1>3. ASSUME NEW s, InstanceRows(e, s) = InstanceRows(d, s)
        PROVE  InstanceIn(e, s) = InstanceIn(d, s)
    <2>1. CASE InstanceRows(d, s) = {}
      BY <1>3, <2>1, InstanceOfRow
    <2>2. ASSUME NEW r \in InstanceRows(d, s)
          PROVE  InstanceIn(e, s) = InstanceIn(d, s)
      <3>1. EmailOf(e, "instances", r) = EmailOf(d, "instances", r)
        BY <1>1, <1>3 DEF InstanceRows, OwnedTables
      <3>2. InstanceIn(e, s) = InstanceRecord(e, r) /\ InstanceIn(d, s) = InstanceRecord(d, r)
        BY <1>3, InstanceOfRow
      <3>3. QED
        BY <3>1, <3>2 DEF InstanceRecord
    <2>3. QED
      BY <2>1, <2>2
  <1>4. \A s : AppRows(e, s) = AppRows(d, s) => AppIn(e, s) = AppIn(d, s)
    BY AppOfRow
  <1>5. ASSUME NEW x, KeyRows(e, x) = KeyRows(d, x)
        PROVE  KeyIn(e, x) = KeyIn(d, x)
    <2>1. CASE KeyRows(d, x) = {}
      BY <1>5, <2>1, KeyOfRow
    <2>2. ASSUME NEW r \in KeyRows(d, x)
          PROVE  KeyIn(e, x) = KeyIn(d, x)
      <3>1. EmailOf(e, "key_pairs", r) = EmailOf(d, "key_pairs", r)
        BY <1>1, <1>5 DEF KeyRows, OwnedTables
      <3>2. KeyIn(e, x) = KeyRecord(e, r) /\ KeyIn(d, x) = KeyRecord(d, r)
        BY <1>5, KeyOfRow
      <3>3. QED
        BY <3>1, <3>2 DEF KeyRecord
    <2>3. QED
      BY <2>1, <2>2
  <1>6. \A x, n : NamedRows(e, "containers", x, n) = NamedRows(d, "containers", x, n)
                  => ContainerIn(e, x, n) = ContainerIn(d, x, n)
    BY ContainerOfRow
  <1>7. \A x, n : NamedRows(e, "functions", x, n) = NamedRows(d, "functions", x, n)
                  => FunctionIn(e, x, n) = FunctionIn(d, x, n)
    BY FunctionOfRow
  <1>8. QED
    BY <1>2, <1>3, <1>4, <1>5, <1>6, <1>7

\* A table that does not change has the same rows for each record.
LEMMA RowsStay ==
    ASSUME NEW d, NEW m, Intact(d, m), NEW e, NEW k, Intact(e, k), KeepsRows(d, m, e)
    PROVE  /\ e["users"] = d["users"] => \A x : AccountRows(e, x) = AccountRows(d, x)
           /\ e["instances"] = d["instances"] => \A s : InstanceRows(e, s) = InstanceRows(d, s)
           /\ e["apps"] = d["apps"] => \A s : AppRows(e, s) = AppRows(d, s)
           /\ e["key_pairs"] = d["key_pairs"] => \A x : KeyRows(e, x) = KeyRows(d, x)
           /\ \A t \in {"containers", "functions"} :
                 e[t] = d[t] => \A x, n : NamedRows(e, t, x, n) = NamedRows(d, t, x, n)
  <1>1. /\ e["users"] = d["users"] => \A x : AccountRows(e, x) = AccountRows(d, x)
        /\ e["instances"] = d["instances"] => \A s : InstanceRows(e, s) = InstanceRows(d, s)
        /\ e["key_pairs"] = d["key_pairs"] => \A x : KeyRows(e, x) = KeyRows(d, x)
    BY DEF AccountRows, InstanceRows, KeyRows
  <1>2. ASSUME NEW t \in {"containers", "functions"}, e[t] = d[t], NEW x, NEW n
        PROVE  NamedRows(e, t, x, n) = NamedRows(d, t, x, n)
    <2>1. \A r \in d[t] : EmailOf(e, t, r) = EmailOf(d, t, r)
      BY <1>2, OwnersStay DEF KeepsRows, OwnedTables
    <2>2. QED
      BY <1>2, <2>1 DEF NamedRows
  <1>3. ASSUME e["apps"] = d["apps"], NEW s
        PROVE  AppRows(e, s) = AppRows(d, s)
    <2>1. ASSUME NEW a \in d["apps"], NEW r \in d["instances"], NEW n \in e["instances"],
                 r["id"] = a["instance_app"], n["id"] = a["instance_app"]
          PROVE  n["openstack_id"] = r["openstack_id"]
      <3>1. "instances" \in Tables /\ {"id", "openstack_id"} \subseteq FixedColumns("instances")
        BY DEF Tables, FixedColumns, KeyOf
      <3>2. r["id"] \in 1 .. m["instances"] /\ m["instances"] \in Nat
        BY <3>1 DEF Intact, RowOf
      <3>3. ~(n["id"] > m["instances"])
        BY <2>1, <3>2
      <3>4. PICK o \in d["instances"] : SameRow("instances", n, o)
        BY <3>1, <3>3 DEF KeepsRows
      <3>5. o["id"] = n["id"] /\ o["openstack_id"] = n["openstack_id"]
        BY <3>1, <3>4 DEF SameRow
      <3>6. o = r
        BY <2>1, <3>1, <3>5, IdsDiffer
      <3>7. QED
        BY <3>5, <3>6
    <2>2. ASSUME NEW a \in d["apps"]
          PROVE  /\ \E r \in d["instances"] : r["id"] = a["instance_app"]
                 /\ \E n \in e["instances"] : n["id"] = a["instance_app"]
      <3>1. /\ "apps" \in Tables /\ "instance_app" \in DOMAIN ForeignKeys["apps"]
            /\ ForeignKeys["apps"]["instance_app"] = "instances"
            /\ "instance_app" \notin Nullable
        BY DEF Tables, ForeignKeys, AppForeignKeys, Nullable
      <3>2. QED
        BY <1>3, <3>1, RefersTo
    <2>3. QED
      BY <1>3, <2>1, <2>2 DEF AppRows, InstanceRows
  <1>4. QED
    BY <1>1, <1>2, <1>3

\* A step that changes one table leaves the records of the others.
LEMMA OthersStay ==
    ASSUME Intact(db, made), StoreStep, NEW t \in Tables,
           \A u \in Tables \ {t} : db'[u] = db[u]
    PROVE  /\ t # "users" => account' = account
           /\ t # "instances" => instance' = instance
           /\ t # "apps" => app' = app
           /\ t # "key_pairs" => keypair' = keypair
           /\ t # "containers" => container' = container
           /\ t # "functions" => function' = function
  <1>1. Intact(db', made') /\ KeepsRows(db, made, db') /\ Lasts(db, "users", db')
    BY DEF StoreStep, KeepsRows
  <1>2. ASSUME t # "users" PROVE account' = account
    <2>1. \A x : AccountIn(db', x) = AccountIn(db, x)
      BY <1>1, <1>2, RowsStay, SameRows DEF Tables
    <2>2. QED
      BY <2>1 DEF account
  <1>3. ASSUME t # "instances" PROVE instance' = instance
    <2>1. \A x : InstanceIn(db', x) = InstanceIn(db, x)
      BY <1>1, <1>3, RowsStay, SameRows DEF Tables
    <2>2. QED
      BY <2>1 DEF instance
  <1>4. ASSUME t # "apps" PROVE app' = app
    <2>1. \A x : AppIn(db', x) = AppIn(db, x)
      BY <1>1, <1>4, RowsStay, SameRows DEF Tables
    <2>2. QED
      BY <2>1 DEF app
  <1>5. ASSUME t # "key_pairs" PROVE keypair' = keypair
    <2>1. \A x : KeyIn(db', x) = KeyIn(db, x)
      BY <1>1, <1>5, RowsStay, SameRows DEF Tables
    <2>2. QED
      BY <2>1 DEF keypair
  <1>6. ASSUME t # "containers" PROVE container' = container
    <2>1. \A x, n : ContainerIn(db', x, n) = ContainerIn(db, x, n)
      BY <1>1, <1>6, RowsStay, SameRows DEF Tables
    <2>2. QED
      BY <2>1 DEF container
  <1>7. ASSUME t # "functions" PROVE function' = function
    <2>1. \A x, n : FunctionIn(db', x, n) = FunctionIn(db, x, n)
      BY <1>1, <1>7, RowsStay, SameRows DEF Tables
    <2>2. QED
      BY <2>1 DEF function
  <1>8. QED
    BY <1>2, <1>3, <1>4, <1>5, <1>6, <1>7

\* A database that does not change has the same records.
LEMMA RecordsStay ==
    ASSUME db' = db
    PROVE  Abstract!Step
  <1>1. account' = account
    BY DEF account
  <1>2. instance' = instance
    BY DEF instance
  <1>3. app' = app
    BY DEF app
  <1>4. keypair' = keypair
    BY DEF keypair
  <1>5. container' = container
    BY DEF container
  <1>6. function' = function
    BY DEF function
  <1>7. QED
    BY <1>1, <1>2, <1>3, <1>4, <1>5, <1>6 DEF Abstract!Step, Abstract!records

\* A step changes the records of one kind.
LEMMA OneKind ==
    ASSUME \/ Abstract!Accounts /\ UNCHANGED <<instance, app, keypair, container, function>>
           \/ Abstract!Instances /\ UNCHANGED <<account, app, keypair, container, function>>
           \/ Abstract!Apps /\ UNCHANGED <<account, instance, keypair, container, function>>
           \/ Abstract!KeyPairs /\ UNCHANGED <<account, instance, app, container, function>>
           \/ Abstract!Containers /\ UNCHANGED <<account, instance, app, keypair, function>>
           \/ Abstract!Functions /\ UNCHANGED <<account, instance, app, keypair, container>>
    PROVE  Abstract!Step
  BY DEF Abstract!Step, Abstract!Next, Abstract!records

-----------------------------------------------------------------------------
(* Records: values and the versions they come from.                        *)

\* A value of a request comes from that request.
LEMMA VersionOfValue ==
    ASSUME NEW t \in Tables, NEW f \in Columns[t], NEW v \in Versions
    PROVE  Version(Value(f, v)) = v
  BY RepositoriesAssumption DEF Version, Value

\* Columns whose values come from one request, and columns with the same values.
LEMMA TogetherFacts ==
    ASSUME NEW r, NEW S
    PROVE  /\ \A v : S # {} /\ (\A c \in S : Version(r[c]) = v) => Together(r, S) = v
           /\ \A o : (\A c \in S : r[c] = o[c]) => Together(r, S) = Together(o, S)
  <1>1. ASSUME NEW v, S # {}, \A c \in S : Version(r[c]) = v
        PROVE  Together(r, S) = v
    <2> DEFINE versions == {Version(r[f]) : f \in S}
    <2>1. versions = {v}
      BY <1>1
    <2>2. Cardinality({v}) = 1
      BY FS_Singleton
    <2>3. Together(r, S) =
              IF Cardinality(versions) = 1 THEN CHOOSE x \in versions : TRUE ELSE Empty
      BY DEF Together
    <2> HIDE DEF versions
    <2>4. (CHOOSE x \in versions : TRUE) = v
      BY <2>1
    <2>5. QED
      BY <2>1, <2>2, <2>3, <2>4
  <1>2. ASSUME NEW o, \A c \in S : r[c] = o[c]
        PROVE  Together(r, S) = Together(o, S)
    <2> DEFINE A == {Version(r[f]) : f \in S}
               B == {Version(o[f]) : f \in S}
    <2>1. A = B
      BY <1>2
    <2>2. /\ Together(r, S) = IF Cardinality(A) = 1 THEN CHOOSE v \in A : TRUE ELSE Empty
          /\ Together(o, S) = IF Cardinality(B) = 1 THEN CHOOSE v \in B : TRUE ELSE Empty
      BY DEF Together
    <2> HIDE DEF A, B
    <2>3. QED
      BY <2>1, <2>2
  <1>3. QED
    BY <1>1, <1>2

\* The columns of the row that a create makes: what is set, the owner or instance, and NULL.
LEMMA NewRowColumns ==
    ASSUME NEW t \in Tables, NEW set, NEW edge, NEW n, NEW r,
           r = NewRow(t, CreateBuilder(t, set, edge), n)
    PROVE  /\ \A c \in DOMAIN set : c \in CreateSetters[t] \cap Mutable[t] \cap Inserted[t]
                                     /\ c \in RowColumns(t)
                                     => r[c] = set[c]
           /\ \A k : /\ DOMAIN edge = {k} /\ k \in CreateSetters[t] \cap DOMAIN Edges[t]
                     /\ Edges[t][k] \in Inserted[t] \cap RowColumns(t)
                     /\ Edges[t][k] \notin Mutable[t] \cup DOMAIN CreateDefaults(n)[t]
                     => r[Edges[t][k]] = edge[k]
           /\ \A c \in RowColumns(t) :
                 c \notin DOMAIN set \cup DOMAIN CreateDefaults(n)[t] /\ c \in Mutable[t]
                 /\ (\A k \in DOMAIN edge : k \in DOMAIN Edges[t] => c # Edges[t][k])
                 => r[c] = Null
  <1> DEFINE mu == CreateBuilder(t, set, edge)
             defaults == CreateDefaults(n)[t]
             filled == Filled(t, mu, n)
  <1>1. mu.set = OnlyIn(set, CreateSetters[t] \cap Mutable[t])
        /\ mu.edge = OnlyIn(edge, CreateSetters[t] \cap DOMAIN Edges[t])
    BY DEF CreateBuilder, Mutation
  <1>2. /\ DOMAIN mu.set = DOMAIN set \cap (CreateSetters[t] \cap Mutable[t])
        /\ \A c \in DOMAIN mu.set : mu.set[c] = set[c]
    BY <1>1 DEF OnlyIn
  <1>3. /\ DOMAIN mu.edge = DOMAIN edge \cap (CreateSetters[t] \cap DOMAIN Edges[t])
        /\ \A f \in DOMAIN mu.edge : mu.edge[f] = edge[f]
    BY <1>1 DEF OnlyIn
  <1>4. r = [c \in RowColumns(t) |->
              IF c \in Inserted[t] \cap DOMAIN filled THEN filled[c]
              ELSE IF c \in Inserted[t] \cap EdgeColumns(t, mu)
                   THEN mu.edge[CHOOSE e \in DOMAIN mu.edge : Edges[t][e] = c]
              ELSE Null]
    BY DEF NewRow
  <1>5. filled = Override(defaults, mu.set)
    BY DEF Filled
  <1>6. EdgeColumns(t, mu) = {Edges[t][f] : f \in DOMAIN mu.edge}
    BY DEF EdgeColumns
  <1> HIDE DEF mu, defaults, filled
  <1>7. /\ DOMAIN filled = DOMAIN defaults \cup DOMAIN mu.set
        /\ \A c \in DOMAIN mu.set : filled[c] = mu.set[c]
    BY <1>5 DEF Override
  <1>8. ASSUME NEW c \in DOMAIN set, c \in CreateSetters[t] \cap Mutable[t] \cap Inserted[t],
               c \in RowColumns(t)
        PROVE  r[c] = set[c]
    <2>1. c \in DOMAIN mu.set
      BY <1>2, <1>8
    <2>2. c \in Inserted[t] \cap DOMAIN filled /\ filled[c] = set[c]
      BY <1>2, <1>7, <1>8, <2>1
    <2>3. QED
      BY <1>4, <1>8, <2>2
  <1>9. ASSUME NEW k, DOMAIN edge = {k}, k \in CreateSetters[t] \cap DOMAIN Edges[t],
               Edges[t][k] \in Inserted[t] \cap RowColumns(t),
               Edges[t][k] \notin Mutable[t] \cup DOMAIN defaults
        PROVE  r[Edges[t][k]] = edge[k]
    <2>1. DOMAIN mu.edge = {k} /\ mu.edge[k] = edge[k]
      BY <1>3, <1>9
    <2>2. Edges[t][k] \notin DOMAIN filled
      BY <1>2, <1>7, <1>9
    <2>3. Edges[t][k] \in EdgeColumns(t, mu)
      BY <1>6, <2>1
    <2>4. (CHOOSE e \in DOMAIN mu.edge : Edges[t][e] = Edges[t][k]) = k
      BY <2>1
    <2>5. QED
      BY <1>4, <1>9, <2>1, <2>2, <2>3, <2>4
  <1>10. ASSUME NEW c \in RowColumns(t), c \notin DOMAIN set \cup DOMAIN defaults, c \in Mutable[t],
                \A k \in DOMAIN edge : k \in DOMAIN Edges[t] => c # Edges[t][k]
         PROVE  r[c] = Null
    <2>1. c \notin DOMAIN filled
      BY <1>2, <1>7, <1>10
    <2>2. c \notin EdgeColumns(t, mu)
      BY <1>3, <1>6, <1>10
    <2>3. QED
      BY <1>4, <2>1, <2>2
  <1>11. QED
    BY <1>8, <1>9, <1>10 DEF defaults

\* A create does nothing, or makes one more row that breaks nothing.
LEMMA InsertOutcome ==
    ASSUME NEW d, NEW t, NEW mu, NEW n, NEW e, e = Insert(d, t, mu, n).db,
           NEW r, r = NewRow(t, mu, n)
    PROVE  e = d \/ (e = [d EXCEPT ![t] = @ \cup {r}] /\ ~Breaks(d, t, r, d[t]))
  BY DEF Insert, Failed, Done

-----------------------------------------------------------------------------
(* Records: creates.                                                       *)

\* What identifies accounts, instances and functions is something requests bring along.
Within(d) ==
    /\ \A r \in d["users"] : r["email"] \in Emails /\ r["google_id"] \in GoogleIds
    /\ \A r \in d["instances"] : r["openstack_id"] \in Servers
    /\ \A r \in d["functions"] : r["name"] \in Names

\* A registered app is one of a host that somebody asked for.
HostsAsked(sv) ==
    /\ sv = [c \in Callers |-> sv[c]]
    /\ \A c \in Callers : sv[c].at = "insert" => sv[c].host \in Hosts

\* The account that a request is made for.
LEMMA RequestOwner ==
    ASSUME Intact(db, made), NEW e \in Emails, UserRow(db, e) # {}
    PROVE  /\ \E u \in db["users"] : u["email"] = e /\ OwnerId(e) = u["id"]
           /\ account[e] # None
  <1> DEFINE u == CHOOSE u \in UserRow(db, e) : TRUE
  <1>1. u \in UserRow(db, e) /\ OwnerId(e) = u["id"]
    BY DEF OwnerId
  <1>2. u \in db["users"] /\ u["email"] = e
    BY <1>1 DEF UserRow
  <1> HIDE DEF u
  <1>3. account[e] = AccountOf(u)
    BY <1>2, AccountOfRow DEF account, AccountRows
  <1>4. DOMAIN AccountOf(u) # {} /\ DOMAIN None = {}
    BY DEF AccountOf, None
  <1>5. QED
    BY <1>1, <1>2, <1>3, <1>4

\* A create that changes anything makes one row, which breaks nothing.
LEMMA CreatedRow ==
    ASSUME Intact(db, made), NEW t \in Tables, NEW mu, NEW r, r = NewRow(t, mu, made[t] + 1),
           Create(t, Insert(db, t, mu, made[t] + 1)), db' # db
    PROVE  /\ db'[t] = db[t] \cup {r}
           /\ \A u \in Tables \ {t} : db'[u] = db[u]
           /\ ~Breaks(db, t, r, db[t])
  <1>1. db' = Insert(db, t, mu, made[t] + 1).db
    BY DEF Create, Commit
  <1>2. db' = [db EXCEPT ![t] = @ \cup {r}] /\ ~Breaks(db, t, r, db[t])
    BY <1>1, InsertOutcome
  <1>3. DOMAIN db = Tables
    BY DEF Intact
  <1>4. QED
    BY <1>2, <1>3

\* The row breaks no unique index and no NOT NULL.
LEMMA BreaksNothing ==
    ASSUME NEW d, NEW t, NEW r, ~Breaks(d, t, r, d[t])
    PROVE  /\ \A c \in RowColumns(t) \ Nullable : r[c] # Null
           /\ \A c \in RowColumns(t) \ Nullable :
                 {c} \in Unique[t] => \A o \in d[t] : o[c] # r[c]
           /\ \A c, x \in RowColumns(t) \ Nullable :
                 {c, x} \in Unique[t] => \A o \in d[t] : o[c] # r[c] \/ o[x] # r[x]
  <1>1. \A c \in RowColumns(t) \ Nullable : r[c] # Null
    BY DEF Breaks
  <1>2. \A u \in Unique[t] : \A o \in d[t] : ~(\A c \in u : o[c] = r[c] /\ r[c] # Null)
    BY DEF Breaks
  <1>3. ASSUME NEW c \in RowColumns(t) \ Nullable, {c} \in Unique[t], NEW o \in d[t]
        PROVE  o[c] # r[c]
    BY <1>1, <1>2, <1>3
  <1>4. ASSUME NEW c \in RowColumns(t) \ Nullable, NEW x \in RowColumns(t) \ Nullable,
               {c, x} \in Unique[t], NEW o \in d[t]
        PROVE  o[c] # r[c] \/ o[x] # r[x]
    BY <1>1, <1>2, <1>4
  <1>5. QED
    BY <1>1, <1>3, <1>4

\* A new row belongs to the account it is made for, the others to theirs.
LEMMA NewOwned ==
    ASSUME Intact(db, made), StoreStep, NEW t \in OwnedTables, NEW r,
           db'[t] = db[t] \cup {r}, \A o \in Tables \ {t} : db'[o] = db[o],
           NEW u \in db["users"], r[OwnerColumn(t)] = u["id"]
    PROVE  /\ EmailOf(db', t, r) = u["email"]
           /\ \A o \in db[t] : EmailOf(db', t, o) = EmailOf(db, t, o)
  <1>1. Intact(db', made') /\ Lasts(db, "users", db')
    BY DEF StoreStep, KeepsRows
  <1>2. db'["users"] = db["users"]
    BY OwnerColumns DEF Tables
  <1>3. EmailOf(db', t, r) = u["email"]
    BY <1>1, <1>2, OwnerFacts
  <1>4. \A o \in db[t] : EmailOf(db', t, o) = EmailOf(db, t, o)
    BY <1>1, OwnersStay
  <1>5. QED
    BY <1>3, <1>4

\* The edge to the owner is stored in a column that nothing else sets.
LEMMA OwnerEdge ==
    ASSUME NEW t \in OwnedTables, NEW n
    PROVE  /\ t \in Tables
           /\ "owner" \in CreateSetters[t] \cap DOMAIN Edges[t]
           /\ Edges[t]["owner"] = OwnerColumn(t)
           /\ OwnerColumn(t) \in Inserted[t] \cap RowColumns(t)
           /\ OwnerColumn(t) \notin Mutable[t] \cup DOMAIN CreateDefaults(n)[t]
  <1>1. CASE t = "instances"
    BY <1>1 DEF Tables, CreateSetters, InstanceSetters, Edges, InstanceEdges, Inserted,
           InstanceInsert, RowColumns, ForeignKeys, InstanceForeignKeys, Mutable,
           InstanceServer, InstanceChoices, InstanceTimes, CreateDefaults, InstanceDefaults,
           OwnerColumn, Loads, InstanceLoads
  <1>2. CASE t = "key_pairs"
    BY <1>2 DEF Tables, CreateSetters, KeyPairSetters, Edges, KeyPairEdges, Inserted,
           KeyPairInsert, RowColumns, ForeignKeys, KeyPairForeignKeys, Mutable, KeyPairFields,
           KeyPairTimes, CreateDefaults, KeyPairDefaults, OwnerColumn, Loads, KeyPairLoads
  <1>3. CASE t = "containers"
    BY <1>3 DEF Tables, CreateSetters, ContainerSetters, Edges, ContainerEdges, Inserted,
           ContainerInsert, RowColumns, ForeignKeys, ContainerForeignKeys, Mutable,
           ContainerFields, CreateDefaults, ContainerDefaults, OwnerColumn, Loads,
           ContainerLoads
  <1>4. CASE t = "functions"
    BY <1>4 DEF Tables, CreateSetters, FunctionSetters, Edges, FunctionEdges, Inserted,
           FunctionInsert, RowColumns, ForeignKeys, FunctionForeignKeys, Mutable,
           FunctionFields, FunctionNillable, FunctionTimes, CreateDefaults, FunctionDefaults,
           OwnerColumn, Loads, FunctionLoads
  <1>5. QED
    BY <1>1, <1>2, <1>3, <1>4 DEF OwnedTables

\* The columns that a request can set when it creates a row of table t.
Brought(t) == CreateSetters[t] \cap Mutable[t] \cap Inserted[t] \cap RowColumns(t)

\* Row n is what a request for account e created in table t, of what it set and nothing else.
CreatedFor(e, t, set, n) ==
    /\ db'[t] = db[t] \cup {n}
    /\ ~Breaks(db, t, n, db[t])
    /\ EmailOf(db', t, n) = e
    /\ \E u \in db["users"] : u["email"] = e /\ n[OwnerColumn(t)] = u["id"]
    /\ \A c \in DOMAIN set : n[c] = set[c]
    /\ \A c \in Brought(t) :
          c \notin DOMAIN set \cup DOMAIN CreateDefaults(made[t] + 1)[t] => n[c] = Null

\* A create for an account.
LEMMA CreatesFor ==
    ASSUME Intact(db, made), StoreStep, db' # db, NEW e \in Emails, UserRow(db, e) # {},
           NEW t \in OwnedTables, NEW set, DOMAIN set \subseteq Brought(t),
           NEW edge, edge = [owner |-> OwnerId(e)],
           Create(t, Insert(db, t, CreateBuilder(t, set, edge), made[t] + 1))
    PROVE  /\ \E n : CreatedFor(e, t, set, n)
           /\ \A u \in Tables \ {t} : db'[u] = db[u]
           /\ Intact(db', made') /\ Lasts(db, "users", db')
           /\ account[e] # None
  <1>1. PICK n : n = NewRow(t, CreateBuilder(t, set, edge), made[t] + 1)
    OBVIOUS
  <1>2. /\ t \in Tables
        /\ "owner" \in CreateSetters[t] \cap DOMAIN Edges[t]
        /\ Edges[t]["owner"] = OwnerColumn(t)
        /\ OwnerColumn(t) \in Inserted[t] \cap RowColumns(t)
        /\ OwnerColumn(t) \notin Mutable[t] \cup DOMAIN CreateDefaults(made[t] + 1)[t]
    BY OwnerEdge
  <1>3. /\ db'[t] = db[t] \cup {n} /\ \A u \in Tables \ {t} : db'[u] = db[u]
        /\ ~Breaks(db, t, n, db[t])
    BY <1>1, <1>2, CreatedRow
  <1>4. DOMAIN edge = {"owner"} /\ edge["owner"] = OwnerId(e)
    OBVIOUS
  <1>5. \A c \in DOMAIN set : n[c] = set[c]
    BY <1>1, <1>2, <1>4, NewRowColumns DEF Brought
  <1>6. n[OwnerColumn(t)] = OwnerId(e)
    BY <1>1, <1>2, <1>4, NewRowColumns
  <1>7. \A c \in Brought(t) :
            c \notin DOMAIN set \cup DOMAIN CreateDefaults(made[t] + 1)[t] => n[c] = Null
    BY <1>1, <1>2, <1>4, NewRowColumns DEF Brought
  <1>8. /\ \E u \in db["users"] : u["email"] = e /\ OwnerId(e) = u["id"]
        /\ account[e] # None
    BY RequestOwner
  <1>9. PICK u \in db["users"] : u["email"] = e /\ n[OwnerColumn(t)] = u["id"]
    BY <1>6, <1>8
  <1>10. EmailOf(db', t, n) = e
    BY <1>3, <1>9, NewOwned
  <1>11. Intact(db', made') /\ Lasts(db, "users", db')
    BY DEF StoreStep, KeepsRows
  <1>12. CreatedFor(e, t, set, n)
    BY <1>3, <1>5, <1>7, <1>9, <1>10 DEF CreatedFor
  <1>13. QED
    BY <1>3, <1>8, <1>11, <1>12

\* The columns that the requests bring along can be set.
LEMMA BroughtAlong ==
    /\ {"openstack_id", "name", "status", "image_id", "flavor_id", "key_name", "note",
        "provider_created_at"} \subseteq Brought("instances")
    /\ {"openstack_name", "source_type", "fingerprint", "public_key"}
          \subseteq Brought("key_pairs")
    /\ {"openstack_name", "name"} \subseteq Brought("containers")
    /\ {"name", "wasm", "language", "data_mode", "source", "key_hash", "key_created_at",
        "key_expires_at"} \subseteq Brought("functions")
  <1>1. {"openstack_id", "name", "status", "image_id", "flavor_id", "key_name", "note",
         "provider_created_at"} \subseteq Brought("instances")
    BY DEF Brought, CreateSetters, InstanceSetters, Mutable, InstanceServer, InstanceChoices,
           InstanceTimes, Inserted, InstanceInsert, RowColumns, Columns, InstanceColumns
  <1>2. {"openstack_name", "source_type", "fingerprint", "public_key"}
            \subseteq Brought("key_pairs")
    BY DEF Brought, CreateSetters, KeyPairSetters, Mutable, KeyPairFields, KeyPairTimes,
           Inserted, KeyPairInsert, RowColumns, Columns, KeyPairColumns
  <1>3. {"openstack_name", "name"} \subseteq Brought("containers")
    BY DEF Brought, CreateSetters, ContainerSetters, Mutable, ContainerFields, Inserted,
           ContainerInsert, RowColumns, Columns, ContainerColumns
  <1>4. {"name", "wasm", "language", "data_mode", "source", "key_hash", "key_created_at",
         "key_expires_at"} \subseteq Brought("functions")
    BY DEF Brought, CreateSetters, FunctionSetters, Mutable, FunctionFields, FunctionNillable,
           FunctionTimes, Inserted, FunctionInsert, RowColumns, Columns, FunctionColumns
  <1>5. QED
    BY <1>1, <1>2, <1>3, <1>4

\* An instance that is saved is launched.
LEMMA SaveInstanceRecords ==
    ASSUME Intact(db, made), StoreStep, Within(db), db' # db, NEW e \in Emails,
           NEW s \in Servers, NEW v \in Versions, SaveInstance(e, s, v)
    PROVE  Abstract!Step /\ Within(db')
  <1> DEFINE told == {"name", "status", "image_id", "flavor_id", "key_name", "note",
                      "provider_created_at"}
             f == Versioned(told, v)
             g == Pick("openstack_id", s)
             set == Override(f, g)
             edge == [owner |-> OwnerId(e)]
  <1>1. Create("instances", Insert(db, "instances", CreateBuilder("instances", set, edge),
                                   made["instances"] + 1)) /\ UserRow(db, e) # {}
    BY DEF SaveInstance
  <1>2. /\ DOMAIN f = told /\ \A c \in told : f[c] = Value(c, v)
        /\ DOMAIN g = {"openstack_id"} /\ g["openstack_id"] = s
    BY DEF Versioned, Pick
  <1> HIDE DEF f, g
  <1>3. /\ DOMAIN set = told \cup {"openstack_id"} /\ set["openstack_id"] = s
        /\ \A c \in told : set[c] = Value(c, v)
    BY <1>2 DEF Override
  <1>4. "instances" \in OwnedTables /\ OwnerColumn("instances") = "user_instances"
    BY DEF OwnedTables, OwnerColumn, Loads, InstanceLoads
  <1>5. DOMAIN set \subseteq Brought("instances")
    BY <1>3, BroughtAlong
  <1>6. edge = [owner |-> OwnerId(e)]
    OBVIOUS
  <1> HIDE DEF set, edge
  <1>7. /\ \E n : CreatedFor(e, "instances", set, n)
        /\ \A t \in Tables \ {"instances"} : db'[t] = db[t]
        /\ Intact(db', made') /\ Lasts(db, "users", db')
        /\ account[e] # None
    BY <1>1, <1>4, <1>5, <1>6, CreatesFor
  <1>8. PICK n : CreatedFor(e, "instances", set, n)
    BY <1>7
  <1>9. /\ n["openstack_id"] = s /\ \A c \in told : n[c] = Value(c, v)
        /\ db'["instances"] = db["instances"] \cup {n}
        /\ EmailOf(db', "instances", n) = e
    BY <1>3, <1>8 DEF CreatedFor
  <1>10. \A o \in db["instances"] : o["openstack_id"] # s
    <2>1. {"openstack_id"} \in Unique["instances"]
          /\ "openstack_id" \in RowColumns("instances") \ Nullable
      BY DEF Unique, InstanceUnique, RowColumns, Columns, InstanceColumns, Nullable
    <2>2. \A o \in db["instances"] : o["openstack_id"] # n["openstack_id"]
      BY <1>8, <2>1, BreaksNothing DEF CreatedFor
    <2>3. QED
      BY <1>9, <2>2
  <1>11. /\ InstanceRows(db, s) = {} /\ InstanceRows(db', s) = {n}
         /\ \A x : x # s => InstanceRows(db', x) = InstanceRows(db, x)
    BY <1>9, <1>10 DEF InstanceRows
  <1>12. InstanceRecord(db', n) = [owner |-> e, name |-> v, note |-> v, rest |-> v]
    <2>1. \A c \in told : Version(n[c]) = v
      BY <1>9, VersionOfValue DEF Tables, Columns, InstanceColumns
    <2>2. Together(n, {"key_name", "note"}) = v
      BY <2>1, TogetherFacts
    <2>3. Together(n, {"status", "image_id", "flavor_id", "provider_created_at"}) = v
      BY <2>1, TogetherFacts
    <2>4. QED
      BY <1>9, <2>1, <2>2, <2>3 DEF InstanceRecord
  <1>13. /\ InstanceIn(db, s) = None
         /\ InstanceIn(db', s) = [owner |-> e, name |-> v, note |-> v, rest |-> v]
         /\ \A x : x # s => InstanceIn(db', x) = InstanceIn(db, x)
    BY <1>7, <1>11, <1>12, InstanceOfRow, SameRows
  <1>14. Abstract!Launch(e, s, v)
    <2>1. None = Abstract!NoRecord
      BY DEF None, Abstract!NoRecord
    <2>2. instance' = [instance EXCEPT ![s] = [owner |-> e, name |-> v, note |-> v, rest |-> v]]
      BY <1>13 DEF instance
    <2>3. instance[s] = None
      BY <1>13 DEF instance
    <2>4. QED
      BY <1>7, <2>1, <2>2, <2>3 DEF Abstract!Launch
  <1>15. UNCHANGED <<account, app, keypair, container, function>>
    BY <1>7, OthersStay DEF Tables
  <1>16. Abstract!Step
    BY <1>14, <1>15, OneKind DEF Abstract!Instances
  <1>17. Within(db')
    BY <1>7, <1>9 DEF Within, Tables
  <1>18. QED
    BY <1>16, <1>17

\* A key that is saved is added.
LEMMA SaveKeyPairRecords ==
    ASSUME Intact(db, made), StoreStep, Within(db), db' # db, NEW e \in Emails,
           NEW k \in KeyNames, NEW v \in Versions, SaveKeyPair(e, k, v)
    PROVE  Abstract!Step /\ Within(db')
  <1> DEFINE f == Versioned({"fingerprint", "public_key"}, v)
             g == [openstack_name |-> k, source_type |-> "user_uploaded"]
             set == Override(f, g)
             edge == [owner |-> OwnerId(e)]
  <1>1. Create("key_pairs", Insert(db, "key_pairs", CreateBuilder("key_pairs", set, edge),
                                   made["key_pairs"] + 1)) /\ UserRow(db, e) # {}
    BY DEF SaveKeyPair
  <1>2. /\ DOMAIN f = {"fingerprint", "public_key"}
        /\ \A c \in {"fingerprint", "public_key"} : f[c] = Value(c, v)
        /\ DOMAIN g = {"openstack_name", "source_type"} /\ g["openstack_name"] = k
    BY DEF Versioned
  <1> HIDE DEF f, g
  <1>3. /\ DOMAIN set = {"fingerprint", "public_key", "openstack_name", "source_type"}
        /\ set["openstack_name"] = k
        /\ \A c \in {"fingerprint", "public_key"} : set[c] = Value(c, v)
    BY <1>2 DEF Override
  <1>4. "key_pairs" \in OwnedTables
    BY DEF OwnedTables
  <1>5. DOMAIN set \subseteq Brought("key_pairs")
    BY <1>3, BroughtAlong
  <1>6. edge = [owner |-> OwnerId(e)]
    OBVIOUS
  <1> HIDE DEF set, edge
  <1>7. /\ \E n : CreatedFor(e, "key_pairs", set, n)
        /\ \A t \in Tables \ {"key_pairs"} : db'[t] = db[t]
        /\ Intact(db', made') /\ Lasts(db, "users", db')
        /\ account[e] # None
    BY <1>1, <1>4, <1>5, <1>6, CreatesFor
  <1>8. PICK n : CreatedFor(e, "key_pairs", set, n)
    BY <1>7
  <1>9. /\ n["openstack_name"] = k
        /\ \A c \in {"fingerprint", "public_key"} : n[c] = Value(c, v)
        /\ db'["key_pairs"] = db["key_pairs"] \cup {n}
        /\ EmailOf(db', "key_pairs", n) = e
    BY <1>3, <1>8 DEF CreatedFor
  <1>10. \A o \in db["key_pairs"] : o["openstack_name"] # k
    <2>1. {"openstack_name"} \in Unique["key_pairs"]
          /\ "openstack_name" \in RowColumns("key_pairs") \ Nullable
      BY DEF Unique, KeyPairUnique, RowColumns, Columns, KeyPairColumns, Nullable
    <2>2. \A o \in db["key_pairs"] : o["openstack_name"] # n["openstack_name"]
      BY <1>8, <2>1, BreaksNothing DEF CreatedFor
    <2>3. QED
      BY <1>9, <2>2
  <1>11. /\ KeyRows(db, k) = {} /\ KeyRows(db', k) = {n}
         /\ \A x : x # k => KeyRows(db', x) = KeyRows(db, x)
    BY <1>9, <1>10 DEF KeyRows
  <1>12. KeyRecord(db', n) = [owner |-> e, key |-> v]
    <2>1. \A c \in {"fingerprint", "public_key"} : Version(n[c]) = v
      BY <1>9, VersionOfValue DEF Tables, Columns, KeyPairColumns
    <2>2. Together(n, {"fingerprint", "public_key"}) = v
      BY <2>1, TogetherFacts
    <2>3. QED
      BY <1>9, <2>2 DEF KeyRecord
  <1>13. /\ KeyIn(db, k) = None
         /\ KeyIn(db', k) = [owner |-> e, key |-> v]
         /\ \A x : x # k => KeyIn(db', x) = KeyIn(db, x)
    BY <1>7, <1>11, <1>12, KeyOfRow, SameRows
  <1>14. Abstract!AddKey(e, k, v)
    <2>1. None = Abstract!NoRecord
      BY DEF None, Abstract!NoRecord
    <2>2. keypair' = [keypair EXCEPT ![k] = [owner |-> e, key |-> v]]
      BY <1>13 DEF keypair
    <2>3. keypair[k] = None
      BY <1>13 DEF keypair
    <2>4. QED
      BY <1>7, <2>1, <2>2, <2>3 DEF Abstract!AddKey
  <1>15. UNCHANGED <<account, instance, app, container, function>>
    BY <1>7, OthersStay DEF Tables
  <1>16. Abstract!Step
    BY <1>14, <1>15, OneKind DEF Abstract!KeyPairs
  <1>17. Within(db')
    BY <1>7 DEF Within, Tables
  <1>18. QED
    BY <1>16, <1>17

\* The owner by email is the owner by id.
LEMMA OwnerByEmail ==
    ASSUME NEW d, NEW m, Intact(d, m), NEW t \in OwnedTables, NEW r \in d[t],
           NEW u \in d["users"], EmailOf(d, t, r) = u["email"]
    PROVE  r[OwnerColumn(t)] = u["id"]
  <1>1. PICK w \in d["users"] : w["id"] = r[OwnerColumn(t)] /\ EmailOf(d, t, r) = w["email"]
    BY OwnerFacts
  <1>2. QED
    BY <1>1, EmailsDiffer

\* A new row with a name is the only one of its owner with that name.
LEMMA NamedCreated ==
    ASSUME Intact(db, made), StoreStep, NEW t \in {"containers", "functions"}, NEW e,
           NEW set, NEW n, CreatedFor(e, t, set, n),
           \A u \in Tables \ {t} : db'[u] = db[u]
    PROVE  /\ NamedRows(db, t, e, n["name"]) = {}
           /\ NamedRows(db', t, e, n["name"]) = {n}
           /\ \A x, m : x # e \/ m # n["name"] =>
                 NamedRows(db', t, x, m) = NamedRows(db, t, x, m)
  <1>1. t \in OwnedTables
    BY DEF OwnedTables
  <1>2. PICK u \in db["users"] : u["email"] = e /\ n[OwnerColumn(t)] = u["id"]
    BY DEF CreatedFor
  <1>3. db'[t] = db[t] \cup {n} /\ EmailOf(db', t, n) = e
    BY DEF CreatedFor
  <1>4. \A o \in db[t] : EmailOf(db', t, o) = EmailOf(db, t, o)
    BY <1>1, <1>2, <1>3, NewOwned
  <1>5. NamedRows(db, t, e, n["name"]) = {}
    <2>1. ASSUME NEW o \in db[t], o["name"] = n["name"], EmailOf(db, t, o) = e
          PROVE  FALSE
      <3>1. o[OwnerColumn(t)] = n[OwnerColumn(t)]
        <4>1. o[OwnerColumn(t)] = u["id"]
          BY <1>1, <1>2, <2>1, OwnerByEmail
        <4>2. QED
          BY <1>2, <4>1
      <3>2. /\ {"name", OwnerColumn(t)} \in Unique[t]
            /\ {"name", OwnerColumn(t)} \subseteq RowColumns(t) \ Nullable
        <4>1. CASE t = "containers"
          BY <4>1 DEF OwnerColumn, Loads, ContainerLoads, Unique, ContainerUnique, RowColumns,
                 Columns, ContainerColumns, ForeignKeys, ContainerForeignKeys, Nullable
        <4>2. CASE t = "functions"
          BY <4>2 DEF OwnerColumn, Loads, FunctionLoads, Unique, FunctionUnique, RowColumns,
                 Columns, FunctionColumns, ForeignKeys, FunctionForeignKeys, Nullable
        <4>3. QED
          BY <4>1, <4>2
      <3>3. ~Breaks(db, t, n, db[t])
        BY DEF CreatedFor
      <3>4. o["name"] # n["name"] \/ o[OwnerColumn(t)] # n[OwnerColumn(t)]
        <4>1. PICK k : k = OwnerColumn(t)
          OBVIOUS
        <4>2. {"name", k} \in Unique[t] /\ {"name", k} \subseteq RowColumns(t) \ Nullable
          BY <3>2, <4>1
        <4>3. o["name"] # n["name"] \/ o[k] # n[k]
          BY <3>3, <4>2 DEF Breaks
        <4>4. QED
          BY <4>1, <4>3
      <3>5. QED
        BY <2>1, <3>1, <3>4
    <2>2. QED
      BY <2>1 DEF NamedRows
  <1>6. /\ n \in NamedRows(db', t, e, n["name"])
        /\ \A x, m : NamedRows(db', t, x, m) \ {n} = NamedRows(db, t, x, m) \ {n}
    BY <1>3, <1>4 DEF NamedRows
  <1>7. NamedRows(db', t, e, n["name"]) = {n}
    BY <1>5, <1>6
  <1>8. ASSUME NEW x, NEW m, x # e \/ m # n["name"]
        PROVE  NamedRows(db', t, x, m) = NamedRows(db, t, x, m)
    <2>1. n \notin NamedRows(db', t, x, m)
      BY <1>3, <1>8 DEF NamedRows
    <2>2. n \notin NamedRows(db, t, x, m)
      BY <1>3, <1>4, <1>8 DEF NamedRows
    <2>3. QED
      BY <1>6, <2>1, <2>2
  <1>9. QED
    BY <1>5, <1>7, <1>8

\* A container that is saved is added.
LEMMA SaveContainerRecords ==
    ASSUME Intact(db, made), StoreStep, Within(db), db' # db, NEW e \in Emails,
           NEW n \in Names, NEW c \in Swift, SaveContainer(e, n, c)
    PROVE  Abstract!Step /\ Within(db')
  <1> DEFINE set == [openstack_name |-> c, name |-> n]
             edge == [owner |-> OwnerId(e)]
  <1>1. Create("containers", Insert(db, "containers", CreateBuilder("containers", set, edge),
                                    made["containers"] + 1)) /\ UserRow(db, e) # {}
    BY DEF SaveContainer
  <1>2. /\ DOMAIN set = {"openstack_name", "name"}
        /\ set["openstack_name"] = c /\ set["name"] = n
    OBVIOUS
  <1>3. "containers" \in OwnedTables
    BY DEF OwnedTables
  <1>4. edge = [owner |-> OwnerId(e)]
    OBVIOUS
  <1> HIDE DEF set, edge
  <1>5. DOMAIN set \subseteq Brought("containers")
    BY <1>2, BroughtAlong
  <1>6. /\ \E r : CreatedFor(e, "containers", set, r)
        /\ \A t \in Tables \ {"containers"} : db'[t] = db[t]
        /\ Intact(db', made') /\ Lasts(db, "users", db')
        /\ account[e] # None
    BY <1>1, <1>3, <1>4, <1>5, CreatesFor
  <1>7. PICK r : CreatedFor(e, "containers", set, r)
    BY <1>6
  <1>8. r["openstack_name"] = c /\ r["name"] = n
    BY <1>2, <1>7 DEF CreatedFor
  <1>9. /\ NamedRows(db, "containers", e, n) = {}
        /\ NamedRows(db', "containers", e, n) = {r}
        /\ \A x, m : x # e \/ m # n =>
              NamedRows(db', "containers", x, m) = NamedRows(db, "containers", x, m)
    BY <1>6, <1>7, <1>8, NamedCreated
  <1>10. \A o \in db["containers"] : o["openstack_name"] # c
    <2>1. {"openstack_name"} \in Unique["containers"]
          /\ "openstack_name" \in RowColumns("containers") \ Nullable
      BY DEF Unique, ContainerUnique, RowColumns, Columns, ContainerColumns, Nullable
    <2>2. \A o \in db["containers"] : o["openstack_name"] # r["openstack_name"]
      BY <1>7, <2>1, BreaksNothing DEF CreatedFor
    <2>3. QED
      BY <1>8, <2>2
  <1>11. /\ ContainerIn(db, e, n) = None
         /\ ContainerIn(db', e, n) = [swift |-> c]
         /\ \A x, m : x # e \/ m # n => ContainerIn(db', x, m) = ContainerIn(db, x, m)
    BY <1>6, <1>8, <1>9, ContainerOfRow, SameRows
  <1>12. ASSUME NEW o \in Emails, NEW m \in Names
         PROVE  container[o][m] # [swift |-> c]
    <2>1. container[o][m] = ContainerIn(db, o, m)
      BY DEF container
    <2>2. CASE NamedRows(db, "containers", o, m) = {}
      <3>1. ContainerIn(db, o, m) = None
        BY <2>2, ContainerOfRow
      <3>2. DOMAIN None = {} /\ DOMAIN [swift |-> c] # {}
        BY DEF None
      <3>3. QED
        BY <2>1, <3>1, <3>2
    <2>3. ASSUME NEW x \in NamedRows(db, "containers", o, m)
          PROVE  container[o][m] # [swift |-> c]
      <3>1. ContainerIn(db, o, m) = [swift |-> x["openstack_name"]]
        BY ContainerOfRow
      <3>2. x["openstack_name"] # c
        BY <1>10 DEF NamedRows
      <3>3. QED
        BY <2>1, <3>1, <3>2
    <2>4. QED
      BY <2>2, <2>3
  <1>13. Abstract!AddContainer(e, n, c)
    <2>1. None = Abstract!NoRecord
      BY DEF None, Abstract!NoRecord
    <2>2. container' = [container EXCEPT ![e][n] = [swift |-> c]]
      BY <1>11 DEF container
    <2>3. container[e][n] = None
      BY <1>11 DEF container
    <2>4. QED
      BY <1>6, <1>12, <2>1, <2>2, <2>3 DEF Abstract!AddContainer
  <1>14. UNCHANGED <<account, instance, app, keypair, function>>
    BY <1>6, OthersStay DEF Tables
  <1>15. Abstract!Step
    BY <1>13, <1>14, OneKind DEF Abstract!Containers
  <1>16. Within(db')
    BY <1>6 DEF Within, Tables
  <1>17. QED
    BY <1>15, <1>16

\* A first deployment comes without a key.
LEMMA CreateDeploymentRecords ==
    ASSUME Intact(db, made), StoreStep, Within(db), db' # db, NEW e \in Emails,
           NEW n \in Names, NEW v \in Versions, CreateDeployment(e, n, v)
    PROVE  Abstract!Step /\ Within(db')
  <1> DEFINE deployed == {"wasm", "language", "data_mode", "source"}
             f == Deployment(v)
             g == [name |-> n]
             set == Override(f, g)
             edge == [owner |-> OwnerId(e)]
  <1>1. Create("functions", Insert(db, "functions", CreateBuilder("functions", set, edge),
                                   made["functions"] + 1)) /\ UserRow(db, e) # {}
    BY DEF CreateDeployment
  <1>2. /\ DOMAIN f = deployed /\ \A c \in deployed : f[c] = Value(c, v)
        /\ DOMAIN g = {"name"} /\ g["name"] = n
    BY DEF Deployment, Versioned
  <1> HIDE DEF f, g
  <1>3. /\ DOMAIN set = deployed \cup {"name"} /\ set["name"] = n
        /\ \A c \in deployed : set[c] = Value(c, v)
    BY <1>2 DEF Override
  <1>4. "functions" \in OwnedTables
    BY DEF OwnedTables
  <1>5. edge = [owner |-> OwnerId(e)]
    OBVIOUS
  <1> HIDE DEF set, edge
  <1>6. DOMAIN set \subseteq Brought("functions")
    BY <1>3, BroughtAlong
  <1>7. /\ \E r : CreatedFor(e, "functions", set, r)
        /\ \A t \in Tables \ {"functions"} : db'[t] = db[t]
        /\ Intact(db', made') /\ Lasts(db, "users", db')
        /\ account[e] # None
    BY <1>1, <1>4, <1>5, <1>6, CreatesFor
  <1>8. PICK r : CreatedFor(e, "functions", set, r)
    BY <1>7
  <1>9. /\ r["name"] = n /\ \A c \in deployed : r[c] = Value(c, v)
        /\ db'["functions"] = db["functions"] \cup {r}
    BY <1>3, <1>8 DEF CreatedFor
  <1>10. \A c \in KeyFields : r[c] = Null
    <2>1. /\ KeyFields \cap DOMAIN set = {} /\ KeyFields \subseteq Brought("functions")
          /\ KeyFields \cap DOMAIN CreateDefaults(made["functions"] + 1)["functions"] = {}
      BY <1>3, BroughtAlong DEF KeyFields, CreateDefaults, FunctionDefaults
    <2>2. QED
      BY <1>8, <2>1 DEF CreatedFor
  <1>11. /\ NamedRows(db, "functions", e, n) = {}
         /\ NamedRows(db', "functions", e, n) = {r}
         /\ \A x, m : x # e \/ m # n =>
               NamedRows(db', "functions", x, m) = NamedRows(db, "functions", x, m)
    BY <1>7, <1>8, <1>9, NamedCreated
  <1>12. FunctionRecord(r) = [deployment |-> v, key |-> Null]
    <2>1. \A c \in deployed : Version(r[c]) = v
      BY <1>9, VersionOfValue DEF Tables, Columns, FunctionColumns
    <2>2. Together(r, deployed) = v
      BY <2>1, TogetherFacts
    <2>3. (\A c \in KeyFields : Version(r[c]) = Null) /\ KeyFields # {}
      BY <1>10 DEF Version, KeyFields
    <2>4. Together(r, KeyFields) = Null
      BY <2>3, TogetherFacts
    <2>5. QED
      BY <2>2, <2>4 DEF FunctionRecord
  <1>13. /\ FunctionIn(db, e, n) = None
         /\ FunctionIn(db', e, n) = [deployment |-> v, key |-> Null]
         /\ \A x, m : x # e \/ m # n => FunctionIn(db', x, m) = FunctionIn(db, x, m)
    BY <1>7, <1>11, <1>12, FunctionOfRow, SameRows
  <1>14. Abstract!Deploy(e, n, v)
    <2>1. None = Abstract!NoRecord
      BY DEF None, Abstract!NoRecord
    <2>2. function' = [function EXCEPT ![e][n] = [deployment |-> v, key |-> Null]]
      BY <1>13 DEF function
    <2>3. function[e][n] = None
      BY <1>13 DEF function
    <2>4. QED
      BY <1>7, <2>1, <2>2, <2>3 DEF Abstract!Deploy
  <1>15. UNCHANGED <<account, instance, app, keypair, container>>
    BY <1>7, OthersStay DEF Tables
  <1>16. Abstract!Step
    BY <1>14, <1>15, OneKind DEF Abstract!Functions
  <1>17. Within(db')
    BY <1>7, <1>9 DEF Within, Tables
  <1>18. QED
    BY <1>16, <1>17

\* The row of a new app: the host and the instance of the request.
LEMMA NewApp ==
    ASSUME NEW h, NEW i, NEW k, NEW n,
           n = NewRow("apps", CreateBuilder("apps", [host |-> h], [instance |-> i]), k)
    PROVE  n["host"] = h /\ n["instance_app"] = i
  <1> DEFINE set == [host |-> h]
             edge == [instance |-> i]
  <1>1. /\ "apps" \in Tables
        /\ "host" \in CreateSetters["apps"] \cap Mutable["apps"] \cap Inserted["apps"]
        /\ "host" \in RowColumns("apps")
        /\ "instance" \in CreateSetters["apps"] \cap DOMAIN Edges["apps"]
        /\ Edges["apps"]["instance"] = "instance_app"
        /\ "instance_app" \in Inserted["apps"] \cap RowColumns("apps")
        /\ "instance_app" \notin Mutable["apps"] \cup DOMAIN CreateDefaults(k)["apps"]
    BY DEF Tables, CreateSetters, AppSetters, Mutable, AppFields, Inserted, AppInsert,
           RowColumns, Columns, AppColumns, ForeignKeys, AppForeignKeys, Edges, AppEdges,
           CreateDefaults, AppDefaults
  <1>2. n = NewRow("apps", CreateBuilder("apps", set, edge), k)
    OBVIOUS
  <1>3. /\ DOMAIN set = {"host"} /\ set["host"] = h
        /\ DOMAIN edge = {"instance"} /\ edge["instance"] = i
    OBVIOUS
  <1> HIDE DEF set, edge
  <1>4. \A c \in DOMAIN set :
            c \in CreateSetters["apps"] \cap Mutable["apps"] \cap Inserted["apps"]
            /\ c \in RowColumns("apps") => n[c] = set[c]
    BY <1>1, <1>2, <1>3, NewRowColumns
  <1>5. n[Edges["apps"]["instance"]] = edge["instance"]
    BY <1>1, <1>2, <1>3, NewRowColumns
  <1>6. QED
    BY <1>1, <1>3, <1>4, <1>5

\* An app that is saved is registered for the instance, on behalf of its owner.
LEMMA InsertAppRecords ==
    ASSUME Intact(db, made), StoreStep, Within(db), HostsAsked(saving), db' # db,
           NEW c \in Callers, InsertApp(c)
    PROVE  Abstract!Step /\ Within(db')
  <1> DEFINE h == saving[c].host
             mu == CreateBuilder("apps", [host |-> h], [instance |-> saving[c].instance])
  <1>1. Create("apps", Insert(db, "apps", mu, made["apps"] + 1)) /\ h \in Hosts
    BY DEF InsertApp, HostsAsked
  <1>2. PICK n : n = NewRow("apps", mu, made["apps"] + 1)
    OBVIOUS
  <1>3. n["host"] = h
    BY <1>2, NewApp
  <1> HIDE DEF mu, h
  <1>4. "apps" \in Tables /\ "instances" \in Tables
    BY DEF Tables
  <1>5. /\ db'["apps"] = db["apps"] \cup {n}
        /\ \A t \in Tables \ {"apps"} : db'[t] = db[t]
        /\ ~Breaks(db, "apps", n, db["apps"])
    BY <1>1, <1>2, <1>4, CreatedRow
  <1>6. Intact(db', made') /\ Lasts(db, "users", db')
    BY DEF StoreStep, KeepsRows
  <1>7. PICK r \in db["instances"] : r["id"] = n["instance_app"]
    <2>1. /\ "instance_app" \in DOMAIN ForeignKeys["apps"] /\ "instance_app" \notin Nullable
          /\ ForeignKeys["apps"]["instance_app"] = "instances"
          /\ "instance_app" \in RowColumns("apps")
      BY DEF ForeignKeys, AppForeignKeys, Nullable, RowColumns
    <2>2. QED
      BY <1>5, <2>1 DEF Breaks
  <1>8. /\ \A a \in db["apps"] : a["host"] # h
        /\ \A a \in db["apps"] : a["instance_app"] # n["instance_app"]
    <2>1. /\ {"host"} \in Unique["apps"] /\ {"instance_app"} \in Unique["apps"]
          /\ "host" \in RowColumns("apps") \ Nullable
          /\ "instance_app" \in RowColumns("apps") \ Nullable
      BY DEF Unique, AppUnique, RowColumns, Columns, AppColumns, ForeignKeys, AppForeignKeys,
             Nullable
    <2>2. \A a \in db["apps"] : a["host"] # n["host"]
      BY <1>5, <2>1, BreaksNothing
    <2>3. \A a \in db["apps"] : a["instance_app"] # n["instance_app"]
      BY <1>5, <2>1, BreaksNothing
    <2>4. QED
      BY <1>3, <2>2, <2>3
  <1>9. PICK s \in Servers : s = r["openstack_id"]
    BY <1>7 DEF Within
  <1>10. PICK e \in Emails : e = EmailOf(db, "instances", r)
    <2>1. "instances" \in OwnedTables
      BY DEF OwnedTables
    <2>2. QED
      BY <1>7, <2>1, OwnerFacts DEF Within
  <1>11. InstanceRows(db, s) = {r}
    BY <1>7, <1>9, InstanceOfRow DEF InstanceRows
  <1>12. \A x : InstanceRows(db', x) = InstanceRows(db, x)
    BY <1>4, <1>5 DEF InstanceRows
  <1>13. AppRows(db, s) = {} /\ AppRows(db', s) = {n}
    BY <1>5, <1>7, <1>8, <1>11, <1>12 DEF AppRows
  <1>14. ASSUME NEW x, x # s
         PROVE  AppRows(db', x) = AppRows(db, x)
    <2>1. ASSUME NEW o \in InstanceRows(db, x), o["id"] = n["instance_app"]
          PROVE  FALSE
      <3>1. o \in db["instances"] /\ o["openstack_id"] = x
        BY DEF InstanceRows
      <3>2. o = r
        BY <1>4, <1>7, <2>1, <3>1, IdsDiffer
      <3>3. QED
        BY <1>9, <1>14, <3>1, <3>2
    <2>2. QED
      BY <1>5, <1>12, <2>1 DEF AppRows
  <1>15. /\ AppIn(db, s) = None /\ AppIn(db', s) = [host |-> h]
         /\ \A x : x # s => AppIn(db', x) = AppIn(db, x)
    BY <1>3, <1>6, <1>13, <1>14, AppOfRow, SameRows
  <1>16. instance[s] # None /\ instance[s].owner = e
    <2>1. instance[s] = InstanceRecord(db, r)
      BY <1>11, InstanceOfRow DEF instance
    <2>2. InstanceRecord(db, r).owner = e /\ DOMAIN InstanceRecord(db, r) # {}
      BY <1>10 DEF InstanceRecord
    <2>3. DOMAIN None = {}
      BY DEF None
    <2>4. QED
      BY <2>1, <2>2, <2>3
  <1>17. ASSUME NEW o \in Servers
         PROVE  app[o] # [host |-> h]
    <2>1. app[o] = AppIn(db, o)
      BY DEF app
    <2>2. CASE AppRows(db, o) = {}
      <3>1. AppIn(db, o) = None
        BY <2>2, AppOfRow
      <3>2. DOMAIN None = {} /\ DOMAIN [host |-> h] # {}
        BY DEF None
      <3>3. QED
        BY <2>1, <3>1, <3>2
    <2>3. ASSUME NEW a \in AppRows(db, o)
          PROVE  app[o] # [host |-> h]
      <3>1. AppIn(db, o) = [host |-> a["host"]]
        BY AppOfRow
      <3>2. a["host"] # h
        BY <1>8 DEF AppRows
      <3>3. QED
        BY <2>1, <3>1, <3>2
    <2>4. QED
      BY <2>2, <2>3
  <1>18. Abstract!Register(e, s, h)
    <2>1. None = Abstract!NoRecord
      BY DEF None, Abstract!NoRecord
    <2>2. app' = [app EXCEPT ![s] = [host |-> h]]
      BY <1>15 DEF app
    <2>3. app[s] = None
      BY <1>15 DEF app
    <2>4. QED
      BY <1>16, <1>17, <2>1, <2>2, <2>3 DEF Abstract!Register
  <1>19. UNCHANGED <<account, instance, keypair, container, function>>
    BY <1>4, <1>5, OthersStay
  <1>20. Abstract!Step
    BY <1>1, <1>18, <1>19, OneKind DEF Abstract!Apps
  <1>21. Within(db')
    BY <1>5 DEF Within, Tables
  <1>22. QED
    BY <1>20, <1>21

-----------------------------------------------------------------------------
(* Records: deletions.                                                     *)

\* A deletion does nothing, or removes its rows, which no row refers to.
LEMMA DeleteOutcome ==
    ASSUME NEW d, NEW m, Intact(d, m), NEW t \in Tables, NEW rows, NEW e,
           e = Delete(d, t, rows).db, e # d
    PROVE  /\ \A u \in Tables : e[u] = IF u = t THEN d[u] \ rows ELSE d[u]
           /\ \A u \in Tables : \A k \in DOMAIN ForeignKeys[u] \ OnDeleteSetNull :
                 Referring(d, t, rows, u, k) = {}
  <1> DEFINE Kept(u) == IF u = t THEN d[u] \ rows ELSE d[u]
             Lost(u, o) ==
                [c \in DOMAIN o |->
                    IF c \in OnDeleteSetNull \cap DOMAIN ForeignKeys[u]
                       /\ o \in Referring(d, t, rows, u, c)
                    THEN Null ELSE o[c]]
             refused == \E u \in Tables : \E k \in DOMAIN ForeignKeys[u] \ OnDeleteSetNull :
                            Referring(d, t, rows, u, k) # {}
  <1>1. ~refused
    BY DEF Delete, Failed
  <1>2. ASSUME NEW u \in Tables, NEW o \in d[u]
        PROVE  Lost(u, o) = o
    <2>1. RowOf(u, m[u], o)
      BY DEF Intact
    <2>2. o = [c \in DOMAIN o |-> o[c]]
      BY <2>1 DEF RowOf
    <2>3. \A c \in OnDeleteSetNull \cap DOMAIN ForeignKeys[u] : o[c] = Null
      <3>1. ASSUME "key_pair_instances" \in DOMAIN ForeignKeys[u] PROVE u = "instances"
        BY <3>1 DEF ForeignKeys, Tables, NoKeys, AppForeignKeys, KeyPairForeignKeys,
               ContainerForeignKeys, FunctionForeignKeys
      <3>2. QED
        BY <2>1, <3>1 DEF RowOf, OnDeleteSetNull
    <2>4. \A c \in DOMAIN o : Lost(u, o)[c] = o[c]
      BY <2>3
    <2>5. QED
      BY <2>2, <2>4
  <1>3. e = [u \in Tables |-> {Lost(u, o) : o \in Kept(u)}]
    BY <1>1 DEF Delete, Done
  <1> HIDE DEF Lost
  <1>4. \A u \in Tables : {Lost(u, o) : o \in Kept(u)} = Kept(u)
    BY <1>2
  <1>5. QED
    BY <1>1, <1>3, <1>4

\* A request that removes rows, and removes some.
LEMMA Removes ==
    ASSUME Intact(db, made), StoreStep, db' # db, NEW t \in Tables \ {"users"},
           NEW rows, rows \subseteq db[t], Change(Delete(db, t, rows))
    PROVE  /\ rows # {}
           /\ db'[t] = db[t] \ rows /\ \A u \in Tables \ {t} : db'[u] = db[u]
           /\ \A u \in Tables : \A k \in DOMAIN ForeignKeys[u] \ OnDeleteSetNull :
                 Referring(db, t, rows, u, k) = {}
           /\ Intact(db', made') /\ Lasts(db, "users", db')
  <1>1. PICK e : e = Delete(db, t, rows).db
    OBVIOUS
  <1>2. db' = e
    BY <1>1 DEF Change, Commit
  <1>3. /\ \A u \in Tables : e[u] = IF u = t THEN db[u] \ rows ELSE db[u]
        /\ \A u \in Tables : \A k \in DOMAIN ForeignKeys[u] \ OnDeleteSetNull :
              Referring(db, t, rows, u, k) = {}
    <2>1. t \in Tables /\ e # db
      BY <1>2
    <2>2. \A u \in Tables : e[u] = IF u = t THEN db[u] \ rows ELSE db[u]
      BY <1>1, <2>1, DeleteOutcome
    <2>3. \A u \in Tables : \A k \in DOMAIN ForeignKeys[u] \ OnDeleteSetNull :
              Referring(db, t, rows, u, k) = {}
      BY <1>1, <2>1, DeleteOutcome
    <2>4. QED
      BY <2>2, <2>3
  <1>4. Intact(db', made') /\ Lasts(db, "users", db')
    BY DEF StoreStep, KeepsRows
  <1>5. rows # {}
    <2>1. SUFFICES ASSUME rows = {} PROVE FALSE
      OBVIOUS
    <2>2. db = [u \in Tables |-> db[u]] /\ db' = [u \in Tables |-> db'[u]]
      BY <1>4 DEF Intact
    <2>3. \A u \in Tables : db'[u] = db[u]
      BY <1>2, <1>3, <2>1
    <2>4. QED
      BY <2>2, <2>3
  <1>6. QED
    BY <1>2, <1>3, <1>4, <1>5

\* The rows that a request finds among those of its account.
LEMMA OwnedRows ==
    ASSUME Intact(db, made), NEW e \in Emails, UserRow(db, e) # {}, NEW t \in OwnedTables,
           NEW where
    PROVE  Owned(db, t, OwnerId(e), where) =
               {r \in db[t] : Matches(r, where) /\ EmailOf(db, t, r) = e}
  <1>1. PICK u \in db["users"] : u["email"] = e /\ OwnerId(e) = u["id"]
    BY RequestOwner
  <1>2. PICK a : a = OwnerId(e)
    OBVIOUS
  <1>3. \A r \in db[t] : HasOwnerWith(db, t, r, [id |-> a]) <=> (EmailOf(db, t, r) = e)
    BY <1>1, <1>2, OwnedBy
  <1>4. Owned(db, t, a, where) =
            {r \in db[t] : Matches(r, where) /\ HasOwnerWith(db, t, r, [id |-> a])}
    BY DEF Owned
  <1>5. QED
    BY <1>2, <1>3, <1>4

\* An instance that is deleted is terminated: no app refers to it.
LEMMA DeleteByOpenstackIDRecords ==
    ASSUME Intact(db, made), StoreStep, Within(db), db' # db, NEW e \in Emails,
           NEW s \in Servers, DeleteByOpenstackID(e, s)
    PROVE  Abstract!Step /\ Within(db')
  <1> DEFINE rows == Owned(db, "instances", OwnerId(e), [openstack_id |-> s])
  <1>1. UserRow(db, e) # {} /\ Change(Delete(db, "instances", rows))
    BY DEF DeleteByOpenstackID
  <1>2. "instances" \in OwnedTables /\ "instances" \in Tables \ {"users"}
    BY DEF OwnedTables, Tables
  <1>3. rows = {r \in db["instances"] :
                   Matches(r, [openstack_id |-> s]) /\ EmailOf(db, "instances", r) = e}
    BY <1>1, <1>2, OwnedRows
  <1>4. rows = {r \in db["instances"] :
                   r["openstack_id"] = s /\ EmailOf(db, "instances", r) = e}
    BY <1>3 DEF Matches
  <1> HIDE DEF rows
  <1>5. /\ rows # {}
        /\ db'["instances"] = db["instances"] \ rows
        /\ \A u \in Tables \ {"instances"} : db'[u] = db[u]
        /\ \A u \in Tables : \A k \in DOMAIN ForeignKeys[u] \ OnDeleteSetNull :
              Referring(db, "instances", rows, u, k) = {}
        /\ Intact(db', made') /\ Lasts(db, "users", db')
    BY <1>1, <1>2, <1>4, Removes
  <1>6. PICK r \in rows : TRUE
    BY <1>5
  <1>7. r \in db["instances"] /\ r["openstack_id"] = s /\ EmailOf(db, "instances", r) = e
    BY <1>4, <1>6
  <1>8. InstanceRows(db, s) = {r}
    BY <1>7, InstanceOfRow DEF InstanceRows
  <1>9. /\ InstanceRows(db', s) = {}
        /\ \A x : x # s => InstanceRows(db', x) = InstanceRows(db, x)
    BY <1>4, <1>5, <1>6, <1>8 DEF InstanceRows
  <1>10. /\ InstanceIn(db', s) = None
         /\ \A x : x # s => InstanceIn(db', x) = InstanceIn(db, x)
    BY <1>5, <1>9, InstanceOfRow, SameRows
  <1>11. AppRows(db, s) = {}
    <2>1. "apps" \in Tables /\ "instance_app" \in DOMAIN ForeignKeys["apps"] \ OnDeleteSetNull
          /\ ForeignKeys["apps"]["instance_app"] = "instances"
      BY DEF Tables, ForeignKeys, AppForeignKeys, OnDeleteSetNull
    <2>2. Referring(db, "instances", rows, "apps", "instance_app") = {}
      BY <1>5, <2>1
    <2>3. \A a \in db["apps"] : a["instance_app"] # r["id"]
      BY <1>6, <2>1, <2>2 DEF Referring
    <2>4. QED
      BY <1>8, <2>3 DEF AppRows
  <1>12. Abstract!Terminate(e, s)
    <2>1. None = Abstract!NoRecord
      BY DEF None, Abstract!NoRecord
    <2>2. instance' = [instance EXCEPT ![s] = None]
      BY <1>10 DEF instance
    <2>3. instance[s] = InstanceRecord(db, r)
      BY <1>8, InstanceOfRow DEF instance
    <2>4. InstanceRecord(db, r).owner = e /\ InstanceRecord(db, r) # None
      BY <1>7 DEF InstanceRecord, None
    <2>5. app[s] = None
      BY <1>11, AppOfRow DEF app
    <2>6. QED
      BY <2>1, <2>2, <2>3, <2>4, <2>5 DEF Abstract!Terminate
  <1>13. UNCHANGED <<account, app, keypair, container, function>>
    BY <1>2, <1>5, OthersStay
  <1>14. Abstract!Step
    BY <1>12, <1>13, OneKind DEF Abstract!Instances
  <1>15. Within(db')
    BY <1>5 DEF Within, Tables
  <1>16. QED
    BY <1>14, <1>15

\* A key that is deleted is removed.
LEMMA DeleteByNameRecords ==
    ASSUME Intact(db, made), StoreStep, Within(db), db' # db, NEW e \in Emails,
           NEW k \in KeyNames, DeleteByName(e, k)
    PROVE  Abstract!Step /\ Within(db')
  <1> DEFINE rows == Owned(db, "key_pairs", OwnerId(e), [openstack_name |-> k])
  <1>1. UserRow(db, e) # {} /\ Change(Delete(db, "key_pairs", rows))
    BY DEF DeleteByName
  <1>2. "key_pairs" \in OwnedTables /\ "key_pairs" \in Tables \ {"users"}
    BY DEF OwnedTables, Tables
  <1>3. rows = {r \in db["key_pairs"] :
                   Matches(r, [openstack_name |-> k]) /\ EmailOf(db, "key_pairs", r) = e}
    BY <1>1, <1>2, OwnedRows
  <1>4. rows = {r \in db["key_pairs"] :
                   r["openstack_name"] = k /\ EmailOf(db, "key_pairs", r) = e}
    BY <1>3 DEF Matches
  <1> HIDE DEF rows
  <1>5. /\ rows # {}
        /\ db'["key_pairs"] = db["key_pairs"] \ rows
        /\ \A u \in Tables \ {"key_pairs"} : db'[u] = db[u]
        /\ Intact(db', made') /\ Lasts(db, "users", db')
    BY <1>1, <1>2, <1>4, Removes
  <1>6. PICK r \in rows : TRUE
    BY <1>5
  <1>7. r \in db["key_pairs"] /\ r["openstack_name"] = k /\ EmailOf(db, "key_pairs", r) = e
    BY <1>4, <1>6
  <1>8. KeyRows(db, k) = {r}
    BY <1>7, KeyOfRow DEF KeyRows
  <1>9. KeyRows(db', k) = {} /\ \A x : x # k => KeyRows(db', x) = KeyRows(db, x)
    BY <1>4, <1>5, <1>6, <1>8 DEF KeyRows
  <1>10. KeyIn(db', k) = None /\ \A x : x # k => KeyIn(db', x) = KeyIn(db, x)
    BY <1>5, <1>9, KeyOfRow, SameRows
  <1>11. Abstract!RemoveKey(e, k)
    <2>1. None = Abstract!NoRecord
      BY DEF None, Abstract!NoRecord
    <2>2. keypair' = [keypair EXCEPT ![k] = None]
      BY <1>10 DEF keypair
    <2>3. keypair[k] = KeyRecord(db, r)
      BY <1>8, KeyOfRow DEF keypair
    <2>4. KeyRecord(db, r).owner = e /\ KeyRecord(db, r) # None
      BY <1>7 DEF KeyRecord, None
    <2>5. QED
      BY <2>1, <2>2, <2>3, <2>4 DEF Abstract!RemoveKey
  <1>12. UNCHANGED <<account, instance, app, container, function>>
    BY <1>2, <1>5, OthersStay
  <1>13. Abstract!Step
    BY <1>11, <1>12, OneKind DEF Abstract!KeyPairs
  <1>14. Within(db')
    BY <1>5 DEF Within, Tables
  <1>15. QED
    BY <1>13, <1>14

\* The app of an instance that is deleted is unregistered.
LEMMA DeleteByInstanceRecords ==
    ASSUME Intact(db, made), StoreStep, Within(db), db' # db, NEW e \in Emails,
           NEW s \in Servers, DeleteByInstance(e, s)
    PROVE  Abstract!Step /\ Within(db')
  <1> DEFINE found == Owned(db, "instances", OwnerId(e), [openstack_id |-> s])
             rows == {a \in db["apps"] : \E r \in found : a.instance_app = r.id}
  <1>1. UserRow(db, e) # {} /\ Change(Delete(db, "apps", rows))
    BY DEF DeleteByInstance
  <1>2. "instances" \in OwnedTables /\ "apps" \in Tables \ {"users"}
    BY DEF OwnedTables, Tables
  <1>3. found = {r \in db["instances"] :
                    Matches(r, [openstack_id |-> s]) /\ EmailOf(db, "instances", r) = e}
    BY <1>1, <1>2, OwnedRows
  <1>4. found = {r \in db["instances"] :
                    r["openstack_id"] = s /\ EmailOf(db, "instances", r) = e}
    BY <1>3 DEF Matches
  <1>5. rows \subseteq db["apps"]
        /\ \A a \in db["apps"] : a \in rows <=> \E r \in found : a["instance_app"] = r["id"]
    OBVIOUS
  <1> HIDE DEF found, rows
  <1>6. /\ rows # {}
        /\ db'["apps"] = db["apps"] \ rows
        /\ \A u \in Tables \ {"apps"} : db'[u] = db[u]
        /\ Intact(db', made') /\ Lasts(db, "users", db')
    BY <1>1, <1>2, <1>5, Removes
  <1>7. PICK a \in rows : TRUE
    BY <1>6
  <1>8. PICK r \in found : a["instance_app"] = r["id"]
    BY <1>5, <1>7
  <1>9. r \in db["instances"] /\ r["openstack_id"] = s /\ EmailOf(db, "instances", r) = e
    BY <1>4, <1>8
  <1>10. InstanceRows(db, s) = {r}
    BY <1>9, InstanceOfRow DEF InstanceRows
  <1>11. \A x : InstanceRows(db', x) = InstanceRows(db, x)
    BY <1>6 DEF InstanceRows, Tables
  <1>12. AppRows(db, s) = {a}
    BY <1>5, <1>7, <1>8, <1>10, AppOfRow DEF AppRows
  <1>13. AppRows(db', s) = {}
    BY <1>6, <1>7, <1>11, <1>12 DEF AppRows
  <1>14. ASSUME NEW x, x # s
         PROVE  AppRows(db', x) = AppRows(db, x)
    <2>1. ASSUME NEW b \in AppRows(db, x), b \in rows
          PROVE  FALSE
      <3>1. PICK o \in InstanceRows(db, x) : b["instance_app"] = o["id"]
        BY DEF AppRows
      <3>2. PICK p \in found : b["instance_app"] = p["id"]
        BY <1>5, <2>1 DEF AppRows
      <3>3. /\ o \in db["instances"] /\ o["openstack_id"] = x
            /\ p \in db["instances"] /\ p["openstack_id"] = s
        BY <1>4 DEF InstanceRows
      <3>4. o = p
        BY <3>1, <3>2, <3>3, IdsDiffer DEF Tables
      <3>5. QED
        BY <1>14, <3>3, <3>4
    <2>2. QED
      BY <1>6, <1>11, <2>1 DEF AppRows
  <1>15. AppIn(db', s) = None /\ \A x : x # s => AppIn(db', x) = AppIn(db, x)
    BY <1>6, <1>13, <1>14, AppOfRow, SameRows
  <1>16. Abstract!Unregister(e, s)
    <2>1. None = Abstract!NoRecord
      BY DEF None, Abstract!NoRecord
    <2>2. app' = [app EXCEPT ![s] = None]
      BY <1>15 DEF app
    <2>3. app[s] = [host |-> a["host"]]
      BY <1>12, AppOfRow DEF app
    <2>4. app[s] # None
      BY <2>3 DEF None
    <2>5. instance[s] = InstanceRecord(db, r)
      BY <1>10, InstanceOfRow DEF instance
    <2>6. InstanceRecord(db, r).owner = e
      BY <1>9 DEF InstanceRecord
    <2>7. QED
      BY <2>1, <2>2, <2>4, <2>5, <2>6 DEF Abstract!Unregister
  <1>17. UNCHANGED <<account, instance, keypair, container, function>>
    BY <1>2, <1>6, OthersStay
  <1>18. Abstract!Step
    BY <1>16, <1>17, OneKind DEF Abstract!Apps
  <1>19. Within(db')
    BY <1>6 DEF Within, Tables
  <1>20. QED
    BY <1>18, <1>19

\* Without the row there is nothing under its name, and the other names are as they were.
LEMMA NamedRemoved ==
    ASSUME Intact(db, made), StoreStep, NEW t \in {"containers", "functions"}, NEW e, NEW n,
           NEW r \in NamedRows(db, t, e, n), db'[t] = db[t] \ {r}
    PROVE  /\ NamedRows(db', t, e, n) = {}
           /\ \A x, m : x # e \/ m # n => NamedRows(db', t, x, m) = NamedRows(db, t, x, m)
  <1>1. t \in OwnedTables
    BY DEF OwnedTables
  <1>2. Intact(db', made') /\ Lasts(db, "users", db')
    BY DEF StoreStep, KeepsRows
  <1>3. \A o \in db'[t] : EmailOf(db', t, o) = EmailOf(db, t, o)
    BY <1>1, <1>2, OwnersStay
  <1>4. NamedRows(db, t, e, n) = {r} /\ r["name"] = n /\ EmailOf(db, t, r) = e
    BY NamedRow DEF NamedRows
  <1>5. \A x, m : NamedRows(db', t, x, m) = NamedRows(db, t, x, m) \ {r}
    BY <1>3 DEF NamedRows
  <1>6. \A x, m : x # e \/ m # n => r \notin NamedRows(db, t, x, m)
    BY <1>4 DEF NamedRows
  <1>7. QED
    BY <1>4, <1>5, <1>6

\* A container that is deleted is removed.
LEMMA DeleteContainerRecords ==
    ASSUME Intact(db, made), StoreStep, Within(db), db' # db, NEW e \in Emails,
           NEW n \in Names, DeleteContainer(e, n)
    PROVE  Abstract!Step /\ Within(db')
  <1> DEFINE rows == Owned(db, "containers", OwnerId(e), [name |-> n])
  <1>1. UserRow(db, e) # {} /\ Change(Delete(db, "containers", rows))
    BY DEF DeleteContainer
  <1>2. "containers" \in OwnedTables /\ "containers" \in Tables \ {"users"}
    BY DEF OwnedTables, Tables
  <1>3. rows = {r \in db["containers"] :
                   Matches(r, [name |-> n]) /\ EmailOf(db, "containers", r) = e}
    BY <1>1, <1>2, OwnedRows
  <1>4. rows = NamedRows(db, "containers", e, n)
    BY <1>3 DEF Matches, NamedRows
  <1> HIDE DEF rows
  <1>5. /\ rows # {}
        /\ db'["containers"] = db["containers"] \ rows
        /\ \A u \in Tables \ {"containers"} : db'[u] = db[u]
        /\ Intact(db', made') /\ Lasts(db, "users", db')
    BY <1>1, <1>2, <1>4, Removes DEF NamedRows
  <1>6. PICK r \in NamedRows(db, "containers", e, n) : TRUE
    BY <1>4, <1>5
  <1>7. rows = {r}
    BY <1>4, NamedRow
  <1>8. /\ NamedRows(db', "containers", e, n) = {}
        /\ \A x, m : x # e \/ m # n =>
              NamedRows(db', "containers", x, m) = NamedRows(db, "containers", x, m)
    BY <1>5, <1>7, NamedRemoved
  <1>9. /\ ContainerIn(db', e, n) = None
        /\ \A x, m : x # e \/ m # n => ContainerIn(db', x, m) = ContainerIn(db, x, m)
    BY <1>5, <1>8, ContainerOfRow, SameRows
  <1>10. Abstract!RemoveContainer(e, n)
    <2>1. None = Abstract!NoRecord
      BY DEF None, Abstract!NoRecord
    <2>2. container' = [container EXCEPT ![e][n] = None]
      BY <1>9 DEF container
    <2>3. container[e][n] = [swift |-> r["openstack_name"]]
      BY ContainerOfRow DEF container
    <2>4. container[e][n] # None
      BY <2>3 DEF None
    <2>5. QED
      BY <2>1, <2>2, <2>4 DEF Abstract!RemoveContainer
  <1>11. UNCHANGED <<account, instance, app, keypair, function>>
    BY <1>2, <1>5, OthersStay
  <1>12. Abstract!Step
    BY <1>10, <1>11, OneKind DEF Abstract!Containers
  <1>13. Within(db')
    BY <1>5 DEF Within, Tables
  <1>14. QED
    BY <1>12, <1>13

\* The function with an id, if it is one of the account's: the only one of its name.
LEMMA FunctionById ==
    ASSUME Intact(db, made), Within(db), NEW e \in Emails, UserRow(db, e) # {}, NEW f,
           NEW r \in Owned(db, "functions", OwnerId(e), [id |-> f])
    PROVE  /\ Owned(db, "functions", OwnerId(e), [id |-> f]) = {r}
           /\ r["name"] \in Names
           /\ r \in NamedRows(db, "functions", e, r["name"])
           /\ NamedRows(db, "functions", e, r["name"]) = {r}
  <1> DEFINE rows == Owned(db, "functions", OwnerId(e), [id |-> f])
  <1>1. "functions" \in OwnedTables /\ "functions" \in Tables
    BY DEF OwnedTables, Tables
  <1>2. rows = {o \in db["functions"] :
                   Matches(o, [id |-> f]) /\ EmailOf(db, "functions", o) = e}
    BY <1>1, OwnedRows
  <1>3. rows = {o \in db["functions"] : o["id"] = f /\ EmailOf(db, "functions", o) = e}
    BY <1>2 DEF Matches
  <1>4. r \in rows
    OBVIOUS
  <1> HIDE DEF rows
  <1>5. rows = {r}
    BY <1>1, <1>3, <1>4, IdsDiffer
  <1>6. r \in db["functions"] /\ EmailOf(db, "functions", r) = e
    BY <1>3, <1>4
  <1>7. r \in NamedRows(db, "functions", e, r["name"])
    BY <1>6 DEF NamedRows
  <1>8. NamedRows(db, "functions", e, r["name"]) = {r}
    BY <1>7, NamedRow
  <1>9. QED
    BY <1>5, <1>6, <1>7, <1>8 DEF rows, Within

\* A function that is deleted is removed.
LEMMA DeleteFunctionRecords ==
    ASSUME Intact(db, made), StoreStep, Within(db), db' # db, NEW e \in Emails,
           NEW f, DeleteFunction(e, f)
    PROVE  Abstract!Step /\ Within(db')
  <1> DEFINE rows == Owned(db, "functions", OwnerId(e), [id |-> f])
  <1>1. UserRow(db, e) # {} /\ Change(Delete(db, "functions", rows))
    BY DEF DeleteFunction
  <1>2. "functions" \in Tables \ {"users"} /\ rows \subseteq db["functions"]
    BY DEF Tables, Owned
  <1>3. /\ rows # {}
        /\ db'["functions"] = db["functions"] \ rows
        /\ \A u \in Tables \ {"functions"} : db'[u] = db[u]
        /\ Intact(db', made') /\ Lasts(db, "users", db')
    <2> HIDE DEF rows
    <2>1. QED
      BY <1>1, <1>2, Removes
  <1>4. PICK r \in rows : TRUE
    BY <1>3
  <1>5. PICK n \in Names : n = r["name"]
    BY <1>1, <1>4, FunctionById
  <1>6. rows = {r} /\ r \in NamedRows(db, "functions", e, n)
    BY <1>1, <1>4, <1>5, FunctionById
  <1> HIDE DEF rows
  <1>7. /\ NamedRows(db', "functions", e, n) = {}
        /\ \A x, m : x # e \/ m # n =>
              NamedRows(db', "functions", x, m) = NamedRows(db, "functions", x, m)
    BY <1>3, <1>6, NamedRemoved
  <1>8. /\ FunctionIn(db', e, n) = None
        /\ \A x, m : x # e \/ m # n => FunctionIn(db', x, m) = FunctionIn(db, x, m)
    BY <1>3, <1>7, FunctionOfRow, SameRows
  <1>9. Abstract!RemoveFunction(e, n)
    <2>1. None = Abstract!NoRecord
      BY DEF None, Abstract!NoRecord
    <2>2. function' = [function EXCEPT ![e][n] = None]
      BY <1>8 DEF function
    <2>3. function[e][n] = FunctionRecord(r)
      BY <1>6, FunctionOfRow DEF function
    <2>4. function[e][n] # None
      BY <2>3 DEF FunctionRecord, None
    <2>5. QED
      BY <2>1, <2>2, <2>4 DEF Abstract!RemoveFunction
  <1>10. UNCHANGED <<account, instance, app, keypair, container>>
    BY <1>2, <1>3, OthersStay
  <1>11. Abstract!Step
    BY <1>9, <1>10, OneKind DEF Abstract!Functions
  <1>12. Within(db')
    BY <1>3 DEF Within, Tables
  <1>13. QED
    BY <1>11, <1>12

-----------------------------------------------------------------------------
(* Records: updates.                                                       *)

\* What an update builder can set and what it then writes.
Settable(t) == UpdateSetters[t] \cap Mutable[t] \cap Updated[t] \cap RowColumns(t)

\* Row n is row o after an update.
RowUpdated(t, o, set, cleared, n) ==
    /\ \A c \in cleared : n[c] = Null
    /\ \A c \in DOMAIN set : n[c] = set[c]
    /\ \A c \in RowColumns(t) \ (cleared \cup DOMAIN set \cup {"updated_at"}) : n[c] = o[c]

\* Database e has row o of table t of d replaced that way.
Replacing(d, t, o, set, cleared, e) ==
    \E n : e[t] = (d[t] \ {o}) \cup {n} /\ RowUpdated(t, o, set, cleared, n)

\* An update does nothing, or replaces each row.
LEMMA UpdateOutcome ==
    ASSUME NEW d, NEW m, Intact(d, m), NEW t \in {"users", "instances", "functions"},
           NEW set, DOMAIN set \subseteq Settable(t), NEW cleared,
           cleared \subseteq Clearers[t] \cap RowColumns(t), cleared \cap DOMAIN set = {},
           NEW rows, NEW e, e = Update(d, t, rows, UpdateBuilder(t, set, cleared)).db,
           e # d
    PROVE  /\ rows # {}
           /\ \A u \in Tables \ {t} : e[u] = d[u]
           /\ \A o \in rows : (\A x \in rows : x = o) => Replacing(d, t, o, set, cleared, e)
  <1> DEFINE mu == UpdateBuilder(t, set, cleared)
             over == Override(UpdateDefaults, mu.set)
             sets == OnlyIn(over, Updated[t])
             New(x) == [c \in RowColumns(t) |->
                          IF c \in mu.cleared THEN Null
                          ELSE IF c \in DOMAIN sets THEN sets[c] ELSE x[c]]
             new == {New(x) : x \in rows}
  <1>1. e = [d EXCEPT ![t] = (@ \ rows) \cup new]
    BY DEF Update, Failed, Done
  <1>2. t \in Tables
    BY DEF Tables
  <1>3. mu.cleared = cleared
    BY DEF UpdateBuilder, Mutation
  <1>4. /\ DOMAIN mu.set = DOMAIN set /\ \A c \in DOMAIN set : mu.set[c] = set[c]
    BY DEF UpdateBuilder, Mutation, OnlyIn, Settable
  <1>5. ASSUME NEW o
        PROVE  RowUpdated(t, o, set, cleared, New(o))
    <2> HIDE DEF mu
    <2>1. /\ DOMAIN over = {"updated_at"} \cup DOMAIN set
          /\ \A c \in DOMAIN set : over[c] = set[c]
      BY <1>4 DEF Override, UpdateDefaults
    <2> HIDE DEF over
    <2>2. /\ DOMAIN sets = ({"updated_at"} \cup DOMAIN set) \cap Updated[t]
          /\ \A c \in DOMAIN set : c \in Updated[t] => sets[c] = set[c]
      BY <2>1 DEF OnlyIn
    <2> HIDE DEF sets
    <2>3. \A c \in cleared : New(o)[c] = Null
      BY <1>3
    <2>4. \A c \in DOMAIN set : New(o)[c] = set[c]
      BY <1>3, <2>2 DEF Settable
    <2>5. \A c \in RowColumns(t) \ (cleared \cup DOMAIN set \cup {"updated_at"}) :
              New(o)[c] = o[c]
      BY <1>3, <2>2
    <2> HIDE DEF New
    <2>6. QED
      BY <2>3, <2>4, <2>5 DEF RowUpdated
  <1>6. ASSUME NEW o \in rows, \A x \in rows : x = o
        PROVE  rows = {o} /\ new = {New(o)}
    <2> HIDE DEF New
    <2>1. QED
      BY <1>6
  <1>7. rows = {} => new = {}
    OBVIOUS
  <1> HIDE DEF mu, sets, New, new
  <1>8. /\ e[t] = (d[t] \ rows) \cup new
        /\ \A u \in Tables \ {t} : e[u] = d[u]
        /\ d = [u \in Tables |-> d[u]] /\ e = [u \in Tables |-> e[u]]
    BY <1>1, <1>2 DEF Intact
  <1>9. rows # {}
    <2>1. SUFFICES ASSUME rows = {} PROVE FALSE
      OBVIOUS
    <2>2. \A u \in Tables : e[u] = d[u]
      BY <1>7, <1>8, <2>1
    <2>3. QED
      BY <1>8, <2>2
  <1>10. ASSUME NEW o \in rows, \A x \in rows : x = o
         PROVE  Replacing(d, t, o, set, cleared, e)
    <2>1. e[t] = (d[t] \ {o}) \cup {New(o)}
      BY <1>6, <1>8, <1>10
    <2>2. QED
      BY <1>5, <2>1 DEF Replacing
  <1>11. QED
    BY <1>8, <1>9, <1>10

\* A request that updates the only row it finds.
LEMMA Updates ==
    ASSUME Intact(db, made), StoreStep, db' # db,
           NEW t \in {"users", "instances", "functions"},
           NEW rows, \A x, y \in rows : x = y, NEW set, DOMAIN set \subseteq Settable(t),
           NEW cleared, cleared \subseteq Clearers[t] \cap RowColumns(t),
           cleared \cap DOMAIN set = {},
           \/ Change(Update(db, t, rows, UpdateBuilder(t, set, cleared)))
           \/ Change(UpdateOne(db, t, rows, UpdateBuilder(t, set, cleared)))
    PROVE  /\ \A u \in Tables \ {t} : db'[u] = db[u]
           /\ \E o \in rows : \E n : /\ db'[t] = (db[t] \ {o}) \cup {n}
                                     /\ RowUpdated(t, o, set, cleared, n)
           /\ Intact(db', made') /\ Lasts(db, "users", db')
  <1>1. PICK e : e = Update(db, t, rows, UpdateBuilder(t, set, cleared)).db
    OBVIOUS
  <1>2. db' = e
    BY <1>1 DEF Change, Commit, UpdateOne, Failed
  <1>3. e # db
    BY <1>2
  <1>4. rows # {} /\ \A u \in Tables \ {t} : e[u] = db[u]
    BY <1>1, <1>3, UpdateOutcome
  <1>5. PICK o \in rows : \A x \in rows : x = o
    BY <1>4
  <1>6. Replacing(db, t, o, set, cleared, e)
    <2>1. \A x \in rows : (\A y \in rows : y = x) => Replacing(db, t, x, set, cleared, e)
      BY <1>1, <1>3, UpdateOutcome
    <2>2. QED
      BY <1>5, <2>1
  <1>7. Intact(db', made') /\ Lasts(db, "users", db')
    BY DEF StoreStep, KeepsRows
  <1>8. QED
    BY <1>2, <1>4, <1>6, <1>7 DEF Replacing

\* The session of an account is replaced or ended.
LEMMA SessionRecords ==
    ASSUME Intact(db, made), StoreStep, Within(db), db' # db, NEW e \in Emails,
           NEW rows, rows \subseteq UserRow(db, e), NEW jti \in Jtis \cup {Null},
           Session(rows, jti)
    PROVE  Abstract!Step /\ Within(db')
  <1> DEFINE set == IF jti = Null THEN None ELSE [current_refresh_jti |-> jti]
             cleared == IF jti = Null THEN {"current_refresh_jti"} ELSE {}
  <1>1. Change(Update(db, "users", rows, UpdateBuilder("users", set, cleared)))
    BY DEF Session
  <1>2. /\ DOMAIN set \cup cleared = {"current_refresh_jti"} /\ cleared \cap DOMAIN set = {}
        /\ \A c \in DOMAIN set : set[c] = jti
        /\ cleared # {} => jti = Null
    BY DEF None
  <1> HIDE DEF set, cleared
  <1>3. /\ DOMAIN set \subseteq Settable("users")
        /\ cleared \subseteq Clearers["users"] \cap RowColumns("users")
    BY <1>2 DEF Settable, UpdateSetters, UserUpdateSetters, UserSetters, Mutable, UserProfile,
           UserTokens, UserJti, UserTimes, Updated, UserUpdate, RowColumns, Columns,
           UserColumns, Clearers, UserClearers
  <1>4. \A x, y \in rows : x = y
    BY OneRow DEF UserRow
  <1>5. /\ \A u \in Tables \ {"users"} : db'[u] = db[u]
        /\ \E o \in rows : \E n : /\ db'["users"] = (db["users"] \ {o}) \cup {n}
                                  /\ RowUpdated("users", o, set, cleared, n)
        /\ Intact(db', made') /\ Lasts(db, "users", db')
    BY <1>1, <1>2, <1>3, <1>4, Updates
  <1>6. PICK o \in rows : \E n : /\ db'["users"] = (db["users"] \ {o}) \cup {n}
                                 /\ RowUpdated("users", o, set, cleared, n)
    BY <1>5
  <1>7. PICK n : /\ db'["users"] = (db["users"] \ {o}) \cup {n}
                 /\ RowUpdated("users", o, set, cleared, n)
    BY <1>6
  <1>8. o \in db["users"] /\ o["email"] = e
    BY DEF UserRow
  <1>9. /\ n["current_refresh_jti"] = jti
        /\ \A c \in {"email", "name", "google_id", "google_access_token",
                     "google_refresh_token", "google_token_expiry"} : n[c] = o[c]
    <2>1. {"email", "name", "google_id", "google_access_token", "google_refresh_token",
           "google_token_expiry"} \subseteq RowColumns("users")
      BY DEF RowColumns, Columns, UserColumns
    <2>2. QED
      BY <1>2, <1>7, <2>1 DEF RowUpdated
  <1>10. AccountRows(db, e) = {o}
    BY <1>8, AccountOfRow DEF AccountRows
  <1>11. /\ AccountRows(db', e) = {n}
         /\ \A x : x # e => AccountRows(db', x) = AccountRows(db, x)
    BY <1>7, <1>8, <1>9, <1>10 DEF AccountRows
  <1>12. AccountOf(n) = [AccountOf(o) EXCEPT !.jti = jti]
    <2>1. Together(n, {"name", "google_access_token", "google_token_expiry"}) =
              Together(o, {"name", "google_access_token", "google_token_expiry"})
      BY <1>9, TogetherFacts
    <2>2. QED
      BY <1>9, <2>1 DEF AccountOf
  <1>13. /\ AccountIn(db, e) = AccountOf(o) /\ AccountIn(db', e) = AccountOf(n)
         /\ \A x : x # e => AccountIn(db', x) = AccountIn(db, x)
    BY <1>5, <1>10, <1>11, AccountOfRow, SameRows
  <1>14. Abstract!ChangeSession(e, jti)
    <2>1. None = Abstract!NoRecord
      BY DEF None, Abstract!NoRecord
    <2>2. account' = [account EXCEPT ![e].jti = jti]
      BY <1>12, <1>13 DEF account
    <2>3. account[e] # None
      BY <1>13 DEF account, AccountOf, None
    <2>4. QED
      BY <2>1, <2>2, <2>3 DEF Abstract!ChangeSession
  <1>15. UNCHANGED <<instance, app, keypair, container, function>>
    BY <1>5, OthersStay DEF Tables
  <1>16. Abstract!Step
    BY <1>14, <1>15, OneKind DEF Abstract!Accounts
  <1>17. Within(db')
    BY <1>5, <1>7, <1>8, <1>9 DEF Within, Tables
  <1>18. QED
    BY <1>16, <1>17

\* A change of an instance's metadata is a patch.
LEMMA UpdateInstanceMetadataRecords ==
    ASSUME Intact(db, made), StoreStep, Within(db), db' # db, NEW e \in Emails,
           NEW s \in Servers, NEW v \in Versions, NEW rename \in BOOLEAN,
           UpdateInstanceMetadata(e, s, v, rename)
    PROVE  Abstract!Step /\ Within(db')
  <1> DEFINE told == {"key_name", "note"} \cup IF rename THEN {"name"} ELSE {}
             set == Versioned(told, v)
             rows == Owned(db, "instances", OwnerId(e), [openstack_id |-> s])
  <1>1. /\ UserRow(db, e) # {}
        /\ Change(Update(db, "instances", rows, UpdateBuilder("instances", set, {})))
    BY DEF UpdateInstanceMetadata
  <1>2. "instances" \in OwnedTables
    BY DEF OwnedTables
  <1>3. rows = {r \in db["instances"] :
                   Matches(r, [openstack_id |-> s]) /\ EmailOf(db, "instances", r) = e}
    BY <1>1, <1>2, OwnedRows
  <1>4. rows = {r \in db["instances"] :
                   r["openstack_id"] = s /\ EmailOf(db, "instances", r) = e}
    BY <1>3 DEF Matches
  <1>5. DOMAIN set = told /\ \A c \in told : set[c] = Value(c, v)
    BY DEF Versioned
  <1> HIDE DEF set, rows
  <1>6. DOMAIN set \subseteq Settable("instances")
    BY <1>5 DEF Settable, UpdateSetters, InstanceUpdateSetters, InstanceSetters, Mutable,
           InstanceServer, InstanceChoices, InstanceTimes, Updated, InstanceUpdate,
           RowColumns, Columns, InstanceColumns
  <1>7. \A x, y \in rows : x = y
    BY <1>4, OneRow
  <1>8. /\ \A u \in Tables \ {"instances"} : db'[u] = db[u]
        /\ \E o \in rows : \E n : /\ db'["instances"] = (db["instances"] \ {o}) \cup {n}
                                  /\ RowUpdated("instances", o, set, {}, n)
        /\ Intact(db', made') /\ Lasts(db, "users", db')
    <2>1. PICK cleared : cleared = {}
      OBVIOUS
    <2>2. /\ cleared \subseteq Clearers["instances"] \cap RowColumns("instances")
          /\ cleared \cap DOMAIN set = {}
      BY <2>1
    <2>3. Change(Update(db, "instances", rows, UpdateBuilder("instances", set, cleared)))
      BY <1>1, <2>1
    <2>4. /\ \A u \in Tables \ {"instances"} : db'[u] = db[u]
          /\ \E o \in rows : \E n : /\ db'["instances"] = (db["instances"] \ {o}) \cup {n}
                                    /\ RowUpdated("instances", o, set, cleared, n)
          /\ Intact(db', made') /\ Lasts(db, "users", db')
      BY <1>6, <1>7, <2>2, <2>3, Updates
    <2>5. QED
      BY <2>1, <2>4
  <1>9. PICK o \in rows : \E n : /\ db'["instances"] = (db["instances"] \ {o}) \cup {n}
                                 /\ RowUpdated("instances", o, set, {}, n)
    BY <1>8
  <1>10. PICK n : /\ db'["instances"] = (db["instances"] \ {o}) \cup {n}
                  /\ RowUpdated("instances", o, set, {}, n)
    BY <1>9
  <1>11. o \in db["instances"] /\ o["openstack_id"] = s /\ EmailOf(db, "instances", o) = e
    BY <1>4
  <1>12. /\ \A c \in told : n[c] = Value(c, v)
         /\ \A c \in {"openstack_id", "name", "status", "image_id", "flavor_id",
                      "provider_created_at", "user_instances"} \ told : n[c] = o[c]
    <2>1. {"openstack_id", "name", "status", "image_id", "flavor_id", "provider_created_at",
           "user_instances"} \subseteq RowColumns("instances")
      BY DEF RowColumns, Columns, InstanceColumns, ForeignKeys, InstanceForeignKeys
    <2>2. QED
      BY <1>5, <1>10, <2>1 DEF RowUpdated
  <1>13. InstanceRows(db, s) = {o}
    BY <1>11, InstanceOfRow DEF InstanceRows
  <1>14. /\ InstanceRows(db', s) = {n}
         /\ \A x : x # s => InstanceRows(db', x) = InstanceRows(db, x)
    BY <1>10, <1>11, <1>12, <1>13 DEF InstanceRows
  <1>15. EmailOf(db', "instances", n) = e
    <2>1. n["user_instances"] = o["user_instances"] /\ n \in db'["instances"]
          /\ OwnerColumn("instances") = "user_instances"
      BY <1>10, <1>12 DEF OwnerColumn, Loads, InstanceLoads
    <2>2. EmailOf(db', "instances", n) = EmailOf(db, "instances", o)
      BY <1>2, <1>8, <1>11, <2>1, OwnersStay
    <2>3. QED
      BY <1>11, <2>2
  <1>16. /\ InstanceRecord(db', n) =
               [owner |-> e,
                name |-> IF rename THEN v ELSE InstanceRecord(db, o).name,
                note |-> v, rest |-> InstanceRecord(db, o).rest]
         /\ InstanceRecord(db, o).owner = e /\ InstanceRecord(db, o) # None
    <2>1. \A c \in told : Version(n[c]) = v
      BY <1>12, VersionOfValue DEF Tables, Columns, InstanceColumns
    <2>2. Together(n, {"key_name", "note"}) = v
      BY <2>1, TogetherFacts
    <2>3. Together(n, {"status", "image_id", "flavor_id", "provider_created_at"}) =
              Together(o, {"status", "image_id", "flavor_id", "provider_created_at"})
      BY <1>12, TogetherFacts
    <2>4. Version(n["name"]) = IF rename THEN v ELSE Version(o["name"])
      BY <1>12, <2>1
    <2>5. QED
      BY <1>11, <1>15, <2>2, <2>3, <2>4 DEF InstanceRecord, None
  <1>17. /\ InstanceIn(db, s) = InstanceRecord(db, o)
         /\ InstanceIn(db', s) = InstanceRecord(db', n)
         /\ \A x : x # s => InstanceIn(db', x) = InstanceIn(db, x)
    BY <1>8, <1>13, <1>14, InstanceOfRow, SameRows
  <1>18. Abstract!Patch(e, s, v, rename)
    <2>1. None = Abstract!NoRecord
      BY DEF None, Abstract!NoRecord
    <2>2. instance[s] = InstanceRecord(db, o)
      BY <1>17 DEF instance
    <2>3. instance' = [instance EXCEPT ![s] =
              [owner |-> e, name |-> IF rename THEN v ELSE instance[s].name, note |-> v,
               rest |-> instance[s].rest]]
      <3>1. PICK new : new = InstanceRecord(db', n)
        OBVIOUS
      <3>2. instance' = [instance EXCEPT ![s] = new]
        BY <1>17, <3>1 DEF instance
      <3>3. QED
        BY <1>16, <2>2, <3>1, <3>2
    <2>4. QED
      BY <1>16, <2>1, <2>2, <2>3 DEF Abstract!Patch
  <1>19. UNCHANGED <<account, app, keypair, container, function>>
    BY <1>8, OthersStay DEF Tables
  <1>20. Abstract!Step
    BY <1>18, <1>19, OneKind DEF Abstract!Instances
  <1>21. Within(db')
    BY <1>8, <1>10, <1>11, <1>12 DEF Within, Tables
  <1>22. QED
    BY <1>20, <1>21

\* Function row o, named n and owned by e, is updated to r, and the rest stays.
FunctionUpdated(e, n, o, r, set, cleared) ==
    /\ RowUpdated("functions", o, set, cleared, r)
    /\ FunctionIn(db, e, n) = FunctionRecord(o)
    /\ FunctionIn(db', e, n) = FunctionRecord(r)
    /\ \A x, m : x # e \/ m # n => FunctionIn(db', x, m) = FunctionIn(db, x, m)

\* A change of a function is one of the function's columns.
LEMMA UpdateFunctionRecords ==
    ASSUME Intact(db, made), StoreStep, Within(db), db' # db, NEW e \in Emails, NEW f,
           NEW set, NEW cleared,
           DOMAIN set \subseteq {"wasm", "language", "data_mode", "source"} \cup KeyFields,
           cleared \subseteq KeyFields, cleared \cap DOMAIN set = {},
           UpdateFunction(e, f, set, cleared)
    PROVE  /\ \E n \in Names : \E o, r : FunctionUpdated(e, n, o, r, set, cleared)
           /\ UNCHANGED <<account, instance, app, keypair, container>>
           /\ Within(db')
  <1> DEFINE rows == Owned(db, "functions", OwnerId(e), [id |-> f])
  <1>1. /\ UserRow(db, e) # {}
        /\ Change(UpdateOne(db, "functions", rows, UpdateBuilder("functions", set, cleared)))
    BY DEF UpdateFunction
  <1>2. \A x, y \in rows : x = y
    BY <1>1, FunctionById
  <1>3. /\ DOMAIN set \subseteq Settable("functions")
        /\ cleared \subseteq Clearers["functions"] \cap RowColumns("functions")
    BY DEF KeyFields, Settable, UpdateSetters, FunctionUpdateSetters, FunctionSetters, Mutable,
           FunctionFields, FunctionNillable, FunctionTimes, Updated, FunctionUpdate,
           RowColumns, Columns, FunctionColumns, Clearers, FunctionClearers
  <1>4. /\ \A u \in Tables \ {"functions"} : db'[u] = db[u]
        /\ \E o \in rows : \E r : /\ db'["functions"] = (db["functions"] \ {o}) \cup {r}
                                  /\ RowUpdated("functions", o, set, cleared, r)
        /\ Intact(db', made') /\ Lasts(db, "users", db')
    <2> HIDE DEF rows
    <2>1. QED
      BY <1>1, <1>2, <1>3, Updates
  <1>5. PICK o \in rows : \E r : /\ db'["functions"] = (db["functions"] \ {o}) \cup {r}
                                 /\ RowUpdated("functions", o, set, cleared, r)
    BY <1>4
  <1>6. PICK r : /\ db'["functions"] = (db["functions"] \ {o}) \cup {r}
                 /\ RowUpdated("functions", o, set, cleared, r)
    BY <1>5
  <1>7. /\ o["name"] \in Names
        /\ o \in NamedRows(db, "functions", e, o["name"])
        /\ NamedRows(db, "functions", e, o["name"]) = {o}
    BY <1>1, FunctionById
  <1>8. PICK n \in Names : n = o["name"]
    BY <1>7
  <1> HIDE DEF rows
  <1>9. r["name"] = o["name"] /\ r["user_functions"] = o["user_functions"]
    <2>1. {"name", "user_functions"} \subseteq
            RowColumns("functions")
              \ ({"wasm", "language", "data_mode", "source", "updated_at"} \cup KeyFields)
      BY DEF RowColumns, Columns, FunctionColumns, ForeignKeys, FunctionForeignKeys, KeyFields
    <2>2. QED
      BY <1>6, <2>1 DEF RowUpdated
  <1>10. "functions" \in OwnedTables /\ OwnerColumn("functions") = "user_functions"
    BY DEF OwnedTables, OwnerColumn, Loads, FunctionLoads
  <1>11. o \in db["functions"] /\ EmailOf(db, "functions", o) = e
    BY <1>7 DEF NamedRows
  <1>12. EmailOf(db', "functions", r) = e
    <2>1. r \in db'["functions"]
      BY <1>6
    <2>2. EmailOf(db', "functions", r) = EmailOf(db, "functions", o)
      BY <1>4, <1>9, <1>10, <1>11, <2>1, OwnersStay
    <2>3. QED
      BY <1>11, <2>2
  <1>13. \A x \in db["functions"] \cap db'["functions"] :
             EmailOf(db', "functions", x) = EmailOf(db, "functions", x)
    BY <1>4, <1>10, OwnersStay
  <1>14. NamedRows(db', "functions", e, n) = {r}
    <2>1. r \in NamedRows(db', "functions", e, n)
      BY <1>6, <1>8, <1>9, <1>12 DEF NamedRows
    <2>2. QED
      BY <1>4, <2>1, NamedRow
  <1>15. ASSUME NEW x, NEW m, x # e \/ m # n
         PROVE  NamedRows(db', "functions", x, m) = NamedRows(db, "functions", x, m)
    <2>1. /\ o \notin NamedRows(db, "functions", x, m)
          /\ r \notin NamedRows(db', "functions", x, m)
      BY <1>8, <1>9, <1>11, <1>12, <1>15 DEF NamedRows
    <2>2. \A y : y \in db'["functions"] /\ y # r => y \in db["functions"]
      BY <1>6
    <2>3. \A y : y \in db["functions"] /\ y # o => y \in db'["functions"]
      BY <1>6
    <2>4. ASSUME NEW y
          PROVE  y \in NamedRows(db', "functions", x, m) <=> y \in NamedRows(db, "functions", x, m)
      BY <1>13, <2>1, <2>2, <2>3 DEF NamedRows
    <2>5. QED
      BY <2>4
  <1>16. /\ FunctionIn(db, e, n) = FunctionRecord(o)
         /\ FunctionIn(db', e, n) = FunctionRecord(r)
         /\ \A x, m : x # e \/ m # n => FunctionIn(db', x, m) = FunctionIn(db, x, m)
    <2>1. o \in NamedRows(db, "functions", e, n) /\ r \in NamedRows(db', "functions", e, n)
      BY <1>7, <1>8, <1>14
    <2>2. /\ FunctionIn(db, e, n) = FunctionRecord(o)
          /\ FunctionIn(db', e, n) = FunctionRecord(r)
      BY <1>4, <2>1, FunctionOfRow
    <2>3. \A x, m : x # e \/ m # n => FunctionIn(db', x, m) = FunctionIn(db, x, m)
      BY <1>4, <1>15, SameRows
    <2>4. QED
      BY <2>2, <2>3
  <1>17. FunctionUpdated(e, n, o, r, set, cleared)
    BY <1>6, <1>16 DEF FunctionUpdated
  <1>18. UNCHANGED <<account, instance, app, keypair, container>>
    BY <1>4, OthersStay DEF Tables
  <1>19. Within(db')
    BY <1>4, <1>6, <1>8, <1>9 DEF Within, Tables
  <1>20. QED
    BY <1>17, <1>18, <1>19

\* The deployment of a function is replaced, its key stays.
LEMMA UpdateDeploymentRecords ==
    ASSUME Intact(db, made), StoreStep, Within(db), db' # db, NEW e \in Emails, NEW f,
           NEW v \in Versions, UpdateDeployment(e, f, v)
    PROVE  Abstract!Step /\ Within(db')
  <1> DEFINE deployed == {"wasm", "language", "data_mode", "source"}
  <1>1. PICK set : set = Deployment(v)
    OBVIOUS
  <1>2. PICK cleared : cleared = {}
    OBVIOUS
  <1>3. DOMAIN set = deployed /\ \A c \in deployed : set[c] = Value(c, v)
    BY <1>1 DEF Deployment, Versioned
  <1>4. UpdateFunction(e, f, set, cleared)
    BY <1>1, <1>2 DEF UpdateDeployment
  <1>5. /\ \E n \in Names : \E o, r : FunctionUpdated(e, n, o, r, set, cleared)
        /\ UNCHANGED <<account, instance, app, keypair, container>>
        /\ Within(db')
    BY <1>2, <1>3, <1>4, UpdateFunctionRecords
  <1>6. PICK n \in Names : \E o, r : FunctionUpdated(e, n, o, r, set, cleared)
    BY <1>5
  <1>7. PICK o, r : FunctionUpdated(e, n, o, r, set, cleared)
    BY <1>6
  <1>8. (\A c \in deployed : r[c] = Value(c, v)) /\ \A c \in KeyFields : r[c] = o[c]
    <2>1. KeyFields \subseteq RowColumns("functions") \ (deployed \cup {"updated_at"})
      BY DEF KeyFields, RowColumns, Columns, FunctionColumns
    <2>2. QED
      BY <1>2, <1>3, <1>7, <2>1 DEF FunctionUpdated, RowUpdated
  <1>9. FunctionRecord(r) = [FunctionRecord(o) EXCEPT !.deployment = v]
    <2>1. \A c \in deployed : Version(r[c]) = v
      BY <1>8, VersionOfValue DEF Tables, Columns, FunctionColumns
    <2>2. Together(r, deployed) = v
      BY <2>1, TogetherFacts
    <2>3. Together(r, KeyFields) = Together(o, KeyFields)
      BY <1>8, TogetherFacts
    <2>4. QED
      BY <2>2, <2>3 DEF FunctionRecord
  <1>10. Abstract!Redeploy(e, n, v)
    <2>1. None = Abstract!NoRecord
      BY DEF None, Abstract!NoRecord
    <2>2. function[e][n] = FunctionRecord(o)
      BY <1>7 DEF function, FunctionUpdated
    <2>3. function[e][n] # None
      BY <2>2 DEF FunctionRecord, None
    <2>4. function' = [function EXCEPT ![e][n].deployment = v]
      <3>1. PICK new : new = FunctionRecord(r)
        OBVIOUS
      <3>2. function' = [function EXCEPT ![e][n] = new]
        BY <1>7, <3>1 DEF function, FunctionUpdated
      <3>3. new = [function[e][n] EXCEPT !.deployment = v]
        BY <1>9, <2>2, <3>1
      <3>4. QED
        BY <3>2, <3>3
    <2>5. QED
      BY <2>1, <2>3, <2>4 DEF Abstract!Redeploy
  <1>11. QED
    BY <1>5, <1>10, OneKind DEF Abstract!Functions

\* The key of a function is replaced or cleared, its deployment stays.
LEMMA ChangeKeyRecords ==
    ASSUME Intact(db, made), StoreStep, Within(db), db' # db, NEW e \in Emails, NEW f,
           NEW k \in Versions \cup {Null},
           \/ k \in Versions /\ SetKey(e, f, k)
           \/ k = Null /\ DeleteKey(e, f)
    PROVE  Abstract!Step /\ Within(db')
  <1>1. PICK set, cleared :
            /\ UpdateFunction(e, f, set, cleared)
            /\ DOMAIN set \cap cleared = {} /\ DOMAIN set \cup cleared = KeyFields
            /\ \A c \in DOMAIN set : k \in Versions /\ set[c] = Value(c, k)
            /\ cleared # {} => k = Null
    <2>1. CASE k \in Versions /\ SetKey(e, f, k)
      <3>1. /\ DOMAIN Versioned(KeyFields, k) = KeyFields
            /\ \A c \in KeyFields : Versioned(KeyFields, k)[c] = Value(c, k)
        BY DEF Versioned
      <3>2. UpdateFunction(e, f, Versioned(KeyFields, k), {})
        BY <2>1 DEF SetKey
      <3>3. QED
        BY <2>1, <3>1, <3>2
    <2>2. CASE k = Null /\ DeleteKey(e, f)
      <3>1. UpdateFunction(e, f, None, KeyFields) /\ DOMAIN None = {}
        BY <2>2 DEF DeleteKey, None
      <3>2. QED
        BY <2>2, <3>1
    <2>3. QED
      BY <2>1, <2>2
  <1>2. /\ \E n \in Names : \E o, r : FunctionUpdated(e, n, o, r, set, cleared)
        /\ UNCHANGED <<account, instance, app, keypair, container>>
        /\ Within(db')
    BY <1>1, UpdateFunctionRecords
  <1>3. PICK n \in Names : \E o, r : FunctionUpdated(e, n, o, r, set, cleared)
    BY <1>2
  <1>4. PICK o, r : FunctionUpdated(e, n, o, r, set, cleared)
    BY <1>3
  <1>5. \A c \in KeyFields : Version(r[c]) = k
    <2>1. ASSUME NEW c \in cleared PROVE Version(r[c]) = k
      BY <1>1, <1>4 DEF FunctionUpdated, RowUpdated, Version
    <2>2. ASSUME NEW c \in DOMAIN set PROVE Version(r[c]) = k
      <3>1. r[c] = Value(c, k) /\ k \in Versions /\ c \in KeyFields
        BY <1>1, <1>4 DEF FunctionUpdated, RowUpdated
      <3>2. c \in Columns["functions"] /\ "functions" \in Tables
        BY <3>1 DEF KeyFields, Columns, FunctionColumns, Tables
      <3>3. QED
        BY <3>1, <3>2, VersionOfValue
    <2>3. QED
      BY <1>1, <2>1, <2>2
  <1>6. \A c \in {"wasm", "language", "data_mode", "source"} : r[c] = o[c]
    <2>1. {"wasm", "language", "data_mode", "source"} \subseteq
              RowColumns("functions") \ (KeyFields \cup {"updated_at"})
      BY DEF KeyFields, RowColumns, Columns, FunctionColumns
    <2>2. QED
      BY <1>1, <1>4, <2>1 DEF FunctionUpdated, RowUpdated
  <1>7. FunctionRecord(r) = [FunctionRecord(o) EXCEPT !.key = k]
    <2>1. KeyFields # {}
      BY DEF KeyFields
    <2>2. Together(r, KeyFields) = k
      BY <1>5, <2>1, TogetherFacts
    <2>3. Together(r, {"wasm", "language", "data_mode", "source"}) =
              Together(o, {"wasm", "language", "data_mode", "source"})
      BY <1>6, TogetherFacts
    <2>4. QED
      BY <2>2, <2>3 DEF FunctionRecord
  <1>8. Abstract!ChangeKey(e, n, k)
    <2>1. None = Abstract!NoRecord
      BY DEF None, Abstract!NoRecord
    <2>2. function[e][n] = FunctionRecord(o)
      BY <1>4 DEF function, FunctionUpdated
    <2>3. function[e][n] # None
      BY <2>2 DEF FunctionRecord, None
    <2>4. function' = [function EXCEPT ![e][n].key = k]
      <3>1. PICK new : new = FunctionRecord(r)
        OBVIOUS
      <3>2. function' = [function EXCEPT ![e][n] = new]
        BY <1>4, <3>1 DEF function, FunctionUpdated
      <3>3. new = [function[e][n] EXCEPT !.key = k]
        BY <1>7, <2>2, <3>1
      <3>4. QED
        BY <3>2, <3>3
    <2>5. QED
      BY <2>1, <2>3, <2>4 DEF Abstract!ChangeKey
  <1>9. QED
    BY <1>2, <1>8, OneKind DEF Abstract!Functions

-----------------------------------------------------------------------------
(* Records: logins.                                                        *)

\* What an upsert does to the accounts: nothing, one more row, or a row that takes what is
\* set on a conflict.
LEMMA UpsertOutcome ==
    ASSUME NEW d, NEW m, Intact(d, m), NEW mu, NEW k, NEW r, r = NewRow("users", mu, k),
           NEW set, NEW e, e = Upsert(d, "users", mu, k, {"email"}, set).db, e # d
    PROVE  /\ \A t \in Tables \ {"users"} : e[t] = d[t]
           /\ \/ /\ AccountRows(d, r["email"]) = {}
                 /\ e["users"] = d["users"] \cup {r}
              \/ \E o \in AccountRows(d, r["email"]) : \E n :
                    n = Override(o, set) /\ e["users"] = (d["users"] \ {o}) \cup {n}
  <1> DEFINE same == {o \in d["users"] : \A c \in {"email"} : o[c] = r[c]}
             new == {Override(o, set) : o \in same}
  <1>1. same = AccountRows(d, r["email"])
    BY DEF AccountRows
  <1>2. "users" \in Tables /\ d = [t \in Tables |-> d[t]]
    BY DEF Tables, Intact
  <1>3. CASE same = {}
    <2>1. e = Insert(d, "users", mu, k).db
      BY <1>3 DEF Upsert, Failed
    <2> HIDE DEF same, new
    <2>2. PICK t : t = "users"
      OBVIOUS
    <2>3. e = Insert(d, t, mu, k).db /\ r = NewRow(t, mu, k)
      BY <2>1, <2>2
    <2>4. e = [d EXCEPT ![t] = @ \cup {r}]
      BY <2>3 DEF Insert, Failed, Done
    <2>5. e = [d EXCEPT !["users"] = @ \cup {r}]
      BY <2>2, <2>4
    <2>6. QED
      BY <1>1, <1>2, <1>3, <2>5
  <1>4. ASSUME NEW o \in same
        PROVE  /\ \A t \in Tables \ {"users"} : e[t] = d[t]
               /\ \E n : n = Override(o, set) /\ e["users"] = (d["users"] \ {o}) \cup {n}
    <2>1. e = [d EXCEPT !["users"] = (@ \ same) \cup new]
      <3>1. same # {}
        OBVIOUS
      <3>2. QED
        BY <3>1 DEF Upsert, Failed, Done
    <2>2. same = {o}
      <3> HIDE DEF same
      <3>1. QED
        BY <1>1, AccountOfRow
    <2>3. PICK n : n = Override(o, set)
      OBVIOUS
    <2>4. new = {n}
      <3> HIDE DEF same
      <3>1. QED
        BY <2>2, <2>3
    <2> HIDE DEF same, new
    <2>5. /\ e["users"] = (d["users"] \ {o}) \cup {n}
          /\ \A t \in Tables \ {"users"} : e[t] = d[t]
      BY <1>2, <2>1, <2>2, <2>4
    <2>6. QED
      BY <2>3, <2>5
  <1> HIDE DEF same
  <1>5. QED
    BY <1>1, <1>3, <1>4

\* The row of account e after a login with Google identity g and the values of version v:
\* the refresh token and the session are new ones or those of before.
LoginRow(e, g, v, n) ==
    LET old == AccountRows(db, e) IN
    /\ n["email"] = e /\ n["google_id"] = g
    /\ \A c \in {"name", "google_access_token", "google_token_expiry"} : n[c] = Value(c, v)
    /\ \/ \E w \in Versions : n["google_refresh_token"] = Value("google_refresh_token", w)
       \/ old = {} /\ n["google_refresh_token"] = Empty
       \/ \E o \in old : n["google_refresh_token"] = o["google_refresh_token"]
    /\ \/ n["current_refresh_jti"] \in Jtis
       \/ old = {} /\ n["current_refresh_jti"] = Null
       \/ \E o \in old : n["current_refresh_jti"] = o["current_refresh_jti"]

\* The columns of the row that a login makes out of nothing.
LEMMA NewUserColumns ==
    ASSUME NEW set, NEW n, NEW r,
           r = NewRow("users", CreateBuilder("users", set, NoEdge), n)
    PROVE  /\ DOMAIN set \subseteq {"name", "google_access_token", "google_token_expiry",
                                    "google_id", "google_refresh_token", "email",
                                    "current_refresh_jti"}
              => \A c \in DOMAIN set : r[c] = set[c]
           /\ "current_refresh_jti" \notin DOMAIN set => r["current_refresh_jti"] = Null
  <1>1. {"name", "google_access_token", "google_token_expiry", "google_id",
         "google_refresh_token", "email", "current_refresh_jti"}
            \subseteq CreateSetters["users"] \cap Mutable["users"] \cap Inserted["users"]
                          \cap RowColumns("users")
    BY DEF CreateSetters, UserSetters, Mutable, UserProfile, UserTokens, UserJti, UserTimes,
           Inserted, UserInsert, RowColumns, Columns, UserColumns
  <1>2. /\ "current_refresh_jti" \in RowColumns("users") \cap Mutable["users"]
        /\ "current_refresh_jti" \notin DOMAIN CreateDefaults(n)["users"]
    BY DEF RowColumns, Columns, UserColumns, Mutable, UserJti, CreateDefaults, UserDefaults
  <1>3. PICK edge, t : edge = NoEdge /\ t = "users"
    OBVIOUS
  <1>4. DOMAIN edge = {} /\ t \in Tables
    BY <1>3 DEF NoEdge, Tables
  <1>5. r = NewRow(t, CreateBuilder(t, set, edge), n)
    BY <1>3
  <1>6. \A c \in DOMAIN set : c \in CreateSetters[t] \cap Mutable[t] \cap Inserted[t]
                                  /\ c \in RowColumns(t)
                                  => r[c] = set[c]
    BY <1>4, <1>5, NewRowColumns
  <1>7. \A c \in RowColumns(t) :
            c \notin DOMAIN set \cup DOMAIN CreateDefaults(n)[t] /\ c \in Mutable[t]
            => r[c] = Null
    BY <1>4, <1>5, NewRowColumns
  <1>8. QED
    BY <1>1, <1>2, <1>3, <1>6, <1>7

\* A login makes that row out of the one of before, or out of nothing.
LEMMA UpsertUserRow ==
    ASSUME Intact(db, made), StoreStep, db' # db, NEW e \in Emails, NEW g \in GoogleIds,
           NEW v \in Versions, NEW refresh \in {v, Empty}, NEW jti \in Jtis \cup {Null},
           UpsertUser(e, g, v, refresh, jti)
    PROVE  /\ \A t \in Tables \ {"users"} : db'[t] = db[t]
           /\ \E n : /\ db'["users"] = (db["users"] \ AccountRows(db, e)) \cup {n}
                     /\ LoginRow(e, g, v, n)
  <1> DEFINE told == {"name", "google_access_token", "google_token_expiry"}
             tokenValue == IF refresh = Empty THEN Empty
                           ELSE Value("google_refresh_token", refresh)
             token == Pick("google_refresh_token", tokenValue)
             profile == Versioned(told, v)
             google == Pick("google_id", g)
             set == Override(profile, google)
             current == IF jti = Null THEN None ELSE Pick("current_refresh_jti", jti)
             email == Pick("email", e)
             new == Override(Override(Override(set, token), current), email)
             kept == IF refresh = Empty THEN None ELSE token
             onConflict == Override(Override(Override(set, kept), current), UpdateDefaults)
             mu == CreateBuilder("users", new, NoEdge)
             some == OnlyIn(onConflict, UserUpsertSetters)
             r == NewRow("users", mu, made["users"] + 1)
  <1>1. db' = Upsert(db, "users", mu, made["users"] + 1, {"email"}, some).db
    BY DEF UpsertUser, Create, Commit
  <1>2. /\ DOMAIN profile = told /\ \A c \in told : profile[c] = Value(c, v)
        /\ DOMAIN google = {"google_id"} /\ google["google_id"] = g
        /\ DOMAIN token = {"google_refresh_token"}
        /\ token["google_refresh_token"] = tokenValue
        /\ DOMAIN email = {"email"} /\ email["email"] = e
    BY DEF Versioned, Pick
  <1>3. /\ DOMAIN current = IF jti = Null THEN {} ELSE {"current_refresh_jti"}
        /\ jti # Null => current["current_refresh_jti"] = jti
    BY DEF Pick, None
  <1>4. /\ refresh = Empty => DOMAIN kept = {}
        /\ refresh # Empty => kept = token
    BY DEF None
  <1>5. /\ refresh = Empty => tokenValue = Empty
        /\ refresh # Empty => \E w \in Versions : tokenValue = Value("google_refresh_token", w)
    OBVIOUS
  <1> HIDE DEF profile, google, token, email, current, kept, tokenValue
  <1>6. /\ DOMAIN set = told \cup {"google_id"} /\ set["google_id"] = g
        /\ \A c \in told : set[c] = Value(c, v)
    BY <1>2 DEF Override
  <1> HIDE DEF set
  <1>7. /\ DOMAIN new = told \cup {"google_id", "google_refresh_token", "email"}
                            \cup DOMAIN current
        /\ new["email"] = e /\ new["google_id"] = g
        /\ \A c \in told : new[c] = Value(c, v)
        /\ new["google_refresh_token"] = tokenValue
        /\ jti # Null => new["current_refresh_jti"] = jti
    <2> DEFINE a == Override(set, token)
               b == Override(a, current)
    <2>1. /\ DOMAIN a = told \cup {"google_id", "google_refresh_token"}
          /\ a["google_id"] = g /\ (\A c \in told : a[c] = Value(c, v))
          /\ a["google_refresh_token"] = tokenValue
      BY <1>2, <1>6 DEF Override
    <2>2. new = Override(b, email) /\ b = Override(a, current)
      OBVIOUS
    <2> HIDE DEF a, b, new
    <2>3. /\ DOMAIN b = told \cup {"google_id", "google_refresh_token"} \cup DOMAIN current
          /\ b["google_id"] = g /\ (\A c \in told : b[c] = Value(c, v))
          /\ b["google_refresh_token"] = tokenValue
          /\ jti # Null => b["current_refresh_jti"] = jti
      BY <1>3, <2>1, <2>2 DEF Override
    <2>4. QED
      BY <1>2, <1>3, <2>2, <2>3 DEF Override
  <1>8. /\ DOMAIN onConflict = told \cup {"google_id", "updated_at"}
                                   \cup DOMAIN kept \cup DOMAIN current
        /\ onConflict["google_id"] = g
        /\ \A c \in told : onConflict[c] = Value(c, v)
        /\ refresh # Empty => onConflict["google_refresh_token"] = tokenValue
        /\ jti # Null => onConflict["current_refresh_jti"] = jti
    <2> DEFINE a == Override(set, kept)
               b == Override(a, current)
    <2>1. /\ DOMAIN a = told \cup {"google_id"} \cup DOMAIN kept
          /\ a["google_id"] = g /\ (\A c \in told : a[c] = Value(c, v))
          /\ refresh # Empty => a["google_refresh_token"] = tokenValue
      BY <1>2, <1>4, <1>6 DEF Override
    <2>2. onConflict = Override(b, UpdateDefaults) /\ b = Override(a, current)
      OBVIOUS
    <2>3. refresh # Empty => DOMAIN kept = {"google_refresh_token"}
      BY <1>2, <1>4
    <2>4. DOMAIN UpdateDefaults = {"updated_at"}
      BY DEF UpdateDefaults
    <2> HIDE DEF a, b, onConflict
    <2>5. /\ DOMAIN b = told \cup {"google_id"} \cup DOMAIN kept \cup DOMAIN current
          /\ b["google_id"] = g /\ (\A c \in told : b[c] = Value(c, v))
          /\ refresh # Empty => b["google_refresh_token"] = tokenValue
          /\ jti # Null => b["current_refresh_jti"] = jti
      BY <1>3, <2>1, <2>2, <2>3 DEF Override
    <2>6. QED
      BY <1>3, <2>2, <2>3, <2>4, <2>5 DEF Override
  <1> HIDE DEF new, onConflict
  <1>10. some = OnlyIn(onConflict, UserUpsertSetters)
    OBVIOUS
  <1>11. r = NewRow("users", CreateBuilder("users", new, NoEdge), made["users"] + 1)
    OBVIOUS
  <1> HIDE DEF some, r
  <1>15. \A c \in DOMAIN new : r[c] = new[c]
    <2>1. DOMAIN new \subseteq told \cup {"google_id", "google_refresh_token", "email",
                                          "current_refresh_jti"}
      BY <1>3, <1>7
    <2>2. QED
      BY <1>11, <2>1, NewUserColumns
  <1>16. jti = Null => r["current_refresh_jti"] = Null
    <2>1. jti = Null => "current_refresh_jti" \notin DOMAIN new
      BY <1>3, <1>7
    <2>2. QED
      BY <1>11, <2>1, NewUserColumns
  <1>17. r["email"] = e
    BY <1>7, <1>15
  <1>18. /\ \A t \in Tables \ {"users"} : db'[t] = db[t]
         /\ \/ /\ AccountRows(db, e) = {}
               /\ db'["users"] = db["users"] \cup {r}
            \/ \E o \in AccountRows(db, e) : \E n :
                  /\ n = Override(o, some)
                  /\ db'["users"] = (db["users"] \ {o}) \cup {n}
    <2>1. PICK x : x = Upsert(db, "users", mu, made["users"] + 1, {"email"}, some).db
      OBVIOUS
    <2>2. x = db' /\ x # db
      BY <1>1, <2>1
    <2>3. PICK ma : ma = mu
      OBVIOUS
    <2>4. r = NewRow("users", ma, made["users"] + 1)
      BY <1>11, <2>3
    <2>5. x = Upsert(db, "users", ma, made["users"] + 1, {"email"}, some).db
      BY <2>1, <2>3
    <2> HIDE DEF mu
    <2>6. /\ \A t \in Tables \ {"users"} : x[t] = db[t]
          /\ \/ /\ AccountRows(db, r["email"]) = {}
                /\ x["users"] = db["users"] \cup {r}
             \/ \E o \in AccountRows(db, r["email"]) : \E n :
                   n = Override(o, some) /\ x["users"] = (db["users"] \ {o}) \cup {n}
      BY <2>2, <2>4, <2>5, UpsertOutcome
    <2>7. QED
      BY <1>17, <2>2, <2>6
  <1>19. CASE AccountRows(db, e) = {} /\ db'["users"] = db["users"] \cup {r}
    <2>1. LoginRow(e, g, v, r)
      <3>1. /\ r["google_id"] = g /\ \A c \in told : r[c] = Value(c, v)
            /\ r["google_refresh_token"] = tokenValue
            /\ jti # Null => r["current_refresh_jti"] = jti
        BY <1>3, <1>7, <1>15
      <3>2. QED
        BY <1>5, <1>16, <1>17, <1>19, <3>1 DEF LoginRow
    <2>2. QED
      BY <1>18, <1>19, <2>1
  <1>20. ASSUME NEW o \in AccountRows(db, e), NEW n, n = Override(o, some),
                db'["users"] = (db["users"] \ {o}) \cup {n}
         PROVE  \E x : /\ db'["users"] = (db["users"] \ AccountRows(db, e)) \cup {x}
                       /\ LoginRow(e, g, v, x)
    <2>1. /\ DOMAIN some = DOMAIN onConflict \cap UserUpsertSetters
          /\ \A c \in DOMAIN some : some[c] = onConflict[c]
      BY <1>10 DEF OnlyIn
    <2>2. told \cup {"google_id", "google_refresh_token", "current_refresh_jti"}
              \subseteq UserUpsertSetters
      BY DEF UserUpsertSetters
    <2>3. \A c \in DOMAIN onConflict \cap UserUpsertSetters : n[c] = onConflict[c]
      BY <1>20, <2>1 DEF Override
    <2>4. DOMAIN o = RowColumns("users")
      <3>1. RowOf("users", made["users"], o)
        BY DEF Intact, AccountRows, Tables
      <3>2. QED
        BY <3>1 DEF RowOf
    <2>5. {"email", "google_refresh_token", "current_refresh_jti"} \subseteq RowColumns("users")
      BY DEF RowColumns, Columns, UserColumns
    <2>6. \A c \in RowColumns("users") \ DOMAIN onConflict : n[c] = o[c]
      BY <1>20, <2>1, <2>4 DEF Override
    <2>7. n["email"] = e
      <3>1. "email" \notin DOMAIN onConflict
        BY <1>2, <1>3, <1>4, <1>8
      <3>2. QED
        BY <2>5, <2>6, <3>1 DEF AccountRows
    <2>8. n["google_id"] = g /\ \A c \in told : n[c] = Value(c, v)
      BY <1>8, <2>2, <2>3
    <2>9. refresh # Empty => n["google_refresh_token"] = tokenValue
      <3>1. refresh # Empty => "google_refresh_token" \in DOMAIN onConflict
        BY <1>2, <1>4, <1>8
      <3>2. QED
        BY <1>8, <2>2, <2>3, <3>1
    <2>10. refresh = Empty => n["google_refresh_token"] = o["google_refresh_token"]
      <3>1. refresh = Empty => "google_refresh_token" \notin DOMAIN onConflict
        BY <1>3, <1>4, <1>8
      <3>2. QED
        BY <2>5, <2>6, <3>1
    <2>11. jti # Null => n["current_refresh_jti"] = jti
      <3>1. jti # Null => "current_refresh_jti" \in DOMAIN onConflict
        BY <1>3, <1>8
      <3>2. QED
        BY <1>8, <2>2, <2>3, <3>1
    <2>12. jti = Null => n["current_refresh_jti"] = o["current_refresh_jti"]
      <3>1. jti = Null => "current_refresh_jti" \notin DOMAIN onConflict
        BY <1>2, <1>3, <1>4, <1>8
      <3>2. QED
        BY <2>5, <2>6, <3>1
    <2>13. AccountRows(db, e) = {o}
      BY AccountOfRow
    <2>14. LoginRow(e, g, v, n)
      BY <1>5, <2>7, <2>8, <2>9, <2>10, <2>11, <2>12 DEF LoginRow
    <2>15. QED
      BY <1>20, <2>13, <2>14
  <1>21. QED
    BY <1>18, <1>19, <1>20

\* A login.
LEMMA UpsertUserRecords ==
    ASSUME Intact(db, made), StoreStep, Within(db), db' # db, NEW e \in Emails,
           NEW g \in GoogleIds, NEW v \in Versions, NEW refresh \in {v, Empty},
           NEW jti \in Jtis \cup {Null}, UpsertUser(e, g, v, refresh, jti)
    PROVE  Abstract!Step /\ Within(db')
  <1>1. /\ \A t \in Tables \ {"users"} : db'[t] = db[t]
        /\ \E n : /\ db'["users"] = (db["users"] \ AccountRows(db, e)) \cup {n}
                  /\ LoginRow(e, g, v, n)
    BY UpsertUserRow
  <1>2. PICK n : /\ db'["users"] = (db["users"] \ AccountRows(db, e)) \cup {n}
                 /\ LoginRow(e, g, v, n)
    BY <1>1
  <1>3. Intact(db', made') /\ Lasts(db, "users", db')
    BY DEF StoreStep, KeepsRows
  <1>4. n["email"] = e /\ n["google_id"] = g
    BY <1>2 DEF LoginRow
  <1>5. /\ AccountRows(db', e) = {n}
        /\ \A x : x # e => AccountRows(db', x) = AccountRows(db, x)
    BY <1>2, <1>4 DEF AccountRows
  <1>6. /\ AccountIn(db', e) = AccountOf(n)
        /\ \A x : x # e => AccountIn(db', x) = AccountIn(db, x)
    BY <1>3, <1>5, AccountOfRow, SameRows
  <1>7. account' = [account EXCEPT ![e] = account'[e]] /\ account'[e] = AccountOf(n)
    BY <1>6 DEF account
  <1>8. None = Abstract!NoRecord
    BY DEF None, Abstract!NoRecord
  <1>9. Together(n, {"name", "google_access_token", "google_token_expiry"}) = v
    <2>1. \A c \in {"name", "google_access_token", "google_token_expiry"} : Version(n[c]) = v
      BY <1>2, VersionOfValue DEF LoginRow, Tables, Columns, UserColumns
    <2>2. QED
      BY <2>1, TogetherFacts
  <1>10. AccountOf(n) = [google_id |-> g, profile |-> v,
                         refresh |-> Version(n["google_refresh_token"]),
                         jti |-> n["current_refresh_jti"]]
    BY <1>4, <1>9 DEF AccountOf
  <1>11. /\ AccountRows(db, e) = {} => account[e] = None
         /\ \A o \in AccountRows(db, e) :
               /\ account[e] # None
               /\ account[e].refresh = Version(o["google_refresh_token"])
               /\ account[e].jti = o["current_refresh_jti"]
    <2>1. account[e] = AccountIn(db, e)
      BY DEF account
    <2>2. AccountRows(db, e) = {} => account[e] = None
      BY <2>1, AccountOfRow
    <2>3. ASSUME NEW o \in AccountRows(db, e)
          PROVE  /\ account[e] # None
                 /\ account[e].refresh = Version(o["google_refresh_token"])
                 /\ account[e].jti = o["current_refresh_jti"]
      <3>1. account[e] = AccountOf(o)
        BY <2>1, AccountOfRow
      <3>2. QED
        BY <3>1 DEF AccountOf, None
    <2>4. QED
      BY <2>2, <2>3
  <1>12. Version(n["google_refresh_token"]) \in
             Versions \cup {IF account[e] = None THEN Empty ELSE account[e].refresh}
    <2>1. ASSUME NEW w \in Versions,
                 n["google_refresh_token"] = Value("google_refresh_token", w)
          PROVE  Version(n["google_refresh_token"]) \in Versions
      BY <2>1, VersionOfValue DEF Tables, Columns, UserColumns
    <2>2. Version(Empty) = Empty
      BY DEF Version
    <2>3. QED
      BY <1>2, <1>11, <2>1, <2>2 DEF LoginRow
  <1>13. n["current_refresh_jti"] \in
             Jtis \cup {IF account[e] = None THEN Null ELSE account[e].jti}
    BY <1>2, <1>11 DEF LoginRow
  <1>14. ASSUME NEW o \in Emails \ {e}, account[o] # None
         PROVE  account[o].google_id # g
    <2>1. account[o] = AccountIn(db, o)
      BY DEF account
    <2>2. PICK x \in AccountRows(db, o) : TRUE
      BY <1>14, <2>1, AccountOfRow
    <2>3. account[o].google_id = x["google_id"]
      <3>1. account[o] = AccountOf(x)
        BY <2>1, AccountOfRow
      <3>2. QED
        BY <3>1 DEF AccountOf
    <2>4. x["email"] # e /\ x \in db'["users"] /\ n \in db'["users"]
      BY <1>2 DEF AccountRows
    <2>5. x["google_id"] # n["google_id"]
      BY <1>3, <1>4, <2>4, OneRow
    <2>6. QED
      BY <1>4, <2>3, <2>5
  <1>15. Abstract!Login(e)
    <2>1. AccountOf(n) \in
              [google_id : GoogleIds, profile : Versions,
               refresh : Versions \cup {IF account[e] = None THEN Empty
                                        ELSE account[e].refresh},
               jti : Jtis \cup {IF account[e] = None THEN Null ELSE account[e].jti}]
      BY <1>10, <1>12, <1>13
    <2>2. AccountOf(n).google_id = g
      BY <1>10
    <2>3. QED
      BY <1>7, <1>8, <1>14, <2>1, <2>2 DEF Abstract!Login
  <1>16. UNCHANGED <<instance, app, keypair, container, function>>
    BY <1>1, OthersStay DEF Tables
  <1>17. Abstract!Step
    BY <1>15, <1>16, OneKind DEF Abstract!Accounts
  <1>18. Within(db')
    BY <1>1, <1>2, <1>4 DEF Within, Tables
  <1>19. QED
    BY <1>17, <1>18

-----------------------------------------------------------------------------
(* Records: all writes together.                                           *)

\* The writes of the repositories.
AllWrites == AccountWrites \/ ComputeWrites \/ KeyWrites \/ ContainerWrites \/ FunctionWrites

\* They are requests.
LEMMA AllAreRequests ==
    ASSUME AllWrites
    PROVE  Request
  <1>1. CASE ComputeWrites
    BY <1>1 DEF ComputeWrites, Request
  <1>2. QED
    BY <1>1, WritesAreRequests DEF AllWrites

\* The writes of the run are among them.
LEMMA RunWrites ==
    ASSUME Within(db), \/ AllWrites \/ SignUp \/ Compute \/ SomeInstances \/ SomeApps
                       \/ SomeKeys \/ SomeFunctions \/ SomeOfAll
    PROVE  AllWrites
  <1>1. 1 \in Versions /\ 2 \in Versions
    BY MCStoreAssumption
  <1>2. CASE SignUp
    <2>1. PICK e \in Emails, g \in GoogleIds : UpsertUser(e, g, 1, 1, Null)
      BY <1>2 DEF SignUp
    <2>2. QED
      BY <1>1, <2>1 DEF AccountWrites, AllWrites
  <1>3. CASE Compute
    BY <1>1, <1>3 DEF Compute, ComputeWrites, AllWrites
  <1>4. CASE SomeInstances
    BY <1>1, <1>4 DEF SomeInstances, ComputeWrites, AllWrites
  <1>5. CASE SomeApps
    BY <1>1, <1>5 DEF SomeApps, ComputeWrites, AllWrites
  <1>6. CASE SomeKeys
    BY <1>1, <1>6 DEF SomeKeys, KeyWrites, AllWrites
  <1>7. CASE SomeFunctions
    BY <1>1, <1>7 DEF SomeFunctions, FunctionWrites, AllWrites
  <1>8. CASE SomeOfAll
    <2>1. CASE \E u \in db["users"] : UpsertUser(u.email, u.google_id, 2, Empty, Null)
      <3>1. PICK u \in db["users"] : UpsertUser(u.email, u.google_id, 2, Empty, Null)
        BY <2>1
      <3>2. u.email \in Emails /\ u.google_id \in GoogleIds
        BY DEF Within
      <3>3. QED
        BY <1>1, <3>1, <3>2 DEF AccountWrites, AllWrites
    <2>2. CASE \E e \in Emails :
                  \/ \E k \in KeyNames : SaveKeyPair(e, k, 1)
                  \/ \E s \in Servers : SaveInstance(e, s, 1)
                  \/ \E n \in Names, c \in Swift : SaveContainer(e, n, c)
                  \/ \E s \in Servers : DeleteByOpenstackID(e, s)
                  \/ \E n \in Names : DeleteContainer(e, n)
      BY <1>1, <2>2 DEF ComputeWrites, KeyWrites, ContainerWrites, AllWrites
    <2>3. QED
      BY <1>8, <2>1, <2>2 DEF SomeOfAll
  <1>9. QED
    BY <1>2, <1>3, <1>4, <1>5, <1>6, <1>7, <1>8

\* A write of an account's data is a step of the records.
LEMMA AccountRecords ==
    ASSUME Intact(db, made), StoreStep, Within(db), db' # db, AccountWrites
    PROVE  Abstract!Step /\ Within(db')
  <1>1. ASSUME NEW e \in Emails, NEW g \in GoogleIds, NEW v \in Versions,
               NEW jti \in Jtis \cup {Null}, NEW refresh \in {v, Empty},
               UpsertUser(e, g, v, refresh, jti)
        PROVE  Abstract!Step /\ Within(db')
    BY <1>1, UpsertUserRecords
  <1>2. ASSUME NEW e \in Emails, NEW jti \in Jtis \cup {Null}, SetRefreshJTI(e, jti)
        PROVE  Abstract!Step /\ Within(db')
    <2>1. PICK rows : rows = UserRow(db, e)
      OBVIOUS
    <2>2. rows \subseteq UserRow(db, e) /\ Session(rows, jti)
      BY <1>2, <2>1 DEF SetRefreshJTI
    <2>3. QED
      BY <2>2, SessionRecords
  <1>3. ASSUME NEW e \in Emails, NEW old \in Jtis, NEW new \in Jtis,
               RotateRefreshJTI(e, old, new)
        PROVE  Abstract!Step /\ Within(db')
    <2>1. PICK rows : rows = {u \in UserRow(db, e) : u.current_refresh_jti = old}
      OBVIOUS
    <2>2. rows \subseteq UserRow(db, e) /\ Session(rows, new) /\ new \in Jtis \cup {Null}
      BY <1>3, <2>1 DEF RotateRefreshJTI
    <2>3. QED
      BY <2>2, SessionRecords
  <1>4. ASSUME NEW e \in Emails, NEW jti \in Jtis, ClearRefreshJTIIfMatches(e, jti)
        PROVE  Abstract!Step /\ Within(db')
    <2>1. PICK rows, none : /\ rows = {u \in UserRow(db, e) : u.current_refresh_jti = jti}
                            /\ none = Null
      OBVIOUS
    <2>2. /\ rows \subseteq UserRow(db, e) /\ Session(rows, none)
          /\ none \in Jtis \cup {Null}
      BY <1>4, <2>1 DEF ClearRefreshJTIIfMatches
    <2>3. QED
      BY <2>2, SessionRecords
  <1>5. QED
    BY <1>1, <1>2, <1>3, <1>4 DEF AccountWrites

\* So is one of instances and apps.
LEMMA ComputeRecords ==
    ASSUME Intact(db, made), StoreStep, Within(db), HostsAsked(saving), db' # db, ComputeWrites
    PROVE  Abstract!Step /\ Within(db')
  <1>1. ASSUME NEW e \in Emails, NEW s \in Servers, NEW v \in Versions, SaveInstance(e, s, v)
        PROVE  Abstract!Step /\ Within(db')
    BY <1>1, SaveInstanceRecords
  <1>2. ASSUME NEW e \in Emails, NEW s \in Servers, NEW v \in Versions,
               NEW rename \in BOOLEAN, UpdateInstanceMetadata(e, s, v, rename)
        PROVE  Abstract!Step /\ Within(db')
    BY <1>2, UpdateInstanceMetadataRecords
  <1>3. ASSUME NEW e \in Emails, NEW s \in Servers, DeleteByOpenstackID(e, s)
        PROVE  Abstract!Step /\ Within(db')
    BY <1>3, DeleteByOpenstackIDRecords
  <1>4. ASSUME NEW e \in Emails, NEW s \in Servers, DeleteByInstance(e, s)
        PROVE  Abstract!Step /\ Within(db')
    BY <1>4, DeleteByInstanceRecords
  <1>5. ASSUME NEW c \in Callers, InsertApp(c)
        PROVE  Abstract!Step /\ Within(db')
    BY <1>5, InsertAppRecords
  <1>6. ASSUME NEW c \in Callers, SaveReturns(c)
        PROVE  Abstract!Step /\ Within(db')
    BY <1>6 DEF SaveReturns
  <1>7. ASSUME NEW e \in Emails, NEW s \in Servers, NEW c \in Callers, NEW h \in Hosts,
               SaveForInstance(c, e, s, h)
        PROVE  Abstract!Step /\ Within(db')
    BY <1>7 DEF SaveForInstance
  <1>8. QED
    BY <1>1, <1>2, <1>3, <1>4, <1>5, <1>6, <1>7 DEF ComputeWrites

\* So is one of key pairs or containers.
LEMMA NamedRecords ==
    ASSUME Intact(db, made), StoreStep, Within(db), db' # db, KeyWrites \/ ContainerWrites
    PROVE  Abstract!Step /\ Within(db')
  <1>1. CASE KeyWrites
    BY <1>1, SaveKeyPairRecords, DeleteByNameRecords DEF KeyWrites
  <1>2. CASE ContainerWrites
    BY <1>2, SaveContainerRecords, DeleteContainerRecords DEF ContainerWrites
  <1>3. QED
    BY <1>1, <1>2

\* So is one of functions.
LEMMA FunctionRecords ==
    ASSUME Intact(db, made), StoreStep, Within(db), db' # db, FunctionWrites
    PROVE  Abstract!Step /\ Within(db')
  <1>1. ASSUME NEW e \in Emails, NEW n \in Names, NEW v \in Versions, CreateDeployment(e, n, v)
        PROVE  Abstract!Step /\ Within(db')
    BY <1>1, CreateDeploymentRecords
  <1>2. ASSUME NEW e \in Emails, NEW f, NEW v \in Versions, UpdateDeployment(e, f, v)
        PROVE  Abstract!Step /\ Within(db')
    BY <1>2, UpdateDeploymentRecords
  <1>3. ASSUME NEW e \in Emails, NEW f, NEW v \in Versions, SetKey(e, f, v)
        PROVE  Abstract!Step /\ Within(db')
    <2>1. v \in Versions \cup {Null}
      OBVIOUS
    <2>2. QED
      BY <1>3, <2>1, ChangeKeyRecords
  <1>4. ASSUME NEW e \in Emails, NEW f, DeleteKey(e, f)
        PROVE  Abstract!Step /\ Within(db')
    <2>1. PICK none \in Versions \cup {Null} : none = Null
      OBVIOUS
    <2>2. QED
      BY <1>4, <2>1, ChangeKeyRecords
  <1>5. ASSUME NEW e \in Emails, NEW f, DeleteFunction(e, f)
        PROVE  Abstract!Step /\ Within(db')
    BY <1>5, DeleteFunctionRecords
  <1>6. QED
    BY <1>1, <1>2, <1>3, <1>4, <1>5 DEF FunctionWrites

\* What a registration asks for stays what somebody asked for.
LEMMA HostsStay ==
    ASSUME HostsAsked(saving), AllWrites \/ UNCHANGED saving
    PROVE  HostsAsked(saving')
  <1>1. ASSUME NEW c, NEW x, saving' = [saving EXCEPT ![c] = x],
               x.at = "insert" => x.host \in Hosts
        PROVE  HostsAsked(saving')
    <2>1. saving' = [b \in Callers |-> IF b = c THEN x ELSE saving[b]]
      BY <1>1 DEF HostsAsked
    <2>2. QED
      BY <1>1, <2>1 DEF HostsAsked
  <1>2. ASSUME NEW e \in Emails, NEW s \in Servers, NEW c \in Callers, NEW h \in Hosts,
               SaveForInstance(c, e, s, h)
        PROVE  HostsAsked(saving')
    <2>1. PICK x : /\ saving' = [saving EXCEPT ![c] = x]
                   /\ \/ x = [at |-> "saved", err |-> "ErrInstanceNotFound"]
                      \/ \E i : x = [at |-> "insert", host |-> h, instance |-> i]
      BY <1>2 DEF SaveForInstance
    <2>2. x.at = "insert" => x.host \in Hosts
      BY <2>1
    <2>3. QED
      BY <1>1, <2>1, <2>2
  <1>3. ASSUME NEW c \in Callers, InsertApp(c)
        PROVE  HostsAsked(saving')
    <2>1. PICK x : /\ saving' = [saving EXCEPT ![c] = x]
                   /\ \E m : x = [at |-> "saved", err |-> m]
      BY <1>3 DEF InsertApp
    <2>2. x.at = "saved"
      BY <2>1
    <2>3. QED
      BY <1>1, <2>1, <2>2
  <1>4. ASSUME NEW c \in Callers, SaveReturns(c)
        PROVE  HostsAsked(saving')
    <2>1. PICK x : saving' = [saving EXCEPT ![c] = x] /\ x = Idle
      BY <1>4 DEF SaveReturns
    <2>2. x.at = "idle"
      BY <2>1 DEF Idle
    <2>3. QED
      BY <1>1, <2>1, <2>2
  <1>5. CASE UNCHANGED saving
    BY <1>5
  <1>6. CASE ComputeWrites
    BY <1>2, <1>3, <1>4, <1>5, <1>6
       DEF ComputeWrites, SaveInstance, UpdateInstanceMetadata, DeleteByOpenstackID,
           DeleteByInstance
  <1>7. CASE AccountWrites
    BY <1>5, <1>7 DEF AccountWrites, UpsertUser, SetRefreshJTI, RotateRefreshJTI,
                      ClearRefreshJTIIfMatches, Session
  <1>8. CASE KeyWrites \/ ContainerWrites
    BY <1>5, <1>8 DEF KeyWrites, SaveKeyPair, DeleteByName, ContainerWrites, SaveContainer,
                      DeleteContainer
  <1>9. CASE FunctionWrites
    BY <1>5, <1>9 DEF FunctionWrites, CreateDeployment, UpdateDeployment, SetKey, DeleteKey,
                      UpdateFunction, DeleteFunction
  <1>10. QED
    BY <1>5, <1>6, <1>7, <1>8, <1>9 DEF AllWrites

\* What the records need of the database: it is intact, and its rows and registrations are
\* those of requests.
RecordsInv == Intact(db, made) /\ Within(db) /\ HostsAsked(saving)

\* Every write is a step of the records; everything else leaves them alone.
LEMMA WriteRecords ==
    ASSUME RecordsInv, StoreStep, AllWrites \/ UNCHANGED <<db, saving>>
    PROVE  Abstract!Step /\ RecordsInv'
  <1>1. Intact(db, made) /\ Within(db) /\ HostsAsked(saving)
    BY DEF RecordsInv
  <1>2. Abstract!Step /\ Within(db')
    <2>1. CASE db' = db
      BY <1>1, <2>1, RecordsStay
    <2>2. CASE db' # db /\ AllWrites
      BY <1>1, <2>2, AccountRecords, ComputeRecords, NamedRecords, FunctionRecords
         DEF AllWrites
    <2>3. QED
      BY <2>1, <2>2
  <1>3. HostsAsked(saving')
    BY <1>1, HostsStay
  <1>4. Intact(db', made')
    BY DEF StoreStep
  <1>5. QED
    BY <1>2, <1>3, <1>4 DEF RecordsInv

\* At first there are no rows, and no records.
LEMMA RecordsInit ==
    ASSUME Init
    PROVE  Abstract!Init /\ RecordsInv
  <1>1. Intact(db, made)
    BY StoreInit
  <1>2. \A t \in Tables : db[t] = {}
    BY DEF Init, EmptyDatabase
  <1>3. Within(db)
    BY <1>2 DEF Within, Tables
  <1>4. HostsAsked(saving)
    BY DEF Init, HostsAsked, Idle
  <1>5. None = Abstract!NoRecord
    BY DEF None, Abstract!NoRecord
  <1>6. /\ \A e : AccountIn(db, e) = None
        /\ \A s : InstanceIn(db, s) = None
        /\ \A s : AppIn(db, s) = None
        /\ \A k : KeyIn(db, k) = None
        /\ \A e, n : ContainerIn(db, e, n) = None
        /\ \A e, n : FunctionIn(db, e, n) = None
    <2>1. /\ \A e : AccountRows(db, e) = {}
          /\ \A s : InstanceRows(db, s) = {}
          /\ \A s : AppRows(db, s) = {}
          /\ \A k : KeyRows(db, k) = {}
          /\ \A e, n : NamedRows(db, "containers", e, n) = {}
          /\ \A e, n : NamedRows(db, "functions", e, n) = {}
      BY <1>2 DEF Tables, AccountRows, InstanceRows, AppRows, KeyRows, NamedRows
    <2>2. /\ \A e : AccountIn(db, e) = None
          /\ \A s : InstanceIn(db, s) = None
      BY <1>1, <2>1, AccountOfRow, InstanceOfRow
    <2>3. /\ \A s : AppIn(db, s) = None
          /\ \A k : KeyIn(db, k) = None
      BY <1>1, <2>1, AppOfRow, KeyOfRow
    <2>4. /\ \A e, n : ContainerIn(db, e, n) = None
          /\ \A e, n : FunctionIn(db, e, n) = None
      BY <1>1, <2>1, ContainerOfRow, FunctionOfRow
    <2>5. QED
      BY <2>2, <2>3, <2>4
  <1>7. Abstract!Init
    BY <1>5, <1>6 DEF Abstract!Init, account, instance, app, keypair, container, function
  <1>8. QED
    BY <1>1, <1>3, <1>4, <1>7 DEF RecordsInv

\* A step of the run is a write, or leaves the database and the registrations alone.
LEMMA RunSteps ==
    ASSUME Within(db), [MCNext]_mcvars
    PROVE  AllWrites \/ UNCHANGED <<db, saving>>
  <1>1. CASE UNCHANGED mcvars
    BY <1>1 DEF mcvars, vars
  <1>2. CASE (\E q : Ask(q)) \/ Reading
    BY <1>2 DEF Ask, Reading, Statement, StatementFails, Answer
  <1>3. CASE MCNext
    <2>1. \/ AllWrites \/ SignUp \/ Compute \/ SomeInstances \/ SomeApps \/ SomeKeys
          \/ SomeFunctions \/ SomeOfAll \/ (\E q : Ask(q)) \/ Reading
      BY <1>3 DEF MCNext, Asking, AllWrites
    <2>2. QED
      BY <1>2, <2>1, RunWrites
  <1>4. QED
    BY <1>1, <1>3

\* The repositories implement Records: every write on the tables is one step of the records
\* (the upsert of a login, creates, updates and deletes through the generated builders),
\* and no read changes them.
THEOREM RecordsImplemented == MCSpec => WritesImplementRecords
  <1>1. MCInit => Abstract!Init /\ RecordsInv
    BY RecordsInit DEF MCInit
  <1>2. RecordsInv /\ [MCNext]_mcvars => RecordsInv' /\ Abstract!Step
    <2>1. SUFFICES ASSUME RecordsInv, [MCNext]_mcvars
                   PROVE  RecordsInv' /\ Abstract!Step
      OBVIOUS
    <2>2. StoreStep
      BY <2>1, StoreSteps DEF RecordsInv
    <2>3. AllWrites \/ UNCHANGED <<db, saving>>
      BY <2>1, RunSteps DEF RecordsInv
    <2>4. QED
      BY <2>1, <2>2, <2>3, WriteRecords
  <1>3. Abstract!Step => ((focus \in Writes) => Abstract!Step)
    OBVIOUS
  <1>4. QED
    BY <1>1, <1>2, <1>3, PTL DEF MCSpec, WritesImplementRecords

\* It holds for requests with any values, not only for the groups of a run.
THEOREM StoreImplementsRecords == Spec => Abstract!Spec
  <1>1. Init => Abstract!Init /\ RecordsInv
    BY RecordsInit
  <1>2. RecordsInv /\ [Next]_vars => RecordsInv' /\ [Abstract!Next]_(Abstract!records)
    <2>1. SUFFICES ASSUME RecordsInv, [Next]_vars
                   PROVE  RecordsInv' /\ [Abstract!Next]_(Abstract!records)
      OBVIOUS
    <2>2. CASE AllWrites
      BY <2>1, <2>2, AllAreRequests, RequestStep, WriteRecords DEF RecordsInv, Abstract!Step
    <2>3. CASE (\E q : Ask(q)) \/ Reading \/ UNCHANGED vars
      <3>1. UNCHANGED <<db, made, saving>>
        BY <2>3 DEF Ask, Reading, Statement, StatementFails, Answer, vars
      <3>2. StoreStep
        BY <2>1, <3>1, QuietStep DEF RecordsInv
      <3>3. QED
        BY <2>1, <3>1, <3>2, WriteRecords DEF Abstract!Step
    <2>4. QED
      BY <2>1, <2>2, <2>3 DEF Next, AllWrites
  <1>3. QED
    BY <1>1, <1>2, PTL DEF Spec, Abstract!Spec

=============================================================================
