------------------------------ MODULE EntSchema ------------------------------
(***************************************************************************)
(* What the generated persistence layer (ent/) says about every entity:    *)
(* the columns of its table, the fields and edges its builders can set,    *)
(* what a save fills in, demands and writes, what a query reads back, and  *)
(* where its edges are stored.  ent generates each of these facts into a   *)
(* place of its own (a constant, a setter, a check, a spec, a scan), so    *)
(* they are separate definitions here; EntStore interprets them the way    *)
(* sqlgraph interprets the generated specs.  Only what the program calls   *)
(* is described: nobody uses ent's bulk builders, hooks, interceptors,     *)
(* aggregates or transactions.                                             *)
(*                                                                         *)
(* A generated id is the number of the row in its table, and created_at is *)
(* that number too: rows get both when they are made, in the same order.   *)
(* updated_at only tells whether the row has been updated.                 *)
(***************************************************************************)
EXTENDS Naturals

CONSTANTS
    Null,       \* SQL's NULL, and a nil pointer
    Empty       \* the empty string or byte slice

\* The value that version v of a request gives to field f.  Version 0 stands for the
\* default of functions.language and functions.data_mode.
Value(f, v) == <<f, v>>

Tables == {"users", "instances", "apps", "key_pairs", "containers", "functions"}

-----------------------------------------------------------------------------
(* apps: a host name that leads to an instance.                            *)

AppColumns == {"id", "host", "created_at", "updated_at"}
AppForeignKeys == [instance_app |-> "instances"]
AppUnique == {{"id"}, {"host"}, {"instance_app"}}

AppFields == {"host", "created_at", "updated_at"}
AppEdges == [instance |-> "instance_app"]
AppSetters == {"id", "host", "created_at", "updated_at", "instance"}
AppDefaults(n) == [id |-> n, created_at |-> n, updated_at |-> "insert"]
AppRequired == {"host", "created_at", "updated_at", "instance"}
AppInsert == {"id", "host", "created_at", "updated_at", "instance_app"}

AppAssign == AppColumns \cup {"instance_app"}
AppLoads == [instance |-> [table |-> "instances", column |-> "instance_app", inverse |-> TRUE]]

-----------------------------------------------------------------------------
(* containers: the object storage containers of a user.                    *)

ContainerColumns == {"id", "openstack_name", "name", "created_at", "updated_at"}
ContainerForeignKeys == [user_containers |-> "users"]
ContainerUnique == {{"id"}, {"openstack_name"}, {"name", "user_containers"}}

ContainerFields == {"openstack_name", "name", "created_at", "updated_at"}
ContainerEdges == [owner |-> "user_containers"]
ContainerSetters == {"id", "openstack_name", "name", "created_at", "updated_at", "owner"}
ContainerDefaults(n) == [id |-> n, created_at |-> n, updated_at |-> "insert"]
ContainerRequired == {"openstack_name", "name", "created_at", "updated_at", "owner"}
ContainerInsert ==
    {"id", "openstack_name", "name", "created_at", "updated_at", "user_containers"}

ContainerAssign == ContainerColumns \cup {"user_containers"}
ContainerLoads == [owner |-> [table |-> "users", column |-> "user_containers", inverse |-> TRUE]]

-----------------------------------------------------------------------------
(* functions: the deployed functions of a user and their external keys.    *)

FunctionColumns ==
    {"id", "name", "wasm", "language", "data_mode", "source", "key_hash", "key_created_at",
     "key_expires_at", "created_at", "updated_at"}
FunctionForeignKeys == [user_functions |-> "users"]
FunctionUnique == {{"id"}, {"name", "user_functions"}}

FunctionFields == {"name", "wasm", "language", "data_mode"}
FunctionNillable == {"source", "key_hash", "key_created_at", "key_expires_at"}
FunctionTimes == {"created_at", "updated_at"}
FunctionEdges == [owner |-> "user_functions"]
FunctionSetters ==
    {"id", "name", "wasm", "language", "data_mode", "source", "key_hash", "key_created_at",
     "key_expires_at", "created_at", "updated_at", "owner"}
FunctionDefaults(n) ==
    [language |-> Value("language", 0), data_mode |-> Value("data_mode", 0),
     id |-> n, created_at |-> n, updated_at |-> "insert"]
FunctionRequired ==
    {"name", "wasm", "language", "data_mode", "created_at", "updated_at", "owner"}
FunctionNotEmpty == {"name", "wasm"}
FunctionInsert ==
    {"id", "name", "wasm", "language", "data_mode", "source", "key_hash", "key_created_at",
     "key_expires_at", "created_at", "updated_at", "user_functions"}

\* UpdateOneID: what can be set and cleared, and the columns the update writes.
FunctionUpdateSetters == (FunctionSetters \ {"id", "created_at"})
FunctionClearers == {"source", "key_hash", "key_created_at", "key_expires_at"}
FunctionUpdate ==
    {"name", "wasm", "language", "data_mode", "source", "key_hash", "key_created_at",
     "key_expires_at", "updated_at", "user_functions"}

FunctionAssign == FunctionColumns \cup {"user_functions"}
FunctionLoads == [owner |-> [table |-> "users", column |-> "user_functions", inverse |-> TRUE]]

-----------------------------------------------------------------------------
(* instances: the servers of a user.  Nobody sets the edge to a key pair.  *)

InstanceColumns ==
    {"id", "openstack_id", "name", "status", "image_id", "flavor_id", "key_name", "note",
     "provider_created_at", "created_at", "updated_at"}
InstanceForeignKeys == [user_instances |-> "users", key_pair_instances |-> "key_pairs"]
InstanceUnique == {{"id"}, {"openstack_id"}}

InstanceServer == {"openstack_id", "name", "status", "image_id"}
InstanceChoices == {"flavor_id", "key_name", "note", "provider_created_at"}
InstanceTimes == {"created_at", "updated_at"}
InstanceEdges == [owner |-> "user_instances", keypair |-> "key_pair_instances"]
InstanceSetters ==
    {"id", "openstack_id", "name", "status", "image_id", "flavor_id", "key_name", "note",
     "provider_created_at", "created_at", "updated_at", "owner", "keypair"}
InstanceDefaults(n) ==
    [key_name |-> Empty, note |-> Empty, id |-> n, created_at |-> n, updated_at |-> "insert"]
InstanceRequired ==
    {"openstack_id", "name", "status", "image_id", "flavor_id", "key_name", "note",
     "provider_created_at", "created_at", "updated_at", "owner"}
InstanceInsert ==
    {"id", "openstack_id", "name", "status", "image_id", "flavor_id", "key_name", "note",
     "provider_created_at", "created_at", "updated_at", "user_instances", "key_pair_instances"}

InstanceUpdateSetters == InstanceSetters \ {"id", "created_at"}
InstanceUpdate ==
    {"openstack_id", "name", "status", "image_id", "flavor_id", "key_name", "note",
     "provider_created_at", "updated_at", "user_instances", "key_pair_instances"}

InstanceAssign == InstanceColumns \cup {"user_instances", "key_pair_instances"}
InstanceLoads ==
    [owner |-> [table |-> "users", column |-> "user_instances", inverse |-> TRUE],
     keypair |-> [table |-> "key_pairs", column |-> "key_pair_instances", inverse |-> TRUE],
     app |-> [table |-> "apps", column |-> "instance_app", inverse |-> FALSE]]

-----------------------------------------------------------------------------
(* key_pairs: the SSH keys of a user.                                      *)

KeyPairColumns ==
    {"id", "openstack_name", "fingerprint", "public_key", "source_type", "created_at",
     "updated_at"}
KeyPairForeignKeys == [user_keypairs |-> "users"]
KeyPairUnique == {{"id"}, {"openstack_name"}}

KeyPairFields == {"openstack_name", "fingerprint", "public_key", "source_type"}
KeyPairTimes == {"created_at", "updated_at"}
KeyPairEdges == [owner |-> "user_keypairs"]
KeyPairSetters ==
    {"id", "openstack_name", "fingerprint", "public_key", "source_type", "created_at",
     "updated_at", "owner"}
KeyPairDefaults(n) == [id |-> n, created_at |-> n, updated_at |-> "insert"]
KeyPairRequired ==
    {"openstack_name", "fingerprint", "public_key", "source_type", "created_at", "updated_at",
     "owner"}
SourceTypes == {"user_uploaded", "system_generated"}
KeyPairInsert ==
    {"id", "openstack_name", "fingerprint", "public_key", "source_type", "created_at",
     "updated_at", "user_keypairs"}

KeyPairAssign == KeyPairColumns \cup {"user_keypairs"}
KeyPairLoads ==
    [owner |-> [table |-> "users", column |-> "user_keypairs", inverse |-> TRUE],
     instances |-> [table |-> "instances", column |-> "key_pair_instances", inverse |-> FALSE]]

-----------------------------------------------------------------------------
(* users: the accounts, their Google tokens and the current refresh token. *)

UserColumns ==
    {"id", "email", "name", "google_id", "google_access_token", "google_refresh_token",
     "google_token_expiry", "current_refresh_jti", "created_at", "updated_at"}
UserUnique == {{"id"}, {"email"}, {"google_id"}}

UserProfile == {"email", "name", "google_id"}
UserTokens == {"google_access_token", "google_refresh_token", "google_token_expiry"}
UserJti == {"current_refresh_jti"}
UserTimes == {"created_at", "updated_at"}
UserSetters ==
    {"id", "email", "name", "google_id", "google_access_token", "google_refresh_token",
     "google_token_expiry", "current_refresh_jti", "created_at", "updated_at"}
UserDefaults(n) == [id |-> n, created_at |-> n, updated_at |-> "insert"]
UserRequired ==
    {"email", "name", "google_id", "google_access_token", "google_refresh_token",
     "google_token_expiry", "created_at", "updated_at"}
UserInsert ==
    {"id", "email", "name", "google_id", "google_access_token", "google_refresh_token",
     "google_token_expiry", "current_refresh_jti", "created_at", "updated_at"}

\* What the ON CONFLICT clause of an upsert can set.
UserUpsertSetters ==
    {"email", "name", "google_id", "google_access_token", "google_refresh_token",
     "google_token_expiry", "current_refresh_jti", "updated_at"}

UserUpdateSetters == UserSetters \ {"id", "created_at"}
UserClearers == {"current_refresh_jti"}
UserUpdate ==
    {"email", "name", "google_id", "google_access_token", "google_refresh_token",
     "google_token_expiry", "current_refresh_jti", "updated_at"}

UserAssign == UserColumns
UserLoads ==
    [instances |-> [table |-> "instances", column |-> "user_instances", inverse |-> FALSE],
     keypairs |-> [table |-> "key_pairs", column |-> "user_keypairs", inverse |-> FALSE],
     containers |-> [table |-> "containers", column |-> "user_containers", inverse |-> FALSE],
     functions |-> [table |-> "functions", column |-> "user_functions", inverse |-> FALSE]]

-----------------------------------------------------------------------------
(* The same facts by table.                                                *)

NoKeys == [c \in {} |-> ""]

Columns ==
    [users |-> UserColumns, instances |-> InstanceColumns, apps |-> AppColumns,
     key_pairs |-> KeyPairColumns, containers |-> ContainerColumns,
     functions |-> FunctionColumns]

ForeignKeys ==
    [users |-> NoKeys, instances |-> InstanceForeignKeys, apps |-> AppForeignKeys,
     key_pairs |-> KeyPairForeignKeys, containers |-> ContainerForeignKeys,
     functions |-> FunctionForeignKeys]

Unique ==
    [users |-> UserUnique, instances |-> InstanceUnique, apps |-> AppUnique,
     key_pairs |-> KeyPairUnique, containers |-> ContainerUnique, functions |-> FunctionUnique]

\* The columns that may be NULL; deleting a key pair sets the reference to it to NULL,
\* every other reference forbids the deletion.
Nullable ==
    {"current_refresh_jti", "source", "key_hash", "key_created_at", "key_expires_at",
     "key_pair_instances"}
OnDeleteSetNull == {"key_pair_instances"}

\* What a mutation of the entity can hold.
Mutable ==
    [users |-> UserProfile \cup UserTokens \cup UserJti \cup UserTimes \cup {"id"},
     instances |-> InstanceServer \cup InstanceChoices \cup InstanceTimes \cup {"id"},
     apps |-> AppFields \cup {"id"},
     key_pairs |-> KeyPairFields \cup KeyPairTimes \cup {"id"},
     containers |-> ContainerFields \cup {"id"},
     functions |-> FunctionFields \cup FunctionNillable \cup FunctionTimes \cup {"id"}]

Edges ==
    [users |-> NoKeys, instances |-> InstanceEdges, apps |-> AppEdges,
     key_pairs |-> KeyPairEdges, containers |-> ContainerEdges, functions |-> FunctionEdges]

CreateSetters ==
    [users |-> UserSetters, instances |-> InstanceSetters, apps |-> AppSetters,
     key_pairs |-> KeyPairSetters, containers |-> ContainerSetters,
     functions |-> FunctionSetters]

CreateDefaults(n) ==
    [users |-> UserDefaults(n), instances |-> InstanceDefaults(n), apps |-> AppDefaults(n),
     key_pairs |-> KeyPairDefaults(n), containers |-> ContainerDefaults(n),
     functions |-> FunctionDefaults(n)]

Required ==
    [users |-> UserRequired, instances |-> InstanceRequired, apps |-> AppRequired,
     key_pairs |-> KeyPairRequired, containers |-> ContainerRequired,
     functions |-> FunctionRequired]

Inserted ==
    [users |-> UserInsert, instances |-> InstanceInsert, apps |-> AppInsert,
     key_pairs |-> KeyPairInsert, containers |-> ContainerInsert, functions |-> FunctionInsert]

UpdateSetters ==
    [users |-> UserUpdateSetters, instances |-> InstanceUpdateSetters,
     functions |-> FunctionUpdateSetters]
Clearers == [users |-> UserClearers, instances |-> {}, functions |-> FunctionClearers]
Updated == [users |-> UserUpdate, instances |-> InstanceUpdate, functions |-> FunctionUpdate]

Assigned ==
    [users |-> UserAssign, instances |-> InstanceAssign, apps |-> AppAssign,
     key_pairs |-> KeyPairAssign, containers |-> ContainerAssign, functions |-> FunctionAssign]

Loads ==
    [users |-> UserLoads, instances |-> InstanceLoads, apps |-> AppLoads,
     key_pairs |-> KeyPairLoads, containers |-> ContainerLoads, functions |-> FunctionLoads]
=============================================================================
