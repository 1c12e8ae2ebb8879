# rcp-server in TLA+

A verification project for rcp-server: a Go API and four companion programs that
give users of a campus OpenStack cloud instances, SSH access, object storage,
public apps and serverless functions. The modules here model the parts of it in
which several goroutines, processes or stores have to agree; TLC checks them on
small instances, and TLAPS proves nearly all of the safety properties for every instance.

Contents: [the system](#the-system) · [modules](#modules-and-the-code) ·
[runs](#runs) · [fairness](#fairness) · [proofs](#proofs) ·
[seeded faults](#seeded-faults) · [findings](#findings) ·
[not modelled](#what-is-not-modelled) · [plan](#plan)

To check a run: `tlc -config Requests.cfg MCRequests` (the table below names
module and configuration). To check a proof: `tlapm LoginProofs.tla`.

## The system

| Program | What it does | State it keeps |
|---|---|---|
| `cmd/api` | REST API: login, instances, storage, apps, functions, web console | the platform database (ent, SQLite or PostgreSQL), a second SQLite database for function data, in-memory console tokens and keys, flavor cache |
| `cmd/ssh-gateway` | SSH server that users log in to with a browser, and that relays to their VM | pending logins, connections, one ephemeral key per attempt |
| `cmd/ns-proxy` | SOCKS5 proxy into the tenant network | connection slots and counters |
| `cmd/app-gateway` | reverse proxy from `<app>.<domain>` to a VM | host cache, address cache |
| `cmd/function-builder` | compiles function sources in Docker | build slots |

How they interact: the API posts the outcome of an OAuth login to the gateway's
webhook; the gateway registers and deletes ephemeral keys at the API; `sshd` on a
VM asks the API for authorized keys; both gateways and the web console reach VMs
through ns-proxy; the API calls the builder over HTTP; everything calls OpenStack.

### Components

*Login sessions of the SSH gateway* (`sessions.go`, `auth.go`, `notify.go`,
`access/ssh_*.go`). State: a map of nonces, and per nonce a channel of capacity
one, a count of wrong codes and an expiry goroutine. Operations: `New`, `Wait`,
`Resolve`, expiry. Hard: `Resolve` and expiry use the channel after giving up the
lock; the API's own timeout races the webhook. Correct when no channel is used
after it is closed, a nonce admits at most one account, and only with its code,
guesses are limited, nobody waits for ever, and the browser is not told of a
success that the SSH side does not see.

*Web login* (`auth/handler.go`, `oauth_service.go`). State: none at the API; a nonce in
the state parameter and in a cookie that all tabs of a browser share. Operations: `Login`,
`Callback`. Hard: logins in two tabs, URLs opened twice or in another browser, an answer
that clears the cookie another login has just set. Correct when a login ends only in the
browser that began it and nobody is refused for no reason. *Authentication filters*
(`auth/filter.go`): every protected route validates an access token, which is recorded
nowhere. Correct when a refresh token, an expired token or the development token never
opens a route, and a session that ended loses access within a token's lifetime.

*Refresh tokens* (`auth/user_service.go`, `repository.go`). State: one column,
`current_refresh_jti`. Operations: login (overwrite), refresh and logout
(compare-and-set). Hard: overlapping requests with one token, statements that
fail after they took effect, replays. Correct when a token is exchanged at most
once, never comes back, and a stale one can do nothing.

*Console tokens and ephemeral keys* (`access/console_session.go`,
`ssh-gateway/server.go`, `ephemeral_key_client.go`). State: two in-memory maps
with expiry. Hard: two sockets with one token, lost or late HTTP calls, death of
either process. Correct when tokens and keys are used once, never late, and a
clean end leaves no key.

*Instances* (`compute/service.go`) and *apps* (`apps/`). State: servers in
OpenStack, ownership rows, app rows with a foreign key. Operations: create,
delete, rename, list with pruning. Hard: no transaction spans OpenStack and the
database, lists are stale, calls fail half way, crashes. Correct when a live
server keeps its row, no server is silently without an owner, and stale rows go.

*Admin views* (`admin/`). State: a status cache whose mutex is held during the listing.
Operations: the summary, lists and details with live statuses, the system page with five
concurrent checks. Hard: one slow listing holds up everybody; checks share a token that
one of them may have to renew. Correct when what is called live was so within the cache's
time and every view is answered.

*The database* (`ent/`, `internal/schema`, the `repository.go` of every domain). State: six
tables. Operations: ent's builders, each one statement, and reads of several statements,
without transactions. Hard: what a builder fills in, demands and leaves alone is generated
per field and edge; eager-loaded edges are read later than their rows. Correct when each
write changes one record in the way its caller means, rows keep id and owner, and a read
tells nothing that was never so.

*Functions: store* (`functions/service.go`, `data.go`, `sql_database.go`). State:
function rows, items and tombstones, SQLite databases as row and file, bindings.
Hard: a running function writes after its deletion; limits under concurrency;
file and row are made one after the other. Correct when deletion is final, data
and files belong to something, and limits hold.

*Functions: execution* (`functions/service.go`, `key.go`, `builder.go`,
`cmd/function-builder`). State: slots, build slots, containers, deployment and
key of the row. Hard: slots on every early return, keys replaced under running
calls. *Data protocol* (`data_protocol.go`): a running module and its host
exchange lines through a bounded channel on one thread; the hard part is a guest
that does not read.

*Object storage* (`storage/`). State: rows and Swift containers. Hard: overlapping
creates and deletes of one name, failures between the two stores. *Transfers*
(`storage/handler.go`, `content_type.go`): streams whose source or reader fails after the
answer has begun. *Key pairs*
(`access/service.go`): the same with rows and keys in Nova, whose names all owners
share. *Block storage* (`blockstorage/`): volumes and snapshots live in Cinder alone,
with the owner in their metadata; owner and status are checked before a call that does
not check the owner again. Correct when rows and resources belong together and no
owner's data reaches another one.

*App gateway* (`cmd/app-gateway`). State: two caches over a mapping and addresses
that change. Correct when what a request uses belongs together and is not older
than the caches allow.

*ns-proxy server* (`cmd/ns-proxy/server.go`, `main.go`). State: slots, three
counters, a wait group. Hard: shutdown while a connection is accepted but counted
nowhere. *Processes* (`main.go` of the API and the gateways, `deploy/systemd`): start,
listen, signal, `Shutdown`, restart. *Host-key trust* (`ssh-gateway/hostkey.go`,
`access/handler.go`): a `known_hosts` file that several sessions read and append to
without a lock, and the gateway's own key file. *SSH gateway server* (`ssh-gateway/server.go`, `main.go`, `menu.go`): slots,
sessions, and a mux that blocks when nobody reads a session's requests. Correct when
slots and keys come back at whatever point a client leaves. *Gateway relay*
(`relay.go`): five waits that must all end. *Web-console output* (`access/handler.go`):
a bounded buffer with capacity-one wake-up channels. *Web-console liveness*
(`access/console_liveness.go`, `handler.go`): a watcher, three pumps and a relay that end
one another through one context. *Flavor cache* (`compute/service.go`): a TTL cache with a shared
cold fetch and one background refresh. *SQL checks* (`functions/sql_database.go`): a
scanner that has to agree with SQLite on where a statement ends.

The remaining components are listed under [what is not modelled](#what-is-not-modelled).
`PROJECT.json` lists the hazards of all of them, each at its line.

## Modules and the code

Each module has the component's state as variables, one action per step that
another goroutine, process or request can get in between, and its properties at
the end. A critical section is one action; what follows the unlock is another; a
database statement or a remote call is one action, with a second one where it
fails: without effect, or after it took effect with only the answer lost. In `Instances`
the statements that save, rename and delete a row fail without effect only; a delete or a
renaming whose answer is lost ends in a state that the successful one reaches too, and a
save whose answer is lost leaves, after the compensation, a row without a server, as a
deletion outside the API does. `PROJECT.json` maps every definition to its lines.

| Module | Models | Abstracted |
|---|---|---|
| `OneTimeLogin` | what the login store promises: open, grant to one account or lose, enter | – |
| `SshSessionStore` | connections, expiry goroutines, webhook handlers, API callbacks | HMAC, JSON, the code's digits (right or wrong) |
| `OAuthLogin` | `Login` and `Callback`, the tabs and cookies of browsers, copies of URLs, Google's one-time codes | state encoding, URL checks (an origin is allowed or not), tampered states |
| `RefreshTokens` | login, refresh and logout requests against one row; delivery and expiry of tokens | signatures (only tokens the server made are presented), access tokens |
| `ConsoleKeys` | tokens and keys with a clock, sockets, the gateway's attempt per VM user, calls in flight, crashes | key material, scopes, bytes |
| `AuthFilter` | `AuthRequired`, `AdminRequired`, the bypass; tokens, their expiry, sessions that begin and end, users removed | signatures; a login or refresh is one step |
| `HostKeyTrust` | the callbacks of gateway and console: look-up, append, torn and failing writes; VMs replaced; the gateway's own key through restarts | key types, hashing of host names |
| `Instances` | create, delete, list and prune, rename, pause, detail, apps; OpenStack's asynchronous deletion and lagging lists | flavors, images, networks, notes |
| `AdminViews` | the status cache and its mutex, summary, lists, details, user resources; the system page and its checks | rows (one read; see `Repositories`), reasons of failures |
| `EntSchema` | per table: columns, setters, defaults, required fields, unique indexes, foreign keys, what specs write and scans read | hooks, bulk builders, aggregates |
| `EntStore` | the statements ent's builders run: insert, upsert, update, delete, select with predicates, order, page and edges | SQL text |
| `Records` | what the repositories promise: one record per account, instance, app, key, container, function | – |
| `Repositories` | every method of every `repository.go` over `EntStore` | values (the request they came from) |
| `FunctionStore` | create and delete functions, item writes, databases, bindings, queries, crashes | item values, SQL, contents of databases |
| `SqlScanner` | `validateSQL` and a reference that reads a character at a time | keywords of one or two letters; parameters |
| `FunctionExecution` | invoke, deploy, validate, build, keys | WASM, HTTP envelope |
| `DataProtocol` | guest and host of one invocation in data mode | contents of requests and text |
| `Containers` | create, delete (plain, forced, with a padded name), upload, delete object | contents, content types |
| `Transfers` | upload with the sniffed prefix, download, archive, as streams that break | bytes (chunks), headers except the length |
| `AppGateway` | `ServeHTTP` over both caches; mapping and addresses change | HTTP, SOCKS5 |
| `KeyPairs` | `CreateKeyPair` and `DeleteKeyPair` of several owners under one name, compensation, crashes | names, key material |
| `Volumes` | create, delete, attach, detach, snapshot; Cinder's and Nova's transitions; instances that go away | names, sizes, devices |
| `ProxyServer` | accept loop, handlers' deferred calls, `Shutdown`, `main` | SOCKS5 |
| `GatewayServer` | accept loop, `handle`, `handleSession` up to the relay, who reads the requests, the menu, the keys of the VM's users, the set-up of the VM's shell, shutdown | bytes, the choice of a VM; one session per connection |
| `GatewayRelay` | `pipeSession` from where it forwards, and the deferred calls of `handleSession` | bytes, stderr, window changes |
| `ConsoleOutput` | `Write`, `flushLoop`, `flush`, `Close` of `webSocketConsole` | bytes (a write has size one), buffer pool |
| `Processes` | start, listen, serve, signal, `Shutdown`, exit status and restart of the API, the app gateway and the notify server | routes, configuration |
| `ConsoleLiveness` | `watchConsole`, its checks and probes, the pumps and the teardown of `relayConsole` | bytes; time in keepalive intervals |
| `FlavorCache` | `fetchFlavors`, `refreshFlavorsStale` | flavors (a version number) |
| `MCLogins`, `MCGoroutines`, `MCRequests`, `MCGateways`, `FunctionParts`, `MCFunctions`, `MCResources`, `MCServers`, `MCStore` | several components side by side | – |
| `LoginProofs`, `RequestProofs`, `GatewayProofs`, `FunctionProofs`, `ResourceProofs`, `GoroutineProofs`, `ServerProofs`, `StoreProofs` | the theorems (see [proofs](#proofs)) | – |

The `MC` modules put components that share no state side by side: `MCLogins`
(`SshSessionStore`, `OAuthLogin`, `AuthFilter`), `MCGoroutines` (`SshSessionStore`,
`ConsoleOutput`, `GatewayRelay`, `FlavorCache`, `DataProtocol`), `MCRequests`
(`RefreshTokens`, `Instances`, `AdminViews`), `MCGateways` (`AppGateway`, `ConsoleKeys`,
`HostKeyTrust`), `MCFunctions` (`FunctionStore` and `FunctionExecution`, side by side in
`FunctionParts`, and `SqlScanner`),
`MCResources` (`Containers`, `KeyPairs`, `Volumes`, `Transfers`) and `MCServers`
(`ProxyServer`, `GatewayServer`, `ConsoleLiveness`, `Processes`). A step of one component
requires the others to be in an initial state, so the state graph is the union, not the
product, of theirs. This loses nothing: a property of one of them depends on its variables
only. It keeps fairness honest as well, because in those initial states no action with a
fairness condition is enabled (a login has not begun, nobody has connected, no console is
open, no unit is started), so a component at rest owes no step; the one exception,
that the owner lists instances again and again, is fair in `MCRequests` while the others
rest. Sets that play different parts in different components are given by one constant in
some of them (volumes and Swift containers, owners and objects), which keeps the symmetry
group small. Their properties are conjunctions of the components' properties, one per
question.

`MCStore` is different: all repositories work on one database, but a behaviour uses one
group of them (`focus`), accounts being made in each, so that every group gets the rows and
the overlapping writes that matter to it. `WritesImplementRecords` is a refinement: the
rows, read back through ent's own edges and scans, implement `Records`, in which a write
is one assignment to one record.

History variables (`spent`, `lost`, `leaked`, `litter`, `condemned`, `added`,
`hadAgo`, …) record what properties compare with; no guard of an action that models
code reads them, except to keep identifiers from being used twice.

## Runs

All bounds are the constants of the configurations.

| Run | Configuration, module | Bounds | Properties |
|---|---|---|---|
| `logins` | `Logins`, `MCLogins` | SSH: 2 nonces, 2 accounts, 3 callbacks, 1 pending, 2 guesses; web: 2 nonces, 2 browsers, 2 tabs, an account inside and one outside the campus, 1 origin; filter: 2 users, one an administrator, 1 request, 2 sessions, lifetime 1 | `StoreInv`, `AuthenticatedByMatch`, `StoreLimits`, `CompleteMeansDelivered`, `WebLoginInv`, `AccessInv` |
| `goroutines` | `Goroutines`, `MCGoroutines` | 1 nonce with 2 callbacks; 2 pumps of 2 writes over a buffer of 2; 2 outputs; 3 callers, 3 lists of which one is empty; 2 requests, 5 lines | `HandOffInv`, `ImplementsOneTimeLogin`, `CacheNeverOlder`, `LoginsEnd`, `OutputNeverStalls`, `SessionEnds`, `CallsReturn` |
| `api_requests` | `Requests`, `MCRequests` | 3 tokens, 3 requests; 1 server, 2 requests, 2 names, 2 faults; 1 server, 2 views, 2 statuses, cache time 2, `MaxDelay` 1; 3 services, two of them reached through Keystone and one not configured, timeout 2, `MaxReauth` 3 | `TokenInv`, `AtMostOneWinner`, `LogoutIsFinal`, `StaleTokenHarmless`, `InstancesInv`, `LiveServerKeepsRow`, `AdminInv`, `ListingsEnd` |
| `gateways` | `Gateways`, `MCGateways` | 2 instances, 1 address, 2 requests, times of 1; 1 console, 2 sockets, 2 VM users, TTL 1, 4 ticks; 1 host, 3 keys, 2 sessions (one a console), 3 lines (`MaxLines`), 2 changes of the VM (`MaxReplaced`), 2 own keys | `AppBackendInv`, `KeysInv`, `NoLateUse`, `HostKeyInv` |
| `functions` | `Functions`, `MCFunctions` | store: 2 functions, 3 databases, 2 keys, 2 requests, limits of 1, 1 fault; execution: 2 requests, 2 versions, 2 keys, 1 slot, 1 build; every text of up to 5 characters (`MaxLength`) | `DataFollowsFunction`, `DatabasesInv`, `ExecutionInv`, `ScannerAgrees` |
| `resources` | `Resources`, `MCResources` | 2 requests; 1 name, 2 Swift containers, 2 objects; 2 owners and 3 keys under one name; 2 volumes, 1 snapshot, 2 owners with an instance each, one of which may be deleted (`MaxDeleted`); 1 fault; 2 files of up to 2 chunks (`MaxChunks`) | `ContainersInv`, `KeyPairsInv`, `DataStaysWithOwner`, `TransferInv` |
| `servers` | `Servers`, `MCServers` | 2 connections over 1 slot in each server, one of the gateway's cannot log in, a request channel of 1, 2 VM users; idle time 2, lifetime 3; 3 programs, 2 requests, one of which may be upgraded | `ServersInv`, `GracefulDrain`, `ServersMoveOn`, `ConsoleEnds` |
| `store` | `Store`, `MCStore` | 2 accounts, 2 servers, 1 host, 1 key name, 2 Swift containers, 2 requests' values, 2 rows ever made per table (`MaxRows`), 2 writes during a read (`MaxOverlap`), pages of 1 and 2 | `ViewsInv`, `WritesImplementRecords`, `RowsKeepIdentity` |
| `instances_delete_with_app` | `InstancesDelete`, `Instances` | 1 server, 1 request, no fault | `DeleteRemovesRow`, violated |
| `container_recreated` | `ContainersDelete`, `Containers` | 2 Swift containers, 2 requests, no fault | `DeletesOwnRow`, violated |
| `console_verdict` | `ConsoleVerdict`, `ConsoleLiveness` | idle time 2, lifetime 3 | `VerdictTearsDown`, violated |
| `archive` | `Archive`, `Transfers` | 2 objects, 2 requests, files of 1 chunk | `FailedStreamAborted`, violated |

What they show, beyond the sentence each property carries in its module:

* `logins`: `StoreInv` holds the argument for channel safety (see [proofs](#proofs)).
  `StoreLimits` needs the third callback: with two wrong codes a third, right one must
  find the nonce gone. `WebLoginInv` needs two tabs of one browser (the second login takes
  the cookie of the first, or the late answer of the first clears that of the second) and
  a second browser for a copied URL; a tab is used again once it is idle, so a third login
  or a third copy brings no new conflict over a cookie that holds one nonce.
* `goroutines`: `ImplementsOneTimeLogin` is a refinement; the mapping derives a login's
  state from its place in the map, the accepted callbacks and the connection.
  `LoginsEnd` holds without assuming that the timer of `Wait` fires. `SessionEnds` excepts a
  VM that takes nothing while the gateway writes to it (`HeldByVm`). `HandOffInv` contains
  why the reply channel has one place more than the limit.
* `api_requests`: three requests are a login and two refreshes with its token that both
  pass the look-up, or a refresh and a logout that race; the proofs cover any number. Two
  faults allow a failed save whose compensation fails as well. With one server, prune,
  delete, pause and rename meet on the same row, which is where they conflict; rows of
  different servers are never touched by one statement. Of the admin views the second
  request waits for the mutex the first one holds; `Timeout` 2 and `MaxReauth` 3 let a
  renewal of the token outlast a check, which `SystemPagePrompt` names as the exception.
  A cache time of 2 is what it takes to see that a hit does not extend it
  (`HitSlidesExpiry`), two services behind Keystone that a check waits for the renewal
  another one has begun.
* `gateways`: one address and two instances make every address change a reassignment. What
  `AppBackendInv` says of an address has the bound `AddressBound`, of which the two caches
  and the two look-ups each make a part; the fallback to an expired address while OpenStack fails is excluded by name (`stale`), as
  `resolver_cache_test.go` asserts it. Two VM users, because the second attempt overlaps
  calls of the first; four ticks let a key expire, be asked for and be registered late. Of
  host keys, two sessions race for the first line and the third key shows whether the pin
  holds after it; a host's keys are those of all its lines, and `FewKeys` bounds how many
  first use may add.
* `functions`: limits of one with two functions and three databases put every
  counter at its limit with a request waiting and one leaving. The limit on databases is
  *not* kept (count and insert are not atomic); `Limits` states the overshoot. Five
  characters are enough for a quote or comment with a semicolon in it, its end and what
  follows.
* `resources`: three keys, because the third upload is the one a late deletion or
  compensation hits after the name was used again. `KeyPairsInv` lists exactly when a key
  or a row may be left over. For volumes one snapshot and two volumes are a chain: written
  by one owner, saved, restored, attached again. `TransferInv` says when an answer that
  ends well is complete; `archive` shows when it is not.
* `servers`: the second connection is denied, or is the one that `Serve` holds while the
  signal arrives. A request channel of one place stands for the sixteen of the SSH
  library: what matters is that it fills up while nobody reads. `ServersMoveOn` excepts
  the places where the gateway's mux may stay blocked (`Wedged`): at the menu, after a
  shell request that came when `handleSession` had given up, and while the session waits
  for a VM that does not answer or takes nothing (`Silent`), which also keeps its key.
  Two VM users, so that a key left by the first meets that of the second: a key stays
  registered only when the call for it failed. The real limits of a console
  are 60 and 1440 intervals; with 2 and 3 both limits, activity between two checks, and
  each of the probes failing first occur. `ConsoleEnds` excepts a VM that does not
  answer, and `console_verdict` shows why it has to. For the processes, `CleanStop` lists
  what may cut a request off; `StopsAndStarts` excepts an app gateway that could not listen.
* `store`: two accounts and two rows per table are enough for a row or an edge of the wrong
  owner, for a unique index to be hit by another row, and for a page boundary; two writes
  fall anywhere between a read's statements. It takes both to see that the link from a row
  to its neighbour and what the neighbour says need never have been true together, which
  is why `ViewsFaithful` tells them apart; a third write shows nothing new.
  In the administrator's overview a read begins while the accounts have their first values
  (`Unchanged`); they change once, during it.

Deadlock is checked in `api_requests` and `instances_delete_with_app`, where requests can
always come; the other models stop when their single-use requests, connections or ticks are
used up.

## Fairness

Liveness is checked in `goroutines`, `servers`, `api_requests` and `console_verdict`. In all of them clients, users and OpenStack's contents
are free to do nothing.

* `SshSessionStore`: weak fairness of expiry goroutines, of a send after `Unlock` and of
  a receive that is ready: runnable goroutines run, `time.Sleep` returns. The timer of
  `Wait` gets none, so that `LoginsEnd` says more.
* `ConsoleOutput`: weak fairness of the flush loop (its frame has a write timeout), of
  pumps that are inside `Write`, and of `Close` once called. Nobody has to write or close.
* `GatewayRelay`: weak fairness of the copies' ends and of `pipeSession` (its waits have
  timers). A client that never reads gives the output copy no fairness, and what writes to
  the VM (the input copy, the closing of the inner session) has fairness only while those
  writes return: they have no timeout.
* `FlavorCache`: weak fairness of callers inside `fetchFlavors` and of the refresh; calls to
  OpenStack return, because the client has a timeout.
* `DataProtocol`: weak fairness of the host and the deadline timer; strong fairness of the
  runtime's termination of a guest whose context is done
  (`WithCloseOnContextDone`), since a guest may keep writing and reading.
* `ProxyServer`: weak fairness of `Serve`, each handler, `Shutdown` and `main`; none for
  clients, signals and failing accepts.
* `GatewayServer`: the same, and weak fairness of the mux, of whoever reads requests and
  of what `handleSession` does without its client (the handshakes, the first request, the
  look-ups, the calls for keys and the dialling have time limits). Clients and VMs owe
  nothing: `pipeSession` asks the VM for a session, a terminal and a shell without a limit
  (`relay.go:137`), and writes to it without one, so those steps have no fairness, and the
  relay sees the client's end only while its VM takes what is written.
* `ConsoleLiveness`: weak fairness of the ticker, the watcher, the pumps whose source or
  sink has ended, and the relay; `sess.Wait` returns if the VM answers. The browser,
  the shell and a VM that has fallen silent owe nothing.
* `Instances`: weak fairness of each started request and of OpenStack's deletions, and
  strong fairness of listing: pruning happens only in `GetInstances`, so
  `StaleRowsPruned` is about owners who keep looking. Faults are bounded, that is, they
  stop some day.
* `AdminViews`: weak fairness of a view's steps (a listing ends, the client has a timeout);
  strong fairness of getting the mutex, which Go's `sync.Mutex` gives to a goroutine that
  has waited long enough; of the system page only that something of it goes on, since each
  check has its timeout.
* `Processes`: weak fairness of systemd's restart and of a shutdown that has begun, which
  has time limits; strong fairness of a start, which says that what a start needs is
  repaired some day. Requests need not end.

The other models state safety only and have no fairness.

## Proofs

TLAPS proves the theorems below for every value of the constants: any sets of requests,
nonces, users, tokens, keys, servers, objects and connections, and any limits, times and
numbers of faults. A bound that only keeps TLC finite (`MaxFaults`, `MaxLines`, `MaxRows`,
…) is an arbitrary number there.

| Module | Theorem | Statement |
|---|---|---|
| `LoginProofs` | `StoreInvariant` | `Spec => []StoreInv` |
| | `TypeCorrect`, `ChannelSafety`, `ResolutionNotLost`, `NonceUsedOnce` | types; no send on or close of a closed channel; an accepted e-mail is never dropped; one callback per nonce |
| | `AuthenticationSound`, `CompletePageSound` | `[]AuthenticatedByMatch`, `[]CompleteMeansDelivered` |
| | `LimitsHold` | `[]StoreLimits` |
| | `Refinement` | the store implements `OneTimeLogin` |
| | `WebLoginSound`, `AccessSound` | `[]WebLoginInv` of `OAuthLogin`, `[]AccessInv` of `AuthFilter` |
| `RequestProofs` | `TokenInvariant`, `OneWinner`, `NoTokenRevival`, `LogoutSound` | `[]TokenInv` of `RefreshTokens`; one exchange per token; spent tokens stay spent; a token that ended a session was used for nothing else |
| | `StaleTokensHarmless` | `StaleTokenHarmless`, an action property |
| | `AdminSound` | `[]AdminInv` of `AdminViews` |
| | `InstancesSound`, `LiveRowsKept` | `[]InstancesInv`; `LiveServerKeepsRow`, an action property |
| `GatewayProofs` | `BackendsSound`, `HostKeysSound` | `[]AppBackendInv` of `AppGateway`, `[]HostKeyInv` of `HostKeyTrust` |
| | `KeysInvariant`, `LateUseImpossible` | `[]KeysInv` of `ConsoleKeys`; `NoLateUse`, an action property |
| `FunctionProofs` | `FunctionsInvariant`, `DeletionFinal`, `DatabasesSound` | the inductive invariant; `[]DataFollowsFunction`; `[]DatabasesInv` |
| | `ExecutionSound` | `[]ExecutionInv` of `FunctionExecution` |
| `ResourceProofs` | `DataSound`, `KeyPairsSound`, `ContainersSound`, `TransfersSound` | `[]DataStaysWithOwner` of `Volumes`, `[]KeyPairsInv`, `[]ContainersInv`, `[]TransferInv` |
| `GoroutineProofs` | `FlavorsSound`, `CacheMonotone` | the inductive invariant of `FlavorCache`; `CacheNeverOlder`, an action property |
| | `HandOffSound` | `[]HandOffInv` of the composition in `MCGoroutines` |
| `ServerProofs` | `ServerInvariant`, `DrainSound` | the inductive invariant of `ProxyServer`; `[]GracefulDrain` |
| | `ProcessesSound`, `ConsoleSound`, `GatewaySound` | the invariants of `Processes`, `ConsoleLiveness`, `GatewayServer` |
| | `ServersSound` | `[]ServersInv` of the composition in `MCServers` |
| `StoreProofs` | `DatabaseIntact` | columns, ids, unique indexes, references and NOT NULLs hold, always |
| | `IdentityKept` | `RowsKeepIdentity`, an action property |
| | `ReadsFaithful` | `[]ViewsInv` of `MCStore` |
| | `RecordsImplemented`, `StoreImplementsRecords` | `WritesImplementRecords` for the run; `Spec => Abstract!Spec` for `Repositories` with all its requests |

Each proof module extends the module of a run (`FunctionProofs` extends `FunctionParts`,
because `SqlScanner` is recursive; `StoreProofs` extends `MCStore`), so a theorem is about the very definition the run checks,
and about the specification of its component alone (`Web!Spec`, `Block!Spec`, …), where the
others need not rest. Sets that a run shares between components are arbitrary in the proofs
as well; who owns which instance (`OwnerOf` of `Volumes`) is a constant that only the run
fixes. The arguments have the same shape: the invariant that the run checks
contains its strengthening, so TLC has checked what the proof uses; it is read request by
request, one lemma says what a change of one request can disturb, and there is one lemma
per group of actions. What the invariants had to be strengthened with is the reason why the
code is right:

*The login store.* `NoPanic` is not inductive: nothing in it says why two goroutines that
touch the channel without the lock never do so both. `StoreInv` adds who holds the right
to the channel. While the nonce is in the map nobody has touched the channel
(`PendingInv`); whoever takes it out of the map is the only one: an expiry about to close
excludes every accepted callback (`CloserInv`), and an accepted callback finds the channel
open and empty and is the only one (`SenderInv`, `OneTimeUse`). `FreshInv` covers nonces
that were never entered, and `ValueInv` ties values and authenticated connections to
the callback they came from. `Refinement` uses the same invariant: a callback that is
accepted is the abstract grant, and every other step leaves the abstract login as it is or
loses it. `LimitsHold` counts the pending nonces with the finite-set theorems.

*Logins, tokens, filters.* `OAuthLogin` needs which nonce each cookie, URL and code in flight
belongs to. `AtMostOneWinner` needs that the token of a winner can never be active again, so
`TokenInv` carries the history `spent`: a winner's presented token is spent, the active
token is not, and a generated token is unknown to the row until its request stores it. The
compare-and-set then lets only one request win, and a logout that is told it cleared the row
is then the only request that used its token up (`LogoutIsFinal`). `AuthFilter` ties every token to a session
its user had within the token's lifetime. `AdminViews` needs how old a listing under way is
(`ListsFresh`), and how long each check has been running and which one renews the token
the others wait for (`ChecksSound`).

*Keys and gateways.* `ConsoleKeys`: calls in flight carry keys that were made once, and a
deletion is only answered when the key is gone. `HostKeyTrust`: the file consists of what
sessions accepted and the operator added (`vouched`). `AppGateway`: each cached value was
true when its look-up began, so its age is bounded by the time-to-live and one look-up.

*Functions.* The tombstone is the witness that a deleted function cannot get data again:
each request that has passed the check holds the mutex until its statement. A listed
database has its file unless its creation was answered with an error after the row was
there, since the deferred `os.Remove` then takes the file away (`denied`). In
`FunctionExecution` the slots are the requests that hold one, `NewVersions` and `KeysEnd`
say that a request reads the deployment and the key after it came in.

*OpenStack.* Between its check and its call a request relies on what the check saw, and
other requests can only make it harmlessly false: an owner does not change while a volume
exists (`Volumes`); a row that a compensation removes is its own or was given up
(`KeyPairs`); a server that is gone never comes back (`Instances`); a container without a
row is in one request's hands (`RequestInv` of `Containers`), and the two ways in which a
lost answer separates the stores, a container Swift made and a row `Save` added, are named
(`forgotten`, `halfDone`). `Transfers` needs per request
what its body consists of (`UploadHolds`, `DownloadHolds`, `ArchiveHolds`); no request
depends on another.

*Goroutines.* `ConsoleOutput`: the order in which `Close`, the loop and the pumps see the end
(`CloseOrder`). `GatewayRelay`: the relay is over for a reason (`OverForAReason`).
`DataProtocol`: a request has at most one reply, read, in the channel or in `Write`'s hands
(`Accounted`, `InPlace`), so up to one request beyond the limit there is room for a reply in
a channel with one place more than the limit (`NoBlockWithinLimit`). `FlavorCache`: one leader, whose list is no older
than the cache.

*Servers.* `ProxyServer`: slots, wait group and counters are sums over what the handlers
hold, and `Shutdown` sees `Serve`'s end before it waits. `GatewayServer`: `ServeEnds` orders
the accept loop's end before the drain, and a session owes the deletion of a key exactly
where its way out leads past one (`SlotsAndKeys`). `Processes`: `Orderly` orders signal, `Shutdown` and
exit. `ConsoleLiveness`: `Underway` says which parts of a console run in which state.
`HandOffSound` and `ServersSound` are about the compositions the runs check: a step of one
component leaves the others' variables alone.

*The database layer.* `Intact` says what the database is between two statements: rows have
the columns of their table, ids that were given out and no two the same, values that break
no unique index, reference or NOT NULL; names are not numbers, so an id is never taken for a
name, and no instance refers to a key pair. The last part is what makes `RowsKeepIdentity`
inductive: a deleted key pair would otherwise set a reference of an instance to NULL. There
is one lemma per operation of `EntStore` (create, upsert, update, delete) and one per
request; the request need not be one of the run's (`Request`).

`ReadsFaithful` is about reads of several statements with writes of other requests in
between, and no transaction around them. Per select the proof keeps what is known while the
read is under way: which rows it has seen, that they were there at some moment since the
read began, and that every row that was there all the time is among them once it has run
(`Seen`, `Covered`, `Loaded`, `CountRead`; `UnderWay` collects them). Two facts carry it: a
select picks exactly the rows that the query asks for (`Faithful`: the builders' predicates
against `Asked`), and what a commit in between adds to `ever` or takes away from `always` is
what it did to those rows. Pages need that full pages of later rows precede them (`OnPage`),
and that rows keep their creation time. An answer is then what its selects know, error or
not.

`RecordsImplemented`: because of the unique indexes the only row that matches is the record,
so each function of `Records` is the value of one row or nothing (`AccountOfRow`,
`InstanceOfRow`, …). A create brings a record that was not there, a delete takes one, an
update replaces one, and the other five functions stay because their rows and the owners'
rows do (`SameRows`, `OwnersStay`). A login is the only write that does two of these: a new
row when no account has the e-mail, else the columns that the conflict clause sets, which
leave the refresh token alone that the login did not bring (`UpsertUserRow`). Beside
`Intact` the proof needs that e-mails, identities and names in rows were brought by a
request (`Within`), and that a registration under way between its look-up and its insert
carries a host that somebody asked for (`HostsAsked`). The instance it found may be gone by
then; the reference makes the insert fail.

Assumptions, each as weak as the code justifies: limits and times are natural numbers, those
that the code requires to be positive are; `None`, `NoEmail`, `NoNonce`, `NoJTI`, `NoName`
and the like are no members of the sets they stand beside; sets that are counted are finite.
They are named (`VolumesAssumption`, `TransfersAssumption`, …) beside the constants, and the
`MC` modules assume them, so that TLC evaluates each for its instance.
`RepositoriesAssumption` says that NULL is no key, name or id, that names are not ids, and
that the values a request brings are neither NULL nor empty; `MCStoreAssumption` that the
two requests the run makes rows with are among the versions.

Only model-checked:

* liveness, fairness and `ENABLED` (`LoginsEnd`, `OutputNeverStalls`, `SessionEnds`,
  `CallsReturn`, `ListingsEnd`, `ServersMoveOn`, `ConsoleEnds`), which this prover cannot
  reason about;
* `ScannerAgrees`: what recursive definitions compute is out of the prover's reach.

## Seeded faults

Each property is shown to be able to fail: the definitions under "Seeded faults" in a
module are what one definition would be with a plausible bug, and with it the run reports
the property. No specification uses them.

| Property | Fault | in place of |
|---|---|---|
| `StoreInv` (logins) | `ExpireWithoutDelete` | `SshSessionStore!ExpireLocked` |
| `AuthenticatedByMatch` (logins) | `MatchIgnoresCode` | `SshSessionStore!ResolveMatch` |
| `StoreLimits` (logins) | `MismatchOffByOne` | `SshSessionStore!ResolveMismatch` |
| `CompleteMeansDelivered` (logins) | `ReplyBeforeSend` | `SshSessionStore!Reply` |
| `WebLoginInv` (logins) | `NonceNotCompared` | `OAuthLogin!ValidOAuthStateNonce` |
| `AccessInv` (logins) | `AnyValidToken` | `AuthFilter!AuthRequired` |
| `HandOffInv` (goroutines) | `StopWithoutFlush` | `ConsoleOutput!LoopDone` |
| `ImplementsOneTimeLogin` (goroutines) | `MatchKeepsNonce` | `SshSessionStore!ResolveMatch` |
| `CacheNeverOlder` (goroutines) | `RefreshStoresFailure` | `FlavorCache!RefreshStores` |
| `LoginsEnd` (goroutines) | `MismatchWithoutClose` | `SshSessionStore!ResolveMismatch` |
| `OutputNeverStalls` (goroutines) | `SendOkDrainsWake` | `ConsoleOutput!SendOk` |
| `SessionEnds` (goroutines) | `GraceWithoutTimeout` | `GatewayRelay!GraceOver` |
| `CallsReturn` (goroutines) | `PublishOnlySuccess` | `FlavorCache!LeadPublishes` |
| `TokenInv` (api_requests) | `LookupReusesToken` | `RefreshTokens!RefreshLookup` |
| `AtMostOneWinner` (api_requests) | `RotateUnconditionally` | `RefreshTokens!RefreshRotate` |
| `LogoutIsFinal` (api_requests) | `ClearForgotten` | `RefreshTokens!LogoutClear` |
| `StaleTokenHarmless` (api_requests) | `ClearUnconditionally` | `RefreshTokens!LogoutClear` |
| `InstancesInv` (api_requests) | `SaveFailsWithoutUndo` | `Instances!SaveInstanceFails` |
| `AdminInv` (api_requests) | `SystemTickInTurn` | `AdminViews!SystemTick` |
| `LiveServerKeepsRow` (api_requests) | `PruneUnconfirmed` | `Instances!ConfirmStale` |
| `ListingsEnd` (api_requests) | `ListFailsLocked` | `AdminViews!FetchFails` |
| `AppBackendInv` (gateways) | `AddressHitSlidesExpiry` | `AppGateway!AddressHit` |
| `KeysInv` (gateways) | `TakeKeepsToken` | `ConsoleKeys!Take` |
| `HostKeyInv` (gateways) | `AppendErrorIgnored` | `HostKeyTrust!TrustFails` |
| `NoLateUse` (gateways) | `AuthorizedKeysUnpurged` | `ConsoleKeys!AuthorizedKeysHas` |
| `DataFollowsFunction` (functions) | `PutWithoutTombstone` | `FunctionStore!Put` |
| `DatabasesInv` (functions) | `ExecCreatesFile` | `FunctionStore!Exec` |
| `ExecutionInv` (functions) | `TimeoutKeepsSlot` | `FunctionExecution!RunEnds` |
| `ScannerAgrees` (functions) | `UndoubledQuote` | `SqlScanner!AfterQuote` |
| `ContainersInv` (resources) | `CleanupByName` | `Containers!Cleanup` |
| `KeyPairsInv` (resources) | `ConflictIgnored` | `KeyPairs!CreateNova` |
| `DataStaysWithOwner` (resources) | `ResolvesAnySnapshot` | `Volumes!ResolveSnapshot` |
| `TransferInv` (resources) | `SniffKeepsPrefix` | `Transfers!Sniff` |
| `ServersInv` (servers) | `StartWithoutSlot` | `ProxyServer!Start` |
| `GracefulDrain` (servers) | `ShutdownWithoutServeDone` | `ProxyServer!ServeDoneSeen` |
| `ServersMoveOn` (servers) | `LookupFailsUndrained` | `GatewayServer!LookupFails` |
| `ConsoleEnds` (servers) | `VerdictOnlyLogged` | `ConsoleLiveness!Verdict` |
| `ViewsInv` (store) | `InstanceOfAnyone` | `Repositories!InstanceOf` |
| `WritesImplementRecords` (store) | `UpsertUserErases` | `Repositories!UpsertUser` |
| `RowsKeepIdentity` (store) | `ResolveWithNewValues` | `Repositories!UpsertUser` |

Other definitions under that heading are faults of single parts of those conjunctions,
for example `TakeKeepsToken` beside `DeleteAfterPurgeOnly`, or `ExitWithoutWaiting` in
`Processes`.

## Findings

* **An instance with an app cannot be deleted cleanly** (`instances_delete_with_app`).
  `DeleteInstance` deletes the server and then the row, but the foreign key of an apps row
  makes the second statement fail. The server is gone, the row stays, a retry ends at
  OpenStack's 404 and pruning fails on the same key, until the app is deleted first.
  (`compute/service.go:442`, `ent/migrate/schema.go:29`.)
* **A slow delete can remove the row of a new container of the same name**
  (`container_recreated`). `DeleteContainer` resolves the Swift container at its
  beginning and deletes the row by name at its end. Between two overlapping deletes the
  name can be used again, and the second one removes the new row: the new container is
  orphaned without a log line. (`storage/service.go:132`.)
* **A web console whose VM hangs is not torn down** (`console_verdict`). The watcher
  notices that the VM does not answer and cancels the relay, which then closes the
  session and waits for that VM's answer without a limit (`access/handler.go:400`). As long
  as the connection does not break, the browser's socket, the pumps and the connection
  through ns-proxy are kept. The SSH gateway gives up after five seconds in the same
  place (`ssh-gateway/relay.go:227`), if no write to that VM blocks before.
* **A broken download or archive ends like a complete one** (`archive`). When an object
  fails in the middle of an archive, `zw.Close` writes a valid directory and the handler
  returns, so the client gets a readable archive that lacks entries; a download without
  `Content-Length` ends cleanly too. The comment at `storage/handler.go:194` says that the
  stream is aborted.

Two documents disagree with the code without a run of their own.
`docs/ssh-gateway-operations.md:39` says of the VMs' host keys that "Missing or mismatched
keys fail closed." A mismatched key does; a missing one is accepted and appended, by the
gateway and by the web console, as the names and the tests of those functions say.
`HostKeyInv` states what trust on first use still guarantees.

The repository's `README.md:340` says that deleting a database removes the bindings of all
functions. One that is made while its database is deleted stays behind; reads join with the
database and never show it.

Behaviour that the models reach and that no document forbids is recorded as a hazard with a
note: concurrent PATCH requests undo each other, a padded container name leaves its row,
an insertion whose answer is lost leaves a listed database without its file or a
container's row without its container, the late answer to one tab's callback ends the
login another tab has just begun, an expired address is used while OpenStack
fails, a volume in status error cannot be deleted, the gateway's mux can be blocked at the
menu or by a silent VM, the gateway exits without waiting for its sessions' last calls, an app gateway that
cannot listen exits with status 0 and is not restarted, the API is ended by a signal with
its requests, and an app registered on an instance that is just being deleted is refused
as an existing host.

## What is not modelled

| Part | Why |
|---|---|
| Configuration, key generation, routes, CORS, Sentry | sequential, no shared state |
| Renaming a volume, listings of OpenStack's catalogues | names only |
| HTTP envelope of functions, HTTP handlers | parsing and error mapping |
| SOCKS5 rules and allow list | a library, and one predicate |
| Diagnostics of instances | one OpenStack call whose failure is ignored |
| Contents of SQLite files, objects and functions | data |
| ent's transactions, hooks, bulk builders, aggregates and the predicates no repository uses | nothing calls them |
| Infrastructure clients, deployment scripts, examples | no state machine of the repository's own |

Also left out inside modelled parts: more than one owner, except in `KeyPairs`, `Volumes`
and `Repositories` (elsewhere every statement names the owner, and `Repositories` shows that
rows of different owners do not meet), and cancellation of a request's context by
its client, except as a failing call.

## Plan

Done: the inventory, the modules above, their runs, and a proof of every safety property
but `ScannerAgrees` and of both refinements. What could follow, most useful first:

1. several owners in `Containers` and `FunctionStore`, where now the statements' owner
   predicates stand for them (`Repositories` has several owners);
2. the configuration of the SSH gateway and the allow list of the SOCKS5 proxy, as pure
   functions against a reference;
3. proofs of the leads-to properties, for a prover that can reason about `ENABLED`.
