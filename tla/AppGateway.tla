----------------------------- MODULE AppGateway ------------------------------
(***************************************************************************)
(* The app gateway: one public host, the instances it may be mapped to,    *)
(* and the two caches between a request and its target.  The host cache    *)
(* keeps the target of the host, the address cache the address of each     *)
(* instance; a look-up that misses both goes to the database and to        *)
(* OpenStack and takes a while, during which the mapping and the addresses *)
(* may change.  An address that is given up may be given to another        *)
(* instance.                                                               *)
(*                                                                         *)
(* Time is in ticks.  Cache entries are kept with the time they have left, *)
(* and the history with the time that has passed since a fact was true,    *)
(* up to Forever.  A request takes at most MaxDelay ticks (the code gives  *)
(* the address look-up 15 seconds).                                        *)
(***************************************************************************)
EXTENDS Naturals, FiniteSets

CONSTANTS
    Instances, Addresses, Requests, None,
    HostTTL,    \* hostCacheTTL
    AddressTTL, \* RCP_APP_GW_FIXED_IP_CACHE_TTL
    MaxDelay    \* the longest a request takes

AppGatewayAssumption ==
    /\ HostTTL \in Nat /\ AddressTTL \in Nat \ {0} /\ MaxDelay \in Nat
    /\ None \notin Instances \cup Addresses

VARIABLES
    app,        \* the instance the host is mapped to, or None
    address,    \* the address of each instance in OpenStack, None if it is gone
    hostCache,  \* None or [instance, address, stale, left]
    addrCache,  \* per instance None or [address, left]
    req,        \* what each request is doing
    mappedAgo,  \* history: ticks since the host was mapped to the instance
    hadAgo      \* history: ticks since the instance had the address

vars == <<app, address, hostCache, addrCache, req, mappedAgo, hadAgo>>

MappingBound == HostTTL + 2 * MaxDelay
AddressBound == (AddressTTL - 1) + HostTTL + 2 * MaxDelay
Forever == AddressBound + 1

PC == {"idle", "find", "resolve", "ask", "answered", "failed", "store", "proxy"}

HostEntry == [instance : Instances, address : Addresses, stale : BOOLEAN, left : 0 .. HostTTL]
AddressEntry == [address : Addresses, left : 0 .. AddressTTL]
Request == [pc : PC, instance : Instances \cup {None}, address : Addresses \cup {None},
            stale : BOOLEAN, age : 0 .. MaxDelay, asked : 0 .. MaxDelay]

TypeOK ==
    /\ app \in Instances \cup {None}
    /\ address \in [Instances -> Addresses \cup {None}]
    /\ hostCache \in {None} \cup HostEntry
    /\ addrCache \in [Instances -> {None} \cup AddressEntry]
    /\ req \in [Requests -> Request]
    /\ mappedAgo \in [Instances -> 0 .. Forever]
    /\ hadAgo \in [Instances -> [Addresses -> 0 .. Forever]]

Idle == [pc |-> "idle", instance |-> None, address |-> None, stale |-> FALSE, age |-> 0, asked |-> 0]

Init ==
    /\ app = None
    /\ address \in [Instances -> Addresses \cup {None}]
    /\ \A i, j \in Instances : i # j /\ address[i] # None => address[i] # address[j]
    /\ hostCache = None
    /\ addrCache = [i \in Instances |-> None]
    /\ req = [r \in Requests |-> Idle]
    /\ mappedAgo = [i \in Instances |-> Forever]
    /\ hadAgo = [i \in Instances |-> [a \in Addresses |-> IF address[i] = a THEN 0 ELSE Forever]]

world == <<app, address, mappedAgo, hadAgo>>

-----------------------------------------------------------------------------
(* Seeded faults: what the definitions below would be with a plausible bug. *)

AddressHitSlidesExpiry(r) ==
    /\ req[r].pc = "resolve" /\ addrCache[req[r].instance] # None
    /\ addrCache' = [addrCache EXCEPT ![req[r].instance].left = AddressTTL]
    /\ req' = [req EXCEPT ![r].pc = "store", ![r].address = addrCache[req[r].instance].address]
    /\ UNCHANGED <<world, hostCache>>

StoreForLooksUpHost(r) ==
    /\ req[r].pc = "store"
    /\ hostCache' = [instance |-> IF app = None THEN req[r].instance ELSE app,
                     address |-> req[r].address, stale |-> req[r].stale, left |-> HostTTL]
    /\ req' = [req EXCEPT ![r].pc = "proxy"]
    /\ UNCHANGED <<world, addrCache>>

-----------------------------------------------------------------------------
(* Apps and instances *)

\* RegisterApp: one host per app and one app per instance, by unique indexes.
Register(i) ==
    /\ app = None
    /\ app' = i
    /\ mappedAgo' = [mappedAgo EXCEPT ![i] = 0]
    /\ UNCHANGED <<address, hadAgo, hostCache, addrCache, req>>

Unregister ==
    /\ app # None
    /\ app' = None
    /\ UNCHANGED <<address, mappedAgo, hadAgo, hostCache, addrCache, req>>

\* OpenStack gives an instance another address, or none when it is deleted.
Readdress(i, a) ==
    /\ address[i] # a
    /\ a # None => \A j \in Instances : address[j] # a
    /\ address' = [address EXCEPT ![i] = a]
    /\ hadAgo' = IF a = None THEN hadAgo ELSE [hadAgo EXCEPT ![i][a] = 0]
    /\ UNCHANGED <<app, mappedAgo, hostCache, addrCache, req>>

Older(n) == IF n < Forever THEN n + 1 ELSE n

\* A tick: what is true now stays fresh, the rest gets older; no request is
\* under way for longer than MaxDelay.
Tick ==
    /\ \A r \in Requests : req[r].pc # "idle" => req[r].age < MaxDelay
    /\ mappedAgo' = [i \in Instances |-> IF app = i THEN 0 ELSE Older(mappedAgo[i])]
    /\ hadAgo' = [i \in Instances |-> [a \in Addresses |->
                    IF address[i] = a THEN 0 ELSE Older(hadAgo[i][a])]]
    /\ hostCache' = IF hostCache = None \/ hostCache.left = 0 THEN None
                    ELSE [hostCache EXCEPT !.left = @ - 1]
    /\ addrCache' = [i \in Instances |->
                        IF addrCache[i] = None \/ addrCache[i].left = 0 THEN addrCache[i]
                        ELSE [addrCache[i] EXCEPT !.left = @ - 1]]
    /\ req' = [r \in Requests |->
                IF req[r].pc = "idle" THEN req[r]
                ELSE [req[r] EXCEPT !.age = @ + 1,
                                    !.asked = IF req[r].pc \in {"ask", "answered"} THEN @ + 1 ELSE @]]
    /\ UNCHANGED <<app, address>>

-----------------------------------------------------------------------------
(* ServeHTTP *)

Hit(r) ==
    /\ req[r].pc = "idle" /\ hostCache # None
    /\ req' = [req EXCEPT ![r] = [Idle EXCEPT !.pc = "proxy", !.instance = hostCache.instance,
                                  !.address = hostCache.address, !.stale = hostCache.stale]]
    /\ UNCHANGED <<world, hostCache, addrCache>>

Miss(r) ==
    /\ req[r].pc = "idle" /\ hostCache = None
    /\ req' = [req EXCEPT ![r].pc = "find"]
    /\ UNCHANGED <<world, hostCache, addrCache>>

\* FindByHost: the instance, or 404.
FindByHost(r) ==
    /\ req[r].pc = "find"
    /\ req' = [req EXCEPT ![r] = IF app = None THEN Idle
                                 ELSE [@ EXCEPT !.pc = "resolve", !.instance = app]]
    /\ UNCHANGED <<world, hostCache, addrCache>>

Live(i) == addrCache[i] # None /\ addrCache[i].left > 0

\* ResolveFixedIPv4 of the cache: a live entry, or ask OpenStack and remember the
\* expired entry if there is one.
AddressHit(r) ==
    /\ req[r].pc = "resolve" /\ Live(req[r].instance)
    /\ req' = [req EXCEPT ![r].pc = "store", ![r].address = addrCache[req[r].instance].address]
    /\ UNCHANGED <<world, hostCache, addrCache>>

AddressMiss(r) ==
    LET e == addrCache[req[r].instance] IN
    /\ req[r].pc = "resolve" /\ ~Live(req[r].instance)
    /\ req' = [req EXCEPT ![r].pc = "ask", ![r].address = IF e = None THEN None ELSE e.address]
    /\ UNCHANGED <<world, hostCache, addrCache>>

\* OpenStack answers with the address the instance has now, or fails.
Answer(r) ==
    LET a == address[req[r].instance] IN
    /\ req[r].pc = "ask" /\ a # None
    /\ req' = [req EXCEPT ![r].pc = "answered", ![r].address = a]
    /\ UNCHANGED <<world, hostCache, addrCache>>

AnswerFails(r) ==
    /\ req[r].pc = "ask"
    /\ req' = [req EXCEPT ![r].pc = "failed"]
    /\ UNCHANGED <<world, hostCache, addrCache>>

\* The entry lives AddressTTL from before the question was asked; of two look-ups
\* the one that comes back last decides.
Keep(i, a, left) == [addrCache EXCEPT ![i] = [address |-> a, left |-> left]]

CacheAddress(r) ==
    LET left == IF AddressTTL > req[r].asked THEN AddressTTL - req[r].asked ELSE 0 IN
    /\ req[r].pc = "answered"
    /\ addrCache' = Keep(req[r].instance, req[r].address, left)
    /\ req' = [req EXCEPT ![r].pc = "store"]
    /\ UNCHANGED <<world, hostCache>>

\* A failed refresh falls back to the expired entry, however old it is.
FallBack(r) ==
    /\ req[r].pc = "failed" /\ req[r].address # None
    /\ req' = [req EXCEPT ![r].pc = "store", ![r].stale = TRUE]
    /\ UNCHANGED <<world, hostCache, addrCache>>

BadGateway(r) ==
    /\ req[r].pc = "failed" /\ req[r].address = None
    /\ req' = [req EXCEPT ![r] = Idle]
    /\ UNCHANGED <<world, hostCache, addrCache>>

StoreBackend(r) ==
    /\ req[r].pc = "store"
    /\ hostCache' = [instance |-> req[r].instance, address |-> req[r].address,
                     stale |-> req[r].stale, left |-> HostTTL]
    /\ req' = [req EXCEPT ![r].pc = "proxy"]
    /\ UNCHANGED <<world, addrCache>>

\* The reverse proxy has dialled its target.
Proxy(r) ==
    /\ req[r].pc = "proxy"
    /\ req' = [req EXCEPT ![r] = Idle]
    /\ UNCHANGED <<world, hostCache, addrCache>>

-----------------------------------------------------------------------------

Step(r) ==
    \/ FindByHost(r) \/ AddressHit(r) \/ AddressMiss(r) \/ Answer(r) \/ AnswerFails(r)
    \/ CacheAddress(r) \/ FallBack(r) \/ BadGateway(r) \/ StoreBackend(r) \/ Proxy(r)

Next ==
    \/ \E i \in Instances : Register(i) \/ \E a \in Addresses \cup {None} : Readdress(i, a)
    \/ Unregister
    \/ Tick
    \/ \E r \in Requests : Hit(r) \/ Miss(r) \/ Step(r)

Spec == Init /\ [][Next]_vars

-----------------------------------------------------------------------------
(* Properties *)

\* A request is proxied only to an instance that the host was mapped to a short
\* while ago: unregistering or moving an app takes effect after the host cache's
\* time and the longest look-up, whatever requests overlap with it.
MappingFresh ==
    \A r \in Requests : req[r].pc = "proxy" => mappedAgo[req[r].instance] <= MappingBound

\* Unless OpenStack could not be asked, a request is proxied only to an address
\* that its instance had within the time the two caches and the look-ups take:
\* an address that has gone to another instance is not used beyond that.
AddressFresh ==
    \A r \in Requests :
        req[r].pc = "proxy" /\ ~req[r].stale =>
            hadAgo[req[r].instance][req[r].address] <= AddressBound

\* Target and instance of a cached backend belong together, also after a move
\* of the app that overlaps a look-up: the address is one the instance had.
BackendConsistent ==
    hostCache # None => hadAgo[hostCache.instance][hostCache.address] < Forever \/ hostCache.stale

-----------------------------------------------------------------------------
(* What the caches and the requests under way rely on: how long ago it was true *)

NowTrue ==
    /\ app # None => mappedAgo[app] = 0
    /\ \A i \in Instances : address[i] # None => hadAgo[i][address[i]] = 0

\* An entry of the host cache has used up one tick of its time per tick.
HostEntryFresh ==
    hostCache # None =>
        /\ mappedAgo[hostCache.instance] + hostCache.left <= HostTTL + MaxDelay
        /\ ~hostCache.stale =>
            hadAgo[hostCache.instance][hostCache.address] + hostCache.left
                <= (AddressTTL - 1) + HostTTL + MaxDelay

\* So has a live entry of the address cache; nothing is known of an expired one.
AddressEntryFresh ==
    \A i \in Instances :
        Live(i) => hadAgo[i][addrCache[i].address] + addrCache[i].left <= AddressTTL

\* The instance was found by this request; the address was there when OpenStack was asked,
\* or comes from an entry that was live.
RequestFresh(r) ==
    /\ req[r].asked <= req[r].age
    /\ req[r].pc \in {"resolve", "ask", "answered", "failed", "store"} =>
        req[r].instance \in Instances /\ mappedAgo[req[r].instance] <= req[r].age
    /\ req[r].pc \in {"answered", "store", "proxy"} => req[r].address \in Addresses
    /\ req[r].pc = "answered" => hadAgo[req[r].instance][req[r].address] <= req[r].asked
    /\ req[r].pc = "store" /\ ~req[r].stale =>
        hadAgo[req[r].instance][req[r].address] <= (AddressTTL - 1) + req[r].age
    /\ req[r].pc = "proxy" =>
        /\ req[r].instance \in Instances
        /\ mappedAgo[req[r].instance] <= HostTTL + MaxDelay + req[r].age
        /\ ~req[r].stale =>
            hadAgo[req[r].instance][req[r].address]
                <= (AddressTTL - 1) + HostTTL + MaxDelay + req[r].age

\* What a request is proxied to belongs to the app it asked for, and neither the mapping nor
\* the address it uses is older than the two caches and the look-ups allow
\* (cmd/app-gateway/server.go:95, resolver_cache.go:42).
AppBackendInv ==
    /\ TypeOK /\ MappingFresh /\ AddressFresh /\ BackendConsistent
    /\ NowTrue /\ HostEntryFresh /\ AddressEntryFresh /\ \A r \in Requests : RequestFresh(r)
=============================================================================
