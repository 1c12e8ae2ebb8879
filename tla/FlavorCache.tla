----------------------------- MODULE FlavorCache -----------------------------
(***************************************************************************)
(* The flavor list behind fetchFlavors.  A fresh cache is returned as it   *)
(* is; a stale one is returned too, and one background refresh is started; *)
(* with an empty cache one caller fetches outside the lock and the others  *)
(* wait for its result.  A list is known by the version of OpenStack's     *)
(* flavors it shows; some versions have no flavors at all, and an empty    *)
(* list does not count as a cache.                                         *)
(***************************************************************************)
EXTENDS Naturals

CONSTANTS
    Callers,        \* calls of fetchFlavors, one each
    NoCaller,       \* no fetch in flight
    MaxVersion,     \* bound on changes of the flavors in OpenStack
    EmptyVersions   \* versions whose list is empty

FlavorCacheAssumption == NoCaller \notin Callers /\ MaxVersion \in Nat \ {0}

VARIABLES
    backend,     \* version in OpenStack
    cache,       \* flavorCache: version, 0 before the first fetch
    fresh,       \* now is before flavorExpire
    refreshing,  \* flavorRefreshing and the refresh goroutine: its state
    refreshGot,  \* the version the refresh has read
    inflight,    \* flavorInflight: the caller that leads the fetch
    call,        \* state of each call
    fetch        \* the flavorFetch each leader made: what done published

vars == <<backend, cache, fresh, refreshing, refreshGot, inflight, call, fetch>>

Versions == 0 .. MaxVersion
\* A failed fetch yields version 0.
Failed == 0

Call ==
    [pc : {"idle", "lead", "answered", "publish", "wait", "done"},
     on : Callers \cup {NoCaller},
     result : Versions]

TypeOK ==
    /\ backend \in 1 .. MaxVersion
    /\ cache \in Versions
    /\ fresh \in BOOLEAN /\ (fresh => cache # 0)
    /\ refreshing \in {"no", "asked", "answered"}
    /\ refreshGot \in Versions
    /\ inflight \in Callers \cup {NoCaller}
    /\ call \in [Callers -> Call]
    /\ fetch \in [Callers -> [done : BOOLEAN, result : Versions]]

Init ==
    /\ backend = 1
    /\ cache = 0
    /\ fresh = FALSE
    /\ refreshing = "no"
    /\ refreshGot = 0
    /\ inflight = NoCaller
    /\ call = [c \in Callers |-> [pc |-> "idle", on |-> NoCaller, result |-> 0]]
    /\ fetch = [c \in Callers |-> [done |-> FALSE, result |-> 0]]

Empty(v) == v = 0 \/ v \in EmptyVersions

Enter(c, pc, on, v) ==
    call' = [call EXCEPT ![c] = [pc |-> pc, on |-> on, result |-> v]]

\* Under the lock, a successful answer replaces the cache and its expiry.
Store(v) ==
    IF v = Failed THEN UNCHANGED <<cache, fresh>>
                  ELSE cache' = v /\ fresh' = TRUE

-----------------------------------------------------------------------------
(* Seeded faults: what the definitions below would be with a plausible bug. *)

JoinIgnored(c) ==
    /\ call[c].pc = "idle" /\ ~fresh /\ Empty(cache)
    /\ inflight' = c
    /\ Enter(c, "lead", NoCaller, 0)
    /\ UNCHANGED <<backend, cache, fresh, refreshing, refreshGot, fetch>>

PublishOnlySuccess(c) ==
    /\ call[c].pc = "publish"
    /\ fetch' = [fetch EXCEPT ![c] = [done |-> call[c].result # Failed, result |-> call[c].result]]
    /\ call' = [call EXCEPT ![c].pc = "done"]
    /\ UNCHANGED <<backend, cache, fresh, refreshing, refreshGot, inflight>>

RefreshStoresFailure ==
    /\ refreshing = "answered"
    /\ cache' = refreshGot /\ fresh' = TRUE
    /\ refreshing' = "no"
    /\ UNCHANGED <<backend, refreshGot, inflight, call, fetch>>

-----------------------------------------------------------------------------
(* fetchFlavors: what a call does when it gets the lock *)

ReturnFresh(c) ==
    /\ call[c].pc = "idle" /\ fresh
    /\ Enter(c, "done", NoCaller, cache)
    /\ UNCHANGED <<backend, cache, fresh, refreshing, refreshGot, inflight, fetch>>

ReturnStale(c) ==
    /\ call[c].pc = "idle" /\ ~fresh /\ ~Empty(cache)
    /\ refreshing' = IF refreshing = "no" THEN "asked" ELSE refreshing
    /\ Enter(c, "done", NoCaller, cache)
    /\ UNCHANGED <<backend, cache, fresh, refreshGot, inflight, fetch>>

Join(c) ==
    /\ call[c].pc = "idle" /\ ~fresh /\ Empty(cache) /\ inflight # NoCaller
    /\ Enter(c, "wait", inflight, 0)
    /\ UNCHANGED <<backend, cache, fresh, refreshing, refreshGot, inflight, fetch>>

Lead(c) ==
    /\ call[c].pc = "idle" /\ ~fresh /\ Empty(cache) /\ inflight = NoCaller
    /\ inflight' = c
    /\ Enter(c, "lead", NoCaller, 0)
    /\ UNCHANGED <<backend, cache, fresh, refreshing, refreshGot, fetch>>

\* FetchFlavors, outside the lock: an answer or an error.
LeadAnswered(c) ==
    /\ call[c].pc = "lead"
    /\ \E v \in {Failed, backend} :
          call' = [call EXCEPT ![c].pc = "answered", ![c].result = v]
    /\ UNCHANGED <<backend, cache, fresh, refreshing, refreshGot, inflight, fetch>>

LeadStores(c) ==
    /\ call[c].pc = "answered"
    /\ Store(call[c].result)
    /\ inflight' = NoCaller
    /\ call' = [call EXCEPT ![c].pc = "publish"]
    /\ UNCHANGED <<backend, refreshing, refreshGot, fetch>>

\* result and err are set after the unlock, then done is closed.
LeadPublishes(c) ==
    /\ call[c].pc = "publish"
    /\ fetch' = [fetch EXCEPT ![c] = [done |-> TRUE, result |-> call[c].result]]
    /\ call' = [call EXCEPT ![c].pc = "done"]
    /\ UNCHANGED <<backend, cache, fresh, refreshing, refreshGot, inflight>>

WaitReturns(c) ==
    /\ call[c].pc = "wait" /\ fetch[call[c].on].done
    /\ call' = [call EXCEPT ![c].pc = "done", ![c].result = fetch[call[c].on].result]
    /\ UNCHANGED <<backend, cache, fresh, refreshing, refreshGot, inflight, fetch>>

-----------------------------------------------------------------------------
(* refreshFlavorsStale, OpenStack and time *)

RefreshAnswered ==
    /\ refreshing = "asked"
    /\ refreshing' = "answered"
    /\ refreshGot' \in {Failed, backend}
    /\ UNCHANGED <<backend, cache, fresh, inflight, call, fetch>>

RefreshStores ==
    /\ refreshing = "answered"
    /\ Store(refreshGot)
    /\ refreshing' = "no"
    /\ UNCHANGED <<backend, refreshGot, inflight, call, fetch>>

BackendChanges ==
    /\ backend < MaxVersion
    /\ backend' = backend + 1
    /\ UNCHANGED <<cache, fresh, refreshing, refreshGot, inflight, call, fetch>>

CacheExpires ==
    /\ fresh
    /\ fresh' = FALSE
    /\ UNCHANGED <<backend, cache, refreshing, refreshGot, inflight, call, fetch>>

-----------------------------------------------------------------------------

Lookup(c) == ReturnFresh(c) \/ ReturnStale(c) \/ Join(c) \/ Lead(c)
Work(c) == LeadAnswered(c) \/ LeadStores(c) \/ LeadPublishes(c) \/ WaitReturns(c)

Next ==
    \/ \E c \in Callers : Lookup(c) \/ Work(c)
    \/ RefreshAnswered \/ RefreshStores
    \/ BackendChanges \/ CacheExpires

\* Goroutines run, and the OpenStack client's calls return.
Fairness ==
    /\ \A c \in Callers : WF_vars(Work(c))
    /\ WF_vars(RefreshAnswered \/ RefreshStores)

Spec == Init /\ [][Next]_vars /\ Fairness

-----------------------------------------------------------------------------
(* Properties *)

Leading == {c \in Callers : call[c].pc \in {"lead", "answered"}}

\* At most one call to OpenStack for flavors is under way at any time, leader
\* and background refresh together, also when the list becomes empty.
OneFetch ==
    /\ \A c, d \in Leading : c = d
    /\ Leading # {} => refreshing = "no"

\* The cache never goes back to an older list, and a failed refresh never
\* drops the list there is (service.go:127).
CacheNeverOlder == [][cache' >= cache]_vars

\* Who waits for another call's fetch gets what that fetch got.
SharedResult ==
    \A c \in Callers : call[c].pc = "done" /\ call[c].on # NoCaller =>
        call[c].result = call[call[c].on].result

\* Why one fetch is under way at most: a leader starts only while there is nothing to
\* return and a refresh only while there is something, and nobody else stores meanwhile.
OneSource ==
    /\ \A c \in Callers : c \in Leading <=> inflight = c
    /\ inflight # NoCaller => Empty(cache) /\ ~fresh
    /\ refreshing # "no" => ~Empty(cache)

\* A list that was fetched and is not stored yet is not older than the cache.
NewerThanCache(v) == v = Failed \/ v \in cache .. backend

AnswersCurrent ==
    /\ cache <= backend
    /\ \A c \in Callers : call[c].pc = "answered" => NewerThanCache(call[c].result)
    /\ refreshing = "answered" => NewerThanCache(refreshGot)

\* done is closed once, after the result is set for good, and a call waits for a leader.
Final(c) ==
    /\ fetch[c].done => call[c].pc = "done" /\ fetch[c].result = call[c].result
    /\ call[c].pc = "wait" => call[c].on # NoCaller
    /\ call[c].on # NoCaller => /\ call[c].pc \in {"wait", "done"}
                                /\ call[call[c].on].pc # "idle"
                                /\ call[c].pc = "done" =>
                                    /\ fetch[call[c].on].done
                                    /\ call[c].result = fetch[call[c].on].result

ResultFinal == \A c \in Callers : Final(c)

FlavorsInv ==
    TypeOK /\ OneFetch /\ SharedResult /\ OneSource /\ AnswersCurrent /\ ResultFinal

\* Every waiting call returns, also when the fetch it waits for fails.
WaitersReturn == \A c \in Callers : call[c].pc = "wait" ~> call[c].pc = "done"
=============================================================================
