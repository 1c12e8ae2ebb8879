----------------------------- MODULE AdminViews ------------------------------
(***************************************************************************)
(* The administrator's views as far as they are not rows of the database   *)
(* (internal/domain/admin): the live statuses that lists, details and the  *)
(* summary put over the recorded ones, through a cache whose mutex is held *)
(* during the listing; and the health checks of the system page.  The two  *)
(* share no state, so that requests of one kind run while the other rests. *)
(* Time passes in ticks; the rows a view begins with are read by one step  *)
(* (Repositories has their statements).                                    *)
(***************************************************************************)
EXTENDS Naturals, FiniteSets

CONSTANTS
    Servers, Requests,
    Statuses,       \* what OpenStack reports; never the empty string
    Gone,           \* of a server OpenStack does not have
    Nobody,         \* the mutex is free
    TTL,            \* statusCacheTTL
    MaxDelay,       \* bound: ticks until a listing is answered or fails
    Services,       \* what the system page checks
    Configured,     \* those of them that have an address
    ViaKeystone,    \* those of them that are asked with a token of the shared provider
    Timeout,        \* of a health check
    MaxReauth       \* bound: ticks until the last reauthentication of a page ends (the HTTP
                    \* client's limit for each)

AdminViewsAssumption ==
    /\ TTL \in Nat \ {0} /\ MaxDelay \in Nat
    /\ Timeout \in Nat /\ MaxReauth \in Nat /\ Services # {}

VARIABLES
    live,       \* live[s]: the status in OpenStack
    past,       \* history: what was true of servers, with the ticks since it ended
    rows,       \* servers that have a row
    unborn,     \* ids not yet given to a server
    cache,      \* liveInstanceStatusSource: the listing and the ticks until it expires
    mu,         \* the request that holds the mutex
    req,        \* the requests
    health,     \* health[v]: "up", or "down" (refuses); either may take its time
    check       \* the request for the system page and its goroutines

viewVars == <<live, past, rows, unborn, cache, mu, req>>
systemVars == <<health, check>>
vars == <<viewVars, systemVars>>

Idle == [at |-> "idle"]
Resting == [at |-> "idle", elapsed |-> 0, renewed |-> {}]
AllUp == [v \in Services |-> "up"]
Stale == TTL + MaxDelay - 1
Unavailable == [s \in Servers |-> Gone]     \* a listing without entries
Expired == [list |-> Unavailable, left |-> 0]

Listing == [Servers -> Statuses \cup {Gone}]

\* A request before its answer: it waits for the mutex, or OpenStack was asked `age` ago.
Waiting == [at : {"wait"}, items : SUBSET Servers]
Asking == [at : {"list", "one"}, items : SUBSET Servers, list : Listing, age : 0..MaxDelay]

\* A check calls its service, renews the token ("reauth"), or waits until another check has
\* renewed it ("await").
Unfinished == {"running", "reauth", "await"}

\* renewed: the checks whose call was refused for its token (401).
Checking ==
    [at : {"checking", "answered"}, elapsed : 0..MaxReauth, renewed : SUBSET Services,
     run : [Services -> Unfinished \cup {"healthy", "unhealthy", "unconfigured"}],
     age : [Services -> 0..Timeout], seen : [Services -> SUBSET {"up", "down"}]]

TypeOK ==
    /\ live \in Listing
    /\ past \subseteq [server : Servers, status : Statuses \cup {Gone}, age : 0..Stale]
    /\ rows \subseteq Servers /\ unborn \subseteq Servers
    /\ cache \in [list : Listing, left : 0..TTL]
    /\ mu \in Requests \cup {Nobody}
    /\ req = [r \in Requests |-> req[r]]
    /\ \A r \in Requests : req[r] \in {Idle} \cup Waiting \cup Asking \/ req[r].at = "answered"
    /\ health \in [Services -> {"up", "down"}]
    /\ check = Resting \/ check \in Checking

Init ==
    /\ live = [s \in Servers |-> Gone]
    /\ past = {}
    /\ rows = {}
    /\ unborn = Servers
    /\ cache = Expired
    /\ mu = Nobody
    /\ req = [r \in Requests |-> Idle]
    /\ health = AllUp
    /\ check = Resting

-----------------------------------------------------------------------------
(* What a view shows of the rows it read.                                  *)

\* A live status replaces the recorded one, which stays if the list has no entry.
overlayLiveStatuses(items, list) ==
    [s \in items |-> IF list[s] # Gone THEN <<"live", list[s]>> ELSE <<"recorded", Gone>>]

\* Answers are taken at once.  failed: OpenStack did not answer this request.
Shown(items, list, failed) ==
    [at |-> "answered", shown |-> overlayLiveStatuses(items, list), failed |-> failed]

-----------------------------------------------------------------------------
(* Seeded faults. *)

\* A hit extends the life of the cache.
HitSlidesExpiry(r) ==
    /\ req[r].at = "wait" /\ mu = Nobody /\ cache.left > 0
    /\ req' = [req EXCEPT ![r] = Shown(@.items, cache.list, FALSE)]
    /\ cache' = [cache EXCEPT !.left = TTL]
    /\ UNCHANGED <<live, past, rows, unborn, mu, systemVars>>

\* The mutex stays locked when the listing fails.
ListFailsLocked(r) ==
    /\ req[r].at = "list"
    /\ req' = [req EXCEPT ![r] = Shown(@.items, Unavailable, TRUE)]
    /\ UNCHANGED <<live, past, rows, unborn, cache, mu, systemVars>>

\* The checks take turns: the time of one only runs when those before it have ended.
SystemTickInTurn ==
    /\ check.at = "checking"
    /\ \A v \in Services : check.run[v] = "running" => check.age[v] < Timeout
    /\ check.elapsed < MaxReauth
    /\ LET turn == CHOOSE v \in Services : check.run[v] \in Unfinished
       IN  check' = [check EXCEPT !.elapsed = @ + 1,
              !.age = [v \in Services |-> IF v = turn /\ @[v] < Timeout THEN @[v] + 1 ELSE @[v]]]
    /\ UNCHANGED <<viewVars, health>>

-----------------------------------------------------------------------------
(* Views with statuses.                                                    *)

\* Summary asks for the statuses always, the lists only if they have items.
Summary(r) ==
    /\ req[r] = Idle
    /\ req' = [req EXCEPT ![r] = [at |-> "wait", items |-> rows]]
    /\ UNCHANGED <<live, past, rows, unborn, cache, mu, systemVars>>

\* A page of the rows.
Instances(r, items) ==
    /\ req[r] = Idle
    /\ req' = [req EXCEPT ![r] =
          IF items = {} THEN Shown({}, Unavailable, FALSE) ELSE [at |-> "wait", items |-> items]]
    /\ UNCHANGED <<live, past, rows, unborn, cache, mu, systemVars>>

\* The resources of a user: the rows of his instances instead of a page.
UserResources(r, items) == Instances(r, items)

\* Instance: the row, then the server itself, not through the cache.  The status is read
\* anywhere between the call and its answer; here at its beginning.
Instance(r, s) ==
    /\ req[r] = Idle /\ s \in rows
    /\ req' = [req EXCEPT ![r] =
          [at |-> "one", items |-> {s}, list |-> [Unavailable EXCEPT ![s] = live[s]], age |-> 0]]
    /\ UNCHANGED <<live, past, rows, unborn, cache, mu, systemVars>>

InstanceStatus(r) ==
    /\ req[r].at = "one"
    /\ req' = [req EXCEPT ![r] = Shown(@.items, @.list, FALSE)]
    /\ UNCHANGED <<live, past, rows, unborn, cache, mu, systemVars>>

InstanceStatusFails(r) ==
    /\ req[r].at = "one"
    /\ req' = [req EXCEPT ![r] = Shown(@.items, Unavailable, TRUE)]
    /\ UNCHANGED <<live, past, rows, unborn, cache, mu, systemVars>>

\* InstanceStatuses: with the mutex, a cache that has not expired is the answer, ...
CacheHit(r) ==
    /\ req[r].at = "wait" /\ mu = Nobody /\ cache.left > 0
    /\ req' = [req EXCEPT ![r] = Shown(@.items, cache.list, FALSE)]
    /\ UNCHANGED <<live, past, rows, unborn, cache, mu, systemVars>>

\* ... otherwise all servers are listed, with the mutex locked until the end.
FetchInstances(r) ==
    /\ req[r].at = "wait" /\ mu = Nobody /\ cache.left = 0
    /\ mu' = r
    /\ req' = [req EXCEPT ![r] = [at |-> "list", items |-> @.items, list |-> live, age |-> 0]]
    /\ UNCHANGED <<live, past, rows, unborn, cache, systemVars>>

StoreStatuses(r) ==
    /\ req[r].at = "list"
    /\ cache' = [list |-> req[r].list, left |-> TTL]
    /\ mu' = Nobody
    /\ req' = [req EXCEPT ![r] = Shown(@.items, @.list, FALSE)]
    /\ UNCHANGED <<live, past, rows, unborn, systemVars>>

\* The error is dropped, the recorded statuses are shown; an old listing is not used.
FetchFails(r) ==
    /\ req[r].at = "list"
    /\ mu' = Nobody
    /\ req' = [req EXCEPT ![r] = Shown(@.items, Unavailable, TRUE)]
    /\ UNCHANGED <<live, past, rows, unborn, cache, systemVars>>

Returns(r) ==
    /\ req[r].at = "answered"
    /\ req' = [req EXCEPT ![r] = Idle]
    /\ UNCHANGED <<live, past, rows, unborn, cache, mu, systemVars>>

-----------------------------------------------------------------------------
(* OpenStack and the users.                                                *)

Becomes(s, v) ==
    /\ past' = {p \in past : p.server # s \/ p.status # live[s]}
               \cup {[server |-> s, status |-> live[s], age |-> 0]}
    /\ live' = [live EXCEPT ![s] = v]

StatusChanges(s, v) ==
    /\ live[s] \notin {Gone, v}
    /\ Becomes(s, v)
    /\ UNCHANGED <<rows, unborn, cache, mu, req, systemVars>>

ServerCreated(s, v) ==
    /\ s \in unborn
    /\ unborn' = unborn \ {s}
    /\ Becomes(s, v)
    /\ rows' = rows \cup {s}
    /\ UNCHANGED <<cache, mu, req, systemVars>>

ServerDeleted(s) ==
    /\ live[s] # Gone
    /\ Becomes(s, Gone)
    /\ UNCHANGED <<rows, unborn, cache, mu, req, systemVars>>

RowDeleted(s) ==
    /\ s \in rows /\ live[s] = Gone
    /\ rows' = rows \ {s}
    /\ UNCHANGED <<live, past, unborn, cache, mu, req, systemVars>>

\* Calls of OpenStack are answered or fail in time (the HTTP client's limit).  A listing
\* that has expired is not read again.
Tick ==
    /\ \A r \in Requests : /\ req[r].at # "answered"
                           /\ req[r].at \in {"list", "one"} => req[r].age < MaxDelay
    /\ past' = {[p EXCEPT !.age = @ + 1] : p \in {q \in past : q.age < Stale}}
    /\ cache' = IF cache.left > 1 THEN [cache EXCEPT !.left = @ - 1] ELSE Expired
    /\ req' = [r \in Requests |->
          IF req[r].at \in {"list", "one"} THEN [req[r] EXCEPT !.age = @ + 1] ELSE req[r]]
    /\ UNCHANGED <<live, rows, unborn, mu, systemVars>>

-----------------------------------------------------------------------------
(* The system page.                                                        *)

\* One goroutine per check, all at once; the page waits for all.
System ==
    /\ check = Resting
    /\ health' \in {h \in [Services -> {"up", "down"}] :
                       \A v \in Services \ Configured : h[v] = "up"}
    /\ check' = [at |-> "checking", elapsed |-> 0,
                 run |-> [v \in Services |-> "running"], renewed |-> {},
                 age |-> [v \in Services |-> 0], seen |-> [v \in Services |-> {health'[v]}]]
    /\ UNCHANGED viewVars

\* The checks get where `run` says; the page's wait is over when none is unfinished.
CheckRuns(run) ==
    check' = [check EXCEPT
       !.run = run,
       !.at = IF \E w \in Services : run[w] \in Unfinished THEN "checking" ELSE "answered"]

Finished(v, status) == CheckRuns([check.run EXCEPT ![v] = status])

\* checkUnixSocket, CheckHTTPProxy, CheckOpenStack and CheckStorage as healthStatus
\* reports them.
CheckEnds(v) ==
    /\ check.at = "checking" /\ check.run[v] = "running"
    /\ \/ v \notin Configured /\ Finished(v, "unconfigured")
       \/ v \in Configured /\ health[v] = "up" /\ Finished(v, "healthy")
       \/ v \in Configured /\ health[v] = "down" /\ Finished(v, "unhealthy")
       \/ v \in Configured /\ check.age[v] = Timeout /\ Finished(v, "unhealthy")
    /\ UNCHANGED <<viewVars, health>>

\* A check whose token has expired (401) renews it once; the library does that without the
\* context of the check, whose time runs on.
Reauthenticate(v) ==
    /\ check.at = "checking" /\ check.run[v] = "running" /\ v \in ViaKeystone \cap Configured
    /\ check.age[v] < Timeout /\ v \notin check.renewed
    /\ \A w \in Services : check.run[w] # "reauth"
    /\ check' = [check EXCEPT !.run[v] = "reauth", !.renewed = @ \cup {v}]
    /\ UNCHANGED <<viewVars, health>>

\* While one check renews the token the other one waits for it, without the context again:
\* before its call, or because the call was refused.
AwaitRenewal(v) ==
    /\ check.at = "checking" /\ check.run[v] = "running" /\ v \in ViaKeystone \cap Configured
    /\ check.age[v] < Timeout /\ v \notin check.renewed
    /\ \E w \in Services : check.run[w] = "reauth"
    /\ \E refused \in {{}, {v}} :
          check' = [check EXCEPT !.run[v] = "await", !.renewed = @ \cup refused]
    /\ UNCHANGED <<viewVars, health>>

\* A new token lets all of them go on; a failure ends the checks that were refused.
ReauthEnds(v) ==
    /\ check.at = "checking" /\ check.run[v] = "reauth"
    /\ \E failed \in {{}, check.renewed} :
          CheckRuns([w \in Services |->
              IF check.run[w] \notin {"reauth", "await"} THEN check.run[w]
              ELSE IF w \in failed THEN "unhealthy" ELSE "running"])
    /\ UNCHANGED <<viewVars, health>>

SystemReturns ==
    /\ check.at = "answered"
    /\ check' = Resting
    /\ health' = AllUp
    /\ UNCHANGED viewVars

HealthChanges(v, h) ==
    /\ check.at = "checking" /\ check.run[v] = "running" /\ v \in Configured /\ health[v] # h
    /\ health' = [health EXCEPT ![v] = h]
    /\ check' = [check EXCEPT !.seen[v] = @ \cup {h}]
    /\ UNCHANGED viewVars

\* A check that has used up its time is over before more time passes.
SystemTick ==
    /\ check.at = "checking"
    /\ \A v \in Services : check.run[v] = "running" => check.age[v] < Timeout
    /\ check.elapsed < MaxReauth
    /\ check' = [check EXCEPT !.elapsed = @ + 1,
          !.age = [v \in Services |->
              IF check.run[v] \in Unfinished /\ @[v] < Timeout THEN @[v] + 1 ELSE @[v]]]
    /\ UNCHANGED <<viewVars, health>>

-----------------------------------------------------------------------------

Step(r) ==
    /\ req[r].at # "idle"
    /\ \/ InstanceStatus(r) \/ InstanceStatusFails(r)
       \/ CacheHit(r) \/ FetchInstances(r) \/ StoreStatuses(r) \/ FetchFails(r)
       \/ Returns(r)

Views ==
    \/ \E r \in Requests : \/ Step(r) \/ Summary(r)
                           \/ \E items \in SUBSET rows :
                                 Instances(r, items) \/ UserResources(r, items)
                           \/ \E s \in Servers : Instance(r, s)
    \/ \E s \in Servers : \/ \E v \in Statuses : StatusChanges(s, v) \/ ServerCreated(s, v)
                          \/ ServerDeleted(s) \/ RowDeleted(s)
    \/ Tick

SystemStep ==
    /\ check # Resting
    /\ \/ SystemReturns \/ SystemTick
       \/ \E v \in Services : CheckEnds(v) \/ ReauthEnds(v)

SystemPage ==
    \/ System \/ SystemStep
    \/ \E v \in Services : \/ Reauthenticate(v) \/ AwaitRenewal(v)
                           \/ \E h \in {"up", "down"} : HealthChanges(v, h)

ViewsRest ==
    /\ unborn = Servers /\ past = {} /\ cache.left = 0
    /\ \A r \in Requests : req[r] = Idle

Next ==
    \/ check = Resting /\ Views
    \/ ViewsRest /\ SystemPage

\* Requests take their steps, calls of OpenStack end, and the mutex passes to a request that
\* has waited long enough (sync.Mutex is fair to it); the page's goroutines go on.
Fairness ==
    /\ \A r \in Requests : SF_vars(Step(r))
    /\ WF_vars(SystemStep)

Spec == Init /\ [][Next]_vars

LiveSpec == Spec /\ Fairness

-----------------------------------------------------------------------------
(* Properties.                                                             *)

\* The server has the status, or had it at most k ticks ago.
Within(s, v, k) ==
    live[s] = v \/ \E p \in past : p.server = s /\ p.status = v /\ p.age <= k

WasTrue(s, v) == Within(s, v, Stale)

\* A status shown as live is one the server has, or had less than TTL before the answer
\* plus the time a listing may take; the recorded status, which "goes stale", is shown
\* only if OpenStack failed or did not have the server in that time (service.go:105).
StatusesFresh ==
    \A r \in Requests : req[r].at = "answered" =>
        \A s \in DOMAIN req[r].shown :
            LET x == req[r].shown[s] IN
            IF x[1] = "live" THEN WasTrue(s, x[2]) ELSE req[r].failed \/ WasTrue(s, Gone)

\* "the endpoint responds in one timeout's worth of time, not five" (service.go:134),
\* unless a token had to be renewed; and what it says of a service was so during the
\* check, or the service used up its time or its own call was refused for the token.
SystemPagePrompt ==
    /\ check.elapsed <= Timeout \/ check.renewed # {}
    /\ check.at = "answered" =>
          \A v \in Services :
              CASE check.run[v] = "healthy" -> "up" \in check.seen[v]
                [] check.run[v] = "unhealthy" ->
                      \/ "down" \in check.seen[v] \/ check.age[v] = Timeout
                      \/ v \in check.renewed
                [] check.run[v] = "unconfigured" -> v \notin Configured

AdminInv == TypeOK /\ StatusesFresh /\ SystemPagePrompt

\* Inductive: a listing under way is as old as its call, and a cached one has used up one
\* tick of its time per tick.
ListsFresh ==
    /\ \A r \in Requests :
          /\ req[r].at = "list" => \A s \in Servers : Within(s, req[r].list[s], req[r].age)
          /\ req[r].at = "one" => \A s \in req[r].items : Within(s, req[r].list[s], req[r].age)
    /\ cache.left > 0 =>
          \A s \in Servers : Within(s, cache.list[s], TTL + MaxDelay - cache.left)

\* Inductive: while no token was renewed the checks that run are as old as the page's wait,
\* checks wait only for a renewal, and the page waits exactly while a check is unfinished.
ChecksSound ==
    check # Resting =>
        /\ check.at = "checking" <=> \E v \in Services : check.run[v] \in Unfinished
        /\ \A v \in Services :
              /\ health[v] \in check.seen[v]
              /\ check.run[v] = "reauth" => v \in check.renewed
              /\ check.run[v] = "await" => check.renewed # {}
              /\ check.run[v] = "running" /\ check.renewed = {} => check.age[v] = check.elapsed
              /\ check.run[v] = "healthy" => "up" \in check.seen[v]
              /\ check.run[v] = "unhealthy" =>
                    \/ "down" \in check.seen[v] \/ check.age[v] = Timeout
                    \/ v \in check.renewed
              /\ check.run[v] = "unconfigured" => v \notin Configured

\* Every view is answered although its requests wait for a mutex that is held while
\* OpenStack is asked (instance_status.go:44), and so is the system page, whose checks wait
\* for each other's renewals.
Unanswered(r) == req[r].at \in {"wait", "list", "one"} \/ check.at = "checking"

ViewsAnswered == \A r \in Requests : Unanswered(r) ~> ~Unanswered(r)
=============================================================================
