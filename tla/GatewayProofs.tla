---------------------------- MODULE GatewayProofs ----------------------------
(***************************************************************************)
(* Proofs about what the gateways of MCGateways keep: the app gateway's    *)
(* caches (AppGateway), console tokens and ephemeral keys (ConsoleKeys)    *)
(* and host keys (HostKeyTrust); for any number of instances, addresses,   *)
(* requests, consoles, users of VMs, hosts, keys and sessions, and any     *)
(* times.                                                                  *)
(***************************************************************************)
EXTENDS MCGateways, Sequences, Integers, FiniteSetTheorems, TLAPS

-----------------------------------------------------------------------------
(* The app gateway *)


\* What one request relies on, as a statement about the request alone.
Fresh(q) ==
    /\ q.asked <= q.age
    /\ q.pc \in {"resolve", "ask", "answered", "failed", "store"} =>
        q.instance \in Instances /\ mappedAgo[q.instance] <= q.age
    /\ q.pc \in {"answered", "store", "proxy"} => q.address \in Addresses
    /\ q.pc = "answered" => hadAgo[q.instance][q.address] <= q.asked
    /\ q.pc = "store" /\ ~q.stale => hadAgo[q.instance][q.address] <= (AddressTTL - 1) + q.age
    /\ q.pc = "proxy" =>
        /\ q.instance \in Instances
        /\ mappedAgo[q.instance] <= HostTTL + MaxDelay + q.age
        /\ ~q.stale => hadAgo[q.instance][q.address]
                            <= (AddressTTL - 1) + HostTTL + MaxDelay + q.age

\* The inductive part: the bounds at the moment of proxying follow from it.
BackendParts ==
    /\ TypeOK /\ NowTrue /\ HostEntryFresh
    /\ AddressEntryFresh
    /\ \A r \in Requests : Fresh(req[r])

\* The times are numbers.
LEMMA TimeFacts ==
    ASSUME AppGatewayAssumption
    PROVE  /\ HostTTL \in Nat /\ AddressTTL \in Nat /\ AddressTTL >= 1 /\ MaxDelay \in Nat
           /\ MappingBound \in Nat /\ AddressBound \in Nat
           /\ Forever \in Nat
           /\ MappingBound = HostTTL + 2 * MaxDelay
           /\ AddressBound = (AddressTTL - 1) + HostTTL + 2 * MaxDelay
           /\ Forever = AddressBound + 1
  BY DEF AppGatewayAssumption, MappingBound, AddressBound, Forever

\* The two readings agree.
LEMMA BackendInvParts ==
    ASSUME AppGatewayAssumption
    PROVE  AppBackendInv <=> BackendParts
  <1>1. ASSUME AppBackendInv PROVE BackendParts
    BY <1>1 DEF AppBackendInv, BackendParts, RequestFresh, Fresh
  <1>2. ASSUME BackendParts PROVE AppBackendInv
    <2>1. /\ TypeOK /\ NowTrue /\ HostEntryFresh
          /\ AddressEntryFresh /\ \A r \in Requests : Fresh(req[r])
      BY <1>2 DEF BackendParts
    <2>2. \A r \in Requests : RequestFresh(r)
      BY <2>1 DEF RequestFresh, Fresh
    <2>3. ASSUME NEW r \in Requests, req[r].pc = "proxy"
          PROVE  /\ mappedAgo[req[r].instance] <= MappingBound
                 /\ ~req[r].stale =>
                        hadAgo[req[r].instance][req[r].address] <= AddressBound
      <3>1. req[r].age \in Nat /\ req[r].age <= MaxDelay
        BY <2>1, TimeFacts DEF TypeOK, Request
      <3>2. Fresh(req[r])
        BY <2>1
      <3>3. req[r].instance \in Instances /\ req[r].address \in Addresses
        BY <2>3, <3>2 DEF Fresh
      <3>4. /\ mappedAgo[req[r].instance] \in Nat
            /\ hadAgo[req[r].instance][req[r].address] \in Nat
        BY <2>1, <3>3, TimeFacts DEF TypeOK
      <3>5. QED
        BY <2>3, <3>1, <3>2, <3>4, TimeFacts DEF Fresh
    <2>4. MappingFresh /\ AddressFresh
      BY <2>3 DEF MappingFresh, AddressFresh
    <2>5. BackendConsistent
      <3> SUFFICES ASSUME hostCache # None, ~hostCache.stale
                   PROVE  hadAgo[hostCache.instance][hostCache.address] < Forever
        BY DEF BackendConsistent
      <3>1. /\ hostCache.left \in Nat /\ hostCache.instance \in Instances
            /\ hostCache.address \in Addresses
        BY <2>1, TimeFacts DEF TypeOK, HostEntry
      <3>2. hadAgo[hostCache.instance][hostCache.address] \in Nat
        BY <2>1, <3>1, TimeFacts DEF TypeOK
      <3>3. QED
        BY <2>1, <3>1, <3>2, TimeFacts DEF HostEntryFresh
    <2>6. QED
      BY <2>1, <2>2, <2>4, <2>5 DEF AppBackendInv
  <1>3. QED
    BY <1>1, <1>2

\* One request becomes q, the others stay as they are.
GwBecomes(r, q) ==
    /\ q \in Request
    /\ req' = [req EXCEPT ![r] = q]

\* One request moves while the mapping, the addresses and the ticks stand still: it is enough
\* to look at this request and at the caches.
LEMMA GwStep ==
    ASSUME BackendParts, NEW r \in Requests, NEW q, GwBecomes(r, q),
           UNCHANGED <<app, address, mappedAgo, hadAgo>>, Fresh(q),
           hostCache' \in {None} \cup HostEntry,
           addrCache' \in [Instances -> {None} \cup AddressEntry],
           HostEntryFresh', AddressEntryFresh'
    PROVE  BackendParts'
  <1>1. /\ TypeOK /\ NowTrue /\ \A t \in Requests : Fresh(req[t])
    BY DEF BackendParts
  <1>2. /\ req' \in [Requests -> Request] /\ req'[r] = q
        /\ \A t \in Requests \ {r} : req'[t] = req[t]
    BY <1>1 DEF GwBecomes, TypeOK
  <1>3. TypeOK' /\ NowTrue'
    BY <1>1, <1>2 DEF TypeOK, NowTrue
  <1>4. ASSUME NEW t \in Requests PROVE Fresh(req[t])'
    <2>1. CASE t = r
      BY <1>2, <2>1 DEF Fresh
    <2>2. CASE t # r
      BY <1>1, <1>2, <2>2 DEF Fresh
    <2>3. QED
      BY <2>1, <2>2
  <1>5. QED
    BY <1>3, <1>4 DEF BackendParts

\* As above, when the caches stand still too.
LEMMA GwQuiet ==
    ASSUME BackendParts, NEW r \in Requests, NEW q, GwBecomes(r, q),
           UNCHANGED <<app, address, mappedAgo, hadAgo, hostCache, addrCache>>, Fresh(q)
    PROVE  BackendParts'
  <1>1. /\ hostCache' \in {None} \cup HostEntry
        /\ addrCache' \in [Instances -> {None} \cup AddressEntry]
    BY DEF BackendParts, TypeOK
  <1>2. HostEntryFresh' /\ AddressEntryFresh'
    BY DEF BackendParts, HostEntryFresh, AddressEntryFresh, Live
  <1>3. QED
    BY <1>1, <1>2, GwStep

\* A request that is over relies on nothing.
LEMMA GwIdle ==
    ASSUME AppGatewayAssumption
    PROVE  Idle \in Request /\ Fresh(Idle)
  BY TimeFacts DEF Idle, Request, PC, Fresh

-----------------------------------------------------------------------------

\* Looking the host up: what the cache has is as fresh as its entry, and what the database
\* has is true now.
LEMMA LookUpKeeps ==
    ASSUME AppGatewayAssumption, BackendParts, NEW r \in Requests,
           \/ Hit(r) \/ Miss(r) \/ FindByHost(r) \/ Proxy(r)
           \/ BadGateway(r)
    PROVE  BackendParts'
  <1>1. /\ TypeOK /\ NowTrue /\ HostEntryFresh /\ Fresh(req[r])
        /\ req[r] \in Request
    BY DEF BackendParts, TypeOK
  <1>2. UNCHANGED <<app, address, mappedAgo, hadAgo, hostCache, addrCache>>
    BY DEF Hit, Miss, FindByHost, Proxy, BadGateway, world
  <1>3. /\ req[r].age \in Nat /\ req[r].age <= MaxDelay
        /\ req[r].asked \in Nat /\ req[r].asked <= req[r].age
    BY <1>1, TimeFacts DEF Request, Fresh
  <1>4. ASSUME NEW q, GwBecomes(r, q), Fresh(q) PROVE BackendParts'
    BY <1>2, <1>4, GwQuiet
  <1>5. CASE Hit(r)
    <2>1. hostCache \in HostEntry
      BY <1>1, <1>5 DEF Hit, TypeOK
    <2>2. PICK q : q = [Idle EXCEPT !.pc = "proxy", !.instance = hostCache.instance,
                            !.address = hostCache.address, !.stale = hostCache.stale]
      OBVIOUS
    <2>3. /\ q \in Request /\ q.pc = "proxy" /\ q.instance = hostCache.instance
          /\ q.address = hostCache.address /\ q.stale = hostCache.stale
          /\ q.age = 0 /\ q.asked = 0
      <3>1. /\ hostCache.instance \in Instances /\ hostCache.address \in Addresses
            /\ hostCache.stale \in BOOLEAN
        BY <2>1 DEF HostEntry
      <3>2. q = [pc |-> "proxy", instance |-> hostCache.instance,
                 address |-> hostCache.address, stale |-> hostCache.stale, age |-> 0,
                 asked |-> 0]
        BY <2>2 DEF Idle
      <3>3. 0 \in 0 .. MaxDelay
        BY TimeFacts
      <3>4. QED
        BY <3>1, <3>2, <3>3 DEF Request, PC
    <2>4. GwBecomes(r, q)
      BY <1>5, <2>2, <2>3 DEF Hit, GwBecomes
    <2>5. /\ hostCache.left \in Nat /\ q.instance \in Instances /\ q.address \in Addresses
      BY <2>1, <2>3, TimeFacts DEF HostEntry
    <2>6. mappedAgo[q.instance] \in Nat /\ hadAgo[q.instance][q.address] \in Nat
      BY <1>1, <2>5, TimeFacts DEF TypeOK
    <2>7. hostCache # None
      BY <1>5 DEF Hit
    <2>8. /\ mappedAgo[q.instance] + hostCache.left <= HostTTL + MaxDelay
          /\ ~q.stale => hadAgo[q.instance][q.address] + hostCache.left
                            <= (AddressTTL - 1) + HostTTL + MaxDelay
      BY <1>1, <2>3, <2>7 DEF HostEntryFresh
    <2>9. Fresh(q)
      BY <2>3, <2>5, <2>6, <2>8, TimeFacts DEF Fresh
    <2>10. QED
      BY <1>4, <2>4, <2>9
  <1>6. CASE Miss(r)
    <2>1. PICK q : q = [req[r] EXCEPT !.pc = "find"]
      OBVIOUS
    <2>2. q \in Request /\ q.pc = "find" /\ q.age = req[r].age /\ q.asked = req[r].asked
      BY <1>1, <2>1 DEF Request, PC
    <2>3. req' = [req EXCEPT ![r] = q]
      BY <1>6, <2>1 DEF Miss
    <2>4. QED
      BY <1>3, <1>4, <2>2, <2>3 DEF GwBecomes, Fresh
  <1>7. CASE FindByHost(r) /\ app # None
    <2>1. PICK q : q = [req[r] EXCEPT !.pc = "resolve", !.instance = app]
      OBVIOUS
    <2>2. app \in Instances
      BY <1>1, <1>7 DEF TypeOK
    <2>3. /\ q \in Request /\ q.pc = "resolve" /\ q.instance = app
          /\ q.age = req[r].age /\ q.asked = req[r].asked
      BY <1>1, <2>1, <2>2 DEF Request, PC
    <2>4. req' = [req EXCEPT ![r] = q]
      BY <1>7, <2>1 DEF FindByHost
    <2>5. mappedAgo[app] = 0
      BY <1>1, <1>7 DEF NowTrue
    <2>6. Fresh(q)
      BY <1>3, <2>2, <2>3, <2>5 DEF Fresh
    <2>7. QED
      BY <1>4, <2>3, <2>4, <2>6 DEF GwBecomes
  <1>8. CASE (FindByHost(r) /\ app = None) \/ Proxy(r) \/ BadGateway(r)
    <2>1. req' = [req EXCEPT ![r] = Idle]
      BY <1>8 DEF FindByHost, Proxy, BadGateway
    <2>2. PICK q : q = Idle
      OBVIOUS
    <2>3. QED
      BY <1>4, <2>1, <2>2, GwIdle DEF GwBecomes
  <1>9. QED
    BY <1>5, <1>6, <1>7, <1>8

\* Resolving the address: from an entry that is live, or from OpenStack, which knows what is
\* true now; the entry that is kept counts its time from before the question.
LEMMA ResolveKeeps ==
    ASSUME AppGatewayAssumption, BackendParts, NEW r \in Requests,
           \/ AddressHit(r) \/ AddressMiss(r) \/ Answer(r)
           \/ AnswerFails(r) \/ FallBack(r)
    PROVE  BackendParts'
  <1>1. /\ TypeOK /\ NowTrue /\ AddressEntryFresh /\ Fresh(req[r])
        /\ req[r] \in Request
    BY DEF BackendParts, TypeOK
  <1>2. UNCHANGED <<app, address, mappedAgo, hadAgo, hostCache, addrCache>>
    BY DEF AddressHit, AddressMiss, Answer, AnswerFails, FallBack, world
  <1>3. req[r].pc \in {"resolve", "ask", "failed"}
    BY DEF AddressHit, AddressMiss, Answer, AnswerFails, FallBack
  <1>4. /\ req[r].age \in Nat /\ req[r].asked \in Nat /\ req[r].asked <= req[r].age
        /\ req[r].instance \in Instances /\ mappedAgo[req[r].instance] <= req[r].age
    BY <1>1, <1>3, TimeFacts DEF Request, Fresh
  <1>5. PICK i \in Instances : i = req[r].instance
    BY <1>4
  <1>6. ASSUME NEW p \in PC, NEW a \in Addresses \cup {None}, NEW b \in BOOLEAN, NEW q,
               q = [req[r] EXCEPT !.pc = p, !.address = a, !.stale = b],
               req' = [req EXCEPT ![r] = q],
               p \in {"ask", "answered", "failed", "store"},
               p \in {"answered", "store"} => a \in Addresses,
               p = "answered" => hadAgo[i][a] = 0,
               p = "store" /\ ~b => hadAgo[i][a] <= AddressTTL - 1 /\ hadAgo[i][a] \in Nat
        PROVE  BackendParts'
    <2>1. /\ q \in Request /\ q.pc = p /\ q.address = a /\ q.stale = b
          /\ q.instance = i /\ q.age = req[r].age /\ q.asked = req[r].asked
      BY <1>1, <1>5, <1>6 DEF Request
    <2>2. Fresh(q)
      BY <1>4, <1>5, <1>6, <2>1, TimeFacts DEF Fresh
    <2>3. QED
      BY <1>2, <1>6, <2>1, <2>2, GwQuiet DEF GwBecomes
  <1>7. addrCache[i] \in {None} \cup AddressEntry
    BY <1>1 DEF TypeOK
  <1>8. req[r].stale \in BOOLEAN /\ req[r].address \in Addresses \cup {None}
    BY <1>1 DEF Request
  <1>9. CASE AddressHit(r)
    <2>1. Live(i)
      BY <1>5, <1>9 DEF AddressHit
    <2>2. PICK a \in Addresses : a = addrCache[i].address
      BY <1>7, <2>1 DEF Live, AddressEntry
    <2>3. addrCache[i].left \in Nat /\ addrCache[i].left >= 1
      BY <1>7, <2>1, TimeFacts DEF Live, AddressEntry
    <2>4. hadAgo[i][a] \in Nat
      BY <1>1, TimeFacts DEF TypeOK
    <2>5. hadAgo[i][a] + addrCache[i].left <= AddressTTL
      BY <1>1, <2>1, <2>2 DEF AddressEntryFresh
    <2>6. hadAgo[i][a] <= AddressTTL - 1
      BY <2>3, <2>4, <2>5, TimeFacts
    <2>7. PICK q : q = [req[r] EXCEPT !.pc = "store", !.address = a, !.stale = req[r].stale]
      OBVIOUS
    <2>8. req' = [req EXCEPT ![r] = q]
      BY <1>1, <1>5, <1>9, <2>2, <2>7 DEF AddressHit, TypeOK, Request
    <2>9. QED
      BY <1>6, <1>8, <2>4, <2>6, <2>7, <2>8 DEF PC
  <1>10. CASE AddressMiss(r)
    <2>1. PICK a \in Addresses \cup {None} :
            a = IF addrCache[i] = None THEN None ELSE addrCache[i].address
      BY <1>7 DEF AddressEntry
    <2>2. PICK q : q = [req[r] EXCEPT !.pc = "ask", !.address = a, !.stale = req[r].stale]
      OBVIOUS
    <2>3. req' = [req EXCEPT ![r] = q]
      BY <1>1, <1>5, <1>10, <2>1, <2>2 DEF AddressMiss, TypeOK, Request
    <2>4. QED
      BY <1>6, <1>8, <2>2, <2>3 DEF PC
  <1>11. CASE Answer(r)
    <2>1. PICK a \in Addresses : a = address[i]
      BY <1>1, <1>5, <1>11 DEF Answer, TypeOK
    <2>2. PICK q : q = [req[r] EXCEPT !.pc = "answered", !.address = a, !.stale = req[r].stale]
      OBVIOUS
    <2>3. req' = [req EXCEPT ![r] = q]
      BY <1>1, <1>5, <1>11, <2>1, <2>2 DEF Answer, TypeOK, Request
    <2>4. hadAgo[i][a] = 0
      BY <1>1, <1>5, <1>11, <2>1 DEF Answer, NowTrue
    <2>5. QED
      BY <1>6, <1>8, <2>2, <2>3, <2>4 DEF PC
  <1>12. CASE AnswerFails(r)
    <2>1. PICK q : q = [req[r] EXCEPT !.pc = "failed", !.address = req[r].address,
                                      !.stale = req[r].stale]
      OBVIOUS
    <2>2. req' = [req EXCEPT ![r] = q]
      BY <1>1, <1>12, <2>1 DEF AnswerFails, TypeOK, Request
    <2>3. QED
      BY <1>6, <1>8, <2>1, <2>2 DEF PC
  <1>13. CASE FallBack(r)
    <2>1. PICK q : q = [req[r] EXCEPT !.pc = "store", !.address = req[r].address, !.stale = TRUE]
      OBVIOUS
    <2>2. req' = [req EXCEPT ![r] = q] /\ req[r].address \in Addresses
      BY <1>1, <1>8, <1>13, <2>1 DEF FallBack, TypeOK, Request
    <2>3. QED
      BY <1>6, <1>8, <2>1, <2>2 DEF PC
  <1>14. QED
    BY <1>9, <1>10, <1>11, <1>12, <1>13

\* OpenStack's answer is kept, with the time it took taken off.
LEMMA CacheKeeps ==
    ASSUME AppGatewayAssumption, BackendParts, NEW r \in Requests,
           CacheAddress(r)
    PROVE  BackendParts'
  <1>1. /\ TypeOK /\ HostEntryFresh /\ AddressEntryFresh
        /\ Fresh(req[r]) /\ req[r] \in Request
    BY DEF BackendParts, TypeOK
  <1>2. req[r].pc = "answered" /\ UNCHANGED <<app, address, mappedAgo, hadAgo, hostCache>>
    BY DEF CacheAddress, world
  <1>3. PICK n \in Nat : n = req[r].asked
    BY <1>1, TimeFacts DEF Request
  <1>4. PICK i \in Instances, a \in Addresses : i = req[r].instance /\ a = req[r].address
    BY <1>1, <1>2 DEF Fresh
  <1>5. PICK left \in 0 .. AddressTTL : left = IF AddressTTL > n THEN AddressTTL - n ELSE 0
    BY TimeFacts
  <1>6. addrCache' = [addrCache EXCEPT ![i] = [address |-> a, left |-> left]]
    BY <1>3, <1>4, <1>5 DEF CacheAddress, Keep
  <1>7. PICK e : e = [address |-> a, left |-> left]
    OBVIOUS
  <1>8. e \in AddressEntry /\ e.address = a /\ e.left = left
    BY <1>7 DEF AddressEntry
  <1>9. /\ addrCache' \in [Instances -> {None} \cup AddressEntry]
        /\ addrCache'[i] = e /\ \A j \in Instances \ {i} : addrCache'[j] = addrCache[j]
    BY <1>1, <1>6, <1>7, <1>8 DEF TypeOK
  <1>10. hadAgo[i][a] \in Nat /\ hadAgo[i][a] <= n
    BY <1>1, <1>2, <1>3, <1>4, TimeFacts DEF TypeOK, Fresh
  <1>11. left > 0 => hadAgo[i][a] + left <= AddressTTL
    BY <1>5, <1>10, TimeFacts
  <1>12. AddressEntryFresh'
    BY <1>1, <1>2, <1>8, <1>9, <1>11 DEF AddressEntryFresh, Live
  <1>13. HostEntryFresh' /\ hostCache' \in {None} \cup HostEntry
    BY <1>1, <1>2 DEF HostEntryFresh, TypeOK
  <1>14. PICK q : q = [req[r] EXCEPT !.pc = "store"]
    OBVIOUS
  <1>15. /\ q \in Request /\ q.pc = "store" /\ q.instance = i /\ q.address = a
         /\ q.stale = req[r].stale /\ q.age = req[r].age /\ q.asked = n
    BY <1>1, <1>3, <1>4, <1>14 DEF Request, PC
  <1>16. GwBecomes(r, q)
    BY <1>14, <1>15 DEF CacheAddress, GwBecomes
  <1>17. q.age \in Nat /\ n <= q.age /\ mappedAgo[i] <= q.age
    BY <1>1, <1>2, <1>3, <1>4, <1>15, TimeFacts DEF Request, Fresh
  <1>18. Fresh(q)
    BY <1>10, <1>15, <1>17, TimeFacts DEF Fresh
  <1>19. QED
    BY <1>2, <1>9, <1>12, <1>13, <1>16, <1>18, GwStep

\* The backend goes into the host cache as the request knows it.
LEMMA StoreKeeps ==
    ASSUME AppGatewayAssumption, BackendParts, NEW r \in Requests,
           StoreBackend(r)
    PROVE  BackendParts'
  <1>1. /\ TypeOK /\ AddressEntryFresh
        /\ Fresh(req[r]) /\ req[r] \in Request
    BY DEF BackendParts, TypeOK
  <1>2. req[r].pc = "store" /\ UNCHANGED <<app, address, mappedAgo, hadAgo, addrCache>>
    BY DEF StoreBackend, world
  <1>3. PICK i \in Instances, a \in Addresses : i = req[r].instance /\ a = req[r].address
    BY <1>1, <1>2 DEF Fresh
  <1>4. PICK b \in BOOLEAN : b = req[r].stale
    BY <1>1 DEF Request
  <1>5. PICK n \in 0 .. MaxDelay : n = req[r].age
    BY <1>1 DEF Request
  <1>6. hostCache' = [instance |-> i, address |-> a, stale |-> b, left |-> HostTTL]
    BY <1>3, <1>4 DEF StoreBackend
  <1>7. mappedAgo[i] \in Nat /\ hadAgo[i][a] \in Nat /\ n \in Nat
    BY <1>1, TimeFacts DEF TypeOK
  <1>8. mappedAgo[i] <= n /\ (~b => hadAgo[i][a] <= (AddressTTL - 1) + n)
    BY <1>1, <1>2, <1>3, <1>4, <1>5 DEF Fresh
  <1>9. HostTTL \in 0 .. HostTTL /\ n <= MaxDelay
    BY <1>5, TimeFacts
  <1>10. hostCache' \in {None} \cup HostEntry
    BY <1>6, <1>9 DEF HostEntry
  <1>11. mappedAgo[i] + HostTTL <= HostTTL + MaxDelay
    BY <1>7, <1>8, <1>9, TimeFacts
  <1>12. ~b => hadAgo[i][a] + HostTTL <= (AddressTTL - 1) + HostTTL + MaxDelay
    BY <1>7, <1>8, <1>9, TimeFacts
  <1>13. HostEntryFresh'
    BY <1>2, <1>6, <1>11, <1>12 DEF HostEntryFresh
  <1>14. /\ AddressEntryFresh'
         /\ addrCache' \in [Instances -> {None} \cup AddressEntry]
    BY <1>1, <1>2 DEF AddressEntryFresh, Live, TypeOK
  <1>15. PICK q : q = [req[r] EXCEPT !.pc = "proxy"]
    OBVIOUS
  <1>16. /\ q \in Request /\ q.pc = "proxy" /\ q.instance = i /\ q.address = a
         /\ q.stale = b /\ q.age = n /\ q.asked = req[r].asked
    BY <1>1, <1>3, <1>4, <1>5, <1>15 DEF Request, PC
  <1>17. GwBecomes(r, q)
    BY <1>15, <1>16 DEF StoreBackend, GwBecomes
  <1>18. q.asked <= n
    BY <1>1, <1>5, <1>16 DEF Fresh
  <1>19. /\ mappedAgo[i] <= HostTTL + MaxDelay + n
         /\ ~b => hadAgo[i][a] <= (AddressTTL - 1) + HostTTL + MaxDelay + n
    BY <1>7, <1>8, <1>9, TimeFacts
  <1>20. Fresh(q)
    BY <1>16, <1>18, <1>19 DEF Fresh
  <1>21. QED
    BY <1>2, <1>10, <1>13, <1>14, <1>17, <1>20, GwStep

\* Apps and instances change: what is true is true now, and nothing becomes older.
LEMMA WorldKeeps ==
    ASSUME AppGatewayAssumption, BackendParts,
           \/ \E i \in Instances : \/ Register(i)
                                   \/ \E a \in Addresses \cup {None} : Readdress(i, a)
           \/ Unregister
           \/ UNCHANGED vars
    PROVE  BackendParts'
  <1>1. /\ TypeOK /\ NowTrue /\ HostEntryFresh
        /\ AddressEntryFresh /\ \A r \in Requests : Fresh(req[r])
    BY DEF BackendParts
  <1>2. UNCHANGED <<hostCache, addrCache, req>>
    BY DEF Register, Readdress, Unregister, vars
  <1>3. /\ mappedAgo \in [Instances -> 0 .. Forever]
        /\ hadAgo \in [Instances -> [Addresses -> 0 .. Forever]]
        /\ address \in [Instances -> Addresses \cup {None}]
        /\ app \in Instances \cup {None}
        /\ 0 \in 0 .. Forever
    BY <1>1, TimeFacts DEF TypeOK
  <1>4. /\ app' \in Instances \cup {None}
        /\ mappedAgo' \in [Instances -> 0 .. Forever]
        /\ app' # None => mappedAgo'[app'] = 0
        /\ \A i \in Instances : mappedAgo'[i] \in {0, mappedAgo[i]}
    BY <1>1, <1>3 DEF NowTrue, Register, Readdress, Unregister, vars
  <1> DEFINE Current ==
          /\ address' \in [Instances -> Addresses \cup {None}]
          /\ hadAgo' \in [Instances -> [Addresses -> 0 .. Forever]]
          /\ \A i \in Instances : address'[i] # None => hadAgo'[i][address'[i]] = 0
          /\ \A i \in Instances, a \in Addresses : hadAgo'[i][a] \in {0, hadAgo[i][a]}
  <1>5. Current
    <2>1. CASE UNCHANGED <<address, hadAgo>>
      BY <1>1, <1>3, <2>1 DEF NowTrue
    <2>2. ASSUME NEW i \in Instances, NEW a \in Addresses \cup {None}, Readdress(i, a)
          PROVE  Current
      <3>1. CASE a = None
        BY <1>1, <1>3, <2>2, <3>1 DEF Readdress, NowTrue
      <3>2. CASE a \in Addresses /\ a # None
        BY <1>1, <1>3, <2>2, <3>2 DEF Readdress, NowTrue
      <3>3. QED
        BY <3>1, <3>2
    <2>3. QED
      BY <2>1, <2>2 DEF Register, Unregister, vars
  <1>6. TypeOK' /\ NowTrue'
    BY <1>1, <1>2, <1>4, <1>5 DEF TypeOK, NowTrue
  <1>7. /\ \A i \in Instances : /\ mappedAgo'[i] <= mappedAgo[i]
                                /\ mappedAgo'[i] \in Nat /\ mappedAgo[i] \in Nat
        /\ \A i \in Instances, a \in Addresses :
                /\ hadAgo'[i][a] <= hadAgo[i][a]
                /\ hadAgo'[i][a] \in Nat /\ hadAgo[i][a] \in Nat
    BY <1>3, <1>4, <1>5, TimeFacts
  <1>8. HostEntryFresh'
    <2> SUFFICES ASSUME hostCache # None PROVE HostEntryFresh'
      BY <1>2 DEF HostEntryFresh
    <2>1. PICK i \in Instances, a \in Addresses, n \in Nat :
            i = hostCache.instance /\ a = hostCache.address /\ n = hostCache.left
      BY <1>1, TimeFacts DEF TypeOK, HostEntry
    <2>2. /\ mappedAgo[i] + n <= HostTTL + MaxDelay
          /\ ~hostCache.stale => hadAgo[i][a] + n <= (AddressTTL - 1) + HostTTL + MaxDelay
      BY <1>1, <2>1 DEF HostEntryFresh
    <2>3. /\ mappedAgo'[i] + n <= HostTTL + MaxDelay
          /\ ~hostCache.stale => hadAgo'[i][a] + n <= (AddressTTL - 1) + HostTTL + MaxDelay
      BY <1>7, <2>2, TimeFacts
    <2>4. QED
      BY <1>2, <2>1, <2>3 DEF HostEntryFresh
  <1>9. AddressEntryFresh'
    <2> SUFFICES ASSUME NEW i \in Instances, Live(i)
                 PROVE  hadAgo'[i][addrCache[i].address] + addrCache[i].left <= AddressTTL
      BY <1>2 DEF AddressEntryFresh, Live
    <2>1. PICK a \in Addresses, n \in Nat : a = addrCache[i].address /\ n = addrCache[i].left
      BY <1>1, TimeFacts DEF TypeOK, AddressEntry, Live
    <2>2. hadAgo[i][a] + n <= AddressTTL
      BY <1>1, <2>1 DEF AddressEntryFresh
    <2>3. QED
      BY <1>7, <2>1, <2>2, TimeFacts
  <1>10. ASSUME NEW r \in Requests PROVE Fresh(req[r])'
    <2>1. PICK q \in Request : q = req[r]
      BY <1>1 DEF TypeOK
    <2>2. Fresh(q) /\ q.age \in Nat /\ q.asked \in Nat
      BY <1>1, <2>1, TimeFacts DEF Request
    <2>3. Fresh(q)'
      BY <1>7, <2>2, TimeFacts DEF Fresh
    <2>4. QED
      BY <1>2, <2>1, <2>3 DEF Fresh
  <1>11. QED
    BY <1>6, <1>8, <1>9, <1>10 DEF BackendParts

\* A tick: entries and requests get older as fast as the facts they rest on.
LEMMA TickKeeps ==
    ASSUME AppGatewayAssumption, BackendParts, Tick
    PROVE  BackendParts'
  <1>1. /\ TypeOK /\ NowTrue /\ HostEntryFresh
        /\ AddressEntryFresh /\ \A r \in Requests : Fresh(req[r])
    BY DEF BackendParts
  <1>2. /\ mappedAgo \in [Instances -> 0 .. Forever]
        /\ hadAgo \in [Instances -> [Addresses -> 0 .. Forever]]
        /\ app \in Instances \cup {None} /\ address \in [Instances -> Addresses \cup {None}]
        /\ UNCHANGED <<app, address>>
    BY <1>1 DEF TypeOK, Tick
  <1>3. \A n \in 0 .. Forever :
            /\ Older(n) \in 0 .. Forever /\ Older(n) <= n + 1
    BY TimeFacts DEF Older
  <1>4. /\ mappedAgo' \in [Instances -> 0 .. Forever]
        /\ \A i \in Instances : mappedAgo'[i] <= mappedAgo[i] + 1
        /\ app # None => mappedAgo'[app] = 0
    <2>1. mappedAgo' = [i \in Instances |->
                            IF app = i THEN 0 ELSE Older(mappedAgo[i])]
      BY DEF Tick
    <2>2. QED
      BY <1>2, <1>3, <2>1, TimeFacts
  <1>5. /\ hadAgo' \in [Instances -> [Addresses -> 0 .. Forever]]
        /\ \A i \in Instances, a \in Addresses : hadAgo'[i][a] <= hadAgo[i][a] + 1
        /\ \A i \in Instances : address[i] # None => hadAgo'[i][address[i]] = 0
    <2>1. hadAgo' = [i \in Instances |-> [a \in Addresses |->
                        IF address[i] = a THEN 0 ELSE Older(hadAgo[i][a])]]
      BY DEF Tick
    <2>2. QED
      BY <1>2, <1>3, <2>1, TimeFacts
  <1>6. /\ \A i \in Instances : mappedAgo'[i] \in Nat /\ mappedAgo[i] \in Nat
        /\ \A i \in Instances, a \in Addresses : hadAgo'[i][a] \in Nat /\ hadAgo[i][a] \in Nat
    BY <1>2, <1>4, <1>5, TimeFacts
  <1>7. NowTrue'
    BY <1>2, <1>4, <1>5 DEF NowTrue
  <1>8. HostEntryFresh' /\ hostCache' \in {None} \cup HostEntry
    <2>1. CASE hostCache' = None
      BY <2>1 DEF HostEntryFresh
    <2>2. CASE hostCache' # None
      <3>1. /\ hostCache \in HostEntry /\ hostCache # None /\ hostCache.left # 0
            /\ hostCache' = [hostCache EXCEPT !.left = @ - 1]
        BY <1>1, <2>2 DEF Tick, TypeOK
      <3>2. PICK i \in Instances, a \in Addresses, b \in BOOLEAN, n \in 0 .. HostTTL :
              hostCache = [instance |-> i, address |-> a, stale |-> b, left |-> n]
        BY <3>1 DEF HostEntry
      <3>3. hostCache' = [instance |-> i, address |-> a, stale |-> b, left |-> n - 1]
        BY <3>1, <3>2
      <3>4. n \in Nat /\ n # 0 /\ n - 1 \in 0 .. HostTTL
        BY <3>1, <3>2, TimeFacts
      <3>5. /\ mappedAgo[i] + n <= HostTTL + MaxDelay
            /\ ~b => hadAgo[i][a] + n <= (AddressTTL - 1) + HostTTL + MaxDelay
        BY <1>1, <3>1, <3>2 DEF HostEntryFresh
      <3>6. /\ mappedAgo'[i] + (n - 1) <= HostTTL + MaxDelay
            /\ ~b => hadAgo'[i][a] + (n - 1) <= (AddressTTL - 1) + HostTTL + MaxDelay
        BY <1>4, <1>5, <1>6, <3>4, <3>5, TimeFacts
      <3>7. HostEntryFresh'
        BY <3>3, <3>6 DEF HostEntryFresh
      <3>8. QED
        BY <3>3, <3>4, <3>7 DEF HostEntry
    <2>3. QED
      BY <2>1, <2>2
  <1>9. ASSUME NEW i \in Instances
        PROVE  /\ addrCache'[i] \in {None} \cup AddressEntry
               /\ Live(i)' =>
                    hadAgo'[i][addrCache'[i].address] + addrCache'[i].left <= AddressTTL
    <2>1. addrCache'[i] = IF addrCache[i] = None \/ addrCache[i].left = 0 THEN addrCache[i]
                          ELSE [addrCache[i] EXCEPT !.left = @ - 1]
      BY DEF Tick
    <2>2. addrCache[i] \in {None} \cup AddressEntry
      BY <1>1 DEF TypeOK
    <2>3. CASE addrCache[i] = None \/ addrCache[i].left = 0
      BY <2>1, <2>2, <2>3 DEF Live
    <2>4. CASE ~(addrCache[i] = None \/ addrCache[i].left = 0)
      <3>1. PICK a \in Addresses, n \in 0 .. AddressTTL :
              addrCache[i] = [address |-> a, left |-> n]
        BY <2>2, <2>4 DEF AddressEntry
      <3>2. addrCache'[i] = [address |-> a, left |-> n - 1]
        BY <2>1, <2>4, <3>1
      <3>3. n \in Nat /\ n > 0 /\ n - 1 \in 0 .. AddressTTL
        BY <2>4, <3>1, TimeFacts
      <3>4. hadAgo[i][a] + n <= AddressTTL
        BY <1>1, <2>4, <3>1, <3>3 DEF AddressEntryFresh, Live
      <3>5. hadAgo'[i][a] + (n - 1) <= AddressTTL
        BY <1>5, <1>6, <3>3, <3>4, TimeFacts
      <3>6. QED
        BY <3>2, <3>3, <3>5 DEF AddressEntry
    <2>5. QED
      BY <2>3, <2>4
  <1>10. AddressEntryFresh'
    BY <1>9 DEF AddressEntryFresh
  <1>11. addrCache' \in [Instances -> {None} \cup AddressEntry]
    BY <1>9 DEF Tick
  <1>12. ASSUME NEW r \in Requests PROVE req'[r] \in Request /\ Fresh(req[r])'
    <2>1. PICK q \in Request : q = req[r]
      BY <1>1 DEF TypeOK
    <2>2. Fresh(q) /\ q.age \in Nat /\ q.asked \in Nat /\ q.asked <= q.age
      BY <1>1, <2>1, TimeFacts DEF Request, Fresh
    <2>3. CASE q.pc = "idle"
      <3>1. req'[r] = q
        BY <2>1, <2>3 DEF Tick
      <3>2. QED
        BY <2>2, <2>3, <3>1 DEF Fresh
    <2>4. CASE q.pc # "idle"
      <3>1. PICK m : m = IF q.pc \in {"ask", "answered"} THEN q.asked + 1 ELSE q.asked
        OBVIOUS
      <3>2. PICK t : t = [q EXCEPT !.age = q.age + 1, !.asked = m]
        OBVIOUS
      <3>3. req'[r] = t
        BY <2>1, <2>4, <3>1, <3>2 DEF Tick
      <3>4. q.age < MaxDelay
        BY <2>1, <2>4 DEF Tick
      <3>5. q.age + 1 \in 0 .. MaxDelay /\ m \in 0 .. MaxDelay /\ m <= q.age + 1
        BY <2>2, <3>1, <3>4, TimeFacts
      <3>6. /\ t \in Request /\ t.pc = q.pc /\ t.instance = q.instance
            /\ t.address = q.address /\ t.stale = q.stale /\ t.age = q.age + 1 /\ t.asked = m
        BY <3>2, <3>5 DEF Request
      <3>7. q.pc = "answered" => m = q.asked + 1
        BY <3>1
      <3>8. Fresh(t)'
        BY <1>4, <1>5, <1>6, <2>2, <3>5, <3>6, <3>7, TimeFacts DEF Fresh
      <3>9. QED
        BY <3>3, <3>6, <3>8 DEF Fresh
    <2>5. QED
      BY <2>3, <2>4
  <1>13. req' \in [Requests -> Request]
    BY <1>12 DEF Tick
  <1>14. TypeOK'
    BY <1>2, <1>4, <1>5, <1>8, <1>11, <1>13 DEF TypeOK
  <1>15. QED
    BY <1>7, <1>8, <1>10, <1>12, <1>14 DEF BackendParts

\* A request is never proxied to an instance the host was not mapped to within the time of
\* the host cache and two look-ups, nor, while OpenStack can be asked, to an address the
\* instance did not have within the time of both caches; whatever the times are, however
\* look-ups, moves of the app and changes of address overlap (cmd/app-gateway/server.go:95,
\* resolver_cache.go:42).
THEOREM BackendsSound ==
    ASSUME AppGatewayAssumption
    PROVE  Spec => []AppBackendInv
  <1>1. Init => BackendParts
    <2> SUFFICES ASSUME Init PROVE BackendParts
      OBVIOUS
    <2>1. \A r \in Requests : req[r] = Idle
      BY DEF Init
    <2>2. \A r \in Requests : Fresh(req[r])
      BY <2>1, GwIdle
    <2>3. 0 \in 0 .. Forever /\ Forever \in 0 .. Forever
      BY TimeFacts
    <2>4. TypeOK
      BY <2>3, GwIdle DEF Init, TypeOK
    <2>5. NowTrue
      BY DEF Init, NowTrue
    <2>6. HostEntryFresh /\ AddressEntryFresh
      BY DEF Init, HostEntryFresh, AddressEntryFresh, Live
    <2>7. QED
      BY <2>2, <2>4, <2>5, <2>6 DEF BackendParts
  <1>2. BackendParts /\ [Next]_(vars) => BackendParts'
    BY LookUpKeeps, ResolveKeeps, CacheKeeps, StoreKeeps, WorldKeeps, TickKeeps DEF Next, Step
  <1>3. BackendParts <=> AppBackendInv
    BY BackendInvParts
  <1>4. QED
    BY <1>1, <1>2, <1>3, PTL DEF Spec

-----------------------------------------------------------------------------
(* Console tokens and ephemeral keys *)

SockType == [Requests -> [console : Consoles \cup {NoConsole}, pc : Access!SockPC]]

\* Socket q goes on at p with console w, and no other socket moves.
SocketBecomes(q, w, p) ==
    /\ sock' \in SockType
    /\ sock'[q].console = w /\ sock'[q].pc = p
    /\ \A r \in Requests : r # q => sock'[r] = sock[r]

\* A console gets a token and a key nobody has used.
LEMMA CreateConsoleInv ==
    ASSUME Access!ConsoleKeysAssumption, Access!KeysInv, NEW w \in Consoles,
            Access!CreateConsole(w)
    PROVE  Access!KeysInv'
  <1> USE DEF Access!ConsoleKeysAssumption
  <1>1. /\ Access!TypeOK /\ Access!OneSocketPerToken /\ Access!KeyUsedOnce
        /\ Access!SocketInv /\ Access!ConsoleUse /\ Access!AttemptUse
        /\ Access!CallsInv /\ Access!ExpiryInv
    BY DEF Access!KeysInv
  <1>2. Access!TypeOK'
    <2>1. sessions' \in [Consoles -> 0 .. MaxTime + TTL]
      BY <1>1, SMTT(30) DEF Access!TypeOK, Access!Keys, Access!Users, Access!Create, Access!Purged,
             Access!CreateConsole
    <2>2. authKeys' \in [Access!Keys -> 0 .. MaxTime + TTL]
      BY <1>1, SMTT(30) DEF Access!TypeOK, Access!Keys, Access!Users, Access!Create, Access!Purged,
             Access!CreateConsole
    <2>3. added' \in [Access!Keys -> 0 .. MaxTime]
      BY <1>1 DEF Access!TypeOK, Access!Keys, Access!Users, Access!Create, Access!Purged,
             Access!CreateConsole
    <2>4. QED
      BY <1>1, <2>1, <2>2, <2>3 DEF Access!TypeOK, Access!GwPC, Access!Users, Access!CreateConsole
  <1>3. Access!OneSocketPerToken'
    BY <1>1 DEF Access!TypeOK, Access!OneSocketPerToken, Access!SocketInv, Access!HoldsToken,
           Access!Create, Access!Purged, Access!CreateConsole
  <1>4. Access!SocketInv'
    BY <1>1 DEF Access!TypeOK, Access!SocketInv, Access!HoldsToken, Access!Keys, Access!Users,
           Access!Create, Access!Purged, Access!CreateConsole
  <1>5. Access!KeyUsedOnce' /\ Access!ConsoleUse' /\ Access!AttemptUse'
    BY <1>1 DEF Access!TypeOK, Access!KeyUsedOnce, Access!ConsoleUse, Access!AttemptUse,
           Access!Keys, Access!Users, Access!Create, Access!Purged, Access!CreateConsole
  <1>6. Access!CallsInv'
    BY <1>1 DEF Access!TypeOK, Access!CallsInv, Access!Keys, Access!Users, Access!Create,
           Access!Purged, Access!CreateConsole
  <1>7. Access!ExpiryInv'
    BY <1>1 DEF Access!TypeOK, Access!ExpiryInv, Access!Keys, Access!Users, Access!Create,
           Access!Purged, Access!CreateConsole
  <1>8. Access!CleanEndLeavesNoKey'
    BY <1>4, <1>6 DEF Access!SocketInv, Access!HoldsToken, Access!CallsInv,
           Access!CleanEndLeavesNoKey
  <1>9. QED
    BY <1>2, <1>3, <1>4, <1>5, <1>6, <1>7, <1>8 DEF Access!KeysInv

\* The first socket that presents a token in time takes it out of the store.
LEMMA TakeInv ==
    ASSUME Access!ConsoleKeysAssumption, Access!KeysInv, NEW q \in Requests, NEW w \in Consoles,
            Access!Take(q, w)
    PROVE  Access!KeysInv'
  <1> USE DEF Access!ConsoleKeysAssumption
  <1>1. /\ Access!TypeOK /\ Access!OneSocketPerToken /\ Access!KeyUsedOnce
        /\ Access!SocketInv /\ Access!ConsoleUse /\ Access!AttemptUse
        /\ Access!CallsInv /\ Access!ExpiryInv
    BY DEF Access!KeysInv
  <1>2. /\ sock[q].pc = "idle"
        /\ \/ SocketBecomes(q, w, "origin") /\ sessions[w] # 0
           \/ SocketBecomes(q, NoConsole, "rejected")
    BY <1>1 DEF Access!TypeOK, Access!SocketInv, Access!HoldsToken, SocketBecomes, SockType,
           Access!SockPC, Access!Purged, Access!Take
  <1>3. Access!TypeOK'
    BY <1>1, <1>2 DEF Access!TypeOK, Access!Keys, Access!Users, Access!SockPC, Access!GwPC,
           SocketBecomes, SockType, Access!Purged, Access!Take
  <1>4. Access!OneSocketPerToken'
    BY <1>1, <1>2 DEF Access!TypeOK, SocketBecomes, SockType, Access!OneSocketPerToken,
           Access!SocketInv, Access!HoldsToken, Access!Purged, Access!Take
  <1>5. /\ \A v \in Consoles : sessions'[v] \in {0, sessions[v]}
        /\ \A k \in Access!Keys : authKeys'[k] \in {0, authKeys[k]}
        /\ added' = added /\ gw' = gw
    BY <1>1 DEF Access!TypeOK, Access!Purged, Access!Take
  <1>6. Access!SocketInv'
    <2>1. ASSUME NEW r \in Requests, r # q PROVE Access!HoldsToken(r)'
      BY <1>1, <1>2, <1>5, <2>1 DEF Access!TypeOK, SocketBecomes, Access!SocketInv,
             Access!HoldsToken, Access!Keys
    <2>2. sock'[q].console = w => sessions'[w] = 0 /\ added[w] # 0
      BY <1>1, <1>2 DEF Access!TypeOK, SocketBecomes, Access!ExpiryInv, Access!Keys,
             Access!Purged, Access!Take
    <2>3. Access!HoldsToken(q)'
      BY <1>1, <1>2, <1>5, <2>2, Access!ConsoleKeysAssumption
      DEF Access!TypeOK, SocketBecomes, Access!SocketInv, Access!HoldsToken, Access!Keys
    <2>4. QED
      BY <2>1, <2>3 DEF Access!SocketInv
  <1>7. Access!KeyUsedOnce' /\ Access!ConsoleUse' /\ Access!AttemptUse'
    <2>1. authenticated' = authenticated
      BY DEF Access!Take
    <2>2. Access!ConsoleUse'
      BY <1>1, <1>2, <2>1 DEF Access!SocketInv, Access!HoldsToken, Access!ConsoleUse,
             SocketBecomes
    <2>3. QED
      BY <1>1, <1>5, <2>1, <2>2 DEF Access!KeyUsedOnce, Access!AttemptUse
  <1>8. Access!CallsInv'
    BY <1>1 DEF Access!TypeOK, Access!CallsInv, Access!Keys, Access!Users, Access!Purged,
           Access!Take
  <1>9. Access!ExpiryInv'
    BY <1>1 DEF Access!TypeOK, Access!ExpiryInv, Access!Keys, Access!Users, Access!Purged,
           Access!Take
  <1>10. Access!CleanEndLeavesNoKey'
    BY <1>6, <1>8 DEF Access!SocketInv, Access!HoldsToken, Access!CallsInv,
           Access!CleanEndLeavesNoKey
  <1>11. QED
    BY <1>3, <1>4, <1>6, <1>7, <1>8, <1>9, <1>10 DEF Access!KeysInv

\* A socket on its way to the VM.
LEMMA SocketGoesOnInv ==
    ASSUME Access!ConsoleKeysAssumption, Access!KeysInv, NEW q \in Requests,
            Access!SocketGoesOn(q)
    PROVE  Access!KeysInv'
  <1> USE DEF Access!ConsoleKeysAssumption
  <1>1. /\ Access!TypeOK /\ Access!OneSocketPerToken /\ Access!KeyUsedOnce
        /\ Access!SocketInv /\ Access!ConsoleUse /\ Access!AttemptUse
        /\ Access!CallsInv /\ Access!ExpiryInv
    BY DEF Access!KeysInv
  <1>2. \/ sock[q].pc = "origin" /\ SocketBecomes(q, sock[q].console, "dial")
        \/ sock[q].pc = "dial" /\ SocketBecomes(q, sock[q].console, "handshake")
    BY <1>1 DEF Access!TypeOK, Access!SocketInv, Access!HoldsToken, SocketBecomes, SockType,
           Access!SockPC, Access!SocketGoesOn
  <1>3. Access!TypeOK'
    BY <1>1, <1>2 DEF Access!TypeOK, Access!Keys, Access!Users, Access!SockPC, Access!GwPC,
           SocketBecomes, SockType, Access!SocketGoesOn
  <1>4. Access!OneSocketPerToken'
    BY <1>1, <1>2 DEF Access!TypeOK, SocketBecomes, SockType, Access!OneSocketPerToken,
           Access!SocketInv, Access!HoldsToken, Access!SocketGoesOn
  <1>5. /\ \A v \in Consoles : sessions'[v] \in {0, sessions[v]}
        /\ \A k \in Access!Keys : authKeys'[k] \in {0, authKeys[k]}
        /\ added' = added /\ gw' = gw
    BY <1>1 DEF Access!TypeOK, Access!SocketGoesOn
  <1>6. Access!SocketInv'
    <2>1. ASSUME NEW r \in Requests, r # q PROVE Access!HoldsToken(r)'
      BY <1>1, <1>2, <1>5, <2>1 DEF Access!TypeOK, SocketBecomes, Access!SocketInv,
             Access!HoldsToken, Access!Keys
    <2>2. Access!HoldsToken(q)'
      BY <1>1, <1>2, <1>5, Access!ConsoleKeysAssumption DEF Access!TypeOK, SocketBecomes,
             Access!SocketInv, Access!HoldsToken, Access!Keys
    <2>3. QED
      BY <2>1, <2>2 DEF Access!SocketInv
  <1>7. Access!KeyUsedOnce' /\ Access!ConsoleUse' /\ Access!AttemptUse'
    <2>1. authenticated' = authenticated
      BY DEF Access!SocketGoesOn
    <2>2. Access!ConsoleUse'
      BY <1>1, <1>2, <2>1 DEF Access!SocketInv, Access!HoldsToken, Access!ConsoleUse,
             SocketBecomes
    <2>3. QED
      BY <1>1, <1>5, <2>1, <2>2 DEF Access!KeyUsedOnce, Access!AttemptUse
  <1>8. Access!CallsInv'
    BY <1>1 DEF Access!TypeOK, Access!CallsInv, Access!Keys, Access!Users, Access!SocketGoesOn
  <1>9. Access!ExpiryInv'
    BY <1>1 DEF Access!TypeOK, Access!ExpiryInv, Access!Keys, Access!Users, Access!SocketGoesOn
  <1>10. Access!CleanEndLeavesNoKey'
    BY <1>6, <1>8 DEF Access!SocketInv, Access!HoldsToken, Access!CallsInv,
           Access!CleanEndLeavesNoKey
  <1>11. QED
    BY <1>3, <1>4, <1>6, <1>7, <1>8, <1>9, <1>10 DEF Access!KeysInv

\* A socket that ends leaves its key to the TTL.
LEMMA SocketFailsInv ==
    ASSUME Access!ConsoleKeysAssumption, Access!KeysInv, NEW q \in Requests, Access!SocketFails(q)
    PROVE  Access!KeysInv'
  <1> USE DEF Access!ConsoleKeysAssumption
  <1>1. /\ Access!TypeOK /\ Access!OneSocketPerToken /\ Access!KeyUsedOnce
        /\ Access!SocketInv /\ Access!ConsoleUse /\ Access!AttemptUse
        /\ Access!CallsInv /\ Access!ExpiryInv
    BY DEF Access!KeysInv
  <1>2. Access!TypeOK'
    BY <1>1 DEF Access!TypeOK, Access!Keys, Access!Users, Access!SockPC, Access!GwPC,
           Access!SocketFails
  <1>3. Access!OneSocketPerToken'
    BY <1>1 DEF Access!TypeOK, Access!OneSocketPerToken, Access!SocketInv, Access!HoldsToken,
           Access!SocketFails
  <1>4. Access!SocketInv'
    BY <1>1 DEF Access!TypeOK, Access!SocketInv, Access!HoldsToken, Access!Keys, Access!Users,
           Access!SocketFails
  <1>5. Access!KeyUsedOnce' /\ Access!ConsoleUse' /\ Access!AttemptUse'
    BY <1>1 DEF Access!TypeOK, Access!KeyUsedOnce, Access!ConsoleUse, Access!AttemptUse,
           Access!Keys, Access!Users, Access!SocketFails
  <1>6. Access!CallsInv'
    BY <1>1 DEF Access!TypeOK, Access!CallsInv, Access!Keys, Access!Users, Access!SocketFails
  <1>7. Access!ExpiryInv'
    BY <1>1 DEF Access!TypeOK, Access!ExpiryInv, Access!Keys, Access!Users, Access!SocketFails
  <1>8. Access!CleanEndLeavesNoKey'
    BY <1>4, <1>6 DEF Access!SocketInv, Access!HoldsToken, Access!CallsInv,
           Access!CleanEndLeavesNoKey
  <1>9. QED
    BY <1>2, <1>3, <1>4, <1>5, <1>6, <1>7, <1>8 DEF Access!KeysInv

\* The key of a console serves the one socket that holds its token.
LEMMA SocketHandshakeInv ==
    ASSUME Access!ConsoleKeysAssumption, Access!KeysInv, NEW q \in Requests,
            Access!SocketHandshake(q)
    PROVE  Access!KeysInv'
  <1> USE DEF Access!ConsoleKeysAssumption
  <1>1. /\ Access!TypeOK /\ Access!OneSocketPerToken /\ Access!KeyUsedOnce
        /\ Access!SocketInv /\ Access!ConsoleUse /\ Access!AttemptUse
        /\ Access!CallsInv /\ Access!ExpiryInv
    BY DEF Access!KeysInv
  <1>2. SocketBecomes(q, sock[q].console, "authed") /\ sock[q].console \in Consoles
    BY <1>1 DEF Access!TypeOK, Access!SocketInv, Access!HoldsToken, SocketBecomes, SockType,
           Access!SockPC, Access!AuthorizedKeysHas, Access!Purged, Access!SocketHandshake
  <1>3. Access!TypeOK'
    <2>1. sessions' \in [Consoles -> 0 .. MaxTime + TTL]
      BY <1>1, <1>2 DEF Access!TypeOK, Access!Keys, Access!Users, Access!AuthorizedKeysHas,
             Access!Purged, Access!SocketHandshake
    <2>2. authKeys' \in [Access!Keys -> 0 .. MaxTime + TTL]
      BY <1>1, <1>2 DEF Access!TypeOK, Access!Keys, Access!Users, Access!AuthorizedKeysHas,
             Access!Purged, Access!SocketHandshake
    <2>3. authenticated' \in [Access!Keys -> Nat]
      BY <1>1, <1>2 DEF Access!TypeOK, Access!Keys, Access!SocketHandshake
    <2>4. QED
      BY <1>1, <1>2, <2>1, <2>2, <2>3 DEF Access!TypeOK, SocketBecomes, SockType, Access!GwPC,
             Access!Users, Access!SocketHandshake
  <1>4. Access!OneSocketPerToken'
    BY <1>1, <1>2 DEF Access!TypeOK, SocketBecomes, SockType, Access!OneSocketPerToken,
           Access!SocketInv, Access!HoldsToken, Access!AuthorizedKeysHas, Access!Purged,
           Access!SocketHandshake
  <1>5. /\ \A v \in Consoles : sessions'[v] \in {0, sessions[v]}
        /\ \A k \in Access!Keys : authKeys'[k] \in {0, authKeys[k]}
        /\ added' = added /\ gw' = gw
    BY <1>1 DEF Access!TypeOK, Access!AuthorizedKeysHas, Access!Purged, Access!SocketHandshake
  <1>6. Access!SocketInv'
    <2>1. ASSUME NEW r \in Requests, r # q PROVE Access!HoldsToken(r)'
      BY <1>1, <1>2, <1>5, <2>1 DEF Access!TypeOK, SocketBecomes, Access!SocketInv,
             Access!HoldsToken, Access!Keys
    <2>2. Access!HoldsToken(q)'
      BY <1>1, <1>2, <1>5, Access!ConsoleKeysAssumption DEF Access!TypeOK, SocketBecomes,
             Access!SocketInv, Access!HoldsToken, Access!Keys
    <2>3. QED
      BY <2>1, <2>2 DEF Access!SocketInv
  <1>7. Access!KeyUsedOnce' /\ Access!ConsoleUse' /\ Access!AttemptUse'
    <2>1. authenticated[sock[q].console] = 0
      BY <1>1, <1>2 DEF Access!ConsoleUse, Access!OneSocketPerToken, Access!SocketHandshake
    <2>2. /\ authenticated'[sock[q].console] = 1
          /\ \A k \in Access!Keys : k # sock[q].console => authenticated'[k] = authenticated[k]
      BY <1>1, <1>2, <2>1 DEF Access!TypeOK, Access!Keys, Access!SocketHandshake
    <2>3. Access!KeyUsedOnce'
      BY <1>1, <2>2 DEF Access!KeyUsedOnce
    <2>4. Access!ConsoleUse'
      BY <1>1, <1>2, <2>2 DEF Access!ConsoleUse, SocketBecomes, Access!Keys
    <2>5. Access!AttemptUse'
      BY <1>1, <1>2, <1>5, <2>2, Access!ConsoleKeysAssumption
      DEF Access!AttemptUse, Access!Keys, Access!Users
    <2>6. QED
      BY <2>3, <2>4, <2>5
  <1>8. Access!CallsInv'
    BY <1>1 DEF Access!TypeOK, Access!CallsInv, Access!Keys, Access!Users,
           Access!AuthorizedKeysHas, Access!Purged, Access!SocketHandshake
  <1>9. Access!ExpiryInv'
    BY <1>1 DEF Access!TypeOK, Access!ExpiryInv, Access!Keys, Access!Users,
           Access!AuthorizedKeysHas, Access!Purged, Access!SocketHandshake
  <1>10. Access!CleanEndLeavesNoKey'
    BY <1>6, <1>8 DEF Access!SocketInv, Access!HoldsToken, Access!CallsInv,
           Access!CleanEndLeavesNoKey
  <1>11. QED
    BY <1>3, <1>4, <1>6, <1>7, <1>8, <1>9, <1>10 DEF Access!KeysInv

\* The relay deletes the key, which nothing puts back.
LEMMA SocketDeletesKeyInv ==
    ASSUME Access!ConsoleKeysAssumption, Access!KeysInv, NEW q \in Requests,
            Access!SocketDeletesKey(q)
    PROVE  Access!KeysInv'
  <1> USE DEF Access!ConsoleKeysAssumption
  <1>1. /\ Access!TypeOK /\ Access!OneSocketPerToken /\ Access!KeyUsedOnce
        /\ Access!SocketInv /\ Access!ConsoleUse /\ Access!AttemptUse
        /\ Access!CallsInv /\ Access!ExpiryInv
    BY DEF Access!KeysInv
  <1>2. /\ sock[q].console \in Consoles
        /\ \/ sock[q].pc = "authed" /\ SocketBecomes(q, sock[q].console, "running")
           \/ sock[q].pc = "running" /\ SocketBecomes(q, sock[q].console, "closed")
    BY <1>1 DEF Access!TypeOK, Access!SocketInv, Access!HoldsToken, SocketBecomes, SockType,
           Access!SockPC, Access!DeleteAuthorizedKey, Access!SocketDeletesKey
  <1>3. Access!TypeOK'
    <2>1. authKeys' \in [Access!Keys -> 0 .. MaxTime + TTL]
      BY <1>1, <1>2 DEF Access!TypeOK, Access!Keys, Access!Users, Access!DeleteAuthorizedKey,
             Access!SocketDeletesKey
    <2>2. QED
      BY <1>1, <1>2, <2>1 DEF Access!TypeOK, SocketBecomes, SockType, Access!GwPC, Access!Users,
             Access!SocketDeletesKey
  <1>4. Access!OneSocketPerToken'
    BY <1>1, <1>2 DEF Access!TypeOK, SocketBecomes, SockType, Access!OneSocketPerToken,
           Access!SocketInv, Access!HoldsToken, Access!DeleteAuthorizedKey,
           Access!SocketDeletesKey
  <1>5. /\ \A v \in Consoles : sessions'[v] \in {0, sessions[v]}
        /\ \A k \in Access!Keys : authKeys'[k] \in {0, authKeys[k]}
        /\ added' = added /\ gw' = gw
    BY <1>1 DEF Access!TypeOK, Access!DeleteAuthorizedKey, Access!SocketDeletesKey
  <1>6. Access!SocketInv'
    <2>1. ASSUME NEW r \in Requests, r # q PROVE Access!HoldsToken(r)'
      BY <1>1, <1>2, <1>5, <2>1 DEF Access!TypeOK, SocketBecomes, Access!SocketInv,
             Access!HoldsToken, Access!Keys
    <2>2. authKeys'[sock[q].console] = 0
      BY <1>1, <1>2 DEF Access!TypeOK, SocketBecomes, Access!Keys, Access!DeleteAuthorizedKey,
             Access!SocketDeletesKey
    <2>3. Access!HoldsToken(q)'
      BY <1>1, <1>2, <1>5, <2>2, Access!ConsoleKeysAssumption
      DEF Access!TypeOK, SocketBecomes, Access!SocketInv, Access!HoldsToken, Access!Keys
    <2>4. QED
      BY <2>1, <2>3 DEF Access!SocketInv
  <1>7. Access!KeyUsedOnce' /\ Access!ConsoleUse' /\ Access!AttemptUse'
    <2>1. authenticated' = authenticated
      BY DEF Access!SocketDeletesKey
    <2>2. Access!ConsoleUse'
      BY <1>1, <1>2, <2>1 DEF Access!SocketInv, Access!HoldsToken, Access!ConsoleUse,
             SocketBecomes
    <2>3. QED
      BY <1>1, <1>5, <2>1, <2>2 DEF Access!KeyUsedOnce, Access!AttemptUse
  <1>8. Access!CallsInv'
    BY <1>1 DEF Access!TypeOK, Access!CallsInv, Access!Keys, Access!Users,
           Access!DeleteAuthorizedKey, Access!SocketDeletesKey
  <1>9. Access!ExpiryInv'
    BY <1>1 DEF Access!TypeOK, Access!ExpiryInv, Access!Keys, Access!Users,
           Access!DeleteAuthorizedKey, Access!SocketDeletesKey
  <1>10. Access!CleanEndLeavesNoKey'
    BY <1>6, <1>8 DEF Access!SocketInv, Access!HoldsToken, Access!CallsInv,
           Access!CleanEndLeavesNoKey
  <1>11. QED
    BY <1>3, <1>4, <1>6, <1>7, <1>8, <1>9, <1>10 DEF Access!KeysInv

\* The registration of a key is sent once.
LEMMA RegisterInv ==
    ASSUME Access!ConsoleKeysAssumption, Access!KeysInv, NEW u \in Access!Users,
            Access!Register(u)
    PROVE  Access!KeysInv'
  <1> USE DEF Access!ConsoleKeysAssumption
  <1>1. /\ Access!TypeOK /\ Access!OneSocketPerToken /\ Access!KeyUsedOnce
        /\ Access!SocketInv /\ Access!ConsoleUse /\ Access!AttemptUse
        /\ Access!CallsInv /\ Access!ExpiryInv
    BY DEF Access!KeysInv
  <1>2. Access!TypeOK'
    BY <1>1 DEF Access!TypeOK, Access!Keys, Access!Users, Access!SockPC, Access!GwPC,
           Access!Register
  <1>3. Access!OneSocketPerToken'
    BY <1>1 DEF Access!TypeOK, Access!OneSocketPerToken, Access!SocketInv, Access!HoldsToken,
           Access!Register
  <1>4. Access!SocketInv'
    BY <1>1 DEF Access!TypeOK, Access!SocketInv, Access!HoldsToken, Access!Keys, Access!Users,
           Access!Register
  <1>5. Access!KeyUsedOnce' /\ Access!ConsoleUse' /\ Access!AttemptUse'
    BY <1>1 DEF Access!TypeOK, Access!KeyUsedOnce, Access!ConsoleUse, Access!AttemptUse,
           Access!Keys, Access!Users, Access!Register
  <1>6. Access!CallsInv'
    BY <1>1 DEF Access!TypeOK, Access!CallsInv, Access!Keys, Access!Users, Access!Register
  <1>7. Access!ExpiryInv'
    BY <1>1 DEF Access!TypeOK, Access!ExpiryInv, Access!Keys, Access!Users, Access!Register
  <1>8. Access!CleanEndLeavesNoKey'
    BY <1>4, <1>6 DEF Access!SocketInv, Access!HoldsToken, Access!CallsInv,
           Access!CleanEndLeavesNoKey
  <1>9. QED
    BY <1>2, <1>3, <1>4, <1>5, <1>6, <1>7, <1>8 DEF Access!KeysInv

\* The gateway goes on with the answer.
LEMMA RegisteredInv ==
    ASSUME Access!ConsoleKeysAssumption, Access!KeysInv, NEW u \in Access!Users,
            Access!Registered(u)
    PROVE  Access!KeysInv'
  <1> USE DEF Access!ConsoleKeysAssumption
  <1>1. /\ Access!TypeOK /\ Access!OneSocketPerToken /\ Access!KeyUsedOnce
        /\ Access!SocketInv /\ Access!ConsoleUse /\ Access!AttemptUse
        /\ Access!CallsInv /\ Access!ExpiryInv
    BY DEF Access!KeysInv
  <1>2. Access!TypeOK'
    BY <1>1 DEF Access!TypeOK, Access!Keys, Access!Users, Access!SockPC, Access!GwPC,
           Access!Registered
  <1>3. Access!OneSocketPerToken'
    BY <1>1 DEF Access!TypeOK, Access!OneSocketPerToken, Access!SocketInv, Access!HoldsToken,
           Access!Registered
  <1>4. Access!SocketInv'
    BY <1>1 DEF Access!TypeOK, Access!SocketInv, Access!HoldsToken, Access!Keys, Access!Users,
           Access!Registered
  <1>5. Access!KeyUsedOnce' /\ Access!ConsoleUse' /\ Access!AttemptUse'
    BY <1>1 DEF Access!TypeOK, Access!KeyUsedOnce, Access!ConsoleUse, Access!AttemptUse,
           Access!Keys, Access!Users, Access!Registered
  <1>6. Access!CallsInv'
    BY <1>1 DEF Access!TypeOK, Access!CallsInv, Access!Keys, Access!Users, Access!Registered
  <1>7. Access!ExpiryInv'
    BY <1>1 DEF Access!TypeOK, Access!ExpiryInv, Access!Keys, Access!Users, Access!Registered
  <1>8. Access!CleanEndLeavesNoKey'
    BY <1>4, <1>6 DEF Access!SocketInv, Access!HoldsToken, Access!CallsInv,
           Access!CleanEndLeavesNoKey
  <1>9. QED
    BY <1>2, <1>3, <1>4, <1>5, <1>6, <1>7, <1>8 DEF Access!KeysInv

\* It gives up on a registration that may still arrive.
LEMMA RegisterFailsInv ==
    ASSUME Access!ConsoleKeysAssumption, Access!KeysInv, NEW u \in Access!Users,
            Access!RegisterFails(u)
    PROVE  Access!KeysInv'
  <1> USE DEF Access!ConsoleKeysAssumption
  <1>1. /\ Access!TypeOK /\ Access!OneSocketPerToken /\ Access!KeyUsedOnce
        /\ Access!SocketInv /\ Access!ConsoleUse /\ Access!AttemptUse
        /\ Access!CallsInv /\ Access!ExpiryInv
    BY DEF Access!KeysInv
  <1>2. Access!TypeOK'
    BY <1>1 DEF Access!TypeOK, Access!Keys, Access!Users, Access!SockPC, Access!GwPC,
           Access!RegisterFails
  <1>3. Access!OneSocketPerToken'
    BY <1>1 DEF Access!TypeOK, Access!OneSocketPerToken, Access!SocketInv, Access!HoldsToken,
           Access!RegisterFails
  <1>4. Access!SocketInv'
    BY <1>1 DEF Access!TypeOK, Access!SocketInv, Access!HoldsToken, Access!Keys, Access!Users,
           Access!RegisterFails
  <1>5. Access!KeyUsedOnce' /\ Access!ConsoleUse' /\ Access!AttemptUse'
    BY <1>1 DEF Access!TypeOK, Access!KeyUsedOnce, Access!ConsoleUse, Access!AttemptUse,
           Access!Keys, Access!Users, Access!RegisterFails
  <1>6. Access!CallsInv'
    BY <1>1 DEF Access!TypeOK, Access!CallsInv, Access!Keys, Access!Users, Access!RegisterFails
  <1>7. Access!ExpiryInv'
    BY <1>1 DEF Access!TypeOK, Access!ExpiryInv, Access!Keys, Access!Users, Access!RegisterFails
  <1>8. Access!CleanEndLeavesNoKey'
    BY <1>4, <1>6 DEF Access!SocketInv, Access!HoldsToken, Access!CallsInv,
           Access!CleanEndLeavesNoKey
  <1>9. QED
    BY <1>2, <1>3, <1>4, <1>5, <1>6, <1>7, <1>8 DEF Access!KeysInv

\* An attempt on its way.
LEMMA GwGoesOnInv ==
    ASSUME Access!ConsoleKeysAssumption, Access!KeysInv, NEW u \in Access!Users,
            Access!GwGoesOn(u)
    PROVE  Access!KeysInv'
  <1> USE DEF Access!ConsoleKeysAssumption
  <1>1. /\ Access!TypeOK /\ Access!OneSocketPerToken /\ Access!KeyUsedOnce
        /\ Access!SocketInv /\ Access!ConsoleUse /\ Access!AttemptUse
        /\ Access!CallsInv /\ Access!ExpiryInv
    BY DEF Access!KeysInv
  <1>2. Access!TypeOK'
    BY <1>1 DEF Access!TypeOK, Access!Keys, Access!Users, Access!SockPC, Access!GwPC,
           Access!GwGoesOn
  <1>3. Access!OneSocketPerToken'
    BY <1>1 DEF Access!TypeOK, Access!OneSocketPerToken, Access!SocketInv, Access!HoldsToken,
           Access!GwGoesOn
  <1>4. Access!SocketInv'
    BY <1>1 DEF Access!TypeOK, Access!SocketInv, Access!HoldsToken, Access!Keys, Access!Users,
           Access!GwGoesOn
  <1>5. Access!KeyUsedOnce' /\ Access!ConsoleUse' /\ Access!AttemptUse'
    BY <1>1 DEF Access!TypeOK, Access!KeyUsedOnce, Access!ConsoleUse, Access!AttemptUse,
           Access!Keys, Access!Users, Access!GwGoesOn
  <1>6. Access!CallsInv'
    BY <1>1 DEF Access!TypeOK, Access!CallsInv, Access!Keys, Access!Users, Access!GwGoesOn
  <1>7. Access!ExpiryInv'
    BY <1>1 DEF Access!TypeOK, Access!ExpiryInv, Access!Keys, Access!Users, Access!GwGoesOn
  <1>8. Access!CleanEndLeavesNoKey'
    BY <1>4, <1>6 DEF Access!SocketInv, Access!HoldsToken, Access!CallsInv,
           Access!CleanEndLeavesNoKey
  <1>9. QED
    BY <1>2, <1>3, <1>4, <1>5, <1>6, <1>7, <1>8 DEF Access!KeysInv

\* A failed attempt asks for the deletion of a key that was registered.
LEMMA GwDialFailsInv ==
    ASSUME Access!ConsoleKeysAssumption, Access!KeysInv, NEW u \in Access!Users,
            Access!GwDialFails(u)
    PROVE  Access!KeysInv'
  <1> USE DEF Access!ConsoleKeysAssumption
  <1>1. /\ Access!TypeOK /\ Access!OneSocketPerToken /\ Access!KeyUsedOnce
        /\ Access!SocketInv /\ Access!ConsoleUse /\ Access!AttemptUse
        /\ Access!CallsInv /\ Access!ExpiryInv
    BY DEF Access!KeysInv
  <1>2. Access!TypeOK'
    BY <1>1 DEF Access!TypeOK, Access!Keys, Access!Users, Access!SockPC, Access!GwPC,
           Access!GwDialFails
  <1>3. Access!OneSocketPerToken'
    BY <1>1 DEF Access!TypeOK, Access!OneSocketPerToken, Access!SocketInv, Access!HoldsToken,
           Access!GwDialFails
  <1>4. Access!SocketInv'
    BY <1>1 DEF Access!TypeOK, Access!SocketInv, Access!HoldsToken, Access!Keys, Access!Users,
           Access!GwDialFails
  <1>5. Access!KeyUsedOnce' /\ Access!ConsoleUse' /\ Access!AttemptUse'
    BY <1>1 DEF Access!TypeOK, Access!KeyUsedOnce, Access!ConsoleUse, Access!AttemptUse,
           Access!Keys, Access!Users, Access!GwDialFails
  <1>6. Access!CallsInv'
    BY <1>1 DEF Access!TypeOK, Access!CallsInv, Access!Keys, Access!Users, Access!GwDialFails
  <1>7. Access!ExpiryInv'
    BY <1>1 DEF Access!TypeOK, Access!ExpiryInv, Access!Keys, Access!Users, Access!GwDialFails
  <1>8. Access!CleanEndLeavesNoKey'
    BY <1>4, <1>6 DEF Access!SocketInv, Access!HoldsToken, Access!CallsInv,
           Access!CleanEndLeavesNoKey
  <1>9. QED
    BY <1>2, <1>3, <1>4, <1>5, <1>6, <1>7, <1>8 DEF Access!KeysInv

\* The key of an attempt serves its one handshake.
LEMMA GwHandshakeInv ==
    ASSUME Access!ConsoleKeysAssumption, Access!KeysInv, NEW u \in Access!Users,
            Access!GwHandshake(u)
    PROVE  Access!KeysInv'
  <1> USE DEF Access!ConsoleKeysAssumption
  <1>1. /\ Access!TypeOK /\ Access!OneSocketPerToken /\ Access!KeyUsedOnce
        /\ Access!SocketInv /\ Access!ConsoleUse /\ Access!AttemptUse
        /\ Access!CallsInv /\ Access!ExpiryInv
    BY DEF Access!KeysInv
  <1>2. Access!TypeOK'
    <2>1. sessions' \in [Consoles -> 0 .. MaxTime + TTL]
      BY <1>1 DEF Access!TypeOK, Access!Keys, Access!Users, Access!AuthorizedKeysHas,
             Access!Purged, Access!GwHandshake
    <2>2. authKeys' \in [Access!Keys -> 0 .. MaxTime + TTL]
      BY <1>1 DEF Access!TypeOK, Access!Keys, Access!Users, Access!AuthorizedKeysHas,
             Access!Purged, Access!GwHandshake
    <2>3. authenticated' \in [Access!Keys -> Nat]
      BY <1>1 DEF Access!TypeOK, Access!Keys, Access!GwHandshake
    <2>4. QED
      BY <1>1, <2>1, <2>2, <2>3 DEF Access!TypeOK, Access!GwPC, Access!Users, Access!GwHandshake
  <1>3. Access!OneSocketPerToken'
    BY <1>1 DEF Access!TypeOK, Access!OneSocketPerToken, Access!SocketInv, Access!HoldsToken,
           Access!AuthorizedKeysHas, Access!Purged, Access!GwHandshake
  <1>4. Access!SocketInv'
    BY <1>1 DEF Access!TypeOK, Access!SocketInv, Access!HoldsToken, Access!Keys, Access!Users,
           Access!AuthorizedKeysHas, Access!Purged, Access!GwHandshake
  <1>5. Access!KeyUsedOnce' /\ Access!ConsoleUse' /\ Access!AttemptUse'
    <2>1. authenticated[u] = 0
      BY <1>1 DEF Access!AttemptUse, Access!GwHandshake
    <2>2. /\ authenticated'[u] = 1
          /\ \A k \in Access!Keys : k # u => authenticated'[k] = authenticated[k]
      BY <1>1, <2>1 DEF Access!TypeOK, Access!Keys, Access!GwHandshake
    <2>3. gw'[u] = "authed" /\ \A v \in Access!Users : v # u => gw'[v] = gw[v]
      BY <1>1 DEF Access!TypeOK, Access!GwHandshake
    <2>4. Access!KeyUsedOnce'
      BY <1>1, <2>2 DEF Access!KeyUsedOnce
    <2>5. Access!ConsoleUse'
      BY <1>1, <2>2 DEF Access!ConsoleUse, Access!Keys, Access!Users, Access!GwHandshake
    <2>6. Access!AttemptUse'
      BY <1>1, <2>2, <2>3 DEF Access!AttemptUse, Access!Keys
    <2>7. QED
      BY <2>4, <2>5, <2>6
  <1>6. Access!CallsInv'
    BY <1>1 DEF Access!TypeOK, Access!CallsInv, Access!Keys, Access!Users,
           Access!AuthorizedKeysHas, Access!Purged, Access!GwHandshake
  <1>7. Access!ExpiryInv'
    BY <1>1 DEF Access!TypeOK, Access!ExpiryInv, Access!Keys, Access!Users,
           Access!AuthorizedKeysHas, Access!Purged, Access!GwHandshake
  <1>8. Access!CleanEndLeavesNoKey'
    BY <1>4, <1>6 DEF Access!SocketInv, Access!HoldsToken, Access!CallsInv,
           Access!CleanEndLeavesNoKey
  <1>9. QED
    BY <1>2, <1>3, <1>4, <1>5, <1>6, <1>7, <1>8 DEF Access!KeysInv

\* So does the end of a session.
LEMMA GwEndsInv ==
    ASSUME Access!ConsoleKeysAssumption, Access!KeysInv, NEW u \in Access!Users, Access!GwEnds(u)
    PROVE  Access!KeysInv'
  <1> USE DEF Access!ConsoleKeysAssumption
  <1>1. /\ Access!TypeOK /\ Access!OneSocketPerToken /\ Access!KeyUsedOnce
        /\ Access!SocketInv /\ Access!ConsoleUse /\ Access!AttemptUse
        /\ Access!CallsInv /\ Access!ExpiryInv
    BY DEF Access!KeysInv
  <1>2. Access!TypeOK'
    BY <1>1, SMTT(30) DEF Access!TypeOK, Access!Keys, Access!Users, Access!SockPC,
           Access!GwPC, Access!GwEnds
  <1>3. Access!OneSocketPerToken'
    BY <1>1 DEF Access!TypeOK, Access!OneSocketPerToken, Access!SocketInv, Access!HoldsToken,
           Access!GwEnds
  <1>4. Access!SocketInv'
    BY <1>1 DEF Access!TypeOK, Access!SocketInv, Access!HoldsToken, Access!Keys, Access!Users,
           Access!GwEnds
  <1>5. Access!KeyUsedOnce' /\ Access!ConsoleUse' /\ Access!AttemptUse'
    BY <1>1 DEF Access!TypeOK, Access!KeyUsedOnce, Access!ConsoleUse, Access!AttemptUse,
           Access!Keys, Access!Users, Access!GwEnds
  <1>6. Access!CallsInv'
    BY <1>1 DEF Access!TypeOK, Access!CallsInv, Access!Keys, Access!Users, Access!GwEnds
  <1>7. Access!ExpiryInv'
    BY <1>1 DEF Access!TypeOK, Access!ExpiryInv, Access!Keys, Access!Users, Access!GwEnds
  <1>8. Access!CleanEndLeavesNoKey'
    BY <1>4, <1>6 DEF Access!SocketInv, Access!HoldsToken, Access!CallsInv,
           Access!CleanEndLeavesNoKey
  <1>9. QED
    BY <1>2, <1>3, <1>4, <1>5, <1>6, <1>7, <1>8 DEF Access!KeysInv

\* An answered deletion.
LEMMA GwDeletedInv ==
    ASSUME Access!ConsoleKeysAssumption, Access!KeysInv, NEW u \in Access!Users,
            Access!GwDeleted(u)
    PROVE  Access!KeysInv'
  <1> USE DEF Access!ConsoleKeysAssumption
  <1>1. /\ Access!TypeOK /\ Access!OneSocketPerToken /\ Access!KeyUsedOnce
        /\ Access!SocketInv /\ Access!ConsoleUse /\ Access!AttemptUse
        /\ Access!CallsInv /\ Access!ExpiryInv
    BY DEF Access!KeysInv
  <1>2. Access!TypeOK'
    BY <1>1 DEF Access!TypeOK, Access!Keys, Access!Users, Access!SockPC, Access!GwPC,
           Access!GwDeleted
  <1>3. Access!OneSocketPerToken'
    BY <1>1 DEF Access!TypeOK, Access!OneSocketPerToken, Access!SocketInv, Access!HoldsToken,
           Access!GwDeleted
  <1>4. Access!SocketInv'
    BY <1>1 DEF Access!TypeOK, Access!SocketInv, Access!HoldsToken, Access!Keys, Access!Users,
           Access!GwDeleted
  <1>5. Access!KeyUsedOnce' /\ Access!ConsoleUse' /\ Access!AttemptUse'
    BY <1>1 DEF Access!TypeOK, Access!KeyUsedOnce, Access!ConsoleUse, Access!AttemptUse,
           Access!Keys, Access!Users, Access!GwDeleted
  <1>6. Access!CallsInv'
    BY <1>1 DEF Access!TypeOK, Access!CallsInv, Access!Keys, Access!Users, Access!GwDeleted
  <1>7. Access!ExpiryInv'
    BY <1>1 DEF Access!TypeOK, Access!ExpiryInv, Access!Keys, Access!Users, Access!GwDeleted
  <1>8. Access!CleanEndLeavesNoKey'
    BY <1>4, <1>6 DEF Access!SocketInv, Access!HoldsToken, Access!CallsInv,
           Access!CleanEndLeavesNoKey
  <1>9. QED
    BY <1>2, <1>3, <1>4, <1>5, <1>6, <1>7, <1>8 DEF Access!KeysInv

\* A deletion that was not answered leaves the key to the TTL.
LEMMA GwDeleteFailsInv ==
    ASSUME Access!ConsoleKeysAssumption, Access!KeysInv, NEW u \in Access!Users,
            Access!GwDeleteFails(u)
    PROVE  Access!KeysInv'
  <1> USE DEF Access!ConsoleKeysAssumption
  <1>1. /\ Access!TypeOK /\ Access!OneSocketPerToken /\ Access!KeyUsedOnce
        /\ Access!SocketInv /\ Access!ConsoleUse /\ Access!AttemptUse
        /\ Access!CallsInv /\ Access!ExpiryInv
    BY DEF Access!KeysInv
  <1>2. Access!TypeOK'
    BY <1>1 DEF Access!TypeOK, Access!Keys, Access!Users, Access!SockPC, Access!GwPC,
           Access!GwDeleteFails
  <1>3. Access!OneSocketPerToken'
    BY <1>1 DEF Access!TypeOK, Access!OneSocketPerToken, Access!SocketInv, Access!HoldsToken,
           Access!GwDeleteFails
  <1>4. Access!SocketInv'
    BY <1>1 DEF Access!TypeOK, Access!SocketInv, Access!HoldsToken, Access!Keys, Access!Users,
           Access!GwDeleteFails
  <1>5. Access!KeyUsedOnce' /\ Access!ConsoleUse' /\ Access!AttemptUse'
    BY <1>1 DEF Access!TypeOK, Access!KeyUsedOnce, Access!ConsoleUse, Access!AttemptUse,
           Access!Keys, Access!Users, Access!GwDeleteFails
  <1>6. Access!CallsInv'
    BY <1>1 DEF Access!TypeOK, Access!CallsInv, Access!Keys, Access!Users, Access!GwDeleteFails
  <1>7. Access!ExpiryInv'
    BY <1>1 DEF Access!TypeOK, Access!ExpiryInv, Access!Keys, Access!Users, Access!GwDeleteFails
  <1>8. Access!CleanEndLeavesNoKey'
    BY <1>4, <1>6 DEF Access!SocketInv, Access!HoldsToken, Access!CallsInv,
           Access!CleanEndLeavesNoKey
  <1>9. QED
    BY <1>2, <1>3, <1>4, <1>5, <1>6, <1>7, <1>8 DEF Access!KeysInv

\* A registration that arrives was not handled before.
LEMMA ApiAddInv ==
    ASSUME Access!ConsoleKeysAssumption, Access!KeysInv, NEW u \in Access!Users, Access!ApiAdd(u)
    PROVE  Access!KeysInv'
  <1> USE DEF Access!ConsoleKeysAssumption
  <1>1. /\ Access!TypeOK /\ Access!OneSocketPerToken /\ Access!KeyUsedOnce
        /\ Access!SocketInv /\ Access!ConsoleUse /\ Access!AttemptUse
        /\ Access!CallsInv /\ Access!ExpiryInv
    BY DEF Access!KeysInv
  <1>2. Access!TypeOK'
    BY <1>1, SMTT(30) DEF Access!TypeOK, Access!Keys, Access!Users, Access!SockPC,
           Access!GwPC, Access!AddAuthorizedKey, Access!Purged, Access!ApiAdd
  <1>3. Access!OneSocketPerToken'
    BY <1>1 DEF Access!TypeOK, Access!OneSocketPerToken, Access!SocketInv, Access!HoldsToken,
           Access!AddAuthorizedKey, Access!Purged, Access!ApiAdd
  <1>4. Access!SocketInv'
    BY <1>1 DEF Access!TypeOK, Access!SocketInv, Access!HoldsToken, Access!Keys, Access!Users,
           Access!AddAuthorizedKey, Access!Purged, Access!ApiAdd
  <1>5. Access!KeyUsedOnce' /\ Access!ConsoleUse' /\ Access!AttemptUse'
    BY <1>1 DEF Access!TypeOK, Access!KeyUsedOnce, Access!ConsoleUse, Access!AttemptUse,
           Access!Keys, Access!Users, Access!AddAuthorizedKey, Access!Purged, Access!ApiAdd
  <1>6. Access!CallsInv'
    BY <1>1 DEF Access!TypeOK, Access!CallsInv, Access!Keys, Access!Users,
           Access!AddAuthorizedKey, Access!Purged, Access!ApiAdd
  <1>7. Access!ExpiryInv'
    BY <1>1 DEF Access!TypeOK, Access!ExpiryInv, Access!Keys, Access!Users,
           Access!AddAuthorizedKey, Access!Purged, Access!ApiAdd
  <1>8. Access!CleanEndLeavesNoKey'
    BY <1>4, <1>6 DEF Access!SocketInv, Access!HoldsToken, Access!CallsInv,
           Access!CleanEndLeavesNoKey
  <1>9. QED
    BY <1>2, <1>3, <1>4, <1>5, <1>6, <1>7, <1>8 DEF Access!KeysInv

\* A deletion that arrives comes after its registration.
LEMMA ApiDeleteInv ==
    ASSUME Access!ConsoleKeysAssumption, Access!KeysInv, NEW u \in Access!Users,
            Access!ApiDelete(u)
    PROVE  Access!KeysInv'
  <1> USE DEF Access!ConsoleKeysAssumption
  <1>1. /\ Access!TypeOK /\ Access!OneSocketPerToken /\ Access!KeyUsedOnce
        /\ Access!SocketInv /\ Access!ConsoleUse /\ Access!AttemptUse
        /\ Access!CallsInv /\ Access!ExpiryInv
    BY DEF Access!KeysInv
  <1>2. Access!TypeOK'
    BY <1>1 DEF Access!TypeOK, Access!Keys, Access!Users, Access!SockPC, Access!GwPC,
           Access!DeleteAuthorizedKey, Access!ApiDelete
  <1>3. Access!OneSocketPerToken'
    BY <1>1 DEF Access!TypeOK, Access!OneSocketPerToken, Access!SocketInv, Access!HoldsToken,
           Access!DeleteAuthorizedKey, Access!ApiDelete
  <1>4. Access!SocketInv'
    BY <1>1 DEF Access!TypeOK, Access!SocketInv, Access!HoldsToken, Access!Keys, Access!Users,
           Access!DeleteAuthorizedKey, Access!ApiDelete
  <1>5. Access!KeyUsedOnce' /\ Access!ConsoleUse' /\ Access!AttemptUse'
    BY <1>1 DEF Access!TypeOK, Access!KeyUsedOnce, Access!ConsoleUse, Access!AttemptUse,
           Access!Keys, Access!Users, Access!DeleteAuthorizedKey, Access!ApiDelete
  <1>6. Access!CallsInv'
    BY <1>1 DEF Access!TypeOK, Access!CallsInv, Access!Keys, Access!Users,
           Access!DeleteAuthorizedKey, Access!ApiDelete
  <1>7. Access!ExpiryInv'
    BY <1>1 DEF Access!TypeOK, Access!ExpiryInv, Access!Keys, Access!Users,
           Access!DeleteAuthorizedKey, Access!ApiDelete
  <1>8. Access!CleanEndLeavesNoKey'
    BY <1>4, <1>6 DEF Access!SocketInv, Access!HoldsToken, Access!CallsInv,
           Access!CleanEndLeavesNoKey
  <1>9. QED
    BY <1>2, <1>3, <1>4, <1>5, <1>6, <1>7, <1>8 DEF Access!KeysInv

\* A lost call.
LEMMA CallLostInv ==
    ASSUME Access!ConsoleKeysAssumption, Access!KeysInv, NEW c \in calls, Access!CallLost(c)
    PROVE  Access!KeysInv'
  <1> USE DEF Access!ConsoleKeysAssumption
  <1>1. /\ Access!TypeOK /\ Access!OneSocketPerToken /\ Access!KeyUsedOnce
        /\ Access!SocketInv /\ Access!ConsoleUse /\ Access!AttemptUse
        /\ Access!CallsInv /\ Access!ExpiryInv
    BY DEF Access!KeysInv
  <1>2. Access!TypeOK'
    BY <1>1 DEF Access!TypeOK, Access!Keys, Access!Users, Access!SockPC, Access!GwPC,
           Access!CallLost
  <1>3. Access!OneSocketPerToken'
    BY <1>1 DEF Access!TypeOK, Access!OneSocketPerToken, Access!SocketInv, Access!HoldsToken,
           Access!CallLost
  <1>4. Access!SocketInv'
    BY <1>1 DEF Access!TypeOK, Access!SocketInv, Access!HoldsToken, Access!Keys, Access!Users,
           Access!CallLost
  <1>5. Access!KeyUsedOnce' /\ Access!ConsoleUse' /\ Access!AttemptUse'
    BY <1>1 DEF Access!TypeOK, Access!KeyUsedOnce, Access!ConsoleUse, Access!AttemptUse,
           Access!Keys, Access!Users, Access!CallLost
  <1>6. Access!CallsInv'
    BY <1>1 DEF Access!TypeOK, Access!CallsInv, Access!Keys, Access!Users, Access!CallLost
  <1>7. Access!ExpiryInv'
    BY <1>1 DEF Access!TypeOK, Access!ExpiryInv, Access!Keys, Access!Users, Access!CallLost
  <1>8. Access!CleanEndLeavesNoKey'
    BY <1>4, <1>6 DEF Access!SocketInv, Access!HoldsToken, Access!CallsInv,
           Access!CleanEndLeavesNoKey
  <1>9. QED
    BY <1>2, <1>3, <1>4, <1>5, <1>6, <1>7, <1>8 DEF Access!KeysInv

\* The gateway dies.
LEMMA GwDiesInv ==
    ASSUME Access!ConsoleKeysAssumption, Access!KeysInv, Access!GwDies
    PROVE  Access!KeysInv'
  <1> USE DEF Access!ConsoleKeysAssumption
  <1>1. /\ Access!TypeOK /\ Access!OneSocketPerToken /\ Access!KeyUsedOnce
        /\ Access!SocketInv /\ Access!ConsoleUse /\ Access!AttemptUse
        /\ Access!CallsInv /\ Access!ExpiryInv
    BY DEF Access!KeysInv
  <1>2. Access!TypeOK'
    BY <1>1 DEF Access!TypeOK, Access!Keys, Access!Users, Access!SockPC, Access!GwPC,
           Access!GwDies
  <1>3. Access!OneSocketPerToken'
    BY <1>1 DEF Access!TypeOK, Access!OneSocketPerToken, Access!SocketInv, Access!HoldsToken,
           Access!GwDies
  <1>4. Access!SocketInv'
    BY <1>1 DEF Access!TypeOK, Access!SocketInv, Access!HoldsToken, Access!Keys, Access!Users,
           Access!GwDies
  <1>5. Access!KeyUsedOnce' /\ Access!ConsoleUse' /\ Access!AttemptUse'
    BY <1>1 DEF Access!TypeOK, Access!KeyUsedOnce, Access!ConsoleUse, Access!AttemptUse,
           Access!Keys, Access!Users, Access!GwDies
  <1>6. Access!CallsInv'
    BY <1>1 DEF Access!TypeOK, Access!CallsInv, Access!Keys, Access!Users, Access!GwDies
  <1>7. Access!ExpiryInv'
    BY <1>1 DEF Access!TypeOK, Access!ExpiryInv, Access!Keys, Access!Users, Access!GwDies
  <1>8. Access!CleanEndLeavesNoKey'
    BY <1>4, <1>6 DEF Access!SocketInv, Access!HoldsToken, Access!CallsInv,
           Access!CleanEndLeavesNoKey
  <1>9. QED
    BY <1>2, <1>3, <1>4, <1>5, <1>6, <1>7, <1>8 DEF Access!KeysInv

\* A purge only takes away.
LEMMA GetAuthorizedKeysInv ==
    ASSUME Access!ConsoleKeysAssumption, Access!KeysInv, Access!GetAuthorizedKeys
    PROVE  Access!KeysInv'
  <1> USE DEF Access!ConsoleKeysAssumption
  <1>1. /\ Access!TypeOK /\ Access!OneSocketPerToken /\ Access!KeyUsedOnce
        /\ Access!SocketInv /\ Access!ConsoleUse /\ Access!AttemptUse
        /\ Access!CallsInv /\ Access!ExpiryInv
    BY DEF Access!KeysInv
  <1>2. Access!TypeOK'
    BY <1>1 DEF Access!TypeOK, Access!Keys, Access!Users, Access!SockPC, Access!GwPC,
           Access!Purged, Access!GetAuthorizedKeys
  <1>3. Access!OneSocketPerToken'
    BY <1>1 DEF Access!TypeOK, Access!OneSocketPerToken, Access!SocketInv, Access!HoldsToken,
           Access!Purged, Access!GetAuthorizedKeys
  <1>4. Access!SocketInv'
    BY <1>1 DEF Access!TypeOK, Access!SocketInv, Access!HoldsToken, Access!Keys, Access!Users,
           Access!Purged, Access!GetAuthorizedKeys
  <1>5. Access!KeyUsedOnce' /\ Access!ConsoleUse' /\ Access!AttemptUse'
    BY <1>1 DEF Access!TypeOK, Access!KeyUsedOnce, Access!ConsoleUse, Access!AttemptUse,
           Access!Keys, Access!Users, Access!Purged, Access!GetAuthorizedKeys
  <1>6. Access!CallsInv'
    BY <1>1 DEF Access!TypeOK, Access!CallsInv, Access!Keys, Access!Users, Access!Purged,
           Access!GetAuthorizedKeys
  <1>7. Access!ExpiryInv'
    BY <1>1 DEF Access!TypeOK, Access!ExpiryInv, Access!Keys, Access!Users, Access!Purged,
           Access!GetAuthorizedKeys
  <1>8. Access!CleanEndLeavesNoKey'
    BY <1>4, <1>6 DEF Access!SocketInv, Access!HoldsToken, Access!CallsInv,
           Access!CleanEndLeavesNoKey
  <1>9. QED
    BY <1>2, <1>3, <1>4, <1>5, <1>6, <1>7, <1>8 DEF Access!KeysInv

\* A restart of the API empties the store.
LEMMA ApiRestartsInv ==
    ASSUME Access!ConsoleKeysAssumption, Access!KeysInv, Access!ApiRestarts
    PROVE  Access!KeysInv'
  <1> USE DEF Access!ConsoleKeysAssumption
  <1>1. /\ Access!TypeOK /\ Access!OneSocketPerToken /\ Access!KeyUsedOnce
        /\ Access!SocketInv /\ Access!ConsoleUse /\ Access!AttemptUse
        /\ Access!CallsInv /\ Access!ExpiryInv
    BY DEF Access!KeysInv
  <1>2. Access!TypeOK'
    <2>1. sock' \in [Requests -> [console : Consoles \cup {NoConsole}, pc : Access!SockPC]]
      BY <1>1 DEF Access!TypeOK, Access!Keys, Access!Users, Access!SockPC, Access!ApiRestarts
    <2>2. QED
      BY <1>1, <2>1 DEF Access!TypeOK, Access!GwPC, Access!Users, Access!ApiRestarts
  <1>3. Access!OneSocketPerToken'
    BY <1>1 DEF Access!TypeOK, Access!OneSocketPerToken, Access!SocketInv, Access!HoldsToken,
           Access!ApiRestarts
  <1>4. Access!SocketInv'
    BY <1>1 DEF Access!TypeOK, Access!SocketInv, Access!HoldsToken, Access!Keys, Access!Users,
           Access!ApiRestarts
  <1>5. Access!KeyUsedOnce' /\ Access!ConsoleUse' /\ Access!AttemptUse'
    BY <1>1 DEF Access!TypeOK, Access!KeyUsedOnce, Access!ConsoleUse, Access!AttemptUse,
           Access!Keys, Access!Users, Access!ApiRestarts
  <1>6. Access!CallsInv'
    BY <1>1 DEF Access!TypeOK, Access!CallsInv, Access!Keys, Access!Users, Access!ApiRestarts
  <1>7. Access!ExpiryInv'
    BY <1>1 DEF Access!TypeOK, Access!ExpiryInv, Access!Keys, Access!Users, Access!ApiRestarts
  <1>8. Access!CleanEndLeavesNoKey'
    BY <1>4, <1>6 DEF Access!SocketInv, Access!HoldsToken, Access!CallsInv,
           Access!CleanEndLeavesNoKey
  <1>9. QED
    BY <1>2, <1>3, <1>4, <1>5, <1>6, <1>7, <1>8 DEF Access!KeysInv

\* Time passes.
LEMMA TickKeys ==
    ASSUME Access!ConsoleKeysAssumption, Access!KeysInv, Access!Tick
    PROVE  Access!KeysInv'
  <1> USE DEF Access!ConsoleKeysAssumption
  <1>1. /\ Access!TypeOK /\ Access!OneSocketPerToken /\ Access!KeyUsedOnce
        /\ Access!SocketInv /\ Access!ConsoleUse /\ Access!AttemptUse
        /\ Access!CallsInv /\ Access!ExpiryInv
    BY DEF Access!KeysInv
  <1>2. Access!TypeOK'
    BY <1>1 DEF Access!TypeOK, Access!Tick
  <1>3. Access!OneSocketPerToken'
    BY <1>1 DEF Access!TypeOK, Access!OneSocketPerToken, Access!SocketInv, Access!HoldsToken,
           Access!Tick
  <1>4. Access!SocketInv'
    BY <1>1 DEF Access!TypeOK, Access!SocketInv, Access!HoldsToken, Access!Keys, Access!Users,
           Access!Tick
  <1>5. Access!KeyUsedOnce' /\ Access!ConsoleUse' /\ Access!AttemptUse'
    BY <1>1 DEF Access!TypeOK, Access!KeyUsedOnce, Access!ConsoleUse, Access!AttemptUse,
           Access!Keys, Access!Users, Access!Tick
  <1>6. Access!CallsInv'
    BY <1>1 DEF Access!TypeOK, Access!CallsInv, Access!Keys, Access!Users, Access!Tick
  <1>7. Access!ExpiryInv'
    BY <1>1 DEF Access!TypeOK, Access!ExpiryInv, Access!Keys, Access!Users, Access!Tick
  <1>8. Access!CleanEndLeavesNoKey'
    BY <1>4, <1>6 DEF Access!SocketInv, Access!HoldsToken, Access!CallsInv,
           Access!CleanEndLeavesNoKey
  <1>9. QED
    BY <1>2, <1>3, <1>4, <1>5, <1>6, <1>7, <1>8 DEF Access!KeysInv

\* The initial state satisfies the invariant.
LEMMA InitKeys ==
    ASSUME Access!ConsoleKeysAssumption, Access!Init
    PROVE  Access!KeysInv
  <1>1. Access!TypeOK
    BY DEF Access!ConsoleKeysAssumption, Access!Init, Access!TypeOK, Access!Keys, Access!Users,
           Access!SockPC, Access!GwPC
  <1>2. Access!OneSocketPerToken /\ Access!KeyUsedOnce /\ Access!CleanEndLeavesNoKey
    BY DEF Access!Init, Access!OneSocketPerToken, Access!KeyUsedOnce, Access!CleanEndLeavesNoKey
  <1>3. Access!SocketInv /\ Access!ConsoleUse /\ Access!AttemptUse
    BY DEF Access!Init, Access!SocketInv, Access!HoldsToken, Access!ConsoleUse,
           Access!AttemptUse, Access!Keys
  <1>4. Access!CallsInv /\ Access!ExpiryInv
    BY DEF Access!Init, Access!CallsInv, Access!ExpiryInv
  <1>5. QED
    BY <1>1, <1>2, <1>3, <1>4 DEF Access!KeysInv

\* Every step keeps the invariant.
LEMMA NextKeys ==
    ASSUME Access!ConsoleKeysAssumption, Access!KeysInv, [Access!Next]_Access!vars
    PROVE  Access!KeysInv'
  <1>1. CASE \E w \in Consoles : Access!CreateConsole(w)
    BY <1>1, CreateConsoleInv
  <1>2. CASE \E q \in Requests, w \in Consoles : Access!Take(q, w)
    BY <1>2, TakeInv
  <1>3. CASE \E q \in Requests : \/ Access!SocketGoesOn(q) \/ Access!SocketFails(q)
                                 \/ Access!SocketHandshake(q) \/ Access!SocketDeletesKey(q)
    BY <1>3, SocketGoesOnInv, SocketFailsInv, SocketHandshakeInv, SocketDeletesKeyInv
  <1>4. CASE \E u \in Access!Users :
                \/ Access!Register(u) \/ Access!Registered(u) \/ Access!RegisterFails(u)
                \/ Access!GwGoesOn(u) \/ Access!GwDialFails(u) \/ Access!GwHandshake(u)
    BY <1>4, RegisterInv, RegisteredInv, RegisterFailsInv, GwGoesOnInv, GwDialFailsInv,
       GwHandshakeInv
  <1>5. CASE \E u \in Access!Users :
                \/ Access!GwEnds(u) \/ Access!GwDeleted(u) \/ Access!GwDeleteFails(u)
                \/ Access!ApiAdd(u) \/ Access!ApiDelete(u)
    BY <1>5, GwEndsInv, GwDeletedInv, GwDeleteFailsInv, ApiAddInv, ApiDeleteInv
  <1>6. CASE \E c \in calls : Access!CallLost(c)
    BY <1>6, CallLostInv
  <1>7. CASE Access!GwDies \/ Access!GetAuthorizedKeys \/ Access!ApiRestarts \/ Access!Tick
    BY <1>7, GwDiesInv, GetAuthorizedKeysInv, ApiRestartsInv, TickKeys
  <1>8. CASE UNCHANGED Access!vars
    BY <1>8 DEF Access!vars, Access!KeysInv, Access!TypeOK, Access!OneSocketPerToken,
           Access!KeyUsedOnce, Access!CleanEndLeavesNoKey, Access!SocketInv, Access!HoldsToken,
           Access!ConsoleUse, Access!AttemptUse, Access!CallsInv, Access!ExpiryInv
  <1>9. QED
    BY <1>1, <1>2, <1>3, <1>4, <1>5, <1>6, <1>7, <1>8 DEF Access!Next

\* A console token serves one socket, a key one connection, and a deletion that was answered
\* leaves no key, for any number of consoles, sockets and users: whatever is lost, late or
\* restarted (access/console_session.go:67, cmd/ssh-gateway/server.go:267).
THEOREM KeysInvariant ==
    ASSUME Access!ConsoleKeysAssumption
    PROVE  Access!Spec => []KeysInv
  <1>1. Access!Init => Access!KeysInv
    BY InitKeys
  <1>2. Access!KeysInv /\ [Access!Next]_Access!vars => Access!KeysInv'
    BY NextKeys
  <1>3. QED
    BY <1>1, <1>2, PTL DEF Access!Spec, KeysInv

\* A step in which a VM accepts a key, or a socket takes a token, comes within the TTL of
\* its registration.
LEMMA UseInTime ==
    ASSUME Access!ConsoleKeysAssumption, Access!KeysInv, [Access!Next]_Access!vars
    PROVE  /\ \A k \in Access!Keys : authenticated'[k] # authenticated[k] => now <= added[k] + TTL
           /\ \A q \in Requests : sock'[q].console # sock[q].console =>
                 now <= added[sock'[q].console] + TTL
  <1>1. Access!TypeOK /\ Access!SocketInv /\ Access!ExpiryInv
    BY DEF Access!KeysInv
  <1> DEFINE Timely ==
        /\ \A k \in Access!Keys : authenticated'[k] # authenticated[k] => now <= added[k] + TTL
        /\ \A q \in Requests : sock'[q].console # sock[q].console =>
              now <= added[sock'[q].console] + TTL
  <1> SUFFICES Timely
    OBVIOUS
  <1>2. ASSUME NEW q \in Requests, NEW w \in Consoles, Access!Take(q, w) PROVE Timely
    <2>1. authenticated' = authenticated
      BY <1>2 DEF Access!Take
    <2>2. \/ SocketBecomes(q, w, "origin") /\ sessions[w] # 0 /\ ~(now > sessions[w])
          \/ SocketBecomes(q, NoConsole, "rejected") /\ sock[q].console = NoConsole
      BY <1>1, <1>2 DEF Access!TypeOK, Access!Take, Access!Purged, SocketBecomes, SockType,
             Access!SockPC, Access!SocketInv, Access!HoldsToken
    <2>3. QED
      BY <1>1, <2>1, <2>2, Access!ConsoleKeysAssumption DEF Access!ConsoleKeysAssumption,
             Access!TypeOK, Access!ExpiryInv, SocketBecomes
  <1>3. ASSUME NEW q \in Requests, Access!SocketHandshake(q) PROVE Timely
    <2>1. \A r \in Requests : sock'[r].console = sock[r].console
      BY <1>1, <1>3 DEF Access!TypeOK, Access!SocketHandshake
    <2>2. /\ authKeys[sock[q].console] # 0 /\ ~(now > authKeys[sock[q].console])
          /\ sock[q].console \in Access!Keys
      BY <1>1, <1>3 DEF Access!TypeOK, Access!SocketInv, Access!HoldsToken, Access!Keys,
             Access!SocketHandshake, Access!AuthorizedKeysHas, Access!Purged
    <2>3. \A k \in Access!Keys : k # sock[q].console => authenticated'[k] = authenticated[k]
      BY <1>1, <1>3 DEF Access!TypeOK, Access!SocketHandshake
    <2>4. QED
      BY <1>1, <2>1, <2>2, <2>3 DEF Access!ConsoleKeysAssumption, Access!TypeOK, Access!ExpiryInv
  <1>4. ASSUME NEW u \in Access!Users, Access!GwHandshake(u) PROVE Timely
    <2>1. sock' = sock
      BY <1>4 DEF Access!GwHandshake
    <2>2. authKeys[u] # 0 /\ ~(now > authKeys[u]) /\ u \in Access!Keys
      BY <1>1, <1>4 DEF Access!TypeOK, Access!Keys, Access!GwHandshake,
             Access!AuthorizedKeysHas, Access!Purged
    <2>3. \A k \in Access!Keys : k # u => authenticated'[k] = authenticated[k]
      BY <1>1, <1>4 DEF Access!TypeOK, Access!GwHandshake
    <2>4. QED
      BY <1>1, <2>1, <2>2, <2>3 DEF Access!ConsoleKeysAssumption, Access!TypeOK, Access!ExpiryInv
  <1>5. ASSUME NEW q \in Requests,
      Access!SocketGoesOn(q) \/ Access!SocketFails(q) \/ Access!SocketDeletesKey(q)
        PROVE  Timely
    <2>1. authenticated' = authenticated
      BY <1>5 DEF Access!SocketGoesOn, Access!SocketFails, Access!SocketDeletesKey
    <2>2. \A r \in Requests : sock'[r].console = sock[r].console
      BY <1>1, <1>5 DEF Access!TypeOK, Access!SocketGoesOn, Access!SocketFails,
             Access!SocketDeletesKey
    <2>3. QED
      BY <2>1, <2>2
  <1>6. CASE Access!ApiRestarts
    BY <1>1, <1>6 DEF Access!TypeOK, Access!ApiRestarts
  <1>7. CASE UNCHANGED <<sock, authenticated>>
    BY <1>7
  <1>8. QED
    BY <1>2, <1>3, <1>4, <1>5, <1>6, <1>7 DEF Access!Next, Access!vars, Access!CreateConsole,
           Access!Register, Access!Registered, Access!RegisterFails, Access!GwGoesOn,
           Access!GwDialFails, Access!GwEnds, Access!GwDeleted, Access!GwDeleteFails,
           Access!ApiAdd, Access!ApiDelete, Access!CallLost, Access!GwDies,
           Access!GetAuthorizedKeys, Access!Tick

\* Whatever a crash, a lost call or a failed handshake leaves in the store lapses: neither a
\* token nor a key is accepted after its time (access/console_session.go:67, 128).
THEOREM LateUseImpossible ==
    ASSUME Access!ConsoleKeysAssumption
    PROVE  Access!Spec => NoLateUse
  <1>1. Access!KeysInv /\ [Access!Next]_Access!vars =>
           [\A k \in Access!Keys : authenticated'[k] # authenticated[k] =>
                now <= added[k] + TTL]_Access!vars
    BY UseInTime
  <1>2. Access!KeysInv /\ [Access!Next]_Access!vars =>
           [\A q \in Requests : sock'[q].console # sock[q].console =>
                now <= added[sock'[q].console] + TTL]_Access!vars
    BY UseInTime
  <1>3. QED
    BY <1>1, <1>2, KeysInvariant, PTL DEF Access!Spec, KeysInv, NoLateUse, Access!NoLateUse,
           Access!NoLateAcceptance, Access!NoLateTake

-----------------------------------------------------------------------------
(* Host keys *)

\* The instance counts as FiniteSets does.
LEMMA TrustCounts ==
    ASSUME NEW S
    PROVE  /\ Trust!Cardinality(S) = Cardinality(S)
           /\ Trust!IsFiniteSet(S) <=> IsFiniteSet(S)
  <1>1. Trust!Cardinality(S) = Cardinality(S)
    BY DEF Trust!Cardinality, Cardinality
  <1>2. Trust!IsFiniteSet(S) <=> IsFiniteSet(S)
    BY DEF Trust!IsFiniteSet, IsFiniteSet
  <1>3. QED
    BY <1>1, <1>2

\* One line more in the file.
Appended(l) == known' = [known EXCEPT !.lines = Append(@, l)]

\* The sessions other than s stay where they are.
SessionBecomes(s, state) == session' = [session EXCEPT ![s] = state]

\* What a line appended to known_hosts adds to what a look-up finds: nothing is
\* replaced, whatever was appended since.
LEMMA AppendFacts ==
    ASSUME Trust!TypeOK, NEW l \in Trust!Line, Appended(l)
    PROVE  /\ known' \in [lines : Seq(Trust!Line), torn : BOOLEAN]
           /\ Len(known.lines') = Len(known.lines) + 1
           /\ \A h \in Hosts :
                 Trust!Want(h)' = Trust!Want(h) \cup (IF l.host = h THEN {l.key} ELSE {})
  <1>1. known \in [lines : Seq(Trust!Line), torn : BOOLEAN]
    BY DEF Trust!TypeOK
  <1>2. known.lines \in Seq(Trust!Line) /\ known'.lines = Append(known.lines, l)
    BY <1>1 DEF Appended
  <1>3. /\ Append(known.lines, l) \in Seq(Trust!Line)
        /\ Len(Append(known.lines, l)) = Len(known.lines) + 1
        /\ DOMAIN known.lines = 1 .. Len(known.lines)
        /\ DOMAIN Append(known.lines, l) = 1 .. (Len(known.lines) + 1)
        /\ \A i \in 1 .. Len(known.lines) : Append(known.lines, l)[i] = known.lines[i]
        /\ Append(known.lines, l)[Len(known.lines) + 1] = l
        /\ Len(known.lines) \in Nat
    BY <1>2
  <1>4. ASSUME NEW h \in Hosts
        PROVE  Trust!Want(h)' = Trust!Want(h) \cup (IF l.host = h THEN {l.key} ELSE {})
    <2>1. ASSUME NEW k
          PROVE  k \in Trust!Want(h)' <=>
                    \E i \in 1 .. (Len(known.lines) + 1) :
                        /\ Append(known.lines, l)[i].host = h
                        /\ Append(known.lines, l)[i].key = k
      BY <1>2, <1>3 DEF Trust!Want
    <2>2. ASSUME NEW k
          PROVE  k \in Trust!Want(h) <=>
                    \E i \in 1 .. Len(known.lines) :
                        known.lines[i].host = h /\ known.lines[i].key = k
      BY <1>3 DEF Trust!Want
    <2>3. ASSUME NEW k
          PROVE  k \in Trust!Want(h)' <=> k \in Trust!Want(h) \/ (l.host = h /\ l.key = k)
      BY <1>3, <2>1, <2>2
    <2>4. QED
      BY <2>3
  <1>5. known' \in [lines : Seq(Trust!Line), torn : BOOLEAN]
    BY <1>1, <1>2, <1>3 DEF Appended
  <1>6. QED
    BY <1>2, <1>3, <1>4, <1>5

\* What a session's step does to the set of those that may still add a key.
LEMMA UnderWayFacts ==
    ASSUME Trust!HostKeyTrustAssumption, Trust!TypeOK, NEW s \in Sessions,
            NEW state \in Trust!Handshake,
           SessionBecomes(s, state)
    PROVE  /\ session' \in [Sessions -> Trust!Handshake]
           /\ \A h \in Hosts :
                /\ Trust!UnderWay(h)' = IF state.pc = "trust" /\ state.host = h
                                  THEN Trust!UnderWay(h) \cup {s} ELSE Trust!UnderWay(h) \ {s}
                /\ IsFiniteSet(Trust!UnderWay(h)) /\ IsFiniteSet(Trust!UnderWay(h)')
                /\ Cardinality(Trust!UnderWay(h)) \in Nat /\ Cardinality(Trust!UnderWay(h)') \in Nat
                /\ Cardinality(Trust!UnderWay(h)') <= Cardinality(Sessions)
                /\ s \in Trust!UnderWay(h) /\ state.pc # "trust" =>
                      Cardinality(Trust!UnderWay(h)') = Cardinality(Trust!UnderWay(h)) - 1
  <1>1. session \in [Sessions -> Trust!Handshake]
    BY DEF Trust!TypeOK
  <1>2. session' \in [Sessions -> Trust!Handshake]
    BY <1>1 DEF SessionBecomes
  <1>3. session'[s] = state /\ \A x \in Sessions \ {s} : session'[x] = session[x]
    BY <1>1 DEF SessionBecomes
  <1>4. ASSUME NEW h \in Hosts
        PROVE  Trust!UnderWay(h)' = IF state.pc = "trust" /\ state.host = h
                              THEN Trust!UnderWay(h) \cup {s} ELSE Trust!UnderWay(h) \ {s}
    BY <1>3 DEF Trust!UnderWay
  <1>5. ASSUME NEW h \in Hosts
        PROVE  /\ IsFiniteSet(Trust!UnderWay(h)) /\ IsFiniteSet(Trust!UnderWay(h)')
               /\ Cardinality(Trust!UnderWay(h)) \in Nat /\ Cardinality(Trust!UnderWay(h)') \in Nat
               /\ Cardinality(Trust!UnderWay(h)') <= Cardinality(Sessions)
    <2>1. Trust!UnderWay(h) \subseteq Sessions /\ Trust!UnderWay(h)' \subseteq Sessions
      BY DEF Trust!UnderWay
    <2>2. QED
      BY <2>1, FS_Subset, FS_CardinalityType, TrustCounts DEF Trust!HostKeyTrustAssumption
  <1>6. ASSUME NEW h \in Hosts, s \in Trust!UnderWay(h), state.pc # "trust"
        PROVE  Cardinality(Trust!UnderWay(h)') = Cardinality(Trust!UnderWay(h)) - 1
    BY <1>4, <1>5, <1>6, FS_RemoveElement
  <1>7. QED
    BY <1>2, <1>4, <1>5, <1>6

\* The initial states satisfy the invariant.
LEMMA InitHostKeyInv ==
    ASSUME Trust!HostKeyTrustAssumption, Trust!Init
    PROVE  Trust!HostKeyInv
  <1>1. known \in [lines : Seq(Trust!Line), torn : BOOLEAN] /\ Len(known.lines) = 0
    BY DEF Trust!Init
  <1>2. session \in [Sessions -> Trust!Handshake]
    BY DEF Trust!Init, Trust!Handshake, Trust!Ready
  <1>3. Trust!TypeOK
    BY <1>1, <1>2 DEF Trust!Init, Trust!TypeOK, Trust!HostKeyTrustAssumption
  <1>4. \A h \in Hosts : Trust!Want(h) = {} /\ Trust!Unvouched(h) = {} /\ Trust!UnderWay(h) = {}
    BY <1>1 DEF Trust!Init, Trust!Want, Trust!Unvouched, Trust!UnderWay, Trust!Ready
  <1>5. Trust!KeysPinned
    BY <1>4 DEF Trust!Init, Trust!KeysPinned
  <1>6. Trust!FewKeys
    <2>1. Cardinality(Sessions) \in Nat
      BY FS_CardinalityType, TrustCounts DEF Trust!HostKeyTrustAssumption
    <2>2. IsFiniteSet({}) /\ Cardinality({}) = 0
      BY FS_EmptySet
    <2>3. QED
      BY <1>4, <2>1, <2>2, TrustCounts DEF Trust!FewKeys
  <1>7. QED
    BY <1>3, <1>5, <1>6 DEF Trust!Init, Trust!HostKeyInv, Trust!OneIdentity, Trust!KeyKept

\* A session that ends a handshake or its connection without adding a key: the
\* file may be cut short by then, but it has the same lines.
LEMMA EndsHostKeyInv ==
    ASSUME Trust!HostKeyTrustAssumption, Trust!HostKeyInv, NEW s \in Sessions,
           NEW state \in [pc : {"idle", "accepted", "refused"}], SessionBecomes(s, state),
           NEW torn \in BOOLEAN, known' = [known EXCEPT !.torn = torn],
           UNCHANGED <<vmKey, replaced, vouched, trusted, Trust!ownVars>>
    PROVE  Trust!HostKeyInv'
  <1>1. Trust!TypeOK /\ Trust!KeysPinned /\ Trust!FewKeys
    BY DEF Trust!HostKeyInv
  <1>2. state \in Trust!Handshake /\ state.pc # "trust"
    BY DEF Trust!Handshake
  <1>3. /\ session' \in [Sessions -> Trust!Handshake]
        /\ \A h \in Hosts :
              /\ Trust!UnderWay(h)' = Trust!UnderWay(h) \ {s}
              /\ IsFiniteSet(Trust!UnderWay(h))
              /\ Cardinality(Trust!UnderWay(h)) \in Nat /\ Cardinality(Trust!UnderWay(h)') \in Nat
    BY <1>1, <1>2, UnderWayFacts
  <1>4. known' \in [lines : Seq(Trust!Line), torn : BOOLEAN] /\ known'.lines = known.lines
    BY <1>1 DEF Trust!TypeOK
  <1>5. Trust!TypeOK'
    BY <1>1, <1>3, <1>4 DEF Trust!TypeOK, Trust!ownVars
  <1>6. Trust!KeysPinned'
    <2>1. \A h \in Hosts : Trust!Want(h)' = Trust!Want(h)
      BY <1>4 DEF Trust!Want
    <2>2. QED
      BY <1>1, <2>1 DEF Trust!KeysPinned
  <1>7. ASSUME NEW h \in Hosts
        PROVE  /\ IsFiniteSet(Trust!Unvouched(h)')
               /\ Cardinality(Trust!Unvouched(h)') + Cardinality(Trust!UnderWay(h)')
                    <= Cardinality(Sessions)
    <2>1. Trust!Unvouched(h)' = Trust!Unvouched(h)
      BY DEF Trust!Unvouched
    <2>2. Cardinality(Trust!UnderWay(h)') <= Cardinality(Trust!UnderWay(h))
      BY <1>3, FS_Subset
    <2>3. /\ IsFiniteSet(Trust!Unvouched(h)) /\ Cardinality(Trust!Unvouched(h)) \in Nat
          /\ Cardinality(Sessions) \in Nat
          /\ Cardinality(Trust!Unvouched(h)) + Cardinality(Trust!UnderWay(h))
                <= Cardinality(Sessions)
      BY <1>1, FS_CardinalityType, TrustCounts DEF Trust!FewKeys, Trust!HostKeyTrustAssumption
    <2>4. QED
      BY <1>3, <2>1, <2>2, <2>3
  <1>8. Trust!FewKeys'
    BY <1>7, TrustCounts DEF Trust!FewKeys
  <1>9. QED
    BY <1>5, <1>6, <1>8 DEF Trust!HostKeyInv, Trust!OneIdentity, Trust!KeyKept, Trust!ownVars

\* A handshake with a key the file has: the key was accepted before or the
\* operator added it.
LEMMA AcceptsHostKeyInv ==
    ASSUME Trust!HostKeyTrustAssumption, Trust!HostKeyInv, NEW s \in Sessions, NEW h \in Hosts,
           session[s].pc = "idle", vmKey[h] \in Trust!Want(h), Trust!Accepts(s, h, vmKey[h]),
           UNCHANGED <<vmKey, replaced, known, vouched, Trust!ownVars>>
    PROVE  Trust!HostKeyInv'
  <1> DEFINE l == [host |-> h, key |-> vmKey[h]]
  <1>1. Trust!TypeOK /\ Trust!KeysPinned /\ Trust!FewKeys
    BY DEF Trust!HostKeyInv
  <1>2. l \in trusted \cup vouched
    <2>1. PICK b \in trusted \cup vouched : b.host = h /\ b.key = vmKey[h]
      BY <1>1 DEF Trust!KeysPinned
    <2>2. b \in Trust!Line
      BY <1>1 DEF Trust!TypeOK
    <2>3. b = l
      BY <2>1, <2>2 DEF Trust!Line
    <2>4. QED
      BY <2>3
  <1>3. trusted' = trusted \cup {l}
    BY DEF Trust!Accepts
  <1>4. /\ trusted' \cup vouched' = trusted \cup vouched
        /\ trusted' \ vouched' = trusted \ vouched
    BY <1>2, <1>3
  <1>5. l \in Trust!Line
    BY <1>1 DEF Trust!TypeOK, Trust!Line
  <1>6. [pc |-> "accepted"] \in Trust!Handshake /\ SessionBecomes(s, [pc |-> "accepted"])
    BY DEF Trust!Handshake, Trust!Accepts, SessionBecomes
  <1>7. /\ session' \in [Sessions -> Trust!Handshake]
        /\ \A x \in Hosts : Trust!UnderWay(x)' = Trust!UnderWay(x) \ {s}
    BY <1>1, <1>6, UnderWayFacts
  <1>8. \A x \in Hosts : Trust!UnderWay(x)' = Trust!UnderWay(x)
    BY <1>7 DEF Trust!UnderWay
  <1>9. Trust!TypeOK'
    BY <1>1, <1>3, <1>5, <1>7 DEF Trust!TypeOK, Trust!ownVars
  <1>10. Trust!KeysPinned'
    <2>1. \A x \in Hosts : Trust!Want(x)' = Trust!Want(x)
      BY DEF Trust!Want
    <2>2. \A x \in Hosts : {a.key : a \in {b \in trusted' \cup vouched' : b.host = x}} =
                            {a.key : a \in {b \in trusted \cup vouched : b.host = x}}
      BY <1>4
    <2>3. QED
      BY <1>1, <2>1, <2>2 DEF Trust!KeysPinned
  <1>11. Trust!FewKeys'
    BY <1>1, <1>4, <1>8, TrustCounts DEF Trust!FewKeys, Trust!Unvouched
  <1>12. QED
    BY <1>9, <1>10, <1>11 DEF Trust!HostKeyInv, Trust!OneIdentity, Trust!KeyKept, Trust!ownVars

\* A session finds no line for the host: nobody has got in there yet, so all
\* sessions together are the bound.
LEMMA BeginsHostKeyInv ==
    ASSUME Trust!HostKeyTrustAssumption, Trust!HostKeyInv, NEW s \in Sessions, NEW h \in Hosts,
           session[s].pc = "idle", Trust!Want(h) = {},
           SessionBecomes(s, [pc |-> "trust", host |-> h, key |-> vmKey[h]]),
           UNCHANGED <<vmKey, replaced, known, trusted, vouched, Trust!ownVars>>
    PROVE  Trust!HostKeyInv'
  <1> DEFINE state == [pc |-> "trust", host |-> h, key |-> vmKey[h]]
  <1>1. Trust!TypeOK /\ Trust!KeysPinned /\ Trust!FewKeys
    BY DEF Trust!HostKeyInv
  <1>2. state \in Trust!Handshake
    BY <1>1 DEF Trust!TypeOK, Trust!Handshake
  <1>3. /\ session' \in [Sessions -> Trust!Handshake]
        /\ \A x \in Hosts \ {h} : Trust!UnderWay(x)' = Trust!UnderWay(x) \ {s}
        /\ Cardinality(Trust!UnderWay(h)') \in Nat
        /\ Cardinality(Trust!UnderWay(h)') <= Cardinality(Sessions)
    BY <1>1, <1>2, UnderWayFacts
  <1>4. Trust!TypeOK'
    BY <1>1, <1>3 DEF Trust!TypeOK, Trust!ownVars
  <1>5. Trust!KeysPinned'
    BY <1>1 DEF Trust!KeysPinned, Trust!Want
  <1>6. Trust!Unvouched(h) = {}
    BY <1>1 DEF Trust!KeysPinned, Trust!Unvouched
  <1>7. \A x \in Hosts : Trust!Unvouched(x)' = Trust!Unvouched(x)
    BY DEF Trust!Unvouched
  <1>8. \A x \in Hosts \ {h} : Trust!UnderWay(x)' = Trust!UnderWay(x)
    BY <1>3 DEF Trust!UnderWay
  <1>9. IsFiniteSet({}) /\ Cardinality({}) = 0 /\ Cardinality(Sessions) \in Nat
    BY FS_EmptySet, FS_CardinalityType, TrustCounts DEF Trust!HostKeyTrustAssumption
  <1>10. Trust!FewKeys'
    <2>1. ASSUME NEW x \in Hosts, x # h
          PROVE  /\ IsFiniteSet(Trust!Unvouched(x)')
                 /\ Cardinality(Trust!Unvouched(x)') + Cardinality(Trust!UnderWay(x)')
                      <= Cardinality(Sessions)
      BY <1>1, <1>7, <1>8, <2>1, TrustCounts DEF Trust!FewKeys
    <2>2. /\ IsFiniteSet(Trust!Unvouched(h)')
          /\ Cardinality(Trust!Unvouched(h)') + Cardinality(Trust!UnderWay(h)')
                <= Cardinality(Sessions)
      <3>1. Trust!Unvouched(h)' = {}
        BY <1>6, <1>7
      <3>2. QED
        BY <1>3, <1>9, <3>1
    <2>3. QED
      BY <2>1, <2>2, TrustCounts DEF Trust!FewKeys
  <1>11. QED
    BY <1>4, <1>5, <1>10 DEF Trust!HostKeyInv, Trust!OneIdentity, Trust!KeyKept, Trust!ownVars

\* The append after an unlocked look-up: it may add a second key of the host, and
\* uses up the right of its session to do so.
LEMMA TrustOnFirstUseHostKeyInv ==
    ASSUME Trust!HostKeyTrustAssumption, Trust!HostKeyInv, NEW s \in Sessions,
            Trust!TrustOnFirstUse(s)
    PROVE  Trust!HostKeyInv'
  <1>1. Trust!TypeOK /\ Trust!KeysPinned /\ Trust!FewKeys
    BY DEF Trust!HostKeyInv
  <1>2. session[s] \in Trust!Handshake /\ session[s].pc = "trust"
    BY <1>1 DEF Trust!TypeOK, Trust!TrustOnFirstUse
  <1>3. session[s].host \in Hosts /\ session[s].key \in HostKeys
    BY <1>2 DEF Trust!Handshake
  <1> PICK g \in Hosts, k \in HostKeys : g = session[s].host /\ k = session[s].key
    BY <1>3
  <1> DEFINE l == [host |-> g, key |-> k]
  <1>4. /\ l \in Trust!Line /\ Appended(l) /\ Len(known.lines) < MaxLines
        /\ trusted' = trusted \cup {l}
        /\ SessionBecomes(s, [pc |-> "accepted"])
        /\ UNCHANGED <<vmKey, replaced, vouched, Trust!ownVars>>
    BY DEF Trust!TrustOnFirstUse, Trust!Accepts, Appended, SessionBecomes, Trust!Line
  <1>5. /\ known' \in [lines : Seq(Trust!Line), torn : BOOLEAN]
        /\ Len(known'.lines) = Len(known.lines) + 1
        /\ \A h \in Hosts : Trust!Want(h)' = Trust!Want(h) \cup (IF l.host = h THEN {l.key} ELSE {})
    BY <1>1, <1>4, AppendFacts
  <1>6. [pc |-> "accepted"] \in Trust!Handshake
    BY DEF Trust!Handshake
  <1>7. /\ session' \in [Sessions -> Trust!Handshake]
        /\ \A h \in Hosts :
              /\ Trust!UnderWay(h)' = Trust!UnderWay(h) \ {s}
              /\ Cardinality(Trust!UnderWay(h)) \in Nat /\ Cardinality(Trust!UnderWay(h)') \in Nat
              /\ s \in Trust!UnderWay(h) =>
                    Cardinality(Trust!UnderWay(h)') = Cardinality(Trust!UnderWay(h)) - 1
    BY <1>1, <1>4, <1>6, UnderWayFacts
  <1>8. Trust!TypeOK'
    <2>1. Len(known'.lines) <= MaxLines
      BY <1>1, <1>4, <1>5 DEF Trust!TypeOK, Trust!HostKeyTrustAssumption
    <2>2. QED
      BY <1>1, <1>4, <1>5, <1>7, <2>1 DEF Trust!TypeOK, Trust!ownVars
  <1>9. Trust!KeysPinned'
    <2>1. ASSUME NEW h \in Hosts
          PROVE  {a.key : a \in {b \in trusted' \cup vouched' : b.host = h}} =
                 {a.key : a \in {b \in trusted \cup vouched : b.host = h}}
                    \cup (IF l.host = h THEN {l.key} ELSE {})
      BY <1>4
    <2>2. \A h \in Hosts : Trust!Want(h) =
              {a.key : a \in {b \in trusted \cup vouched : b.host = h}}
      BY <1>1 DEF Trust!KeysPinned
    <2>3. ASSUME NEW h \in Hosts
          PROVE  Trust!Want(h)' = {a.key : a \in {b \in trusted' \cup vouched' : b.host = h}}
      <3>1. Trust!Want(h)' = Trust!Want(h) \cup (IF l.host = h THEN {l.key} ELSE {})
        BY <1>5
      <3>2. QED
        BY <2>1, <2>2, <3>1
    <2>4. QED
      BY <2>3 DEF Trust!KeysPinned
  <1>10. ASSUME NEW h \in Hosts
         PROVE  /\ IsFiniteSet(Trust!Unvouched(h)')
                /\ Cardinality(Trust!Unvouched(h)') + Cardinality(Trust!UnderWay(h)')
                     <= Cardinality(Sessions)
    <2>1. /\ IsFiniteSet(Trust!Unvouched(h)) /\ Cardinality(Trust!Unvouched(h)) \in Nat
          /\ Cardinality(Sessions) \in Nat
          /\ Cardinality(Trust!Unvouched(h)) + Cardinality(Trust!UnderWay(h))
                <= Cardinality(Sessions)
      BY <1>1, FS_CardinalityType, TrustCounts DEF Trust!FewKeys, Trust!HostKeyTrustAssumption
    <2>2. CASE h = g
      <3>1. Trust!Unvouched(h)' \subseteq Trust!Unvouched(h) \cup {k}
        BY <1>4 DEF Trust!Unvouched
      <3>2. /\ IsFiniteSet(Trust!Unvouched(h) \cup {k})
            /\ Cardinality(Trust!Unvouched(h) \cup {k}) <= Cardinality(Trust!Unvouched(h)) + 1
        <4>1. CASE k \in Trust!Unvouched(h)
          <5>1. Trust!Unvouched(h) \cup {k} = Trust!Unvouched(h)
            BY <4>1
          <5>2. Cardinality(Trust!Unvouched(h)) <= Cardinality(Trust!Unvouched(h)) + 1
            BY <2>1
          <5>3. QED
            BY <2>1, <5>1, <5>2, Zenon
        <4>2. CASE k \notin Trust!Unvouched(h)
          <5>1. /\ IsFiniteSet(Trust!Unvouched(h) \cup {k})
                /\ Cardinality(Trust!Unvouched(h) \cup {k}) = Cardinality(Trust!Unvouched(h)) + 1
            BY <2>1, <4>2, FS_AddElement
          <5>2. QED
            BY <2>1, <5>1
        <4>3. QED
          BY <4>1, <4>2
      <3>3. /\ IsFiniteSet(Trust!Unvouched(h)')
            /\ Cardinality(Trust!Unvouched(h)') <= Cardinality(Trust!Unvouched(h) \cup {k})
        BY <3>1, <3>2, FS_Subset
      <3>4. /\ Cardinality(Trust!Unvouched(h)') \in Nat
            /\ Cardinality(Trust!Unvouched(h) \cup {k}) \in Nat
        BY <3>2, <3>3, FS_CardinalityType
      <3>5. s \in Trust!UnderWay(h)
        BY <1>2, <2>2 DEF Trust!UnderWay
      <3>6. QED
        BY <1>7, <2>1, <3>2, <3>3, <3>4, <3>5
    <2>3. CASE h # g
      <3>1. Trust!Unvouched(h)' = Trust!Unvouched(h)
        BY <1>4, <2>3 DEF Trust!Unvouched
      <3>2. Trust!UnderWay(h)' = Trust!UnderWay(h)
        BY <1>7, <2>3 DEF Trust!UnderWay
      <3>3. QED
        BY <2>1, <3>1, <3>2
    <2>4. QED
      BY <2>2, <2>3
  <1>11. Trust!FewKeys'
    BY <1>10, TrustCounts DEF Trust!FewKeys
  <1>12. QED
    BY <1>4, <1>8, <1>9, <1>11 DEF Trust!HostKeyInv, Trust!OneIdentity, Trust!KeyKept,
           Trust!ownVars

\* A failed append refuses the session, whatever part of the line was written.
LEMMA TrustFailsHostKeyInv ==
    ASSUME Trust!HostKeyTrustAssumption, Trust!HostKeyInv, NEW s \in Sessions, Trust!TrustFails(s)
    PROVE  Trust!HostKeyInv'
  <1>1. known.torn \in BOOLEAN
    BY DEF Trust!HostKeyInv, Trust!TypeOK
  <1>2. PICK torn \in BOOLEAN : known' = [known EXCEPT !.torn = torn]
    BY <1>1 DEF Trust!TrustFails
  <1>3. QED
    BY <1>2, EndsHostKeyInv DEF Trust!TrustFails, Trust!Refuses, SessionBecomes

\* The look-up of a handshake.
LEMMA CallbackHostKeyInv ==
    ASSUME Trust!HostKeyTrustAssumption, Trust!HostKeyInv, NEW s \in Sessions, NEW h \in Hosts,
           Trust!HostKeyCallback(s, h)
    PROVE  Trust!HostKeyInv'
  <1>1. CASE Trust!Refuses(s)
    <2>1. known \in [lines : Seq(Trust!Line), torn : BOOLEAN]
      BY DEF Trust!HostKeyInv, Trust!TypeOK
    <2>2. known.torn \in BOOLEAN /\ known' = [known EXCEPT !.torn = known.torn]
      BY <2>1 DEF Trust!HostKeyCallback
    <2>3. QED
      BY <1>1, <2>2, EndsHostKeyInv DEF Trust!HostKeyCallback, Trust!Refuses, SessionBecomes
  <1>2. CASE vmKey[h] \in Trust!Want(h) /\ Trust!Accepts(s, h, vmKey[h])
    BY <1>2, AcceptsHostKeyInv DEF Trust!HostKeyCallback
  <1>3. CASE /\ Trust!Want(h) = {} /\ UNCHANGED trusted
             /\ session' = [session EXCEPT ![s] =
                                [pc |-> "trust", host |-> h, key |-> vmKey[h]]]
    BY <1>3, BeginsHostKeyInv DEF Trust!HostKeyCallback, SessionBecomes
  <1>4. QED
    BY <1>1, <1>2, <1>3 DEF Trust!HostKeyCallback

\* The end of a session.
LEMMA SessionOverHostKeyInv ==
    ASSUME Trust!HostKeyTrustAssumption, Trust!HostKeyInv, NEW s \in Sessions,
            Trust!SessionOver(s)
    PROVE  Trust!HostKeyInv'
  <1>1. known \in [lines : Seq(Trust!Line), torn : BOOLEAN]
    BY DEF Trust!HostKeyInv, Trust!TypeOK
  <1>2. known.torn \in BOOLEAN /\ known' = [known EXCEPT !.torn = known.torn]
    BY <1>1 DEF Trust!SessionOver
  <1>3. QED
    BY <1>2, EndsHostKeyInv DEF Trust!SessionOver, Trust!Ready, SessionBecomes

\* An address given to another VM changes no line: the new VM's key is a mismatch.
LEMMA VMReplacedHostKeyInv ==
    ASSUME Trust!HostKeyTrustAssumption, Trust!HostKeyInv, NEW h \in Hosts, NEW k \in HostKeys,
           Trust!VMReplaced(h, k)
    PROVE  Trust!HostKeyInv'
  <1>1. Trust!TypeOK'
    BY DEF Trust!VMReplaced, Trust!HostKeyInv, Trust!TypeOK, Trust!ownVars,
           Trust!HostKeyTrustAssumption
  <1>2. QED
    BY <1>1, TrustCounts DEF Trust!VMReplaced, Trust!HostKeyInv, Trust!KeysPinned,
           Trust!FewKeys, Trust!OneIdentity, Trust!KeyKept, Trust!Want, Trust!Unvouched,
           Trust!UnderWay, Trust!ownVars

\* The operator's key is vouched for, also if a session had accepted it.
LEMMA OperatorHostKeyInv ==
    ASSUME Trust!HostKeyTrustAssumption, Trust!HostKeyInv, NEW h \in Hosts,
            Trust!OperatorAppends(h)
    PROVE  Trust!HostKeyInv'
  <1> DEFINE l == [host |-> h, key |-> vmKey[h]]
  <1>1. Trust!TypeOK /\ Trust!KeysPinned /\ Trust!FewKeys
    BY DEF Trust!HostKeyInv
  <1>2. /\ l \in Trust!Line /\ Appended(l) /\ Len(known.lines) < MaxLines
        /\ vouched' = vouched \cup {l}
        /\ UNCHANGED <<vmKey, replaced, session, trusted, Trust!ownVars>>
    BY <1>1 DEF Trust!OperatorAppends, Appended, Trust!Line, Trust!TypeOK
  <1>3. /\ known' \in [lines : Seq(Trust!Line), torn : BOOLEAN]
        /\ Len(known'.lines) = Len(known.lines) + 1
        /\ \A x \in Hosts : Trust!Want(x)' = Trust!Want(x) \cup (IF l.host = x THEN {l.key} ELSE {})
    BY <1>1, <1>2, AppendFacts
  <1>4. Trust!TypeOK'
    <2>1. Len(known'.lines) <= MaxLines
      BY <1>1, <1>2, <1>3 DEF Trust!TypeOK, Trust!HostKeyTrustAssumption
    <2>2. QED
      BY <1>1, <1>2, <1>3, <2>1 DEF Trust!TypeOK, Trust!ownVars
  <1>5. Trust!KeysPinned'
    <2>1. ASSUME NEW x \in Hosts
          PROVE  {a.key : a \in {b \in trusted' \cup vouched' : b.host = x}} =
                 {a.key : a \in {b \in trusted \cup vouched : b.host = x}}
                    \cup (IF l.host = x THEN {l.key} ELSE {})
      BY <1>2
    <2>2. \A x \in Hosts : Trust!Want(x) =
              {a.key : a \in {b \in trusted \cup vouched : b.host = x}}
      BY <1>1 DEF Trust!KeysPinned
    <2>3. ASSUME NEW x \in Hosts
          PROVE  Trust!Want(x)' = {a.key : a \in {b \in trusted' \cup vouched' : b.host = x}}
      <3>1. Trust!Want(x)' = Trust!Want(x) \cup (IF l.host = x THEN {l.key} ELSE {})
        BY <1>3
      <3>2. QED
        BY <2>1, <2>2, <3>1
    <2>4. QED
      BY <2>3 DEF Trust!KeysPinned
  <1>6. ASSUME NEW x \in Hosts
        PROVE  /\ IsFiniteSet(Trust!Unvouched(x)')
               /\ Cardinality(Trust!Unvouched(x)') + Cardinality(Trust!UnderWay(x)')
                    <= Cardinality(Sessions)
    <2>1. /\ IsFiniteSet(Trust!Unvouched(x)) /\ Cardinality(Trust!Unvouched(x)) \in Nat
          /\ Cardinality(Sessions) \in Nat
          /\ Cardinality(Trust!Unvouched(x)) + Cardinality(Trust!UnderWay(x))
                <= Cardinality(Sessions)
      BY <1>1, FS_CardinalityType, TrustCounts DEF Trust!FewKeys, Trust!HostKeyTrustAssumption
    <2>2. Trust!Unvouched(x)' \subseteq Trust!Unvouched(x)
      BY <1>2 DEF Trust!Unvouched
    <2>3. /\ IsFiniteSet(Trust!Unvouched(x)')
          /\ Cardinality(Trust!Unvouched(x)') <= Cardinality(Trust!Unvouched(x))
      BY <2>1, <2>2, FS_Subset
    <2>4. Trust!UnderWay(x)' = Trust!UnderWay(x)
      BY <1>2 DEF Trust!UnderWay
    <2>5. Trust!UnderWay(x) \subseteq Sessions
      BY DEF Trust!UnderWay
    <2>6. Cardinality(Trust!UnderWay(x)) \in Nat /\ Cardinality(Trust!Unvouched(x)') \in Nat
      BY <2>3, <2>5, FS_Subset, FS_CardinalityType, TrustCounts DEF Trust!HostKeyTrustAssumption
    <2>7. QED
      BY <2>1, <2>3, <2>4, <2>6
  <1>7. Trust!FewKeys'
    BY <1>6, TrustCounts DEF Trust!FewKeys
  <1>8. QED
    BY <1>2, <1>4, <1>5, <1>7 DEF Trust!HostKeyInv, Trust!OneIdentity, Trust!KeyKept,
           Trust!ownVars

\* The gateway's own key: what a start, an interrupted write or a stop leaves is
\* no file, a damaged file, or the one key that was ever shown.
LEMMA OwnHostKeyInv ==
    ASSUME Trust!HostKeyTrustAssumption, Trust!HostKeyInv, Trust!Own
    PROVE  Trust!HostKeyInv'
  <1>1. /\ Trust!TypeOK /\ Trust!KeyKept
        /\ UNCHANGED Trust!trustVars
    BY DEF Trust!HostKeyInv, Trust!Own, Trust!ReadHostKey, Trust!GenerateKey,
           Trust!WriteHostKey, Trust!WriteInterrupted, Trust!GatewayStops
  <1>2. /\ gateway \in [at : {"down"}] \cup [at : {"generated", "serving"}, key : OwnKeys]
        /\ ownFile \in OwnKeys \cup {NoKey, Damaged}
        /\ served \subseteq OwnKeys
        /\ NoKey \notin OwnKeys
    BY <1>1 DEF Trust!TypeOK, Trust!HostKeyTrustAssumption
  <1>3. gateway.at # "down" => gateway.key \in OwnKeys
    BY <1>2
  <1>4. gateway.at = "generated" => served = {}
    BY <1>1, <1>2 DEF Trust!KeyKept
  <1> DEFINE OwnInv == /\ Trust!KeyKept
                       /\ served \subseteq OwnKeys
                       /\ ownFile \in OwnKeys \cup {NoKey, Damaged}
                       /\ gateway \in [at : {"down"}]
                            \cup [at : {"generated", "serving"}, key : OwnKeys]
  <1>5. OwnInv'
    <2>1. CASE Trust!ReadHostKey
      BY <1>1, <1>2, <2>1 DEF Trust!ReadHostKey, Trust!KeyKept
    <2>2. ASSUME NEW k \in OwnKeys, Trust!GenerateKey(k) PROVE OwnInv'
      BY <1>1, <1>2, <2>2 DEF Trust!GenerateKey, Trust!KeyKept
    <2>3. CASE Trust!WriteHostKey
      BY <1>1, <1>2, <1>3, <1>4, <2>3 DEF Trust!WriteHostKey, Trust!KeyKept
    <2>4. CASE Trust!WriteInterrupted
      BY <1>1, <1>2, <1>3, <1>4, <2>4 DEF Trust!WriteInterrupted, Trust!KeyKept
    <2>5. CASE Trust!GatewayStops
      BY <1>1, <1>2, <2>5 DEF Trust!GatewayStops, Trust!KeyKept
    <2>6. QED
      BY <2>1, <2>2, <2>3, <2>4, <2>5 DEF Trust!Own
  <1>6. Trust!TypeOK'
    BY <1>1, <1>5 DEF Trust!TypeOK, Trust!trustVars
  <1>7. Trust!OneIdentity'
    BY <1>5 DEF Trust!OneIdentity, Trust!KeyKept
  <1>8. Trust!KeysPinned' /\ Trust!FewKeys'
    BY <1>1, TrustCounts DEF Trust!HostKeyInv, Trust!trustVars, Trust!KeysPinned, Trust!FewKeys,
           Trust!Want, Trust!Unvouched, Trust!UnderWay
  <1>9. QED
    BY <1>5, <1>6, <1>7, <1>8 DEF Trust!HostKeyInv

\* However the two programs' look-ups and appends, the operator, new VMs and
\* interrupted starts interleave: the file has exactly the keys that were accepted
\* or vouched for, a host's keys beyond the operator's are at most as many as the
\* sessions that were under way when its first line was written, and the gateway
\* keeps its identity.
THEOREM HostKeysSound ==
    ASSUME Trust!HostKeyTrustAssumption
    PROVE  Trust!Spec => []HostKeyInv
  <1>1. Trust!Init => Trust!HostKeyInv
    BY InitHostKeyInv
  <1>2. Trust!HostKeyInv /\ [Trust!Next]_Trust!vars => Trust!HostKeyInv'
    <2> SUFFICES ASSUME Trust!HostKeyInv, [Trust!Next]_Trust!vars PROVE Trust!HostKeyInv'
      OBVIOUS
    <2>1. ASSUME NEW s \in Sessions, NEW h \in Hosts,
                 Trust!reloadingInnerHostKeyCallback(s, h) \/ Trust!reloadingVMHostKeyCallback(s, h)
          PROVE  Trust!HostKeyInv'
      BY <2>1, CallbackHostKeyInv DEF Trust!reloadingInnerHostKeyCallback,
             Trust!reloadingVMHostKeyCallback
    <2>2. ASSUME NEW s \in Sessions,
                 \/ Trust!trustInnerHostKeyOnFirstUse(s) \/ Trust!trustVMHostKeyOnFirstUse(s)
                 \/ Trust!SessionOver(s)
          PROVE  Trust!HostKeyInv'
      BY <2>2, TrustOnFirstUseHostKeyInv, TrustFailsHostKeyInv, SessionOverHostKeyInv
      DEF Trust!trustInnerHostKeyOnFirstUse, Trust!trustVMHostKeyOnFirstUse
    <2>3. CASE Trust!Trust
      BY <2>1, <2>2, <2>3, OperatorHostKeyInv, VMReplacedHostKeyInv DEF Trust!Trust
    <2>4. CASE Trust!Own
      BY <2>4, OwnHostKeyInv
    <2>5. CASE UNCHANGED Trust!vars
      <3>1. UNCHANGED <<vmKey, replaced, known, session, trusted, vouched,
                        ownFile, gateway, served>>
        BY <2>5 DEF Trust!vars, Trust!trustVars, Trust!ownVars
      <3>2. Trust!TypeOK' /\ Trust!OneIdentity' /\ Trust!KeyKept'
        BY <3>1 DEF Trust!HostKeyInv, Trust!TypeOK, Trust!OneIdentity, Trust!KeyKept
      <3>3. Trust!KeysPinned' /\ Trust!FewKeys'
        BY <3>1, TrustCounts DEF Trust!HostKeyInv, Trust!KeysPinned, Trust!FewKeys, Trust!Want,
               Trust!Unvouched, Trust!UnderWay
      <3>4. QED
        BY <3>2, <3>3 DEF Trust!HostKeyInv
    <2>6. QED
      BY <2>3, <2>4, <2>5 DEF Trust!Next
  <1>3. QED
    BY <1>1, <1>2, PTL DEF Trust!Spec, HostKeyInv
=============================================================================
