--------------------------- MODULE GoroutineProofs ---------------------------
(***************************************************************************)
(* Proofs about four of the hand-offs between goroutines: the flavor cache *)
(* (FlavorCache), for any number of calls and any flavors; the output of a *)
(* web console (ConsoleOutput), for any pumps and any size of the buffer;  *)
(* a session of the SSH gateway (GatewayRelay); and the data protocol of a *)
(* running function (DataProtocol), for any limits.  The fifth, pending    *)
(* logins, is in LoginProofs.                                              *)
(***************************************************************************)
EXTENDS MCGoroutines, Naturals, Sequences, SequenceTheorems, TLAPS

-----------------------------------------------------------------------------
(* The flavor cache *)

\* One call becomes x, the others stay as they are.
CallBecomes(c, x) ==
    /\ call' \in [Callers -> Flavors!Call]
    /\ call'[c] = x
    /\ \A d \in Callers \ {c} : call'[d] = call[d]

\* The inductive part; the other two properties follow from it.
FlavorsCore ==
    Flavors!TypeOK /\ Flavors!OneSource /\ Flavors!AnswersCurrent /\ Flavors!ResultFinal

\* One fetch at a time, and one result for all who wait, are consequences.
LEMMA FlavorsCoreSuffices ==
    ASSUME Flavors!FlavorCacheAssumption, FlavorsCore
    PROVE  Flavors!FlavorsInv
  <1>1. Flavors!OneFetch
    <2>1. Flavors!Leading \subseteq {inflight} /\ Flavors!Leading \subseteq Callers
      BY DEF FlavorsCore, Flavors!OneSource, Flavors!Leading
    <2>2. refreshing # "no" => inflight = NoCaller
      BY DEF FlavorsCore, Flavors!OneSource
    <2>3. QED
      BY <2>1, <2>2 DEF Flavors!FlavorCacheAssumption, Flavors!OneFetch
  <1>2. Flavors!SharedResult
    <2> SUFFICES ASSUME NEW c \in Callers, call[c].pc = "done", call[c].on # NoCaller
                 PROVE  call[c].result = call[call[c].on].result
      BY DEF Flavors!SharedResult
    <2>1. call[c].on \in Callers
      BY DEF FlavorsCore, Flavors!TypeOK, Flavors!Call
    <2>2. QED
      BY <2>1 DEF FlavorsCore, Flavors!ResultFinal, Flavors!Final
  <1>3. QED
    BY <1>1, <1>2 DEF FlavorsCore, Flavors!FlavorsInv

\* A call is in one place after a step, as the action says.
LEMMA CallMoves ==
    ASSUME Flavors!TypeOK, NEW c \in Callers, NEW x \in Flavors!Call,
           call' = [call EXCEPT ![c] = x]
    PROVE  CallBecomes(c, x)
  BY DEF Flavors!TypeOK, CallBecomes

\* A call that returns what the cache holds, joins a fetch, or leads one.
LEMMA LookupKeeps ==
    ASSUME Flavors!FlavorCacheAssumption, FlavorsCore, NEW c \in Callers, Flavors!Lookup(c)
    PROVE  FlavorsCore' /\ cache' = cache
  <1>1. /\ call[c].pc = "idle" /\ inflight # c /\ cache \in Flavors!Versions
        /\ inflight \in Callers \cup {NoCaller} /\ call \in [Callers -> Flavors!Call]
    BY DEF Flavors!Lookup, Flavors!ReturnFresh, Flavors!ReturnStale, Flavors!Join, Flavors!Lead,
           FlavorsCore, Flavors!OneSource, Flavors!Leading, Flavors!TypeOK
  <1>2. PICK pc \in {"done", "wait", "lead"}, on \in Callers \cup {NoCaller},
             v \in Flavors!Versions :
            /\ call' = [call EXCEPT ![c] = [pc |-> pc, on |-> on, result |-> v]]
            /\ pc = "wait" <=> on # NoCaller
            /\ on # NoCaller => on = inflight
            /\ pc = "lead" <=> inflight' = c
            /\ pc # "lead" => inflight' = inflight
            /\ pc = "lead" => inflight = NoCaller /\ Flavors!Empty(cache) /\ ~fresh
            /\ \/ refreshing' = refreshing
               \/ refreshing' = "asked" /\ ~Flavors!Empty(cache)
            /\ UNCHANGED <<backend, cache, fresh, refreshGot, fetch>>
    <2>1. 0 \in Flavors!Versions
      BY DEF Flavors!Versions, Flavors!FlavorCacheAssumption
    <2>2. CASE Flavors!ReturnFresh(c)
      BY <1>1, <2>2 DEF Flavors!ReturnFresh, Flavors!Enter
    <2>3. CASE Flavors!ReturnStale(c)
      BY <1>1, <2>3 DEF Flavors!ReturnStale, Flavors!Enter
    <2>4. CASE Flavors!Join(c)
      BY <1>1, <2>1, <2>4 DEF Flavors!Join, Flavors!Enter
    <2>5. CASE Flavors!Lead(c)
      BY <1>1, <2>1, <2>5 DEF Flavors!Lead, Flavors!Enter, Flavors!FlavorCacheAssumption
    <2>6. QED
      BY <2>2, <2>3, <2>4, <2>5 DEF Flavors!Lookup
  <1> DEFINE x == [pc |-> pc, on |-> on, result |-> v]
  <1>3. /\ x \in Flavors!Call /\ x.pc = pc /\ x.on = on /\ x.result = v
        /\ call' = [call EXCEPT ![c] = x]
    BY <1>2 DEF Flavors!Call
  <1> HIDE DEF x
  <1>4. CallBecomes(c, x)
    BY <1>3, CallMoves DEF FlavorsCore
  <1>5. Flavors!TypeOK'
    BY <1>2, <1>4 DEF FlavorsCore, Flavors!TypeOK, CallBecomes
  <1>6. Flavors!OneSource'
    <2>1. \A d \in Callers : d \in Flavors!Leading' <=> inflight' = d
      BY <1>1, <1>2, <1>3, <1>4
         DEF FlavorsCore, Flavors!OneSource, Flavors!Leading, CallBecomes,
             Flavors!FlavorCacheAssumption
    <2>2. inflight' # NoCaller => Flavors!Empty(cache) /\ ~fresh
      BY <1>2 DEF FlavorsCore, Flavors!OneSource
    <2>3. refreshing' # "no" => ~Flavors!Empty(cache)
      BY <1>2 DEF FlavorsCore, Flavors!OneSource
    <2>4. QED
      BY <1>2, <2>1, <2>2, <2>3 DEF Flavors!OneSource, Flavors!Empty
  <1>7. Flavors!AnswersCurrent'
    BY <1>2, <1>3, <1>4
       DEF FlavorsCore, Flavors!AnswersCurrent, Flavors!NewerThanCache, CallBecomes
  <1>8. Flavors!ResultFinal'
    <2> SUFFICES ASSUME NEW d \in Callers PROVE Flavors!Final(d)'
      BY DEF Flavors!ResultFinal
    <2>1. QED
      BY <1>1, <1>2, <1>3, <1>4
         DEF FlavorsCore, Flavors!OneSource, Flavors!Leading, Flavors!ResultFinal, Flavors!Final,
             CallBecomes
  <1>9. QED
    BY <1>2, <1>5, <1>6, <1>7, <1>8 DEF FlavorsCore

\* A leader gets its answer, stores it and publishes it; a call that waits takes it.
LEMMA WorkKeeps ==
    ASSUME Flavors!FlavorCacheAssumption, FlavorsCore, NEW c \in Callers, Flavors!Work(c)
    PROVE  FlavorsCore' /\ cache' >= cache
  <1>1. /\ call[c] \in Flavors!Call /\ call \in [Callers -> Flavors!Call] /\ cache \in Nat
        /\ backend \in Nat /\ backend \in Flavors!Versions /\ 0 \in Flavors!Versions
        /\ \A v \in Flavors!Versions : v \in Nat
    BY DEF FlavorsCore, Flavors!TypeOK, Flavors!Versions, Flavors!FlavorCacheAssumption
  <1>2. CASE Flavors!LeadAnswered(c)
    <2>1. PICK v \in {0, backend} :
              call' = [call EXCEPT ![c].pc = "answered", ![c].result = v]
      BY <1>2 DEF Flavors!LeadAnswered, Flavors!Failed
    <2> DEFINE x == [call[c] EXCEPT !.pc = "answered", !.result = v]
    <2>2. /\ x \in Flavors!Call /\ x.pc = "answered" /\ x.result = v /\ x.on = call[c].on
          /\ call' = [call EXCEPT ![c] = x]
      BY <1>1, <2>1 DEF Flavors!Call
    <2> HIDE DEF x
    <2>3. CallBecomes(c, x)
      BY <2>2, CallMoves DEF FlavorsCore
    <2>4. /\ call[c].pc = "lead"
          /\ UNCHANGED <<backend, cache, fresh, refreshing, refreshGot, inflight, fetch>>
      BY <1>2 DEF Flavors!LeadAnswered
    <2>5. Flavors!TypeOK'
      BY <2>3, <2>4 DEF FlavorsCore, Flavors!TypeOK, CallBecomes
    <2>6. Flavors!OneSource'
      BY <2>2, <2>3, <2>4
         DEF FlavorsCore, Flavors!OneSource, Flavors!Leading, Flavors!Empty, CallBecomes
    <2>7. Flavors!AnswersCurrent'
      BY <1>1, <2>2, <2>3, <2>4 DEF FlavorsCore, Flavors!AnswersCurrent,
         Flavors!NewerThanCache, Flavors!Failed, CallBecomes
    <2>8. Flavors!ResultFinal'
      BY <2>2, <2>3, <2>4 DEF FlavorsCore, Flavors!ResultFinal, Flavors!Final, CallBecomes
    <2>9. QED
      BY <1>1, <2>4, <2>5, <2>6, <2>7, <2>8 DEF FlavorsCore
  <1>3. CASE Flavors!LeadStores(c)
    <2> DEFINE x == [call[c] EXCEPT !.pc = "publish"]
    <2>1. /\ x \in Flavors!Call /\ x.pc = "publish" /\ x.result = call[c].result
          /\ x.on = call[c].on /\ call' = [call EXCEPT ![c] = x]
      BY <1>1, <1>3 DEF Flavors!Call, Flavors!LeadStores
    <2> HIDE DEF x
    <2>2. CallBecomes(c, x)
      BY <2>1, CallMoves DEF FlavorsCore
    <2>3. /\ call[c].pc = "answered" /\ inflight = c /\ inflight' = NoCaller /\ refreshing = "no"
          /\ UNCHANGED <<backend, refreshing, refreshGot, fetch>>
      BY <1>3 DEF Flavors!LeadStores, FlavorsCore, Flavors!OneSource, Flavors!Leading,
                  Flavors!FlavorCacheAssumption
    <2>4. /\ cache' \in Flavors!Versions /\ cache' >= cache /\ cache' <= backend
          /\ fresh' \in BOOLEAN /\ (fresh' => cache' # 0)
      <3>1. CASE call[c].result = 0
        <4>1. cache' = cache /\ fresh' = fresh
          BY <1>3, <3>1 DEF Flavors!LeadStores, Flavors!Store, Flavors!Failed
        <4>2. cache \in Flavors!Versions /\ cache <= backend
          BY DEF FlavorsCore, Flavors!TypeOK, Flavors!AnswersCurrent
        <4>3. fresh \in BOOLEAN /\ (fresh => cache # 0)
          BY DEF FlavorsCore, Flavors!TypeOK
        <4>4. cache >= cache
          BY <1>1
        <4>5. QED
          BY <4>1, <4>2, <4>3, <4>4
      <3>2. CASE call[c].result # 0
        <4>1. cache' = call[c].result /\ fresh' = TRUE
          BY <1>3, <3>2 DEF Flavors!LeadStores, Flavors!Store, Flavors!Failed
        <4>2. call[c].result \in cache .. backend /\ call[c].result \in Flavors!Versions
          BY <1>1, <1>3, <2>3, <3>2 DEF Flavors!LeadStores, Flavors!Failed, FlavorsCore,
             Flavors!AnswersCurrent, Flavors!NewerThanCache, Flavors!TypeOK, Flavors!Call
        <4>3. QED
          BY <1>1, <3>2, <4>1, <4>2
      <3>3. QED
        BY <3>1, <3>2
    <2>5. Flavors!TypeOK'
      BY <2>2, <2>3, <2>4 DEF FlavorsCore, Flavors!TypeOK, CallBecomes
    <2>6. Flavors!OneSource'
      BY <2>1, <2>2, <2>3 DEF FlavorsCore, Flavors!OneSource, Flavors!Leading, CallBecomes,
         Flavors!FlavorCacheAssumption
    <2>7. Flavors!AnswersCurrent'
      BY <2>1, <2>2, <2>3, <2>4 DEF FlavorsCore, Flavors!AnswersCurrent, Flavors!OneSource,
         Flavors!Leading, CallBecomes
    <2>8. Flavors!ResultFinal'
      BY <2>1, <2>2, <2>3 DEF FlavorsCore, Flavors!ResultFinal, Flavors!Final, CallBecomes
    <2>9. QED
      BY <2>4, <2>5, <2>6, <2>7, <2>8 DEF FlavorsCore
  <1>4. CASE Flavors!LeadPublishes(c)
    <2> DEFINE x == [call[c] EXCEPT !.pc = "done"]
               f == [done |-> TRUE, result |-> call[c].result]
    <2>1. /\ x \in Flavors!Call /\ x.pc = "done" /\ x.result = call[c].result
          /\ x.on = call[c].on /\ call' = [call EXCEPT ![c] = x]
      BY <1>1, <1>4 DEF Flavors!Call, Flavors!LeadPublishes
    <2>2. /\ f.done = TRUE /\ f.result = call[c].result /\ fetch' = [fetch EXCEPT ![c] = f]
          /\ f \in [done : BOOLEAN, result : Flavors!Versions]
      BY <1>1, <1>4 DEF Flavors!Call, Flavors!LeadPublishes
    <2> HIDE DEF x, f
    <2>3. CallBecomes(c, x)
      BY <2>1, CallMoves DEF FlavorsCore
    <2>4. /\ call[c].pc = "publish" /\ call[c].on = NoCaller
          /\ UNCHANGED <<backend, cache, fresh, refreshing, refreshGot, inflight>>
      BY <1>4 DEF Flavors!LeadPublishes, FlavorsCore, Flavors!ResultFinal, Flavors!Final
    <2>5. /\ fetch' \in [Callers -> [done : BOOLEAN, result : Flavors!Versions]]
          /\ fetch'[c] = f /\ \A d \in Callers \ {c} : fetch'[d] = fetch[d]
      BY <2>2 DEF FlavorsCore, Flavors!TypeOK
    <2>6. Flavors!TypeOK'
      BY <2>3, <2>4, <2>5 DEF FlavorsCore, Flavors!TypeOK, CallBecomes
    <2>7. Flavors!OneSource'
      BY <2>1, <2>3, <2>4
         DEF FlavorsCore, Flavors!OneSource, Flavors!Leading, Flavors!Empty, CallBecomes
    <2>8. Flavors!AnswersCurrent'
      BY <2>1, <2>3, <2>4
         DEF FlavorsCore, Flavors!AnswersCurrent, Flavors!NewerThanCache, CallBecomes
    <2>9. Flavors!ResultFinal'
      <3> SUFFICES ASSUME NEW d \in Callers PROVE Flavors!Final(d)'
        BY DEF Flavors!ResultFinal
      <3>1. Flavors!Final(d) /\ Flavors!Final(c)
        BY DEF FlavorsCore, Flavors!ResultFinal
      <3>2. call[d].on \in Callers \cup {NoCaller} /\ call'[d].on = call[d].on
        BY <1>1, <2>1, <2>3 DEF CallBecomes, Flavors!Call
      <3>3. QED
        BY <2>1, <2>2, <2>3, <2>4, <2>5, <3>1, <3>2 DEF Flavors!Final, CallBecomes
    <2>10. QED
      BY <1>1, <2>4, <2>6, <2>7, <2>8, <2>9 DEF FlavorsCore
  <1>5. CASE Flavors!WaitReturns(c)
    <2> DEFINE l == call[c].on
               x == [call[c] EXCEPT !.pc = "done", !.result = fetch[l].result]
    <2>1. /\ call[c].pc = "wait" /\ fetch[l].done /\ l \in Callers
          /\ UNCHANGED <<backend, cache, fresh, refreshing, refreshGot, inflight, fetch>>
      BY <1>1, <1>5 DEF Flavors!WaitReturns, Flavors!Call, FlavorsCore, Flavors!ResultFinal,
                        Flavors!Final
    <2>2. /\ x \in Flavors!Call /\ x.pc = "done" /\ x.result = fetch[l].result
          /\ x.on = call[c].on /\ call' = [call EXCEPT ![c] = x]
      BY <1>1, <1>5, <2>1 DEF Flavors!Call, Flavors!WaitReturns, FlavorsCore, Flavors!TypeOK
    <2> HIDE DEF x
    <2>3. CallBecomes(c, x)
      BY <2>2, CallMoves DEF FlavorsCore
    <2>4. Flavors!TypeOK'
      BY <2>1, <2>3 DEF FlavorsCore, Flavors!TypeOK, CallBecomes
    <2>5. Flavors!OneSource'
      BY <2>1, <2>2, <2>3
         DEF FlavorsCore, Flavors!OneSource, Flavors!Leading, Flavors!Empty, CallBecomes
    <2>6. Flavors!AnswersCurrent'
      BY <2>1, <2>2, <2>3
         DEF FlavorsCore, Flavors!AnswersCurrent, Flavors!NewerThanCache, CallBecomes
    <2>7. Flavors!ResultFinal'
      BY <2>1, <2>2, <2>3 DEF FlavorsCore, Flavors!ResultFinal, Flavors!Final, CallBecomes
    <2>8. QED
      BY <1>1, <2>1, <2>4, <2>5, <2>6, <2>7 DEF FlavorsCore
  <1>6. QED
    BY <1>2, <1>3, <1>4, <1>5 DEF Flavors!Work

\* The background refresh, changes of the flavors in OpenStack, and time.
LEMMA RefreshKeeps ==
    ASSUME Flavors!FlavorCacheAssumption, FlavorsCore,
           \/ Flavors!RefreshAnswered \/ Flavors!RefreshStores
           \/ Flavors!BackendChanges \/ Flavors!CacheExpires
    PROVE  FlavorsCore' /\ cache' >= cache
  <1>1. /\ cache \in Nat /\ backend \in Nat /\ backend \in Flavors!Versions
        /\ 0 \in Flavors!Versions /\ \A v \in Flavors!Versions : v \in Nat
    BY DEF FlavorsCore, Flavors!TypeOK, Flavors!Versions, Flavors!FlavorCacheAssumption
  <1>2. CASE Flavors!RefreshAnswered
    <2>1. Flavors!TypeOK'
      BY <1>1, <1>2 DEF Flavors!RefreshAnswered, FlavorsCore, Flavors!TypeOK, Flavors!Failed
    <2>2. Flavors!OneSource' /\ Flavors!ResultFinal'
      BY <1>2 DEF Flavors!RefreshAnswered, FlavorsCore, Flavors!OneSource, Flavors!Leading,
                  Flavors!Empty, Flavors!ResultFinal, Flavors!Final
    <2>3. Flavors!AnswersCurrent'
      BY <1>1, <1>2 DEF Flavors!RefreshAnswered, FlavorsCore, Flavors!AnswersCurrent,
                        Flavors!NewerThanCache, Flavors!Failed
    <2>4. QED
      BY <1>1, <1>2, <2>1, <2>2, <2>3 DEF FlavorsCore, Flavors!RefreshAnswered
  <1>3. CASE Flavors!RefreshStores
    <2>1. inflight = NoCaller
      BY <1>3 DEF Flavors!RefreshStores, FlavorsCore, Flavors!OneSource
    <2>2. /\ cache' \in Flavors!Versions /\ cache' >= cache /\ cache' <= backend
          /\ fresh' \in BOOLEAN /\ (fresh' => cache' # 0)
      <3>1. CASE refreshGot = 0
        <4>1. cache' = cache /\ fresh' = fresh
          BY <1>3, <3>1 DEF Flavors!RefreshStores, Flavors!Store, Flavors!Failed
        <4>2. cache \in Flavors!Versions /\ cache <= backend
          BY DEF FlavorsCore, Flavors!TypeOK, Flavors!AnswersCurrent
        <4>3. fresh \in BOOLEAN /\ (fresh => cache # 0)
          BY DEF FlavorsCore, Flavors!TypeOK
        <4>4. cache >= cache
          BY <1>1
        <4>5. QED
          BY <4>1, <4>2, <4>3, <4>4
      <3>2. CASE refreshGot # 0
        <4>1. cache' = refreshGot /\ fresh' = TRUE
          BY <1>3, <3>2 DEF Flavors!RefreshStores, Flavors!Store, Flavors!Failed
        <4>2. refreshGot \in cache .. backend /\ refreshGot \in Flavors!Versions
          BY <1>1, <1>3, <3>2 DEF Flavors!RefreshStores, Flavors!Failed, FlavorsCore,
             Flavors!AnswersCurrent, Flavors!NewerThanCache, Flavors!TypeOK, Flavors!Call
        <4>3. QED
          BY <1>1, <3>2, <4>1, <4>2
      <3>3. QED
        BY <3>1, <3>2
    <2>3. refreshing' = "no" /\ UNCHANGED <<backend, refreshGot, inflight, call, fetch>>
      BY <1>3 DEF Flavors!RefreshStores
    <2>4. Flavors!TypeOK'
      BY <2>2, <2>3 DEF FlavorsCore, Flavors!TypeOK
    <2>5. Flavors!OneSource' /\ Flavors!ResultFinal'
      BY <2>1, <2>3 DEF FlavorsCore, Flavors!OneSource, Flavors!Leading,
                        Flavors!ResultFinal, Flavors!Final
    <2>6. Flavors!AnswersCurrent'
      BY <2>1, <2>2, <2>3 DEF FlavorsCore, Flavors!AnswersCurrent, Flavors!OneSource,
                              Flavors!Leading, Flavors!FlavorCacheAssumption
    <2>7. QED
      BY <2>2, <2>4, <2>5, <2>6 DEF FlavorsCore
  <1>4. CASE Flavors!BackendChanges
    <2>1. Flavors!TypeOK'
      BY <1>1, <1>4 DEF Flavors!BackendChanges, FlavorsCore, Flavors!TypeOK,
                        Flavors!FlavorCacheAssumption
    <2>2. Flavors!OneSource' /\ Flavors!ResultFinal'
      BY <1>4 DEF Flavors!BackendChanges, FlavorsCore, Flavors!OneSource, Flavors!Leading,
                  Flavors!Empty, Flavors!ResultFinal, Flavors!Final
    <2>3. Flavors!AnswersCurrent'
      BY <1>1, <1>4 DEF Flavors!BackendChanges, FlavorsCore, Flavors!AnswersCurrent,
                        Flavors!NewerThanCache
    <2>4. QED
      BY <1>1, <1>4, <2>1, <2>2, <2>3 DEF FlavorsCore, Flavors!BackendChanges
  <1>5. CASE Flavors!CacheExpires
    <2>1. Flavors!TypeOK' /\ Flavors!OneSource' /\ Flavors!ResultFinal'
      BY <1>5 DEF Flavors!CacheExpires, FlavorsCore, Flavors!TypeOK, Flavors!OneSource,
                  Flavors!Leading, Flavors!Empty, Flavors!ResultFinal, Flavors!Final
    <2>2. Flavors!AnswersCurrent'
      BY <1>5 DEF Flavors!CacheExpires, FlavorsCore, Flavors!AnswersCurrent,
                  Flavors!NewerThanCache
    <2>3. QED
      BY <1>1, <1>5, <2>1, <2>2 DEF FlavorsCore, Flavors!CacheExpires
  <1>6. QED
    BY <1>2, <1>3, <1>4, <1>5

\* Every step keeps the inductive part, and none puts an older list into the cache.
LEMMA FlavorsStep ==
    ASSUME Flavors!FlavorCacheAssumption, FlavorsCore, [Flavors!Next]_Flavors!vars
    PROVE  FlavorsCore' /\ [cache' >= cache]_Flavors!vars
  <1>1. CASE UNCHANGED Flavors!vars
    <2>1. UNCHANGED <<backend, cache, fresh, refreshing, refreshGot, inflight, call, fetch>>
      BY <1>1 DEF Flavors!vars
    <2>2. Flavors!TypeOK'
      BY <2>1 DEF FlavorsCore, Flavors!TypeOK
    <2>3. Flavors!OneSource' /\ Flavors!ResultFinal' /\ Flavors!AnswersCurrent'
      BY <2>1 DEF FlavorsCore, Flavors!OneSource, Flavors!Leading, Flavors!Empty,
         Flavors!ResultFinal, Flavors!Final, Flavors!AnswersCurrent, Flavors!NewerThanCache
    <2>4. QED
      BY <1>1, <2>2, <2>3 DEF FlavorsCore
  <1>2. CASE \E c \in Callers : Flavors!Lookup(c)
    <2>1. cache \in Nat
      BY DEF FlavorsCore, Flavors!TypeOK, Flavors!Versions
    <2>2. FlavorsCore' /\ cache' = cache
      BY <1>2, LookupKeeps
    <2>3. QED
      BY <2>1, <2>2
  <1>3. CASE \E c \in Callers : Flavors!Work(c)
    BY <1>3, WorkKeeps
  <1>4. CASE \/ Flavors!RefreshAnswered \/ Flavors!RefreshStores
             \/ Flavors!BackendChanges \/ Flavors!CacheExpires
    BY <1>4, RefreshKeeps
  <1>5. QED
    BY <1>1, <1>2, <1>3, <1>4 DEF Flavors!Next

\* A service before its first call.
LEMMA FlavorsInit ==
    ASSUME Flavors!FlavorCacheAssumption, Flavors!Init
    PROVE  FlavorsCore
  <1>1. Flavors!TypeOK
    <2>1. 0 \in Flavors!Versions /\ 1 \in 1 .. MaxVersion
      BY DEF Flavors!Versions, Flavors!FlavorCacheAssumption
    <2>2. fresh \in BOOLEAN /\ (fresh => cache # 0)
      BY DEF Flavors!Init
    <2>3. call \in [Callers -> Flavors!Call]
      BY <2>1 DEF Flavors!Init, Flavors!Call
    <2>4. fetch \in [Callers -> [done : BOOLEAN, result : Flavors!Versions]]
      BY <2>1 DEF Flavors!Init
    <2>5. QED
      BY <2>1, <2>2, <2>3, <2>4 DEF Flavors!Init, Flavors!TypeOK
  <1>2. Flavors!OneSource /\ Flavors!ResultFinal
    BY DEF Flavors!Init, Flavors!OneSource, Flavors!Leading, Flavors!ResultFinal,
           Flavors!Final, Flavors!FlavorCacheAssumption
  <1>3. Flavors!AnswersCurrent
    BY DEF Flavors!Init, Flavors!AnswersCurrent
  <1>4. QED
    BY <1>1, <1>2, <1>3 DEF FlavorsCore

\* One fetch of the flavors at a time, whose result all waiters share, whatever the
\* backend answers and when (compute/service.go:100).
THEOREM FlavorsSound ==
    ASSUME Flavors!FlavorCacheAssumption PROVE Flavors!Spec => []Flavors!FlavorsInv
  <1>1. Flavors!Init => FlavorsCore
    BY FlavorsInit
  <1>2. FlavorsCore /\ [Flavors!Next]_Flavors!vars => FlavorsCore'
    BY FlavorsStep
  <1>3. FlavorsCore => Flavors!FlavorsInv
    BY FlavorsCoreSuffices
  <1>4. QED
    BY <1>1, <1>2, <1>3, PTL DEF Flavors!Spec

-----------------------------------------------------------------------------
(* The gateway's relay *)

\* Whatever pipeSession and the copies do, a session that is in use stays open.
LEMMA RelayInvStep ==
    ASSUME Relay!GatewayRelayAssumption, Relay!RelayInv, [Relay!Next]_(Relay!vars)
    PROVE  Relay!RelayInv'
  <1>1. Relay!TypeOK /\ Relay!OverForAReason
    BY DEF Relay!RelayInv
  <1>2. Relay!TypeOK' /\ Relay!OverForAReason'
    <2>1. CASE \/ Relay!ClientEOF \/ Relay!ClientGone \/ Relay!ShellExits
               \/ Relay!VmHangs \/ Relay!VmAnswers
      BY <1>1, <2>1 DEF Relay!TypeOK, Relay!OverForAReason, Relay!ClientEOF, Relay!ClientGone,
             Relay!ShellExits, Relay!VmHangs, Relay!VmAnswers
    <2>2. CASE Relay!ShellOutput
      <3>1. Relay!TypeOK'
        BY <1>1, <2>2 DEF Relay!GatewayRelayAssumption, Relay!TypeOK, Relay!ShellOutput
      <3>2. QED
        BY <1>1, <2>2, <3>1 DEF Relay!OverForAReason, Relay!ShellOutput
    <2>3. CASE Relay!StdoutCopies
      <3>1. Relay!TypeOK'
        BY <1>1, <2>3 DEF Relay!GatewayRelayAssumption, Relay!TypeOK, Relay!StdoutCopies
      <3>2. QED
        BY <1>1, <2>3, <3>1 DEF Relay!OverForAReason, Relay!StdoutCopies
    <2>4. CASE Relay!StdoutEnds
      BY <1>1, <2>4 DEF Relay!TypeOK, Relay!OverForAReason, Relay!StdoutEnds
    <2>5. CASE Relay!InnerDone \/ Relay!OuterDone \/ Relay!GraceOver
      BY <1>1, <2>5 DEF Relay!TypeOK, Relay!OverForAReason, Relay!InnerDone, Relay!OuterDone,
             Relay!GraceOver
    <2>6. CASE Relay!CloseOuter \/ Relay!Drained \/ Relay!DrainTimeout \/ Relay!Deferred
      BY <1>1, <2>6 DEF Relay!TypeOK, Relay!OverForAReason, Relay!CloseOuter, Relay!Drained,
             Relay!DrainTimeout, Relay!Deferred
    <2>7. CASE Relay!StdinEnds \/ Relay!CloseInner
      BY <1>1, <2>7 DEF Relay!TypeOK, Relay!OverForAReason, Relay!StdinEnds, Relay!CloseInner
    <2>8. CASE UNCHANGED Relay!vars
      BY <1>1, <2>8 DEF Relay!TypeOK, Relay!OverForAReason, Relay!vars
    <2>9. QED
      BY <2>1, <2>2, <2>3, <2>4, <2>5, <2>6, <2>7, <2>8
         DEF Relay!Next, Relay!Pipe, Relay!VmWrites
  <1>3. QED
    BY <1>2 DEF Relay!RelayInv, Relay!NoEarlyClose, Relay!OverForAReason

\* A session from where its shell has started.
LEMMA RelayInit ==
    ASSUME Relay!GatewayRelayAssumption, Relay!Init
    PROVE  Relay!RelayInv
  <1>1. unread \in 0 .. MaxShellOutput /\ produced \in 0 .. MaxShellOutput
        /\ delivered \in 0 .. MaxShellOutput /\ unread + delivered <= produced
    BY DEF Relay!GatewayRelayAssumption, Relay!Init
  <1>2. Relay!TypeOK
    BY <1>1 DEF Relay!Init, Relay!TypeOK
  <1>3. QED
    BY <1>2 DEF Relay!Init, Relay!RelayInv, Relay!NoEarlyClose, Relay!OverForAReason

-----------------------------------------------------------------------------
(* The web console's output *)

\* What was sent stays at the beginning of what was accepted.
Begins(s, t) == Len(s) <= Len(t) /\ s = SubSeq(t, 1, Len(s))

\* A sequence begins with itself and with what it was made longer from.
LEMMA BeginsFacts ==
    ASSUME NEW S, NEW s \in Seq(S), NEW t \in Seq(S), NEW e \in S
    PROVE  /\ Begins(s, s \o t)
           /\ Begins(s, t) => Begins(s, Append(t, e))
  <1>1. Begins(s, s \o t)
    <2>1. /\ s \o t \in Seq(S) /\ Len(s \o t) = Len(s) + Len(t)
          /\ Len(s) \in Nat /\ Len(t) \in Nat
          /\ \A i \in 1 .. Len(s) : (s \o t)[i] = s[i] /\ s[i] \in S
      BY ConcatProperties, LenProperties
    <2>2. /\ SubSeq(s \o t, 1, Len(s)) \in Seq(S)
          /\ Len(SubSeq(s \o t, 1, Len(s))) = Len(s)
          /\ \A i \in 1 .. Len(s) : SubSeq(s \o t, 1, Len(s))[i] = (s \o t)[i]
      BY <2>1, SubSeqProperties
    <2>3. SubSeq(s \o t, 1, Len(s)) = s
      BY <2>1, <2>2, SeqEqual
    <2>4. QED
      BY <2>1, <2>3 DEF Begins
  <1>2. ASSUME Begins(s, t) PROVE Begins(s, Append(t, e))
    <2>1. /\ Len(s) \in Nat /\ Len(t) \in Nat /\ Len(s) <= Len(t)
          /\ \A i \in 1 .. Len(t) : t[i] \in S
      BY <1>2, LenProperties DEF Begins
    <2>2. /\ Append(t, e) \in Seq(S) /\ Len(Append(t, e)) = Len(t) + 1
          /\ \A i \in 1 .. Len(t) : Append(t, e)[i] = t[i]
      BY AppendProperties
    <2>3. /\ SubSeq(t, 1, Len(s)) \in Seq(S)
          /\ Len(SubSeq(t, 1, Len(s))) = Len(s)
          /\ \A i \in 1 .. Len(s) : SubSeq(t, 1, Len(s))[i] = t[i]
      BY <2>1, SubSeqProperties
    <2>4. \A i \in 1 .. Len(s) : Append(t, e)[i] \in S /\ Append(t, e)[i] = t[i]
      BY <2>1, <2>2
    <2>5. /\ SubSeq(Append(t, e), 1, Len(s)) \in Seq(S)
          /\ Len(SubSeq(Append(t, e), 1, Len(s))) = Len(s)
          /\ \A i \in 1 .. Len(s) : SubSeq(Append(t, e), 1, Len(s))[i] = Append(t, e)[i]
      BY <2>1, <2>4, SubSeqProperties
    <2>6. \A i \in 1 .. Len(s) : SubSeq(Append(t, e), 1, Len(s))[i] = SubSeq(t, 1, Len(s))[i]
      BY <2>3, <2>4, <2>5
    <2>7. SubSeq(Append(t, e), 1, Len(s)) = SubSeq(t, 1, Len(s))
      BY <2>3, <2>5, <2>6, SeqEqual
    <2>8. QED
      BY <1>2, <2>1, <2>2, <2>7 DEF Begins
  <1>3. QED
    BY <1>1, <1>2

\* The empty sequence in the middle, or at the end.
LEMMA EmptyInside ==
    ASSUME NEW S, NEW s \in Seq(S), NEW t \in Seq(S)
    PROVE  /\ s \o <<>> \o t = s \o t
           /\ s \o t \o <<>> = s \o t
           /\ s \o <<>> \o <<>> = s
  <1>1. s \o t \in Seq(S)
    BY ConcatProperties
  <1>2. QED
    BY <1>1, ConcatEmptySeq
\* The inductive part: what was accepted is sent, on its way or gathered.  That Close returns
\* with everything sent follows.
OutputCore == Output!TypeOK /\ Output!InOrder /\ Output!CloseOrder

\* The order of the console's output and of its closing is all the invariant says.
LEMMA OutputCoreSuffices == OutputCore => Output!OutputInv
  <1> SUFFICES ASSUME OutputCore PROVE Output!CloseFlushes
    BY DEF OutputCore, Output!OutputInv
  <1> SUFFICES ASSUME closer = "closed", ~broken PROVE sent = accepted
    BY DEF Output!CloseFlushes
  <1>1. accepted = sent \o out \o buf /\ out = <<>> /\ buf = <<>>
    BY DEF OutputCore, Output!InOrder, Output!CloseOrder
  <1>2. sent \in Seq(Writers \X (1 .. MaxWrites))
    BY DEF OutputCore, Output!TypeOK, Output!Chunks
  <1>3. QED
    BY <1>1, <1>2, EmptyInside

\* A broadcast changes where pumps are and nothing else of them.
LEMMA BroadcastTypes ==
    ASSUME Output!TypeOK, Output!Broadcast
    PROVE  writer' \in [Writers ->
              [pc : {"ready", "blocked", "woken", "wake", "wakeNow", "flushNow", "failed"},
               n : 0 .. MaxWrites]]
  BY DEF Output!TypeOK, Output!Broadcast

\* A step that moves no output.
LEMMA OutputQuiet ==
    ASSUME Output!InOrder, UNCHANGED <<sent, out, buf, accepted>>, ~broken' => ~broken
    PROVE  Output!InOrder'
  BY DEF Output!InOrder

\* The pumps: a write goes to the end of the buffer, or waits, or is refused.
LEMMA WriterSteps ==
    ASSUME Output!ConsoleOutputAssumption, OutputCore, NEW w \in Writers, Output!WriterStep(w)
    PROVE  OutputCore'
  <1> DEFINE S == Writers \X (1 .. MaxWrites)
             P == [pc : {"ready", "blocked", "woken", "wake", "wakeNow", "flushNow", "failed"},
                   n : 0 .. MaxWrites]
  <1>1. /\ Output!TypeOK /\ Output!InOrder /\ Output!CloseOrder
        /\ writer \in [Writers -> P] /\ writer[w] \in P
        /\ buf \in Seq(S) /\ out \in Seq(S) /\ sent \in Seq(S) /\ accepted \in Seq(S)
        /\ Len(buf) <= Limit /\ MaxWrites \in Nat /\ Limit \in Nat
    BY DEF OutputCore, Output!TypeOK, Output!Chunks, Output!ConsoleOutputAssumption
  <1>2. CASE Output!WriteAppends(w)
    <2>1. PICK x \in P : writer' = [writer EXCEPT ![w] = x]
      <3>1. writer[w].n + 1 \in 0 .. MaxWrites
        BY <1>1, <1>2 DEF Output!WriteAppends
      <3>2. PICK pc \in {"wake", "wakeNow"} :
               writer' = [writer EXCEPT ![w] = [pc |-> pc, n |-> writer[w].n + 1]]
        BY <1>2 DEF Output!WriteAppends
      <3>3. [pc |-> pc, n |-> writer[w].n + 1] \in P
        BY <3>1
      <3>4. QED
        BY <3>2, <3>3
    <2>2. PICK e \in S : buf' = Append(buf, e) /\ accepted' = Append(accepted, e)
      <3>1. <<w, writer[w].n + 1>> \in S
        BY <1>1, <1>2 DEF Output!WriteAppends
      <3>2. QED
        BY <1>2, <3>1 DEF Output!WriteAppends
    <2>3. ~closed /\ Len(buf) < Limit
          /\ UNCHANGED <<out, sent, closed, wake, flushNow, done, flusher, closer, broken>>
      BY <1>2 DEF Output!WriteAppends
    <2>4. buf' \in Seq(S) /\ accepted' \in Seq(S) /\ Len(buf') = Len(buf) + 1
      BY <1>1, <2>2, AppendProperties
    <2>5. Len(buf') <= Limit
      BY <1>1, <2>3, <2>4, LenProperties
    <2>6. writer' \in [Writers -> P]
      BY <1>1, <2>1
    <2>7. Output!TypeOK'
      BY <1>1, <2>3, <2>4, <2>5, <2>6 DEF Output!TypeOK, Output!Chunks
    <2>8. Output!InOrder'
      <3>1. Begins(sent, Append(accepted, e))
        BY <1>1, BeginsFacts DEF Output!InOrder, Begins
      <3>2. ~broken => Append(accepted, e) = sent \o out \o Append(buf, e)
        <4>1. Append(sent \o out \o buf, e) = sent \o out \o Append(buf, e)
          <5>1. e \in S /\ sent \o out \in Seq(S) /\ buf \in Seq(S)
            BY <1>1, ConcatProperties
          <5> HIDE DEF S
          <5>2. (sent \o out) \o buf \in Seq(S) /\ <<e>> \in Seq(S)
            BY <5>1, ConcatProperties
          <5>3. Append(sent \o out \o buf, e) = ((sent \o out) \o buf) \o <<e>>
            BY <5>1, <5>2, AppendIsConcat
          <5>4. Append(buf, e) = buf \o <<e>>
            BY <5>1, AppendIsConcat
          <5>5. ((sent \o out) \o buf) \o <<e>> = (sent \o out) \o (buf \o <<e>>)
            BY <5>1, <5>2, ConcatAssociative
          <5>6. QED
            BY <5>3, <5>4, <5>5
        <4>2. QED
          BY <1>1, <4>1 DEF Output!InOrder
      <3>3. QED
        BY <2>2, <2>3, <3>1, <3>2 DEF Output!InOrder, Begins
    <2>9. Output!CloseOrder'
      <3>1. flusher # "stopped" /\ flusher # "sendLast"
        BY <1>1, <2>3 DEF Output!CloseOrder
      <3>2. QED
        BY <1>1, <2>3, <3>1 DEF Output!CloseOrder
    <2>10. QED
      BY <2>7, <2>8, <2>9 DEF OutputCore
  <1>3. CASE \/ Output!WriteBlocks(w) \/ Output!WriteClosed(w)
             \/ Output!NotifyWake(w) \/ Output!NotifyFlushNow(w)
    <2>1. /\ UNCHANGED <<buf, out, sent, closed, done, flusher, closer, accepted, broken>>
          /\ wake' \in BOOLEAN /\ flushNow' \in BOOLEAN
      BY <1>1, <1>3 DEF Output!WriteBlocks, Output!WriteClosed, Output!NotifyWake,
             Output!NotifyFlushNow, Output!TypeOK
    <2>2. writer' \in [Writers -> P]
      <3>1. PICK pc \in {"ready", "blocked", "flushNow", "failed"} :
               writer' = [writer EXCEPT ![w].pc = pc]
        BY <1>3 DEF Output!WriteBlocks, Output!WriteClosed, Output!NotifyWake,
               Output!NotifyFlushNow
      <3>2. QED
        BY <1>1, <3>1
    <2>3. Output!TypeOK'
      BY <1>1, <2>1, <2>2 DEF Output!TypeOK
    <2>4. QED
      BY <1>1, <2>1, <2>3, OutputQuiet DEF OutputCore, Output!CloseOrder
  <1>4. QED
    BY <1>2, <1>3 DEF Output!WriterStep

\* The flush loop: what was gathered is the next frame, and what was sent comes after what was
\* sent before.
LEMMA FlusherSteps ==
    ASSUME Output!ConsoleOutputAssumption, OutputCore, Output!FlusherStep
    PROVE  OutputCore'
  <1> DEFINE S == Writers \X (1 .. MaxWrites)
  <1>1. /\ Output!TypeOK /\ Output!InOrder /\ Output!CloseOrder
        /\ buf \in Seq(S) /\ out \in Seq(S) /\ sent \in Seq(S) /\ accepted \in Seq(S)
    BY DEF OutputCore, Output!TypeOK, Output!Chunks
  <1>2. CASE Output!LoopDone \/ Output!LoopWake \/ Output!LoopGathered \/ Output!FlushNothing
    <2>1. UNCHANGED <<buf, out, sent, closed, done, writer, closer, accepted, broken>>
      BY <1>2 DEF Output!LoopDone, Output!LoopWake, Output!LoopGathered, Output!FlushNothing
    <2>2. Output!TypeOK'
      BY <1>1, <1>2, <2>1 DEF Output!TypeOK, Output!LoopDone, Output!LoopWake,
             Output!LoopGathered, Output!FlushNothing
    <2>3. Output!CloseOrder'
      BY <1>1, <1>2, <2>1 DEF Output!CloseOrder, Output!LoopDone, Output!LoopWake,
             Output!LoopGathered, Output!FlushNothing
    <2>4. QED
      BY <1>1, <2>1, <2>2, <2>3, OutputQuiet DEF OutputCore
  <1>3. CASE Output!FlushTakes
    <2>1. /\ out' = buf /\ buf' = <<>> /\ out = <<>> /\ ~broken /\ flusher \in {"flush", "last"}
          /\ flusher' = IF flusher = "flush" THEN "send" ELSE "sendLast"
          /\ UNCHANGED <<sent, closed, wake, flushNow, done, closer, accepted, broken>>
      BY <1>1, <1>3 DEF Output!FlushTakes, Output!CloseOrder
    <2>2. Output!TypeOK'
      <3>1. <<>> \in Seq(S) /\ Len(<<>>) <= Limit
        BY EmptySeq DEF Output!ConsoleOutputAssumption
      <3>2. Output!Broadcast
        BY <1>3 DEF Output!FlushTakes
      <3>3. QED
        BY <1>1, <2>1, <3>1, <3>2, BroadcastTypes DEF Output!TypeOK, Output!Chunks
    <2>3. Output!InOrder'
      <3>1. sent \o <<>> \o buf = sent \o buf /\ sent \o buf \o <<>> = sent \o buf
        BY <1>1, EmptyInside
      <3>2. accepted = sent \o out \o buf
        BY <1>1, <2>1 DEF Output!InOrder
      <3>3. QED
        BY <1>1, <2>1, <3>1, <3>2 DEF Output!InOrder
    <2>4. Output!CloseOrder'
      BY <1>1, <2>1 DEF Output!CloseOrder
    <2>5. QED
      BY <2>2, <2>3, <2>4 DEF OutputCore
  <1>4. CASE Output!SendOk
    <2>1. /\ sent' = sent \o out /\ out' = <<>> /\ ~broken /\ flusher \in {"send", "sendLast"}
          /\ flusher' = IF flusher = "send" THEN "select" ELSE "stopped"
          /\ UNCHANGED <<buf, closed, wake, flushNow, done, writer, closer, accepted, broken>>
      BY <1>1, <1>4 DEF Output!SendOk, Output!CloseOrder
    <2>2. <<>> \in Seq(S) /\ sent \o out \in Seq(S)
      BY <1>1, EmptySeq, ConcatProperties
    <2>3. Output!TypeOK'
      BY <1>1, <2>1, <2>2 DEF Output!TypeOK, Output!Chunks
    <2>4. Output!InOrder'
      <3>1. accepted = (sent \o out) \o buf
        BY <1>1, <2>1 DEF Output!InOrder
      <3>2. Begins(sent \o out, (sent \o out) \o buf)
        <4>1. CASE S = {}
          <5>1. sent = <<>> /\ out = <<>> /\ buf = <<>>
            BY <1>1, <4>1, ElementOfSeq, EmptySeq, LenProperties
          <5>2. QED
            BY <5>1 DEF Begins
        <4>2. CASE S # {}
          <5>1. PICK e \in S : TRUE
            BY <4>2
          <5>2. QED
            BY <1>1, <2>2, <5>1, BeginsFacts
        <4>3. QED
          BY <4>1, <4>2
      <3>3. (sent \o out) \o <<>> \o buf = (sent \o out) \o buf
        BY <1>1, <2>2, EmptyInside
      <3>4. QED
        BY <2>1, <3>1, <3>2, <3>3 DEF Output!InOrder, Begins
    <2>5. Output!CloseOrder'
      BY <1>1, <2>1 DEF Output!CloseOrder
    <2>6. QED
      BY <2>3, <2>4, <2>5 DEF OutputCore
  <1>5. CASE Output!SendFails
    <2>1. /\ out' = <<>> /\ closed' = TRUE /\ broken' = TRUE /\ flusher' = "stopped"
          /\ UNCHANGED <<buf, sent, wake, flushNow, done, closer, accepted>>
      BY <1>5 DEF Output!SendFails
    <2>2. Output!TypeOK'
      <3>1. <<>> \in Seq(S)
        BY EmptySeq
      <3>2. Output!Broadcast
        BY <1>5 DEF Output!SendFails
      <3>3. QED
        BY <1>1, <2>1, <3>1, <3>2, BroadcastTypes DEF Output!TypeOK, Output!Chunks
    <2>3. Output!InOrder' /\ Output!CloseOrder'
      BY <1>1, <2>1 DEF Output!InOrder, Output!CloseOrder
    <2>4. QED
      BY <2>2, <2>3 DEF OutputCore
  <1>6. QED
    BY <1>2, <1>3, <1>4, <1>5 DEF Output!FlusherStep

\* Close: no more writes, then the last flush.
LEMMA CloserSteps ==
    ASSUME OutputCore, Output!CloseMarks \/ Output!CloseSignals \/ Output!CloseReturns
    PROVE  OutputCore'
  <1>1. Output!TypeOK /\ Output!InOrder /\ Output!CloseOrder
    BY DEF OutputCore
  <1>2. UNCHANGED <<buf, out, sent, wake, flushNow, flusher, accepted, broken>>
    BY DEF Output!CloseMarks, Output!CloseSignals, Output!CloseReturns
  <1>3. Output!TypeOK'
    <2>1. CASE Output!CloseMarks
      <3>1. Output!Broadcast
        BY <2>1 DEF Output!CloseMarks
      <3>2. QED
        BY <1>1, <1>2, <2>1, <3>1, BroadcastTypes DEF Output!TypeOK, Output!CloseMarks
    <2>2. CASE Output!CloseSignals \/ Output!CloseReturns
      BY <1>1, <1>2, <2>2 DEF Output!TypeOK, Output!CloseSignals, Output!CloseReturns
    <2>3. QED
      BY <2>1, <2>2
  <1>4. Output!CloseOrder'
    BY <1>1, <1>2 DEF Output!CloseOrder, Output!CloseMarks, Output!CloseSignals,
           Output!CloseReturns, Output!TypeOK
  <1>5. QED
    BY <1>1, <1>2, <1>3, <1>4, OutputQuiet DEF OutputCore

\* Every step of the console's output.
LEMMA OutputCoreStep ==
    ASSUME Output!ConsoleOutputAssumption, OutputCore, [Output!Next]_(Output!vars)
    PROVE  OutputCore'
  <1>1. CASE UNCHANGED Output!vars
    <2>1. Output!TypeOK'
      BY <1>1 DEF OutputCore, Output!vars, Output!TypeOK
    <2>2. QED
      BY <1>1, <2>1, OutputQuiet DEF OutputCore, Output!vars, Output!CloseOrder
  <1>2. QED
    BY <1>1, WriterSteps, FlusherSteps, CloserSteps DEF Output!Next

\* A console before its first output.
LEMMA OutputInit ==
    ASSUME Output!ConsoleOutputAssumption, Output!Init
    PROVE  OutputCore
  <1> DEFINE S == Writers \X (1 .. MaxWrites)
  <1>1. <<>> \in Seq(S) /\ Len(<<>>) = 0 /\ 0 <= Limit /\ 0 \in 0 .. MaxWrites
    BY EmptySeq DEF Output!ConsoleOutputAssumption
  <1>2. Output!TypeOK
    BY <1>1 DEF Output!Init, Output!TypeOK, Output!Chunks
  <1>3. Output!InOrder
    <2>1. SubSeq(<<>>, 1, 0) = <<>>
      BY SubSeqEmpty
    <2>2. <<>> \o <<>> \o <<>> = <<>>
      BY <1>1, EmptyInside
    <2>3. QED
      BY <1>1, <2>1, <2>2 DEF Output!Init, Output!InOrder
  <1>4. QED
    BY <1>2, <1>3 DEF Output!Init, OutputCore, Output!CloseOrder

-----------------------------------------------------------------------------
(* The data protocol of a function *)

InHand == IF held = Data!NoReply THEN 0 ELSE 1

\* What a reply reports as done was carried out.
CarriedOut(x) == x.ok => \E j \in 1 .. Len(applied) : applied[j] = x.n

\* Requests and their replies: at most one reply for each, and before the deadline exactly
\* one, numbered in the order of the requests.
Ledger ==
    /\ ops \in Nat
    /\ applied \in Seq(1 .. MaxOps) /\ Len(applied) <= ops /\ Len(applied) <= MaxOps
    /\ got \in Seq(Data!Reply) /\ replies \in Seq(Data!Reply) /\ held \in Data!Reply
    /\ Len(replies) <= MaxOps + 1
    /\ Len(got) + Len(replies) + InHand <= ops
    /\ \A i \in 1 .. Len(got) : CarriedOut(got[i])
    /\ \A i \in 1 .. Len(replies) : CarriedOut(replies[i])
    /\ CarriedOut(held)
    /\ ~deadline =>
          /\ Len(got) + Len(replies) + InHand = ops
          /\ \A i \in 1 .. Len(got) : got[i].n = i
          /\ \A i \in 1 .. Len(replies) : replies[i].n = Len(got) + i
          /\ held # Data!NoReply => held.n = ops

\* Lines and where guest and host are.
Progress ==
    /\ guest \in {"running", "sending", "reading", "ended"}
    /\ exec \in {"idle", "instantiate", "finish", "sendLast", "result", "returned"}
    /\ pending \in {"none", "op", "text"}
    /\ total \in 0 .. MaxLines /\ final \in Nat /\ texts \in Nat
    /\ exceeded \in BOOLEAN /\ deadline \in BOOLEAN
    /\ result \in {"none", "ok", "timeout", "contextError", "outputLimit"}
    /\ ops + texts + (IF pending = "op" THEN 1 ELSE 0) <= total
    /\ final + (IF pending = "text" THEN 1 ELSE 0) = texts
    /\ Data!InPlace

DataCore == Ledger /\ Progress

\* The elements of a concatenation.
LEMMA ConcatNamed ==
    ASSUME NEW S, NEW a \in Seq(S), NEW b \in Seq(S), NEW ab, ab = a \o b
    PROVE  /\ ab \in Seq(S) /\ Len(ab) = Len(a) + Len(b)
           /\ \A i \in 1 .. Len(a) + Len(b) :
                 ab[i] = IF i <= Len(a) THEN a[i] ELSE b[i - Len(a)]
  <1>1. /\ a \o b \in Seq(S) /\ Len(a \o b) = Len(a) + Len(b)
        /\ \A i \in 1 .. Len(a) + Len(b) :
              (a \o b)[i] = IF i <= Len(a) THEN a[i] ELSE b[i - Len(a)]
    BY ConcatProperties
  <1>2. QED
    BY <1>1

\* Three sequences one after the other.
LEMMA ThreeInARow ==
    ASSUME NEW S, NEW a \in Seq(S), NEW b \in Seq(S), NEW c \in Seq(S),
           NEW ab, ab = a \o b, NEW all, all = ab \o c
    PROVE  /\ all \in Seq(S) /\ Len(all) = Len(a) + Len(b) + Len(c)
           /\ \A i \in 1 .. Len(a) : all[i] = a[i]
           /\ \A i \in 1 .. Len(b) : all[Len(a) + i] = b[i]
           /\ \A i \in 1 .. Len(c) : all[Len(a) + Len(b) + i] = c[i]
  <1>1. /\ ab \in Seq(S) /\ Len(ab) = Len(a) + Len(b)
        /\ \A i \in 1 .. Len(a) + Len(b) :
              ab[i] = IF i <= Len(a) THEN a[i] ELSE b[i - Len(a)]
    BY ConcatNamed
  <1>2. /\ all \in Seq(S) /\ Len(all) = Len(ab) + Len(c)
        /\ \A i \in 1 .. Len(ab) + Len(c) :
              all[i] = IF i <= Len(ab) THEN ab[i] ELSE c[i - Len(ab)]
    BY <1>1, ConcatNamed
  <1>3. Len(a) \in Nat /\ Len(b) \in Nat /\ Len(c) \in Nat
    BY LenProperties
  <1>4. \A i \in 1 .. Len(a) : all[i] = a[i]
    BY <1>1, <1>2, <1>3
  <1>5. \A i \in 1 .. Len(b) : all[Len(a) + i] = b[i]
    BY <1>1, <1>2, <1>3
  <1>6. \A i \in 1 .. Len(c) : all[Len(a) + Len(b) + i] = c[i]
    BY <1>1, <1>2, <1>3
  <1>7. QED
    BY <1>1, <1>2, <1>4, <1>5, <1>6

\* The replies in their order, those read, those in the channel and the one in hand, are
\* numbered from one on.
LEMMA LedgerInOrder ==
    ASSUME Ledger
    PROVE  Data!RepliesInOrder
  <1> SUFFICES ASSUME ~deadline
               PROVE  Data!Numbers(got \o replies \o
                          (IF held = Data!NoReply THEN << >> ELSE <<held>>))
                        = [i \in 1 .. ops |-> i]
    BY DEF Data!RepliesInOrder
  <1> DEFINE h == IF held = Data!NoReply THEN << >> ELSE <<held>>
  <1>1. /\ ops \in Nat /\ got \in Seq(Data!Reply) /\ replies \in Seq(Data!Reply)
        /\ Len(got) \in Nat /\ Len(replies) \in Nat
        /\ Len(got) + Len(replies) + InHand = ops
        /\ \A i \in 1 .. Len(got) : got[i].n = i
        /\ \A i \in 1 .. Len(replies) : replies[i].n = Len(got) + i
        /\ held # Data!NoReply => held.n = ops
    BY LenProperties DEF Ledger
  <1>2. h \in Seq(Data!Reply) /\ Len(h) = InHand /\ (Len(h) = 1 => h[1].n = ops)
    BY <1>1, EmptySeq DEF Ledger, InHand
  <1> HIDE DEF h
  <1>3. PICK ab : ab = got \o replies
    OBVIOUS
  <1>all. PICK all : all = ab \o h
    OBVIOUS
  <1>4. /\ Len(all) = Len(got) + Len(replies) + Len(h)
        /\ \A i \in 1 .. Len(got) : all[i] = got[i]
        /\ \A i \in 1 .. Len(replies) : all[Len(got) + i] = replies[i]
        /\ \A i \in 1 .. Len(h) : all[Len(got) + Len(replies) + i] = h[i]
    <2>1. got \in Seq(Data!Reply) /\ replies \in Seq(Data!Reply)
      BY <1>1
    <2>2. h \in Seq(Data!Reply)
      BY <1>2
    <2>3. QED
      BY <2>1, <2>2, <1>3, <1>all, ThreeInARow
  <1>5. InHand \in {0, 1} /\ Len(all) = ops
    BY <1>1, <1>2, <1>4 DEF InHand
  <1>6. ASSUME NEW i \in 1 .. ops PROVE all[i].n = i
    <2>1. CASE i \in 1 .. Len(got)
      BY <1>1, <1>4, <2>1
    <2>2. CASE i - Len(got) \in 1 .. Len(replies)
      <3>1. PICK k \in 1 .. Len(replies) : k = i - Len(got)
        BY <2>2
      <3>2. i = Len(got) + k
        BY <1>1, <3>1
      <3>3. QED
        BY <1>1, <1>4, <3>2
    <2>3. CASE i - (Len(got) + Len(replies)) \in 1 .. Len(h)
      <3>1. i = Len(got) + Len(replies) + 1 /\ Len(h) = 1 /\ i = ops
        BY <1>1, <1>2, <1>5, <2>3
      <3>2. QED
        BY <1>2, <1>4, <3>1
    <2>4. i \in Nat /\ i >= 1 /\ Len(got) \in Nat /\ Len(replies) \in Nat /\ Len(h) \in Nat
          /\ i <= Len(got) + Len(replies) + Len(h)
      BY <1>1, <1>2, <1>5
    <2>5. \/ i \in 1 .. Len(got) \/ i - Len(got) \in 1 .. Len(replies)
          \/ i - (Len(got) + Len(replies)) \in 1 .. Len(h)
      BY <2>4
    <2>6. QED
      BY <2>1, <2>2, <2>3, <2>5
  <1>7. Data!Numbers(all) = [i \in 1 .. ops |-> i]
    BY <1>5, <1>6 DEF Data!Numbers
  <1>8. QED
    BY <1>3, <1>all, <1>7 DEF h

\* The properties follow.
LEMMA DataCoreSuffices ==
    ASSUME Data!DataProtocolAssumption, DataCore
    PROVE  Data!DataInv
  <1>1. Ledger /\ Progress
    BY DEF DataCore
  <1>2. Data!TypeOK
    <2>1. MaxOps \in Nat /\ MaxLines \in Nat
      BY DEF Data!DataProtocolAssumption
    <2>2. ops \in 0 .. MaxLines /\ final \in 0 .. MaxLines /\ texts \in 0 .. MaxLines
      BY <1>1, <2>1 DEF Ledger, Progress
    <2>3. QED
      BY <1>1, <2>2 DEF Ledger, Progress, Data!TypeOK, Data!Capacity
  <1>3. Data!Accounted
    BY <1>1 DEF Ledger, Progress, Data!Accounted, CarriedOut, InHand
  <1>4. Data!RepliesInOrder
    BY <1>1, LedgerInOrder
  <1>5. Data!OpsLimited
    BY <1>1 DEF Ledger, Data!OpsLimited, CarriedOut
  <1>6. Data!NoBlockWithinLimit
    <2> SUFFICES ASSUME guest = "sending" \/ exec = "sendLast", ops <= MaxOps + 1
                 PROVE  Len(replies) < MaxOps + 1
      BY DEF Data!NoBlockWithinLimit, Data!Capacity
    <2>1. InHand = 1
      BY <1>1 DEF Progress, Data!InPlace, InHand
    <2>2. Len(got) \in Nat /\ Len(replies) \in Nat /\ ops \in Nat /\ MaxOps \in Nat
      BY <1>1, LenProperties DEF Ledger, Data!DataProtocolAssumption
    <2>3. QED
      BY <1>1, <2>1, <2>2 DEF Ledger
  <1>7. Data!ResultComplete
    BY <1>1 DEF Progress, Data!InPlace, Data!ResultComplete
  <1>8. QED
    BY <1>1, <1>2, <1>3, <1>4, <1>5, <1>6, <1>7 DEF Data!DataInv, Progress

\* Nothing of the ledger moves, and the deadline at most passes.
LEMMA LedgerKept ==
    ASSUME Ledger, UNCHANGED <<ops, applied, held, replies, got>>, ~deadline' => ~deadline
    PROVE  Ledger'
  <1>1. ops' = ops /\ applied' = applied /\ held' = held /\ replies' = replies /\ got' = got
    OBVIOUS
  <1>2. QED
    BY <1>1 DEF Ledger, CarriedOut, InHand

\* Write carries out a request, or refuses it, and has a reply in hand.
LEMMA LedgerPerforms ==
    ASSUME Data!DataProtocolAssumption, Ledger, held = Data!NoReply, Data!Perform,
           UNCHANGED <<replies, got, deadline>>
    PROVE  Ledger' /\ held' # Data!NoReply
  <1>1. /\ MaxOps \in Nat /\ ops \in Nat /\ Len(got) \in Nat /\ Len(replies) \in Nat
        /\ applied \in Seq(1 .. MaxOps) /\ Len(applied) <= ops /\ Len(applied) <= MaxOps
        /\ Len(applied) \in Nat
    BY LenProperties DEF Ledger, Data!DataProtocolAssumption
  <1>2. PICK can \in BOOLEAN : can <=> ops + 1 <= MaxOps /\ ~deadline
    OBVIOUS
  <1>3. /\ ops' = ops + 1
        /\ applied' = IF can THEN Append(applied, ops + 1) ELSE applied
        /\ held' = [n |-> ops + 1, ok |-> can]
        /\ replies' = replies /\ got' = got /\ deadline' = deadline
    BY <1>2 DEF Data!Perform
  <1>4. /\ held' \in Data!Reply /\ held' # Data!NoReply /\ held'.n = ops' /\ held'.ok = can
        /\ ops' \in Nat
    BY <1>1, <1>3 DEF Data!Reply, Data!NoReply
  <1>5. /\ applied' \in Seq(1 .. MaxOps) /\ Len(applied') <= ops' /\ Len(applied') <= MaxOps
        /\ \A j \in 1 .. Len(applied) : j \in 1 .. Len(applied') /\ applied'[j] = applied[j]
        /\ can => \E j \in 1 .. Len(applied') : applied'[j] = ops + 1
    <2>1. CASE ~can
      BY <1>1, <1>3, <2>1
    <2>2. CASE can
      <3>1. ops + 1 \in 1 .. MaxOps /\ applied' = Append(applied, ops + 1)
        BY <1>1, <1>2, <1>3, <2>2
      <3>2. /\ applied' \in Seq(1 .. MaxOps) /\ Len(applied') = Len(applied) + 1
            /\ \A j \in 1 .. Len(applied) : applied'[j] = applied[j]
            /\ applied'[Len(applied) + 1] = ops + 1
        BY <1>1, <3>1, AppendProperties
      <3>3. Len(applied) + 1 \in 1 .. Len(applied')
        BY <1>1, <3>2
      <3>4. QED
        BY <1>1, <1>3, <3>1, <3>2, <3>3
    <2>3. QED
      BY <2>1, <2>2
  <1>6. ASSUME NEW x, CarriedOut(x)
        PROVE  x.ok => \E j \in 1 .. Len(applied') : applied'[j] = x.n
    BY <1>5, <1>6 DEF CarriedOut
  <1>7. /\ \A i \in 1 .. Len(got') : CarriedOut(got[i])'
        /\ \A i \in 1 .. Len(replies') : CarriedOut(replies[i])'
        /\ CarriedOut(held)'
    <2>1. /\ \A i \in 1 .. Len(got) : CarriedOut(got[i])
          /\ \A i \in 1 .. Len(replies) : CarriedOut(replies[i])
      BY DEF Ledger
    <2>2. CarriedOut(held)'
      BY <1>3, <1>4, <1>5 DEF CarriedOut
    <2>3. \A i \in 1 .. Len(got) :
             got[i].ok => \E j \in 1 .. Len(applied') : applied'[j] = got[i].n
      BY <1>6, <2>1
    <2>4. \A i \in 1 .. Len(replies) :
             replies[i].ok => \E j \in 1 .. Len(applied') : applied'[j] = replies[i].n
      BY <1>6, <2>1
    <2>5. QED
      BY <1>3, <2>2, <2>3, <2>4 DEF CarriedOut
  <1>8. /\ Len(got') + Len(replies') + InHand' <= ops'
        /\ ~deadline' =>
              /\ Len(got') + Len(replies') + InHand' = ops'
              /\ \A i \in 1 .. Len(got') : got'[i].n = i
              /\ \A i \in 1 .. Len(replies') : replies'[i].n = Len(got') + i
    <2>1. InHand = 0 /\ InHand' = 1
      BY <1>4 DEF InHand
    <2>2. /\ Len(got) + Len(replies) + InHand <= ops
          /\ ~deadline => Len(got) + Len(replies) + InHand = ops
      BY DEF Ledger
    <2>3. /\ Len(got') + Len(replies') + InHand' <= ops'
          /\ ~deadline' => Len(got') + Len(replies') + InHand' = ops'
      BY <1>1, <1>3, <2>1, <2>2
    <2>4. ~deadline' =>
              /\ \A i \in 1 .. Len(got') : got'[i].n = i
              /\ \A i \in 1 .. Len(replies') : replies'[i].n = Len(got') + i
      BY <1>3 DEF Ledger
    <2>5. QED
      BY <2>3, <2>4
  <1>9. QED
    BY <1>3, <1>4, <1>5, <1>7, <1>8 DEF Ledger

\* The reply in hand goes into the channel.
LEMMA LedgerSends ==
    ASSUME Data!DataProtocolAssumption, Ledger, held # Data!NoReply,
           Len(replies) < MaxOps + 1, replies' = Append(replies, held), held' = Data!NoReply,
           UNCHANGED <<ops, applied, got, deadline>>
    PROVE  Ledger'
  <1>1. /\ MaxOps \in Nat /\ ops \in Nat /\ Len(got) \in Nat /\ Len(replies) \in Nat
        /\ replies \in Seq(Data!Reply) /\ held \in Data!Reply
        /\ InHand = 1 /\ InHand' = 0 /\ Data!NoReply \in Data!Reply /\ ~Data!NoReply.ok
    BY LenProperties
       DEF Ledger, Data!DataProtocolAssumption, InHand, Data!Reply, Data!NoReply
  <1>2. /\ replies' \in Seq(Data!Reply) /\ Len(replies') = Len(replies) + 1
        /\ \A i \in 1 .. Len(replies) : replies'[i] = replies[i]
        /\ replies'[Len(replies) + 1] = held
    BY <1>1, AppendProperties
  <1>3. \A i \in 1 .. Len(replies') :
           \/ i \in 1 .. Len(replies) /\ replies'[i] = replies[i]
           \/ i = Len(replies) + 1 /\ replies'[i] = held
    BY <1>1, <1>2
  <1>4. /\ \A i \in 1 .. Len(got') : CarriedOut(got[i])'
        /\ \A i \in 1 .. Len(replies') : CarriedOut(replies[i])'
        /\ CarriedOut(held)'
    BY <1>1, <1>3 DEF Ledger, CarriedOut
  <1>5. ~deadline =>
           /\ \A i \in 1 .. Len(replies') : replies'[i].n = Len(got) + i
           /\ Len(got) + Len(replies') = ops
    <2>1. SUFFICES ASSUME ~deadline
                   PROVE  /\ \A i \in 1 .. Len(replies') : replies'[i].n = Len(got) + i
                          /\ Len(got) + Len(replies') = ops
      OBVIOUS
    <2>2. /\ Len(got) + Len(replies) + InHand = ops /\ held.n = ops
          /\ \A i \in 1 .. Len(replies) : replies[i].n = Len(got) + i
      BY <2>1 DEF Ledger
    <2>3. Len(got) + Len(replies') = ops
      BY <1>1, <1>2, <2>2
    <2>4. Len(got) + (Len(replies) + 1) = ops
      BY <1>1, <2>2
    <2>5. QED
      BY <1>3, <2>2, <2>3, <2>4
  <1>6. Len(replies') <= MaxOps + 1 /\ Len(got') + Len(replies') + InHand' <= ops'
    <2>1. Len(got) + Len(replies) + InHand <= ops
      BY DEF Ledger
    <2>2. QED
      BY <1>1, <1>2, <2>1
  <1>7. /\ ops' \in Nat
        /\ applied' \in Seq(1 .. MaxOps) /\ Len(applied') <= ops' /\ Len(applied') <= MaxOps
        /\ got' \in Seq(Data!Reply) /\ replies' \in Seq(Data!Reply) /\ held' \in Data!Reply
    BY <1>1, <1>2 DEF Ledger
  <1>8. ~deadline' =>
           /\ Len(got') + Len(replies') + InHand' = ops'
           /\ \A i \in 1 .. Len(got') : got'[i].n = i
           /\ \A i \in 1 .. Len(replies') : replies'[i].n = Len(got') + i
           /\ held' # Data!NoReply => held'.n = ops'
    <2>1. \A i \in 1 .. Len(got') : ~deadline' => got'[i].n = i
      BY DEF Ledger
    <2>2. ~deadline' => Len(got') + Len(replies') + InHand' = ops'
      BY <1>1, <1>5, <1>7
    <2>3. QED
      BY <1>5, <2>1, <2>2
  <1>9. QED
    BY <1>4, <1>6, <1>7, <1>8 DEF Ledger

\* The reply in hand is lost, which only happens after the deadline.
LEMMA LedgerAbandons ==
    ASSUME Ledger, deadline, held' = Data!NoReply,
           UNCHANGED <<ops, applied, replies, got, deadline>>
    PROVE  Ledger'
  <1>1. /\ Data!NoReply \in Data!Reply /\ ~Data!NoReply.ok
        /\ ops \in Nat /\ Len(got) \in Nat /\ Len(replies) \in Nat
        /\ InHand \in {0, 1} /\ InHand' = 0
    BY LenProperties DEF Ledger, InHand, Data!Reply, Data!NoReply
  <1>2. QED
    BY <1>1 DEF Ledger, CarriedOut

\* The guest reads the oldest reply.
LEMMA LedgerRead ==
    ASSUME Data!DataProtocolAssumption, Ledger, replies # << >>,
           got' = Append(got, Head(replies)), replies' = Tail(replies),
           UNCHANGED <<ops, applied, held, deadline>>
    PROVE  Ledger'
  <1>1. /\ MaxOps \in Nat /\ ops \in Nat /\ Len(got) \in Nat /\ Len(replies) \in Nat
        /\ replies \in Seq(Data!Reply) /\ got \in Seq(Data!Reply)
        /\ InHand' = InHand /\ InHand \in {0, 1}
    BY LenProperties DEF Ledger, Data!DataProtocolAssumption, InHand
  <1>2. /\ replies' \in Seq(Data!Reply) /\ Len(replies') = Len(replies) - 1
        /\ \A i \in 1 .. Len(replies') : replies'[i] = replies[i + 1]
        /\ Head(replies) = replies[1] /\ Head(replies) \in Data!Reply /\ Len(replies) > 0
    BY <1>1, HeadTailProperties, EmptySeq
  <1>3. /\ got' \in Seq(Data!Reply) /\ Len(got') = Len(got) + 1
        /\ \A i \in 1 .. Len(got) : got'[i] = got[i]
        /\ got'[Len(got) + 1] = replies[1]
    BY <1>1, <1>2, AppendProperties
  <1>4. /\ \A i \in 1 .. Len(got') :
              \/ i \in 1 .. Len(got) /\ got'[i] = got[i]
              \/ i = Len(got) + 1 /\ got'[i] = replies[1]
        /\ \A i \in 1 .. Len(replies') :
              i + 1 \in 1 .. Len(replies) /\ replies'[i] = replies[i + 1]
        /\ 1 \in 1 .. Len(replies)
    BY <1>1, <1>2, <1>3
  <1>5. /\ \A i \in 1 .. Len(got') : CarriedOut(got[i])'
        /\ \A i \in 1 .. Len(replies') : CarriedOut(replies[i])'
        /\ CarriedOut(held)'
    BY <1>4 DEF Ledger, CarriedOut
  <1>6. ~deadline =>
           /\ \A i \in 1 .. Len(got') : got'[i].n = i
           /\ \A i \in 1 .. Len(replies') : replies'[i].n = Len(got') + i
    BY <1>1, <1>2, <1>3, <1>4 DEF Ledger
  <1>7. /\ Len(got') + Len(replies') + InHand' <= ops' /\ Len(replies') <= MaxOps + 1
        /\ ~deadline' => Len(got') + Len(replies') + InHand' = ops'
    <2>1. /\ Len(got) + Len(replies) + InHand <= ops /\ Len(replies) <= MaxOps + 1
          /\ ~deadline => Len(got) + Len(replies) + InHand = ops
      BY DEF Ledger
    <2>2. /\ Len(got') + Len(replies') = Len(got) + Len(replies)
          /\ Len(replies') <= MaxOps + 1
      BY <1>1, <1>2, <1>3, <2>1
    <2>3. ops' = ops /\ deadline' = deadline
      OBVIOUS
    <2>4. Len(got') + Len(replies') + InHand' = Len(got) + Len(replies) + InHand
      BY <1>1, <2>2
    <2>5. QED
      BY <2>1, <2>2, <2>3, <2>4
  <1>8. QED
    BY <1>1, <1>2, <1>3, <1>5, <1>6, <1>7 DEF Ledger

\* Steps of the invocation that leave lines and replies alone.
LEMMA QuietDataSteps ==
    ASSUME Data!DataProtocolAssumption, DataCore,
           \/ Data!Refuse \/ Data!ReadEOF \/ Data!GuestEnds \/ Data!Killed \/ Data!Instantiate
           \/ Data!Deadline \/ Data!ReturnTimeout \/ Data!Ended \/ Data!Return
    PROVE  DataCore'
  <1>1. Ledger /\ Progress
    BY DEF DataCore
  <1>2. /\ UNCHANGED <<ops, applied, held, replies, got, pending, total, final, texts>>
        /\ deadline' \in {deadline, TRUE}
    BY DEF Data!Refuse, Data!ReadEOF, Data!GuestEnds, Data!Killed, Data!Instantiate,
           Data!Deadline, Data!ReturnTimeout, Data!Ended, Data!Return
  <1>3. Ledger'
    <2>1. ~deadline' => ~deadline
      BY <1>2
    <2>2. QED
      BY <1>1, <1>2, <2>1, LedgerKept
  <1>4. /\ guest' \in {"running", "sending", "reading", "ended"}
        /\ exec' \in {"idle", "instantiate", "finish", "sendLast", "result", "returned"}
        /\ exceeded' \in BOOLEAN /\ deadline' \in BOOLEAN
        /\ result' \in {"none", "ok", "timeout", "contextError", "outputLimit"}
    BY <1>1, <1>2 DEF Progress, Data!InPlace, Data!Running, Data!Refuse, Data!ReadEOF,
           Data!GuestEnds, Data!Killed, Data!Instantiate, Data!Deadline, Data!ReturnTimeout,
           Data!Ended, Data!Return
  <1>5. Data!InPlace'
    BY <1>1, <1>2 DEF Progress, Data!InPlace, Data!Running, Data!Refuse, Data!ReadEOF,
           Data!GuestEnds, Data!Killed, Data!Instantiate, Data!Deadline, Data!ReturnTimeout,
           Data!Ended, Data!Return
  <1>6. Progress'
    BY <1>1, <1>2, <1>4, <1>5 DEF Progress
  <1>7. QED
    BY <1>3, <1>6 DEF DataCore

\* The guest writes: a request, a line of text, or a line without its newline.
LEMMA GuestWrites ==
    ASSUME Data!DataProtocolAssumption, DataCore,
           \/ Data!WriteOp \/ Data!WriteText
           \/ \E kind \in {"op", "text"} : Data!WritePart(kind)
    PROVE  DataCore'
  <1>1. Ledger /\ Progress /\ ops \in Nat /\ MaxOps \in Nat /\ MaxLines \in Nat
    BY DEF DataCore, Ledger, Data!DataProtocolAssumption
  <1>2. CASE Data!WriteOp
    <2>1. /\ Data!Perform /\ held = Data!NoReply
          /\ UNCHANGED <<replies, got, deadline>>
      BY <1>1, <1>2 DEF Data!WriteOp, Data!Running, Progress, Data!InPlace
    <2>2. Ledger' /\ held' # Data!NoReply /\ ops' = ops + 1
      BY <1>1, <2>1, LedgerPerforms DEF Data!Perform
    <2>3. Progress'
      BY <1>1, <1>2, <2>2 DEF Progress, Data!InPlace, Data!WriteOp, Data!Running
    <2>4. QED
      BY <2>2, <2>3 DEF DataCore
  <1>3. CASE Data!WriteText
    <2>1. Ledger'
      BY <1>1, <1>3, LedgerKept DEF Data!WriteText
    <2>2. Progress'
      BY <1>1, <1>3 DEF Progress, Data!InPlace, Data!WriteText, Data!Running, Data!Keep
    <2>3. QED
      BY <2>1, <2>2 DEF DataCore
  <1>4. ASSUME NEW kind \in {"op", "text"}, Data!WritePart(kind)
        PROVE  DataCore'
    <2>1. Ledger'
      BY <1>1, <1>4, LedgerKept DEF Data!WritePart
    <2>2. Progress'
      BY <1>1, <1>4 DEF Progress, Data!InPlace, Data!WritePart, Data!Running
    <2>3. QED
      BY <2>1, <2>2 DEF DataCore
  <1>5. QED
    BY <1>2, <1>3, <1>4

\* The guest reads a reply, or waits for one.
LEMMA GuestReads ==
    ASSUME Data!DataProtocolAssumption, DataCore, Data!Read
    PROVE  DataCore'
  <1>1. Ledger /\ Progress
    BY DEF DataCore
  <1>2. Ledger'
    <2>1. CASE replies # << >>
      BY <1>1, <2>1, LedgerRead DEF Data!Read
    <2>2. CASE replies = << >>
      BY <1>1, <2>2, LedgerKept DEF Data!Read
    <2>3. QED
      BY <2>1, <2>2
  <1>3. Progress'
    BY <1>1 DEF Progress, Data!InPlace, Data!Read, Data!Running
  <1>4. QED
    BY <1>2, <1>3 DEF DataCore

\* The select at the end of a line, in Write or in Finish: the reply is sent or lost.
LEMMA HostSends ==
    ASSUME Data!DataProtocolAssumption, DataCore,
           \/ Data!SendReply \/ Data!SendAbandoned \/ Data!FinishSends \/ Data!FinishAbandoned
    PROVE  DataCore'
  <1>1. Ledger /\ Progress
    BY DEF DataCore
  <1>2. CASE Data!SendReply \/ Data!FinishSends
    <2>1. /\ held # Data!NoReply /\ Len(replies) < MaxOps + 1
          /\ replies' = Append(replies, held) /\ held' = Data!NoReply
          /\ UNCHANGED <<ops, applied, got, deadline>>
      BY <1>1, <1>2 DEF Progress, Data!InPlace, Data!SendReply, Data!FinishSends, Data!Capacity
    <2>2. Ledger'
      BY <1>1, <2>1, LedgerSends
    <2>3. Progress'
      BY <1>1, <1>2 DEF Progress, Data!InPlace, Data!SendReply, Data!FinishSends
    <2>4. QED
      BY <2>2, <2>3 DEF DataCore
  <1>3. CASE Data!SendAbandoned \/ Data!FinishAbandoned
    <2>1. /\ deadline /\ held' = Data!NoReply
          /\ UNCHANGED <<ops, applied, replies, got, deadline>>
      BY <1>3 DEF Data!SendAbandoned, Data!FinishAbandoned
    <2>2. Ledger'
      BY <1>1, <2>1, LedgerAbandons
    <2>3. Progress'
      BY <1>1, <1>3 DEF Progress, Data!InPlace, Data!SendAbandoned, Data!FinishAbandoned
    <2>4. QED
      BY <2>2, <2>3 DEF DataCore
  <1>4. QED
    BY <1>2, <1>3

\* Finish treats what is left as a line.
LEMMA HostFinishes ==
    ASSUME Data!DataProtocolAssumption, DataCore, Data!Finish
    PROVE  DataCore'
  <1>1. /\ Ledger /\ Progress /\ ops \in Nat
        /\ exec = "finish" /\ pending' = "none" /\ held = Data!NoReply
        /\ UNCHANGED <<guest, total, replies, got, texts, exceeded, deadline, result>>
    BY DEF DataCore, Ledger, Progress, Data!InPlace, Data!Finish
  <1>2. CASE pending = "op"
    <2>1. Data!Perform /\ exec' = "sendLast" /\ UNCHANGED final
      BY <1>2 DEF Data!Finish
    <2>2. Ledger' /\ held' # Data!NoReply /\ ops' = ops + 1
      BY <1>1, <2>1, LedgerPerforms DEF Data!Perform
    <2>3. Progress'
      BY <1>1, <1>2, <2>1, <2>2 DEF Progress, Data!InPlace
    <2>4. QED
      BY <2>2, <2>3 DEF DataCore
  <1>3. CASE pending # "op"
    <2>1. /\ exec' = "result" /\ UNCHANGED <<ops, applied, held>>
          /\ final' = IF pending = "text" THEN final + 1 ELSE final
      BY <1>1, <1>3 DEF Data!Finish, Data!Keep
    <2>2. Ledger'
      BY <1>1, <2>1, LedgerKept
    <2>3. Progress'
      BY <1>1, <1>3, <2>1 DEF Progress, Data!InPlace
    <2>4. QED
      BY <2>2, <2>3 DEF DataCore
  <1>4. QED
    BY <1>2, <1>3

\* Every step of an invocation.
LEMMA DataCoreStep ==
    ASSUME Data!DataProtocolAssumption, DataCore, [Data!Next]_(Data!vars)
    PROVE  DataCore'
  <1>1. CASE UNCHANGED Data!vars
    <2>1. Ledger' /\ Progress'
      BY <1>1, LedgerKept DEF DataCore, Data!vars, Progress, Data!InPlace
    <2>2. QED
      BY <2>1 DEF DataCore
  <1>2. QED
    BY <1>1, QuietDataSteps, GuestWrites, GuestReads, HostSends, HostFinishes
       DEF Data!Next, Data!Guest, Data!Host

\* An invocation before its module runs.
LEMMA DataInit ==
    ASSUME Data!DataProtocolAssumption, Data!Init
    PROVE  DataCore
  <1>1. /\ MaxOps \in Nat /\ MaxLines \in Nat
        /\ Data!NoReply \in Data!Reply /\ ~Data!NoReply.ok /\ Len(<< >>) = 0
        /\ << >> \in Seq(Data!Reply) /\ << >> \in Seq(1 .. MaxOps)
    BY EmptySeq DEF Data!DataProtocolAssumption, Data!NoReply, Data!Reply
  <1>2. Ledger
    BY <1>1 DEF Data!Init, Ledger, CarriedOut, InHand
  <1>3. Progress
    <2>1. Data!InPlace
      BY DEF Data!Init, Data!InPlace
    <2>2. 0 \in 0 .. MaxLines /\ 0 \in Nat
      BY <1>1
    <2>3. /\ ops + texts + (IF pending = "op" THEN 1 ELSE 0) <= total
          /\ final + (IF pending = "text" THEN 1 ELSE 0) = texts
      BY DEF Data!Init
    <2>4. exceeded \in BOOLEAN /\ deadline \in BOOLEAN
      BY Zenon DEF Data!Init
    <2>5. QED
      BY <2>1, <2>2, <2>3, <2>4 DEF Data!Init, Progress
  <1>4. QED
    BY <1>2, <1>3 DEF DataCore

-----------------------------------------------------------------------------
(* The hand-offs together *)

HandOffCore == OutputCore /\ Relay!RelayInv /\ FlavorsCore /\ DataCore

\* A step of one hand-off is a step of each: its own, or none.
LEMMA OneMoves ==
    ASSUME [AllNext]_allVars
    PROVE  /\ [Output!Next]_(Output!vars) /\ [Relay!Next]_(Relay!vars)
           /\ [Flavors!Next]_Flavors!vars /\ [Data!Next]_(Data!vars)
  <1>1. /\ Output!Next \/ UNCHANGED outputVars
        /\ Relay!Next \/ UNCHANGED relayVars
        /\ Flavors!Next \/ UNCHANGED flavorVars
        /\ Data!Next \/ UNCHANGED dataVars
    BY DEF AllNext, OutputMoves, StoreMoves, RelayMoves, FlavorsMove, DataMoves, allVars
  <1>2. QED
    BY <1>1 DEF Output!vars, Relay!vars, Flavors!vars, Data!vars, outputVars, relayVars,
           flavorVars, dataVars

\* All of them start as they should.
LEMMA HandOffInit == AllInit => HandOffCore
  BY OutputInit, RelayInit, FlavorsInit, DataInit, OutputAssumption, RelayAssumption,
     FlavorAssumption, DataAssumption DEF AllInit, HandOffCore

\* All of them go on as they should.
LEMMA HandOffStep ==
    ASSUME HandOffCore, [AllNext]_allVars
    PROVE  HandOffCore' /\ [cache' >= cache]_Flavors!vars
  <1>1. OutputCore /\ Relay!RelayInv /\ FlavorsCore /\ DataCore
    BY DEF HandOffCore
  <1>2. OutputCore'
    BY <1>1, OneMoves, OutputCoreStep, OutputAssumption
  <1>3. Relay!RelayInv'
    BY <1>1, OneMoves, RelayInvStep, RelayAssumption
  <1>4. FlavorsCore' /\ [cache' >= cache]_Flavors!vars
    BY <1>1, OneMoves, FlavorsStep, FlavorAssumption
  <1>5. DataCore'
    BY <1>1, OneMoves, DataCoreStep, DataAssumption
  <1>6. QED
    BY <1>2, <1>3, <1>4, <1>5 DEF HandOffCore

\* What each hand-off keeps: the browser gets the output in order and complete
\* (access/handler.go:552), the gateway closes no session in use (cmd/ssh-gateway/relay.go:134),
\* all waiters share one fetch of the flavors (compute/service.go:102), and the guest reads one
\* reply for each request, in order, and is never blocked by Write within its limit
\* (functions/data_protocol.go:138), for any number of goroutines and any limits.
THEOREM HandOffSound == AllSpec => []HandOffInv
  <1>1. HandOffCore /\ [AllNext]_allVars => HandOffCore'
    BY HandOffStep
  <1>2. HandOffCore => HandOffInv
    BY OutputCoreSuffices, FlavorsCoreSuffices, DataCoreSuffices, FlavorAssumption,
       DataAssumption DEF HandOffCore, HandOffInv
  <1>3. QED
    BY <1>1, <1>2, HandOffInit, PTL DEF AllSpec

\* The cache never goes back to an older list, also when a leader, a refresh, failures
\* and changes in OpenStack overlap (compute/service.go:127).
THEOREM CacheMonotone == AllSpec => CacheNeverOlder
  <1>1. HandOffCore /\ [AllNext]_allVars => HandOffCore' /\ [cache' >= cache]_Flavors!vars
    BY HandOffStep
  <1>2. QED
    BY <1>1, HandOffInit, PTL DEF AllSpec, CacheNeverOlder, Flavors!CacheNeverOlder

=============================================================================
