---------------------------- MODULE RequestProofs ----------------------------
(***************************************************************************)
(* Proofs about the requests of MCRequests: refresh-token rotation         *)
(* (RefreshTokens), instances and their rows (Instances) and the           *)
(* administrator's views (AdminViews), for any number of requests, tokens, *)
(* servers, names and services, any number of failures and any times.      *)
(***************************************************************************)
EXTENDS MCRequests, Integers, FiniteSetTheorems, TLAPS

-----------------------------------------------------------------------------
(* Refresh-token rotation *)

\* Moving one request to another place changes nothing else of it, and
\* nothing of the others.
LEMMA TokenGotoFacts ==
    ASSUME TypeOK, NEW r \in Requests, NEW pc \in PC, Goto(r, pc)
    PROVE  /\ req' \in [Requests -> Request]
           /\ req'[r].kind = req[r].kind
           /\ req'[r].presented = req[r].presented
           /\ req'[r].fresh = req[r].fresh
           /\ req'[r].pc = pc
           /\ \A s \in Requests \ {r} : req'[s] = req[s]
  BY DEF TypeOK, Goto, Request

\* The initial state satisfies the invariant.
LEMMA InitTokenInv ==
    ASSUME JTIAssumption PROVE Init => TokenInv
  BY DEF JTIAssumption, Init, TokenInv, TypeOK, Request, PC, SpentStaysSpent, AtMostOneWinner,
         Winners, LogoutIsFinal, UsedUp, RequestInv, InFlight

\* A login that has generated its tokens keeps the invariant.
LEMMA LoginStartInv ==
    ASSUME JTIAssumption, TokenInv, NEW r \in Requests, NEW j \in JTIs,
           LoginStart(r, j)
    PROVE  TokenInv'
  <1> USE DEF TokenInv
  <1>1. TypeOK'
    BY DEF TypeOK, LoginStart, Request, PC
  <1>2. /\ req'[r] = [kind |-> "login", presented |-> NoJTI,
                      fresh |-> j, pc |-> "upsert"]
        /\ \A s \in Requests \ {r} : req'[s] = req[s]
    BY DEF TypeOK, LoginStart
  <1>3. ASSUME NEW s \in Requests PROVE RequestInv(s)'
    BY <1>2 DEF JTIAssumption, LoginStart, TypeOK, RequestInv, InFlight
  <1>4. AtMostOneWinner' /\ LogoutIsFinal'
    BY <1>2 DEF AtMostOneWinner, Winners, LogoutIsFinal, UsedUp
  <1>5. \A a, b \in Requests :
           req'[a].fresh = req'[b].fresh /\ req'[a].fresh # NoJTI => a = b
    BY <1>2 DEF LoginStart, RequestInv
  <1>6. (current # NoJTI => current \in issued)' /\ SpentStaysSpent'
    BY DEF LoginStart, SpentStaysSpent
  <1>7. QED
    BY <1>1, <1>3, <1>4, <1>5, <1>6

\* A refresh that presents a token keeps the invariant.
LEMMA RefreshStartInv ==
    ASSUME JTIAssumption, TokenInv, NEW r \in Requests, NEW j \in JTIs,
           RefreshStart(r, j)
    PROVE  TokenInv'
  <1> USE DEF TokenInv
  <1>1. TypeOK'
    BY DEF TypeOK, RefreshStart, Request, PC
  <1>2. /\ req'[r] = [kind |-> "refresh", presented |-> j,
                      fresh |-> NoJTI, pc |-> "lookup"]
        /\ \A s \in Requests \ {r} : req'[s] = req[s]
    BY DEF TypeOK, RefreshStart
  <1>3. ASSUME NEW s \in Requests PROVE RequestInv(s)'
    BY <1>2 DEF JTIAssumption, RefreshStart, TypeOK, RequestInv, InFlight
  <1>4. AtMostOneWinner' /\ LogoutIsFinal'
    BY <1>2 DEF AtMostOneWinner, Winners, LogoutIsFinal, UsedUp
  <1>5. \A a, b \in Requests :
           req'[a].fresh = req'[b].fresh /\ req'[a].fresh # NoJTI => a = b
    BY <1>2 DEF RefreshStart, RequestInv
  <1>6. (current # NoJTI => current \in issued)' /\ SpentStaysSpent'
    BY DEF RefreshStart, SpentStaysSpent
  <1>7. QED
    BY <1>1, <1>3, <1>4, <1>5, <1>6

\* A logout that presents a token keeps the invariant.
LEMMA LogoutStartInv ==
    ASSUME JTIAssumption, TokenInv, NEW r \in Requests, NEW j \in JTIs,
           LogoutStart(r, j)
    PROVE  TokenInv'
  <1> USE DEF TokenInv
  <1>1. TypeOK'
    BY DEF TypeOK, LogoutStart, Request, PC
  <1>2. /\ req'[r] = [kind |-> "logout", presented |-> j,
                      fresh |-> NoJTI, pc |-> "clear"]
        /\ \A s \in Requests \ {r} : req'[s] = req[s]
    BY DEF TypeOK, LogoutStart
  <1>3. ASSUME NEW s \in Requests PROVE RequestInv(s)'
    BY <1>2 DEF JTIAssumption, LogoutStart, TypeOK, RequestInv, InFlight
  <1>4. AtMostOneWinner' /\ LogoutIsFinal'
    BY <1>2 DEF AtMostOneWinner, Winners, LogoutIsFinal, UsedUp
  <1>5. \A a, b \in Requests :
           req'[a].fresh = req'[b].fresh /\ req'[a].fresh # NoJTI => a = b
    BY <1>2 DEF LogoutStart, RequestInv
  <1>6. (current # NoJTI => current \in issued)' /\ SpentStaysSpent'
    BY DEF LogoutStart, SpentStaysSpent
  <1>7. QED
    BY <1>1, <1>3, <1>4, <1>5, <1>6

\* A request that gives up without touching the row keeps the invariant.
LEMMA GiveUpInv ==
    ASSUME JTIAssumption, TokenInv, NEW r \in Requests,
           req[r].pc \in {"lookup", "rotate", "upsert", "clear"},
           Goto(r, "failed"),
           UNCHANGED <<current, spent, issued, delivered, expired>>
    PROVE  TokenInv'
  <1> USE DEF TokenInv
  <1>1. /\ req' \in [Requests -> Request]
        /\ req'[r].kind = req[r].kind
        /\ req'[r].presented = req[r].presented
        /\ req'[r].fresh = req[r].fresh
        /\ req'[r].pc = "failed"
        /\ \A s \in Requests \ {r} : req'[s] = req[s]
    BY TokenGotoFacts DEF PC
  <1>2. TypeOK'
    BY <1>1 DEF TypeOK
  <1>3. ASSUME NEW s \in Requests PROVE RequestInv(s)'
    BY <1>1 DEF RequestInv, InFlight
  <1>4. AtMostOneWinner' /\ LogoutIsFinal'
    BY <1>1 DEF AtMostOneWinner, Winners, LogoutIsFinal, UsedUp
  <1>5. \A a, b \in Requests :
           req'[a].fresh = req'[b].fresh /\ req'[a].fresh # NoJTI => a = b
    BY <1>1
  <1>6. QED
    BY <1>2, <1>3, <1>4, <1>5 DEF SpentStaysSpent

\* Storing the token a request generated keeps the invariant, whether the
\* request is told so or not: nobody else generated it, the row never held
\* it, and a refresh gets here only while the row holds what it presented.
LEMMA StoreFreshInv ==
    ASSUME JTIAssumption, TokenInv, NEW r \in Requests, NEW pc \in {"won",
           "failed"},
           InFlight(r),
           req[r].kind = "refresh" => current = req[r].presented,
           SetCurrent(req[r].fresh),
           Goto(r, pc),
           UNCHANGED <<issued, delivered, expired>>
    PROVE  TokenInv'
  <1> USE DEF TokenInv
  <1>1. /\ req' \in [Requests -> Request]
        /\ req'[r].kind = req[r].kind
        /\ req'[r].presented = req[r].presented
        /\ req'[r].fresh = req[r].fresh
        /\ req'[r].pc = pc
        /\ \A s \in Requests \ {r} : req'[s] = req[s]
    BY TokenGotoFacts DEF PC
  <1>2. /\ req[r].fresh \in issued \ (spent \cup {current})
        /\ req[r].fresh \notin delivered
        /\ req[r].fresh # NoJTI
    BY DEF JTIAssumption, RequestInv, InFlight, TypeOK
  <1>3. current' = req[r].fresh /\ spent' = spent \cup ({current} \ {NoJTI})
    BY <1>2 DEF SetCurrent
  <1>4. TypeOK'
    BY <1>1, <1>2, <1>3 DEF TypeOK
  <1>5. SpentStaysSpent' /\ current' \in issued'
    BY <1>2, <1>3 DEF SpentStaysSpent
  <1>6. RequestInv(r)'
    BY <1>1, <1>2, <1>3 DEF JTIAssumption, RequestInv, InFlight
  <1>7. ASSUME NEW s \in Requests \ {r} PROVE RequestInv(s)'
    BY <1>1, <1>2, <1>3 DEF RequestInv, InFlight
  <1>8. AtMostOneWinner' /\ LogoutIsFinal'
    <2>1. \A s \in Requests :
             UsedUp(s) => req[s].presented # current
      BY DEF UsedUp, RequestInv, SpentStaysSpent
    <2>2. QED
      BY <1>1, <2>1 DEF AtMostOneWinner, Winners, LogoutIsFinal, UsedUp
  <1>9. \A a, b \in Requests :
           req'[a].fresh = req'[b].fresh /\ req'[a].fresh # NoJTI => a = b
    BY <1>1
  <1>10. QED
    BY <1>4, <1>5, <1>6, <1>7, <1>8, <1>9

\* Clearing the row keeps the invariant.
LEMMA ClearRowInv ==
    ASSUME JTIAssumption, TokenInv, NEW r \in Requests, NEW pc \in {"cleared",
           "failed"},
           req[r].pc = "clear",
           current = req[r].presented,
           SetCurrent(NoJTI),
           Goto(r, pc),
           UNCHANGED <<issued, delivered, expired>>
    PROVE  TokenInv'
  <1> USE DEF TokenInv
  <1>1. /\ req' \in [Requests -> Request]
        /\ req'[r].kind = req[r].kind
        /\ req'[r].presented = req[r].presented
        /\ req'[r].fresh = req[r].fresh
        /\ req'[r].pc = pc
        /\ \A s \in Requests \ {r} : req'[s] = req[s]
    BY TokenGotoFacts DEF PC
  <1>2. current \in JTIs /\ current \in issued
    BY DEF JTIAssumption, RequestInv
  <1>3. current' = NoJTI /\ spent' = spent \cup {current}
    BY <1>2 DEF JTIAssumption, SetCurrent
  <1>4. TypeOK'
    BY <1>1, <1>2, <1>3 DEF TypeOK
  <1>5. SpentStaysSpent'
    BY <1>2, <1>3 DEF JTIAssumption, SpentStaysSpent, TypeOK
  <1>6. ASSUME NEW s \in Requests PROVE RequestInv(s)'
    BY <1>1, <1>2, <1>3 DEF JTIAssumption, RequestInv, InFlight, TypeOK
  <1>7. AtMostOneWinner' /\ LogoutIsFinal'
    <2>1. \A s \in Requests : UsedUp(s) => req[s].presented # current
      BY DEF UsedUp, RequestInv, SpentStaysSpent
    <2>2. QED
      BY <1>1, <2>1 DEF AtMostOneWinner, Winners, LogoutIsFinal, UsedUp
  <1>8. \A a, b \in Requests :
           req'[a].fresh = req'[b].fresh /\ req'[a].fresh # NoJTI => a = b
    BY <1>1
  <1>9. QED
    BY <1>3, <1>4, <1>5, <1>6, <1>7, <1>8

\* A lookup keeps the invariant: the token it generates is new.
LEMMA RefreshLookupInv ==
    ASSUME JTIAssumption, TokenInv, NEW r \in Requests, RefreshLookup(r)
    PROVE  TokenInv'
  <1>1. CASE current = req[r].presented
    <2> USE DEF TokenInv
    <2>1. PICK j \in JTIs \ issued :
             /\ issued' = issued \cup {j}
             /\ req' = [req EXCEPT ![r].pc = "rotate", ![r].fresh = j]
      BY <1>1 DEF RefreshLookup
    <2>2. /\ req' \in [Requests -> Request]
          /\ req'[r].kind = req[r].kind
          /\ req'[r].presented = req[r].presented
          /\ req'[r].fresh = j
          /\ req'[r].pc = "rotate"
          /\ \A s \in Requests \ {r} : req'[s] = req[s]
      BY <2>1 DEF TypeOK, Request, PC
    <2>3. /\ req[r].pc = "lookup"
          /\ UNCHANGED <<current, delivered, expired, spent>>
      BY DEF RefreshLookup
    <2>4. TypeOK'
      BY <2>1, <2>2, <2>3 DEF TypeOK
    <2>5. ASSUME NEW s \in Requests PROVE RequestInv(s)'
      BY <2>1, <2>2, <2>3 DEF JTIAssumption, RequestInv, InFlight, TypeOK
    <2>6. AtMostOneWinner' /\ LogoutIsFinal'
      BY <2>2, <2>3 DEF AtMostOneWinner, Winners, LogoutIsFinal, UsedUp
    <2>7. \A a, b \in Requests :
             req'[a].fresh = req'[b].fresh /\ req'[a].fresh # NoJTI => a = b
      BY <2>1, <2>2 DEF RequestInv
    <2>8. QED
      BY <2>1, <2>3, <2>4, <2>5, <2>6, <2>7 DEF SpentStaysSpent
  <1>2. CASE current # req[r].presented
    BY <1>2, GiveUpInv DEF RefreshLookup
  <1>3. QED
    BY <1>1, <1>2

\* The compare-and-set of a refresh keeps the invariant.
LEMMA RefreshRotateInv ==
    ASSUME JTIAssumption, TokenInv, NEW r \in Requests, RefreshRotate(r)
    PROVE  TokenInv'
  BY GiveUpInv, StoreFreshInv DEF RefreshRotate, InFlight

\* A database error during a refresh keeps the invariant.
LEMMA RefreshFailsInv ==
    ASSUME JTIAssumption, TokenInv, NEW r \in Requests, RefreshFails(r)
    PROVE  TokenInv'
  BY GiveUpInv, StoreFreshInv DEF RefreshFails, InFlight

\* Storing a login keeps the invariant.
LEMMA LoginUpsertInv ==
    ASSUME JTIAssumption, TokenInv, NEW r \in Requests,
           LoginUpsert(r) \/ LoginUpsertFails(r)
    PROVE  TokenInv'
  <1>1. req[r].pc = "upsert" /\ req[r].kind = "login"
    BY DEF LoginUpsert, LoginUpsertFails, TokenInv, RequestInv
  <1>2. QED
    BY <1>1, GiveUpInv, StoreFreshInv DEF LoginUpsert, LoginUpsertFails, InFlight

\* The compare-and-set of a logout keeps the invariant.
LEMMA LogoutClearInv ==
    ASSUME JTIAssumption, TokenInv, NEW r \in Requests,
           LogoutClear(r) \/ LogoutFails(r)
    PROVE  TokenInv'
  BY GiveUpInv, ClearRowInv DEF LogoutClear, LogoutFails

\* Delivering an answer keeps the invariant.
LEMMA DeliverInv ==
    ASSUME JTIAssumption, TokenInv, NEW r \in Requests, Deliver(r)
    PROVE  TokenInv'
  <1> USE DEF TokenInv, Deliver
  <1>1. req[r].fresh \in issued
    BY DEF RequestInv
  <1>2. TypeOK'
    BY <1>1 DEF TypeOK
  <1>3. ASSUME NEW s \in Requests PROVE RequestInv(s)'
    BY <1>1 DEF JTIAssumption, RequestInv, InFlight, TypeOK
  <1>4. QED
    BY <1>2, <1>3 DEF SpentStaysSpent, AtMostOneWinner, Winners, LogoutIsFinal, UsedUp

\* The invariant holds in every reachable state.
THEOREM TokenInvariant ==
    ASSUME JTIAssumption PROVE Spec => []TokenInv
  <1>1. Init => TokenInv
    BY InitTokenInv
  <1>2. TokenInv /\ [Next]_vars => TokenInv'
    <2> SUFFICES ASSUME TokenInv, [Next]_vars PROVE TokenInv'
      OBVIOUS
    <2>1. ASSUME NEW r \in Requests, RequestStep(r) PROVE TokenInv'
      BY <2>1, LoginStartInv, RefreshStartInv, LogoutStartInv, LoginUpsertInv, RefreshLookupInv,
         RefreshRotateInv, RefreshFailsInv, LogoutClearInv, DeliverInv
      DEF RequestStep
    <2>2. ASSUME NEW j \in JTIs, Expire(j) PROVE TokenInv'
      BY <2>2 DEF Expire, TokenInv, TypeOK, SpentStaysSpent, AtMostOneWinner, Winners, LogoutIsFinal, UsedUp,
             RequestInv, InFlight
    <2>3. CASE UNCHANGED vars
      BY <2>3 DEF vars, TokenInv, TypeOK, SpentStaysSpent, AtMostOneWinner, Winners, LogoutIsFinal, UsedUp, RequestInv,
             InFlight
    <2>4. QED
      BY <2>1, <2>2, <2>3 DEF Next
  <1>3. QED
    BY <1>1, <1>2, PTL DEF Spec

\* At most one of the requests that present a refresh token gets a new pair,
\* in every interleaving of lookups and compare-and-sets, and whatever
\* database errors occur.
THEOREM OneWinner ==
    ASSUME JTIAssumption PROVE Spec => []AtMostOneWinner
  <1>1. TokenInv => AtMostOneWinner
    BY DEF TokenInv
  <1>2. QED
    BY <1>1, TokenInvariant, PTL

\* A token that was active once and no longer is never becomes active again.
THEOREM NoTokenRevival ==
    ASSUME JTIAssumption PROVE Spec => []SpentStaysSpent
  <1>1. TokenInv => SpentStaysSpent
    BY DEF TokenInv
  <1>2. QED
    BY <1>1, TokenInvariant, PTL

\* A token ends its session or is exchanged for the next one, never both: a logout that
\* cleared the row is the only request that used its token up.
THEOREM LogoutSound ==
    ASSUME JTIAssumption PROVE Spec => []LogoutIsFinal
  <1>1. TokenInv => LogoutIsFinal
    BY DEF TokenInv
  <1>2. QED
    BY <1>1, TokenInvariant, PTL

\* Only logins and requests that present the active token change the row.
THEOREM StaleTokensHarmless ==
    ASSUME JTIAssumption PROVE Spec => StaleTokenHarmless
  <1> DEFINE Allowed ==
        current' # current =>
            \E r \in Requests :
               /\ req'[r] # req[r]
               /\ req[r].kind = "login" \/ req[r].presented = current
  <1>1. TokenInv /\ [Next]_vars => [Allowed]_vars
    <2> SUFFICES ASSUME TokenInv, Next, current' # current PROVE Allowed
      BY DEF vars
    <2>1. PICK r \in Requests : RequestStep(r)
      BY DEF Next, Expire
    <2>2. /\ \E pc \in {"won", "cleared", "failed"} : Goto(r, pc)
          /\ req[r].pc \in {"upsert", "rotate", "clear"}
      BY <2>1 DEF RequestStep, LoginStart, RefreshStart, LogoutStart, LoginUpsert,
             LoginUpsertFails, RefreshLookup, RefreshRotate, RefreshFails, LogoutClear,
             LogoutFails, Deliver
    <2>3. req'[r] # req[r]
      BY <2>2, TokenGotoFacts DEF TokenInv, PC
    <2>4. req[r].kind = "login" \/ req[r].presented = current
      BY <2>1 DEF RequestStep, LoginStart, RefreshStart, LogoutStart, LoginUpsert,
             LoginUpsertFails, RefreshLookup, RefreshRotate, RefreshFails, LogoutClear,
             LogoutFails, Deliver, TokenInv, RequestInv
    <2>5. QED
      BY <2>3, <2>4
  <1>2. QED
    BY <1>1, TokenInvariant, PTL DEF Spec, StaleTokenHarmless

-----------------------------------------------------------------------------
(* Instances *)

\* One request becomes q, the others stay as they are.
InstBecomes(r, q) ==
    /\ q \in Owned!Request
    /\ instReq' \in [Callers -> Owned!Request]
    /\ instReq'[r] = q
    /\ \A t \in Callers \ {r} : instReq'[t] = instReq[t]

\* The assignments the steps make to a request.
LEMMA InstMoves ==
    ASSUME Owned!TypeOK, NEW r \in Callers
    PROVE  /\ \A q \in Owned!Request : instReq' = [instReq EXCEPT ![r] = q] => InstBecomes(r, q)
           /\ Owned!Return(r) => InstBecomes(r, Owned!Idle)
           /\ \A pc \in Owned!PC : Owned!Goto(r, pc) =>
                InstBecomes(r, [instReq[r] EXCEPT !.pc = pc])
  <1>1. instReq \in [Callers -> Owned!Request] /\ instReq[r] \in Owned!Request
    BY DEF Owned!TypeOK
  <1>2. \A q \in Owned!Request : instReq' = [instReq EXCEPT ![r] = q] => InstBecomes(r, q)
    BY <1>1 DEF InstBecomes
  <1>3. Owned!Idle \in Owned!Request
    BY DEF Owned!Idle, Owned!Request, Owned!PC
  <1>4. ASSUME NEW pc \in Owned!PC, Owned!Goto(r, pc)
        PROVE  InstBecomes(r, [instReq[r] EXCEPT !.pc = pc])
    <2>1. [instReq[r] EXCEPT !.pc = pc] \in Owned!Request
      BY <1>1 DEF Owned!Request
    <2>2. instReq' = [instReq EXCEPT ![r] = [instReq[r] EXCEPT !.pc = pc]]
      BY <1>4 DEF Owned!Goto
    <2>3. QED
      BY <1>2, <2>1, <2>2
  <1>5. QED
    BY <1>2, <1>3, <1>4 DEF Owned!Return

\* A server that was made stays made, one that is being deleted never comes back, and
\* a name that was accepted once stays so.
VmLater ==
    \A i \in Servers :
        /\ server[i] # "none" => server'[i] # "none"
        /\ server[i] \in {"deleting", "gone"} => server'[i] \in {"deleting", "gone"}
        /\ server[i] = "gone" => server'[i] = "gone"
        /\ named[i] \subseteq named'[i]

\* The request makes the server, or takes it back.
Making(r, i) == instReq[r].pc \in {"save", "undo"} /\ instReq[r].id = i

\* What a request knows, as a statement about the request alone.
Knows(q) ==
    /\ q.pc \in {"save", "undo", "delete", "deleteRow", "rename", "meta", "pause"} =>
            q.id \in Servers /\ server[q.id] # "none"
    /\ q.pc \in {"create", "save", "rename", "meta"} => q.name \in Names
    /\ q.pc \in {"save", "meta"} => q.name \in named[q.id]
    /\ q.pc = "deleteRow" => server[q.id] \in {"deleting", "gone"}
    /\ \A i \in q.rows \cup q.stale : server[i] # "none"
    /\ \A i \in q.gone : server[i] = "gone"

\* It does not become wrong by what others do.
LEMMA KnowsLater ==
    ASSUME VmLater, NEW q \in Owned!Request, Knows(q)
    PROVE  Knows(q)'
  BY DEF VmLater, Knows, Owned!Request

\* No row of a live server is deleted in this step.
RowsKept ==
    \A i \in Servers : row[i] # NoName /\ row'[i] = NoName => ~Owned!Alive(i)

\* A step of a request that keeps the types keeps the invariant, if the servers are later
\* than before, the request knows what its next place asks for, rows have names that were
\* accepted, and a live server without a row is known as lost or in the request's hands.
LEMMA InstStep ==
    ASSUME Owned!InstancesInv, NEW r \in Callers, NEW q \in Owned!Request, InstBecomes(r, q),
           Owned!TypeOK', VmLater, Knows(q)', lost \subseteq lost',
           \A i \in Servers : row'[i] # NoName => server'[i] # "none" /\ row'[i] \in named'[i],
           \A i \in Servers :
                Owned!Alive(i)' /\ row'[i] = NoName =>
                    \/ i \in lost' \/ Making(r, i)'
                    \/ Owned!Alive(i) /\ row[i] = NoName /\ ~Making(r, i)
    PROVE  Owned!InstancesInv'
  <1>1. Owned!NameWasAccepted' /\ Owned!RowsInv'
    BY DEF Owned!NameWasAccepted, Owned!RowsInv
  <1>2. Owned!NoSilentOrphan'
    <2> SUFFICES ASSUME NEW i \in Servers, Owned!Alive(i)', row'[i] = NoName, i \notin lost'
                 PROVE  \E t \in Callers : Making(t, i)'
      BY DEF Owned!NoSilentOrphan, Making
    <2>1. CASE Making(r, i)'
      BY <2>1
    <2>2. CASE Owned!Alive(i) /\ row[i] = NoName /\ ~Making(r, i)
      <3>1. PICK t \in Callers : Making(t, i)
        BY <2>2 DEF Owned!InstancesInv, Owned!OwnershipInv, Owned!NoSilentOrphan, Making
      <3>2. t # r
        BY <2>2, <3>1
      <3>3. Making(t, i)'
        BY <3>1, <3>2 DEF InstBecomes, Making
      <3>4. QED
        BY <3>3
    <2>3. QED
      BY <2>1, <2>2
  <1>3. ASSUME NEW t \in Callers PROVE Owned!RequestInv(t)'
    <2>1. CASE t = r
      BY <2>1 DEF InstBecomes, Knows, Owned!RequestInv
    <2>2. CASE t # r
      <3> DEFINE x == instReq[t]
      <3>1. x \in Owned!Request /\ Knows(x) /\ instReq'[t] = x
        BY <2>2 DEF Owned!InstancesInv, Owned!OwnershipInv, Owned!TypeOK, Owned!RequestInv,
               Knows, InstBecomes
      <3>2. PICK y \in Owned!Request : y = x
        BY <3>1
      <3>3. Knows(y)'
        BY <3>1, <3>2, KnowsLater
      <3>4. QED
        BY <3>1, <3>2, <3>3 DEF Knows, Owned!RequestInv
    <2>3. QED
      BY <2>1, <2>2
  <1>4. QED
    BY <1>1, <1>2, <1>3 DEF Owned!InstancesInv, Owned!OwnershipInv

\* A step that changes neither servers nor rows.
LEMMA InstQuiet ==
    ASSUME Owned!InstancesInv, NEW r \in Callers, NEW q \in Owned!Request, InstBecomes(r, q),
           Knows(q), UNCHANGED <<server, serverName, named, row, app, lost>>,
           faults' \in 0 .. MaxFaults,
           \A i \in Servers : Making(r, i) => q.pc \in {"save", "undo"} /\ q.id = i
    PROVE  Owned!InstancesInv' /\ RowsKept
  <1>1. VmLater /\ RowsKept
    BY DEF VmLater, RowsKept
  <1>2. Knows(q)'
    BY <1>1, KnowsLater
  <1>3. Owned!TypeOK'
    BY DEF Owned!InstancesInv, Owned!OwnershipInv, Owned!TypeOK, InstBecomes
  <1>4. \A i \in Servers : row'[i] # NoName => server'[i] # "none" /\ row'[i] \in named'[i]
    BY DEF Owned!InstancesInv, Owned!RowsInv, Owned!NameWasAccepted
  <1>5. \A i \in Servers : Making(r, i) => Making(r, i)'
    BY DEF Making, InstBecomes
  <1>6. \A i \in Servers : Owned!Alive(i)' => Owned!Alive(i)
    BY DEF Owned!Alive
  <1>7. Owned!InstancesInv'
    BY <1>1, <1>2, <1>3, <1>4, <1>5, <1>6, InstStep
  <1>8. QED
    BY <1>1, <1>7

\* The count of faults stays within its bound.
LEMMA OneFault ==
    ASSUME Owned!InstancesAssumption, faults \in 0 .. MaxFaults, Owned!Fault
    PROVE  faults' \in 0 .. MaxFaults
  BY DEF Owned!InstancesAssumption, Owned!Fault

\* A request that ends knows nothing.
LEMMA IdleKnows ==
    /\ Owned!Idle \in Owned!Request /\ Owned!Idle.pc = "idle"
    /\ Knows(Owned!Idle) /\ Knows(Owned!Idle)'
  BY DEF Owned!Idle, Owned!Request, Owned!PC, Knows

\* A request ends that has no server of its own in hand.
LEMMA InstReturns ==
    ASSUME Owned!InstancesInv, NEW r \in Callers, Owned!Return(r),
           instReq[r].pc \notin {"save", "undo"},
           UNCHANGED <<server, serverName, named, row, app, lost>>,
           faults' \in 0 .. MaxFaults
    PROVE  Owned!InstancesInv' /\ RowsKept
  <1>1. InstBecomes(r, Owned!Idle)
    BY InstMoves DEF Owned!InstancesInv, Owned!OwnershipInv
  <1>2. \A i \in Servers : ~Making(r, i)
    BY DEF Making
  <1>3. QED
    BY <1>1, <1>2, IdleKnows, InstQuiet

\* The requests that begin: with a row they have seen, or with nothing.
LEMMA InstStarts ==
    ASSUME Owned!InstancesAssumption, Owned!InstancesInv, NEW r \in Callers,
           \/ \E n \in Names : Owned!StartCreate(r, n)
           \/ \E i \in Servers : Owned!StartDelete(r, i) \/ Owned!StartPause(r, i)
           \/ \E i \in Servers, n \in Names \cup {NoName} : Owned!StartUpdate(r, i, n)
           \/ Owned!StartList(r)
    PROVE  Owned!InstancesInv' /\ RowsKept
  <1>1. /\ Owned!TypeOK /\ instReq[r] \in Owned!Request /\ instReq[r].pc = "idle"
        /\ \A i \in Servers : ~Making(r, i)
        /\ UNCHANGED <<server, serverName, named, row, app, lost>>
        /\ faults' \in 0 .. MaxFaults
    BY DEF Owned!StartCreate, Owned!StartDelete, Owned!StartPause, Owned!StartUpdate,
           Owned!StartList, Owned!os, Owned!InstancesInv, Owned!OwnershipInv, Owned!TypeOK,
           Making
  <1>2. ASSUME NEW n \in Names, Owned!StartCreate(r, n)
        PROVE  Owned!InstancesInv' /\ RowsKept
    <2> DEFINE q == [Owned!Idle EXCEPT !.pc = "create", !.name = n]
    <2>1. q \in Owned!Request /\ Knows(q)
      BY DEF Owned!Idle, Owned!Request, Owned!PC, Knows
    <2>2. instReq' = [instReq EXCEPT ![r] = q]
      BY <1>2 DEF Owned!StartCreate
    <2>3. QED
      BY <1>1, <2>1, <2>2, InstMoves, InstQuiet
  <1>3. ASSUME NEW i \in Servers, Owned!StartDelete(r, i)
        PROVE  Owned!InstancesInv' /\ RowsKept
    <2> DEFINE q == [Owned!Idle EXCEPT !.pc = "delete", !.id = i]
    <2>1. server[i] # "none"
      BY <1>3 DEF Owned!StartDelete, Owned!InstancesInv, Owned!RowsInv
    <2>2. q \in Owned!Request /\ Knows(q)
      BY <2>1 DEF Owned!Idle, Owned!Request, Owned!PC, Knows
    <2>3. instReq' = [instReq EXCEPT ![r] = q]
      BY <1>3 DEF Owned!StartDelete
    <2>4. QED
      BY <1>1, <2>2, <2>3, InstMoves, InstQuiet
  <1>4. ASSUME NEW i \in Servers, Owned!StartPause(r, i)
        PROVE  Owned!InstancesInv' /\ RowsKept
    <2> DEFINE q == [Owned!Idle EXCEPT !.pc = "pause", !.id = i]
    <2>1. server[i] # "none"
      BY <1>4 DEF Owned!StartPause, Owned!InstancesInv, Owned!RowsInv
    <2>2. q \in Owned!Request /\ Knows(q)
      BY <2>1 DEF Owned!Idle, Owned!Request, Owned!PC, Knows
    <2>3. instReq' = [instReq EXCEPT ![r] = q]
      BY <1>4 DEF Owned!StartPause
    <2>4. QED
      BY <1>1, <2>2, <2>3, InstMoves, InstQuiet
  <1>5. ASSUME NEW i \in Servers, NEW n \in Names \cup {NoName}, Owned!StartUpdate(r, i, n)
        PROVE  Owned!InstancesInv' /\ RowsKept
    <2>1. /\ server[i] # "none" /\ row[i] # NoName /\ row[i] \in Names /\ row[i] \in named[i]
      BY <1>5 DEF Owned!StartUpdate, Owned!InstancesInv, Owned!RowsInv, Owned!NameWasAccepted,
             Owned!OwnershipInv, Owned!TypeOK
    <2> DEFINE name == IF n = NoName THEN row[i] ELSE n
               pc == IF name # row[i] THEN "rename" ELSE "meta"
               q == [Owned!Idle EXCEPT !.pc = pc, !.id = i, !.name = name]
    <2>2. name \in Names /\ pc \in {"rename", "meta"} /\ (pc = "meta" => name \in named[i])
      BY <2>1
    <2>3. instReq' = [instReq EXCEPT ![r] = q]
      BY <1>5 DEF Owned!StartUpdate
    <2> HIDE DEF name, pc
    <2>4. q \in Owned!Request /\ Knows(q)
      BY <2>1, <2>2 DEF Owned!Idle, Owned!Request, Owned!PC, Knows
    <2>5. QED
      BY <1>1, <2>3, <2>4, InstMoves, InstQuiet
  <1>6. CASE Owned!StartList(r)
    <2> DEFINE q == [instReq[r] EXCEPT !.pc = "list"]
    <2>1. InstBecomes(r, q)
      BY <1>1, <1>6, InstMoves DEF Owned!StartList, Owned!PC
    <2>2. Knows(q) /\ q \in Owned!Request
      BY <1>1, <2>1 DEF Knows, InstBecomes, Owned!Request, Owned!InstancesInv, Owned!RequestInv
    <2>3. QED
      BY <1>1, <2>1, <2>2, InstQuiet
  <1>7. QED
    BY <1>2, <1>3, <1>4, <1>5, <1>6

\* The listing: both reads in either order, what they show is stale, and what OpenStack
\* no longer finds is gone for good, since it was made once.
LEMMA ListingKeeps ==
    ASSUME Owned!InstancesAssumption, Owned!InstancesInv, NEW r \in Callers,
           \/ Owned!ReadRows(r) \/ Owned!ReadServers(r) \/ Owned!FindStale(r)
           \/ \E i \in Servers : Owned!ConfirmStale(r, i) \/ Owned!PruneFails(r, i)
    PROVE  Owned!InstancesInv' /\ RowsKept
  <1> DEFINE p == instReq[r]
  <1>1. /\ Owned!TypeOK /\ p \in Owned!Request /\ p.pc \in {"list", "prune"} /\ Knows(p)
        /\ \A i \in Servers : ~Making(r, i)
        /\ UNCHANGED <<server, serverName, named, row, app, lost>>
    BY DEF Owned!ReadRows, Owned!ReadServers, Owned!FindStale, Owned!ConfirmStale,
           Owned!PruneFails, Owned!os, Owned!InstancesInv, Owned!OwnershipInv, Owned!TypeOK,
           Making, Knows, Owned!RequestInv
  <1>2. faults' \in 0 .. MaxFaults
    <2>1. faults' = faults \/ Owned!Fault
      BY DEF Owned!ReadRows, Owned!ReadServers, Owned!FindStale, Owned!ConfirmStale,
             Owned!PruneFails
    <2>2. QED
      BY <1>1, <2>1, OneFault DEF Owned!TypeOK
  <1>3. \A q \in Owned!Request : Knows(q) /\ instReq' = [instReq EXCEPT ![r] = q] =>
            Owned!InstancesInv' /\ RowsKept
    BY <1>1, <1>2, InstMoves, InstQuiet
  <1>4. CASE Owned!ReadRows(r)
    <2> DEFINE q == [p EXCEPT !.rows = {i \in Servers : row[i] # NoName},
                              !.read = @ \cup {"rows"}]
    <2>1. instReq' = [instReq EXCEPT ![r] = q]
      BY <1>1, <1>4 DEF Owned!ReadRows, Owned!Request, Owned!TypeOK
    <2>2. q \in Owned!Request /\ Knows(q)
      BY <1>1, <1>4 DEF Owned!ReadRows, Owned!Request, Knows, Owned!InstancesInv, Owned!RowsInv
    <2>3. QED
      BY <1>3, <2>1, <2>2
  <1>5. CASE Owned!ReadServers(r)
    <2>1. PICK late \in SUBSET {i \in Servers : Owned!Alive(i)} :
            instReq' = [instReq EXCEPT ![r].seen = {i \in Servers : Owned!Found(i)} \ late,
                                       ![r].read = @ \cup {"servers"}]
      BY <1>5 DEF Owned!ReadServers
    <2> DEFINE q == [p EXCEPT !.seen = {i \in Servers : Owned!Found(i)} \ late,
                              !.read = @ \cup {"servers"}]
    <2>2. instReq' = [instReq EXCEPT ![r] = q]
      BY <1>1, <2>1 DEF Owned!Request, Owned!TypeOK
    <2>3. q \in Owned!Request /\ Knows(q)
      BY <1>1 DEF Owned!Request, Knows
    <2>4. QED
      BY <1>3, <2>2, <2>3
  <1>6. CASE Owned!FindStale(r)
    <2> DEFINE q == [Owned!Idle EXCEPT !.pc = "prune", !.stale = p.rows \ p.seen]
    <2>1. instReq' = [instReq EXCEPT ![r] = q]
      BY <1>6 DEF Owned!FindStale
    <2>2. q \in Owned!Request /\ Knows(q)
      BY <1>1 DEF Owned!Request, Owned!PC, Owned!Idle, Knows
    <2>3. QED
      BY <1>3, <2>1, <2>2
  <1>7. ASSUME NEW i \in Servers, Owned!ConfirmStale(r, i)
        PROVE  Owned!InstancesInv' /\ RowsKept
    <2> DEFINE q == [p EXCEPT !.stale = @ \ {i},
                              !.gone = IF Owned!Found(i) THEN @ ELSE @ \cup {i}]
    <2>1. instReq' = [instReq EXCEPT ![r] = q]
      BY <1>1, <1>7 DEF Owned!ConfirmStale, Owned!Request, Owned!TypeOK
    <2>2. ~Owned!Found(i) => server[i] = "gone"
      BY <1>1, <1>7 DEF Owned!ConfirmStale, Knows, Owned!Found, Owned!Alive, Owned!TypeOK
    <2>3. q \in Owned!Request /\ Knows(q)
      BY <1>1, <1>7, <2>2 DEF Owned!ConfirmStale, Owned!Request, Knows
    <2>4. QED
      BY <1>3, <2>1, <2>3
  <1>8. ASSUME NEW i \in Servers, Owned!PruneFails(r, i)
        PROVE  Owned!InstancesInv' /\ RowsKept
    <2> DEFINE q == [p EXCEPT !.stale = @ \ {i}, !.gone = @ \ {i}]
    <2>1. instReq' = [instReq EXCEPT ![r] = q]
      BY <1>1, <1>8 DEF Owned!PruneFails, Owned!Request, Owned!TypeOK
    <2>2. q \in Owned!Request /\ Knows(q)
      BY <1>1, <1>8 DEF Owned!PruneFails, Owned!Request, Knows
    <2>3. QED
      BY <1>3, <2>1, <2>2
  <1>9. QED
    BY <1>4, <1>5, <1>6, <1>7, <1>8

\* A server is made, by a request that goes on to save its row or by one that hears of an
\* error and leaves it.
LEMMA ServerMade ==
    ASSUME Owned!InstancesAssumption, Owned!InstancesInv, NEW r \in Callers, NEW i \in Servers,
           instReq[r].pc = "create", server[i] = "none",
           server' = [server EXCEPT ![i] = "live"], Owned!RenameServer(i, instReq[r].name),
           NEW q \in Owned!Request, InstBecomes(r, q),
           \/ q = Owned!Idle /\ lost' = lost \cup {i}
           \/ q = [instReq[r] EXCEPT !.pc = "save", !.id = i] /\ lost' = lost,
           UNCHANGED <<row, app>>, faults' \in 0 .. MaxFaults
    PROVE  Owned!InstancesInv' /\ RowsKept
  <1> DEFINE p == instReq[r]
  <1>1. Owned!TypeOK /\ p \in Owned!Request /\ Knows(p) /\ p.name \in Names
    BY DEF Owned!InstancesInv, Owned!OwnershipInv, Owned!TypeOK, Owned!RequestInv, Knows
  <1>2. /\ server' \in [Servers -> {"none", "live", "paused", "deleting", "gone"}]
        /\ server'[i] = "live" /\ \A j \in Servers \ {i} : server'[j] = server[j]
    BY <1>1 DEF Owned!TypeOK
  <1>3. /\ named' \in [Servers -> SUBSET Names] /\ p.name \in named'[i]
        /\ \A j \in Servers : named[j] \subseteq named'[j]
    BY <1>1 DEF Owned!RenameServer, Owned!TypeOK
  <1>4. Owned!TypeOK'
    BY <1>1, <1>2, <1>3 DEF Owned!TypeOK, Owned!RenameServer, InstBecomes
  <1>5. VmLater /\ RowsKept
    BY <1>2, <1>3 DEF VmLater, RowsKept
  <1>6. /\ \A j \in p.rows \cup p.stale : server'[j] # "none"
        /\ \A j \in p.gone : server'[j] = "gone"
    <2>1. PICK x \in Owned!Request : x = p
      BY <1>1
    <2>2. Knows(x)'
      BY <1>1, <1>5, <2>1, KnowsLater
    <2>3. QED
      BY <2>1, <2>2 DEF Knows
  <1>7. \A j \in Servers : row'[j] # NoName => server'[j] # "none" /\ row'[j] \in named'[j]
    BY <1>2, <1>3 DEF Owned!InstancesInv, Owned!RowsInv, Owned!NameWasAccepted
  <1>8. \A j \in Servers : ~Making(r, j)
    BY DEF Making
  <1>9. \A j \in Servers \ {i} : Owned!Alive(j)' => Owned!Alive(j)
    BY <1>2 DEF Owned!Alive
  <1>10. CASE q = Owned!Idle /\ lost' = lost \cup {i}
    BY <1>4, <1>5, <1>7, <1>8, <1>9, <1>10, IdleKnows, InstStep
  <1>11. CASE q = [p EXCEPT !.pc = "save", !.id = i] /\ lost' = lost
    <2>1. /\ q.pc = "save" /\ q.id = i /\ q.name = p.name /\ q.rows = p.rows
          /\ q.stale = p.stale /\ q.gone = p.gone
      BY <1>1, <1>11 DEF Owned!Request
    <2>2. Knows(q)'
      BY <1>1, <1>2, <1>3, <1>6, <2>1 DEF Knows
    <2>3. Making(r, i)'
      BY <2>1 DEF Making, InstBecomes
    <2>4. QED
      BY <1>4, <1>5, <1>7, <1>8, <1>9, <1>11, <2>2, <2>3, InstStep
  <1>12. QED
    BY <1>10, <1>11

\* Servers change otherwise: none comes back to life, and none is renamed to a name that
\* its rows or requests would have to know.
LEMMA ServersMove ==
    ASSUME Owned!InstancesInv, NEW r \in Callers, NEW q \in Owned!Request, InstBecomes(r, q),
           server' \in [Servers -> {"none", "live", "paused", "deleting", "gone"}],
           serverName' \in [Servers -> Names \cup {NoName}],
           named' \in [Servers -> SUBSET Names],
           VmLater, \A i \in Servers : Owned!Alive(i)' => Owned!Alive(i),
           Knows(q)', UNCHANGED <<row, app>>,
           lost \subseteq lost', lost' \subseteq Servers,
           faults' \in 0 .. MaxFaults,
           \A i \in Servers : Making(r, i) => \/ ~Owned!Alive(i)' \/ i \in lost'
                                              \/ Making(r, i)'
    PROVE  Owned!InstancesInv' /\ RowsKept
  <1>1. Owned!TypeOK'
    BY DEF Owned!InstancesInv, Owned!OwnershipInv, Owned!TypeOK, InstBecomes
  <1>2. RowsKept
    BY DEF RowsKept
  <1>3. \A j \in Servers : row'[j] # NoName => server'[j] # "none" /\ row'[j] \in named'[j]
    BY DEF Owned!InstancesInv, Owned!RowsInv, Owned!NameWasAccepted, VmLater
  <1>4. Owned!InstancesInv'
    BY <1>1, <1>3, InstStep
  <1>5. QED
    BY <1>2, <1>4

\* One server is being deleted.
LEMMA VmDeleted ==
    ASSUME Owned!InstancesInv, NEW i \in Servers, Owned!Found(i), Owned!DeleteServer(i),
           UNCHANGED named
    PROVE  /\ server' \in [Servers -> {"none", "live", "paused", "deleting", "gone"}]
           /\ VmLater /\ server'[i] = "deleting"
           /\ \A j \in Servers : Owned!Alive(j)' => Owned!Alive(j) /\ j # i
  BY DEF Owned!InstancesInv, Owned!OwnershipInv, Owned!TypeOK, Owned!DeleteServer, Owned!Found,
         Owned!Alive, VmLater

\* A server is renamed.
LEMMA VmRenamed ==
    ASSUME Owned!InstancesInv, NEW i \in Servers, NEW n \in Names, Owned!RenameServer(i, n),
           UNCHANGED server
    PROVE  /\ serverName' \in [Servers -> Names \cup {NoName}]
           /\ named' \in [Servers -> SUBSET Names] /\ n \in named'[i]
           /\ VmLater /\ \A j \in Servers : Owned!Alive(j)' => Owned!Alive(j)
  BY DEF Owned!InstancesInv, Owned!OwnershipInv, Owned!TypeOK, Owned!RenameServer, Owned!Alive,
         VmLater

\* CreateInstance up to its row: OpenStack makes the server or not, the row is not saved,
\* and the server is taken back.
LEMMA CreatingKeeps ==
    ASSUME Owned!InstancesAssumption, Owned!InstancesInv, NEW r \in Callers,
           \/ \E i \in Servers : Owned!CreateServer(r, i)
           \/ Owned!CreateServerFails(r) \/ Owned!SaveInstanceFails(r) \/ Owned!UndoCreate(r)
    PROVE  Owned!InstancesInv' /\ RowsKept
  <1> DEFINE p == instReq[r]
  <1>1. /\ Owned!TypeOK /\ p \in Owned!Request /\ Knows(p) /\ faults \in 0 .. MaxFaults
        /\ lost \subseteq Servers
    BY DEF Owned!InstancesInv, Owned!OwnershipInv, Owned!TypeOK, Owned!RequestInv, Knows
  <1>2. Owned!Fault => faults' \in 0 .. MaxFaults
    BY <1>1, OneFault
  <1>3. Owned!Return(r) => InstBecomes(r, Owned!Idle)
    BY <1>1, InstMoves
  <1>4. ASSUME NEW i \in Servers, Owned!CreateServer(r, i)
        PROVE  Owned!InstancesInv' /\ RowsKept
    <2> DEFINE q == [p EXCEPT !.pc = "save", !.id = i]
    <2>1. q \in Owned!Request
      BY <1>1 DEF Owned!Request, Owned!PC
    <2>2. instReq' = [instReq EXCEPT ![r] = q]
      BY <1>1, <1>4 DEF Owned!CreateServer, Owned!TypeOK
    <2>3. InstBecomes(r, q)
      BY <1>1, <2>1, <2>2, InstMoves
    <2>4. faults' \in 0 .. MaxFaults
      BY <1>1, <1>4 DEF Owned!CreateServer
    <2>5. PICK x \in Owned!Request : x = q
      BY <2>1
    <2>6. QED
      BY <1>4, <2>3, <2>4, <2>5, ServerMade DEF Owned!CreateServer
  <1>5. CASE Owned!CreateServerFails(r)
    <2>1. p.pc = "create" /\ Owned!Return(r) /\ UNCHANGED <<row, app>>
      BY <1>5 DEF Owned!CreateServerFails
    <2>2. CASE UNCHANGED <<server, serverName, named, lost>> /\ faults' \in 0 .. MaxFaults
      BY <2>1, <2>2, InstReturns
    <2>3. ASSUME NEW i \in Servers, Owned!Fault, server[i] = "none",
        server' = [server EXCEPT ![i] = "live"],
                 Owned!RenameServer(i, p.name), lost' = lost \cup {i}
          PROVE  Owned!InstancesInv' /\ RowsKept
      <3>1. PICK x \in Owned!Request : x = Owned!Idle
        BY IdleKnows
      <3>2. QED
        BY <1>2, <1>3, <2>1, <2>3, <3>1, ServerMade
    <2>4. QED
      BY <1>1, <1>2, <1>5, <2>2, <2>3 DEF Owned!CreateServerFails, Owned!os
  <1>6. CASE Owned!SaveInstanceFails(r)
    <2> DEFINE q == [p EXCEPT !.pc = "undo"]
    <2>1. /\ p.pc = "save" /\ InstBecomes(r, q) /\ faults' \in 0 .. MaxFaults
          /\ UNCHANGED <<server, serverName, named, row, app, lost>>
      BY <1>1, <1>2, <1>6, InstMoves DEF Owned!SaveInstanceFails, Owned!PC, Owned!os
    <2>2. /\ q \in Owned!Request /\ q.pc = "undo" /\ q.id = p.id /\ q.rows = p.rows
          /\ q.stale = p.stale /\ q.gone = p.gone
      BY <1>1 DEF Owned!Request, Owned!PC
    <2>3. PICK x \in Owned!Request : x = q
      BY <2>2
    <2>4. Knows(x)
      BY <1>1, <2>1, <2>2, <2>3 DEF Knows
    <2>5. \A i \in Servers : Making(r, i) => x.pc \in {"save", "undo"} /\ x.id = i
      BY <2>2, <2>3 DEF Making
    <2>6. QED
      BY <2>1, <2>3, <2>4, <2>5, InstQuiet
  <1>7. CASE Owned!UndoCreate(r)
    <2>1. /\ p.pc = "undo" /\ p.id \in Servers /\ InstBecomes(r, Owned!Idle)
          /\ UNCHANGED <<serverName, named, row, app>>
      BY <1>1, <1>3, <1>7 DEF Owned!UndoCreate, Knows
    <2>2. \A i \in Servers : Making(r, i) => i = p.id
      BY DEF Making
    <2>3. /\ server \in [Servers -> {"none", "live", "paused", "deleting", "gone"}]
          /\ serverName \in [Servers -> Names \cup {NoName}] /\ named \in [Servers -> SUBSET Names]
      BY <1>1 DEF Owned!TypeOK
    <2>4. CASE Owned!Found(p.id) /\ Owned!DeleteServer(p.id) /\ UNCHANGED <<faults, lost>>
      <3>1. /\ server' \in [Servers -> {"none", "live", "paused", "deleting", "gone"}]
            /\ VmLater /\ \A j \in Servers : Owned!Alive(j)' => Owned!Alive(j) /\ j # p.id
        BY <2>1, <2>4, VmDeleted
      <3>2. QED
        BY <1>1, <2>1, <2>2, <2>3, <2>4, <3>1, IdleKnows, ServersMove
    <2>5. CASE /\ UNCHANGED server /\ lost \subseteq lost' /\ lost' \subseteq Servers
               /\ faults' \in 0 .. MaxFaults
               /\ ~Owned!Found(p.id) \/ p.id \in lost'
      <3>1. VmLater /\ \A j \in Servers : Owned!Alive(j)' <=> Owned!Alive(j)
        BY <2>1, <2>5 DEF VmLater, Owned!Alive
      <3>2. PICK i \in Servers : i = p.id
        BY <2>1
      <3>3. ~Owned!Alive(i)' \/ i \in lost'
        BY <2>5, <3>1, <3>2 DEF Owned!Found
      <3>4. \A j \in Servers : Making(r, j) => j = i
        BY <2>2, <3>2
      <3>5. QED
        BY <2>1, <2>3, <2>5, <3>1, <3>3, <3>4, IdleKnows, ServersMove
    <2>6. QED
      BY <1>1, <1>2, <1>7, <2>1, <2>4, <2>5 DEF Owned!UndoCreate
  <1>8. QED
    BY <1>4, <1>5, <1>6, <1>7

\* The calls that DeleteInstance, UpdateInstance and the pauses make to OpenStack.
LEMMA CallsKeep ==
    ASSUME Owned!InstancesAssumption, Owned!InstancesInv, NEW r \in Callers,
           \/ Owned!DeleteRemote(r) \/ Owned!UpdateServerName(r)
           \/ Owned!PauseInstance(r) \/ Owned!UnpauseInstance(r)
    PROVE  Owned!InstancesInv' /\ RowsKept
  <1> DEFINE p == instReq[r]
  <1>1. /\ Owned!TypeOK /\ p \in Owned!Request /\ Knows(p) /\ faults \in 0 .. MaxFaults
        /\ lost \subseteq Servers /\ p.pc \in {"delete", "rename", "pause"} /\ p.id \in Servers
        /\ server[p.id] # "none" /\ UNCHANGED <<row, app, lost>>
    BY DEF Owned!InstancesInv, Owned!OwnershipInv, Owned!TypeOK, Owned!RequestInv, Knows,
           Owned!DeleteRemote, Owned!UpdateServerName, Owned!PauseInstance,
           Owned!UnpauseInstance
  <1>2. \A i \in Servers : ~Making(r, i)
    BY <1>1 DEF Making
  <1>3. Owned!Fault => faults' \in 0 .. MaxFaults
    BY <1>1, OneFault
  <1>4. Owned!Return(r) => InstBecomes(r, Owned!Idle)
    BY <1>1, InstMoves
  <1>5. /\ server \in [Servers -> {"none", "live", "paused", "deleting", "gone"}]
        /\ serverName \in [Servers -> Names \cup {NoName}] /\ named \in [Servers -> SUBSET Names]
    BY <1>1 DEF Owned!TypeOK
  <1>6. CASE Owned!DeleteRemote(r)
    <2>1. p.pc = "delete" /\ UNCHANGED <<serverName, named>>
      BY <1>6 DEF Owned!DeleteRemote
    <2>2. CASE Owned!Found(p.id) /\ Owned!DeleteServer(p.id) /\ faults' \in 0 .. MaxFaults
      <3>1. /\ server' \in [Servers -> {"none", "live", "paused", "deleting", "gone"}]
            /\ VmLater /\ server'[p.id] = "deleting"
            /\ \A j \in Servers : Owned!Alive(j)' => Owned!Alive(j)
        BY <1>1, <2>1, <2>2, VmDeleted
      <3>2. CASE Owned!Return(r)
        BY <1>1, <1>2, <1>4, <1>5, <2>1, <2>2, <3>1, <3>2, IdleKnows, ServersMove
      <3>3. CASE Owned!Goto(r, "deleteRow")
        <4> DEFINE q == [p EXCEPT !.pc = "deleteRow"]
        <4>1. /\ q \in Owned!Request /\ q.pc = "deleteRow" /\ q.id = p.id /\ q.rows = p.rows
              /\ q.stale = p.stale /\ q.gone = p.gone /\ InstBecomes(r, q)
          BY <1>1, <3>3, InstMoves DEF Owned!Request, Owned!PC
        <4>2. PICK x \in Owned!Request : x = q
          BY <4>1
        <4>3. PICK y \in Owned!Request : y = p
          BY <1>1
        <4>4. Knows(y)'
          BY <1>1, <3>1, <4>3, KnowsLater
        <4>5. Knows(x)'
          BY <1>1, <3>1, <4>1, <4>2, <4>3, <4>4 DEF Knows
        <4>6. QED
          BY <1>1, <1>2, <1>5, <2>1, <2>2, <3>1, <4>1, <4>2, <4>5, ServersMove
      <3>4. QED
        BY <1>6, <2>1, <3>2, <3>3 DEF Owned!DeleteRemote
    <2>3. CASE Owned!Return(r) /\ UNCHANGED server /\ faults' \in 0 .. MaxFaults
      BY <1>1, <2>1, <2>3, InstReturns
    <2>4. QED
      BY <1>1, <1>3, <1>6, <2>2, <2>3 DEF Owned!DeleteRemote
  <1>7. CASE Owned!UpdateServerName(r)
    <2>1. p.pc = "rename" /\ p.name \in Names /\ UNCHANGED server
      BY <1>1, <1>7 DEF Owned!UpdateServerName, Knows
    <2>2. CASE Owned!RenameServer(p.id, p.name) /\ faults' \in 0 .. MaxFaults
      <3>1. /\ serverName' \in [Servers -> Names \cup {NoName}]
            /\ named' \in [Servers -> SUBSET Names] /\ p.name \in named'[p.id]
            /\ VmLater /\ \A j \in Servers : Owned!Alive(j)' => Owned!Alive(j)
        BY <1>1, <2>1, <2>2, VmRenamed
      <3>2. CASE Owned!Return(r)
        BY <1>1, <1>2, <1>4, <1>5, <2>1, <2>2, <3>1, <3>2, IdleKnows, ServersMove
      <3>3. CASE Owned!Goto(r, "meta")
        <4> DEFINE q == [p EXCEPT !.pc = "meta"]
        <4>1. /\ q \in Owned!Request /\ q.pc = "meta" /\ q.id = p.id /\ q.rows = p.rows
              /\ q.stale = p.stale /\ q.gone = p.gone /\ q.name = p.name /\ InstBecomes(r, q)
          BY <1>1, <3>3, InstMoves DEF Owned!Request, Owned!PC
        <4>2. PICK x \in Owned!Request : x = q
          BY <4>1
        <4>3. Knows(x)'
          BY <1>1, <2>1, <3>1, <4>1, <4>2 DEF Knows
        <4>4. QED
          BY <1>1, <1>2, <1>5, <2>1, <2>2, <3>1, <4>1, <4>2, <4>3, ServersMove
      <3>4. QED
        BY <1>7, <3>2, <3>3 DEF Owned!UpdateServerName
    <2>3. CASE Owned!Return(r) /\ UNCHANGED <<serverName, named>> /\ faults' \in 0 .. MaxFaults
      BY <1>1, <2>1, <2>3, InstReturns
    <2>4. QED
      BY <1>1, <1>3, <1>7, <2>2, <2>3 DEF Owned!UpdateServerName
  <1>8. CASE Owned!PauseInstance(r) \/ Owned!UnpauseInstance(r)
    <2>1. /\ InstBecomes(r, Owned!Idle) /\ UNCHANGED <<serverName, named, faults>>
          /\ Owned!PauseServer(p.id) \/ Owned!UnpauseServer(p.id) \/ UNCHANGED server
      BY <1>4, <1>8 DEF Owned!PauseInstance, Owned!UnpauseInstance
    <2>2. /\ server' \in [Servers -> {"none", "live", "paused", "deleting", "gone"}]
          /\ VmLater /\ \A j \in Servers : Owned!Alive(j)' => Owned!Alive(j)
      BY <1>1, <1>5, <2>1 DEF Owned!PauseServer, Owned!UnpauseServer, VmLater, Owned!Alive
    <2>3. QED
      BY <1>1, <1>2, <1>5, <2>1, <2>2, IdleKnows, ServersMove
  <1>9. QED
    BY <1>6, <1>7, <1>8

\* A row is written with a name its server has, or deleted when its server is not alive.
LEMMA RowMoves ==
    ASSUME Owned!InstancesInv, NEW r \in Callers, NEW q \in Owned!Request, InstBecomes(r, q),
           Knows(q), UNCHANGED <<server, serverName, named, app, faults, lost>>,
           NEW i \in Servers, NEW n \in Names \cup {NoName},
           row' = [row EXCEPT ![i] = n],
           n # NoName => server[i] # "none" /\ n \in named[i],
           n = NoName => ~Owned!Alive(i) /\ i \notin app,
           \A j \in Servers : Making(r, j) => j = i /\ n # NoName
    PROVE  Owned!InstancesInv' /\ RowsKept
  <1>1. /\ Owned!TypeOK /\ row' \in [Servers -> Names \cup {NoName}] /\ row'[i] = n
        /\ \A j \in Servers \ {i} : row'[j] = row[j]
    BY DEF Owned!InstancesInv, Owned!OwnershipInv, Owned!TypeOK
  <1>2. app \subseteq {j \in Servers : row'[j] # NoName}
    BY <1>1 DEF Owned!TypeOK
  <1>3. Owned!TypeOK'
    BY <1>1, <1>2 DEF Owned!TypeOK, InstBecomes
  <1>4. VmLater /\ RowsKept
    BY <1>1 DEF VmLater, RowsKept
  <1>5. Knows(q)'
    BY <1>4, KnowsLater
  <1>6. \A j \in Servers : row'[j] # NoName => server'[j] # "none" /\ row'[j] \in named'[j]
    BY <1>1 DEF Owned!InstancesInv, Owned!RowsInv, Owned!NameWasAccepted
  <1>7. \A j \in Servers : Owned!Alive(j)' <=> Owned!Alive(j)
    BY DEF Owned!Alive
  <1>8. \A j \in Servers : Owned!Alive(j)' /\ row'[j] = NoName =>
            Owned!Alive(j) /\ row[j] = NoName /\ ~Making(r, j)
    BY <1>1, <1>7
  <1>9. Owned!InstancesInv'
    BY <1>3, <1>4, <1>5, <1>6, <1>8, InstStep
  <1>10. QED
    BY <1>4, <1>9

\* The row of a server that is not alive is deleted, or stays since an app refers to it.
LEMMA RowDeleted ==
    ASSUME Owned!InstancesInv, NEW r \in Callers, NEW q \in Owned!Request, InstBecomes(r, q),
           Knows(q), UNCHANGED <<server, serverName, named, app, faults, lost>>,
           NEW i \in Servers, Owned!DeleteByOpenstackID(i), ~Owned!Alive(i),
           \A j \in Servers : ~Making(r, j)
    PROVE  Owned!InstancesInv' /\ RowsKept
  <1>1. CASE i \in app
    <2>1. UNCHANGED row /\ faults' \in 0 .. MaxFaults
      BY <1>1 DEF Owned!DeleteByOpenstackID, Owned!InstancesInv, Owned!OwnershipInv, Owned!TypeOK
    <2>2. QED
      BY <2>1, InstQuiet
  <1>2. CASE i \notin app
    <2>1. row' = [row EXCEPT ![i] = NoName]
      BY <1>2 DEF Owned!DeleteByOpenstackID
    <2>2. QED
      BY <1>2, <2>1, RowMoves
  <1>3. QED
    BY <1>1, <1>2

\* The calls to the database: SaveInstance, the two deletions of a row and the rename.
LEMMA RowsChange ==
    ASSUME Owned!InstancesAssumption, Owned!InstancesInv, NEW r \in Callers,
           \/ Owned!SaveInstance(r) \/ Owned!DeleteRow(r) \/ Owned!UpdateInstanceMetadata(r)
           \/ \E i \in Servers : Owned!PruneRow(r, i)
    PROVE  Owned!InstancesInv' /\ RowsKept
  <1> DEFINE p == instReq[r]
  <1>1. /\ Owned!TypeOK /\ p \in Owned!Request /\ Knows(p) /\ faults \in 0 .. MaxFaults
        /\ UNCHANGED <<server, serverName, named, app, faults, lost>>
    BY DEF Owned!InstancesInv, Owned!OwnershipInv, Owned!TypeOK, Owned!RequestInv, Knows,
           Owned!SaveInstance, Owned!DeleteRow, Owned!UpdateInstanceMetadata, Owned!PruneRow,
           Owned!os
  <1>2. Owned!Return(r) => InstBecomes(r, Owned!Idle)
    BY <1>1, InstMoves
  <1>3. PICK x \in Owned!Request : x = Owned!Idle
    BY IdleKnows
  <1>4. CASE Owned!SaveInstance(r)
    <2>1. /\ p.pc = "save" /\ p.id \in Servers /\ server[p.id] # "none" /\ p.name \in Names
          /\ p.name \in named[p.id] /\ row' = [row EXCEPT ![p.id] = p.name]
          /\ InstBecomes(r, Owned!Idle)
      BY <1>1, <1>2, <1>4 DEF Owned!SaveInstance, Knows
    <2>2. p.name # NoName
      BY <2>1 DEF Owned!InstancesAssumption
    <2>3. \A j \in Servers : Making(r, j) => j = p.id
      BY DEF Making
    <2>4. QED
      BY <1>1, <1>3, <2>1, <2>2, <2>3, IdleKnows, RowMoves
  <1>5. CASE Owned!DeleteRow(r)
    <2>1. /\ p.pc = "deleteRow" /\ p.id \in Servers /\ server[p.id] \in {"deleting", "gone"}
          /\ Owned!DeleteByOpenstackID(p.id) /\ InstBecomes(r, Owned!Idle)
      BY <1>1, <1>2, <1>5 DEF Owned!DeleteRow, Knows
    <2>2. ~Owned!Alive(p.id) /\ \A j \in Servers : ~Making(r, j)
      BY <2>1 DEF Owned!Alive, Making
    <2>3. QED
      BY <1>1, <1>3, <2>1, <2>2, IdleKnows, RowDeleted
  <1>6. CASE Owned!UpdateInstanceMetadata(r)
    <2> DEFINE q == [Owned!Idle EXCEPT !.pc = "detail"]
    <2>1. q \in Owned!Request /\ Knows(q)
      BY DEF Owned!Idle, Owned!Request, Owned!PC, Knows
    <2>2. /\ p.pc = "meta" /\ p.id \in Servers /\ server[p.id] # "none" /\ p.name \in Names
          /\ p.name \in named[p.id] /\ instReq' = [instReq EXCEPT ![r] = q]
          /\ row' = IF row[p.id] = NoName THEN row
                      ELSE [row EXCEPT ![p.id] = p.name]
      BY <1>1, <1>6 DEF Owned!UpdateInstanceMetadata, Knows
    <2>3. InstBecomes(r, q) /\ p.name # NoName /\ \A j \in Servers : ~Making(r, j)
      BY <1>1, <2>1, <2>2, InstMoves DEF Making, Owned!InstancesAssumption
    <2>4. PICK y \in Owned!Request : y = q
      BY <2>1
    <2>5. CASE row' = [row EXCEPT ![p.id] = p.name]
      BY <1>1, <2>1, <2>2, <2>3, <2>4, <2>5, RowMoves
    <2>6. CASE row' = row
      BY <1>1, <2>1, <2>3, <2>4, <2>6, InstQuiet
    <2>7. QED
      BY <2>2, <2>5, <2>6
  <1>7. ASSUME NEW i \in Servers, Owned!PruneRow(r, i)
        PROVE  Owned!InstancesInv' /\ RowsKept
    <2> DEFINE q == [p EXCEPT !.gone = @ \ {i}]
    <2>1. /\ p.pc = "prune" /\ i \in p.gone /\ server[i] = "gone" /\ Owned!DeleteByOpenstackID(i)
          /\ instReq' = [instReq EXCEPT ![r] = q]
      BY <1>1, <1>7 DEF Owned!PruneRow, Knows, Owned!TypeOK
    <2>2. q \in Owned!Request /\ Knows(q)
      BY <1>1, <2>1 DEF Owned!Request, Knows
    <2>3. InstBecomes(r, q) /\ ~Owned!Alive(i) /\ \A j \in Servers : ~Making(r, j)
      BY <1>1, <2>1, <2>2, InstMoves DEF Making, Owned!Alive
    <2>4. PICK y \in Owned!Request : y = q
      BY <2>2
    <2>5. QED
      BY <1>1, <2>1, <2>2, <2>3, <2>4, RowDeleted
  <1>8. QED
    BY <1>4, <1>5, <1>6, <1>7

\* The ends of requests that leave servers and rows alone.
LEMMA EndsKeep ==
    ASSUME Owned!InstancesAssumption, Owned!InstancesInv, NEW r \in Callers,
           \/ Owned!ListFails(r) \/ Owned!ListReturns(r) \/ Owned!DeleteRowFails(r)
           \/ Owned!UpdateInstanceMetadataFails(r) \/ Owned!GetInstanceDetail(r)
    PROVE  Owned!InstancesInv' /\ RowsKept
  <1>1. /\ instReq[r].pc \notin {"save", "undo"} /\ Owned!Return(r)
        /\ UNCHANGED <<server, serverName, named, row, app, lost>>
        /\ faults' = faults \/ Owned!Fault
    BY DEF Owned!ListFails, Owned!ListReturns, Owned!DeleteRowFails, Owned!os,
           Owned!UpdateInstanceMetadataFails, Owned!GetInstanceDetail
  <1>2. faults' \in 0 .. MaxFaults
    BY <1>1, OneFault DEF Owned!InstancesInv, Owned!OwnershipInv, Owned!TypeOK
  <1>3. QED
    BY <1>1, <1>2, InstReturns

\* What happens without a request: apps come and go, and servers go.
LEMMA OutsideKeeps ==
    ASSUME Owned!InstancesInv,
           \/ \E i \in Servers : \/ Owned!RegisterApp(i) \/ Owned!DeleteApp(i)
                                 \/ Owned!ServerGone(i) \/ Owned!DeletedOutside(i)
           \/ UNCHANGED Owned!vars
    PROVE  Owned!InstancesInv' /\ RowsKept
  <1>1. /\ Owned!TypeOK
        /\ UNCHANGED <<serverName, named, row, instReq, faults, lost>>
    BY DEF Owned!InstancesInv, Owned!OwnershipInv, Owned!RegisterApp, Owned!DeleteApp,
           Owned!ServerGone, Owned!DeletedOutside, Owned!os, Owned!vars
  <1>2. /\ server' \in [Servers -> {"none", "live", "paused", "deleting", "gone"}]
        /\ VmLater /\ \A j \in Servers : Owned!Alive(j)' => Owned!Alive(j)
    BY <1>1 DEF Owned!RegisterApp, Owned!DeleteApp, Owned!ServerGone, Owned!DeletedOutside,
           Owned!DeleteServer, Owned!os, Owned!vars, Owned!TypeOK, Owned!Alive, VmLater
  <1>3. app' \subseteq {j \in Servers : row'[j] # NoName}
    BY <1>1 DEF Owned!RegisterApp, Owned!DeleteApp, Owned!ServerGone, Owned!DeletedOutside,
           Owned!vars, Owned!TypeOK
  <1>4. Owned!TypeOK' /\ RowsKept
    BY <1>1, <1>2, <1>3 DEF Owned!TypeOK, RowsKept
  <1>5. Owned!NameWasAccepted' /\ Owned!RowsInv'
    BY <1>1, <1>2 DEF Owned!InstancesInv, Owned!NameWasAccepted, Owned!RowsInv, VmLater
  <1>6. Owned!NoSilentOrphan'
    BY <1>1, <1>2 DEF Owned!InstancesInv, Owned!OwnershipInv, Owned!NoSilentOrphan
  <1>7. ASSUME NEW t \in Callers PROVE Owned!RequestInv(t)'
    <2>1. PICK y \in Owned!Request : y = instReq[t]
      BY <1>1 DEF Owned!TypeOK
    <2>2. Knows(y)
      BY <2>1 DEF Owned!InstancesInv, Owned!RequestInv, Knows
    <2>3. Knows(y)' /\ instReq'[t] = y
      BY <1>1, <1>2, <2>1, <2>2, KnowsLater
    <2>4. QED
      BY <2>3 DEF Knows, Owned!RequestInv
  <1>8. QED
    BY <1>4, <1>5, <1>6, <1>7 DEF Owned!InstancesInv, Owned!OwnershipInv

\* A crash forgets the requests; the servers they were making are lost.
LEMMA InstCrash ==
    ASSUME Owned!InstancesAssumption, Owned!InstancesInv, Owned!Crash
    PROVE  Owned!InstancesInv' /\ RowsKept
  <1> DEFINE taken == {instReq[t].id : t \in {q \in Callers : instReq[q].pc \in {"save", "undo"}}}
  <1>1. /\ Owned!TypeOK /\ UNCHANGED <<server, serverName, named, row, app>>
        /\ lost' = lost \cup taken /\ instReq' = [t \in Callers |-> Owned!Idle]
        /\ Owned!Fault
    BY DEF Owned!InstancesInv, Owned!OwnershipInv, Owned!Crash, Owned!os
  <1>2. taken \subseteq Servers
    BY DEF Owned!InstancesInv, Owned!RequestInv
  <1>3. faults' \in 0 .. MaxFaults
    BY <1>1, OneFault DEF Owned!TypeOK
  <1>4. Owned!TypeOK' /\ RowsKept
    BY <1>1, <1>2, <1>3, IdleKnows DEF Owned!TypeOK, RowsKept
  <1>5. Owned!NameWasAccepted' /\ Owned!RowsInv'
    BY <1>1 DEF Owned!InstancesInv, Owned!NameWasAccepted, Owned!RowsInv
  <1>6. Owned!NoSilentOrphan'
    <2> SUFFICES ASSUME NEW i \in Servers, Owned!Alive(i)', row'[i] = NoName
                 PROVE  i \in lost'
      BY DEF Owned!NoSilentOrphan
    <2>1. Owned!Alive(i) /\ row[i] = NoName
      BY <1>1 DEF Owned!Alive
    <2>2. i \in lost \/ \E t \in Callers : instReq[t].pc \in {"save", "undo"} /\ instReq[t].id = i
      BY <2>1 DEF Owned!InstancesInv, Owned!OwnershipInv, Owned!NoSilentOrphan
    <2>3. QED
      BY <1>1, <2>2
  <1>7. ASSUME NEW t \in Callers PROVE Owned!RequestInv(t)'
    <2>1. instReq'[t] = Owned!Idle
      BY <1>1
    <2>2. QED
      BY <2>1 DEF Owned!RequestInv, Owned!Idle
  <1>8. QED
    BY <1>4, <1>5, <1>6, <1>7 DEF Owned!InstancesInv, Owned!OwnershipInv

\* Every step keeps the invariant and the rows of live servers.
LEMMA InstNext ==
    ASSUME Owned!InstancesAssumption, Owned!InstancesInv, [Owned!Next]_(Owned!vars)
    PROVE  Owned!InstancesInv' /\ RowsKept
  <1>1. CASE UNCHANGED Owned!vars
    BY <1>1, OutsideKeeps
  <1>2. ASSUME NEW r \in Callers, Owned!Step(r)
        PROVE  Owned!InstancesInv' /\ RowsKept
    BY <1>2, CreatingKeeps, ListingKeeps, RowsChange, CallsKeep, EndsKeep DEF Owned!Step
  <1>3. CASE Owned!Next /\ \A r \in Callers : ~Owned!Step(r)
    BY <1>3, InstStarts, OutsideKeeps, InstCrash DEF Owned!Next
  <1>4. QED
    BY <1>1, <1>2, <1>3

\* It holds before any server is made.
LEMMA InstInit ==
    ASSUME Owned!InstancesAssumption, Owned!Init
    PROVE  Owned!InstancesInv
  <1>1. Owned!TypeOK
    BY IdleKnows DEF Owned!Init, Owned!TypeOK, Owned!InstancesAssumption
  <1>2. Owned!NoSilentOrphan /\ Owned!NameWasAccepted /\ Owned!RowsInv
    BY DEF Owned!Init, Owned!NoSilentOrphan, Owned!NameWasAccepted, Owned!RowsInv, Owned!Alive
  <1>3. ASSUME NEW r \in Callers PROVE Owned!RequestInv(r)
    <2>1. instReq[r] = Owned!Idle
      BY DEF Owned!Init
    <2>2. QED
      BY <2>1 DEF Owned!RequestInv, Owned!Idle
  <1>4. QED
    BY <1>1, <1>2, <1>3 DEF Owned!InstancesInv, Owned!OwnershipInv

\* Servers and rows belong together, whatever fails and whoever crashes: a live server has a
\* row, is in the hands of the request that makes it, or was lost in one of the ways the code
\* logs and cannot repair (compute/service.go:474).  Inductive only with what each request
\* knows when it comes to its next call: that the server it deletes the row of is on its way
\* out, that the one it prunes is gone, that the name it writes was accepted.
THEOREM InstancesSound ==
    ASSUME Owned!InstancesAssumption
    PROVE  Owned!Spec => []InstancesInv
  <1>1. Owned!Init => Owned!InstancesInv
    BY InstInit
  <1>2. Owned!InstancesInv /\ [Owned!Next]_(Owned!vars) => Owned!InstancesInv'
    BY InstNext
  <1>3. QED
    BY <1>1, <1>2, PTL DEF Owned!Spec, InstancesInv

\* No request deletes the row of a live server, however old the lists it works from: only a
\* 404 of that very server lets pruneStaleInstances go on (compute/service.go:268).
THEOREM LiveRowsKept ==
    ASSUME Owned!InstancesAssumption
    PROVE  Owned!Spec => LiveServerKeepsRow
  <1>1. Owned!Init => Owned!InstancesInv
    BY InstInit
  <1>2. Owned!InstancesInv /\ [Owned!Next]_(Owned!vars) => Owned!InstancesInv'
    BY InstNext
  <1>3. Owned!InstancesInv /\ [Owned!Next]_(Owned!vars) =>
            [\A i \in Servers : row[i] # NoName /\ row'[i] = NoName => ~Owned!Alive(i)]_(Owned!vars)
    BY InstNext DEF RowsKept
  <1>4. QED
    BY <1>1, <1>2, <1>3, PTL DEF Owned!Spec, LiveServerKeepsRow, Owned!LiveServerKeepsRow

-----------------------------------------------------------------------------
(* The administrator's views *)

\* What is known of one request: where it is, and that its answer or its listing is fresh.
ViewFresh(q) ==
    /\ q \in {Admin!Idle} \cup Admin!Waiting \cup Admin!Asking \/ q.at = "answered"
    /\ q.at = "answered" =>
          \A s \in DOMAIN q.shown :
              /\ s \in Servers
              /\ IF q.shown[s][1] = "live" THEN Admin!WasTrue(s, q.shown[s][2])
                 ELSE q.failed \/ Admin!WasTrue(s, Gone)
    /\ q.at = "list" => \A s \in Servers : Admin!Within(s, q.list[s], q.age)
    /\ q.at = "one" => \A s \in q.items : Admin!Within(s, q.list[s], q.age)

CacheFresh ==
    /\ cache \in [list : Admin!Listing, left : 0..TTL]
    /\ cache.left > 0 =>
          \A s \in Servers : Admin!Within(s, cache.list[s], TTL + MaxDelay - cache.left)

ViewWorld ==
    /\ live \in Admin!Listing
    /\ past \subseteq
          [server : Servers, status : Statuses \cup {Gone}, age : 0..Admin!Stale]
    /\ rows \subseteq Servers /\ unborn \subseteq Servers

ViewParts ==
    /\ ViewWorld /\ CacheFresh
    /\ mu \in Callers \cup {Nobody}
    /\ viewReq = [r \in Callers |-> viewReq[r]]
    /\ \A r \in Callers : ViewFresh(viewReq[r])

CheckParts ==
    /\ health \in [Services -> {"up", "down"}]
    /\ check = Admin!Resting \/ check \in Admin!Checking
    /\ Admin!ChecksSound
    /\ check # Admin!Resting => check.elapsed <= Timeout \/ check.renewed # {}

\* The ticks the bounds are made of.
LEMMA StaleFacts ==
    ASSUME Admin!AdminViewsAssumption
    PROVE  /\ TTL \in Nat /\ TTL >= 1 /\ MaxDelay \in Nat
           /\ Admin!Stale \in Nat /\ Admin!Stale = TTL + MaxDelay - 1
           /\ MaxDelay <= Admin!Stale
  BY DEF Admin!AdminViewsAssumption, Admin!Stale

\* The properties follow.
LEMMA AdminPartsSuffice ==
    ASSUME Admin!AdminViewsAssumption, ViewParts, CheckParts
    PROVE  Admin!AdminInv
  <1>1. Admin!TypeOK
    BY DEF ViewParts, ViewWorld, CacheFresh, ViewFresh, CheckParts, Admin!TypeOK
  <1>2. Admin!StatusesFresh
    BY DEF ViewParts, ViewFresh, Admin!StatusesFresh
  <1>3. Admin!SystemPagePrompt
    <2>1. check.elapsed <= Timeout \/ check.renewed # {}
      BY DEF CheckParts, Admin!Resting, Admin!AdminViewsAssumption
    <2>2. ASSUME check.at = "answered", NEW v \in Services
          PROVE  CASE check.run[v] = "healthy" -> "up" \in check.seen[v]
                   [] check.run[v] = "unhealthy" ->
                         \/ "down" \in check.seen[v] \/ check.age[v] = Timeout
                         \/ v \in check.renewed
                   [] check.run[v] = "unconfigured" -> v \notin Configured
      <3>1. check \in Admin!Checking /\ check # Admin!Resting
        BY <2>2 DEF CheckParts, Admin!Resting
      <3>2. check.run[v] \in {"healthy", "unhealthy", "unconfigured"}
        BY <2>2, <3>1 DEF CheckParts, Admin!ChecksSound, Admin!Checking, Admin!Unfinished
      <3>3. QED
        BY <3>1, <3>2 DEF CheckParts, Admin!ChecksSound
    <2>3. QED
      BY <2>1, <2>2 DEF Admin!SystemPagePrompt
  <1>4. QED
    BY <1>1, <1>2, <1>3 DEF Admin!AdminInv, CheckParts

\* What was so a while ago was so a longer while ago.
LEMMA WithinLonger ==
    ASSUME ViewWorld, Admin!Stale \in Nat, NEW k \in Int, NEW l \in Int, k <= l,
           NEW s, NEW v, Admin!Within(s, v, k)
    PROVE  Admin!Within(s, v, l)
  BY DEF ViewWorld, Admin!Within

\* A change of a server's status only adds to what was so.
LEMMA WithinBecomes ==
    ASSUME ViewWorld, NEW s0 \in Servers, NEW v0, Admin!Becomes(s0, v0),
           NEW k \in Int, k >= 0, NEW s \in Servers, NEW v, Admin!Within(s, v, k)
    PROVE  Admin!Within(s, v, k)'
  <1>1. /\ past' = {p \in past : p.server # s0 \/ p.status # live[s0]}
                   \cup {[server |-> s0, status |-> live[s0], age |-> 0]}
        /\ live' = [live EXCEPT ![s0] = v0]
        /\ live \in [Servers -> Statuses \cup {Gone}]
    BY DEF Admin!Becomes, ViewWorld, Admin!Listing
  <1>2. CASE s = s0 /\ v = live[s0]
    <2>1. PICK p : p = [server |-> s0, status |-> live[s0], age |-> 0]
      OBVIOUS
    <2>2. p \in past' /\ p.server = s /\ p.status = v /\ p.age <= k
      BY <1>1, <1>2, <2>1
    <2>3. QED
      BY <2>2 DEF Admin!Within
  <1>3. CASE ~(s = s0 /\ v = live[s0])
    <2>1. CASE live[s] = v
      BY <1>1, <1>3, <2>1 DEF Admin!Within
    <2>2. ASSUME NEW p \in past, p.server = s /\ p.status = v /\ p.age <= k
          PROVE  Admin!Within(s, v, k)'
      BY <1>1, <1>3, <2>2 DEF Admin!Within
    <2>3. QED
      BY <2>1, <2>2 DEF Admin!Within
  <1>4. QED
    BY <1>2, <1>3

\* A tick later it is one tick longer ago.
LEMMA WithinTick ==
    ASSUME ViewWorld, Admin!Stale \in Nat, Admin!Tick,
           NEW k \in Int, k < Admin!Stale, NEW s \in Servers, NEW v, Admin!Within(s, v, k)
    PROVE  Admin!Within(s, v, k + 1)'
  <1>1. /\ past' = {[p EXCEPT !.age = @ + 1] : p \in {q \in past : q.age < Admin!Stale}}
        /\ live' = live
    BY DEF Admin!Tick
  <1>2. CASE live[s] = v
    BY <1>1, <1>2 DEF Admin!Within
  <1>3. ASSUME NEW p \in past, p.server = s /\ p.status = v /\ p.age <= k
        PROVE  Admin!Within(s, v, k + 1)'
    <2>1. p \in [server : Servers, status : Statuses \cup {Gone}, age : 0..Admin!Stale]
      BY DEF ViewWorld
    <2>2. p.age \in Int /\ p.age < Admin!Stale
      BY <1>3, <2>1
    <2>3. PICK q : q = [p EXCEPT !.age = @ + 1]
      OBVIOUS
    <2>4. q \in past' /\ q.server = s /\ q.status = v /\ q.age <= k + 1
      BY <1>1, <1>3, <2>1, <2>2, <2>3
    <2>5. QED
      BY <2>4 DEF Admin!Within
  <1>4. QED
    BY <1>2, <1>3 DEF Admin!Within

\* One request moves, and servers and rows stay as they are.
LEMMA ViewMoves ==
    ASSUME ViewParts, NEW r \in Callers, NEW x, ViewFresh(x),
           viewReq' = [viewReq EXCEPT ![r] = x],
           UNCHANGED <<live, past, rows, unborn>>,
           mu' \in Callers \cup {Nobody}, CacheFresh'
    PROVE  ViewParts'
  <1>1. /\ viewReq' = [q \in Callers |-> viewReq'[q]]
        /\ \A q \in Callers : viewReq'[q] = IF q = r THEN x ELSE viewReq[q]
    BY DEF ViewParts
  <1>2. ASSUME NEW y PROVE ViewFresh(y) => ViewFresh(y)'
    BY DEF ViewFresh, Admin!WasTrue, Admin!Within
  <1>3. ASSUME NEW q \in Callers PROVE ViewFresh(viewReq[q])'
    <2>1. PICK y : y = IF q = r THEN x ELSE viewReq[q]
      OBVIOUS
    <2>2. ViewFresh(y)
      BY <2>1 DEF ViewParts
    <2>3. viewReq'[q] = y
      BY <1>1, <2>1
    <2>4. ViewFresh(y)'
      BY <1>2, <2>2
    <2>5. QED
      BY <2>3, <2>4 DEF ViewFresh
  <1>4. QED
    BY <1>1, <1>3 DEF ViewParts, ViewWorld

\* The cache stays as it is.
LEMMA CacheStays ==
    ASSUME CacheFresh, UNCHANGED <<live, past, cache>>
    PROVE  CacheFresh'
  BY DEF CacheFresh, Admin!Within

\* An answer: what it calls live, and what it does not find, is as old as it may be.
LEMMA ShownFresh ==
    ASSUME NEW items, NEW list, NEW failed \in BOOLEAN,
           failed => list = Admin!Unavailable, items \subseteq Servers,
           ~failed => \A s \in items : Admin!WasTrue(s, list[s])
    PROVE  ViewFresh(Admin!Shown(items, list, failed))
  <1>1. PICK x : x = Admin!Shown(items, list, failed)
    OBVIOUS
  <1>2. /\ x.at = "answered" /\ x.failed = failed
        /\ x.shown = [s \in items |-> IF list[s] # Gone THEN <<"live", list[s]>>
                                      ELSE <<"recorded", Gone>>]
    BY <1>1 DEF Admin!Shown, Admin!overlayLiveStatuses
  <1>3. ASSUME NEW s \in DOMAIN x.shown
        PROVE  /\ s \in Servers
               /\ IF x.shown[s][1] = "live" THEN Admin!WasTrue(s, x.shown[s][2])
                  ELSE x.failed \/ Admin!WasTrue(s, Gone)
    <2>1. s \in items /\ s \in Servers
      BY <1>2, <1>3
    <2>2. CASE list[s] # Gone
      <3>1. x.shown[s] = <<"live", list[s]>> /\ ~failed
        BY <1>2, <2>1, <2>2 DEF Admin!Unavailable
      <3>2. Admin!WasTrue(s, list[s])
        BY <2>1, <3>1
      <3>3. QED
        BY <2>1, <3>1, <3>2
    <2>3. CASE list[s] = Gone
      <3>1. x.shown[s] = <<"recorded", Gone>>
        BY <1>2, <2>1, <2>3
      <3>2. failed \/ Admin!WasTrue(s, Gone)
        BY <2>1, <2>3
      <3>3. QED
        BY <1>2, <2>1, <3>1, <3>2
    <2>4. QED
      BY <2>2, <2>3
  <1>4. ViewFresh(x)
    BY <1>2, <1>3 DEF ViewFresh
  <1>5. QED
    BY <1>1, <1>4

\* A request that begins: it will ask for the cached listing, or has asked for one server.
LEMMA ViewBegins ==
    ASSUME Admin!AdminViewsAssumption, ViewParts, NEW r \in Callers,
           \/ Admin!Summary(r)
           \/ \E items \in SUBSET rows : Admin!Instances(r, items) \/ Admin!UserResources(r, items)
           \/ \E s \in Servers : Admin!Instance(r, s)
           \/ Admin!Returns(r)
    PROVE  ViewParts'
  <1>1. CacheFresh' /\ mu' \in Callers \cup {Nobody} /\ UNCHANGED <<live, past, rows, unborn>>
    <2>1. UNCHANGED <<live, past, rows, unborn, cache, mu>>
      BY DEF Admin!Summary, Admin!Instances, Admin!UserResources, Admin!Instance, Admin!Returns
    <2>2. QED
      BY <2>1, CacheStays DEF ViewParts
  <1>2. ASSUME NEW items \in SUBSET Servers
        PROVE  ViewFresh([at |-> "wait", items |-> items])
    BY DEF ViewFresh, Admin!Waiting
  <1>3. rows \subseteq Servers
    BY DEF ViewParts, ViewWorld
  <1>4. CASE Admin!Summary(r)
    <2>1. viewReq' = [viewReq EXCEPT ![r] = [at |-> "wait", items |-> rows]]
      BY <1>4 DEF Admin!Summary
    <2>2. QED
      BY <1>1, <1>2, <1>3, <2>1, ViewMoves
  <1>5. ASSUME NEW items \in SUBSET rows, Admin!Instances(r, items)
        PROVE  ViewParts'
    <2>1. CASE items = {}
      <3>1. viewReq' = [viewReq EXCEPT ![r] = Admin!Shown({}, Admin!Unavailable, FALSE)]
        BY <1>5, <2>1 DEF Admin!Instances
      <3>2. ViewFresh(Admin!Shown({}, Admin!Unavailable, FALSE))
        BY ShownFresh
      <3>3. QED
        BY <1>1, <3>1, <3>2, ViewMoves
    <2>2. CASE items # {}
      <3>1. viewReq' = [viewReq EXCEPT ![r] = [at |-> "wait", items |-> items]]
        BY <1>5, <2>2 DEF Admin!Instances
      <3>2. QED
        BY <1>1, <1>2, <1>3, <3>1, ViewMoves
    <2>3. QED
      BY <2>1, <2>2
  <1>6. ASSUME NEW s \in Servers, Admin!Instance(r, s)
        PROVE  ViewParts'
    <2>1. live \in [Servers -> Statuses \cup {Gone}]
      BY DEF ViewParts, ViewWorld, Admin!Listing
    <2>2. PICK x : x = [at |-> "one", items |-> {s},
                        list |-> [Admin!Unavailable EXCEPT ![s] = live[s]], age |-> 0]
      OBVIOUS
    <2>3. x.list \in Admin!Listing /\ x.list[s] = live[s]
      BY <2>1, <2>2 DEF Admin!Unavailable, Admin!Listing
    <2>4. x \in Admin!Asking
      BY <2>2, <2>3, StaleFacts DEF Admin!Asking
    <2>5. \A t \in x.items : Admin!Within(t, x.list[t], x.age)
      BY <2>2, <2>3 DEF Admin!Within
    <2>6. ViewFresh(x)
      BY <2>2, <2>4, <2>5 DEF ViewFresh
    <2>7. viewReq' = [viewReq EXCEPT ![r] = x]
      BY <1>6, <2>2 DEF Admin!Instance
    <2>8. QED
      BY <1>1, <2>6, <2>7, ViewMoves
  <1>7. CASE Admin!Returns(r)
    <2>1. viewReq' = [viewReq EXCEPT ![r] = Admin!Idle] /\ ViewFresh(Admin!Idle)
      BY <1>7 DEF Admin!Returns, ViewFresh, Admin!Idle
    <2>2. QED
      BY <1>1, <2>1, ViewMoves
  <1>8. QED
    BY <1>4, <1>5, <1>6, <1>7 DEF Admin!UserResources

\* A request with the mutex, or one that has asked for one server, goes on.
LEMMA ViewGoesOn ==
    ASSUME Admin!AdminViewsAssumption, ViewParts, NEW r \in Callers,
           \/ Admin!InstanceStatus(r) \/ Admin!InstanceStatusFails(r) \/ Admin!CacheHit(r)
           \/ Admin!FetchInstances(r) \/ Admin!StoreStatuses(r) \/ Admin!FetchFails(r)
    PROVE  ViewParts'
  <1>1. PICK q : q = viewReq[r]
    OBVIOUS
  <1>2. /\ ViewFresh(q) /\ q.at \in {"one", "wait", "list"}
        /\ UNCHANGED <<live, past, rows, unborn>> /\ mu' \in Callers \cup {Nobody}
    BY <1>1 DEF ViewParts, Admin!InstanceStatus, Admin!InstanceStatusFails, Admin!CacheHit,
           Admin!FetchInstances, Admin!StoreStatuses, Admin!FetchFails
  <1>3. /\ q.items \in SUBSET Servers
        /\ q.at \in {"one", "list"} =>
              q.list \in Admin!Listing /\ q.age \in Nat /\ q.age <= MaxDelay
    BY <1>2, StaleFacts DEF ViewFresh, Admin!Idle, Admin!Waiting, Admin!Asking
  <1>4. ASSUME NEW s \in Servers, NEW v, NEW k \in Int, k <= Admin!Stale, Admin!Within(s, v, k)
        PROVE  Admin!WasTrue(s, v)
    BY <1>4, StaleFacts, WithinLonger DEF ViewParts, Admin!WasTrue
  <1>5. CASE Admin!InstanceStatus(r)
    <2>1. /\ q.at = "one" /\ UNCHANGED cache
          /\ viewReq' = [viewReq EXCEPT ![r] = Admin!Shown(q.items, q.list, FALSE)]
      BY <1>1, <1>5 DEF Admin!InstanceStatus, ViewParts
    <2>2. \A s \in q.items : Admin!WasTrue(s, q.list[s])
      BY <1>2, <1>3, <1>4, <2>1, StaleFacts DEF ViewFresh
    <2>3. ViewFresh(Admin!Shown(q.items, q.list, FALSE))
      BY <1>3, <2>2, ShownFresh
    <2>4. CacheFresh'
      BY <1>2, <2>1, CacheStays DEF ViewParts
    <2>5. QED
      BY <1>2, <2>1, <2>3, <2>4, ViewMoves
  <1>6. CASE Admin!InstanceStatusFails(r) \/ Admin!FetchFails(r)
    <2>1. /\ viewReq' = [viewReq EXCEPT ![r] = Admin!Shown(q.items, Admin!Unavailable, TRUE)]
          /\ UNCHANGED cache
      BY <1>1, <1>6 DEF Admin!InstanceStatusFails, Admin!FetchFails, ViewParts
    <2>2. ViewFresh(Admin!Shown(q.items, Admin!Unavailable, TRUE))
      BY <1>3, ShownFresh
    <2>3. CacheFresh'
      BY <1>2, <2>1, CacheStays DEF ViewParts
    <2>4. QED
      BY <1>2, <2>1, <2>2, <2>3, ViewMoves
  <1>7. CASE Admin!CacheHit(r)
    <2>1. /\ cache.left > 0 /\ UNCHANGED cache
          /\ viewReq' = [viewReq EXCEPT ![r] = Admin!Shown(q.items, cache.list, FALSE)]
      BY <1>1, <1>7 DEF Admin!CacheHit, ViewParts
    <2>2. PICK k \in Int : k = TTL + MaxDelay - cache.left
      BY StaleFacts DEF ViewParts, CacheFresh
    <2>3. k <= Admin!Stale
      BY <2>1, <2>2, StaleFacts DEF ViewParts, CacheFresh
    <2>4. \A s \in Servers : Admin!Within(s, cache.list[s], k)
      BY <2>1, <2>2 DEF ViewParts, CacheFresh
    <2>5. \A s \in q.items : Admin!WasTrue(s, cache.list[s])
      BY <1>3, <1>4, <2>3, <2>4
    <2>6. PICK list : list = cache.list
      OBVIOUS
    <2>7. ViewFresh(Admin!Shown(q.items, list, FALSE))
      BY <1>3, <2>5, <2>6, ShownFresh
    <2>8. CacheFresh'
      BY <1>2, <2>1, CacheStays DEF ViewParts
    <2>9. QED
      BY <1>2, <2>1, <2>6, <2>7, <2>8, ViewMoves
  <1>8. CASE Admin!FetchInstances(r)
    <2>1. PICK list : list = live
      OBVIOUS
    <2>2. PICK x : x = [at |-> "list", items |-> q.items, list |-> list, age |-> 0]
      OBVIOUS
    <2>3. viewReq' = [viewReq EXCEPT ![r] = x] /\ UNCHANGED cache
      BY <1>1, <1>8, <2>1, <2>2 DEF Admin!FetchInstances, ViewParts
    <2>4. list \in Admin!Listing /\ \A s \in Servers : Admin!Within(s, list[s], 0)
      BY <2>1 DEF ViewParts, ViewWorld, Admin!Within
    <2>5. x \in Admin!Asking
      BY <1>3, <2>2, <2>4, StaleFacts DEF Admin!Asking
    <2>6. ViewFresh(x)
      BY <2>2, <2>4, <2>5 DEF ViewFresh
    <2>7. CacheFresh'
      BY <1>2, <2>3, CacheStays DEF ViewParts
    <2>8. QED
      BY <1>2, <2>3, <2>6, <2>7, ViewMoves
  <1>9. CASE Admin!StoreStatuses(r)
    <2>1. /\ q.at = "list" /\ cache' = [list |-> q.list, left |-> TTL]
          /\ viewReq' = [viewReq EXCEPT ![r] = Admin!Shown(q.items, q.list, FALSE)]
      BY <1>1, <1>9 DEF Admin!StoreStatuses, ViewParts
    <2>2. \A s \in Servers : Admin!Within(s, q.list[s], q.age)
      BY <1>2, <2>1 DEF ViewFresh
    <2>3. \A s \in q.items : Admin!WasTrue(s, q.list[s])
      BY <1>3, <1>4, <2>1, <2>2, StaleFacts
    <2>4. ViewFresh(Admin!Shown(q.items, q.list, FALSE))
      BY <1>3, <2>3, ShownFresh
    <2>5. CacheFresh'
      <3>1. \A s \in Servers : Admin!Within(s, q.list[s], MaxDelay)
        BY <1>3, <2>1, <2>2, StaleFacts, WithinLonger DEF ViewParts
      <3>2. \A s \in Servers : Admin!Within(s, q.list[s], MaxDelay)'
        BY <1>2, <3>1 DEF Admin!Within
      <3>3. cache'.list = q.list /\ cache'.left = TTL
            /\ TTL + MaxDelay - TTL = MaxDelay
        BY <2>1, StaleFacts
      <3>4. cache' \in [list : Admin!Listing, left : 0..TTL]
        BY <1>3, <2>1, StaleFacts
      <3>5. \A s \in Servers :
               Admin!Within(s, cache.list[s], TTL + MaxDelay - cache.left)'
        BY <3>2, <3>3 DEF Admin!Within
      <3>6. QED
        BY <3>4, <3>5 DEF CacheFresh
    <2>6. QED
      BY <1>2, <2>1, <2>4, <2>5, ViewMoves
  <1>10. QED
    BY <1>5, <1>6, <1>7, <1>8, <1>9

\* Servers and rows come, change and go.
LEMMA ServersChange ==
    ASSUME Admin!AdminViewsAssumption, ViewParts, NEW s0 \in Servers,
           \/ \E v \in Statuses : Admin!StatusChanges(s0, v) \/ Admin!ServerCreated(s0, v)
           \/ Admin!ServerDeleted(s0) \/ Admin!RowDeleted(s0)
    PROVE  ViewParts'
  <1>1. /\ UNCHANGED <<cache, mu, viewReq>>
        /\ rows' \subseteq rows \cup {s0} /\ unborn' \subseteq unborn
        /\ \/ UNCHANGED <<live, past>>
           \/ \E v \in Statuses \cup {Gone} : Admin!Becomes(s0, v)
    BY DEF Admin!StatusChanges, Admin!ServerCreated, Admin!ServerDeleted, Admin!RowDeleted
  <1>2. ASSUME NEW k \in Int, k >= 0, NEW s \in Servers, NEW v, Admin!Within(s, v, k)
        PROVE  Admin!Within(s, v, k)'
    <2>1. CASE UNCHANGED <<live, past>>
      BY <1>2, <2>1 DEF Admin!Within
    <2>2. ASSUME NEW w \in Statuses \cup {Gone}, Admin!Becomes(s0, w)
          PROVE  Admin!Within(s, v, k)'
      BY <1>2, <2>2, WithinBecomes DEF ViewParts
    <2>3. QED
      BY <1>1, <2>1, <2>2
  <1>3. ViewWorld'
    <2>1. CASE UNCHANGED <<live, past>>
      BY <1>1, <2>1 DEF ViewParts, ViewWorld
    <2>2. ASSUME NEW w \in Statuses \cup {Gone}, Admin!Becomes(s0, w)
          PROVE  ViewWorld'
      <3>1. live \in [Servers -> Statuses \cup {Gone}] /\ 0 \in 0..Admin!Stale
        BY StaleFacts DEF ViewParts, ViewWorld, Admin!Listing
      <3>2. [server |-> s0, status |-> live[s0], age |-> 0]
              \in [server : Servers, status : Statuses \cup {Gone}, age : 0..Admin!Stale]
        BY <3>1
      <3>3. live' \in Admin!Listing
        BY <2>2, <3>1 DEF Admin!Becomes, Admin!Listing
      <3>4. past' \subseteq [server : Servers, status : Statuses \cup {Gone}, age : 0..Admin!Stale]
        BY <2>2, <3>2 DEF Admin!Becomes, ViewParts, ViewWorld
      <3>5. QED
        BY <1>1, <3>3, <3>4 DEF ViewParts, ViewWorld
    <2>3. QED
      BY <1>1, <2>1, <2>2
  <1>4. CacheFresh'
    <2>1. CASE cache.left > 0
      <3>1. PICK k \in Int : k = TTL + MaxDelay - cache.left /\ k >= 0
        BY StaleFacts DEF ViewParts, CacheFresh
      <3>2. \A s \in Servers : Admin!Within(s, cache.list[s], k)
        BY <2>1, <3>1 DEF ViewParts, CacheFresh
      <3>3. PICK list : list = cache.list
        OBVIOUS
      <3>4. \A s \in Servers : Admin!Within(s, list[s], k)'
        BY <1>2, <3>1, <3>2, <3>3
      <3>5. QED
        BY <1>1, <3>1, <3>3, <3>4 DEF ViewParts, CacheFresh, Admin!Within
    <2>2. CASE ~(cache.left > 0)
      BY <1>1, <2>2 DEF ViewParts, CacheFresh
    <2>3. QED
      BY <2>1, <2>2
  <1>5. ASSUME NEW q, ViewFresh(q)
        PROVE  ViewFresh(q)'
    <2>1. /\ q \in {Admin!Idle} \cup Admin!Waiting \cup Admin!Asking \/ q.at = "answered"
      BY <1>5 DEF ViewFresh
    <2>2. ASSUME q.at = "answered", NEW s \in DOMAIN q.shown
          PROVE  /\ s \in Servers
                 /\ IF q.shown[s][1] = "live" THEN Admin!WasTrue(s, q.shown[s][2])'
                    ELSE q.failed \/ Admin!WasTrue(s, Gone)'
      BY <1>2, <1>5, <2>2, StaleFacts DEF ViewFresh, Admin!WasTrue
    <2>3. ASSUME q.at \in {"list", "one"}
          PROVE  q.age \in Int /\ q.age >= 0 /\ q.items \subseteq Servers
      BY <2>1, <2>3, StaleFacts DEF Admin!Idle, Admin!Waiting, Admin!Asking
    <2>4. ASSUME q.at = "list", NEW s \in Servers
          PROVE  Admin!Within(s, q.list[s], q.age)'
      BY <1>2, <1>5, <2>3, <2>4 DEF ViewFresh
    <2>5. ASSUME q.at = "one", NEW s \in q.items
          PROVE  Admin!Within(s, q.list[s], q.age)'
      BY <1>2, <1>5, <2>3, <2>5 DEF ViewFresh
    <2>6. QED
      BY <2>1, <2>2, <2>4, <2>5 DEF ViewFresh, Admin!Listing, Admin!Asking, Admin!Idle,
             Admin!Waiting
  <1>6. ASSUME NEW r \in Callers PROVE ViewFresh(viewReq[r])'
    <2>1. PICK q : q = viewReq[r]
      OBVIOUS
    <2>2. viewReq'[r] = q /\ ViewFresh(q)
      BY <1>1, <2>1 DEF ViewParts
    <2>3. ViewFresh(q)'
      BY <1>5, <2>2
    <2>4. QED
      BY <2>2, <2>3 DEF ViewFresh
  <1>7. QED
    BY <1>1, <1>3, <1>4, <1>6 DEF ViewParts

\* Time passes: calls and the cache get older, and nothing is shown meanwhile.
LEMMA ViewsTick ==
    ASSUME Admin!AdminViewsAssumption, ViewParts, Admin!Tick
    PROVE  ViewParts'
  <1>1. /\ \A r \in Callers : /\ viewReq[r].at # "answered"
                              /\ viewReq[r].at \in {"list", "one"} => viewReq[r].age < MaxDelay
        /\ past' = {[p EXCEPT !.age = @ + 1] : p \in {q \in past : q.age < Admin!Stale}}
        /\ cache' = IF cache.left > 1 THEN [cache EXCEPT !.left = @ - 1] ELSE Admin!Expired
        /\ viewReq' = [r \in Callers |->
              IF viewReq[r].at \in {"list", "one"} THEN [viewReq[r] EXCEPT !.age = @ + 1]
              ELSE viewReq[r]]
        /\ UNCHANGED <<live, rows, unborn, mu>>
    BY DEF Admin!Tick
  <1>2. ViewWorld /\ Admin!Stale \in Nat
    BY StaleFacts DEF ViewParts
  <1>3. ViewWorld'
    <2>1. ASSUME NEW x \in past'
          PROVE  x \in [server : Servers, status : Statuses \cup {Gone}, age : 0..Admin!Stale]
      <3>1. PICK p \in past : p.age < Admin!Stale /\ x = [p EXCEPT !.age = @ + 1]
        BY <1>1
      <3>2. p \in [server : Servers, status : Statuses \cup {Gone}, age : 0..Admin!Stale]
        BY <1>2 DEF ViewWorld
      <3>3. QED
        BY <1>2, <3>1, <3>2
    <2>2. QED
      BY <1>1, <1>2, <2>1 DEF ViewWorld
  <1>4. CacheFresh'
    <2>1. CASE cache.left > 1
      <3>1. PICK left, list : left = cache.left /\ list = cache.list
        OBVIOUS
      <3>2. PICK k \in Int : k = TTL + MaxDelay - left
        BY <3>1, StaleFacts DEF ViewParts, CacheFresh
      <3>3. left \in Int /\ left > 1 /\ left <= TTL /\ list \in Admin!Listing
        BY <2>1, <3>1, StaleFacts DEF ViewParts, CacheFresh
      <3>4. k < Admin!Stale /\ k + 1 = TTL + MaxDelay - (left - 1)
        BY <3>2, <3>3, StaleFacts
      <3>5. \A s \in Servers : Admin!Within(s, list[s], k)
        BY <3>1, <3>2, <3>3 DEF ViewParts, CacheFresh
      <3>6. \A s \in Servers : Admin!Within(s, list[s], k + 1)'
        BY <1>2, <3>4, <3>5, WithinTick
      <3>7. cache' = [list |-> list, left |-> left - 1]
        BY <1>1, <2>1, <3>1 DEF ViewParts, CacheFresh
      <3>8. /\ cache'.list = list /\ cache'.left = left - 1
            /\ cache' \in [list : Admin!Listing, left : 0..TTL]
        BY <3>3, <3>7, StaleFacts
      <3>9. QED
        BY <3>4, <3>6, <3>8 DEF CacheFresh, Admin!Within
    <2>2. CASE ~(cache.left > 1)
      <3>1. cache' = [list |-> [s \in Servers |-> Gone], left |-> 0]
        BY <1>1, <2>2 DEF Admin!Expired, Admin!Unavailable
      <3>2. QED
        BY <3>1, StaleFacts DEF CacheFresh, Admin!Listing
    <2>3. QED
      BY <2>1, <2>2
  <1>5. ASSUME NEW r \in Callers PROVE ViewFresh(viewReq[r])'
    <2>1. PICK q : q = viewReq[r]
      OBVIOUS
    <2>2. ViewFresh(q) /\ q.at # "answered"
      BY <1>1, <2>1 DEF ViewParts
    <2>3. CASE q.at \in {"list", "one"}
      <3>1. q \in Admin!Asking /\ q.age \in Nat /\ q.age < MaxDelay
        BY <1>1, <2>1, <2>2, <2>3, StaleFacts DEF ViewFresh, Admin!Idle, Admin!Waiting,
               Admin!Asking
      <3>2. PICK x : x = [q EXCEPT !.age = @ + 1]
        OBVIOUS
      <3>3. /\ x \in Admin!Asking /\ x.at = q.at /\ x.items = q.items /\ x.list = q.list
            /\ x.age = q.age + 1 /\ viewReq'[r] = x
        BY <1>1, <2>1, <2>3, <3>1, <3>2, StaleFacts DEF Admin!Asking
      <3>4. q.age \in Int /\ q.age < Admin!Stale /\ q.items \subseteq Servers
        BY <3>1, StaleFacts DEF Admin!Asking
      <3>5. ASSUME NEW s \in Servers, Admin!Within(s, q.list[s], q.age)
            PROVE  Admin!Within(s, x.list[s], x.age)'
        <4>1. Admin!Within(s, q.list[s], q.age + 1)'
          BY <1>2, <3>4, <3>5, WithinTick
        <4>2. QED
          BY <3>3, <4>1 DEF Admin!Within
      <3>6. /\ x.at = "list" => \A s \in Servers : Admin!Within(s, x.list[s], x.age)'
            /\ x.at = "one" => \A s \in x.items : Admin!Within(s, x.list[s], x.age)'
        BY <2>2, <3>3, <3>4, <3>5 DEF ViewFresh
      <3>7. ViewFresh(x)'
        BY <2>2, <3>3, <3>6 DEF ViewFresh
      <3>8. QED
        BY <3>3, <3>7 DEF ViewFresh
    <2>4. CASE q.at \notin {"list", "one"}
      <3>1. viewReq'[r] = q
        BY <1>1, <2>1, <2>4
      <3>2. q \in {Admin!Idle} \cup Admin!Waiting \cup Admin!Asking
        BY <2>2 DEF ViewFresh
      <3>3. QED
        BY <2>2, <2>4, <3>1, <3>2 DEF ViewFresh, Admin!Idle, Admin!Waiting, Admin!Asking,
               Admin!Listing
    <2>5. QED
      BY <2>3, <2>4
  <1>6. viewReq' = [r \in Callers |-> viewReq'[r]]
    BY <1>1
  <1>7. QED
    BY <1>1, <1>3, <1>4, <1>5, <1>6 DEF ViewParts

\* Views and servers.
LEMMA ViewsStep ==
    ASSUME Admin!AdminViewsAssumption, ViewParts, Admin!Views
    PROVE  ViewParts'
  <1>1. ASSUME NEW r \in Callers,
               \/ Admin!Step(r) \/ Admin!Summary(r)
               \/ \E items \in SUBSET rows :
                     Admin!Instances(r, items) \/ Admin!UserResources(r, items)
               \/ \E s \in Servers : Admin!Instance(r, s)
        PROVE  ViewParts'
    BY <1>1, ViewBegins, ViewGoesOn DEF Admin!Step
  <1>2. ASSUME NEW s \in Servers,
               \/ \E v \in Statuses : Admin!StatusChanges(s, v) \/ Admin!ServerCreated(s, v)
               \/ Admin!ServerDeleted(s) \/ Admin!RowDeleted(s)
        PROVE  ViewParts'
    BY <1>2, ServersChange
  <1>3. QED
    BY <1>1, <1>2, ViewsTick DEF Admin!Views

\* Where the checks have got to decides whether the page still waits.
LEMMA ChecksRun ==
    ASSUME check \in Admin!Checking,
           NEW run \in [Services -> Admin!Unfinished \cup {"healthy", "unhealthy", "unconfigured"}],
           Admin!CheckRuns(run)
    PROVE  /\ check' \in Admin!Checking /\ check'.run = run
           /\ check'.elapsed = check.elapsed /\ check'.renewed = check.renewed
           /\ check'.age = check.age /\ check'.seen = check.seen
           /\ check'.at = "checking" <=> \E w \in Services : run[w] \in Admin!Unfinished
  <1>1. PICK at : at = IF \E w \in Services : run[w] \in Admin!Unfinished
                       THEN "checking" ELSE "answered"
    OBVIOUS
  <1>2. check' = [check EXCEPT !.run = run, !.at = at]
    BY <1>1, Zenon DEF Admin!CheckRuns
  <1>3. QED
    BY <1>1, <1>2 DEF Admin!Checking

\* The checks that have ended keep what they found, and those that end have a reason to.
LEMMA ChecksRunKeeps ==
    ASSUME Admin!AdminViewsAssumption, CheckParts, check.at = "checking", health' = health,
           NEW run \in [Services -> Admin!Unfinished \cup {"healthy", "unhealthy", "unconfigured"}],
           Admin!CheckRuns(run),
           \A w \in Services :
              \/ run[w] = check.run[w]
              \/ run[w] = "running" /\ check.renewed # {}
              \/ run[w] = "healthy" /\ "up" \in check.seen[w]
              \/ /\ run[w] = "unhealthy"
                 /\ \/ "down" \in check.seen[w] \/ check.age[w] = Timeout
                    \/ w \in check.renewed
              \/ run[w] = "unconfigured" /\ w \notin Configured
    PROVE  CheckParts'
  <1>1. /\ check # Admin!Resting /\ check \in Admin!Checking /\ Admin!ChecksSound
    BY DEF CheckParts, Admin!Resting
  <1>2. /\ check' \in Admin!Checking /\ check'.run = run
        /\ check'.elapsed = check.elapsed /\ check'.renewed = check.renewed
        /\ check'.age = check.age /\ check'.seen = check.seen
        /\ check'.at = "checking" <=> \E w \in Services : run[w] \in Admin!Unfinished
    BY <1>1, ChecksRun
  <1>3. Admin!ChecksSound'
    BY <1>1, <1>2 DEF Admin!ChecksSound
  <1>4. QED
    BY <1>1, <1>2, <1>3 DEF CheckParts

\* Checks end by themselves, by their time, or with a renewal of the token that fails.
LEMMA CheckEndsKeeps ==
    ASSUME Admin!AdminViewsAssumption, CheckParts, NEW v \in Services,
           Admin!CheckEnds(v) \/ Admin!ReauthEnds(v)
    PROVE  CheckParts'
  <1>1. /\ check.at = "checking" /\ check # Admin!Resting /\ check \in Admin!Checking
        /\ health' = health /\ Admin!ChecksSound
    BY DEF CheckParts, Admin!CheckEnds, Admin!ReauthEnds, Admin!Resting
  <1>2. ASSUME NEW status \in {"healthy", "unhealthy", "unconfigured"}, Admin!Finished(v, status),
               status = "healthy" => "up" \in check.seen[v],
               status = "unhealthy" => "down" \in check.seen[v] \/ check.age[v] = Timeout,
               status = "unconfigured" => v \notin Configured
        PROVE  CheckParts'
    <2>1. PICK run : run = [check.run EXCEPT ![v] = status]
      OBVIOUS
    <2>2. /\ run \in [Services ->
                      Admin!Unfinished \cup {"healthy", "unhealthy", "unconfigured"}]
          /\ run[v] = status /\ \A w \in Services \ {v} : run[w] = check.run[w]
      BY <1>1, <2>1 DEF Admin!Checking
    <2>3. Admin!CheckRuns(run)
      BY <1>2, <2>1, Zenon DEF Admin!Finished
    <2>4. QED
      BY <1>1, <1>2, <2>2, <2>3, ChecksRunKeeps
  <1>3. CASE Admin!CheckEnds(v)
    BY <1>1, <1>2, <1>3 DEF Admin!CheckEnds, Admin!ChecksSound
  <1>4. CASE Admin!ReauthEnds(v)
    <2>1. PICK failed \in {{}, check.renewed} :
             Admin!CheckRuns([w \in Services |->
                IF check.run[w] \notin {"reauth", "await"} THEN check.run[w]
                ELSE IF w \in failed THEN "unhealthy" ELSE "running"])
      BY <1>4, Zenon DEF Admin!ReauthEnds
    <2>2. PICK run : run = [w \in Services |->
                IF check.run[w] \notin {"reauth", "await"} THEN check.run[w]
                ELSE IF w \in failed THEN "unhealthy" ELSE "running"]
      OBVIOUS
    <2>3. Admin!CheckRuns(run)
      BY <2>1, <2>2, Zenon
    <2>4. check.renewed # {}
      BY <1>1, <1>4 DEF Admin!ReauthEnds, Admin!ChecksSound
    <2>5. \A w \in Services :
             \/ run[w] = check.run[w]
             \/ run[w] = "running"
             \/ run[w] = "unhealthy" /\ w \in check.renewed
      BY <2>2
    <2>6. run \in [Services -> Admin!Unfinished \cup {"healthy", "unhealthy", "unconfigured"}]
      BY <1>1, <2>2 DEF Admin!Checking, Admin!Unfinished
    <2>7. QED
      BY <1>1, <2>3, <2>4, <2>5, <2>6, ChecksRunKeeps
  <1>5. QED
    BY <1>3, <1>4

\* The page begins and ends, a token is renewed, a service goes up or down.
LEMMA CheckMoves ==
    ASSUME Admin!AdminViewsAssumption, CheckParts,
           \/ Admin!System \/ Admin!SystemReturns
           \/ \E v \in Services : \/ Admin!Reauthenticate(v)
                                  \/ Admin!AwaitRenewal(v)
                                  \/ \E h \in {"up", "down"} : Admin!HealthChanges(v, h)
    PROVE  CheckParts'
  <1>1. CASE Admin!System
    <2>1. PICK h \in [Services -> {"up", "down"}] :
             /\ health' = h
             /\ check' = [at |-> "checking", elapsed |-> 0,
                          run |-> [v \in Services |-> "running"], renewed |-> {},
                          age |-> [v \in Services |-> 0], seen |-> [v \in Services |-> {h[v]}]]
      BY <1>1 DEF Admin!System
    <2>2. 0 \in 0..MaxReauth /\ 0 \in 0..Timeout /\ 0 <= Timeout
      BY DEF Admin!AdminViewsAssumption
    <2>3. check' \in Admin!Checking
      BY <2>1, <2>2 DEF Admin!Checking, Admin!Unfinished
    <2>4. /\ check'.at = "checking" /\ check'.elapsed = 0
          /\ \A v \in Services :
                check'.run[v] = "running" /\ check'.age[v] = 0 /\ check'.seen[v] = {h[v]}
      BY <2>1
    <2>5. Admin!ChecksSound'
      BY <2>1, <2>4 DEF Admin!ChecksSound, Admin!AdminViewsAssumption, Admin!Unfinished
    <2>6. QED
      BY <2>1, <2>2, <2>3, <2>4, <2>5 DEF CheckParts
  <1>2. CASE Admin!SystemReturns
    BY <1>2 DEF CheckParts, Admin!SystemReturns, Admin!AllUp, Admin!ChecksSound
  <1>3. ASSUME NEW v \in Services, NEW run \in {"reauth", "await"}, NEW renewed \in SUBSET Services,
               check.at = "checking", UNCHANGED health,
               check.run[v] = "running",
               check' = [check EXCEPT !.run[v] = run, !.renewed = renewed],
               check.renewed \subseteq renewed, renewed # {}, run = "reauth" => v \in renewed
        PROVE  CheckParts'
    <2>1. /\ check \in Admin!Checking /\ check # Admin!Resting /\ health' = health
      BY <1>3 DEF CheckParts, Admin!Resting
    <2>2. /\ check' \in Admin!Checking
          /\ check'.run[v] = run /\ check'.renewed = renewed
          /\ \A w \in Services \ {v} : check'.run[w] = check.run[w]
          /\ check'.elapsed = check.elapsed
          /\ check'.age = check.age /\ check'.seen = check.seen /\ check'.at = check.at
      BY <1>3, <2>1 DEF Admin!Checking, Admin!Unfinished
    <2>3. Admin!ChecksSound'
      BY <1>3, <2>1, <2>2 DEF CheckParts, Admin!ChecksSound, Admin!Unfinished
    <2>4. QED
      BY <1>3, <2>1, <2>2, <2>3 DEF CheckParts
  <1>a. ASSUME NEW v \in Services, Admin!Reauthenticate(v)
        PROVE  CheckParts'
    <2>1. /\ check.at = "checking" /\ check.run[v] = "running" /\ UNCHANGED health
          /\ check' = [check EXCEPT !.run[v] = "reauth", !.renewed = @ \cup {v}]
      BY <1>a DEF Admin!Reauthenticate
    <2>2. check \in Admin!Checking
      BY <2>1 DEF CheckParts, Admin!Resting
    <2>3. PICK renewed : renewed = check.renewed \cup {v}
      OBVIOUS
    <2>4. check' = [check EXCEPT !.run[v] = "reauth", !.renewed = renewed]
      BY <2>1, <2>2, <2>3 DEF Admin!Checking
    <2>5. renewed \in SUBSET Services
      BY <2>2, <2>3 DEF Admin!Checking
    <2>6. QED
      BY <1>3, <2>1, <2>3, <2>4, <2>5
  <1>b. ASSUME NEW v \in Services, Admin!AwaitRenewal(v)
        PROVE  CheckParts'
    <2>1. PICK refused \in {{}, {v}} :
             /\ check.at = "checking" /\ check.run[v] = "running" /\ UNCHANGED health
             /\ check' = [check EXCEPT !.run[v] = "await", !.renewed = @ \cup refused]
      BY <1>b DEF Admin!AwaitRenewal
    <2>2. check \in Admin!Checking /\ check # Admin!Resting
      BY <2>1 DEF CheckParts, Admin!Resting
    <2>a. PICK w \in Services : check.run[w] = "reauth"
      BY <1>b DEF Admin!AwaitRenewal
    <2>b. w \in check.renewed
      BY <2>2, <2>a DEF CheckParts, Admin!ChecksSound
    <2>3. PICK renewed : renewed = check.renewed \cup refused
      OBVIOUS
    <2>4. check' = [check EXCEPT !.run[v] = "await", !.renewed = renewed]
      BY <2>1, <2>2, <2>3 DEF Admin!Checking
    <2>5. renewed \in SUBSET Services
      BY <2>1, <2>2, <2>3 DEF Admin!Checking
    <2>6. QED
      BY <1>3, <2>1, <2>b, <2>3, <2>4, <2>5
  <1>4. ASSUME NEW v \in Services, NEW h \in {"up", "down"}, Admin!HealthChanges(v, h)
        PROVE  CheckParts'
    <2>1. /\ check.at = "checking" /\ check \in Admin!Checking /\ check # Admin!Resting
          /\ health' = [health EXCEPT ![v] = h]
          /\ check' = [check EXCEPT !.seen[v] = @ \cup {h}]
      BY <1>4 DEF CheckParts, Admin!HealthChanges, Admin!Resting
    <2>2. /\ check' \in Admin!Checking
          /\ check'.seen[v] = check.seen[v] \cup {h}
          /\ \A w \in Services \ {v} : check'.seen[w] = check.seen[w]
          /\ check'.elapsed = check.elapsed /\ check'.renewed = check.renewed
          /\ check'.age = check.age /\ check'.run = check.run /\ check'.at = check.at
      BY <2>1 DEF Admin!Checking
    <2>3. /\ health' \in [Services -> {"up", "down"}]
          /\ health'[v] = h /\ \A w \in Services \ {v} : health'[w] = health[w]
      BY <2>1 DEF CheckParts
    <2>4. Admin!ChecksSound'
      BY <2>1, <2>2, <2>3 DEF CheckParts, Admin!ChecksSound
    <2>5. QED
      BY <2>1, <2>2, <2>3, <2>4 DEF CheckParts
  <1>5. QED
    BY <1>1, <1>2, <1>a, <1>b, <1>4

\* A tick: without a renewed token some check still runs that has as long left as the page.
LEMMA CheckTick ==
    ASSUME Admin!AdminViewsAssumption, CheckParts, Admin!SystemTick
    PROVE  CheckParts'
  <1>1. /\ check.at = "checking" /\ check \in Admin!Checking /\ check # Admin!Resting
        /\ health' = health /\ Admin!ChecksSound
        /\ \A v \in Services : check.run[v] = "running" => check.age[v] < Timeout
        /\ check.elapsed < MaxReauth
    BY DEF CheckParts, Admin!SystemTick, Admin!Resting
  <1>2. PICK age : age = [v \in Services |->
              IF check.run[v] \in Admin!Unfinished /\ check.age[v] < Timeout
              THEN check.age[v] + 1 ELSE check.age[v]]
    OBVIOUS
  <1>3. check' = [check EXCEPT !.elapsed = @ + 1, !.age = age]
    BY <1>1, <1>2 DEF Admin!SystemTick, Admin!Checking
  <1>4. /\ Timeout \in Nat /\ MaxReauth \in Nat
        /\ check.elapsed \in Nat /\ \A v \in Services : check.age[v] \in 0..Timeout
    BY <1>1 DEF Admin!AdminViewsAssumption, Admin!Checking
  <1>5. /\ age \in [Services -> 0..Timeout]
        /\ \A v \in Services : check.run[v] = "running" => age[v] = check.age[v] + 1
        /\ \A v \in Services : check.age[v] = Timeout => age[v] = Timeout
    BY <1>1, <1>2, <1>4 DEF Admin!Unfinished
  <1>a. check.elapsed + 1 \in 0..MaxReauth
    BY <1>1, <1>4
  <1>6. /\ check' \in Admin!Checking
        /\ check'.run = check.run /\ check'.elapsed = check.elapsed + 1
        /\ check'.renewed = check.renewed /\ check'.age = age
        /\ check'.seen = check.seen /\ check'.at = check.at
    BY <1>1, <1>3, <1>5, <1>a DEF Admin!Checking
  <1>7. Admin!ChecksSound'
    BY <1>1, <1>5, <1>6 DEF Admin!ChecksSound
  <1>8. check'.elapsed <= Timeout \/ check'.renewed # {}
    <2>1. CASE check.renewed = {}
      <3>1. PICK v \in Services : check.run[v] \in Admin!Unfinished
        BY <1>1 DEF Admin!ChecksSound
      <3>2. check.run[v] = "running" /\ check.age[v] = check.elapsed
        BY <1>1, <2>1, <3>1 DEF Admin!ChecksSound, Admin!Unfinished
      <3>3. QED
        BY <1>1, <1>4, <1>6, <3>2
    <2>2. QED
      BY <1>6, <2>1
  <1>9. QED
    BY <1>1, <1>6, <1>7, <1>8 DEF CheckParts

\* Every step of the administrator's views.
LEMMA AdminStep ==
    ASSUME Admin!AdminViewsAssumption, ViewParts, CheckParts, [Admin!Next]_Admin!vars
    PROVE  ViewParts' /\ CheckParts'
  <1>1. ASSUME UNCHANGED Admin!viewVars PROVE ViewParts'
    <2>1. UNCHANGED <<live, past, rows, unborn, cache, mu, viewReq>>
      BY <1>1 DEF Admin!viewVars
    <2>2. ASSUME NEW r \in Callers PROVE ViewFresh(viewReq[r])'
      BY <2>1 DEF ViewParts, ViewFresh, Admin!WasTrue, Admin!Within
    <2>3. QED
      BY <2>1, <2>2, CacheStays DEF ViewParts, ViewWorld
  <1>2. ASSUME UNCHANGED Admin!systemVars PROVE CheckParts'
    BY <1>2 DEF Admin!systemVars, CheckParts, Admin!ChecksSound
  <1>3. CASE Admin!Views
    <2>1. UNCHANGED Admin!systemVars
      BY <1>3 DEF Admin!Views, Admin!Step, Admin!InstanceStatus, Admin!InstanceStatusFails,
             Admin!CacheHit, Admin!FetchInstances, Admin!StoreStatuses, Admin!FetchFails,
             Admin!Returns, Admin!Summary, Admin!Instances, Admin!UserResources, Admin!Instance,
             Admin!StatusChanges, Admin!ServerCreated, Admin!ServerDeleted, Admin!RowDeleted,
             Admin!Tick
    <2>2. QED
      BY <1>2, <1>3, <2>1, ViewsStep
  <1>4. CASE Admin!SystemPage
    <2>1. UNCHANGED Admin!viewVars
      BY <1>4 DEF Admin!SystemPage, Admin!System, Admin!SystemStep, Admin!SystemReturns,
             Admin!SystemTick, Admin!CheckEnds, Admin!ReauthEnds, Admin!Reauthenticate,
             Admin!AwaitRenewal, Admin!HealthChanges
    <2>2. CheckParts'
      BY <1>4, CheckMoves, CheckTick, CheckEndsKeeps DEF Admin!SystemPage, Admin!SystemStep
    <2>3. QED
      BY <1>1, <2>1, <2>2
  <1>5. CASE UNCHANGED Admin!vars
    BY <1>1, <1>2, <1>5 DEF Admin!vars
  <1>6. QED
    BY <1>3, <1>4, <1>5 DEF Admin!Next

\* What the admin pages call live, and do not find, is not older than the cache may be plus
\* one listing (admin/service.go:105, instance_status.go:44), and the system page takes one
\* time-out unless a token had to be renewed (service.go:134), for any number of servers,
\* requests and services and any times.
THEOREM AdminSound ==
    ASSUME Admin!AdminViewsAssumption PROVE Admin!Spec => []AdminInv
  <1>1. Admin!Init => ViewParts /\ CheckParts
    <2> SUFFICES ASSUME Admin!Init PROVE ViewParts /\ CheckParts
      OBVIOUS
    <2>1. CacheFresh /\ ViewWorld
      BY StaleFacts DEF Admin!Init, Admin!Expired, Admin!Unavailable, CacheFresh, ViewWorld,
             Admin!Listing
    <2>2. ViewFresh(Admin!Idle)
      BY DEF ViewFresh, Admin!Idle
    <2>3. ViewParts
      BY <2>1, <2>2 DEF Admin!Init, ViewParts
    <2>4. CheckParts
      BY DEF Admin!Init, CheckParts, Admin!AllUp, Admin!ChecksSound
    <2>5. QED
      BY <2>3, <2>4
  <1>2. ViewParts /\ CheckParts /\ [Admin!Next]_Admin!vars => ViewParts' /\ CheckParts'
    BY AdminStep
  <1>3. ViewParts /\ CheckParts => AdminInv
    BY AdminPartsSuffice DEF AdminInv
  <1>4. QED
    BY <1>1, <1>2, <1>3, PTL DEF Admin!Spec
=============================================================================
