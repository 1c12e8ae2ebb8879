---------------------------- MODULE ServerProofs ----------------------------
(***************************************************************************)
(* Proofs about the servers, for any finite set of connections, any number *)
(* of slots and any limits: the counters of ns-proxy (ProxyServer) and the *)
(* slots of the SSH gateway (GatewayServer) agree with the connections     *)
(* they count, a shutdown that reports success has drained everything, a   *)
(* web console is within its limits after every check (ConsoleLiveness),   *)
(* and an HTTP server that ends in good order has answered what it took    *)
(* (Processes).                                                            *)
(***************************************************************************)
EXTENDS MCServers, Sequences, FiniteSetTheorems, TLAPS

\* The number of connections whose state under f is in ss.
Count(f, ss) == Cardinality({c \in Conns : f[c] \in ss})

\* Before and after a step, the counters said with Count.
LEMMA CountersByCount ==
    /\ CountersAgree <=>
          /\ sem = Count(conn, {"serving"}) /\ sem <= MaxConns
          /\ activeConns = Count(conn, {"serving", "counted"})
          /\ totalDials = Count(conn, {"serving", "counted", "added", "done"})
          /\ deniedDials = Count(conn, {"denied"})
    /\ CountersAgree' <=>
          /\ sem' = Count(conn', {"serving"}) /\ sem' <= MaxConns
          /\ activeConns' = Count(conn', {"serving", "counted"})
          /\ totalDials' = Count(conn', {"serving", "counted", "added", "done"})
          /\ deniedDials' = Count(conn', {"denied"})
  BY DEF CountersAgree, In, Count

\* What the move of one connection between two states does to the number of connections
\* in any set of states.
CountsMove(from, to) ==
    \A ss : /\ Count(conn, ss) \in Nat /\ Count(conn', ss) \in Nat
            /\ (from \in ss <=> to \in ss) => Count(conn', ss) = Count(conn, ss)
            /\ from \notin ss /\ to \in ss => Count(conn', ss) = Count(conn, ss) + 1
            /\ from \in ss /\ to \notin ss => Count(conn', ss) = Count(conn, ss) - 1

\* When one connection changes its state, every set of states gains or loses at most this one.
LEMMA MoveCount ==
    ASSUME TypeOK, NEW c \in Conns, NEW from, NEW to,
           conn[c] = from, conn' = [conn EXCEPT ![c] = to]
    PROVE  CountsMove(from, to)
  <1> SUFFICES ASSUME NEW ss
               PROVE  /\ Count(conn, ss) \in Nat /\ Count(conn', ss) \in Nat
                      /\ (from \in ss <=> to \in ss) => Count(conn', ss) = Count(conn, ss)
                      /\ from \notin ss /\ to \in ss => Count(conn', ss) = Count(conn, ss) + 1
                      /\ from \in ss /\ to \notin ss => Count(conn', ss) = Count(conn, ss) - 1
    BY DEF CountsMove
  <1> DEFINE before == {x \in Conns : conn[x] \in ss}
             after  == {x \in Conns : conn'[x] \in ss}
  <1>0. Count(conn, ss) = Cardinality(before) /\ Count(conn', ss) = Cardinality(after)
    BY DEF Count
  <1>1. IsFiniteSet(before) /\ Cardinality(before) \in Nat
    BY ProxyServerAssumption, FS_Subset, FS_CardinalityType
  <1>2. IsFiniteSet(after) /\ Cardinality(after) \in Nat
    BY ProxyServerAssumption, FS_Subset, FS_CardinalityType
  <1>3. ASSUME from \in ss <=> to \in ss
        PROVE  after = before
    BY <1>3 DEF TypeOK
  <1>4. ASSUME from \notin ss, to \in ss
        PROVE  Cardinality(after) = Cardinality(before) + 1
    <2>1. after = before \cup {c} /\ c \notin before
      BY <1>4 DEF TypeOK
    <2> HIDE DEF before, after
    <2>2. QED
      BY <2>1, <1>1, FS_AddElement
  <1>5. ASSUME from \in ss, to \notin ss
        PROVE  Cardinality(after) = Cardinality(before) - 1
    <2>1. after = before \ {c} /\ c \in before
      BY <1>5 DEF TypeOK
    <2> HIDE DEF before, after
    <2>2. QED
      BY <2>1, <1>1, FS_RemoveElement
  <1> HIDE DEF before, after
  <1>6. QED
    BY <1>0, <1>1, <1>2, <1>3, <1>4, <1>5

\* A set of states no connection is in counts zero.
LEMMA EmptyCount ==
    ASSUME NEW f, NEW ss, \A c \in Conns : f[c] \notin ss
    PROVE  Count(f, ss) = 0
  <1>1. {c \in Conns : f[c] \in ss} = {}
    OBVIOUS
  <1>2. QED
    BY <1>1, FS_EmptySet DEF Count

-----------------------------------------------------------------------------

\* The initial state satisfies the invariant.
LEMMA InitServerInv == Init => ServerInv
  <1> SUFFICES ASSUME Init PROVE ServerInv
    OBVIOUS
  <1>1. TypeOK
    BY ProxyServerAssumption DEF Init, TypeOK, States
  <1>2. CountersAgree
    <2>1. /\ Count(conn, {"serving"}) = 0 /\ Count(conn, {"serving", "counted"}) = 0
          /\ Count(conn, {"serving", "counted", "added", "done"}) = 0
          /\ Count(conn, {"denied"}) = 0
      BY EmptyCount DEF Init
    <2>2. QED
      BY <2>1, CountersByCount, ProxyServerAssumption DEF Init
  <1>3. DrainOrder
    BY DEF Init, DrainOrder, In, WaitGroupIsZero
  <1>4. QED
    BY <1>1, <1>2, <1>3 DEF ServerInv

\* A step that moves no connection leaves the counters as they are.
LEMMA QuietStep ==
    ASSUME CountersAgree, UNCHANGED <<conn, sem, activeConns, totalDials, deniedDials>>
    PROVE  CountersAgree'
  BY DEF CountersAgree, In

\* A connection that enters the queue is in no counter.
LEMMA ConnectCounters ==
    ASSUME TypeOK, CountersAgree, NEW c \in Conns, Connect(c)
    PROVE  CountersAgree' /\ sem' \in 0 .. MaxConns /\ activeConns' \in Nat
  <1>1. CountsMove("none", "queued")
    BY MoveCount DEF Connect
  <1>2. /\ Count(conn', {"serving"}) = Count(conn, {"serving"})
        /\ Count(conn', {"serving", "counted"}) = Count(conn, {"serving", "counted"})
        /\ Count(conn', {"serving", "counted", "added", "done"})
              = Count(conn, {"serving", "counted", "added", "done"})
        /\ Count(conn', {"denied"}) = Count(conn, {"denied"})
        /\ Count(conn', {"serving"}) \in Nat /\ Count(conn', {"serving", "counted"}) \in Nat
    BY <1>1 DEF CountsMove
  <1>3. QED
    BY <1>2, CountersByCount, ProxyServerAssumption DEF TypeOK, Connect

\* Nor is one that Serve holds.
LEMMA AcceptCounters ==
    ASSUME TypeOK, CountersAgree, NEW c \in Conns, Accept(c)
    PROVE  CountersAgree' /\ sem' \in 0 .. MaxConns /\ activeConns' \in Nat
  <1>1. CountsMove("queued", "held")
    BY MoveCount DEF Accept
  <1>2. /\ Count(conn', {"serving"}) = Count(conn, {"serving"})
        /\ Count(conn', {"serving", "counted"}) = Count(conn, {"serving", "counted"})
        /\ Count(conn', {"serving", "counted", "added", "done"})
              = Count(conn, {"serving", "counted", "added", "done"})
        /\ Count(conn', {"denied"}) = Count(conn, {"denied"})
        /\ Count(conn', {"serving"}) \in Nat /\ Count(conn', {"serving", "counted"}) \in Nat
    BY <1>1 DEF CountsMove
  <1>3. QED
    BY <1>2, CountersByCount, ProxyServerAssumption DEF TypeOK, Accept

\* Start takes a slot and enters the connection in every counter.
LEMMA StartCounters ==
    ASSUME TypeOK, CountersAgree, NEW c \in Conns, Start(c)
    PROVE  CountersAgree' /\ sem' \in 0 .. MaxConns /\ activeConns' \in Nat
  <1>1. CountsMove("held", "serving")
    BY MoveCount DEF Start
  <1>2. /\ Count(conn', {"serving"}) = Count(conn, {"serving"}) + 1
        /\ Count(conn', {"serving", "counted"}) = Count(conn, {"serving", "counted"}) + 1
        /\ Count(conn', {"serving", "counted", "added", "done"})
              = Count(conn, {"serving", "counted", "added", "done"}) + 1
        /\ Count(conn', {"denied"}) = Count(conn, {"denied"})
        /\ Count(conn', {"serving"}) \in Nat /\ Count(conn', {"serving", "counted"}) \in Nat
    BY <1>1 DEF CountsMove
  <1>3. QED
    BY <1>2, CountersByCount, ProxyServerAssumption DEF TypeOK, Start

\* A connection that is refused is only counted as denied.
LEMMA DenyCounters ==
    ASSUME TypeOK, CountersAgree, NEW c \in Conns, Deny(c)
    PROVE  CountersAgree' /\ sem' \in 0 .. MaxConns /\ activeConns' \in Nat
  <1>1. CountsMove("held", "denied")
    BY MoveCount DEF Deny
  <1>2. /\ Count(conn', {"serving"}) = Count(conn, {"serving"})
        /\ Count(conn', {"serving", "counted"}) = Count(conn, {"serving", "counted"})
        /\ Count(conn', {"serving", "counted", "added", "done"})
              = Count(conn, {"serving", "counted", "added", "done"})
        /\ Count(conn', {"denied"}) = Count(conn, {"denied"}) + 1
        /\ Count(conn', {"serving"}) \in Nat /\ Count(conn', {"serving", "counted"}) \in Nat
    BY <1>1 DEF CountsMove
  <1>3. QED
    BY <1>2, CountersByCount, ProxyServerAssumption DEF TypeOK, Deny

\* The first deferred call of a handler gives back the slot it had.
LEMMA ReleaseSlotCounters ==
    ASSUME TypeOK, CountersAgree, NEW c \in Conns, ReleaseSlot(c)
    PROVE  CountersAgree' /\ sem' \in 0 .. MaxConns /\ activeConns' \in Nat
  <1>1. CountsMove("serving", "counted")
    BY MoveCount DEF ReleaseSlot
  <1>2. /\ Count(conn', {"serving"}) = Count(conn, {"serving"}) - 1
        /\ Count(conn', {"serving", "counted"}) = Count(conn, {"serving", "counted"})
        /\ Count(conn', {"serving", "counted", "added", "done"})
              = Count(conn, {"serving", "counted", "added", "done"})
        /\ Count(conn', {"denied"}) = Count(conn, {"denied"})
        /\ Count(conn', {"serving"}) \in Nat /\ Count(conn', {"serving", "counted"}) \in Nat
    BY <1>1 DEF CountsMove
  <1>3. QED
    BY <1>2, CountersByCount, ProxyServerAssumption DEF TypeOK, ReleaseSlot

\* The second takes the connection out of activeConns.
LEMMA ReleaseCountCounters ==
    ASSUME TypeOK, CountersAgree, NEW c \in Conns, ReleaseCount(c)
    PROVE  CountersAgree' /\ sem' \in 0 .. MaxConns /\ activeConns' \in Nat
  <1>1. CountsMove("counted", "added")
    BY MoveCount DEF ReleaseCount
  <1>2. /\ Count(conn', {"serving"}) = Count(conn, {"serving"})
        /\ Count(conn', {"serving", "counted"}) = Count(conn, {"serving", "counted"}) - 1
        /\ Count(conn', {"serving", "counted", "added", "done"})
              = Count(conn, {"serving", "counted", "added", "done"})
        /\ Count(conn', {"denied"}) = Count(conn, {"denied"})
        /\ Count(conn', {"serving"}) \in Nat /\ Count(conn', {"serving", "counted"}) \in Nat
    BY <1>1 DEF CountsMove
  <1>3. QED
    BY <1>2, CountersByCount, ProxyServerAssumption DEF TypeOK, ReleaseCount

\* The third leaves the counters alone.
LEMMA HandlerDoneCounters ==
    ASSUME TypeOK, CountersAgree, NEW c \in Conns, HandlerDone(c)
    PROVE  CountersAgree' /\ sem' \in 0 .. MaxConns /\ activeConns' \in Nat
  <1>1. CountsMove("added", "done")
    BY MoveCount DEF HandlerDone
  <1>2. /\ Count(conn', {"serving"}) = Count(conn, {"serving"})
        /\ Count(conn', {"serving", "counted"}) = Count(conn, {"serving", "counted"})
        /\ Count(conn', {"serving", "counted", "added", "done"})
              = Count(conn, {"serving", "counted", "added", "done"})
        /\ Count(conn', {"denied"}) = Count(conn, {"denied"})
        /\ Count(conn', {"serving"}) \in Nat /\ Count(conn', {"serving", "counted"}) \in Nat
    BY <1>1 DEF CountsMove
  <1>3. QED
    BY <1>2, CountersByCount, ProxyServerAssumption DEF TypeOK, HandlerDone

-----------------------------------------------------------------------------

\* The back-off of a failing Accept doubles up to a second.
LEMMA DelayBounded ==
    ASSUME NEW d \in {0, 10, 20, 40, 80, 160, 320, 640, 1000}
    PROVE  NextDelay(d) \in {0, 10, 20, 40, 80, 160, 320, 640, 1000}
  BY DEF NextDelay

\* What the clients and Serve do keeps the invariant.
LEMMA ServeInv ==
    ASSUME ServerInv,
           \/ \E c \in Conns : Connect(c) \/ HangUp(c)
           \/ Serve \/ AcceptFails
    PROVE  ServerInv'
  <1>1. TypeOK /\ CountersAgree /\ DrainOrder
    BY DEF ServerInv
  <1>2. ASSUME NEW c \in Conns, Connect(c) PROVE ServerInv'
    <2>1. CountersAgree' /\ sem' \in 0 .. MaxConns /\ activeConns' \in Nat
      BY <1>1, <1>2, ConnectCounters
    <2>2. TypeOK'
      BY <1>1, <1>2, <2>1 DEF TypeOK, States, Connect
    <2>3. DrainOrder'
      BY <1>1, <1>2 DEF TypeOK, DrainOrder, In, WaitGroupIsZero, Connect
    <2>4. QED
      BY <2>1, <2>2, <2>3 DEF ServerInv
  <1>3. ASSUME NEW c \in Conns, HangUp(c) PROVE ServerInv'
    <2>1. CountersAgree'
      BY <1>1, <1>3, QuietStep DEF HangUp
    <2>2. TypeOK'
      BY <1>1, <1>3, <2>1 DEF TypeOK, States, HangUp
    <2>3. DrainOrder'
      BY <1>1, <1>3 DEF TypeOK, DrainOrder, In, WaitGroupIsZero, HangUp
    <2>4. QED
      BY <2>1, <2>2, <2>3 DEF ServerInv
  <1>4. ASSUME NEW c \in Conns, Accept(c) PROVE ServerInv'
    <2>1. CountersAgree' /\ sem' \in 0 .. MaxConns /\ activeConns' \in Nat
      BY <1>1, <1>4, AcceptCounters
    <2>2. TypeOK'
      BY <1>1, <1>4, <2>1 DEF TypeOK, States, Accept
    <2>3. DrainOrder'
      BY <1>1, <1>4 DEF TypeOK, DrainOrder, In, WaitGroupIsZero, Accept
    <2>4. QED
      BY <2>1, <2>2, <2>3 DEF ServerInv
  <1>5. ASSUME NEW c \in Conns, Start(c) PROVE ServerInv'
    <2>1. CountersAgree' /\ sem' \in 0 .. MaxConns /\ activeConns' \in Nat
      BY <1>1, <1>5, StartCounters
    <2>2. TypeOK'
      BY <1>1, <1>5, <2>1 DEF TypeOK, States, Start
    <2>3. DrainOrder'
      BY <1>1, <1>5 DEF TypeOK, DrainOrder, In, WaitGroupIsZero, Start
    <2>4. QED
      BY <2>1, <2>2, <2>3 DEF ServerInv
  <1>6. ASSUME NEW c \in Conns, Deny(c) PROVE ServerInv'
    <2>1. CountersAgree' /\ sem' \in 0 .. MaxConns /\ activeConns' \in Nat
      BY <1>1, <1>6, DenyCounters
    <2>2. TypeOK'
      BY <1>1, <1>6, <2>1 DEF TypeOK, States, Deny
    <2>3. DrainOrder'
      BY <1>1, <1>6 DEF TypeOK, DrainOrder, In, WaitGroupIsZero, Deny
    <2>4. QED
      BY <2>1, <2>2, <2>3 DEF ServerInv
  <1>7. ASSUME AcceptFails PROVE ServerInv'
    <2>1. CountersAgree'
      BY <1>1, <1>7, QuietStep DEF AcceptFails
    <2>2. TypeOK'
      BY <1>1, <1>7, <2>1, DelayBounded DEF TypeOK, States, AcceptFails
    <2>3. DrainOrder'
      BY <1>1, <1>7 DEF TypeOK, DrainOrder, In, WaitGroupIsZero, AcceptFails
    <2>4. QED
      BY <2>1, <2>2, <2>3 DEF ServerInv
  <1>8. ASSUME Wake PROVE ServerInv'
    <2>1. CountersAgree'
      BY <1>1, <1>8, QuietStep DEF Wake
    <2>2. TypeOK'
      BY <1>1, <1>8, <2>1 DEF TypeOK, States, Wake
    <2>3. DrainOrder'
      BY <1>1, <1>8 DEF TypeOK, DrainOrder, In, WaitGroupIsZero, Wake
    <2>4. QED
      BY <2>1, <2>2, <2>3 DEF ServerInv
  <1>9. ASSUME AcceptClosed PROVE ServerInv'
    <2>1. CountersAgree'
      BY <1>1, <1>9, QuietStep DEF AcceptClosed
    <2>2. TypeOK'
      BY <1>1, <1>9, <2>1 DEF TypeOK, States, AcceptClosed
    <2>3. DrainOrder'
      BY <1>1, <1>9 DEF TypeOK, DrainOrder, In, WaitGroupIsZero, AcceptClosed
    <2>4. QED
      BY <2>1, <2>2, <2>3 DEF ServerInv
  <1>10. ASSUME ServeReturns PROVE ServerInv'
    <2>1. CountersAgree'
      BY <1>1, <1>10, QuietStep DEF ServeReturns
    <2>2. TypeOK'
      BY <1>1, <1>10, <2>1 DEF TypeOK, States, ServeReturns
    <2>3. DrainOrder'
      BY <1>1, <1>10 DEF TypeOK, DrainOrder, In, WaitGroupIsZero, ServeReturns
    <2>4. QED
      BY <2>1, <2>2, <2>3 DEF ServerInv
  <1>11. QED
    BY <1>2, <1>3, <1>4, <1>5, <1>6, <1>7, <1>8, <1>9, <1>10 DEF Serve

\* A handler that ends keeps the invariant: the slot goes first, the wait group last.
LEMMA HandlerInv ==
    ASSUME ServerInv,
           NEW h \in Conns, Handler(h)
    PROVE  ServerInv'
  <1>1. TypeOK /\ CountersAgree /\ DrainOrder
    BY DEF ServerInv
  <1>2. ASSUME NEW c \in Conns, ReleaseSlot(c) PROVE ServerInv'
    <2>1. CountersAgree' /\ sem' \in 0 .. MaxConns /\ activeConns' \in Nat
      BY <1>1, <1>2, ReleaseSlotCounters
    <2>2. TypeOK'
      BY <1>1, <1>2, <2>1 DEF TypeOK, States, ReleaseSlot
    <2>3. DrainOrder'
      BY <1>1, <1>2 DEF TypeOK, DrainOrder, In, WaitGroupIsZero, ReleaseSlot
    <2>4. QED
      BY <2>1, <2>2, <2>3 DEF ServerInv
  <1>3. ASSUME NEW c \in Conns, ReleaseCount(c) PROVE ServerInv'
    <2>1. CountersAgree' /\ sem' \in 0 .. MaxConns /\ activeConns' \in Nat
      BY <1>1, <1>3, ReleaseCountCounters
    <2>2. TypeOK'
      BY <1>1, <1>3, <2>1 DEF TypeOK, States, ReleaseCount
    <2>3. DrainOrder'
      BY <1>1, <1>3 DEF TypeOK, DrainOrder, In, WaitGroupIsZero, ReleaseCount
    <2>4. QED
      BY <2>1, <2>2, <2>3 DEF ServerInv
  <1>4. ASSUME NEW c \in Conns, HandlerDone(c) PROVE ServerInv'
    <2>1. CountersAgree' /\ sem' \in 0 .. MaxConns /\ activeConns' \in Nat
      BY <1>1, <1>4, HandlerDoneCounters
    <2>2. TypeOK'
      BY <1>1, <1>4, <2>1 DEF TypeOK, States, HandlerDone
    <2>3. DrainOrder'
      BY <1>1, <1>4 DEF TypeOK, DrainOrder, In, WaitGroupIsZero, HandlerDone
    <2>4. QED
      BY <2>1, <2>2, <2>3 DEF ServerInv
  <1>5. QED
    BY <1>2, <1>3, <1>4 DEF Handler

\* A signal, Shutdown and the end of main keep the invariant.
LEMMA ShutdownInv ==
    ASSUME ServerInv,
           Shutdown \/ Main \/ Signal \/ SecondSignal
    PROVE  ServerInv'
  <1>1. TypeOK /\ CountersAgree /\ DrainOrder
    BY DEF ServerInv
  <1>2. ASSUME Signal PROVE ServerInv'
    <2>1. CountersAgree'
      BY <1>1, <1>2, QuietStep DEF Signal
    <2>2. TypeOK'
      BY <1>1, <1>2, <2>1 DEF TypeOK, States, Signal
    <2>3. DrainOrder'
      BY <1>1, <1>2 DEF TypeOK, DrainOrder, In, WaitGroupIsZero, Signal
    <2>4. QED
      BY <2>1, <2>2, <2>3 DEF ServerInv
  <1>3. ASSUME CloseListener PROVE ServerInv'
    <2>1. CountersAgree'
      BY <1>1, <1>3, QuietStep DEF CloseListener
    <2>2. TypeOK'
      BY <1>1, <1>3, <2>1 DEF TypeOK, States, CloseListener
    <2>3. DrainOrder'
      BY <1>1, <1>3 DEF TypeOK, DrainOrder, In, WaitGroupIsZero, CloseListener
    <2>4. QED
      BY <2>1, <2>2, <2>3 DEF ServerInv
  <1>4. ASSUME ServeDoneSeen PROVE ServerInv'
    <2>1. CountersAgree'
      BY <1>1, <1>4, QuietStep DEF ServeDoneSeen
    <2>2. TypeOK'
      BY <1>1, <1>4, <2>1 DEF TypeOK, States, ServeDoneSeen
    <2>3. DrainOrder'
      BY <1>1, <1>4 DEF TypeOK, DrainOrder, In, WaitGroupIsZero, ServeDoneSeen
    <2>4. QED
      BY <2>1, <2>2, <2>3 DEF ServerInv
  <1>5. ASSUME PollsZero PROVE ServerInv'
    <2>1. CountersAgree'
      BY <1>1, <1>5, QuietStep DEF PollsZero
    <2>2. TypeOK'
      BY <1>1, <1>5, <2>1 DEF TypeOK, States, PollsZero
    <2>3. DrainOrder'
      BY <1>1, <1>5 DEF TypeOK, DrainOrder, In, WaitGroupIsZero, PollsZero
    <2>4. QED
      BY <2>1, <2>2, <2>3 DEF ServerInv
  <1>6. ASSUME ShutdownReturns PROVE ServerInv'
    <2>1. CountersAgree'
      BY <1>1, <1>6, QuietStep DEF ShutdownReturns
    <2>2. TypeOK'
      BY <1>1, <1>6, <2>1 DEF TypeOK, States, ShutdownReturns
    <2>3. DrainOrder'
      BY <1>1, <1>6 DEF TypeOK, DrainOrder, In, WaitGroupIsZero, ShutdownReturns
    <2>4. QED
      BY <2>1, <2>2, <2>3 DEF ServerInv
  <1>7. ASSUME GraceExpires PROVE ServerInv'
    <2>1. CountersAgree'
      BY <1>1, <1>7, QuietStep DEF GraceExpires
    <2>2. TypeOK'
      BY <1>1, <1>7, <2>1 DEF TypeOK, States, GraceExpires
    <2>3. DrainOrder'
      BY <1>1, <1>7 DEF TypeOK, DrainOrder, In, WaitGroupIsZero, GraceExpires
    <2>4. QED
      BY <2>1, <2>2, <2>3 DEF ServerInv
  <1>8. ASSUME Join PROVE ServerInv'
    <2>1. CountersAgree'
      BY <1>1, <1>8, QuietStep DEF Join
    <2>2. TypeOK'
      BY <1>1, <1>8, <2>1 DEF TypeOK, States, Join
    <2>3. DrainOrder'
      BY <1>1, <1>8 DEF TypeOK, DrainOrder, In, WaitGroupIsZero, Join
    <2>4. QED
      BY <2>1, <2>2, <2>3 DEF ServerInv
  <1>9. ASSUME Exit PROVE ServerInv'
    <2>1. CountersAgree'
      BY <1>1, <1>9, QuietStep DEF Exit
    <2>2. TypeOK'
      BY <1>1, <1>9, <2>1 DEF TypeOK, States, Exit
    <2>3. DrainOrder'
      BY <1>1, <1>9 DEF TypeOK, DrainOrder, In, WaitGroupIsZero, Exit
    <2>4. QED
      BY <2>1, <2>2, <2>3 DEF ServerInv
  <1>10. ASSUME SecondSignal PROVE ServerInv'
    <2>1. CountersAgree'
      BY <1>1, <1>10, QuietStep DEF SecondSignal
    <2>2. TypeOK'
      BY <1>1, <1>10, <2>1 DEF TypeOK, States, SecondSignal
    <2>3. DrainOrder'
      BY <1>1, <1>10 DEF TypeOK, DrainOrder, In, WaitGroupIsZero, SecondSignal
    <2>4. QED
      BY <2>1, <2>2, <2>3 DEF ServerInv
  <1>11. QED
    BY <1>2, <1>3, <1>4, <1>5, <1>6, <1>7, <1>8, <1>9, <1>10 DEF Shutdown, Main

-----------------------------------------------------------------------------

\* Every step keeps the invariant.
LEMMA ServerInvStep == ServerInv /\ [Next]_vars => ServerInv'
  <1> SUFFICES ASSUME ServerInv, [Next]_vars PROVE ServerInv'
    OBVIOUS
  <1>1. CASE \E c \in Conns : Connect(c) \/ HangUp(c)
    BY <1>1, ServeInv
  <1>2. CASE Serve \/ AcceptFails
    BY <1>2, ServeInv
  <1>3. CASE \E c \in Conns : Handler(c)
    BY <1>3, HandlerInv
  <1>4. CASE Shutdown \/ Main \/ Signal \/ SecondSignal
    BY <1>4, ShutdownInv
  <1>5. CASE UNCHANGED vars
    BY <1>5 DEF vars, ServerInv, TypeOK, CountersAgree, DrainOrder, In, WaitGroupIsZero
  <1>6. QED
    BY <1>1, <1>2, <1>3, <1>4, <1>5 DEF Next

\* The invariant of ns-proxy: for any number of clients and slots, sem, activeConns and the
\* two totals agree with the connections they count, although a handler leaves them one
\* after the other, and Serve and Shutdown end in the order the drain relies on
\* (cmd/ns-proxy/server.go:71-150).
THEOREM ServerInvariant == Spec => []ServerInv
  <1>1. QED
    BY InitServerInv, ServerInvStep, PTL DEF Spec

\* A state of the invariant in which Shutdown has returned nil is drained.
LEMMA DrainedWhenNil == ServerInv => GracefulDrain
  <1> SUFFICES ASSUME ServerInv, shutdown = "nil" PROVE GracefulDrain
    BY DEF GracefulDrain
  <1>1. serve = "returned" /\ In({"held", "serving", "counted", "added"}) = {}
    BY DEF ServerInv, DrainOrder, WaitGroupIsZero, In
  <1>2. Count(conn, {"serving"}) = 0 /\ Count(conn, {"serving", "counted"}) = 0
    BY <1>1, EmptyCount DEF In
  <1>3. sem = 0 /\ activeConns = 0
    BY <1>2, CountersByCount DEF ServerInv
  <1>4. QED
    BY <1>1, <1>3 DEF GracefulDrain

\* "drained gracefully" (cmd/ns-proxy/main.go) is true whenever it is logged: Serve is over,
\* nobody holds a connection and the slots and the counter are back at zero.
THEOREM DrainSound == Spec => []GracefulDrain
  <1>1. QED
    BY ServerInvariant, DrainedWhenNil, PTL

-----------------------------------------------------------------------------
(* The HTTP servers as processes *)

\* The process is gone: what was under way is cut off, what was answered stays answered.
LEMMA ProcessExit ==
    ASSUME Process!TypeOK, Process!Orderly, NEW status \in {"ok", "error", "signal"},
           proc # "down", Process!Exit(status), late' \in BOOLEAN, asked' \in BOOLEAN,
           UNCHANGED <<unit, procCtx>>,
           status = "ok" => /\ procCtx = "done"
                            /\ late' \/ Process!Active = {}
    PROVE  Process!ProcessInv'
  <1>1. /\ proc' = "down" /\ procListener' = "closed" /\ exit' = status
        /\ req' = [r \in Requests |-> IF req[r] \in {"active", "upgraded"} THEN "cut" ELSE req[r]]
    BY DEF Process!Exit
  <1>2. Process!TypeOK'
    BY <1>1 DEF Process!TypeOK
  <1>3. Process!Orderly'
    BY <1>1 DEF Process!Orderly, Process!TypeOK
  <1>4. ASSUME NEW r \in Requests, req'[r] = "cut", exit' = "ok" PROVE late' \/ r \in Upgrades
    BY <1>1, <1>4 DEF Process!Orderly, Process!Active, Process!TypeOK
  <1>5. Process!CleanStop'
    BY <1>1, <1>2, <1>4 DEF Process!CleanStop
  <1>6. QED
    BY <1>3, <1>5 DEF Process!ProcessInv

\* A process that is not down yet has cut nothing off: a step that does not end it keeps the
\* invariant if it keeps the rest of it.
LEMMA ProcessStays ==
    ASSUME Process!TypeOK', Process!Orderly', exit' # "ok"
    PROVE  Process!ProcessInv'
  BY DEF Process!ProcessInv, Process!CleanStop

\* Each step of a program under systemd keeps the order of its shutdown.
LEMMA ProcessInvStep ==
    Process!ProcessInv /\ [Process!Next]_(Process!vars) => Process!ProcessInv'
  <1> SUFFICES ASSUME Process!ProcessInv, [Process!Next]_(Process!vars) PROVE Process!ProcessInv'
    OBVIOUS
  <1>1. Process!TypeOK /\ Process!Orderly /\ Process!CleanStop
    BY DEF Process!ProcessInv, Process!CleanStop
  <1>2. ASSUME NEW u \in Process!Units, Process!Fresh(u) PROVE Process!ProcessInv'
    <2>1. Process!TypeOK' /\ Process!Orderly' /\ exit' # "ok"
      BY <1>2 DEF Process!Fresh, Process!NoRequests, Process!TypeOK, Process!Orderly,
             Process!Units
    <2>2. QED
      BY <2>1, ProcessStays
  <1>3. CASE (\E u \in Process!Units : Process!Start(u)) \/ Process!Restart
    BY <1>1, <1>2, <1>3 DEF Process!Start, Process!Restart, Process!TypeOK
  <1>4. CASE Process!StartFails \/ Process!Dies
    <2>1. proc # "down" /\ Process!Exit("error") /\ late' \in BOOLEAN /\ asked' \in BOOLEAN
          /\ UNCHANGED <<unit, procCtx>>
      BY <1>1, <1>4 DEF Process!StartFails, Process!Dies, Process!TypeOK
    <2>2. QED
      BY <1>1, <2>1, ProcessExit
  <1>5. CASE Process!Started \/ Process!Listen
    <2>1. Process!TypeOK'
      BY <1>1, <1>5 DEF Process!Started, Process!apiStarted, Process!appGatewayStarted,
             Process!sshGatewayStarted, Process!Listen, Process!TypeOK
    <2>2. UNCHANGED <<unit, procCtx, exit, asked, req, late>>
          /\ (UNCHANGED proc \/ (proc = "starting" /\ proc' = "up"))
      BY <1>5 DEF Process!Started, Process!apiStarted, Process!appGatewayStarted,
             Process!sshGatewayStarted, Process!Listen
    <2>3. Process!Orderly' /\ Process!CleanStop'
      BY <1>1, <2>1, <2>2 DEF Process!Orderly, Process!CleanStop, Process!Active
    <2>4. QED
      BY <2>3 DEF Process!ProcessInv
  <1>6. CASE Process!ServeFails
    <2>1. CASE unit = "api"
      <3>1. proc # "down" /\ Process!Exit("error") /\ UNCHANGED <<unit, procCtx, asked, late>>
        BY <1>6, <2>1 DEF Process!ServeFails
      <3>2. QED
        BY <1>1, <3>1, ProcessExit DEF Process!TypeOK
    <2>2. CASE unit # "api"
      <3>1. Process!TypeOK' /\ Process!Orderly' /\ exit' # "ok"
        BY <1>1, <1>6, <2>2 DEF Process!ServeFails, Process!TypeOK, Process!Orderly,
               Process!Active
      <3>2. QED
        BY <3>1, ProcessStays
    <2>3. QED
      BY <2>1, <2>2
  <1>7. ASSUME NEW r \in Requests, Process!Accept(r) \/ Process!Answer(r) \/ Process!Upgrade(r)
        PROVE  Process!ProcessInv'
    <2>1. Process!TypeOK' /\ Process!Orderly' /\ exit' # "ok"
      BY <1>1, <1>7 DEF Process!Accept, Process!Answer, Process!Upgrade, Process!TypeOK,
             Process!Orderly, Process!Active
    <2>2. QED
      BY <2>1, ProcessStays
  <1>8. CASE Process!Signal
    <2>1. CASE unit = "api" \/ proc = "starting"
      <3>1. proc # "down" /\ Process!Exit("signal") /\ late' = TRUE /\ asked' = TRUE
            /\ UNCHANGED <<unit, procCtx>>
        BY <1>8, <2>1 DEF Process!Signal
      <3>2. QED
        BY <1>1, <3>1, ProcessExit
    <2>2. CASE ~(unit = "api" \/ proc = "starting")
      <3>1. Process!TypeOK' /\ Process!Orderly' /\ exit' # "ok"
        BY <1>1, <1>8, <2>2 DEF Process!Signal, Process!TypeOK, Process!Orderly,
               Process!Active
      <3>2. QED
        BY <3>1, ProcessStays
    <2>3. QED
      BY <2>1, <2>2
  <1>9. CASE Process!ShutdownBegins \/ Process!NotifyServeReturns
    <2>1. Process!TypeOK' /\ Process!Orderly' /\ exit' # "ok"
      BY <1>1, <1>9 DEF Process!ShutdownBegins, Process!NotifyServeReturns, Process!TypeOK,
             Process!Orderly, Process!Active
    <2>2. QED
      BY <2>1, ProcessStays
  <1>10. CASE Process!ShutdownReturns \/ Process!ShutdownExpires
    <2>1. /\ proc = "stopping" /\ procCtx = "done" /\ late' \in BOOLEAN
          /\ late' \/ Process!Active = {}
          /\ UNCHANGED <<unit, procCtx, asked>>
      BY <1>1, <1>10 DEF Process!ShutdownReturns, Process!ShutdownExpires, Process!Orderly,
             Process!TypeOK
    <2>2. CASE unit = "app-gateway"
      <3>1. Process!Exit("ok")
        BY <1>10, <2>2 DEF Process!ShutdownReturns, Process!ShutdownExpires
      <3>2. QED
        BY <1>1, <2>1, <3>1, ProcessExit DEF Process!TypeOK
    <2>3. CASE unit # "app-gateway"
      <3>1. proc' = "stopped" /\ UNCHANGED <<procListener, exit, req>>
        BY <1>10, <2>3 DEF Process!ShutdownReturns, Process!ShutdownExpires
      <3>2. Process!TypeOK' /\ Process!Orderly' /\ exit' # "ok"
        BY <1>1, <2>1, <3>1 DEF Process!TypeOK, Process!Orderly, Process!Active
      <3>3. QED
        BY <3>2, ProcessStays
    <2>4. QED
      BY <2>2, <2>3
  <1>11. CASE Process!GatewayExits
    <2>1. /\ proc # "down" /\ Process!Exit("ok") /\ UNCHANGED <<unit, procCtx, asked, late>>
          /\ procCtx = "done"
          /\ late \/ Process!Active = {}
      BY <1>1, <1>11 DEF Process!GatewayExits, Process!Orderly
    <2>2. QED
      BY <1>1, <2>1, ProcessExit DEF Process!TypeOK
  <1>12. CASE UNCHANGED Process!vars
    BY <1>1, <1>12 DEF Process!vars, Process!ProcessInv, Process!CleanStop, Process!Orderly,
           Process!TypeOK, Process!Active
  <1>13. QED
    BY <1>3, <1>4, <1>5, <1>6, <1>7, <1>8, <1>9, <1>10, <1>11, <1>12
       DEF Process!Next, Process!Stopping

\* An HTTP server that ends in good order has answered what it accepted, except connections
\* that were taken over, unless its wait expired or it did not wait; and it ends in good order
\* only when told to (cmd/app-gateway/main.go:84, cmd/ssh-gateway/main.go:111).
THEOREM ProcessesSound == Process!Spec => []Process!ProcessInv
  <1>1. Process!Init => Process!ProcessInv
    BY DEF Process!Init, Process!ProcessInv, Process!CleanStop, Process!Orderly,
           Process!TypeOK, Process!NoRequests
  <1>2. QED
    BY <1>1, ProcessInvStep, PTL DEF Process!Spec

-----------------------------------------------------------------------------
(* The web console *)

\* What is proved step by step: the limits follow from it.
LEMMA ConsoleParts ==
    /\ Console!TypeOK /\ Console!Underway => Console!ConsoleInv
    /\ (Console!TypeOK /\ Console!Underway => Console!ConsoleInv)'
  BY DEF Console!ConsoleInv, Console!TypeOK, Console!Underway, Console!WithinLimits,
         Console!Verdicts

\* The console before it starts.
LEMMA ConsoleInit ==
    ASSUME Console!ConsoleLivenessAssumption, Console!Init
    PROVE  Console!ConsoleInv
  <1>1. Console!TypeOK
    <2>1. clock \in Nat /\ lastActive \in 0 .. clock
      BY DEF Console!Init
    <2>2. QED
      BY <2>1 DEF Console!Init, Console!TypeOK
  <1>2. Console!Underway
    BY DEF Console!Init, Console!Underway
  <1>3. QED
    BY <1>1, <1>2, ConsoleParts

\* The first cause stays.
LEMMA CancelFacts ==
    ASSUME Console!TypeOK, NEW cause \in {"canceled"} \cup Console!Verdicts,
           Console!Cancel(cause)
    PROVE  /\ ctx' \in {"canceled"} \cup Console!Verdicts
           /\ ctx # "live" => ctx' = ctx
           /\ ctx = "live" => ctx' = cause
  BY DEF Console!TypeOK, Console!Cancel, Console!Verdicts

\* A step that leaves the clock and the relay alone keeps the limits, if the watcher stays
\* or stops, and the cause is the first one.
LEMMA ConsoleQuiet ==
    ASSUME Console!ConsoleLivenessAssumption, Console!TypeOK, Console!Underway, Console!TypeOK',
           UNCHANGED <<clock, ticked, relay, outcome>>,
           lastActive' \in {lastActive, clock},
           watch' = watch \/ (watch # "off" /\ watch' = "stopped"),
           ctx # "live" => ctx' = ctx,
           vm \in {"exited", "broken"} => vm' \in {"exited", "broken"}
    PROVE  Console!Underway'
  <1>1. clock - lastActive < IdleTimeout => clock' - lastActive' < IdleTimeout
    <2>1. clock \in Nat /\ clock' = clock /\ IdleTimeout \in Nat /\ IdleTimeout > 0
      BY DEF Console!TypeOK, Console!ConsoleLivenessAssumption
    <2>2. QED
      BY <2>1
  <1>2. relay' = "idle" => clock' = 0 /\ watch' = "off"
    BY DEF Console!Underway
  <1>3. watch' \in {"probeVM", "probePeer"} \/ (watch' = "waiting" /\ ~ticked') =>
            clock' < MaxLifetime /\ clock' - lastActive' < IdleTimeout
    BY <1>1 DEF Console!Underway
  <1>4. relay' = "waiting" => ctx' # "live"
    BY DEF Console!Underway
  <1>5. relay' \in {"closing", "returned"} =>
            vm' \in {"exited", "broken"} \/ ctx' \in {outcome', "canceled"}
    BY DEF Console!Underway, Console!TypeOK, Console!Verdicts
  <1>6. QED
    BY <1>2, <1>3, <1>4, <1>5 DEF Console!Underway

\* Each step of a console keeps its limits and the order of its teardown.
LEMMA ConsoleInvStep ==
    ASSUME Console!ConsoleLivenessAssumption,
           Console!ConsoleInv, [Console!Next]_(Console!vars)
    PROVE  Console!ConsoleInv'
  <1>1. Console!TypeOK /\ Console!Underway
    BY DEF Console!ConsoleInv
  <1>2. CASE Console!Start
    <2>1. Console!TypeOK'
      BY <1>1, <1>2 DEF Console!TypeOK, Console!Start
    <2>2. Console!Underway'
      BY <1>1, <1>2 DEF Console!ConsoleLivenessAssumption, Console!TypeOK, Console!Start,
             Console!Underway
    <2>3. QED
      BY <2>1, <2>2, ConsoleParts
  <1>3. CASE \/ Console!VMChanges \/ Console!PeerChanges \/ Console!Input \/ Console!InputTaken
             \/ Console!Output
    <2>1. Console!TypeOK'
      <3>1. CASE Console!VMChanges \/ Console!PeerChanges \/ Console!InputTaken
        <4>1. /\ UNCHANGED <<clock, lastActive, ctx, watch, ticked, pumps, relay, outcome>>
              /\ vm' \in {"up", "silent", "exited", "broken"} /\ peer' \in {"up", "silent", "gone"}
              /\ stuffed' \in BOOLEAN
          BY <1>1, <3>1 DEF Console!TypeOK, Console!VMChanges, Console!PeerChanges,
                 Console!InputTaken
        <4>2. QED
          BY <1>1, <4>1 DEF Console!TypeOK
      <3>2. CASE Console!Input
        BY <1>1, <3>2 DEF Console!TypeOK, Console!Input, Console!Touch
      <3>3. CASE Console!Output
        BY <1>1, <3>3 DEF Console!TypeOK, Console!Output, Console!Touch
      <3>4. QED
        BY <1>3, <3>1, <3>2, <3>3
    <2>2. /\ UNCHANGED <<clock, ticked, relay, outcome, watch, ctx>>
          /\ lastActive' \in {lastActive, clock}
          /\ vm \in {"exited", "broken"} => vm' \in {"exited", "broken"}
      BY <1>3 DEF Console!VMChanges, Console!PeerChanges, Console!Input, Console!InputTaken,
             Console!Output, Console!Touch
    <2>3. QED
      BY <1>1, <2>1, <2>2, ConsoleQuiet, ConsoleParts
  <1>4. CASE Console!Tick
    <2>1. Console!TypeOK'
      BY <1>1, <1>4 DEF Console!TypeOK, Console!Tick
    <2>2. Console!Underway'
      BY <1>1, <1>4 DEF Console!TypeOK, Console!Tick, Console!Underway
    <2>3. QED
      BY <2>1, <2>2, ConsoleParts
  <1>5. CASE Console!Pumps
    <2>1. /\ Console!Cancel("canceled") /\ pumps' \subseteq pumps /\ stuffed' \in BOOLEAN
          /\ UNCHANGED <<clock, ticked, relay, outcome, watch, lastActive, vm, peer>>
      BY <1>1, <1>5 DEF Console!Pumps, Console!InputEnds, Console!OutputRefused,
             Console!OutputEnds, Console!PumpEnds, Console!TypeOK
    <2>2. ctx' \in {"canceled"} \cup Console!Verdicts /\ (ctx # "live" => ctx' = ctx)
      BY <1>1, <2>1, CancelFacts
    <2>3. Console!TypeOK'
      BY <1>1, <2>1, <2>2 DEF Console!TypeOK
    <2>4. QED
      BY <1>1, <2>1, <2>2, <2>3, ConsoleQuiet, ConsoleParts
  <1>6. ASSUME NEW cause \in Console!Verdicts, Console!Verdict(cause), watch # "off",
               ticked' \in BOOLEAN,
               UNCHANGED <<clock, lastActive, vm, peer, pumps, stuffed, relay, outcome>>
        PROVE  Console!ConsoleInv'
    <2>1. watch' = "stopped" /\ Console!Cancel(cause)
      BY <1>6 DEF Console!Verdict
    <2>2. ctx' \in {"canceled"} \cup Console!Verdicts /\ (ctx # "live" => ctx' = ctx)
      BY <1>1, <2>1, CancelFacts
    <2>3. Console!TypeOK'
      BY <1>1, <1>6, <2>1, <2>2 DEF Console!TypeOK
    <2>4. Console!Underway'
      BY <1>1, <1>6, <2>1, <2>2, <2>3 DEF Console!TypeOK, Console!Underway, Console!Verdicts
    <2>5. QED
      BY <2>3, <2>4, ConsoleParts
  <1>7. CASE Console!WatchStops
    <2>1. Console!TypeOK'
      BY <1>1, <1>7 DEF Console!TypeOK, Console!WatchStops
    <2>2. Console!Underway'
      BY <1>1, <1>7, <2>1, ConsoleQuiet DEF Console!WatchStops
    <2>3. QED
      BY <2>1, <2>2, ConsoleParts
  <1>8. CASE Console!Check
    <2>1. CASE Console!Verdict("lifetime") \/ Console!Verdict("idle")
      BY <1>6, <1>8, <2>1 DEF Console!Check, Console!Verdicts
    <2>2. CASE ~Console!Expired /\ ~Console!Idle /\ watch' = "probeVM" /\ ctx' = ctx
      <3>1. Console!TypeOK'
        BY <1>1, <1>8, <2>2 DEF Console!TypeOK, Console!Check
      <3>2. clock < MaxLifetime /\ clock - lastActive < IdleTimeout
        BY <1>1, <2>2 DEF Console!ConsoleLivenessAssumption, Console!TypeOK, Console!Expired,
               Console!Idle
      <3>3. Console!Underway'
        BY <1>1, <1>8, <2>2, <3>2 DEF Console!Check, Console!Underway
      <3>4. QED
        BY <3>1, <3>3, ConsoleParts
    <2>3. QED
      BY <1>8, <2>1, <2>2 DEF Console!Check
  <1>9. CASE Console!ProbeVM \/ Console!ProbePeer
    <2>1. CASE Console!Verdict("probe")
      BY <1>1, <1>6, <1>9, <2>1 DEF Console!ProbeVM, Console!ProbePeer, Console!Verdicts,
             Console!TypeOK
    <2>2. CASE watch' \in {"probePeer", "waiting"} /\ ctx' = ctx
      <3>1. Console!TypeOK'
        <4>1. UNCHANGED <<clock, lastActive, ticked, vm, peer, pumps, stuffed, relay, outcome>>
          BY <1>9 DEF Console!ProbeVM, Console!ProbePeer
        <4>2. QED
          BY <1>1, <2>2, <4>1 DEF Console!TypeOK
      <3>2. Console!Underway'
        BY <1>1, <1>9, <2>2 DEF Console!Underway, Console!ProbeVM, Console!ProbePeer
      <3>3. QED
        BY <3>1, <3>2, ConsoleParts
    <2>3. QED
      BY <1>9, <2>1, <2>2 DEF Console!ProbeVM, Console!ProbePeer, Console!ProbeFails
  <1>10. CASE Console!SelectWait \/ Console!SelectDone \/ Console!WaitReturns
    <2>1. Console!TypeOK'
      BY <1>1, <1>10 DEF Console!TypeOK, Console!SelectWait, Console!SelectDone,
             Console!WaitReturns
    <2>2. Console!Underway'
      BY <1>1, <1>10 DEF Console!TypeOK, Console!Underway, Console!SelectWait,
             Console!SelectDone, Console!WaitReturns
    <2>3. QED
      BY <2>1, <2>2, ConsoleParts
  <1>11. CASE Console!Return
    <2>1. ctx' \in {"canceled"} \cup Console!Verdicts /\ (ctx # "live" => ctx' = ctx)
          /\ (ctx = "live" => ctx' = "canceled")
      BY <1>1, <1>11, CancelFacts DEF Console!Return
    <2>2. Console!TypeOK'
      BY <1>1, <1>11, <2>1 DEF Console!TypeOK, Console!Return
    <2>3. Console!Underway'
      BY <1>1, <1>11, <2>1 DEF Console!TypeOK, Console!Underway, Console!Return
    <2>4. QED
      BY <2>2, <2>3, ConsoleParts
  <1>12. CASE UNCHANGED Console!vars
    BY <1>1, <1>12, ConsoleParts DEF Console!vars, Console!TypeOK, Console!Underway
  <1>13. QED
    BY <1>2, <1>3, <1>4, <1>5, <1>7, <1>8, <1>9, <1>10, <1>11, <1>12
       DEF Console!Next, Console!Watcher, Console!Relay

\* After every check a console whose context is live is within its lifetime and its idle
\* time, whatever they are, and the reason for its end is lost only if its shell had ended by
\* itself (access/console_liveness.go:58, handler.go:402).
THEOREM ConsoleSound == Console!Spec => []Console!ConsoleInv
  <1>1. Console!Init => Console!ConsoleInv
    BY ConsoleInit, ConsoleAssumption
  <1>2. Console!ConsoleInv /\ [Console!Next]_(Console!vars) => Console!ConsoleInv'
    BY ConsoleInvStep, ConsoleAssumption
  <1>3. QED
    BY <1>1, <1>2, PTL DEF Console!Spec
-----------------------------------------------------------------------------
(* The SSH gateway *)

\* The instance's operators on finite sets are those of FiniteSets.
LEMMA GatewayCount ==
    ASSUME NEW S
    PROVE  /\ Gateway!Cardinality(S) = Cardinality(S)
           /\ Gateway!IsFiniteSet(S) <=> IsFiniteSet(S)
  <1>1. Gateway!Cardinality(S) = Cardinality(S)
    BY DEF Gateway!Cardinality, Cardinality
  <1>2. Gateway!IsFiniteSet(S) <=> IsFiniteSet(S)
    BY DEF Gateway!IsFiniteSet, IsFiniteSet
  <1>3. QED
    BY <1>1, <1>2

\* The states of a connection that holds a slot, and those whose handler has not returned.
Slotted == {"handshake", "open", "closing"}
Handled == Slotted \cup {"released"}

\* A connection that moves takes a slot, gives one back, or does neither.
SlotMove(c, to) ==
    \/ (to \in Slotted <=> gwConn[c] \in Slotted) /\ UNCHANGED gwSem
    \/ to \in Slotted /\ gwConn[c] \notin Slotted /\ gwSem < GwMaxConns /\ gwSem' = gwSem + 1
    \/ to \notin Slotted /\ gwConn[c] \in Slotted /\ gwSem' = gwSem - 1

\* The slots taken are the connections in Slotted, before and after a move.
LEMMA GatewaySlots ==
    ASSUME Gateway!GatewayServerAssumption, Gateway!TypeOK,
           gwSem = Gateway!Cardinality(Gateway!In(Slotted)),
           NEW c \in GwConns, NEW to,
           gwConn' = [gwConn EXCEPT ![c] = to], SlotMove(c, to)
    PROVE  /\ gwSem' = Gateway!Cardinality(Gateway!In(Slotted)')
           /\ gwSem' \in 0 .. GwMaxConns
  <1> DEFINE before == {x \in GwConns : gwConn[x] \in Slotted}
             after  == {x \in GwConns : gwConn'[x] \in Slotted}
  <1>0. Gateway!In(Slotted) = before /\ Gateway!In(Slotted)' = after
    BY DEF Gateway!In
  <1>1. IsFiniteSet(before) /\ Cardinality(before) \in Nat
    BY GatewayCount, FS_Subset, FS_CardinalityType DEF Gateway!GatewayServerAssumption
  <1>2. IsFiniteSet(after) /\ Cardinality(after) \in Nat
    BY GatewayCount, FS_Subset, FS_CardinalityType DEF Gateway!GatewayServerAssumption
  <1>3. gwConn \in [GwConns -> Gateway!ConnStates] /\ gwSem \in 0 .. GwMaxConns /\ GwMaxConns \in Nat
    BY DEF Gateway!TypeOK, Gateway!GatewayServerAssumption
  <1>4. gwSem = Cardinality(before)
    BY <1>0, GatewayCount
  <1>5. CASE (to \in Slotted <=> gwConn[c] \in Slotted) /\ UNCHANGED gwSem
    <2>1. after = before
      BY <1>3, <1>5
    <2>2. QED
      BY <1>0, <1>3, <1>4, <1>5, <2>1, GatewayCount
  <1>6. CASE to \in Slotted /\ gwConn[c] \notin Slotted /\ gwSem < GwMaxConns /\ gwSem' = gwSem + 1
    <2>1. after = before \cup {c} /\ c \notin before
      BY <1>3, <1>6
    <2> HIDE DEF before, after
    <2>2. Cardinality(after) = Cardinality(before) + 1
      BY <1>1, <2>1, FS_AddElement
    <2>3. QED
      BY <1>0, <1>3, <1>4, <1>6, <2>2, GatewayCount
  <1>7. CASE to \notin Slotted /\ gwConn[c] \in Slotted /\ gwSem' = gwSem - 1
    <2>1. after = before \ {c} /\ c \in before
      BY <1>3, <1>7
    <2> HIDE DEF before, after
    <2>2. Cardinality(after) = Cardinality(before) - 1
      BY <1>1, <2>1, FS_RemoveElement
    <2>3. QED
      BY <1>0, <1>2, <1>3, <1>4, <1>7, <2>2, GatewayCount
  <1>8. QED
    BY <1>5, <1>6, <1>7 DEF SlotMove

\* Where handleSession has a key to delete.
Keyed == {"inner", "setup", "relay", "stuffed", "cleanup"}

\* What is proved step by step, connection by connection where it can be.
GatewayParts ==
    /\ Gateway!TypeOK
    /\ gwSem = Gateway!Cardinality(Gateway!In(Slotted))
    /\ \A c \in GwConns :
        /\ "own" \in key[c] <=> sess[c] \in Keyed
        /\ sess[c] # "none" => gwConn[c] \in {"open", "closing", "released", "done"}
        /\ gwServe \in {"waiting", "returned"} => gwConn[c] # "held"
        /\ gwServe = "returned" => gwConn[c] \notin Handled
    /\ gwServe \in {"waiting", "returned"} => gwListener = "closed"
    /\ gwMain = "drained" => gwServe = "returned"

\* The invariant of the gateway's server, from its parts.
LEMMA GatewayPartsInv ==
    /\ GatewayParts <=> Gateway!GatewayInv
    /\ GatewayParts' <=> Gateway!GatewayInv'
  <1>1. GatewayParts <=> Gateway!GatewayInv
    BY DEF GatewayParts, Gateway!GatewayInv, Gateway!SlotsAndKeys, Gateway!ServeEnds,
           Gateway!In, Slotted, Handled, Keyed
  <1>2. GatewayParts' <=> Gateway!GatewayInv'
    BY DEF GatewayParts, Gateway!GatewayInv, Gateway!SlotsAndKeys, Gateway!ServeEnds,
           Gateway!In, Slotted, Handled, Keyed
  <1>3. QED
    BY <1>1, <1>2

\* A step that moves one connection, and leaves the session and the server but for its slots.
LEMMA ConnectionMoves ==
    ASSUME Gateway!GatewayServerAssumption, GatewayParts, Gateway!Alive,
           NEW c \in GwConns, NEW to \in Gateway!ConnStates,
           gwConn' = [gwConn EXCEPT ![c] = to], SlotMove(c, to),
           gwClientOpen' \subseteq GwConns,
           UNCHANGED <<Gateway!session, gwListener, gwServe, gwMain>>,
           sess[c] # "none" => to \in {"open", "closing", "released", "done"},
           to = "held" => gwServe = "accepting",
           to \in Handled => gwConn[c] \in Handled \cup {"held"}
    PROVE  GatewayParts'
  <1>1. gwSem' = Gateway!Cardinality(Gateway!In(Slotted)') /\ gwSem' \in 0 .. GwMaxConns
    BY GatewaySlots DEF GatewayParts
  <1>2. Gateway!TypeOK'
    BY <1>1 DEF GatewayParts, Gateway!TypeOK, Gateway!session
  <1>3. \A d \in GwConns :
           /\ "own" \in key'[d] <=> sess'[d] \in Keyed
           /\ sess'[d] # "none" => gwConn'[d] \in {"open", "closing", "released", "done"}
           /\ gwServe' \in {"waiting", "returned"} => gwConn'[d] # "held"
           /\ gwServe' = "returned" => gwConn'[d] \notin Handled
    <2> TAKE d \in GwConns
    <2>1. CASE d = c
      BY <2>1 DEF GatewayParts, Gateway!TypeOK, Gateway!session
    <2>2. CASE d # c
      BY <2>2 DEF GatewayParts, Gateway!TypeOK, Gateway!session
    <2>3. QED
      BY <2>1, <2>2
  <1>4. QED
    BY <1>1, <1>2, <1>3 DEF GatewayParts, Slotted

\* A step of a session: it has a key where it owes a deletion, and starts on an open
\* connection.
LEMMA SessionMoves ==
    ASSUME GatewayParts, NEW c \in GwConns,
           Gateway!TypeOK', UNCHANGED <<gwConn, Gateway!server>>,
           \A d \in GwConns \ {c} : key'[d] = key[d] /\ sess'[d] = sess[d],
           "own" \in key'[c] <=> sess'[c] \in Keyed,
           sess'[c] # "none" => sess[c] # "none" \/ gwConn[c] = "open"
    PROVE  GatewayParts'
  <1>1. \A d \in GwConns :
           /\ "own" \in key'[d] <=> sess'[d] \in Keyed
           /\ sess'[d] # "none" => gwConn'[d] \in {"open", "closing", "released", "done"}
           /\ gwServe' \in {"waiting", "returned"} => gwConn'[d] # "held"
           /\ gwServe' = "returned" => gwConn'[d] \notin Handled
    <2> TAKE d \in GwConns
    <2>1. CASE d = c
      BY <2>1 DEF GatewayParts, Gateway!server
    <2>2. CASE d # c
      BY <2>2 DEF GatewayParts, Gateway!server
    <2>3. QED
      BY <2>1, <2>2
  <1>2. QED
    BY <1>1 DEF GatewayParts, Gateway!server, Gateway!In

\* The session moves on with another reader; its tries and its key are as given.
LEMMA SessionTypes ==
    ASSUME Gateway!TypeOK, NEW c \in GwConns,
           NEW to \in Gateway!SessStates, NEW who \in Gateway!Readers, Gateway!Moves(c, to, who),
           gwClientOpen' \subseteq gwClientOpen,
           tries' \in [GwConns -> Nat], key' \in [GwConns -> SUBSET Gateway!Keys]
    PROVE  /\ Gateway!TypeOK' /\ UNCHANGED <<gwConn, Gateway!server>>
           /\ sess'[c] = to
           /\ \A d \in GwConns \ {c} : sess'[d] = sess[d]
  BY DEF Gateway!TypeOK, Gateway!Moves, Gateway!server

\* A session that moves on, and keeps its key or has none yet.
LEMMA SessionKeeps ==
    ASSUME GatewayParts, NEW c \in GwConns,
           NEW to \in Gateway!SessStates, NEW who \in Gateway!Readers, Gateway!Moves(c, to, who),
           sess[c] # "none",
           sess[c] \in Keyed <=> to \in Keyed,
           gwClientOpen' \subseteq gwClientOpen,
           tries' \in [GwConns -> Nat], UNCHANGED key
    PROVE  GatewayParts'
  <1>1. Gateway!TypeOK
    BY DEF GatewayParts
  <1>2. key' \in [GwConns -> SUBSET Gateway!Keys]
    BY <1>1 DEF Gateway!TypeOK
  <1>3. /\ Gateway!TypeOK' /\ UNCHANGED <<gwConn, Gateway!server>>
        /\ sess'[c] = to
        /\ \A d \in GwConns \ {c} : sess'[d] = sess[d]
    BY <1>1, <1>2, SessionTypes
  <1>4. "own" \in key'[c] <=> sess'[c] \in Keyed
    BY <1>3 DEF GatewayParts
  <1>5. QED
    BY <1>3, <1>4, SessionMoves

\* The requests of one session change, and who takes them.
LEMMA QueueMoves ==
    ASSUME GatewayParts, NEW c \in GwConns,
           queue' \in [GwConns -> Seq({"shell", "other"})],
           \A d \in GwConns : Len(queue'[d]) <= GwChanSize + 1,
           reader' \in [GwConns -> Gateway!Readers],
           UNCHANGED <<gwConn, gwClientOpen, sess, tries, key, Gateway!server>>
    PROVE  GatewayParts'
  <1>1. Gateway!TypeOK'
    BY DEF GatewayParts, Gateway!TypeOK, Gateway!server
  <1>2. QED
    BY <1>1, SessionMoves DEF GatewayParts

\* Of the steps of a connection, those of the client, the mux and the handler.
LEMMA ConnectionSteps ==
    ASSUME Gateway!GatewayServerAssumption, GatewayParts, NEW c \in GwConns,
           \/ Gateway!Connect(c) \/ Gateway!HangUp(c) \/ Gateway!HandshakeOk(c)
           \/ Gateway!Handle(c)
           \/ Gateway!Accept(c) \/ Gateway!Start(c) \/ Gateway!Deny(c)
    PROVE  GatewayParts'
  <1>1. /\ gwConn \in [GwConns -> Gateway!ConnStates] /\ gwClientOpen \subseteq GwConns
        /\ sess[c] # "none" => gwConn[c] \in {"open", "closing", "released", "done"}
    BY DEF GatewayParts, Gateway!TypeOK
  <1>2. CASE Gateway!HangUp(c)
    <2>1. Gateway!TypeOK'
      BY <1>2 DEF GatewayParts, Gateway!TypeOK, Gateway!HangUp, Gateway!session, Gateway!server
    <2>2. QED
      BY <1>2, <2>1, SessionMoves DEF GatewayParts, Gateway!HangUp, Gateway!session
  <1>3. CASE Gateway!Connect(c)
    <2>1. SlotMove(c, "queued")
      BY <1>3 DEF SlotMove, Gateway!Connect, Gateway!server, Slotted
    <2>2. QED
      BY <1>1, <1>3, <2>1, ConnectionMoves DEF Gateway!Connect, Gateway!server,
             Gateway!ConnStates, Handled, Slotted
  <1>4. CASE Gateway!HandshakeOk(c)
    <2>1. SlotMove(c, "open")
      BY <1>4 DEF SlotMove, Gateway!HandshakeOk, Gateway!server, Slotted
    <2>2. QED
      BY <1>1, <1>4, <2>1, ConnectionMoves DEF Gateway!HandshakeOk, Gateway!Hears,
             Gateway!server, Gateway!ConnStates, Handled, Slotted
  <1>5. CASE Gateway!MuxEnds(c) \/ Gateway!HandshakeFails(c)
    <2>1. SlotMove(c, "closing")
      BY <1>5 DEF SlotMove, Gateway!MuxEnds, Gateway!HandshakeFails, Gateway!server, Slotted
    <2>2. QED
      BY <1>1, <1>5, <2>1, ConnectionMoves DEF Gateway!MuxEnds, Gateway!HandshakeFails,
             Gateway!server, Gateway!ConnStates, Handled, Slotted
  <1>6. CASE Gateway!ReleaseSlot(c)
    <2>1. SlotMove(c, "released")
      BY <1>6 DEF SlotMove, Gateway!ReleaseSlot, Slotted
    <2>2. QED
      BY <1>1, <1>6, <2>1, ConnectionMoves DEF Gateway!ReleaseSlot, Gateway!ConnStates,
             Handled, Slotted
  <1>7. CASE Gateway!HandleDone(c)
    <2>1. SlotMove(c, "done")
      BY <1>7 DEF SlotMove, Gateway!HandleDone, Gateway!server, Slotted
    <2>2. QED
      BY <1>1, <1>7, <2>1, ConnectionMoves DEF Gateway!HandleDone, Gateway!server,
             Gateway!ConnStates, Handled, Slotted
  <1>8. CASE Gateway!Accept(c)
    <2>1. SlotMove(c, "held")
      BY <1>8 DEF SlotMove, Gateway!Accept, Gateway!server, Slotted
    <2>2. QED
      BY <1>1, <1>8, <2>1, ConnectionMoves DEF Gateway!Accept, Gateway!server,
             Gateway!ConnStates, Handled, Slotted
  <1>9. CASE Gateway!Start(c)
    <2>1. SlotMove(c, "handshake")
      BY <1>9 DEF SlotMove, Gateway!Start, Slotted
    <2>2. QED
      BY <1>1, <1>9, <2>1, ConnectionMoves DEF Gateway!Start, Gateway!ConnStates,
             Handled, Slotted
  <1>10. CASE Gateway!Deny(c)
    <2>1. SlotMove(c, "denied")
      BY <1>10 DEF SlotMove, Gateway!Deny, Gateway!server, Slotted
    <2>2. QED
      BY <1>1, <1>10, <2>1, ConnectionMoves DEF Gateway!Deny, Gateway!server,
             Gateway!ConnStates, Handled, Slotted
  <1>11. QED
    BY <1>2, <1>3, <1>4, <1>5, <1>6, <1>7, <1>8, <1>9, <1>10 DEF Gateway!Handle

\* The requests of a session: the mux hands one over while there is a place, its reader takes
\* the first one.
LEMMA RequestSteps ==
    ASSUME Gateway!GatewayServerAssumption, GatewayParts, NEW c \in GwConns,
           \/ \E kind \in {"shell", "other"} : Gateway!Request(c, kind)
           \/ Gateway!Pump(c) \/ Gateway!TakeRequest(c)
    PROVE  GatewayParts'
  <1>1. /\ queue \in [GwConns -> Seq({"shell", "other"})] /\ GwChanSize \in Nat
        /\ \A d \in GwConns : Len(queue[d]) <= GwChanSize + 1
        /\ reader \in [GwConns -> Gateway!Readers]
    BY DEF GatewayParts, Gateway!TypeOK, Gateway!GatewayServerAssumption
  <1>2. ASSUME NEW kind \in {"shell", "other"}, Gateway!Request(c, kind)
        PROVE  GatewayParts'
    <2>1. queue' = [queue EXCEPT ![c] = Append(queue[c], kind)]
          /\ Len(queue[c]) <= GwChanSize
      BY <1>1, <1>2 DEF Gateway!Request, Gateway!Hears, Gateway!Blocked
    <2>2. Append(queue[c], kind) \in Seq({"shell", "other"})
          /\ Len(Append(queue[c], kind)) = Len(queue[c]) + 1
      BY <1>1
    <2>3. queue' \in [GwConns -> Seq({"shell", "other"})]
          /\ \A d \in GwConns : Len(queue'[d]) <= GwChanSize + 1
      BY <1>1, <2>1, <2>2
    <2>4. reader' = reader /\ UNCHANGED <<gwConn, gwClientOpen, sess, tries, key, Gateway!server>>
      BY <1>2 DEF Gateway!Request
    <2>5. QED
      BY <1>1, <2>3, <2>4, QueueMoves
  <1>3. CASE Gateway!Pump(c) \/ Gateway!TakeRequest(c)
    <2>1. queue' = [queue EXCEPT ![c] = Tail(queue[c])] /\ queue[c] # <<>>
      BY <1>3 DEF Gateway!Pump, Gateway!TakeRequest
    <2>2. Tail(queue[c]) \in Seq({"shell", "other"})
          /\ Len(Tail(queue[c])) <= GwChanSize + 1
      BY <1>1, <2>1
    <2>3. queue' \in [GwConns -> Seq({"shell", "other"})]
          /\ \A d \in GwConns : Len(queue'[d]) <= GwChanSize + 1
      BY <1>1, <2>1, <2>2
    <2>4. reader' \in [GwConns -> Gateway!Readers]
      BY <1>1, <1>3 DEF Gateway!Pump, Gateway!TakeRequest, Gateway!Readers
    <2>5. UNCHANGED <<gwConn, gwClientOpen, sess, tries, key, Gateway!server>>
      BY <1>3 DEF Gateway!Pump, Gateway!TakeRequest
    <2>6. QED
      BY <2>3, <2>4, <2>5, QueueMoves
  <1>4. QED
    BY <1>2, <1>3

\* A session that moves on and whose keys change.
LEMMA SessionKeys ==
    ASSUME GatewayParts, NEW c \in GwConns,
           NEW to \in Gateway!SessStates, NEW who \in Gateway!Readers, Gateway!Moves(c, to, who),
           NEW k \in SUBSET Gateway!Keys, key' = [key EXCEPT ![c] = k],
           "own" \in k <=> to \in Keyed, sess[c] # "none",
           UNCHANGED gwClientOpen, tries' \in [GwConns -> Nat]
    PROVE  GatewayParts'
  <1>1. Gateway!TypeOK /\ key \in [GwConns -> SUBSET Gateway!Keys]
    BY DEF GatewayParts, Gateway!TypeOK
  <1>2. key' \in [GwConns -> SUBSET Gateway!Keys] /\ key'[c] = k
        /\ \A d \in GwConns \ {c} : key'[d] = key[d]
    BY <1>1
  <1>3. /\ Gateway!TypeOK' /\ UNCHANGED <<gwConn, Gateway!server>>
        /\ sess'[c] = to
        /\ \A d \in GwConns \ {c} : sess'[d] = sess[d]
    BY <1>1, <1>2, SessionTypes
  <1>4. QED
    BY <1>2, <1>3, SessionMoves

\* What the deletion of the session's own key may leave.
LEMMA KeyDeleted ==
    ASSUME GatewayParts, NEW c \in GwConns, Gateway!deleteEphemeralKey(c)
    PROVE  \E k \in SUBSET Gateway!Keys : key' = [key EXCEPT ![c] = k] /\ "own" \notin k
  <1>1. key[c] \in SUBSET Gateway!Keys
    BY DEF GatewayParts, Gateway!TypeOK
  <1>2. PICK left \in SUBSET {"left"} : key' = [key EXCEPT ![c] = (key[c] \ {"own"}) \cup left]
    BY DEF Gateway!deleteEphemeralKey
  <1>3. /\ (key[c] \ {"own"}) \cup left \in SUBSET Gateway!Keys
        /\ "own" \notin (key[c] \ {"own"}) \cup left
    BY <1>1, <1>2 DEF Gateway!Keys
  <1>4. QED
    BY <1>2, <1>3

\* handleSession before it dials.
LEMMA SessionStarts ==
    ASSUME GatewayParts, NEW c \in GwConns,
           \/ Gateway!OpenSession(c) \/ Gateway!ShellRequested(c) \/ Gateway!NoShellRequest(c)
           \/ Gateway!LookupFails(c) \/ Gateway!LookupDone(c, "dial")
           \/ Gateway!LookupDone(c, "menu") \/ Gateway!MenuSelects(c)
           \/ Gateway!MenuReadFails(c) \/ Gateway!MenuInvalid(c)
    PROVE  GatewayParts'
  <1>1. /\ Gateway!TypeOK
        /\ reader[c] \in Gateway!Readers /\ sess[c] \in Gateway!SessStates
        /\ tries \in [GwConns -> Nat] /\ key \in [GwConns -> SUBSET Gateway!Keys]
        /\ "own" \in key[c] <=> sess[c] \in Keyed
    BY DEF GatewayParts, Gateway!TypeOK
  <1>2. CASE Gateway!OpenSession(c)
    <2>1. Gateway!TypeOK'
      BY <1>1, <1>2 DEF Gateway!TypeOK, Gateway!OpenSession, Gateway!server, Gateway!Readers,
             Gateway!SessStates
    <2>2. /\ UNCHANGED <<gwConn, Gateway!server>> /\ gwConn[c] = "open"
          /\ "own" \notin key'[c] /\ sess'[c] \notin Keyed
          /\ \A d \in GwConns \ {c} : key'[d] = key[d] /\ sess'[d] = sess[d]
      BY <1>1, <1>2 DEF Gateway!TypeOK, Gateway!OpenSession, Keyed
    <2>3. QED
      BY <2>1, <2>2, SessionMoves
  <1>3. CASE \/ Gateway!ShellRequested(c) \/ Gateway!NoShellRequest(c) \/ Gateway!LookupFails(c)
             \/ Gateway!LookupDone(c, "dial") \/ Gateway!LookupDone(c, "menu")
    <2>1. PICK to \in Gateway!SessStates, who \in Gateway!Readers :
             Gateway!Moves(c, to, who) /\ to \notin Keyed
      BY <1>1, <1>3 DEF Gateway!ShellRequested, Gateway!NoShellRequest, Gateway!LookupFails,
             Gateway!LookupDone, Gateway!SessStates, Gateway!Readers, Keyed
    <2>2. UNCHANGED <<gwClientOpen, tries, key>> /\ sess[c] \in {"wait", "lookup"}
      BY <1>3 DEF Gateway!ShellRequested, Gateway!NoShellRequest, Gateway!LookupFails,
             Gateway!LookupDone
    <2>3. QED
      BY <1>1, <2>1, <2>2, SessionKeeps DEF Keyed
  <1>4. CASE Gateway!MenuSelects(c) \/ Gateway!MenuReadFails(c)
    <2>1. PICK to \in Gateway!SessStates, who \in Gateway!Readers :
             Gateway!Moves(c, to, who) /\ to \notin Keyed
      BY <1>1, <1>4 DEF Gateway!MenuSelects, Gateway!MenuReadFails, Gateway!SessStates,
             Gateway!Readers, Keyed
    <2>2. /\ UNCHANGED <<gwClientOpen, key>> /\ sess[c] = "menu"
          /\ tries' \in [GwConns -> Nat]
      BY <1>1, <1>4 DEF Gateway!MenuSelects, Gateway!MenuReadFails
    <2>3. QED
      BY <1>1, <2>1, <2>2, SessionKeeps DEF Keyed
  <1>5. CASE Gateway!MenuInvalid(c)
    <2>1. UNCHANGED <<gwClientOpen, key>> /\ sess[c] = "menu"
      BY <1>5 DEF Gateway!MenuInvalid
    <2>2. tries' \in [GwConns -> Nat]
      BY <1>1, <1>5 DEF Gateway!MenuInvalid
    <2>3. CASE tries[c] < 2
      <3>1. UNCHANGED <<gwConn, queue, reader, sess, Gateway!server>>
        BY <1>5, <2>3 DEF Gateway!MenuInvalid
      <3>2. Gateway!TypeOK'
        BY <1>1, <2>1, <2>2, <3>1 DEF Gateway!TypeOK, Gateway!server
      <3>3. QED
        BY <1>1, <2>1, <3>1, <3>2, SessionMoves
    <2>4. CASE ~(tries[c] < 2)
      <3>1. Gateway!Moves(c, "ended", "drain")
        BY <1>5, <2>4 DEF Gateway!MenuInvalid
      <3>2. "ended" \in Gateway!SessStates /\ "drain" \in Gateway!Readers
        BY DEF Gateway!SessStates, Gateway!Readers
      <3>3. QED
        BY <2>1, <2>2, <3>1, <3>2, SessionKeeps DEF Keyed
    <2>5. QED
      BY <2>3, <2>4
  <1>6. QED
    BY <1>2, <1>3, <1>4, <1>5

\* handleSession from the first key to the deferred calls.
LEMMA SessionDials ==
    ASSUME GatewayParts, NEW c \in GwConns,
           \/ Gateway!DialFails(c) \/ Gateway!Register(c) \/ Gateway!RegisterFails(c)
           \/ Gateway!InnerFails(c) \/ Gateway!InnerOk(c) \/ Gateway!Vm(c)
           \/ Gateway!Cleanup(c)
    PROVE  GatewayParts'
  <1>1. /\ Gateway!TypeOK
        /\ reader[c] \in Gateway!Readers /\ sess[c] \in Gateway!SessStates
        /\ tries \in [GwConns -> Nat] /\ key \in [GwConns -> SUBSET Gateway!Keys]
        /\ key[c] \in SUBSET Gateway!Keys
        /\ "own" \in key[c] <=> sess[c] \in Keyed
    BY DEF GatewayParts, Gateway!TypeOK
  <1>2. CASE Gateway!DialFails(c) \/ Gateway!InnerOk(c) \/ Gateway!Vm(c)
    <2>1. PICK to \in Gateway!SessStates, who \in Gateway!Readers :
             Gateway!Moves(c, to, who) /\ (sess[c] \in Keyed <=> to \in Keyed)
      BY <1>1, <1>2 DEF Gateway!DialFails, Gateway!InnerOk, Gateway!Vm, Gateway!SetupDone,
             Gateway!SetupFails, Gateway!VmHangs, Gateway!VmTakes, Gateway!RelayEnds,
             Gateway!SessStates, Gateway!Readers, Keyed
    <2>2. /\ gwClientOpen' \subseteq gwClientOpen /\ UNCHANGED key /\ sess[c] # "none"
          /\ tries' \in [GwConns -> Nat]
      BY <1>1, <1>2 DEF Gateway!DialFails, Gateway!InnerOk, Gateway!Vm, Gateway!SetupDone,
             Gateway!SetupFails, Gateway!VmHangs, Gateway!VmTakes, Gateway!RelayEnds
    <2>3. QED
      BY <2>1, <2>2, SessionKeeps
  <1>3. CASE Gateway!Register(c)
    <2>1. /\ key' = [key EXCEPT ![c] = key[c] \cup {"own"}]
          /\ key[c] \cup {"own"} \in SUBSET Gateway!Keys
          /\ "inner" \in Gateway!SessStates /\ "inner" \in Keyed
      BY <1>1, <1>3 DEF Gateway!Register, Gateway!Keys, Gateway!SessStates, Keyed
    <2>2. /\ Gateway!Moves(c, "inner", reader[c]) /\ sess[c] # "none"
          /\ UNCHANGED <<gwClientOpen, tries>>
      BY <1>3 DEF Gateway!Register
    <2>3. QED
      BY <1>1, <2>1, <2>2, SessionKeys
  <1>4. CASE Gateway!RegisterFails(c)
    <2>1. PICK left \in SUBSET {"left"} : key' = [key EXCEPT ![c] = key[c] \cup left]
      BY <1>4 DEF Gateway!RegisterFails
    <2>2. /\ key[c] \cup left \in SUBSET Gateway!Keys
          /\ "own" \in key[c] \cup left <=> "own" \in key[c]
      BY <1>1, <2>1 DEF Gateway!Keys
    <2>3. /\ key' \in [GwConns -> SUBSET Gateway!Keys] /\ key'[c] = key[c] \cup left
          /\ \A d \in GwConns \ {c} : key'[d] = key[d]
      BY <1>1, <2>1, <2>2
    <2>4. /\ tries' \in [GwConns -> Nat]
          /\ UNCHANGED <<gwConn, gwClientOpen, queue, reader, sess, Gateway!server>>
      BY <1>1, <1>4 DEF Gateway!RegisterFails
    <2>5. Gateway!TypeOK'
      BY <1>1, <2>3, <2>4 DEF Gateway!TypeOK, Gateway!server
    <2>6. QED
      BY <1>1, <2>2, <2>3, <2>4, <2>5, SessionMoves
  <1>5. CASE Gateway!InnerFails(c) \/ Gateway!Cleanup(c)
    <2>1. PICK to \in Gateway!SessStates : Gateway!Moves(c, to, reader[c]) /\ to \notin Keyed
      BY <1>5 DEF Gateway!InnerFails, Gateway!Cleanup, Gateway!SessStates, Keyed
    <2>2. /\ Gateway!deleteEphemeralKey(c) /\ sess[c] # "none" /\ UNCHANGED gwClientOpen
          /\ tries' \in [GwConns -> Nat]
      BY <1>1, <1>5 DEF Gateway!InnerFails, Gateway!Cleanup
    <2>3. PICK k \in SUBSET Gateway!Keys : key' = [key EXCEPT ![c] = k] /\ "own" \notin k
      BY <2>2, KeyDeleted
    <2>4. QED
      BY <1>1, <2>1, <2>2, <2>3, SessionKeys
  <1>6. QED
    BY <1>2, <1>3, <1>4, <1>5

\* Serve and main move no connection: Serve waits only once the listener is closed and no
\* connection is in its hands, and returns when the wait group is at zero.
LEMMA ServerSteps ==
    ASSUME GatewayParts,
           \/ Gateway!AcceptFails \/ Gateway!Wake \/ Gateway!AcceptClosed \/ Gateway!ServeReturns
           \/ Gateway!Signal \/ Gateway!Main
    PROVE  GatewayParts'
  <1>1. UNCHANGED <<gwConn, gwClientOpen, Gateway!session, gwSem>>
    BY DEF Gateway!AcceptFails, Gateway!Wake, Gateway!AcceptClosed, Gateway!ServeReturns,
           Gateway!Signal, Gateway!Main, Gateway!CloseListener, Gateway!Drained,
           Gateway!ForceExit
  <1>2. Gateway!TypeOK'
    BY <1>1 DEF GatewayParts, Gateway!TypeOK, Gateway!session,
           Gateway!AcceptFails, Gateway!Wake, Gateway!AcceptClosed, Gateway!ServeReturns,
           Gateway!Signal, Gateway!Main, Gateway!CloseListener, Gateway!Drained,
           Gateway!ForceExit
  <1>3. gwSem' = Gateway!Cardinality(Gateway!In(Slotted))'
    BY <1>1 DEF GatewayParts, Gateway!In
  <1>4. /\ \A c \in GwConns :
            /\ gwServe' \in {"waiting", "returned"} => gwConn[c] # "held"
            /\ gwServe' = "returned" => gwConn[c] \notin Handled
        /\ gwServe' \in {"waiting", "returned"} => gwListener' = "closed"
        /\ gwMain' = "drained" => gwServe' = "returned"
    <2>1. CASE Gateway!AcceptFails \/ Gateway!Wake \/ Gateway!Signal \/ Gateway!Main
      BY <2>1 DEF GatewayParts, Gateway!AcceptFails, Gateway!Wake, Gateway!Signal, Gateway!Alive,
             Gateway!Main, Gateway!CloseListener, Gateway!Drained, Gateway!ForceExit
    <2>2. CASE Gateway!AcceptClosed \/ Gateway!ServeReturns
      BY <2>2 DEF GatewayParts, Gateway!AcceptClosed, Gateway!ServeReturns, Gateway!Alive,
             Gateway!In, Handled, Slotted
    <2>3. QED
      BY <2>1, <2>2
  <1>5. QED
    BY <1>1, <1>2, <1>3, <1>4 DEF GatewayParts, Gateway!session

\* Every step of the gateway keeps the invariant.
LEMMA GatewayInvStep ==
    ASSUME Gateway!GatewayServerAssumption,
           Gateway!GatewayInv, [Gateway!Next]_(Gateway!vars)
    PROVE  Gateway!GatewayInv'
  <1> SUFFICES GatewayParts'
    BY GatewayPartsInv
  <1>1. GatewayParts
    BY GatewayPartsInv
  <1>2. ASSUME NEW c \in GwConns,
               \/ Gateway!Connect(c) \/ Gateway!HangUp(c) \/ Gateway!HandshakeOk(c)
               \/ Gateway!OpenSession(c)
               \/ \E kind \in {"shell", "other"} : Gateway!Request(c, kind)
               \/ Gateway!Handle(c) \/ Gateway!Pump(c) \/ Gateway!TakeRequest(c)
               \/ Gateway!Session(c) \/ Gateway!MenuSelects(c)
               \/ Gateway!MenuInvalid(c) \/ Gateway!Vm(c)
        PROVE  GatewayParts'
    BY <1>1, <1>2, ConnectionSteps, RequestSteps, SessionStarts, SessionDials DEF Gateway!Session
  <1>3. CASE Gateway!Serve \/ Gateway!AcceptFails \/ Gateway!Main \/ Gateway!Signal
    <2>1. ASSUME NEW c \in GwConns, Gateway!Accept(c) \/ Gateway!Start(c) \/ Gateway!Deny(c)
          PROVE  GatewayParts'
      BY <1>1, <2>1, ConnectionSteps
    <2>2. CASE \/ Gateway!AcceptFails \/ Gateway!Wake \/ Gateway!AcceptClosed
               \/ Gateway!ServeReturns \/ Gateway!Signal \/ Gateway!Main
      BY <1>1, <2>2, ServerSteps
    <2>3. QED
      BY <1>3, <2>1, <2>2 DEF Gateway!Serve
  <1>4. CASE UNCHANGED Gateway!vars
    <2>1. Gateway!TypeOK'
      BY <1>1, <1>4 DEF GatewayParts, Gateway!vars, Gateway!TypeOK
    <2>2. gwSem' = Gateway!Cardinality(Gateway!In(Slotted))'
      BY <1>1, <1>4 DEF GatewayParts, Gateway!vars, Gateway!In
    <2>3. QED
      BY <1>1, <1>4, <2>1, <2>2 DEF GatewayParts, Gateway!vars
  <1>5. QED
    BY <1>2, <1>3, <1>4 DEF Gateway!Next

\* The gateway before the first connection.
LEMMA GatewayInit ==
    ASSUME Gateway!GatewayServerAssumption, Gateway!Init
    PROVE  Gateway!GatewayInv
  <1>1. Gateway!TypeOK
    BY DEF Gateway!GatewayServerAssumption, Gateway!Init, Gateway!TypeOK, Gateway!ConnStates,
           Gateway!Readers, Gateway!SessStates
  <1>2. Gateway!In(Slotted) = {}
    BY DEF Gateway!Init, Gateway!In, Slotted
  <1>3. gwSem = Gateway!Cardinality(Gateway!In(Slotted))
    BY <1>2, FS_EmptySet, GatewayCount DEF Gateway!Init
  <1>4. GatewayParts
    BY <1>1, <1>3 DEF GatewayParts, Gateway!Init, Keyed
  <1>5. QED
    BY <1>4, GatewayPartsInv

\* The slots taken are the connections served, for any number of both; a gateway that says it
\* has drained serves nobody; and whatever fails, no way out of a session forgets the key it
\* has registered, so that a key stays only when the call for it failed
\* (cmd/ssh-gateway/server.go:99, main.go:122, server.go:228, :333, :343).
THEOREM GatewaySound == Gateway!Spec => []Gateway!GatewayInv
  <1>1. Gateway!Init => Gateway!GatewayInv
    BY GatewayInit, GatewayAssumption
  <1>2. Gateway!GatewayInv /\ [Gateway!Next]_(Gateway!vars) => Gateway!GatewayInv'
    BY GatewayInvStep, GatewayAssumption
  <1>3. QED
    BY <1>1, <1>2, PTL DEF Gateway!Spec

-----------------------------------------------------------------------------
(* All of them *)

\* Slots, counters and connections agree in both servers, consoles are within their limits
\* and servers end as they should, in every state of the model the runs check.
THEOREM ServersSound == AllSpec => []ServersInv
  <1>1. AllInit => ServersInv
    <2>1. Process!Init => Process!ProcessInv
      BY DEF Process!Init, Process!ProcessInv, Process!CleanStop, Process!Orderly,
             Process!TypeOK, Process!NoRequests
    <2>2. QED
      BY <2>1, InitServerInv, GatewayInit, ConsoleInit, GatewayAssumption, ConsoleAssumption
         DEF AllInit, ServersInv
  <1>2. ServersInv /\ [AllNext]_allVars => ServersInv'
    <2> SUFFICES ASSUME ServersInv, [AllNext]_allVars PROVE ServersInv'
      OBVIOUS
    <2>1. /\ [Next]_vars
          /\ [Gateway!Next]_(Gateway!vars)
          /\ [Console!Next]_(Console!vars)
          /\ [Process!Next]_(Process!vars)
      BY DEF AllNext, allVars, ProxyMoves, GatewayMoves, ConsoleMoves, ProcessMoves,
             gatewayVars, consoleVars, processVars, Gateway!vars, Console!vars, Process!vars
    <2>2. QED
      BY <2>1, ServerInvStep, GatewayInvStep, ConsoleInvStep, ProcessInvStep,
         GatewayAssumption, ConsoleAssumption DEF ServersInv
  <1>3. QED
    BY <1>1, <1>2, PTL DEF AllSpec

=============================================================================
