----------------------------- MODULE LoginProofs -----------------------------
(***************************************************************************)
(* Proofs about the two logins and the filter of MCLogins: the gateway's   *)
(* store of pending logins (SshSessionStore), which implements             *)
(* OneTimeLogin, the web login (OAuthLogin) and the filter in front of the *)
(* protected routes (AuthFilter); for any number of connections, browsers, *)
(* tabs, accounts, callbacks, requests and tokens, and any limits.         *)
(***************************************************************************)
EXTENDS MCLogins, Integers, FiniteSetTheorems, TLAPS

-----------------------------------------------------------------------------
(* The gateway's logins *)

\* The initial state satisfies the inductive invariant of the store.
LEMMA InitStoreInv == Init => StoreInv
  <1> SUFFICES ASSUME Init PROVE StoreInv
    OBVIOUS
  <1>1. codeAttempts \in [Nonces -> 0 .. MaxCodeAttempts]
    BY ConstantsAssumption DEF Init
  <1>2. resolved \in [Nonces -> Channel]
    BY DEF Init, Channel, EmptyChannel
  <1>3. cb \in [Callbacks -> Callback]
    BY DEF Init, Callback
  <1>4. TypeOK
    BY <1>1, <1>2, <1>3 DEF Init, TypeOK, ConnState, ExpirerState
  <1>5. \A n \in Nonces : Accepted(n) = {}
    BY DEF Init, Accepted
  <1>6. \A n \in Nonces : PendingInv(n) /\ FreshInv(n)
    BY <1>5 DEF Init, PendingInv, FreshInv
  <1>7. \A n \in Nonces : CloserInv(n) /\ ValueInv(n)
    BY <1>5 DEF Init, CloserInv, ValueInv, EmptyChannel
  <1>8. \A c \in Callbacks : SenderInv(c)
    BY DEF Init, SenderInv
  <1>9. QED
    BY <1>4, <1>5, <1>6, <1>7, <1>8 DEF Init, StoreInv, NoPanic, OneTimeUse

\* New enters a fresh nonce and keeps the invariant.
LEMMA NewStoreInv ==
    ASSUME StoreInv, NEW n \in Nonces, New(n)
    PROVE  StoreInv'
  <1> USE DEF New
  <1>1. TypeOK
    BY DEF StoreInv
  <1>2. TypeOK'
    BY <1>1 DEF TypeOK, ConnState, ExpirerState
  <1>3. \A x \in Nonces : Accepted(x)' = Accepted(x)
    BY DEF Accepted
  <1>4. ASSUME NEW x \in Nonces PROVE PendingInv(x)'
    BY <1>1, <1>3, ConstantsAssumption DEF StoreInv, TypeOK, PendingInv, FreshInv
  <1>5. ASSUME NEW x \in Nonces PROVE FreshInv(x)'
    BY <1>1, <1>3 DEF StoreInv, TypeOK, FreshInv
  <1>6. ASSUME NEW x \in Nonces PROVE CloserInv(x)'
    BY <1>1, <1>3 DEF StoreInv, TypeOK, PendingInv, FreshInv, CloserInv
  <1>7. ASSUME NEW x \in Nonces PROVE ValueInv(x)'
    BY <1>1, <1>3 DEF StoreInv, TypeOK, PendingInv, FreshInv, CloserInv, ValueInv
  <1>8. ASSUME NEW c \in Callbacks PROVE SenderInv(c)'
    BY <1>1, <1>3 DEF StoreInv, TypeOK, FreshInv, CloserInv, SenderInv
  <1>9. NoPanic' /\ OneTimeUse'
    BY <1>3 DEF StoreInv, NoPanic, OneTimeUse
  <1>10. QED
    BY <1>2, <1>4, <1>5, <1>6, <1>7, <1>8, <1>9 DEF StoreInv

\* A refused attempt keeps the invariant.
LEMMA NewTooManyStoreInv ==
    ASSUME StoreInv, NEW n \in Nonces, NewTooMany(n)
    PROVE  StoreInv'
  <1> USE DEF NewTooMany
  <1>1. TypeOK
    BY DEF StoreInv
  <1>2. TypeOK'
    BY <1>1 DEF TypeOK, ConnState
  <1>3. \A x \in Nonces : Accepted(x)' = Accepted(x)
    BY DEF Accepted
  <1>4. ASSUME NEW x \in Nonces PROVE PendingInv(x)'
    BY <1>1, <1>3, ConstantsAssumption DEF StoreInv, TypeOK, PendingInv, FreshInv
  <1>5. ASSUME NEW x \in Nonces PROVE FreshInv(x)'
    BY <1>1, <1>3 DEF StoreInv, TypeOK, FreshInv
  <1>6. ASSUME NEW x \in Nonces PROVE CloserInv(x)'
    BY <1>1, <1>3 DEF StoreInv, TypeOK, PendingInv, FreshInv, CloserInv
  <1>7. ASSUME NEW x \in Nonces PROVE ValueInv(x)'
    BY <1>1, <1>3 DEF StoreInv, TypeOK, PendingInv, FreshInv, CloserInv, ValueInv
  <1>8. ASSUME NEW c \in Callbacks PROVE SenderInv(c)'
    BY <1>1, <1>3 DEF StoreInv, TypeOK, FreshInv, CloserInv, SenderInv
  <1>9. NoPanic' /\ OneTimeUse'
    BY <1>3 DEF StoreInv, NoPanic, OneTimeUse
  <1>10. QED
    BY <1>2, <1>4, <1>5, <1>6, <1>7, <1>8, <1>9 DEF StoreInv

\* Showing the prompt keeps the invariant.
LEMMA ChallengeShownStoreInv ==
    ASSUME StoreInv, NEW n \in Nonces, ChallengeShown(n)
    PROVE  StoreInv'
  <1> USE DEF ChallengeShown
  <1>1. TypeOK
    BY DEF StoreInv
  <1>2. TypeOK'
    BY <1>1 DEF TypeOK, ConnState
  <1>3. \A x \in Nonces : Accepted(x)' = Accepted(x)
    BY DEF Accepted
  <1>4. ASSUME NEW x \in Nonces PROVE PendingInv(x)'
    BY <1>1, <1>3, ConstantsAssumption DEF StoreInv, TypeOK, PendingInv, FreshInv
  <1>5. ASSUME NEW x \in Nonces PROVE FreshInv(x)'
    BY <1>1, <1>3 DEF StoreInv, TypeOK, FreshInv
  <1>6. ASSUME NEW x \in Nonces PROVE CloserInv(x)'
    BY <1>1, <1>3 DEF StoreInv, TypeOK, PendingInv, FreshInv, CloserInv
  <1>7. ASSUME NEW x \in Nonces PROVE ValueInv(x)'
    BY <1>1, <1>3 DEF StoreInv, TypeOK, PendingInv, FreshInv, CloserInv, ValueInv
  <1>8. ASSUME NEW c \in Callbacks PROVE SenderInv(c)'
    BY <1>1, <1>3 DEF StoreInv, TypeOK, FreshInv, CloserInv, SenderInv
  <1>9. NoPanic' /\ OneTimeUse'
    BY <1>3 DEF StoreInv, NoPanic, OneTimeUse
  <1>10. QED
    BY <1>2, <1>4, <1>5, <1>6, <1>7, <1>8, <1>9 DEF StoreInv

\* A failed prompt keeps the invariant, the nonce still pending.
LEMMA ChallengeFailsStoreInv ==
    ASSUME StoreInv, NEW n \in Nonces, ChallengeFails(n)
    PROVE  StoreInv'
  <1> USE DEF ChallengeFails
  <1>1. TypeOK
    BY DEF StoreInv
  <1>2. TypeOK'
    BY <1>1 DEF TypeOK, ConnState
  <1>3. \A x \in Nonces : Accepted(x)' = Accepted(x)
    BY DEF Accepted
  <1>4. ASSUME NEW x \in Nonces PROVE PendingInv(x)'
    BY <1>1, <1>3, ConstantsAssumption DEF StoreInv, TypeOK, PendingInv, FreshInv
  <1>5. ASSUME NEW x \in Nonces PROVE FreshInv(x)'
    BY <1>1, <1>3 DEF StoreInv, TypeOK, FreshInv
  <1>6. ASSUME NEW x \in Nonces PROVE CloserInv(x)'
    BY <1>1, <1>3 DEF StoreInv, TypeOK, PendingInv, FreshInv, CloserInv
  <1>7. ASSUME NEW x \in Nonces PROVE ValueInv(x)'
    BY <1>1, <1>3 DEF StoreInv, TypeOK, PendingInv, FreshInv, CloserInv, ValueInv
  <1>8. ASSUME NEW c \in Callbacks PROVE SenderInv(c)'
    BY <1>1, <1>3 DEF StoreInv, TypeOK, FreshInv, CloserInv, SenderInv
  <1>9. NoPanic' /\ OneTimeUse'
    BY <1>3 DEF StoreInv, NoPanic, OneTimeUse
  <1>10. QED
    BY <1>2, <1>4, <1>5, <1>6, <1>7, <1>8, <1>9 DEF StoreInv

\* The timer of Wait keeps the invariant, a value left in the channel or not.
LEMMA WaitTimeoutStoreInv ==
    ASSUME StoreInv, NEW n \in Nonces, WaitTimeout(n)
    PROVE  StoreInv'
  <1> USE DEF WaitTimeout
  <1>1. TypeOK
    BY DEF StoreInv
  <1>2. TypeOK'
    BY <1>1 DEF TypeOK, ConnState
  <1>3. \A x \in Nonces : Accepted(x)' = Accepted(x)
    BY DEF Accepted
  <1>4. ASSUME NEW x \in Nonces PROVE PendingInv(x)'
    BY <1>1, <1>3, ConstantsAssumption DEF StoreInv, TypeOK, PendingInv, FreshInv
  <1>5. ASSUME NEW x \in Nonces PROVE FreshInv(x)'
    BY <1>1, <1>3 DEF StoreInv, TypeOK, FreshInv
  <1>6. ASSUME NEW x \in Nonces PROVE CloserInv(x)'
    BY <1>1, <1>3 DEF StoreInv, TypeOK, PendingInv, FreshInv, CloserInv
  <1>7. ASSUME NEW x \in Nonces PROVE ValueInv(x)'
    BY <1>1, <1>3 DEF StoreInv, TypeOK, PendingInv, FreshInv, CloserInv, ValueInv
  <1>8. ASSUME NEW c \in Callbacks PROVE SenderInv(c)'
    BY <1>1, <1>3 DEF StoreInv, TypeOK, FreshInv, CloserInv, SenderInv
  <1>9. NoPanic' /\ OneTimeUse'
    BY <1>3 DEF StoreInv, NoPanic, OneTimeUse
  <1>10. QED
    BY <1>2, <1>4, <1>5, <1>6, <1>7, <1>8, <1>9 DEF StoreInv

\* Taking the value out of the channel keeps the invariant.
LEMMA ReceiveValueStoreInv ==
    ASSUME StoreInv, NEW n \in Nonces,
           conn[n] = "wait",
           resolved[n].val # NoEmail,
           conn' = [conn EXCEPT ![n] = "authenticated"],
           permEmail' = [permEmail EXCEPT ![n] = resolved[n].val],
           resolved' = [resolved EXCEPT ![n].val = NoEmail],
           UNCHANGED <<m, codeAttempts, expirer, cb, panicked>>
    PROVE  StoreInv'
  <1>1. TypeOK
    BY DEF StoreInv
  <1>2. resolved[n] \in Channel /\ resolved \in [Nonces -> Channel]
    BY <1>1 DEF TypeOK
  <1>3. resolved'[n] = [resolved[n] EXCEPT !.val = NoEmail]
    BY <1>2
  <1>4. /\ resolved'[n] \in Channel
        /\ resolved'[n].val = NoEmail
        /\ resolved'[n].closed = resolved[n].closed
    BY <1>2, <1>3 DEF Channel
  <1>5. /\ resolved' \in [Nonces -> Channel]
        /\ \A x \in Nonces \ {n} : resolved'[x] = resolved[x]
    BY <1>2, <1>4
  <1>6. resolved[n].val \in Emails \cup {NoEmail}
    BY <1>2 DEF Channel
  <1>7. TypeOK'
    BY <1>1, <1>5, <1>6 DEF TypeOK, ConnState
  <1>8. \A x \in Nonces : Accepted(x)' = Accepted(x)
    BY DEF Accepted
  <1>9. PICK a \in Accepted(n) : cb[a].gw = "ok" /\ cb[a].email = resolved[n].val
    BY DEF StoreInv, ValueInv
  <1>10. /\ n \notin m
         /\ expirer[n] \notin {"none", "close"}
         /\ ~resolved[n].closed
    BY <1>9 DEF StoreInv, PendingInv, FreshInv, CloserInv
  <1>11. ASSUME NEW x \in Nonces PROVE PendingInv(x)' /\ FreshInv(x)'
    BY <1>1, <1>5, <1>8, <1>10 DEF StoreInv, TypeOK, PendingInv, FreshInv
  <1>12. ASSUME NEW x \in Nonces PROVE CloserInv(x)'
    BY <1>1, <1>4, <1>5, <1>8, <1>10 DEF StoreInv, TypeOK, CloserInv
  <1>13. ASSUME NEW x \in Nonces PROVE ValueInv(x)'
    BY <1>1, <1>4, <1>5, <1>8, <1>9 DEF StoreInv, TypeOK, ValueInv
  <1>14. ASSUME NEW c \in Callbacks PROVE SenderInv(c)'
    <2>1. CASE cb[c].nonce = n /\ cb[c].gw \in {"send", "ok"}
      <3>1. c = a
        BY <1>9, <2>1 DEF StoreInv, OneTimeUse, Accepted
      <3>2. conn'[n] = "authenticated" /\ permEmail'[n] = cb[a].email
        BY <1>1, <1>9 DEF TypeOK
      <3>3. QED
        BY <1>9, <2>1, <3>1, <3>2 DEF StoreInv, SenderInv
    <2>2. CASE cb[c].nonce # n /\ cb[c].gw \in {"send", "ok"}
      BY <1>1, <1>5, <2>2 DEF StoreInv, SenderInv, TypeOK
    <2>3. CASE cb[c].gw \notin {"send", "ok"}
      BY <2>3 DEF StoreInv, SenderInv
    <2>4. QED
      BY <2>1, <2>2, <2>3
  <1>15. NoPanic' /\ OneTimeUse'
    BY <1>8 DEF StoreInv, NoPanic, OneTimeUse
  <1>16. QED
    BY <1>7, <1>11, <1>12, <1>13, <1>14, <1>15 DEF StoreInv

\* Finding the channel closed keeps the invariant.
LEMMA ReceiveClosedStoreInv ==
    ASSUME StoreInv, NEW n \in Nonces,
           conn[n] = "wait",
           resolved[n].closed,
           conn' = [conn EXCEPT ![n] = "refused"],
           UNCHANGED <<m, codeAttempts, resolved, permEmail, expirer, cb, panicked>>
    PROVE  StoreInv'
  <1>1. TypeOK
    BY DEF StoreInv
  <1>2. TypeOK'
    BY <1>1 DEF TypeOK, ConnState
  <1>3. \A x \in Nonces : Accepted(x)' = Accepted(x)
    BY DEF Accepted
  <1>4. ASSUME NEW x \in Nonces PROVE PendingInv(x)' /\ FreshInv(x)'
    BY <1>1, <1>3 DEF StoreInv, TypeOK, PendingInv, FreshInv
  <1>5. ASSUME NEW x \in Nonces PROVE CloserInv(x)' /\ ValueInv(x)'
    BY <1>1, <1>3 DEF StoreInv, TypeOK, CloserInv, ValueInv
  <1>6. ASSUME NEW c \in Callbacks PROVE SenderInv(c)'
    BY <1>1 DEF StoreInv, TypeOK, SenderInv
  <1>7. NoPanic' /\ OneTimeUse'
    BY <1>3 DEF StoreInv, NoPanic, OneTimeUse
  <1>8. QED
    BY <1>2, <1>4, <1>5, <1>6, <1>7 DEF StoreInv

\* Wait's receive keeps the invariant.
LEMMA WaitReceiveStoreInv ==
    ASSUME StoreInv, NEW n \in Nonces, WaitReceive(n)
    PROVE  StoreInv'
  BY ReceiveValueStoreInv, ReceiveClosedStoreInv DEF WaitReceive

\* The locked half of expireAfter keeps the invariant.
LEMMA ExpireLockedStoreInv ==
    ASSUME StoreInv, NEW n \in Nonces, ExpireLocked(n)
    PROVE  StoreInv'
  <1> USE DEF ExpireLocked
  <1>1. TypeOK
    BY DEF StoreInv
  <1>2. TypeOK'
    BY <1>1 DEF TypeOK, ExpirerState
  <1>3. \A x \in Nonces : Accepted(x)' = Accepted(x)
    BY DEF Accepted
  <1>4. ASSUME NEW x \in Nonces PROVE PendingInv(x)'
    BY <1>1, <1>3, ConstantsAssumption DEF StoreInv, TypeOK, PendingInv, FreshInv
  <1>5. ASSUME NEW x \in Nonces PROVE FreshInv(x)'
    BY <1>1, <1>3 DEF StoreInv, TypeOK, FreshInv
  <1>6. ASSUME NEW x \in Nonces PROVE CloserInv(x)'
    BY <1>1, <1>3 DEF StoreInv, TypeOK, PendingInv, FreshInv, CloserInv, EmptyChannel
  <1>7. ASSUME NEW x \in Nonces PROVE ValueInv(x)'
    BY <1>1, <1>3 DEF StoreInv, TypeOK, PendingInv, FreshInv, CloserInv, ValueInv
  <1>8. ASSUME NEW c \in Callbacks PROVE SenderInv(c)'
    BY <1>1, <1>3 DEF StoreInv, TypeOK, FreshInv, CloserInv, SenderInv
  <1>9. NoPanic' /\ OneTimeUse'
    BY <1>3 DEF StoreInv, NoPanic, OneTimeUse
  <1>10. QED
    BY <1>2, <1>4, <1>5, <1>6, <1>7, <1>8, <1>9 DEF StoreInv

\* What CloseChannel does to the channels of a well-typed state.
LEMMA CloseChannelFacts ==
    ASSUME TypeOK, NEW n \in Nonces, CloseChannel(n)
    PROVE  /\ resolved' \in [Nonces -> Channel]
           /\ resolved'[n].closed
           /\ resolved'[n].val = resolved[n].val
           /\ \A x \in Nonces \ {n} : resolved'[x] = resolved[x]
           /\ panicked' \in BOOLEAN
           /\ ~panicked /\ ~resolved[n].closed => ~panicked'
  <1>1. resolved \in [Nonces -> Channel] /\ panicked \in BOOLEAN
    BY DEF TypeOK
  <1>2. resolved[n] \in Channel
    BY <1>1
  <1>3. [resolved[n] EXCEPT !.closed = TRUE] \in Channel
    BY <1>2 DEF Channel
  <1>4. resolved'[n] = [resolved[n] EXCEPT !.closed = TRUE]
    BY <1>1 DEF CloseChannel
  <1>5. resolved' \in [Nonces -> Channel]
    BY <1>1, <1>3, <1>4 DEF CloseChannel
  <1>6. resolved'[n].closed /\ resolved'[n].val = resolved[n].val
    BY <1>2, <1>4 DEF Channel
  <1>7. \A x \in Nonces \ {n} : resolved'[x] = resolved[x]
    BY <1>1 DEF CloseChannel
  <1>8. panicked' \in BOOLEAN /\ (~panicked /\ ~resolved[n].closed => ~panicked')
    BY <1>1, <1>2 DEF CloseChannel, Channel
  <1>9. QED
    BY <1>5, <1>6, <1>7, <1>8

\* Closing the channel keeps the invariant and does not panic.
LEMMA ExpireCloseStoreInv ==
    ASSUME StoreInv, NEW n \in Nonces, ExpireClose(n)
    PROVE  StoreInv'
  <1>1. TypeOK /\ NoPanic
    BY DEF StoreInv
  <1>2. /\ expirer[n] = "close"
        /\ expirer' = [expirer EXCEPT ![n] = "done"]
        /\ UNCHANGED <<m, codeAttempts, conn, permEmail, cb>>
    BY DEF ExpireClose
  <1>3. /\ resolved' \in [Nonces -> Channel]
        /\ resolved'[n].closed
        /\ resolved'[n].val = resolved[n].val
        /\ \A x \in Nonces \ {n} : resolved'[x] = resolved[x]
        /\ panicked' \in BOOLEAN
        /\ ~panicked /\ ~resolved[n].closed => ~panicked'
    BY <1>1, CloseChannelFacts DEF ExpireClose
  <1>4. TypeOK'
    BY <1>1, <1>2, <1>3 DEF TypeOK, ExpirerState
  <1>5. \A x \in Nonces : Accepted(x)' = Accepted(x)
    BY <1>2 DEF Accepted
  <1>6. /\ n \notin m
        /\ Accepted(n) = {}
        /\ resolved[n].val = NoEmail
        /\ ~resolved[n].closed
        /\ conn[n] \notin {"none", "authenticated"}
    BY <1>2 DEF StoreInv, PendingInv, CloserInv, FreshInv
  <1>7. ASSUME NEW x \in Nonces PROVE PendingInv(x)' /\ FreshInv(x)'
    BY <1>1, <1>2, <1>3, <1>5, <1>6 DEF StoreInv, TypeOK, PendingInv, FreshInv
  <1>8. ASSUME NEW x \in Nonces PROVE CloserInv(x)'
    BY <1>1, <1>2, <1>3, <1>5, <1>6 DEF StoreInv, TypeOK, CloserInv
  <1>9. ASSUME NEW x \in Nonces PROVE ValueInv(x)'
    BY <1>1, <1>2, <1>3, <1>5, <1>6 DEF StoreInv, ValueInv
  <1>10. ASSUME NEW c \in Callbacks PROVE SenderInv(c)'
    BY <1>1, <1>2, <1>3, <1>5, <1>6 DEF StoreInv, SenderInv, Accepted
  <1>11. NoPanic' /\ OneTimeUse'
    BY <1>1, <1>3, <1>5, <1>6 DEF StoreInv, NoPanic, OneTimeUse
  <1>12. QED
    BY <1>4, <1>7, <1>8, <1>9, <1>10, <1>11 DEF StoreInv

\* A callback reaching the API keeps the invariant.
LEMMA PostStoreInv ==
    ASSUME StoreInv, NEW c \in Callbacks, NEW n \in Nonces, NEW codeOK \in BOOLEAN,
           NEW e \in Emails, Post(c, n, codeOK, e)
    PROVE  StoreInv'
  <1> USE DEF Post
  <1>1. TypeOK /\ SenderInv(c)
    BY DEF StoreInv
  <1>2. TypeOK'
    BY <1>1 DEF TypeOK, Callback
  <1>3. \A x \in Nonces : Accepted(x)' = Accepted(x)
    BY <1>1 DEF Accepted, TypeOK, Callback, SenderInv
  <1>4. ASSUME NEW x \in Nonces PROVE PendingInv(x)'
    BY <1>1, <1>3, ConstantsAssumption DEF StoreInv, TypeOK, PendingInv
  <1>5. ASSUME NEW x \in Nonces PROVE FreshInv(x)'
    BY <1>1, <1>3 DEF StoreInv, TypeOK, FreshInv
  <1>6. ASSUME NEW x \in Nonces PROVE CloserInv(x)'
    BY <1>1, <1>3 DEF StoreInv, TypeOK, CloserInv
  <1>7. ASSUME NEW x \in Nonces PROVE ValueInv(x)'
    BY <1>1, <1>3 DEF StoreInv, TypeOK, ValueInv, Accepted, Callback
  <1>8. ASSUME NEW d \in Callbacks PROVE SenderInv(d)'
    BY <1>1, <1>3 DEF StoreInv, TypeOK, SenderInv, Callback
  <1>9. NoPanic' /\ OneTimeUse'
    BY <1>3 DEF StoreInv, NoPanic, OneTimeUse
  <1>10. QED
    BY <1>2, <1>4, <1>5, <1>6, <1>7, <1>8, <1>9 DEF StoreInv

\* A 410 keeps the invariant.
LEMMA ResolveUnknownStoreInv ==
    ASSUME StoreInv, NEW c \in Callbacks, ResolveUnknown(c)
    PROVE  StoreInv'
  <1> USE DEF ResolveUnknown
  <1>1. TypeOK /\ SenderInv(c)
    BY DEF StoreInv
  <1>2. TypeOK'
    BY <1>1 DEF TypeOK, Callback
  <1>3. \A x \in Nonces : Accepted(x)' = Accepted(x)
    BY <1>1 DEF Accepted, TypeOK, Callback, SenderInv
  <1>4. ASSUME NEW x \in Nonces PROVE PendingInv(x)'
    BY <1>1, <1>3, ConstantsAssumption DEF StoreInv, TypeOK, PendingInv
  <1>5. ASSUME NEW x \in Nonces PROVE FreshInv(x)'
    BY <1>1, <1>3 DEF StoreInv, TypeOK, FreshInv
  <1>6. ASSUME NEW x \in Nonces PROVE CloserInv(x)'
    BY <1>1, <1>3 DEF StoreInv, TypeOK, CloserInv
  <1>7. ASSUME NEW x \in Nonces PROVE ValueInv(x)'
    BY <1>1, <1>3 DEF StoreInv, TypeOK, ValueInv, Accepted, Callback
  <1>8. ASSUME NEW d \in Callbacks PROVE SenderInv(d)'
    BY <1>1, <1>3 DEF StoreInv, TypeOK, SenderInv, Callback
  <1>9. NoPanic' /\ OneTimeUse'
    BY <1>3 DEF StoreInv, NoPanic, OneTimeUse
  <1>10. QED
    BY <1>2, <1>4, <1>5, <1>6, <1>7, <1>8, <1>9 DEF StoreInv

\* A wrong code keeps the invariant: it is counted, and the one that reaches
\* the limit closes a channel nobody else may touch.
LEMMA ResolveMismatchStoreInv ==
    ASSUME StoreInv, NEW c \in Callbacks, ResolveMismatch(c)
    PROVE  StoreInv'
  <1> DEFINE n == cb[c].nonce
  <1>1. TypeOK /\ NoPanic /\ n \in Nonces /\ n \in m
    BY DEF StoreInv, ResolveMismatch, TypeOK
  <1>2. /\ resolved[n] = EmptyChannel
        /\ expirer[n] = "sleep"
        /\ conn[n] \in {"challenge", "wait", "refused"}
        /\ Accepted(n) = {}
        /\ codeAttempts[n] < MaxCodeAttempts
    BY <1>1 DEF StoreInv, PendingInv
  <1>3. /\ cb[c].gw = "posted"
        /\ cb' = [cb EXCEPT ![c].gw = "mismatch"]
        /\ codeAttempts' = [codeAttempts EXCEPT ![n] = @ + 1]
        /\ UNCHANGED <<conn, permEmail, expirer>>
    BY DEF ResolveMismatch
  <1>4. /\ codeAttempts' \in [Nonces -> 0 .. MaxCodeAttempts]
        /\ codeAttempts'[n] = codeAttempts[n] + 1
        /\ \A x \in Nonces \ {n} : codeAttempts'[x] = codeAttempts[x]
    BY <1>1, <1>2, <1>3, ConstantsAssumption DEF TypeOK
  <1>5. cb' \in [Callbacks -> Callback]
    BY <1>1, <1>3 DEF TypeOK, Callback
  <1>6. \A x \in Nonces : Accepted(x)' = Accepted(x)
    BY <1>1, <1>3 DEF Accepted, TypeOK, Callback
  <1>7. ASSUME NEW d \in Callbacks
        PROVE  /\ cb'[d].nonce = cb[d].nonce
               /\ cb'[d].codeOK = cb[d].codeOK
               /\ cb'[d].email = cb[d].email
               /\ cb'[d].api = cb[d].api
               /\ cb'[d].gw = IF d = c THEN "mismatch" ELSE cb[d].gw
    BY <1>1, <1>3 DEF TypeOK, Callback
  <1>8. \A d \in Callbacks : cb[d].gw \in {"send", "ok"} => cb[d].nonce # n
    BY <1>2 DEF Accepted
  <1>9. OneTimeUse'
    BY <1>6 DEF StoreInv, OneTimeUse
  <1>10. CASE codeAttempts[n] + 1 >= MaxCodeAttempts
    <2>1. m' = m \ {n} /\ CloseChannel(n)
      BY <1>10 DEF ResolveMismatch
    <2>2. /\ resolved' \in [Nonces -> Channel]
          /\ resolved'[n].closed
          /\ resolved'[n].val = resolved[n].val
          /\ \A x \in Nonces \ {n} : resolved'[x] = resolved[x]
          /\ panicked' \in BOOLEAN
          /\ ~panicked /\ ~resolved[n].closed => ~panicked'
      BY <1>1, <2>1, CloseChannelFacts
    <2>3. TypeOK'
      BY <1>1, <1>3, <1>4, <1>5, <2>1, <2>2 DEF TypeOK
    <2>4. ASSUME NEW x \in Nonces PROVE PendingInv(x)' /\ FreshInv(x)'
      BY <1>2, <1>3, <1>4, <1>6, <2>1, <2>2 DEF StoreInv, PendingInv, FreshInv
    <2>5. ASSUME NEW x \in Nonces PROVE CloserInv(x)'
      BY <1>2, <1>3, <1>6, <2>2 DEF StoreInv, CloserInv, EmptyChannel
    <2>6. ASSUME NEW x \in Nonces PROVE ValueInv(x)'
      BY <1>2, <1>3, <1>6, <1>7, <2>2 DEF StoreInv, ValueInv, EmptyChannel, Accepted
    <2>7. ASSUME NEW d \in Callbacks PROVE SenderInv(d)'
      BY <1>2, <1>3, <1>7, <1>8, <2>2 DEF StoreInv, SenderInv
    <2>8. NoPanic'
      BY <1>1, <1>2, <2>2 DEF NoPanic, EmptyChannel
    <2>9. QED
      BY <1>9, <2>3, <2>4, <2>5, <2>6, <2>7, <2>8 DEF StoreInv
  <1>11. CASE ~(codeAttempts[n] + 1 >= MaxCodeAttempts)
    <2>1. UNCHANGED <<m, resolved, panicked>>
      BY <1>11 DEF ResolveMismatch
    <2>2. codeAttempts'[n] < MaxCodeAttempts
      BY <1>1, <1>4, <1>11, ConstantsAssumption DEF TypeOK
    <2>3. TypeOK'
      BY <1>1, <1>3, <1>4, <1>5, <2>1 DEF TypeOK
    <2>4. ASSUME NEW x \in Nonces PROVE PendingInv(x)' /\ FreshInv(x)'
      BY <1>1, <1>2, <1>3, <1>4, <1>6, <2>1, <2>2 DEF StoreInv, PendingInv, FreshInv
    <2>5. ASSUME NEW x \in Nonces PROVE CloserInv(x)'
      BY <1>3, <1>6, <2>1 DEF StoreInv, CloserInv
    <2>6. ASSUME NEW x \in Nonces PROVE ValueInv(x)'
      BY <1>3, <1>6, <1>7, <2>1 DEF StoreInv, ValueInv, Accepted
    <2>7. ASSUME NEW d \in Callbacks PROVE SenderInv(d)'
      BY <1>3, <1>7, <2>1 DEF StoreInv, SenderInv
    <2>8. QED
      BY <1>1, <1>9, <2>1, <2>3, <2>4, <2>5, <2>6, <2>7 DEF StoreInv, NoPanic
  <1>12. QED
    BY <1>10, <1>11

\* The locked half of an accepted Resolve keeps the invariant: the nonce was
\* pending, so no other callback was accepted and the channel is untouched.
LEMMA ResolveMatchStoreInv ==
    ASSUME StoreInv, NEW c \in Callbacks, ResolveMatch(c)
    PROVE  StoreInv'
  <1> DEFINE n == cb[c].nonce
  <1>1. TypeOK /\ n \in Nonces /\ n \in m
    BY DEF StoreInv, ResolveMatch, TypeOK
  <1>2. /\ resolved[n] = EmptyChannel
        /\ expirer[n] = "sleep"
        /\ conn[n] \in {"challenge", "wait", "refused"}
        /\ Accepted(n) = {}
    BY <1>1 DEF StoreInv, PendingInv
  <1>3. /\ cb[c].gw = "posted"
        /\ cb[c].codeOK
        /\ m' = m \ {n}
        /\ cb' = [cb EXCEPT ![c].gw = "send"]
        /\ UNCHANGED <<codeAttempts, resolved, conn, permEmail, expirer, panicked>>
    BY DEF ResolveMatch
  <1>4. TypeOK'
    BY <1>1, <1>3 DEF TypeOK, Callback
  <1>5. ASSUME NEW d \in Callbacks
        PROVE  /\ cb'[d].nonce = cb[d].nonce
               /\ cb'[d].codeOK = cb[d].codeOK
               /\ cb'[d].email = cb[d].email
               /\ cb'[d].api = cb[d].api
               /\ cb'[d].gw = IF d = c THEN "send" ELSE cb[d].gw
    BY <1>1, <1>3 DEF TypeOK, Callback
  <1>6. Accepted(n)' = {c}
    BY <1>2, <1>5 DEF Accepted
  <1>7. \A x \in Nonces \ {n} : Accepted(x)' = Accepted(x)
    BY <1>3, <1>5 DEF Accepted
  <1>8. ASSUME NEW x \in Nonces PROVE PendingInv(x)' /\ FreshInv(x)'
    BY <1>2, <1>3, <1>6, <1>7 DEF StoreInv, PendingInv, FreshInv
  <1>9. ASSUME NEW x \in Nonces PROVE CloserInv(x)'
    BY <1>2, <1>3, <1>6, <1>7 DEF StoreInv, CloserInv, EmptyChannel
  <1>10. ASSUME NEW x \in Nonces PROVE ValueInv(x)'
    BY <1>2, <1>3, <1>5, <1>6, <1>7 DEF StoreInv, ValueInv, EmptyChannel, Accepted
  <1>11. ASSUME NEW d \in Callbacks PROVE SenderInv(d)'
    BY <1>2, <1>3, <1>5 DEF StoreInv, SenderInv
  <1>12. NoPanic' /\ OneTimeUse'
    BY <1>3, <1>6, <1>7 DEF StoreInv, NoPanic, OneTimeUse
  <1>13. QED
    BY <1>4, <1>8, <1>9, <1>10, <1>11, <1>12 DEF StoreInv

\* The send keeps the invariant: the channel is open and empty, so it neither
\* panics nor drops the e-mail.
LEMMA ResolveSendStoreInv ==
    ASSUME StoreInv, NEW c \in Callbacks, ResolveSend(c)
    PROVE  StoreInv'
  <1> DEFINE n == cb[c].nonce
  <1>1. TypeOK /\ cb[c].gw = "send"
    BY DEF StoreInv, ResolveSend
  <1>2. /\ n \in Nonces /\ cb[c].email \in Emails
        /\ resolved[n] = EmptyChannel
        /\ conn[n] # "authenticated"
    BY <1>1 DEF StoreInv, SenderInv
  <1>3. c \in Accepted(n) /\ \A d \in Accepted(n) : d = c
    BY <1>1, <1>2 DEF StoreInv, OneTimeUse, Accepted
  <1>4. n \notin m /\ expirer[n] \notin {"none", "close"} /\ conn[n] # "none"
    BY <1>2, <1>3 DEF StoreInv, PendingInv, FreshInv, CloserInv
  <1>5. /\ cb' = [cb EXCEPT ![c].gw = "ok"]
        /\ resolved' = [resolved EXCEPT ![n].val = cb[c].email]
        /\ UNCHANGED <<m, codeAttempts, conn, permEmail, expirer>>
    BY <1>2 DEF ResolveSend, EmptyChannel
  <1>6. /\ resolved'[n] \in Channel
        /\ resolved'[n].val = cb[c].email
        /\ ~resolved'[n].closed
    <2>1. resolved'[n] = [resolved[n] EXCEPT !.val = cb[c].email]
      BY <1>1, <1>2, <1>5 DEF TypeOK
    <2>2. resolved[n] \in Channel /\ resolved[n].closed = FALSE
      BY <1>1, <1>2 DEF TypeOK, EmptyChannel
    <2>3. QED
      BY <1>2, <2>1, <2>2 DEF Channel
  <1>7. /\ resolved' \in [Nonces -> Channel]
        /\ \A x \in Nonces \ {n} : resolved'[x] = resolved[x]
    BY <1>1, <1>2, <1>5, <1>6 DEF TypeOK, Channel
  <1>8. ~panicked'
    <2>1. ~panicked /\ ~resolved[n].closed
      BY <1>2 DEF StoreInv, NoPanic, EmptyChannel
    <2>2. panicked' = (panicked \/ resolved[n].closed)
      BY DEF ResolveSend
    <2>3. QED
      BY <2>1, <2>2
  <1>9. cb' \in [Callbacks -> Callback]
    BY <1>1, <1>5 DEF TypeOK, Callback
  <1>10. panicked' \in BOOLEAN
    BY DEF ResolveSend
  <1>11. TypeOK'
    BY <1>1, <1>5, <1>7, <1>9, <1>10 DEF TypeOK
  <1>12. ASSUME NEW d \in Callbacks
         PROVE  /\ cb'[d].nonce = cb[d].nonce
                /\ cb'[d].codeOK = cb[d].codeOK
                /\ cb'[d].email = cb[d].email
                /\ cb'[d].api = cb[d].api
                /\ cb'[d].gw = IF d = c THEN "ok" ELSE cb[d].gw
    BY <1>1, <1>5 DEF TypeOK, Callback
  <1>13. \A x \in Nonces : Accepted(x)' = Accepted(x)
    BY <1>1, <1>12 DEF Accepted
  <1>14. ASSUME NEW x \in Nonces PROVE PendingInv(x)' /\ FreshInv(x)'
    BY <1>4, <1>5, <1>7, <1>13 DEF StoreInv, PendingInv, FreshInv
  <1>15. ASSUME NEW x \in Nonces PROVE CloserInv(x)'
    BY <1>4, <1>5, <1>6, <1>7, <1>13 DEF StoreInv, CloserInv
  <1>16. ASSUME NEW x \in Nonces PROVE ValueInv(x)'
    BY <1>2, <1>3, <1>5, <1>6, <1>7, <1>12, <1>13 DEF StoreInv, ValueInv, Accepted
  <1>17. ASSUME NEW d \in Callbacks PROVE SenderInv(d)'
    BY <1>1, <1>2, <1>3, <1>5, <1>6, <1>7, <1>12 DEF StoreInv, SenderInv, Accepted
  <1>18. NoPanic' /\ OneTimeUse'
    BY <1>8, <1>13 DEF StoreInv, NoPanic, OneTimeUse
  <1>19. QED
    BY <1>11, <1>14, <1>15, <1>16, <1>17, <1>18 DEF StoreInv

\* The API reading the reply keeps the invariant.
LEMMA ReplyStoreInv ==
    ASSUME StoreInv, NEW c \in Callbacks, Reply(c)
    PROVE  StoreInv'
  <1> USE DEF Reply
  <1>1. TypeOK /\ SenderInv(c)
    BY DEF StoreInv
  <1>2. TypeOK'
    BY <1>1 DEF TypeOK, Callback
  <1>3. \A x \in Nonces : Accepted(x)' = Accepted(x)
    BY <1>1 DEF Accepted, TypeOK, Callback, SenderInv
  <1>4. ASSUME NEW x \in Nonces PROVE PendingInv(x)'
    BY <1>1, <1>3, ConstantsAssumption DEF StoreInv, TypeOK, PendingInv
  <1>5. ASSUME NEW x \in Nonces PROVE FreshInv(x)'
    BY <1>1, <1>3 DEF StoreInv, TypeOK, FreshInv
  <1>6. ASSUME NEW x \in Nonces PROVE CloserInv(x)'
    BY <1>1, <1>3 DEF StoreInv, TypeOK, CloserInv
  <1>7. ASSUME NEW x \in Nonces PROVE ValueInv(x)'
    BY <1>1, <1>3 DEF StoreInv, TypeOK, ValueInv, Accepted, Callback
  <1>8. ASSUME NEW d \in Callbacks PROVE SenderInv(d)'
    BY <1>1, <1>3 DEF StoreInv, TypeOK, SenderInv, Callback
  <1>9. NoPanic' /\ OneTimeUse'
    BY <1>3 DEF StoreInv, NoPanic, OneTimeUse
  <1>10. QED
    BY <1>2, <1>4, <1>5, <1>6, <1>7, <1>8, <1>9 DEF StoreInv

\* The API giving up keeps the invariant.
LEMMA NotifyFailsStoreInv ==
    ASSUME StoreInv, NEW c \in Callbacks, NotifyFails(c)
    PROVE  StoreInv'
  <1> USE DEF NotifyFails
  <1>1. TypeOK /\ SenderInv(c)
    BY DEF StoreInv
  <1>2. TypeOK'
    BY <1>1 DEF TypeOK, Callback
  <1>3. \A x \in Nonces : Accepted(x)' = Accepted(x)
    BY <1>1 DEF Accepted, TypeOK, Callback, SenderInv
  <1>4. ASSUME NEW x \in Nonces PROVE PendingInv(x)'
    BY <1>1, <1>3, ConstantsAssumption DEF StoreInv, TypeOK, PendingInv
  <1>5. ASSUME NEW x \in Nonces PROVE FreshInv(x)'
    BY <1>1, <1>3 DEF StoreInv, TypeOK, FreshInv
  <1>6. ASSUME NEW x \in Nonces PROVE CloserInv(x)'
    BY <1>1, <1>3 DEF StoreInv, TypeOK, CloserInv
  <1>7. ASSUME NEW x \in Nonces PROVE ValueInv(x)'
    BY <1>1, <1>3 DEF StoreInv, TypeOK, ValueInv, Accepted, Callback
  <1>8. ASSUME NEW d \in Callbacks PROVE SenderInv(d)'
    BY <1>1, <1>3 DEF StoreInv, TypeOK, SenderInv, Callback
  <1>9. NoPanic' /\ OneTimeUse'
    BY <1>3 DEF StoreInv, NoPanic, OneTimeUse
  <1>10. QED
    BY <1>2, <1>4, <1>5, <1>6, <1>7, <1>8, <1>9 DEF StoreInv

\* The invariant of the store holds in every reachable state.
THEOREM StoreInvariant == Spec => []StoreInv
  <1>1. Init => StoreInv
    BY InitStoreInv
  <1>2. StoreInv /\ [Next]_vars => StoreInv'
    <2> SUFFICES ASSUME StoreInv, [Next]_vars PROVE StoreInv'
      OBVIOUS
    <2>1. ASSUME NEW n \in Nonces, ConnStep(n) PROVE StoreInv'
      BY <2>1, NewStoreInv, NewTooManyStoreInv, ChallengeShownStoreInv, ChallengeFailsStoreInv,
         WaitReceiveStoreInv, WaitTimeoutStoreInv
      DEF ConnStep
    <2>2. ASSUME NEW n \in Nonces, ExpirerStep(n) PROVE StoreInv'
      BY <2>2, ExpireLockedStoreInv, ExpireCloseStoreInv DEF ExpirerStep
    <2>3. ASSUME NEW c \in Callbacks, CallbackStep(c) PROVE StoreInv'
      BY <2>3, PostStoreInv, ResolveUnknownStoreInv, ResolveMismatchStoreInv,
         ResolveMatchStoreInv, ResolveSendStoreInv, ReplyStoreInv, NotifyFailsStoreInv
      DEF CallbackStep
    <2>4. CASE UNCHANGED vars
      BY <2>4 DEF vars, StoreInv, TypeOK, NoPanic, OneTimeUse, Accepted, PendingInv, FreshInv,
             CloserInv, ValueInv, SenderInv
    <2>5. QED
      BY <2>1, <2>2, <2>3, <2>4 DEF Next
  <1>3. QED
    BY <1>1, <1>2, PTL DEF Spec

\* Every variable of the store keeps its type; in particular the wrong codes
\* counted for a nonce never exceed maxCodeAttempts.
THEOREM TypeCorrect == Spec => []TypeOK
  <1>1. StoreInv => TypeOK
    BY DEF StoreInv
  <1>2. QED
    BY <1>1, StoreInvariant, PTL

\* No interleaving of expireAfter and Resolve, whose channel operations run
\* outside the lock, closes a closed channel or sends on one.
THEOREM ChannelSafety == Spec => []NoPanic
  <1>1. StoreInv => NoPanic
    BY DEF StoreInv
  <1>2. QED
    BY <1>1, StoreInvariant, PTL

\* The e-mail of an accepted callback is never dropped by the non-blocking
\* send in Resolve.
THEOREM ResolutionNotLost == Spec => []NoLostResolution
  <1>1. StoreInv => NoLostResolution
    BY DEF StoreInv, SenderInv, NoLostResolution
  <1>2. QED
    BY <1>1, StoreInvariant, PTL

\* A nonce admits at most one callback.
THEOREM NonceUsedOnce == Spec => []OneTimeUse
  <1>1. StoreInv => OneTimeUse
    BY DEF StoreInv
  <1>2. QED
    BY <1>1, StoreInvariant, PTL

\* Nobody is let in without the right code, nor under another account.
THEOREM AuthenticationSound == Spec => []AuthenticatedByMatch
  <1>1. ASSUME StoreInv PROVE AuthenticatedByMatch
    <2> SUFFICES ASSUME NEW n \in Nonces, conn[n] = "authenticated"
                 PROVE  \E c \in Accepted(n) : cb[c].codeOK /\ cb[c].email = permEmail[n]
      BY DEF AuthenticatedByMatch
    <2>1. PICK c \in Accepted(n) : cb[c].gw = "ok" /\ cb[c].email = permEmail[n]
      BY <1>1 DEF StoreInv, ValueInv
    <2>2. cb[c].codeOK
      BY <1>1, <2>1 DEF StoreInv, SenderInv, Accepted
    <2>3. QED
      BY <2>1, <2>2
  <1>2. QED
    BY <1>1, StoreInvariant, PTL

\* A browser told that the login is complete was told the truth.
THEOREM CompletePageSound == Spec => []CompleteMeansDelivered
  <1>1. StoreInv => CompleteMeansDelivered
    BY DEF StoreInv, SenderInv, CompleteMeansDelivered
  <1>2. QED
    BY <1>1, StoreInvariant, PTL

-----------------------------------------------------------------------------
(* The limits *)

\* The limits without what follows from them: at most maxPending nonces in the
\* map, and codeAttempts in step with the answers given.
LimitsInv ==
    /\ IsFiniteSet(m)
    /\ Cardinality(m) <= MaxPending
    /\ GuessesCounted

\* A step that enters no nonce, answers no wrong code and reopens no channel
\* keeps the limits.
LEMMA LimitsKept ==
    ASSUME LimitsInv, ConstantsAssumption,
           m' \subseteq m, codeAttempts' = codeAttempts,
           \A x \in Nonces : Mismatched(x)' = Mismatched(x),
           \A x \in Nonces : resolved[x].closed => resolved'[x].closed
    PROVE  LimitsInv'
  <1>1. IsFiniteSet(m') /\ Cardinality(m') <= Cardinality(m)
    BY FS_Subset DEF LimitsInv
  <1>2. /\ IsFiniteSet(m) /\ Cardinality(m) \in Nat /\ Cardinality(m') \in Nat
        /\ Cardinality(m) <= MaxPending
    BY <1>1, FS_CardinalityType DEF LimitsInv
  <1>3. Cardinality(m') <= MaxPending
    BY <1>1, <1>2, ConstantsAssumption
  <1>4. GuessesCounted'
    BY DEF LimitsInv, GuessesCounted
  <1>5. QED
    BY <1>1, <1>3, <1>4 DEF LimitsInv

\* New checks the limit and enters one nonce under the same lock.
LEMMA NewLimits ==
    ASSUME StoreInv, LimitsInv, NEW n \in Nonces, New(n)
    PROVE  LimitsInv'
  <1>1. n \notin m
    BY DEF StoreInv, FreshInv, New
  <1>2. IsFiniteSet(m') /\ Cardinality(m') = Cardinality(m) + 1
    BY <1>1, FS_AddElement DEF LimitsInv, New
  <1>3. Cardinality(m) \in Nat
    BY FS_CardinalityType DEF LimitsInv
  <1>4. Cardinality(m') <= MaxPending
    BY <1>2, <1>3, ConstantsAssumption DEF New
  <1>5. GuessesCounted'
    BY DEF LimitsInv, GuessesCounted, Mismatched, New
  <1>6. QED
    BY <1>2, <1>4, <1>5 DEF LimitsInv

\* A wrong code is counted and answered together, and the last one closes the
\* channel in the same critical section.
LEMMA ResolveMismatchLimits ==
    ASSUME StoreInv, StoreInv', LimitsInv, NEW c \in Callbacks, ResolveMismatch(c)
    PROVE  LimitsInv'
  <1>0. TypeOK /\ cb[c].nonce \in Nonces /\ cb[c].nonce \in m
    BY DEF StoreInv, ResolveMismatch, TypeOK
  <1> PICK n \in Nonces : n = cb[c].nonce
    BY <1>0
  <1>1. TypeOK /\ n \in m
    BY <1>0
  <1>2. /\ codeAttempts[n] < MaxCodeAttempts
        /\ codeAttempts[n] \in Nat
    BY <1>1 DEF StoreInv, PendingInv, TypeOK
  <1>3. /\ cb[c].gw = "posted"
        /\ cb' = [cb EXCEPT ![c].gw = "mismatch"]
        /\ codeAttempts' = [codeAttempts EXCEPT ![n] = @ + 1]
    BY DEF ResolveMismatch
  <1>4. /\ codeAttempts'[n] = codeAttempts[n] + 1
        /\ \A x \in Nonces \ {n} : codeAttempts'[x] = codeAttempts[x]
    BY <1>1, <1>3 DEF TypeOK
  <1>5. ASSUME NEW d \in Callbacks
        PROVE  /\ cb'[d].nonce = cb[d].nonce
               /\ cb'[d].gw = IF d = c THEN "mismatch" ELSE cb[d].gw
    BY <1>1, <1>3 DEF TypeOK, Callback
  <1>6. Mismatched(n)' = Mismatched(n) \cup {c} /\ c \notin Mismatched(n)
    BY <1>3, <1>5 DEF Mismatched
  <1>7. \A x \in Nonces \ {n} : Mismatched(x)' = Mismatched(x)
    BY <1>5 DEF Mismatched
  <1>8. /\ IsFiniteSet(Mismatched(n)')
        /\ Cardinality(Mismatched(n)') = Cardinality(Mismatched(n)) + 1
    <2>1. IsFiniteSet(Mismatched(n))
      BY <1>1 DEF LimitsInv, GuessesCounted
    <2>2. QED
      BY <1>6, <2>1, FS_AddElement
  <1>9. /\ \A x \in Nonces \ {n} : resolved'[x] = resolved[x]
        /\ codeAttempts[n] + 1 >= MaxCodeAttempts => resolved'[n].closed
        /\ m' \subseteq m
    <2>1. CASE codeAttempts[n] + 1 >= MaxCodeAttempts
      <3>1. m' = m \ {n} /\ CloseChannel(n)
        BY <2>1 DEF ResolveMismatch
      <3>2. QED
        BY <1>1, <3>1, CloseChannelFacts
    <2>2. CASE ~(codeAttempts[n] + 1 >= MaxCodeAttempts)
      BY <2>2 DEF ResolveMismatch
    <2>3. QED
      BY <2>1, <2>2
  <1>10. ASSUME NEW x \in Nonces
         PROVE  /\ IsFiniteSet(Mismatched(x)')
                /\ codeAttempts'[x] = Cardinality(Mismatched(x)')
                /\ codeAttempts'[x] = MaxCodeAttempts => resolved'[x].closed
    <2>1. CASE x = n
      <3>1. codeAttempts[n] = Cardinality(Mismatched(n))
        BY <1>1 DEF LimitsInv, GuessesCounted
      <3>2. codeAttempts'[n] = MaxCodeAttempts => codeAttempts[n] + 1 >= MaxCodeAttempts
        BY <1>2, <1>4, ConstantsAssumption
      <3>3. codeAttempts'[n] = Cardinality(Mismatched(n)')
        BY <1>4, <1>8, <3>1
      <3>4. QED
        BY <1>8, <1>9, <2>1, <3>2, <3>3
    <2>2. CASE x # n
      BY <1>4, <1>7, <1>9, <2>2 DEF LimitsInv, GuessesCounted
    <2>3. QED
      BY <2>1, <2>2
  <1>11. GuessesCounted'
    BY <1>10 DEF GuessesCounted
  <1>12. IsFiniteSet(m') /\ Cardinality(m') <= Cardinality(m)
    BY <1>9, FS_Subset DEF LimitsInv
  <1>13. Cardinality(m) \in Nat /\ Cardinality(m') \in Nat
    BY <1>12, FS_CardinalityType DEF LimitsInv
  <1>14. Cardinality(m') <= MaxPending
    BY <1>12, <1>13, ConstantsAssumption DEF LimitsInv
  <1>15. QED
    BY <1>11, <1>12, <1>14 DEF LimitsInv

\* No other step of a callback answers a wrong code.
LEMMA CallbackLimits ==
    ASSUME StoreInv, StoreInv', LimitsInv, NEW c \in Callbacks, CallbackStep(c)
    PROVE  LimitsInv'
  <1>1. TypeOK /\ SenderInv(c)
    BY DEF StoreInv
  <1>2. cb \in [Callbacks -> Callback]
    BY <1>1 DEF TypeOK
  <1>3. ASSUME NEW n \in Nonces, NEW codeOK \in BOOLEAN, NEW e \in Emails,
               Post(c, n, codeOK, e)
        PROVE  LimitsInv'
    <2>1. \A x \in Nonces : Mismatched(x)' = Mismatched(x)
      BY <1>1, <1>2, <1>3 DEF Post, Mismatched, SenderInv
    <2>2. QED
      BY <1>3, <2>1, LimitsKept, ConstantsAssumption DEF Post
  <1>4. CASE ResolveUnknown(c)
    <2>1. \A x \in Nonces : Mismatched(x)' = Mismatched(x)
      BY <1>2, <1>4 DEF ResolveUnknown, Mismatched, Callback
    <2>2. QED
      BY <1>4, <2>1, LimitsKept, ConstantsAssumption DEF ResolveUnknown
  <1>5. CASE ResolveMismatch(c)
    BY <1>5, ResolveMismatchLimits
  <1>6. CASE ResolveMatch(c)
    <2>1. \A x \in Nonces : Mismatched(x)' = Mismatched(x)
      BY <1>2, <1>6 DEF ResolveMatch, Mismatched, Callback
    <2>2. QED
      BY <1>6, <2>1, LimitsKept, ConstantsAssumption DEF ResolveMatch
  <1>7. CASE ResolveSend(c)
    <2>1. \A x \in Nonces : Mismatched(x)' = Mismatched(x)
      BY <1>2, <1>7 DEF ResolveSend, Mismatched, Callback
    <2>2. /\ resolved[cb[c].nonce] = EmptyChannel
          /\ cb[c].nonce \in Nonces
      BY <1>1, <1>7 DEF ResolveSend, SenderInv
    <2>3. \A x \in Nonces : resolved[x].closed => resolved'[x].closed
      BY <1>1, <1>7, <2>2 DEF ResolveSend, TypeOK, EmptyChannel
    <2>4. QED
      BY <1>7, <2>1, <2>3, LimitsKept, ConstantsAssumption DEF ResolveSend
  <1>8. CASE Reply(c)
    <2>1. \A x \in Nonces : Mismatched(x)' = Mismatched(x)
      BY <1>2, <1>8 DEF Reply, Mismatched, Callback
    <2>2. QED
      BY <1>8, <2>1, LimitsKept, ConstantsAssumption DEF Reply
  <1>9. CASE NotifyFails(c)
    <2>1. \A x \in Nonces : Mismatched(x)' = Mismatched(x)
      BY <1>2, <1>9 DEF NotifyFails, Mismatched, Callback
    <2>2. QED
      BY <1>9, <2>1, LimitsKept, ConstantsAssumption DEF NotifyFails
  <1>10. QED
    BY <1>3, <1>4, <1>5, <1>6, <1>7, <1>8, <1>9 DEF CallbackStep

\* Apart from New, neither the connection nor the expiry goroutine adds a nonce
\* or answers a callback.
LEMMA NonceLimits ==
    ASSUME StoreInv, StoreInv', LimitsInv, NEW n \in Nonces,
           ConnStep(n) \/ ExpirerStep(n)
    PROVE  LimitsInv'
  <1>1. TypeOK
    BY DEF StoreInv
  <1>2. CASE New(n)
    BY <1>2, NewLimits
  <1>3. CASE \/ NewTooMany(n) \/ ChallengeShown(n) \/ ChallengeFails(n)
             \/ WaitTimeout(n) \/ ExpireLocked(n)
    <2>1. m' \subseteq m /\ UNCHANGED <<codeAttempts, resolved, cb>>
      BY <1>3 DEF NewTooMany, ChallengeShown, ChallengeFails, WaitTimeout, ExpireLocked
    <2>2. \A x \in Nonces : Mismatched(x)' = Mismatched(x)
      BY <2>1 DEF Mismatched
    <2>3. QED
      BY <2>1, <2>2, LimitsKept, ConstantsAssumption
  <1>4. CASE WaitReceive(n)
    <2>1. UNCHANGED <<m, codeAttempts, cb>>
      BY <1>4 DEF WaitReceive
    <2>2. \A x \in Nonces : Mismatched(x)' = Mismatched(x)
      BY <2>1 DEF Mismatched
    <2>3. \A x \in Nonces : resolved[x].closed => resolved'[x].closed
      BY <1>1, <1>4 DEF WaitReceive, TypeOK, Channel
    <2>4. QED
      BY <2>1, <2>2, <2>3, LimitsKept, ConstantsAssumption
  <1>5. CASE ExpireClose(n)
    <2>1. CloseChannel(n) /\ UNCHANGED <<m, codeAttempts, cb>>
      BY <1>5 DEF ExpireClose
    <2>2. \A x \in Nonces : Mismatched(x)' = Mismatched(x)
      BY <2>1 DEF Mismatched
    <2>3. \A x \in Nonces : resolved[x].closed => resolved'[x].closed
      BY <1>1, <2>1, CloseChannelFacts
    <2>4. QED
      BY <2>1, <2>2, <2>3, LimitsKept, ConstantsAssumption
  <1>6. QED
    BY <1>2, <1>3, <1>4, <1>5 DEF ConnStep, ExpirerStep

\* No interleaving answers more than maxCodeAttempts wrong codes for a nonce or
\* lets one that used them up authenticate anyone, and the store never holds
\* more than maxPending nonces.
THEOREM LimitsHold == Spec => []StoreLimits
  <1>1. ASSUME Init PROVE LimitsInv
    <2>1. m = {} /\ \A n \in Nonces : Mismatched(n) = {} /\ codeAttempts[n] = 0
      BY <1>1 DEF Init, Mismatched
    <2>2. IsFiniteSet(m) /\ Cardinality(m) = 0
      BY <2>1, FS_EmptySet
    <2>3. GuessesCounted
      BY <2>1, FS_EmptySet, ConstantsAssumption DEF GuessesCounted
    <2>4. QED
      BY <2>2, <2>3, ConstantsAssumption DEF LimitsInv
  <1>2. ASSUME StoreInv, StoreInv', LimitsInv, [Next]_vars PROVE LimitsInv'
    <2>1. CASE UNCHANGED vars
      BY <1>2, <2>1 DEF vars, LimitsInv, GuessesCounted, Mismatched
    <2>2. QED
      BY <1>2, <2>1, NonceLimits, CallbackLimits DEF Next
  <1>3. ASSUME StoreInv, LimitsInv PROVE StoreLimits
    <2>1. PendingBound
      BY <1>3 DEF PendingBound, StoreInv, TypeOK, PendingInv, LimitsInv
    <2>2. GuessesCounted
      BY <1>3 DEF LimitsInv
    <2>3. ASSUME NEW n \in Nonces
          PROVE  /\ Cardinality(Mismatched(n)) <= MaxCodeAttempts
                 /\ Cardinality(Mismatched(n)) = MaxCodeAttempts =>
                       Accepted(n) = {} /\ conn[n] # "authenticated"
      <3>1. codeAttempts[n] \in 0 .. MaxCodeAttempts
        BY <1>3 DEF StoreInv, TypeOK
      <3>2. codeAttempts[n] = Cardinality(Mismatched(n))
        BY <2>2 DEF GuessesCounted
      <3>3. Cardinality(Mismatched(n)) = MaxCodeAttempts => resolved[n].closed
        BY <2>2, <3>2 DEF GuessesCounted
      <3>4. QED
        BY <1>3, <3>1, <3>2, <3>3, ConstantsAssumption DEF StoreInv, CloserInv
    <2>4. GuessLimit
      BY <2>3 DEF GuessLimit
    <2>5. QED
      BY <2>1, <2>2, <2>4 DEF StoreLimits
  <1>4. QED
    BY <1>1, <1>2, <1>3, StoreInvariant, PTL DEF Spec

-----------------------------------------------------------------------------
(* The store implements OneTimeLogin *)

\* Whoever a login was granted to is the account of the one callback accepted
\* for it, before and after the connection has taken the e-mail.
OwnerKnown ==
    \A n \in Nonces :
        /\ Accepted(n) = {} => OwnerOf(n) = NoEmail /\ conn[n] # "authenticated"
        /\ \A c \in Accepted(n) : OwnerOf(n) = cb[c].email

\* The mapped owner is well defined in every reachable state, although OwnerOf
\* chooses among the accepted callbacks.
LEMMA OwnerFacts == StoreInv => OwnerKnown
  <1> SUFFICES ASSUME StoreInv, NEW n \in Nonces
               PROVE  /\ Accepted(n) = {} =>
                            OwnerOf(n) = NoEmail /\ conn[n] # "authenticated"
                      /\ \A c \in Accepted(n) : OwnerOf(n) = cb[c].email
    BY DEF OwnerKnown
  <1>1. conn[n] = "authenticated" =>
            \E c \in Accepted(n) : cb[c].email = permEmail[n]
    BY DEF StoreInv, ValueInv
  <1>2. \A c, d \in Accepted(n) : c = d
    BY DEF StoreInv, OneTimeUse
  <1>3. ASSUME NEW c \in Accepted(n) PROVE OwnerOf(n) = cb[c].email
    <2>1. CASE conn[n] = "authenticated"
      BY <1>1, <1>2, <2>1 DEF OwnerOf
    <2>2. CASE conn[n] # "authenticated"
      <3>1. (CHOOSE d \in Accepted(n) : TRUE) \in Accepted(n)
        OBVIOUS
      <3>2. (CHOOSE d \in Accepted(n) : TRUE) = c
        BY <1>2, <3>1
      <3>3. QED
        BY <2>2, <3>2 DEF OwnerOf
    <2>3. QED
      BY <2>1, <2>2
  <1>4. QED
    BY <1>1, <1>3 DEF OwnerOf

\* The same in the next state.
LEMMA OwnerFactsNext == StoreInv' => OwnerKnown'
  BY OwnerFacts, PTL

\* A step that leaves a nonce's place in the map, its accepted callback and
\* what its connection was let in with leaves the login and its owner.
LEMMA SameLogin ==
    ASSUME StoreInv, StoreInv', NEW n \in Nonces,
           Accepted(n)' = Accepted(n),
           \A c \in Accepted(n) : cb'[c].email = cb[c].email,
           n \in m' <=> n \in m,
           conn'[n] = "authenticated" <=> conn[n] = "authenticated",
           expirer'[n] = "none" <=> expirer[n] = "none"
    PROVE  LoginOf(n)' = LoginOf(n) /\ OwnerOf(n)' = OwnerOf(n)
  <1>1. LoginOf(n)' = LoginOf(n)
    BY DEF LoginOf
  <1>2. CASE Accepted(n) = {}
    BY <1>1, <1>2, OwnerFacts, OwnerFactsNext DEF OwnerKnown
  <1>3. ASSUME NEW c \in Accepted(n) PROVE OwnerOf(n)' = OwnerOf(n)
    BY <1>3, OwnerFacts, OwnerFactsNext DEF OwnerKnown
  <1>4. QED
    BY <1>1, <1>2, <1>3

\* No login changes: a stuttering step of OneTimeLogin.
LEMMA Stutters ==
    ASSUME \A n \in Nonces : LoginOf(n)' = LoginOf(n) /\ OwnerOf(n)' = OwnerOf(n)
    PROVE  UNCHANGED <<[n \in Nonces |-> LoginOf(n)], [n \in Nonces |-> OwnerOf(n)]>>
  OBVIOUS

\* One login changes.
LEMMA OneMoves ==
    ASSUME NEW n \in Nonces, NEW s, NEW e,
           \A x \in Nonces \ {n} : LoginOf(x)' = LoginOf(x) /\ OwnerOf(x)' = OwnerOf(x),
           LoginOf(n)' = s, OwnerOf(n)' = e
    PROVE  /\ [x \in Nonces |-> LoginOf(x)]' =
                  [[x \in Nonces |-> LoginOf(x)] EXCEPT ![n] = s]
           /\ [x \in Nonces |-> OwnerOf(x)]' =
                  [[x \in Nonces |-> OwnerOf(x)] EXCEPT ![n] = e]
  OBVIOUS

\* New opens a login that was never used.
LEMMA NewOpens ==
    ASSUME StoreInv, StoreInv', NEW n \in Nonces, New(n)
    PROVE  Login!Open(n)
  <1>1. TypeOK
    BY DEF StoreInv
  <1>2. \A x \in Nonces : Accepted(x)' = Accepted(x)
    BY DEF New, Accepted
  <1>3. ASSUME NEW x \in Nonces \ {n}
        PROVE  LoginOf(x)' = LoginOf(x) /\ OwnerOf(x)' = OwnerOf(x)
    BY <1>1, <1>2, SameLogin DEF New, TypeOK
  <1>4. /\ expirer[n] = "none" /\ conn[n] = "none" /\ n \notin m
        /\ Accepted(n) = {}
    BY DEF StoreInv, FreshInv, New
  <1>5. LoginOf(n) = "unused" /\ LoginOf(n)' = "open"
    BY <1>1, <1>4 DEF LoginOf, New, TypeOK
  <1>6. OwnerOf(n) = NoEmail /\ OwnerOf(n)' = NoEmail
    BY <1>2, <1>4, OwnerFacts, OwnerFactsNext DEF OwnerKnown
  <1>7. QED
    BY <1>3, <1>5, <1>6, OneMoves DEF Login!Open

\* A nonce leaves the map without an accepted callback: the login is lost.
LEMMA LeavesLost ==
    ASSUME StoreInv, StoreInv', NEW n \in Nonces,
           n \in m, m' = m \ {n}, expirer'[n] # "none",
           \A x \in Nonces \ {n} : expirer'[x] = expirer[x],
           conn' = conn,
           \A x \in Nonces : Accepted(x)' = Accepted(x),
           \A c \in Callbacks : cb'[c].email = cb[c].email
    PROVE  Login!Lose(n)
  <1>1. \A x \in Nonces : Accepted(x) \subseteq Callbacks
    BY DEF Accepted
  <1>2. ASSUME NEW x \in Nonces \ {n}
        PROVE  LoginOf(x)' = LoginOf(x) /\ OwnerOf(x)' = OwnerOf(x)
    BY <1>1, SameLogin
  <1>3. Accepted(n) = {} /\ conn[n] # "authenticated"
    BY DEF StoreInv, PendingInv
  <1>4. LoginOf(n) = "open" /\ LoginOf(n)' = "lost"
    BY <1>3 DEF LoginOf
  <1>5. OwnerOf(n) = NoEmail /\ OwnerOf(n)' = NoEmail
    BY <1>3, OwnerFacts, OwnerFactsNext DEF OwnerKnown
  <1>6. QED
    BY <1>2, <1>4, <1>5, OneMoves DEF Login!Lose

\* Resolve with the right code grants the login to the account the callback
\* reports.
LEMMA MatchGrants ==
    ASSUME StoreInv, StoreInv', NEW c \in Callbacks, ResolveMatch(c)
    PROVE  \E n \in Nonces, e \in Emails : Login!Grant(n, e)
  <1>1. TypeOK /\ cb[c].nonce \in Nonces /\ cb[c].nonce \in m /\ SenderInv(c)
    BY DEF StoreInv, ResolveMatch, TypeOK
  <1> PICK n \in Nonces : n = cb[c].nonce
    BY <1>1
  <1>2. /\ cb[c].gw = "posted" /\ m' = m \ {n}
        /\ cb' = [cb EXCEPT ![c].gw = "send"]
        /\ conn' = conn /\ expirer' = expirer
    BY DEF ResolveMatch
  <1> PICK e \in Emails : e = cb[c].email
    BY <1>1, <1>2 DEF SenderInv
  <1>3. ASSUME NEW d \in Callbacks
        PROVE  /\ cb'[d].nonce = cb[d].nonce
               /\ cb'[d].email = cb[d].email
               /\ cb'[d].gw = IF d = c THEN "send" ELSE cb[d].gw
    BY <1>1, <1>2 DEF TypeOK, Callback
  <1>4. Accepted(n) = {} /\ conn[n] # "authenticated"
    BY <1>1 DEF StoreInv, PendingInv
  <1>5. Accepted(n)' = {c}
    BY <1>3, <1>4 DEF Accepted
  <1>6. \A x \in Nonces \ {n} : Accepted(x)' = Accepted(x)
    BY <1>2, <1>3 DEF Accepted
  <1>7. \A x \in Nonces : Accepted(x) \subseteq Callbacks
    BY DEF Accepted
  <1>8. ASSUME NEW x \in Nonces \ {n}
        PROVE  LoginOf(x)' = LoginOf(x) /\ OwnerOf(x)' = OwnerOf(x)
    BY <1>2, <1>3, <1>6, <1>7, SameLogin
  <1>9. LoginOf(n) = "open" /\ LoginOf(n)' = "granted"
    BY <1>1, <1>2, <1>4, <1>5 DEF LoginOf
  <1>10. OwnerOf(n)' = e
    BY <1>3, <1>5, OwnerFactsNext DEF OwnerKnown
  <1>11. Login!Grant(n, e)
    BY <1>8, <1>9, <1>10, OneMoves DEF Login!Grant
  <1>12. QED
    BY <1>11

\* Taking the e-mail from the channel enters a granted login, as its owner.
LEMMA ReceiveEnters ==
    ASSUME StoreInv, StoreInv', NEW n \in Nonces, WaitReceive(n),
           resolved[n].val # NoEmail
    PROVE  Login!Enter(n)
  <1>1. TypeOK
    BY DEF StoreInv
  <1>2. /\ conn[n] = "wait"
        /\ conn' = [conn EXCEPT ![n] = "authenticated"]
        /\ UNCHANGED <<m, expirer, cb>>
    BY DEF WaitReceive
  <1>3. conn'[n] = "authenticated" /\ \A x \in Nonces \ {n} : conn'[x] = conn[x]
    BY <1>1, <1>2 DEF TypeOK
  <1>4. \A x \in Nonces : Accepted(x)' = Accepted(x)
    BY <1>2 DEF Accepted
  <1>5. PICK a \in Accepted(n) : cb[a].gw = "ok" /\ cb[a].email = resolved[n].val
    BY DEF StoreInv, ValueInv
  <1>6. n \notin m
    BY <1>5 DEF StoreInv, PendingInv
  <1>7. ASSUME NEW x \in Nonces \ {n}
        PROVE  LoginOf(x)' = LoginOf(x) /\ OwnerOf(x)' = OwnerOf(x)
    BY <1>2, <1>3, <1>4, SameLogin
  <1>8. LoginOf(n) = "granted" /\ LoginOf(n)' = "entered"
    BY <1>2, <1>3, <1>5, <1>6 DEF LoginOf
  <1>9. OwnerOf(n) = cb[a].email /\ OwnerOf(n)' = cb[a].email
    BY <1>2, <1>4, <1>5, OwnerFacts, OwnerFactsNext DEF OwnerKnown
  <1>10. QED
    BY <1>7, <1>8, <1>9, OneMoves DEF Login!Enter

\* A step of OneTimeLogin on the mapped state, or a stutter.
LoginNext == [Login!Next]_<<[n \in Nonces |-> LoginOf(n)], [n \in Nonces |-> OwnerOf(n)]>>

\* What a connection does is a step of OneTimeLogin or changes no login: a
\* refusal, a failed prompt and the timer of Wait leave the login to its fate.
LEMMA ConnRefines ==
    ASSUME StoreInv, StoreInv', NEW n \in Nonces, ConnStep(n)
    PROVE  LoginNext
  <1>1. TypeOK
    BY DEF StoreInv
  <1>2. CASE New(n)
    BY <1>2, NewOpens DEF LoginNext, Login!Next
  <1>3. CASE \/ NewTooMany(n) \/ ChallengeShown(n) \/ ChallengeFails(n) \/ WaitTimeout(n)
             \/ WaitReceive(n) /\ resolved[n].val = NoEmail
    <2>1. /\ conn[n] # "authenticated"
          /\ conn' \in {[conn EXCEPT ![n] = "refused"], [conn EXCEPT ![n] = "wait"]}
          /\ UNCHANGED <<m, expirer, cb>>
      BY <1>3 DEF NewTooMany, ChallengeShown, ChallengeFails, WaitTimeout, WaitReceive
    <2>2. \A x \in Nonces : conn'[x] = "authenticated" <=> conn[x] = "authenticated"
      BY <1>1, <2>1 DEF TypeOK
    <2>3. \A x \in Nonces : Accepted(x)' = Accepted(x)
      BY <2>1 DEF Accepted
    <2>4. \A x \in Nonces : LoginOf(x)' = LoginOf(x) /\ OwnerOf(x)' = OwnerOf(x)
      BY <2>1, <2>2, <2>3, SameLogin
    <2>5. QED
      BY <2>4, Stutters DEF LoginNext
  <1>4. CASE WaitReceive(n) /\ resolved[n].val # NoEmail
    BY <1>4, ReceiveEnters DEF LoginNext, Login!Next
  <1>5. QED
    BY <1>2, <1>3, <1>4 DEF ConnStep

\* The expiry goroutine loses a login that is still open, and nothing else: its
\* close after Unlock changes no login.
LEMMA ExpirerRefines ==
    ASSUME StoreInv, StoreInv', NEW n \in Nonces, ExpirerStep(n)
    PROVE  LoginNext
  <1>1. TypeOK
    BY DEF StoreInv
  <1>2. /\ UNCHANGED <<conn, cb>>
        /\ expirer[n] # "none" /\ expirer'[n] # "none"
        /\ \A x \in Nonces \ {n} : expirer'[x] = expirer[x]
    BY <1>1 DEF ExpirerStep, ExpireLocked, ExpireClose, TypeOK
  <1>3. \A x \in Nonces : Accepted(x)' = Accepted(x)
    BY <1>2 DEF Accepted
  <1>4. CASE ExpireLocked(n) /\ n \in m
    <2>1. Login!Lose(n)
      BY <1>2, <1>3, <1>4, LeavesLost DEF ExpireLocked
    <2>2. QED
      BY <2>1 DEF LoginNext, Login!Next
  <1>5. CASE (ExpireLocked(n) /\ n \notin m) \/ ExpireClose(n)
    <2>1. \A x \in Nonces : x \in m' <=> x \in m
      BY <1>5 DEF ExpireLocked, ExpireClose
    <2>2. \A x \in Nonces : LoginOf(x)' = LoginOf(x) /\ OwnerOf(x)' = OwnerOf(x)
      BY <1>2, <1>3, <2>1, SameLogin
    <2>3. QED
      BY <2>2, Stutters DEF LoginNext
  <1>6. QED
    BY <1>4, <1>5 DEF ExpirerStep

\* A callback grants an open login, loses it with the last wrong code, or
\* changes no login.
LEMMA CallbackRefines ==
    ASSUME StoreInv, StoreInv', NEW c \in Callbacks, CallbackStep(c)
    PROVE  LoginNext
  <1>1. TypeOK /\ SenderInv(c)
    BY DEF StoreInv
  <1>2. CASE ResolveMatch(c)
    BY <1>2, MatchGrants DEF LoginNext, Login!Next
  <1>3. CASE ResolveMismatch(c)
    <2>1. cb[c].nonce \in Nonces
      BY <1>1, <1>3 DEF ResolveMismatch, TypeOK
    <2> PICK n \in Nonces : n = cb[c].nonce
      BY <2>1
    <2>2. /\ n \in m /\ UNCHANGED <<conn, expirer>>
          /\ \A x \in Nonces : Accepted(x)' = Accepted(x)
          /\ \A d \in Callbacks : cb'[d].email = cb[d].email
      BY <1>1, <1>3 DEF ResolveMismatch, Accepted, TypeOK, Callback
    <2>3. CASE codeAttempts[n] + 1 >= MaxCodeAttempts
      <3>1. m' = m \ {n}
        BY <1>3, <2>3 DEF ResolveMismatch
      <3>2. expirer'[n] # "none"
        BY <2>2 DEF StoreInv, PendingInv
      <3>3. Login!Lose(n)
        BY <2>2, <3>1, <3>2, LeavesLost
      <3>4. QED
        BY <3>3 DEF LoginNext, Login!Next
    <2>4. CASE ~(codeAttempts[n] + 1 >= MaxCodeAttempts)
      <3>1. m' = m
        BY <1>3, <2>4 DEF ResolveMismatch
      <3>2. \A x \in Nonces : Accepted(x) \subseteq Callbacks
        BY DEF Accepted
      <3>3. \A x \in Nonces : LoginOf(x)' = LoginOf(x) /\ OwnerOf(x)' = OwnerOf(x)
        BY <2>2, <3>1, <3>2, SameLogin
      <3>4. QED
        BY <3>3, Stutters DEF LoginNext
    <2>5. QED
      BY <2>3, <2>4
  <1>4. CASE \/ \E n \in Nonces, codeOK \in BOOLEAN, e \in Emails : Post(c, n, codeOK, e)
             \/ ResolveUnknown(c) \/ ResolveSend(c) \/ Reply(c) \/ NotifyFails(c)
    <2>1. UNCHANGED <<m, conn, expirer>>
      BY <1>4 DEF Post, ResolveUnknown, ResolveSend, Reply, NotifyFails
    <2>2. \A x \in Nonces :
              /\ Accepted(x)' = Accepted(x)
              /\ \A d \in Accepted(x) : cb'[d].email = cb[d].email
      <3>1. ASSUME NEW n \in Nonces, NEW codeOK \in BOOLEAN, NEW e \in Emails,
                   Post(c, n, codeOK, e)
            PROVE  \A x \in Nonces :
                       /\ Accepted(x)' = Accepted(x)
                       /\ \A d \in Accepted(x) : cb'[d].email = cb[d].email
        BY <1>1, <3>1 DEF Post, Accepted, TypeOK, SenderInv
      <3>2. CASE ResolveUnknown(c)
        BY <1>1, <3>2 DEF ResolveUnknown, Accepted, TypeOK, Callback
      <3>3. CASE ResolveSend(c)
        BY <1>1, <3>3 DEF ResolveSend, Accepted, TypeOK, Callback
      <3>4. CASE Reply(c) \/ NotifyFails(c)
        BY <1>1, <3>4 DEF Reply, NotifyFails, Accepted, TypeOK, Callback
      <3>5. QED
        BY <1>4, <3>1, <3>2, <3>3, <3>4
    <2>3. \A x \in Nonces : LoginOf(x)' = LoginOf(x) /\ OwnerOf(x)' = OwnerOf(x)
      BY <2>1, <2>2, SameLogin
    <2>4. QED
      BY <2>3, Stutters DEF LoginNext
  <1>5. QED
    BY <1>2, <1>3, <1>4 DEF CallbackStep

\* The goroutines, the lock, the channel and the webhook together implement the
\* one-time login: every step is a step of OneTimeLogin or leaves it as it is.
THEOREM Refinement == Spec => ImplementsOneTimeLogin
  <1>1. Init => Login!Init
    <2> SUFFICES ASSUME Init PROVE Login!Init
      OBVIOUS
    <2>1. \A n \in Nonces : Accepted(n) = {}
      BY DEF Init, Accepted
    <2>2. \A n \in Nonces : LoginOf(n) = "unused" /\ OwnerOf(n) = NoEmail
      BY <2>1 DEF Init, LoginOf, OwnerOf
    <2>3. QED
      BY <2>2 DEF Login!Init
  <1>2. StoreInv /\ StoreInv' /\ [Next]_vars => LoginNext
    <2> SUFFICES ASSUME StoreInv, StoreInv', [Next]_vars PROVE LoginNext
      OBVIOUS
    <2>1. CASE UNCHANGED vars
      <3>1. UNCHANGED <<m, conn, permEmail, expirer, cb>>
        BY <2>1 DEF vars
      <3>2. \A x \in Nonces : Accepted(x)' = Accepted(x)
        BY <3>1 DEF Accepted
      <3>3. \A x \in Nonces : LoginOf(x)' = LoginOf(x) /\ OwnerOf(x)' = OwnerOf(x)
        BY <3>1, <3>2, SameLogin
      <3>4. QED
        BY <3>3, Stutters DEF LoginNext
    <2>2. QED
      BY <2>1, ConnRefines, ExpirerRefines, CallbackRefines DEF Next
  <1>3. QED
    BY <1>1, <1>2, StoreInvariant, PTL DEF Spec, ImplementsOneTimeLogin, Login!Spec, LoginNext
-----------------------------------------------------------------------------
(* The web login *)

\* One tab becomes r, the others stay as they are.
Moves(t, r) ==
    /\ r \in Web!TabState
    /\ tab' \in [Tabs -> Web!TabState]
    /\ tab'[t] = r
    /\ \A u \in Tabs \ {t} : tab'[u] = tab[u]

\* The assignments the handlers make to a tab.
LEMMA TabFacts ==
    ASSUME Web!TypeOK, NEW t \in Tabs, NEW r \in Web!TabState, tab' = [tab EXCEPT ![t] = r]
    PROVE  Moves(t, r)
  BY DEF Web!TypeOK, Moves

\* A step to another place, all else of the tab as it was.
LEMMA PcFacts ==
    ASSUME Web!TypeOK, NEW t \in Tabs, NEW pc \in Web!PC, tab' = [tab EXCEPT ![t].pc = pc]
    PROVE  Moves(t, [tab[t] EXCEPT !.pc = pc])
  <1>1. tab[t] \in Web!TabState
    BY DEF Web!TypeOK
  <1>2. [tab[t] EXCEPT !.pc = pc] \in Web!TabState
    BY <1>1 DEF Web!TabState
  <1>3. tab' = [tab EXCEPT ![t] = [tab[t] EXCEPT !.pc = pc]]
    OBVIOUS
  <1>4. QED
    BY <1>2, <1>3, TabFacts

\* An answer of the API.
LEMMA AnswerFacts ==
    ASSUME Web!TypeOK, NEW t \in Tabs, NEW a \in Web!Answers, Web!Answer(t, a)
    PROVE  Moves(t, [tab[t] EXCEPT !.pc = "answer", !.answer = a])
  <1>1. tab[t] \in Web!TabState
    BY DEF Web!TypeOK
  <1>2. [tab[t] EXCEPT !.pc = "answer", !.answer = a] \in Web!TabState
    BY <1>1 DEF Web!TabState, Web!PC
  <1>3. tab' = [tab EXCEPT ![t] = [tab[t] EXCEPT !.pc = "answer", !.answer = a]]
    BY <1>1 DEF Web!Answer, Web!TabState, Web!TypeOK
  <1>4. QED
    BY <1>2, <1>3, TabFacts

\* The properties of the login follow from what tabs, cookies and flows keep.
LEMMA CoreSuffices ==
    ASSUME Web!OAuthLoginAssumption, Web!CoreInv
    PROVE  Web!WebLoginInv
  <1>1. Web!TypeOK /\ \A t \in Tabs : Web!TabInv(t) /\ Web!SentInv(t)
    BY DEF Web!CoreInv
  <1>2. ASSUME NEW t \in Tabs, tab[t].answer = "ok"
        PROVE  /\ flow[tab[t].nonce].browser = tab[t].browser
               /\ code[tab[t].nonce] \in Campus
    <2>1. tab[t].pc = "answer" /\ tab[t].sent = tab[t].nonce
      BY <1>1, <1>2 DEF Web!TabInv, Web!SentInv
    <2>2. tab[t].nonce \in Nonces
      BY <1>1, <2>1 DEF Web!TabInv
    <2>3. QED
      BY <1>1, <1>2, <2>1, <2>2 DEF Web!TabInv, Web!SentInv, Web!OAuthLoginAssumption
  <1>3. ASSUME NEW t \in Tabs, tab[t].answer = "401"
        PROVE  flow[tab[t].nonce].browser # tab[t].browser \/ tab[t].nonce \in lost
    BY <1>1, <1>3 DEF Web!TabInv, Web!SentInv
  <1>4. ASSUME NEW t \in Tabs, tab[t].to # NoNonce
        PROVE  tab[t].to \in {Default, flow[tab[t].nonce].origin}
    BY <1>1, <1>4 DEF Web!TabInv
  <1>5. QED
    BY <1>2, <1>3, <1>4 DEF Web!CoreInv, Web!WebLoginInv, Web!OwnLoginOnly,
           Web!RefusedForAReason, Web!RedirectAsAsked

\* Nothing has begun.
LEMMA InitCore ==
    ASSUME Web!OAuthLoginAssumption, Web!Init
    PROVE  Web!CoreInv
  <1>1. Web!Idle \in Web!TabState /\ Web!Idle.pc = "idle" /\ Web!Idle.answer = "none"
        /\ Web!Idle.to = NoNonce /\ Web!Idle.sent = NoNonce
    BY DEF Web!Idle, Web!TabState, Web!PC, Web!Answers
  <1>2. Web!TypeOK
    BY <1>1 DEF Web!Init, Web!TypeOK, Web!Flow
  <1>3. \A t \in Tabs : tab[t] = Web!Idle
    BY DEF Web!Init
  <1>4. \A t \in Tabs : Web!TabInv(t) /\ Web!SentInv(t)
    BY <1>1, <1>3 DEF Web!TabInv, Web!SentInv
  <1>5. Web!OneBeginner
    BY <1>1, <1>3 DEF Web!OneBeginner
  <1>6. Web!CookieInv
    BY <1>1, <1>3 DEF Web!CookieInv, Web!Init
  <1>7. QED
    BY <1>2, <1>4, <1>5, <1>6 DEF Web!CoreInv

\* A step of one tab that begins no login and changes no cookie or flow.
LEMMA TabStep ==
    ASSUME Web!OAuthLoginAssumption, Web!CoreInv, NEW t \in Tabs, NEW r, Moves(t, r),
           r.pc \notin {"login", "google"}, Web!TabInv(t)', Web!SentInv(t)',
           UNCHANGED <<cookie, flow, code, lost>>,
           exchanged' \subseteq Nonces, allowed' \subseteq Origins
    PROVE  Web!CoreInv'
  <1>1. Web!TypeOK'
    BY DEF Web!CoreInv, Web!TypeOK, Moves
  <1>2. ASSUME NEW u \in Tabs PROVE Web!TabInv(u)' /\ Web!SentInv(u)'
    <2>1. CASE u = t
      BY <2>1
    <2>2. CASE u # t
      <3>1. tab'[u] = tab[u] /\ Web!TabInv(u) /\ Web!SentInv(u)
        BY <2>2 DEF Web!CoreInv, Moves
      <3>2. QED
        BY <3>1 DEF Web!TabInv, Web!SentInv
    <2>3. QED
      BY <2>1, <2>2
  <1>3. Web!OneBeginner'
    BY DEF Web!CoreInv, Moves, Web!OneBeginner
  <1>4. Web!CookieInv'
    BY DEF Web!CoreInv, Moves, Web!CookieInv
  <1>5. QED
    BY <1>1, <1>2, <1>3, <1>4 DEF Web!CoreInv

\* Opening a callback URL, in whatever browser, begins no login.
LEMMA OpenURLCore ==
    ASSUME Web!OAuthLoginAssumption, Web!CoreInv, NEW t \in Tabs, NEW b \in Emails,
           NEW n \in Nonces, Web!OpenURL(t, b, n)
    PROVE  Web!CoreInv'
  <1> DEFINE r == [Web!Idle EXCEPT !.pc = "back", !.browser = b, !.nonce = n]
  <1>1. Web!TypeOK /\ Web!CookieInv
    BY DEF Web!CoreInv
  <1>2. /\ r.pc = "back" /\ r.browser = b /\ r.nonce = n
        /\ r.sent = NoNonce /\ r.to = NoNonce /\ r.answer = "none"
    BY DEF Web!Idle
  <1>3. r \in Web!TabState
    BY DEF Web!Idle, Web!TabState, Web!PC, Web!Answers
  <1>4. Moves(t, r) /\ UNCHANGED <<cookie, flow, code, exchanged, allowed, lost>>
    BY <1>1, <1>3, TabFacts DEF Web!OpenURL
  <1>5. code[n] # NoNonce /\ flow[n].browser \in Emails
    BY <1>1 DEF Web!OpenURL, Web!CookieInv
  <1> HIDE DEF r
  <1>6. Web!TabInv(t)' /\ Web!SentInv(t)'
    BY <1>2, <1>4, <1>5 DEF Web!TabInv, Web!SentInv, Moves
  <1>7. QED
    BY <1>1, <1>2, <1>4, <1>6, TabStep DEF Web!TypeOK

\* The request carries the cookie the browser has now: it is of a login of this
\* browser, and if it is not this one, this one was lost or is not the browser's.
LEMMA SendCallbackCore ==
    ASSUME Web!OAuthLoginAssumption, Web!CoreInv, NEW t \in Tabs, Web!SendCallback(t)
    PROVE  Web!CoreInv'
  <1> DEFINE r == [tab[t] EXCEPT !.pc = "callback", !.sent = cookie[tab[t].browser]]
  <1>1. Web!TypeOK /\ Web!CookieInv /\ Web!TabInv(t) /\ Web!SentInv(t) /\ tab[t].pc = "back"
    BY DEF Web!CoreInv, Web!SendCallback
  <1>2. tab[t] \in Web!TabState /\ tab[t].browser \in Emails /\ tab[t].nonce \in Nonces
    BY <1>1 DEF Web!TypeOK, Web!TabInv
  <1>3. cookie[tab[t].browser] \in Nonces \cup {NoNonce}
    BY <1>1, <1>2 DEF Web!TypeOK
  <1>4. /\ r.pc = "callback" /\ r.browser = tab[t].browser /\ r.nonce = tab[t].nonce
        /\ r.sent = cookie[tab[t].browser] /\ r.to = tab[t].to /\ r.answer = tab[t].answer
    BY <1>2 DEF Web!TabState
  <1>5. r \in Web!TabState
    BY <1>2, <1>3 DEF Web!TabState, Web!PC
  <1>6. tab' = [tab EXCEPT ![t] = r]
    BY <1>1, <1>2 DEF Web!SendCallback, Web!TypeOK, Web!TabState
  <1>7. Moves(t, r) /\ UNCHANGED <<cookie, flow, code, exchanged, allowed, lost>>
    BY <1>1, <1>5, <1>6, TabFacts DEF Web!SendCallback
  <1> HIDE DEF r
  <1>8. Web!TabInv(t)'
    BY <1>1, <1>4, <1>7 DEF Web!TabInv, Moves
  <1>9. Web!SentInv(t)'
    <2>1. cookie[tab[t].browser] # NoNonce =>
             flow[cookie[tab[t].browser]].browser = tab[t].browser
      BY <1>1, <1>2 DEF Web!CookieInv
    <2>2. \/ cookie[flow[tab[t].nonce].browser] = tab[t].nonce
          \/ tab[t].nonce \in lost
      BY <1>1, <1>2 DEF Web!CookieInv, Web!TabInv
    <2>3. tab[t].answer = "none"
      BY <1>1 DEF Web!TabInv
    <2>4. QED
      BY <1>4, <1>7, <2>1, <2>2, <2>3 DEF Web!SentInv, Moves
  <1>10. QED
    BY <1>1, <1>4, <1>7, <1>8, <1>9, TabStep DEF Web!TypeOK

\* The API answers a callback: what the answer says is what SentInv and TabInv ask.
LEMMA AnswerCore ==
    ASSUME Web!OAuthLoginAssumption, Web!CoreInv, NEW t \in Tabs, NEW a \in Web!Answers,
            Web!Answer(t, a),
           tab[t].pc \in {"callback", "exchange"},
           a = "401" => tab[t].sent # tab[t].nonce,
           a = "ok" => tab[t].sent = tab[t].nonce /\ code[tab[t].nonce] \in Campus,
           UNCHANGED <<cookie, flow, code, allowed, lost>>, exchanged' \subseteq Nonces
    PROVE  Web!CoreInv'
  <1> DEFINE r == [tab[t] EXCEPT !.pc = "answer", !.answer = a]
  <1>1. Web!TypeOK /\ Web!TabInv(t) /\ Web!SentInv(t)
    BY DEF Web!CoreInv
  <1>2. tab[t] \in Web!TabState
    BY <1>1 DEF Web!TypeOK
  <1>3. /\ r.pc = "answer" /\ r.browser = tab[t].browser /\ r.nonce = tab[t].nonce
        /\ r.sent = tab[t].sent /\ r.to = tab[t].to /\ r.answer = a
    BY <1>2 DEF Web!TabState
  <1>4. Moves(t, r)
    BY <1>1, AnswerFacts
  <1> HIDE DEF r
  <1>5. Web!TabInv(t)'
    BY <1>1, <1>3, <1>4 DEF Web!TabInv, Moves
  <1>6. Web!SentInv(t)'
    BY <1>1, <1>3, <1>4 DEF Web!SentInv, Moves
  <1>7. QED
    BY <1>1, <1>3, <1>4, <1>5, <1>6, TabStep DEF Web!TypeOK

\* The four answers of the API, and the way to Google's token endpoint.
LEMMA CallbackCore ==
    ASSUME Web!OAuthLoginAssumption, Web!CoreInv, NEW t \in Tabs,
           \/ Web!CallbackInvalid(t) \/ Web!CallbackWithoutCode(t)
           \/ Web!Exchange(t) \/ Web!ExchangeFails(t)
    PROVE  Web!CoreInv'
  <1>1. Web!TypeOK /\ Web!TabInv(t) /\ Web!SentInv(t)
    BY DEF Web!CoreInv
  <1>2. tab[t].pc \in {"callback", "exchange"} => tab[t].nonce \in Nonces
    BY <1>1 DEF Web!TabInv
  <1>3. CASE Web!CallbackInvalid(t)
    BY <1>1, <1>3, AnswerCore DEF Web!CallbackInvalid, Web!ValidOAuthStateNonce, Web!Answers,
           Web!TypeOK
  <1>4. CASE Web!CallbackWithoutCode(t)
    BY <1>1, <1>4, AnswerCore DEF Web!CallbackWithoutCode, Web!Answers, Web!TypeOK
  <1>5. CASE Web!Exchange(t)
    <2> DEFINE a == IF tab[t].nonce \notin exchanged /\ code[tab[t].nonce] \in Campus
                    THEN "ok" ELSE "error"
    <2>1. /\ a \in Web!Answers /\ Web!Answer(t, a) /\ tab[t].pc = "exchange"
          /\ a # "401" /\ (a = "ok" => code[tab[t].nonce] \in Campus)
      BY <1>5 DEF Web!Exchange, Web!Answers
    <2>2. tab[t].sent = tab[t].nonce
      BY <1>1, <2>1 DEF Web!SentInv
    <2>3. UNCHANGED <<cookie, flow, code, allowed, lost>> /\ exchanged' \subseteq Nonces
      BY <1>1, <1>2, <1>5, <2>1 DEF Web!Exchange, Web!TypeOK
    <2> HIDE DEF a
    <2>4. QED
      BY <2>1, <2>2, <2>3, AnswerCore
  <1>6. CASE Web!ExchangeFails(t)
    <2>1. exchanged' \subseteq Nonces
      BY <1>1, <1>2, <1>6 DEF Web!ExchangeFails, Web!TypeOK
    <2>2. QED
      BY <1>6, <2>1, AnswerCore DEF Web!ExchangeFails, Web!Answers
  <1>7. QED
    BY <1>3, <1>4, <1>5, <1>6

\* The callback goes on to exchange the code: the cookie was the nonce, and the
\* origin is the one the login asked for or the default.
LEMMA CallbackValidCore ==
    ASSUME Web!OAuthLoginAssumption, Web!CoreInv, NEW t \in Tabs, Web!CallbackValid(t)
    PROVE  Web!CoreInv'
  <1> DEFINE to == Web!FrontendURLFromState(tab[t].nonce)
             r == [tab[t] EXCEPT !.pc = "exchange", !.to = to]
  <1>1. Web!TypeOK /\ Web!TabInv(t) /\ Web!SentInv(t) /\ tab[t].pc = "callback"
    BY DEF Web!CoreInv, Web!CallbackValid
  <1>2. tab[t] \in Web!TabState /\ tab[t].nonce \in Nonces
    BY <1>1 DEF Web!TypeOK, Web!TabInv
  <1>3. to \in Origins \cup {Default, NoNonce} /\ to \in {Default, flow[tab[t].nonce].origin}
    <2>1. flow[tab[t].nonce] \in Web!Flow
      BY <1>1, <1>2 DEF Web!TypeOK
    <2>2. QED
      BY <2>1 DEF Web!FrontendURLFromState, Web!Flow
  <1> HIDE DEF to
  <1>4. /\ r.pc = "exchange" /\ r.browser = tab[t].browser /\ r.nonce = tab[t].nonce
        /\ r.sent = tab[t].sent /\ r.to = to /\ r.answer = tab[t].answer
    BY <1>2 DEF Web!TabState
  <1>5. r \in Web!TabState
    BY <1>2, <1>3 DEF Web!TabState, Web!PC
  <1>6. tab' = [tab EXCEPT ![t] = r]
    BY <1>1, <1>2 DEF Web!CallbackValid, Web!TypeOK, Web!TabState, to
  <1>7. /\ Moves(t, r) /\ UNCHANGED <<cookie, flow, code, exchanged, allowed, lost>>
        /\ tab[t].sent = tab[t].nonce
    BY <1>1, <1>5, <1>6, TabFacts DEF Web!CallbackValid, Web!ValidOAuthStateNonce
  <1> HIDE DEF r
  <1>8. Web!TabInv(t)'
    BY <1>1, <1>3, <1>4, <1>7 DEF Web!TabInv, Moves
  <1>9. Web!SentInv(t)'
    BY <1>1, <1>4, <1>7 DEF Web!SentInv, Web!TabInv, Moves
  <1>10. QED
    BY <1>1, <1>4, <1>7, <1>8, <1>9, TabStep DEF Web!TypeOK

\* A login begins with a fresh nonce: no tab, cookie or code knows it.
LEMMA LoginCore ==
    ASSUME Web!OAuthLoginAssumption, Web!CoreInv, NEW t \in Tabs, NEW b \in Emails,
           NEW n \in Nonces, NEW o \in Origins \cup {Default}, Web!Login(t, b, n, o)
    PROVE  Web!CoreInv'
  <1> DEFINE r == [Web!Idle EXCEPT !.pc = "login", !.browser = b, !.nonce = n]
             f == [browser |-> b, origin |-> o]
  <1>1. /\ Web!TypeOK /\ Web!CookieInv /\ Web!OneBeginner
        /\ \A u \in Tabs : Web!TabInv(u) /\ Web!SentInv(u)
    BY DEF Web!CoreInv
  <1>2. /\ r.pc = "login" /\ r.browser = b /\ r.nonce = n
        /\ r.sent = NoNonce /\ r.to = NoNonce /\ r.answer = "none"
    BY DEF Web!Idle
  <1>3. r \in Web!TabState
    BY DEF Web!Idle, Web!TabState, Web!PC, Web!Answers
  <1>4. /\ Moves(t, r) /\ UNCHANGED <<cookie, code, exchanged, allowed, lost>>
        /\ flow' = [flow EXCEPT ![n] = f]
        /\ flow[n].browser = NoNonce
    BY <1>1, <1>3, TabFacts DEF Web!Login, Web!FreshNonce
  <1>5. f \in Web!Flow /\ f.browser = b
    BY DEF Web!Flow
  <1> HIDE DEF r, f
  <1>6. /\ flow' \in [Nonces -> Web!Flow]
        /\ flow'[n] = f
        /\ \A x \in Nonces \ {n} : flow'[x] = flow[x]
    BY <1>1, <1>4, <1>5 DEF Web!TypeOK
  <1>7. NoNonce \notin Emails
    BY DEF Web!OAuthLoginAssumption
  <1>8. code[n] = NoNonce
    BY <1>1, <1>4, <1>7 DEF Web!CookieInv
  <1>9. \A x \in Emails : cookie[x] # n
    BY <1>1, <1>4, <1>7 DEF Web!CookieInv, Web!OAuthLoginAssumption
  <1>10. ASSUME NEW u \in Tabs, u # t
         PROVE  /\ tab'[u] = tab[u]
                /\ tab[u].pc # "idle" => tab[u].nonce # n
                /\ tab[u].sent # n
    <2>1. tab[u] \in Web!TabState /\ Web!TabInv(u) /\ Web!SentInv(u)
      BY <1>1 DEF Web!TypeOK
    <2>2. tab[u].sent = n => tab[u].browser = NoNonce
      BY <1>4, <2>1 DEF Web!SentInv, Web!OAuthLoginAssumption
    <2>3. tab[u].pc = "idle" => tab[u].sent = NoNonce
      BY <2>1 DEF Web!TabInv, Web!Idle
    <2>4. n # NoNonce
      BY DEF Web!OAuthLoginAssumption
    <2>5. QED
      BY <1>4, <1>7, <1>10, <2>1, <2>2, <2>3, <2>4 DEF Web!TabInv, Moves
  <1>11. Web!TypeOK'
    BY <1>1, <1>4, <1>6 DEF Web!TypeOK, Moves
  <1>12. ASSUME NEW u \in Tabs PROVE Web!TabInv(u)' /\ Web!SentInv(u)'
    <2>1. CASE u = t
      BY <1>2, <1>4, <1>5, <1>6, <1>8, <2>1 DEF Web!TabInv, Web!SentInv, Moves
    <2>2. CASE u # t
      <3>1. tab[u] \in Web!TabState /\ Web!TabInv(u) /\ Web!SentInv(u)
        BY <1>1 DEF Web!TypeOK
      <3>2. tab[u].sent \in Nonces \cup {NoNonce}
        BY <3>1 DEF Web!TabState
      <3>3. tab[u].to # NoNonce => tab[u].pc # "idle"
        BY <3>1 DEF Web!TabInv
      <3>4. Web!TabInv(u)'
        BY <1>4, <1>6, <1>10, <2>2, <3>1, <3>3 DEF Web!TabInv
      <3>5. Web!SentInv(u)'
        BY <1>4, <1>6, <1>10, <2>2, <3>1, <3>2 DEF Web!SentInv, Web!TabInv
      <3>6. QED
        BY <3>4, <3>5
    <2>3. QED
      BY <2>1, <2>2
  <1>13. Web!OneBeginner'
    <2> SUFFICES ASSUME NEW u \in Tabs, NEW v \in Tabs,
                        tab'[u].pc \in {"login", "google"}, tab'[v].pc \in {"login", "google"},
                        tab'[u].nonce = tab'[v].nonce
                 PROVE  u = v
      BY DEF Web!OneBeginner
    <2>1. CASE u # t /\ v # t
      BY <1>1, <1>10, <2>1 DEF Web!OneBeginner
    <2>2. CASE u = t \/ v = t
      BY <1>2, <1>4, <1>10, <2>2 DEF Moves
    <2>3. QED
      BY <2>1, <2>2
  <1>14. Web!CookieInv'
    <2>1. ASSUME NEW x \in Emails, cookie'[x] # NoNonce
          PROVE  flow'[cookie'[x]].browser = x
      <3>1. cookie[x] \in Nonces /\ cookie[x] # n
        BY <1>1, <1>4, <1>9, <2>1 DEF Web!TypeOK
      <3>2. QED
        BY <1>1, <1>4, <1>6, <2>1, <3>1 DEF Web!CookieInv
    <2>2. ASSUME NEW x \in Nonces,
                 \/ code'[x] # NoNonce
                 \/ \E u \in Tabs : tab'[u].pc = "google" /\ tab'[u].nonce = x
          PROVE  /\ flow'[x].browser \in Emails
                 /\ cookie'[flow'[x].browser] = x \/ x \in lost'
      <3>1. x # n
        BY <1>2, <1>4, <1>8, <1>10, <2>2 DEF Moves
      <3>2. \/ code[x] # NoNonce
            \/ \E u \in Tabs : tab[u].pc = "google" /\ tab[u].nonce = x
        BY <1>2, <1>4, <1>10, <2>2 DEF Moves
      <3>3. QED
        BY <1>1, <1>4, <1>6, <3>1, <3>2 DEF Web!CookieInv
    <2>3. QED
      BY <2>1, <2>2 DEF Web!CookieInv
  <1>15. QED
    BY <1>11, <1>12, <1>13, <1>14 DEF Web!CoreInv

\* A cookie that changes takes the old nonce with it, and no more.
LEMMA SetCookieFacts ==
    ASSUME Web!OAuthLoginAssumption, Web!CoreInv, NEW b \in Emails,
            NEW n \in Nonces \cup {NoNonce},
           n # NoNonce => flow[n].browser = b,
           Web!SetCookie(b, n)
    PROVE  /\ cookie' \in [Emails -> Nonces \cup {NoNonce}]
           /\ lost \subseteq lost' /\ lost' \subseteq Nonces
           /\ \A x \in Emails : cookie'[x] # NoNonce => flow[cookie'[x]].browser = x
           /\ \A x \in Nonces, y \in Emails :
                 cookie[y] = x \/ x \in lost => cookie'[y] = x \/ x \in lost'
           /\ n # NoNonce => cookie'[b] = n
  <1>1. Web!TypeOK /\ Web!CookieInv
    BY DEF Web!CoreInv
  <1>2. cookie[b] \in Nonces \cup {NoNonce}
    BY <1>1 DEF Web!TypeOK
  <1>3. /\ cookie' \in [Emails -> Nonces \cup {NoNonce}]
        /\ cookie'[b] = n
        /\ \A x \in Emails \ {b} : cookie'[x] = cookie[x]
    BY <1>1 DEF Web!SetCookie, Web!TypeOK
  <1>4. lost' = lost \cup ({cookie[b]} \ {n, NoNonce})
    BY DEF Web!SetCookie
  <1>5. lost \subseteq lost' /\ lost' \subseteq Nonces
    BY <1>1, <1>2, <1>4 DEF Web!TypeOK
  <1>6. \A x \in Emails : cookie'[x] # NoNonce => flow[cookie'[x]].browser = x
    BY <1>1, <1>3 DEF Web!CookieInv
  <1>7. ASSUME NEW x \in Nonces, NEW y \in Emails, cookie[y] = x \/ x \in lost
        PROVE  cookie'[y] = x \/ x \in lost'
    BY <1>3, <1>4, <1>7 DEF Web!OAuthLoginAssumption
  <1>8. QED
    BY <1>3, <1>5, <1>6, <1>7

\* The answer to Login reaches the browser: from here on the cookie is there or lost.
LEMMA LoginArrivesCore ==
    ASSUME Web!OAuthLoginAssumption, Web!CoreInv, NEW t \in Tabs, Web!LoginArrives(t)
    PROVE  Web!CoreInv'
  <1> DEFINE r == [tab[t] EXCEPT !.pc = "google"]
  <1>1. /\ Web!TypeOK /\ Web!CookieInv /\ Web!OneBeginner /\ tab[t].pc = "login"
        /\ \A u \in Tabs : Web!TabInv(u) /\ Web!SentInv(u)
    BY DEF Web!CoreInv, Web!LoginArrives
  <1>2. /\ tab[t] \in Web!TabState /\ tab[t].browser \in Emails /\ tab[t].nonce \in Nonces
        /\ flow[tab[t].nonce].browser = tab[t].browser
    BY <1>1 DEF Web!TypeOK, Web!TabInv
  <1>3. /\ r.pc = "google" /\ r.browser = tab[t].browser /\ r.nonce = tab[t].nonce
        /\ r.sent = tab[t].sent /\ r.to = tab[t].to /\ r.answer = tab[t].answer
    BY <1>2 DEF Web!TabState
  <1>4. Moves(t, r) /\ UNCHANGED <<flow, code, exchanged, allowed>>
    BY <1>1, PcFacts DEF Web!LoginArrives, Web!PC
  <1> HIDE DEF r
  <1>5. /\ cookie' \in [Emails -> Nonces \cup {NoNonce}]
        /\ lost \subseteq lost' /\ lost' \subseteq Nonces
        /\ \A x \in Emails : cookie'[x] # NoNonce => flow[cookie'[x]].browser = x
        /\ \A x \in Nonces, y \in Emails :
              cookie[y] = x \/ x \in lost => cookie'[y] = x \/ x \in lost'
        /\ cookie'[tab[t].browser] = tab[t].nonce
    <2>1. Web!SetCookie(tab[t].browser, tab[t].nonce) /\ tab[t].nonce # NoNonce
      BY <1>2 DEF Web!LoginArrives, Web!OAuthLoginAssumption
    <2>2. QED
      BY <1>2, <2>1, SetCookieFacts
  <1>6. Web!TypeOK'
    BY <1>1, <1>4, <1>5 DEF Web!TypeOK, Moves
  <1>7. ASSUME NEW u \in Tabs PROVE Web!TabInv(u)' /\ Web!SentInv(u)'
    <2>1. Web!TabInv(u) /\ Web!SentInv(u)
      BY <1>1
    <2>2. CASE u = t
      BY <1>1, <1>3, <1>4, <2>1, <2>2 DEF Web!TabInv, Web!SentInv, Moves
    <2>3. CASE u # t
      BY <1>4, <1>5, <2>1, <2>3 DEF Web!TabInv, Web!SentInv, Moves
    <2>4. QED
      BY <2>2, <2>3
  <1>8. Web!OneBeginner'
    BY <1>1, <1>3, <1>4 DEF Web!OneBeginner, Moves
  <1>9. Web!CookieInv'
    <2>1. ASSUME NEW x \in Nonces,
                 \/ code'[x] # NoNonce
                 \/ \E u \in Tabs : tab'[u].pc = "google" /\ tab'[u].nonce = x
          PROVE  /\ flow'[x].browser \in Emails
                 /\ cookie'[flow'[x].browser] = x \/ x \in lost'
      <3>1. CASE x = tab[t].nonce
        BY <1>2, <1>4, <1>5, <3>1
      <3>2. CASE x # tab[t].nonce
        <4>1. \/ code[x] # NoNonce
              \/ \E u \in Tabs : tab[u].pc = "google" /\ tab[u].nonce = x
          BY <1>3, <1>4, <2>1, <3>2 DEF Moves
        <4>2. flow[x].browser \in Emails /\ (cookie[flow[x].browser] = x \/ x \in lost)
          BY <1>1, <4>1 DEF Web!CookieInv
        <4>3. QED
          BY <1>4, <1>5, <4>2
      <3>3. QED
        BY <3>1, <3>2
    <2>2. QED
      BY <1>4, <1>5, <2>1 DEF Web!CookieInv
  <1>10. QED
    BY <1>6, <1>7, <1>8, <1>9 DEF Web!CoreInv

\* The user's choice at Google is made once per login: no other tab is at it.
LEMMA ApproveCore ==
    ASSUME Web!OAuthLoginAssumption, Web!CoreInv, NEW t \in Tabs,
           NEW a \in Accounts \cup {"denied"}, Web!Approve(t, a)
    PROVE  Web!CoreInv'
  <1> DEFINE r == [tab[t] EXCEPT !.pc = "back"]
             n == tab[t].nonce
  <1>1. /\ Web!TypeOK /\ Web!CookieInv /\ Web!OneBeginner /\ tab[t].pc = "google"
        /\ \A u \in Tabs : Web!TabInv(u) /\ Web!SentInv(u)
    BY DEF Web!CoreInv, Web!Approve
  <1>2. /\ tab[t] \in Web!TabState /\ n \in Nonces /\ code[n] = NoNonce /\ a # NoNonce
    BY <1>1 DEF Web!TypeOK, Web!TabInv, Web!OAuthLoginAssumption
  <1>3. /\ r.pc = "back" /\ r.browser = tab[t].browser /\ r.nonce = tab[t].nonce
        /\ r.sent = tab[t].sent /\ r.to = tab[t].to /\ r.answer = tab[t].answer
    BY <1>2 DEF Web!TabState
  <1>4. Moves(t, r) /\ UNCHANGED <<cookie, flow, exchanged, allowed, lost>>
    BY <1>1, PcFacts DEF Web!Approve, Web!PC
  <1> HIDE DEF r
  <1>5. /\ code' \in [Nonces -> Accounts \cup {NoNonce, "denied"}]
        /\ code'[n] = a
        /\ \A x \in Nonces \ {n} : code'[x] = code[x]
    BY <1>1, <1>2 DEF Web!Approve, Web!TypeOK
  <1>6. Web!TypeOK'
    BY <1>1, <1>4, <1>5 DEF Web!TypeOK, Moves
  <1>7. ASSUME NEW u \in Tabs PROVE Web!TabInv(u)' /\ Web!SentInv(u)'
    <2>1. Web!TabInv(u) /\ Web!SentInv(u)
      BY <1>1
    <2>2. CASE u = t
      BY <1>1, <1>2, <1>3, <1>4, <1>5, <2>1, <2>2 DEF Web!TabInv, Web!SentInv, Moves
    <2>3. CASE u # t
      <3>1. tab'[u] = tab[u]
        BY <1>4, <2>3 DEF Moves
      <3>2. tab[u].pc \in {"login", "google"} => tab[u].nonce # n
        BY <1>1, <2>3 DEF Web!OneBeginner
      <3>3. tab[u].answer = "ok" => tab[u].nonce \in Nonces /\ code[tab[u].nonce] # NoNonce
        BY <2>1 DEF Web!TabInv
      <3>4. Web!TabInv(u)'
        BY <1>2, <1>4, <1>5, <2>1, <3>1, <3>2, <3>3 DEF Web!TabInv
      <3>5. Web!SentInv(u)'
        BY <1>4, <2>1, <3>1 DEF Web!SentInv
      <3>6. QED
        BY <3>4, <3>5
    <2>4. QED
      BY <2>2, <2>3
  <1>8. Web!OneBeginner'
    BY <1>1, <1>3, <1>4 DEF Web!OneBeginner, Moves
  <1>9. Web!CookieInv'
    <2>1. ASSUME NEW x \in Nonces,
                 \/ code'[x] # NoNonce
                 \/ \E u \in Tabs : tab'[u].pc = "google" /\ tab'[u].nonce = x
          PROVE  /\ flow'[x].browser \in Emails
                 /\ cookie'[flow'[x].browser] = x \/ x \in lost'
      <3>1. \/ code[x] # NoNonce
            \/ \E u \in Tabs : tab[u].pc = "google" /\ tab[u].nonce = x
        BY <1>1, <1>3, <1>4, <1>5, <2>1 DEF Moves
      <3>2. QED
        BY <1>1, <1>4, <3>1 DEF Web!CookieInv
    <2>2. QED
      BY <1>1, <1>4, <2>1 DEF Web!CookieInv
  <1>10. QED
    BY <1>6, <1>7, <1>8, <1>9 DEF Web!CoreInv

\* A cookie is cleared, by an answer or by its age: the login it was for is lost.
LEMMA ClearCore ==
    ASSUME Web!OAuthLoginAssumption, Web!CoreInv, NEW b \in Emails, Web!SetCookie(b, NoNonce),
           NEW t \in Tabs, NEW r, Moves(t, r), r = tab[t] \/ r = Web!Idle,
           UNCHANGED <<flow, code, exchanged, allowed>>
    PROVE  Web!CoreInv'
  <1>1. /\ Web!TypeOK /\ Web!CookieInv /\ Web!OneBeginner
        /\ \A u \in Tabs : Web!TabInv(u) /\ Web!SentInv(u)
    BY DEF Web!CoreInv
  <1>2. /\ cookie' \in [Emails -> Nonces \cup {NoNonce}]
        /\ lost \subseteq lost' /\ lost' \subseteq Nonces
        /\ \A x \in Emails : cookie'[x] # NoNonce => flow[cookie'[x]].browser = x
        /\ \A x \in Nonces, y \in Emails :
              cookie[y] = x \/ x \in lost => cookie'[y] = x \/ x \in lost'
    BY SetCookieFacts
  <1>3. /\ Web!Idle.pc = "idle" /\ Web!Idle.answer = "none"
        /\ Web!Idle.to = NoNonce /\ Web!Idle.sent = NoNonce
    BY DEF Web!Idle
  <1>4. \A u \in Tabs : tab'[u] = tab[u] \/ tab'[u] = Web!Idle
    BY DEF Moves
  <1>5. Web!TypeOK'
    BY <1>1, <1>2 DEF Web!TypeOK, Moves
  <1>6. ASSUME NEW u \in Tabs PROVE Web!TabInv(u)' /\ Web!SentInv(u)'
    <2>1. Web!TabInv(u) /\ Web!SentInv(u)
      BY <1>1
    <2>2. CASE tab'[u] = tab[u]
      BY <1>2, <2>1, <2>2 DEF Web!TabInv, Web!SentInv
    <2>3. CASE tab'[u] = Web!Idle
      BY <1>3, <2>3 DEF Web!TabInv, Web!SentInv
    <2>4. QED
      BY <1>4, <2>2, <2>3
  <1>7. Web!OneBeginner'
    BY <1>1, <1>3, <1>4 DEF Web!OneBeginner
  <1>8. Web!CookieInv'
    <2>1. ASSUME NEW x \in Nonces,
                 \/ code'[x] # NoNonce
                 \/ \E u \in Tabs : tab'[u].pc = "google" /\ tab'[u].nonce = x
          PROVE  /\ flow'[x].browser \in Emails
                 /\ cookie'[flow'[x].browser] = x \/ x \in lost'
      <3>1. \/ code[x] # NoNonce
            \/ \E u \in Tabs : tab[u].pc = "google" /\ tab[u].nonce = x
        BY <1>3, <1>4, <2>1
      <3>2. flow[x].browser \in Emails /\ (cookie[flow[x].browser] = x \/ x \in lost)
        BY <1>1, <3>1 DEF Web!CookieInv
      <3>3. QED
        BY <1>2, <3>2
    <2>2. QED
      BY <1>2, <2>1 DEF Web!CookieInv
  <1>9. QED
    BY <1>5, <1>6, <1>7, <1>8 DEF Web!CoreInv

\* The answer to a callback reaches the browser.
LEMMA CallbackArrivesCore ==
    ASSUME Web!OAuthLoginAssumption, Web!CoreInv, NEW t \in Tabs, Web!CallbackArrives(t)
    PROVE  Web!CoreInv'
  <1>1. Web!TypeOK /\ tab[t].browser \in Emails
    BY DEF Web!CoreInv, Web!TabInv, Web!CallbackArrives
  <1>2. Web!Idle \in Web!TabState
    BY DEF Web!Idle, Web!TabState, Web!PC, Web!Answers
  <1>3. Moves(t, Web!Idle)
    BY <1>1, <1>2, TabFacts DEF Web!CallbackArrives
  <1>4. QED
    BY <1>1, <1>3, ClearCore DEF Web!CallbackArrives

\* Cookies expire, and the API is restarted with another pattern, at any time.
LEMMA EnvironmentCore ==
    ASSUME Web!OAuthLoginAssumption, Web!CoreInv,
           \/ \E b \in Emails : Web!CookieExpires(b)
           \/ \E o \in Origins : Web!Reconfigure(o)
    PROVE  Web!CoreInv'
  <1>1. ASSUME NEW b \in Emails, Web!CookieExpires(b) PROVE Web!CoreInv'
    <2>1. Web!TypeOK
      BY DEF Web!CoreInv
    <2>2. Web!SetCookie(b, NoNonce) /\ UNCHANGED <<tab, flow, code, exchanged, allowed>>
      BY <1>1 DEF Web!CookieExpires
    <2>3. ASSUME NEW t \in Tabs PROVE Web!CoreInv'
      <3>1. Moves(t, tab[t])
        BY <2>1, <2>2 DEF Moves, Web!TypeOK
      <3>2. QED
        BY <2>2, <3>1, ClearCore
    <2>4. CASE Tabs = {}
      <3>1. /\ cookie' \in [Emails -> Nonces \cup {NoNonce}]
            /\ lost' \subseteq Nonces
            /\ \A x \in Emails : cookie'[x] # NoNonce => flow[cookie'[x]].browser = x
            /\ \A x \in Nonces, y \in Emails :
                  cookie[y] = x \/ x \in lost => cookie'[y] = x \/ x \in lost'
        BY <2>2, SetCookieFacts
      <3>2. Web!TypeOK' /\ Web!OneBeginner'
        BY <2>1, <2>2, <2>4, <3>1 DEF Web!TypeOK, Web!OneBeginner
      <3>3. Web!CookieInv'
        BY <2>2, <2>4, <3>1 DEF Web!CoreInv, Web!CookieInv
      <3>4. QED
        BY <2>4, <3>2, <3>3 DEF Web!CoreInv
    <2>5. QED
      BY <2>3, <2>4
  <1>2. ASSUME NEW o \in Origins, Web!Reconfigure(o) PROVE Web!CoreInv'
    <2>1. UNCHANGED <<cookie, tab, flow, code, exchanged, lost>> /\ allowed' \subseteq Origins
      BY <1>2 DEF Web!Reconfigure, Web!CoreInv, Web!TypeOK
    <2>2. Web!TypeOK' /\ \A t \in Tabs : Web!TabInv(t)' /\ Web!SentInv(t)'
      BY <2>1 DEF Web!CoreInv, Web!TypeOK, Web!TabInv, Web!SentInv
    <2>3. Web!OneBeginner' /\ Web!CookieInv'
      BY <2>1 DEF Web!CoreInv, Web!OneBeginner, Web!CookieInv
    <2>4. QED
      BY <2>2, <2>3 DEF Web!CoreInv
  <1>3. QED
    BY <1>1, <1>2

\* However tabs, copied URLs, late answers and expiring cookies interleave: a login
\* succeeds only in the browser that began it and for a campus account, is refused
\* only for a reason, and ends where it asked to.
THEOREM WebLoginSound ==
    ASSUME Web!OAuthLoginAssumption
    PROVE  Web!Spec => []WebLoginInv
  <1>1. Web!Init => Web!CoreInv
    BY InitCore
  <1>2. Web!CoreInv /\ [Web!Next]_Web!vars => Web!CoreInv'
    <2> SUFFICES ASSUME Web!CoreInv, [Web!Next]_Web!vars PROVE Web!CoreInv'
      OBVIOUS
    <2>1. ASSUME NEW t \in Tabs, NEW b \in Emails, NEW n \in Nonces,
                 \/ Web!OpenURL(t, b, n)
                 \/ \E o \in Origins \cup {Default} : Web!Login(t, b, n, o)
          PROVE  Web!CoreInv'
      BY <2>1, OpenURLCore, LoginCore
    <2>2. ASSUME NEW t \in Tabs,
                 \/ \E a \in Accounts \cup {"denied"} : Web!Approve(t, a)
                 \/ Web!LoginArrives(t) \/ Web!SendCallback(t)
                 \/ Web!CallbackInvalid(t) \/ Web!CallbackWithoutCode(t) \/ Web!CallbackValid(t)
                 \/ Web!Exchange(t) \/ Web!ExchangeFails(t) \/ Web!CallbackArrives(t)
          PROVE  Web!CoreInv'
      BY <2>2, ApproveCore, LoginArrivesCore, SendCallbackCore, CallbackCore, CallbackValidCore,
         CallbackArrivesCore
    <2>3. CASE UNCHANGED Web!vars
      <3>1. UNCHANGED <<cookie, tab, flow, code, exchanged, allowed, lost>>
        BY <2>3 DEF Web!vars
      <3>2. Web!TypeOK' /\ \A t \in Tabs : Web!TabInv(t)' /\ Web!SentInv(t)'
        BY <3>1 DEF Web!CoreInv, Web!TypeOK, Web!TabInv, Web!SentInv
      <3>3. Web!OneBeginner' /\ Web!CookieInv'
        BY <3>1 DEF Web!CoreInv, Web!OneBeginner, Web!CookieInv
      <3>4. QED
        BY <3>2, <3>3 DEF Web!CoreInv
    <2>4. QED
      BY <2>1, <2>2, <2>3, EnvironmentCore DEF Web!Next
  <1>3. Web!CoreInv => WebLoginInv
    BY CoreSuffices DEF WebLoginInv
  <1>4. QED
    BY <1>1, <1>2, <1>3, PTL DEF Web!Spec

-----------------------------------------------------------------------------
(* The filter *)

\* No session and no request.
LEMMA InitFilter ==
    ASSUME Filter!AuthFilterAssumption, Filter!Init
    PROVE  Filter!AccessInv
  <1>1. Filter!TypeOK
    BY DEF Filter!Init, Filter!TypeOK, Filter!Request, Filter!Waiting,
           Filter!AuthFilterAssumption
  <1>2. \A r \in Requests : filter[r].pc = "idle"
    BY DEF Filter!Init, Filter!Waiting
  <1>3. Filter!TokensFresh
    BY DEF Filter!Init, Filter!TokensFresh
  <1>4. QED
    BY <1>1, <1>2, <1>3 DEF Filter!AccessInv, Filter!HandlerInv, Filter!RequestInv,
           Filter!Carrying

\* A step of one request, which becomes q.
LEMMA RequestStep ==
    ASSUME Filter!AuthFilterAssumption, Filter!AccessInv, NEW r \in Requests,
           NEW q \in Filter!Request, filter' = [filter EXCEPT ![r] = q],
           q.pc \in Filter!Carrying =>
              /\ \/ /\ q.pc \in {"find", "handler"}
                    /\ q.token.type = "access" /\ q.token.email = q.email /\ q.quiet < TTL
                 \/ /\ q.pc # "find"
                    /\ q.token = Filter!DevToken /\ bypass /\ q.email = DevEmail
              /\ q.pc = "handler" /\ q.admin => q.email \in Admins,
           row' \in [Users -> Ids \cup {NoRow, NoSession}],
           UNCHANGED <<tokens, used, quiet, bypass>>
    PROVE  Filter!AccessInv'
  <1>1. Filter!TypeOK /\ Filter!TokensFresh
    BY DEF Filter!AccessInv
  <1>2. /\ filter' \in [Requests -> Filter!Request]
        /\ filter'[r] = q
        /\ \A x \in Requests \ {r} : filter'[x] = filter[x]
    BY <1>1 DEF Filter!TypeOK
  <1>3. Filter!TypeOK'
    BY <1>1, <1>2 DEF Filter!TypeOK
  <1>4. ASSUME NEW x \in Requests PROVE Filter!RequestInv(x)'
    <2>1. CASE x = r
      BY <1>2, <2>1 DEF Filter!RequestInv
    <2>2. CASE x # r
      BY <1>2, <2>2 DEF Filter!RequestInv, Filter!AccessInv
    <2>3. QED
      BY <2>1, <2>2
  <1>5. Filter!TokensFresh'
    BY <1>1 DEF Filter!TokensFresh
  <1>6. Filter!HandlerInv'
    BY <1>3, <1>4 DEF Filter!HandlerInv, Filter!RequestInv, Filter!Carrying
  <1>7. QED
    BY <1>3, <1>4, <1>5, <1>6 DEF Filter!AccessInv

\* A refusal carries nothing on.
LEMMA RefuseFilter ==
    ASSUME Filter!AuthFilterAssumption, Filter!AccessInv, NEW r \in Requests,
           NEW status \in {"idle", "401", "403", "500"},
           filter' = [filter EXCEPT ![r] = [pc |-> status]],
           UNCHANGED <<row, tokens, used, quiet, bypass>>
    PROVE  Filter!AccessInv'
  <1> DEFINE q == [pc |-> status]
  <1>1. q \in Filter!Request /\ q.pc \notin Filter!Carrying
    BY DEF Filter!Request, Filter!Carrying
  <1>2. row' \in [Users -> Ids \cup {NoRow, NoSession}]
    BY DEF Filter!AccessInv, Filter!TypeOK
  <1> HIDE DEF q
  <1>3. filter' = [filter EXCEPT ![r] = q]
    BY DEF q
  <1>4. QED
    BY <1>1, <1>2, <1>3, RequestStep

\* A request that goes on keeps what it carries.
LEMMA GotoFacts ==
    ASSUME Filter!TypeOK, NEW r \in Requests, filter[r].pc \in Filter!Carrying,
           NEW pc \in Filter!Carrying, Filter!Goto(r, pc)
    PROVE  \E q \in Filter!Request :
              /\ filter' = [filter EXCEPT ![r] = q]
              /\ q.pc = pc /\ q.email = filter[r].email /\ q.admin = filter[r].admin
              /\ q.token = filter[r].token /\ q.quiet = filter[r].quiet
  <1>1. filter[r] \in Filter!Request /\ filter \in [Requests -> Filter!Request]
    BY DEF Filter!TypeOK
  <1>2. filter[r] \in [pc : Filter!Carrying, email : Users, admin : BOOLEAN,
                       token : Filter!AccessToken \cup {Filter!DevToken},
                       quiet : 0 .. TTL + 1]
    BY <1>1 DEF Filter!Request, Filter!Carrying
  <1> DEFINE q == [filter[r] EXCEPT !.pc = pc]
  <1>3. q \in Filter!Request
    BY <1>2 DEF Filter!Request
  <1>4. /\ q.pc = pc /\ q.email = filter[r].email /\ q.admin = filter[r].admin
        /\ q.token = filter[r].token /\ q.quiet = filter[r].quiet
    BY <1>2
  <1>5. filter' = [filter EXCEPT ![r] = q]
    BY <1>1 DEF Filter!Goto
  <1>6. QED
    BY <1>3, <1>4, <1>5

\* The token is checked against the secret key, its expiry and its type, and the
\* user of a token that passes had a session within its life.
LEMMA AuthRequiredFilter ==
    ASSUME Filter!AuthFilterAssumption, Filter!AccessInv, NEW r \in Requests,
           NEW header \in tokens \cup {Filter!None, Filter!Malformed, Filter!Forged,
                                       Filter!DevToken},
           NEW cookie_ \in tokens \cup {Filter!None, Filter!DevToken},
           NEW admin \in BOOLEAN, Filter!AuthRequired(r, header, cookie_, admin)
    PROVE  Filter!AccessInv'
  <1> DEFINE t == Filter!accessTokenFromRequest(header, cookie_)
  <1>1. Filter!TypeOK /\ Filter!TokensFresh
    BY DEF Filter!AccessInv
  <1>2. t \in tokens \cup {Filter!None, Filter!Malformed, Filter!Forged, Filter!DevToken}
    BY DEF Filter!accessTokenFromRequest
  <1>3. UNCHANGED <<row, tokens, used, quiet, bypass>>
    BY DEF Filter!AuthRequired, Filter!sessionVars
  <1>4. CASE bypass /\ t = Filter!DevToken
    <2> DEFINE q == [pc |-> "devFind", email |-> DevEmail, admin |-> admin, token |-> t,
                     quiet |-> 0]
    <2>1. filter' = [filter EXCEPT ![r] = q]
      BY <1>4 DEF Filter!AuthRequired
    <2>2. q \in Filter!Request
      BY <1>4 DEF Filter!Request, Filter!Carrying, Filter!AuthFilterAssumption
    <2>3. q.pc = "devFind" /\ q.token = Filter!DevToken /\ q.email = DevEmail
      BY <1>4
    <2>4. row' \in [Users -> Ids \cup {NoRow, NoSession}]
      BY <1>1, <1>3 DEF Filter!TypeOK
    <2> HIDE DEF q
    <2>5. QED
      BY <1>3, <1>4, <2>1, <2>2, <2>3, <2>4, RequestStep
  <1>5. CASE ~(bypass /\ t = Filter!DevToken) /\ Filter!ValidateToken(t) /\ t.type = "access"
    <2>1. t \in tokens /\ t \in Filter!AccessToken /\ t.left > 0
      BY <1>1, <1>2, <1>5 DEF Filter!None, Filter!Malformed, Filter!Forged, Filter!DevToken,
             Filter!ValidateToken, Filter!TypeOK, Filter!AccessToken, Filter!RefreshToken
    <2>2. t.email \in Users /\ t.left \in Nat /\ quiet[t.email] \in 0 .. TTL + 1
      BY <1>1, <2>1 DEF Filter!AccessToken, Filter!TypeOK
    <2>3. quiet[t.email] < TTL
      BY <1>1, <1>5, <2>1, <2>2 DEF Filter!TokensFresh, Filter!AuthFilterAssumption
    <2> DEFINE q == [pc |-> "find", email |-> t.email, admin |-> admin, token |-> t,
                     quiet |-> quiet[t.email]]
    <2>4. filter' = [filter EXCEPT ![r] = q]
      BY <1>5 DEF Filter!AuthRequired
    <2>5. q \in Filter!Request
      BY <2>1, <2>2 DEF Filter!Request, Filter!Carrying
    <2>6. /\ q.pc = "find" /\ q.token.type = "access" /\ q.token.email = q.email
          /\ q.quiet < TTL
      BY <1>5, <2>3
    <2>7. row' \in [Users -> Ids \cup {NoRow, NoSession}]
      BY <1>1, <1>3 DEF Filter!TypeOK
    <2> HIDE DEF q
    <2>8. QED
      BY <1>3, <2>4, <2>5, <2>6, <2>7, RequestStep
  <1>6. CASE ~(bypass /\ t = Filter!DevToken) /\ ~(Filter!ValidateToken(t) /\ t.type = "access")
    <2>1. filter' = [filter EXCEPT ![r] = [pc |-> "401"]]
      BY <1>6 DEF Filter!AuthRequired
    <2>2. QED
      BY <1>3, <2>1, RefuseFilter
  <1>7. QED
    BY <1>4, <1>5, <1>6

\* What stands behind the look-up: the handler, or 403 for those who are not
\* administrators on an admin route.
LEMMA ThroughFilter ==
    ASSUME Filter!AuthFilterAssumption, Filter!AccessInv, NEW r \in Requests,
           filter[r].pc \in {"find", "devFind", "devFindAgain"}, Filter!Through(r),
           UNCHANGED <<row, tokens, used, quiet, bypass>>
    PROVE  Filter!AccessInv'
  <1>1. Filter!TypeOK /\ Filter!RequestInv(r)
    BY DEF Filter!AccessInv
  <1>2. row' \in [Users -> Ids \cup {NoRow, NoSession}]
    BY <1>1 DEF Filter!TypeOK
  <1>3. filter[r].pc \in Filter!Carrying /\ "handler" \in Filter!Carrying
    BY DEF Filter!Carrying
  <1>4. CASE filter[r].admin => filter[r].email \in Admins
    <2>1. Filter!Goto(r, "handler")
      BY <1>4 DEF Filter!Through, Filter!IsAdminEmail
    <2>2. PICK q \in Filter!Request :
              /\ filter' = [filter EXCEPT ![r] = q]
              /\ q.pc = "handler" /\ q.email = filter[r].email /\ q.admin = filter[r].admin
              /\ q.token = filter[r].token /\ q.quiet = filter[r].quiet
      BY <1>1, <1>3, <2>1, GotoFacts
    <2>3. \/ q.token.type = "access" /\ q.token.email = q.email /\ q.quiet < TTL
          \/ q.token = Filter!DevToken /\ bypass /\ q.email = DevEmail
      BY <1>1, <1>3, <2>2 DEF Filter!RequestInv
    <2>4. QED
      BY <1>2, <1>4, <2>2, <2>3, RequestStep
  <1>5. CASE ~(filter[r].admin => filter[r].email \in Admins)
    <2>1. filter' = [filter EXCEPT ![r] = [pc |-> "403"]]
      BY <1>5 DEF Filter!Through, Filter!IsAdminEmail, Filter!Refuse
    <2>2. QED
      BY <2>1, RefuseFilter
  <1>6. QED
    BY <1>4, <1>5

\* A step of the development bypass to its next statement.
LEMMA DevFilter ==
    ASSUME Filter!AuthFilterAssumption, Filter!AccessInv, NEW r \in Requests,
           filter[r].pc \in {"devFind", "devUpsert"},
           NEW pc \in {"devUpsert", "devFindAgain"}, Filter!Goto(r, pc),
           row' \in [Users -> Ids \cup {NoRow, NoSession}],
           UNCHANGED <<tokens, used, quiet, bypass>>
    PROVE  Filter!AccessInv'
  <1>1. Filter!TypeOK /\ Filter!RequestInv(r)
    BY DEF Filter!AccessInv
  <1>2. filter[r].pc \in Filter!Carrying /\ pc \in Filter!Carrying
    BY DEF Filter!Carrying
  <1>3. PICK q \in Filter!Request :
            /\ filter' = [filter EXCEPT ![r] = q]
            /\ q.pc = pc /\ q.email = filter[r].email /\ q.admin = filter[r].admin
            /\ q.token = filter[r].token /\ q.quiet = filter[r].quiet
    BY <1>1, <1>2, GotoFacts
  <1>4. q.token = Filter!DevToken /\ bypass /\ q.email = DevEmail
    BY <1>1, <1>2, <1>3 DEF Filter!RequestInv
  <1>5. QED
    BY <1>3, <1>4, RequestStep

\* Every step of a request.
LEMMA RequestsFilter ==
    ASSUME Filter!AuthFilterAssumption, Filter!AccessInv, NEW r \in Requests,
           \/ Filter!FindByEmail(r) \/ Filter!StatementFails(r) \/ Filter!DevFind(r)
           \/ Filter!DevUpsert(r) \/ Filter!DevFindAgain(r) \/ Filter!Returns(r)
    PROVE  Filter!AccessInv'
  <1>1. row \in [Users -> Ids \cup {NoRow, NoSession}] /\ DevEmail \in Users
    BY DEF Filter!AccessInv, Filter!TypeOK, Filter!AuthFilterAssumption
  <1>2. CASE Filter!FindByEmail(r)
    BY <1>2, RefuseFilter, ThroughFilter DEF Filter!FindByEmail, Filter!Refuse,
           Filter!sessionVars
  <1>3. CASE Filter!StatementFails(r)
    BY <1>3, RefuseFilter DEF Filter!StatementFails, Filter!Refuse, Filter!sessionVars
  <1>4. CASE Filter!DevFind(r)
    BY <1>1, <1>4, DevFilter, ThroughFilter DEF Filter!DevFind, Filter!sessionVars
  <1>5. CASE Filter!DevUpsert(r)
    <2>1. row' \in [Users -> Ids \cup {NoRow, NoSession}]
      BY <1>1, <1>5 DEF Filter!DevUpsert
    <2>2. QED
      BY <1>5, <2>1, DevFilter DEF Filter!DevUpsert
  <1>6. CASE Filter!DevFindAgain(r)
    BY <1>6, RefuseFilter, ThroughFilter DEF Filter!DevFindAgain, Filter!Refuse,
           Filter!sessionVars
  <1>7. CASE Filter!Returns(r)
    BY <1>7, RefuseFilter DEF Filter!Returns, Filter!Waiting, Filter!sessionVars
  <1>8. QED
    BY <1>2, <1>3, <1>4, <1>5, <1>6, <1>7

\* A change of a user's row alone: a logout, or the operator removing the user.
LEMMA RowFilter ==
    ASSUME Filter!AccessInv, row' \in [Users -> Ids \cup {NoRow, NoSession}],
           UNCHANGED <<tokens, used, quiet, bypass, filter>>
    PROVE  Filter!AccessInv'
  <1>1. Filter!TypeOK' /\ Filter!TokensFresh'
    BY DEF Filter!AccessInv, Filter!TypeOK, Filter!TokensFresh
  <1>2. Filter!HandlerInv' /\ \A r \in Requests : Filter!RequestInv(r)'
    BY DEF Filter!AccessInv, Filter!HandlerInv, Filter!RequestInv
  <1>3. QED
    BY <1>1, <1>2 DEF Filter!AccessInv

\* A new pair of tokens: the user has a session now, so older tokens only gain.
LEMMA GenerateFilter ==
    ASSUME Filter!AuthFilterAssumption, Filter!AccessInv, NEW e \in Users, NEW id \in Ids,
           Filter!GenerateAuthTokens(e, id)
    PROVE  Filter!AccessInv'
  <1>1. Filter!TypeOK /\ Filter!TokensFresh /\ TTL \in Nat
    BY DEF Filter!AccessInv, Filter!AuthFilterAssumption
  <1>2. /\ tokens' = tokens \cup {Filter!Access(e, TTL), Filter!Refresh(e, id)}
        /\ quiet' = [quiet EXCEPT ![e] = 0]
        /\ row' = [row EXCEPT ![e] = id]
        /\ used' = used \cup {id}
        /\ UNCHANGED <<bypass, filter>>
    BY DEF Filter!GenerateAuthTokens
  <1>3. /\ Filter!Access(e, TTL) \in Filter!AccessToken
        /\ Filter!Access(e, TTL).email = e /\ Filter!Access(e, TTL).left = TTL
        /\ Filter!Refresh(e, id) \in Filter!RefreshToken
        /\ Filter!Refresh(e, id).type = "refresh"
    BY <1>1 DEF Filter!Access, Filter!Refresh, Filter!AccessToken, Filter!RefreshToken
  <1>4. /\ quiet' \in [Users -> 0 .. TTL + 1]
        /\ quiet'[e] = 0 /\ \A x \in Users \ {e} : quiet'[x] = quiet[x]
    BY <1>1, <1>2 DEF Filter!TypeOK
  <1>5. Filter!TypeOK'
    BY <1>1, <1>2, <1>3, <1>4 DEF Filter!TypeOK
  <1>6. ASSUME NEW t \in tokens', t.type = "access", t.left > 0
        PROVE  quiet'[t.email] + t.left <= TTL
    <2>1. CASE t = Filter!Access(e, TTL)
      BY <1>1, <1>3, <1>4, <2>1
    <2>2. CASE t \in tokens
      <3>1. t.email \in Users /\ t.left \in 0 .. TTL
        BY <1>1, <1>6, <2>2 DEF Filter!TypeOK, Filter!AccessToken, Filter!RefreshToken
      <3>2. quiet[t.email] + t.left <= TTL /\ quiet[t.email] \in 0 .. TTL + 1
        BY <1>1, <1>6, <2>2, <3>1 DEF Filter!TokensFresh, Filter!TypeOK
      <3>3. QED
        BY <1>1, <1>4, <3>1, <3>2
    <2>3. QED
      BY <1>2, <1>3, <1>6, <2>1, <2>2
  <1>7. Filter!TokensFresh'
    BY <1>6 DEF Filter!TokensFresh
  <1>8. Filter!HandlerInv' /\ \A r \in Requests : Filter!RequestInv(r)'
    BY <1>2 DEF Filter!AccessInv, Filter!HandlerInv, Filter!RequestInv
  <1>9. QED
    BY <1>5, <1>7, <1>8 DEF Filter!AccessInv

\* A tick takes one from the life of every access token and adds at most one to the
\* time a user has been without a session.
LEMMA TickFilter ==
    ASSUME Filter!AuthFilterAssumption, Filter!AccessInv, Filter!Tick
    PROVE  Filter!AccessInv'
  <1> DEFINE older(t) == IF t.type = "access" /\ t.left > 0 THEN [t EXCEPT !.left = @ - 1]
                         ELSE t
  <1>1. Filter!TypeOK /\ Filter!TokensFresh /\ TTL \in Nat
    BY DEF Filter!AccessInv, Filter!AuthFilterAssumption
  <1>2. tokens' = {older(t) : t \in tokens} /\ UNCHANGED <<row, used, bypass, filter>>
    BY DEF Filter!Tick
  <1>3. /\ quiet' \in [Users -> 0 .. TTL + 1]
        /\ \A e \in Users : quiet'[e] <= quiet[e] + 1
    BY <1>1 DEF Filter!Tick, Filter!TypeOK
  <1>4. ASSUME NEW t \in tokens
        PROVE  /\ older(t) \in Filter!AccessToken \cup Filter!RefreshToken
               /\ older(t).type = "access" /\ older(t).left > 0 =>
                     quiet'[older(t).email] + older(t).left <= TTL
    <2>1. CASE t \in Filter!AccessToken /\ t.left > 0
      <3>1. /\ t.type = "access" /\ t.email \in Users
            /\ t.left \in 0 .. TTL /\ t.left - 1 \in 0 .. TTL
        BY <1>1, <2>1 DEF Filter!AccessToken
      <3>2. older(t) = [t EXCEPT !.left = t.left - 1]
        BY <2>1, <3>1
      <3>3. /\ older(t) \in Filter!AccessToken
            /\ older(t).email = t.email /\ older(t).left = t.left - 1
        BY <2>1, <3>1, <3>2 DEF Filter!AccessToken
      <3>4. quiet[t.email] + t.left <= TTL /\ quiet[t.email] \in 0 .. TTL + 1
        BY <1>1, <2>1, <3>1 DEF Filter!TokensFresh, Filter!TypeOK
      <3>5. quiet'[t.email] + (t.left - 1) <= TTL
        BY <1>1, <1>3, <3>1, <3>4
      <3>6. QED
        BY <3>3, <3>5
    <2>2. CASE t \in Filter!AccessToken /\ ~(t.left > 0)
      <3>1. older(t) = t
        BY <2>2
      <3>2. QED
        BY <2>2, <3>1
    <2>3. CASE t \in Filter!RefreshToken
      <3>1. t.type = "refresh"
        BY <2>3 DEF Filter!RefreshToken
      <3>2. older(t) = t
        BY <3>1
      <3>3. QED
        BY <2>3, <3>1, <3>2
    <2>4. QED
      BY <1>1, <2>1, <2>2, <2>3 DEF Filter!TypeOK
  <1> HIDE DEF older
  <1>5. tokens' \subseteq Filter!AccessToken \cup Filter!RefreshToken
    BY <1>2, <1>4
  <1>6. Filter!TypeOK'
    BY <1>1, <1>2, <1>3, <1>5 DEF Filter!TypeOK
  <1>7. Filter!TokensFresh'
    BY <1>2, <1>4 DEF Filter!TokensFresh
  <1>8. Filter!HandlerInv' /\ \A r \in Requests : Filter!RequestInv(r)'
    BY <1>2 DEF Filter!AccessInv, Filter!HandlerInv, Filter!RequestInv
  <1>9. QED
    BY <1>6, <1>7, <1>8 DEF Filter!AccessInv

\* Sessions begin, are renewed and end.
LEMMA SessionsFilter ==
    ASSUME Filter!AuthFilterAssumption, Filter!AccessInv,
           \/ \E e \in Users, id \in Ids : Filter!Login(e, id)
           \/ \E t \in tokens : Filter!Logout(t) \/ \E id \in Ids : Filter!RefreshAccessToken(t, id)
           \/ \E e \in Users : Filter!UserRemoved(e)
    PROVE  Filter!AccessInv'
  <1>1. /\ row \in [Users -> Ids \cup {NoRow, NoSession}]
        /\ tokens \subseteq Filter!AccessToken \cup Filter!RefreshToken
    BY DEF Filter!AccessInv, Filter!TypeOK
  <1>2. \A t \in tokens : t.email \in Users
    BY <1>1 DEF Filter!AccessToken, Filter!RefreshToken
  <1>3. ASSUME NEW e \in Users, NEW id \in Ids, Filter!Login(e, id) PROVE Filter!AccessInv'
    BY <1>3, GenerateFilter DEF Filter!Login
  <1>4. ASSUME NEW t \in tokens, NEW id \in Ids, Filter!RefreshAccessToken(t, id)
        PROVE  Filter!AccessInv'
    BY <1>2, <1>4, GenerateFilter DEF Filter!RefreshAccessToken
  <1>5. ASSUME NEW t \in tokens, Filter!Logout(t) PROVE Filter!AccessInv'
    <2>1. row' \in [Users -> Ids \cup {NoRow, NoSession}]
      BY <1>1, <1>2, <1>5 DEF Filter!Logout
    <2>2. QED
      BY <1>5, <2>1, RowFilter DEF Filter!Logout
  <1>6. ASSUME NEW e \in Users, Filter!UserRemoved(e) PROVE Filter!AccessInv'
    <2>1. row' \in [Users -> Ids \cup {NoRow, NoSession}]
      BY <1>1, <1>6 DEF Filter!UserRemoved
    <2>2. QED
      BY <1>6, <2>1, RowFilter DEF Filter!UserRemoved
  <1>7. QED
    BY <1>3, <1>4, <1>5, <1>6

\* No order of requests, logins, renewals, logouts, removals and ticks lets a handler
\* run for someone without a session in the last TTL ticks, for another user than the
\* token's, on an admin route for someone else than an administrator, or for the
\* development token while the bypass is off.
THEOREM AccessSound ==
    ASSUME Filter!AuthFilterAssumption
    PROVE  Filter!Spec => []AccessInv
  <1>1. Filter!Init => Filter!AccessInv
    BY InitFilter
  <1>2. Filter!AccessInv /\ [Filter!Next]_(Filter!vars) => Filter!AccessInv'
    <2> SUFFICES ASSUME Filter!AccessInv, [Filter!Next]_(Filter!vars)
                 PROVE  Filter!AccessInv'
      OBVIOUS
    <2>1. ASSUME NEW r \in Requests,
                 \/ \E header \in tokens \cup {Filter!None, Filter!Malformed, Filter!Forged,
                                                Filter!DevToken},
                       cookie_ \in tokens \cup {Filter!None, Filter!DevToken},
                       admin \in BOOLEAN :
                          Filter!AuthRequired(r, header, cookie_, admin)
                 \/ Filter!FindByEmail(r) \/ Filter!StatementFails(r) \/ Filter!DevFind(r)
                 \/ Filter!DevUpsert(r) \/ Filter!DevFindAgain(r) \/ Filter!Returns(r)
          PROVE  Filter!AccessInv'
      BY <2>1, AuthRequiredFilter, RequestsFilter
    <2>2. CASE UNCHANGED Filter!vars
      <3>1. /\ row' \in [Users -> Ids \cup {NoRow, NoSession}]
            /\ UNCHANGED <<tokens, used, quiet, bypass, filter>>
        BY <2>2 DEF Filter!vars, Filter!AccessInv, Filter!TypeOK
      <3>2. QED
        BY <3>1, RowFilter
    <2>3. CASE Filter!Tick
      BY <2>3, TickFilter
    <2>4. QED
      BY <2>1, <2>2, <2>3, SessionsFilter DEF Filter!Next
  <1>3. QED
    BY <1>1, <1>2, PTL DEF Filter!Spec, AccessInv
=============================================================================
