---------------------------- MODULE LpServerProofs ----------------------------
(***************************************************************************)
(* The LP server, one part per behaviour: its transactions carry nonces in *)
(* sequence; a burn is paid at most once, and the secret that pays for it  *)
(* is kept, whatever is lost, repeated or crashed in between; and a mint   *)
(* is set ready only when the user paid to the key on the chain.           *)
(***************************************************************************)
EXTENDS LpServer, Integers, SumsProofs

-----------------------------------------------------------------------------
\* NoncesInSequence: the lock, the cache and the pool.

NonceStates == [pc : {"idle", "counting", "got", "sent"}, nonce : 0 .. NoNonce]

Using(s) == sender[s].pc \in {"got", "sent"}

NonceTypes ==
  /\ cachedNonce \in 0 .. NoNonce /\ mined \in 0 .. MaxNonce
  /\ pool \subseteq 0 .. MaxNonce - 1
  /\ sender \in [Sender -> NonceStates]
  /\ \A s \in Sender : Using(s) => sender[s].nonce < MaxNonce
  /\ {failures, restarts} \subseteq Nat /\ resets \in {0, 1}

\* Only the sender that asks for the count has the lock, and the cache is empty.
CountLocked ==
  \A s \in Sender : sender[s].pc = "counting" => nonceLock = s /\ cachedNonce = NoNonce

\* Without a reset, nonces in use were handed out by the cache as it stands, and
\* no two senders have the same.
HandedOutOnce ==
  resets = 0 =>
    /\ \A s \in Sender : Using(s) => sender[s].nonce < cachedNonce /\ cachedNonce # NoNonce
    /\ \A s, t \in Sender : Using(s) /\ Using(t) /\ s # t => sender[s].nonce # sender[t].nonce

\* A nonce that is waiting or about to be sent.
UnderWay(n) == n \in pool \/ \E t \in Sender : sender[t] = [pc |-> "got", nonce |-> n]

\* Without a failure no nonce below one in use, or below the cache, is missing.
NoGap ==
  failures = 0 =>
    /\ \A s \in Sender : Using(s) => \A n \in mined .. sender[s].nonce : UnderWay(n)
    /\ cachedNonce # NoNonce => \A n \in mined .. cachedNonce - 1 : UnderWay(n)

NonceInv == NonceTypes /\ CountLocked /\ HandedOutOnce /\ NoGap

\* What the hypotheses below read off a sender.
LEMMA SenderFields ==
  ASSUME NonceTypes, NEW s \in Sender
  PROVE  /\ sender[s].pc \in {"idle", "counting", "got", "sent"}
         /\ sender[s].nonce \in 0 .. NoNonce /\ sender[s].nonce \in Nat
         /\ sender[s] = [pc |-> sender[s].pc, nonce |-> sender[s].nonce]
<1>1. sender[s] \in NonceStates
  BY DEF NonceTypes
<1>2. NoNonce \in Nat
  BY NonceAssumption DEF NoNonce
<1>3. QED BY <1>1, <1>2 DEF NonceStates

\* UnderWay, in the fields of the senders.
LEMMA UnderWayFields ==
  ASSUME NonceTypes, NEW n
  PROVE  UnderWay(n) <=>
           n \in pool \/ \E t \in Sender : sender[t].pc = "got" /\ sender[t].nonce = n
BY SenderFields DEF UnderWay

LEMMA NonceInitInv == NonceInit => NonceInv
<1> SUFFICES ASSUME NonceInit PROVE NonceInv
  OBVIOUS
<1>1. MaxNonce \in Nat /\ NoNonce = MaxNonce + 1
  BY NonceAssumption DEF NoNonce
<1>2. \A s \in Sender : sender[s].pc = "idle" /\ sender[s].nonce = NoNonce
  BY DEF NonceInit, Rest
<1>3. NonceTypes
  BY <1>1, <1>2 DEF NonceInit, NonceTypes, NonceStates, Rest, Using
<1>4. cachedNonce = NoNonce
  BY DEF NonceInit
<1>5. QED BY <1>2, <1>3, <1>4 DEF NonceInv, CountLocked, HandedOutOnce, NoGap, Using

\* A nonce is taken from the cache.
LEMMA TakeNonceInv ==
  ASSUME NonceInv, NEW s \in Sender, TakeNonce(s)
  PROVE  NonceInv'
<1>1. MaxNonce \in Nat /\ NoNonce = MaxNonce + 1 /\ Nobody \notin Sender
  BY NonceAssumption DEF NoNonce
<1>2. cachedNonce \in Nat /\ cachedNonce < MaxNonce /\ mined \in Nat
  BY <1>1 DEF TakeNonce, NonceInv, NonceTypes
<1>3. /\ sender' = [sender EXCEPT ![s] = [pc |-> "got", nonce |-> cachedNonce]]
      /\ cachedNonce' = cachedNonce + 1 /\ nonceLock = Nobody
      /\ UNCHANGED <<nonceLock, mined, pool, failures, resets, restarts>>
  BY DEF TakeNonce, Holds
<1>4. /\ sender'[s].pc = "got" /\ sender'[s].nonce = cachedNonce
      /\ \A t \in Sender : t # s => sender'[t] = sender[t]
  BY <1>3 DEF NonceInv, NonceTypes
<1>5. NonceTypes'
  BY <1>1, <1>2, <1>3, <1>4 DEF NonceInv, NonceTypes, NonceStates, Using
<1>6. CountLocked'
  BY <1>1, <1>3, <1>4 DEF NonceInv, CountLocked
<1>7. HandedOutOnce'
  <2>1. \A t \in Sender : sender[t].nonce \in Nat
    BY SenderFields DEF NonceInv
  <2>2. cachedNonce + 1 # NoNonce /\ cachedNonce # NoNonce
    BY <1>1, <1>2
  <2>3. QED BY <1>2, <1>3, <1>4, <2>1, <2>2 DEF NonceInv, HandedOutOnce, Using
<1>8. NoGap'
  <2>1. SUFFICES ASSUME failures = 0
        PROVE  /\ \A t \in Sender : Using(t)' => \A n \in mined .. sender'[t].nonce : UnderWay(n)'
               /\ \A n \in mined .. cachedNonce : UnderWay(n)'
    BY <1>2, <1>3 DEF NoGap
  <2>2. \A n : UnderWay(n) => UnderWay(n)'
    <3>1. TAKE n
    <3>2. HAVE UnderWay(n)
    <3>3. CASE n \in pool BY <1>3, <3>3 DEF UnderWay
    <3>4. CASE \E t \in Sender : sender[t] = [pc |-> "got", nonce |-> n]
      <4>1. PICK t \in Sender : sender[t] = [pc |-> "got", nonce |-> n] BY <3>4
      <4>2. t # s BY <4>1 DEF TakeNonce
      <4>3. sender'[t] = [pc |-> "got", nonce |-> n] BY <1>4, <4>1, <4>2
      <4>4. QED BY <4>3 DEF UnderWay
    <3>5. QED BY <3>2, <3>3, <3>4 DEF UnderWay
  <2>3. \A n : n = cachedNonce => UnderWay(n)'
    BY <1>3 DEF UnderWay, NonceInv, NonceTypes
  <2>4. cachedNonce # NoNonce
    BY <1>1, <1>2
  <2>5. \A n \in mined .. cachedNonce : UnderWay(n)'
    <3>1. TAKE n \in mined .. cachedNonce
    <3>2. CASE n = cachedNonce BY <2>3, <3>2
    <3>3. CASE n # cachedNonce
      <4>1. n \in mined .. cachedNonce - 1
        BY <1>2, <3>3
      <4>2. QED BY <2>1, <2>2, <2>4, <4>1 DEF NonceInv, NoGap
    <3>4. QED BY <3>2, <3>3
  <2>6. QED BY <1>4, <2>1, <2>2, <2>5 DEF NonceInv, NoGap, Using
<1>9. QED BY <1>5, <1>6, <1>7, <1>8 DEF NonceInv

\* The lock is taken, and the chain asked.
LEMMA BeginCountInv ==
  ASSUME NonceInv, NEW s \in Sender, BeginCount(s)
  PROVE  NonceInv'
<1>1. MaxNonce \in Nat /\ NoNonce = MaxNonce + 1 /\ Nobody \notin Sender
  BY NonceAssumption DEF NoNonce
<1>2. /\ sender' = [sender EXCEPT ![s] = [pc |-> "counting", nonce |-> NoNonce]]
      /\ sender[s].pc = "idle" /\ nonceLock = Nobody /\ nonceLock' = s /\ cachedNonce = NoNonce
      /\ UNCHANGED <<cachedNonce, mined, pool, failures, resets, restarts>>
  BY DEF BeginCount, Holds
<1>3. /\ sender'[s].pc = "counting"
      /\ \A t \in Sender : t # s => sender'[t] = sender[t]
  BY <1>2 DEF NonceInv, NonceTypes
<1>4. NonceTypes'
  BY <1>1, <1>2, <1>3 DEF NonceInv, NonceTypes, NonceStates, Using
<1>5. CountLocked'
  BY <1>1, <1>2, <1>3 DEF NonceInv, CountLocked
<1>6. HandedOutOnce'
  BY <1>2, <1>3 DEF NonceInv, HandedOutOnce, Using
<1>7. \A n : UnderWay(n) => UnderWay(n)'
  BY <1>2, <1>3 DEF UnderWay
<1>8. NoGap'
  BY <1>2, <1>3, <1>7 DEF NonceInv, NoGap, Using
<1>9. QED BY <1>4, <1>5, <1>6, <1>8 DEF NonceInv

\* The count comes: every nonce in use is one of before the cache was emptied.
LEMMA EndCountInv ==
  ASSUME NonceInv, NEW s \in Sender, EndCount(s)
  PROVE  NonceInv'
<1>1. MaxNonce \in Nat /\ NoNonce = MaxNonce + 1 /\ Nobody \notin Sender
  BY NonceAssumption DEF NoNonce
<1>2. /\ sender' = [sender EXCEPT ![s] = [pc |-> "got", nonce |-> mined]]
      /\ sender[s].pc = "counting" /\ nonceLock' = Nobody /\ cachedNonce' = mined + 1
      /\ UNCHANGED <<mined, pool, failures, resets, restarts>>
  BY DEF EndCount, Holds
<1>3. /\ sender'[s].pc = "got" /\ sender'[s].nonce = mined
      /\ \A t \in Sender : t # s => sender'[t] = sender[t]
  BY <1>2 DEF NonceInv, NonceTypes
<1>4. mined \in Nat /\ mined < MaxNonce
  BY <1>1 DEF EndCount, NonceInv, NonceTypes
<1>5. cachedNonce = NoNonce /\ nonceLock = s
  BY <1>2 DEF NonceInv, CountLocked
<1>6. NonceTypes'
  BY <1>1, <1>2, <1>3, <1>4 DEF NonceInv, NonceTypes, NonceStates, Using
<1>7. CountLocked'
  BY <1>2, <1>3, <1>5 DEF NonceInv, CountLocked
<1>8. HandedOutOnce'
  <2>1. resets = 0 => \A t \in Sender : ~Using(t)
    BY <1>5 DEF NonceInv, HandedOutOnce
  <2>2. mined + 1 # NoNonce /\ mined < mined + 1
    BY <1>1, <1>4
  <2>3. QED BY <1>2, <1>3, <2>1, <2>2 DEF HandedOutOnce, Using
<1>9. NoGap'
  <2>1. \A n : UnderWay(n) => UnderWay(n)'
    BY <1>2, <1>3 DEF UnderWay
  <2>2. \A n : n = mined => UnderWay(n)'
    BY <1>2 DEF UnderWay, NonceInv, NonceTypes
  <2>3. \A n \in mined .. mined : UnderWay(n)'
    BY <1>4, <2>2
  <2>4. cachedNonce' - 1 = mined
    BY <1>2, <1>4
  <2>5. QED BY <1>2, <1>3, <2>1, <2>3, <2>4 DEF NonceInv, NoGap, Using
<1>10. QED BY <1>6, <1>7, <1>8, <1>9 DEF NonceInv

\* It does not come: a failure.
LEMMA CountTimesOutInv ==
  ASSUME NonceInv, NEW s \in Sender, CountTimesOut(s)
  PROVE  NonceInv'
<1>1. MaxNonce \in Nat /\ NoNonce = MaxNonce + 1
  BY NonceAssumption DEF NoNonce
<1>2. /\ sender' = [sender EXCEPT ![s] = Rest] /\ nonceLock' = Nobody
      /\ sender[s].pc = "counting" /\ failures' = failures + 1
      /\ UNCHANGED <<cachedNonce, mined, pool, resets, restarts>>
  BY DEF CountTimesOut
<1>3. /\ sender'[s].pc = "idle"
      /\ \A t \in Sender : t # s => sender'[t] = sender[t]
  BY <1>2 DEF NonceInv, NonceTypes, Rest
<1>4. NonceTypes'
  BY <1>1, <1>2, <1>3 DEF NonceInv, NonceTypes, NonceStates, Rest, Using
<1>5. CountLocked'
  BY <1>2, <1>3 DEF NonceInv, CountLocked
<1>6. HandedOutOnce'
  BY <1>2, <1>3 DEF NonceInv, HandedOutOnce, Using
<1>7. failures' # 0
  BY <1>2 DEF NonceInv, NonceTypes
<1>8. NoGap'
  BY <1>7 DEF NoGap
<1>9. QED BY <1>4, <1>5, <1>6, <1>8 DEF NonceInv

\* A nonce about to be sent waits in the pool.
LEMMA BroadcastInv ==
  ASSUME NonceInv, NEW s \in Sender, Broadcast(s)
  PROVE  NonceInv'
<1>1. MaxNonce \in Nat /\ NoNonce = MaxNonce + 1
  BY NonceAssumption DEF NoNonce
<1>2. PICK k : k = sender[s].nonce
  OBVIOUS
<1>3. /\ sender' = [sender EXCEPT ![s] = [pc |-> "sent", nonce |-> k]]
      /\ sender[s].pc = "got" /\ pool' = pool \cup {k} /\ k >= mined
      /\ UNCHANGED <<cachedNonce, nonceLock, mined, failures, resets, restarts>>
  BY <1>2 DEF Broadcast, Holds
<1>4. /\ sender'[s].pc = "sent" /\ sender'[s].nonce = sender[s].nonce
      /\ \A t \in Sender : t # s => sender'[t] = sender[t]
  BY <1>2, <1>3 DEF NonceInv, NonceTypes
<1>5. \A n : UnderWay(n) => UnderWay(n)'
  <2>1. TAKE n
  <2>2. HAVE UnderWay(n)
  <2>3. CASE sender[s] = [pc |-> "got", nonce |-> n]
    BY <1>2, <1>3, <2>3 DEF UnderWay
  <2>4. CASE sender[s] # [pc |-> "got", nonce |-> n]
    BY <1>3, <1>4, <2>2, <2>4 DEF UnderWay
  <2>5. QED BY <2>3, <2>4
<1>6. NonceTypes'
  <2>1. mined \in Nat /\ k \in 0 .. NoNonce
    BY <1>2, SenderFields DEF NonceInv, NonceTypes
  <2>2. k \in 0 .. MaxNonce - 1
    BY <1>1, <1>2, <1>3, <2>1 DEF NonceInv, NonceTypes, Using
  <2>3. QED BY <1>1, <1>3, <1>4, <2>1, <2>2 DEF NonceInv, NonceTypes, NonceStates, Using
<1>7. CountLocked'
  BY <1>3, <1>4 DEF NonceInv, CountLocked
<1>8. HandedOutOnce'
  BY <1>3, <1>4 DEF NonceInv, HandedOutOnce, Using
<1>9. NoGap'
  BY <1>3, <1>4, <1>5 DEF NonceInv, NoGap, Using
<1>10. QED BY <1>6, <1>7, <1>8, <1>9 DEF NonceInv

\* A broadcast fails: a failure, unless the nonce is mined or waits already.
LEMMA BroadcastFailsInv ==
  ASSUME NonceInv, NEW s \in Sender, BroadcastFails(s)
  PROVE  NonceInv'
<1>1. MaxNonce \in Nat /\ NoNonce = MaxNonce + 1
  BY NonceAssumption DEF NoNonce
<1>2. PICK k : k = sender[s].nonce
  OBVIOUS
<1>3. /\ sender' = [sender EXCEPT ![s] = Rest] /\ sender[s].pc = "got"
      /\ UNCHANGED <<nonceLock, mined, pool, restarts>>
      /\ (failures' = failures /\ (k < mined \/ k \in pool)) \/ failures' = failures + 1
      /\ (cachedNonce' = NoNonce /\ resets' = 1) \/ UNCHANGED <<cachedNonce, resets>>
  BY <1>2 DEF BroadcastFails
<1>4. /\ sender'[s].pc = "idle" /\ sender'[s].nonce = NoNonce
      /\ \A t \in Sender : t # s => sender'[t] = sender[t]
  BY <1>3 DEF NonceInv, NonceTypes, Rest
<1>5. NonceTypes'
  <2>1. sender' \in [Sender -> NonceStates]
    BY <1>1, <1>3 DEF NonceInv, NonceTypes, NonceStates, Rest
  <2>2. \A t \in Sender : Using(t)' => sender'[t].nonce < MaxNonce
    BY <1>4 DEF NonceInv, NonceTypes, Using
  <2>3. cachedNonce' \in 0 .. NoNonce /\ failures' \in Nat /\ resets' \in {0, 1}
    BY <1>1, <1>3 DEF NonceInv, NonceTypes
  <2>4. QED BY <1>3, <2>1, <2>2, <2>3 DEF NonceInv, NonceTypes
<1>6. CountLocked'
  BY <1>3, <1>4 DEF NonceInv, CountLocked
<1>7. HandedOutOnce'
  BY <1>3, <1>4 DEF NonceInv, HandedOutOnce, Using
<1>8. NoGap'
  <2>1. SUFFICES ASSUME failures' = 0 PROVE NoGap'
    BY DEF NoGap
  <2>2. failures = 0 /\ (k < mined \/ k \in pool)
    BY <1>3, <2>1 DEF NonceInv, NonceTypes
  <2>3. mined \in Nat /\ k \in Nat
    BY <1>1, <1>2, SenderFields DEF NonceInv, NonceTypes
  <2>4. \A n : n \in Int /\ mined <= n /\ UnderWay(n) => UnderWay(n)'
    <3>1. TAKE n
    <3>2. HAVE n \in Int /\ mined <= n /\ UnderWay(n)
    <3>3. CASE n = k
      BY <1>3, <2>2, <2>3, <3>2, <3>3 DEF UnderWay
    <3>4. CASE n # k
      BY <1>2, <1>3, <1>4, <3>2, <3>4 DEF UnderWay
    <3>5. QED BY <3>3, <3>4
  <2>5. \A m \in Int : \A n \in mined .. m : n \in Int /\ mined <= n
    BY <2>3
  <2>6. \A t \in Sender : sender[t].nonce \in Int /\ cachedNonce - 1 \in Int
    BY <1>1, SenderFields DEF NonceInv, NonceTypes
  <2>7. \A t \in Sender : Using(t)' => Using(t) /\ sender'[t].nonce = sender[t].nonce
    BY <1>4 DEF Using
  <2>8. \A t \in Sender : Using(t)' => \A n \in mined' .. sender'[t].nonce : UnderWay(n)'
    BY <1>3, <2>2, <2>4, <2>5, <2>6, <2>7 DEF NonceInv, NoGap
  <2>9. cachedNonce' # NoNonce => \A n \in mined' .. cachedNonce' - 1 : UnderWay(n)'
    <3>1. HAVE cachedNonce' # NoNonce
    <3>2. cachedNonce' = cachedNonce /\ mined' = mined
      BY <1>3, <3>1
    <3>3. \A n \in mined .. cachedNonce - 1 : UnderWay(n)
      BY <2>2, <3>1, <3>2 DEF NonceInv, NoGap
    <3>4. cachedNonce - 1 \in Int
      BY <1>1 DEF NonceInv, NonceTypes
    <3>5. \A n \in mined .. cachedNonce - 1 : UnderWay(n)'
      BY <2>4, <2>5, <3>3, <3>4
    <3>6. QED BY <3>2, <3>5
  <2>10. QED BY <2>8, <2>9 DEF NoGap
<1>9. QED BY <1>5, <1>6, <1>7, <1>8 DEF NonceInv

\* The chain mines one.
LEMMA MineNextInv ==
  ASSUME NonceInv, MineNext
  PROVE  NonceInv'
<1>1. MaxNonce \in Nat /\ NoNonce = MaxNonce + 1
  BY NonceAssumption DEF NoNonce
<1>2. /\ pool' = pool \ {mined} /\ mined' = mined + 1 /\ mined \in pool
      /\ UNCHANGED <<cachedNonce, nonceLock, failures, resets, restarts>>
  BY DEF MineNext
<1>3. mined \in Nat /\ mined < MaxNonce
  BY <1>1, <1>2 DEF NonceInv, NonceTypes
<1>4. \A t \in Sender :
        \/ sender'[t] = sender[t]
        \/ sender[t].pc = "sent" /\ sender'[t].pc = "idle" /\ sender'[t] = Rest
  BY DEF MineNext, Rest
<1>5. NonceTypes'
  <2>1. sender' \in [Sender -> NonceStates]
    <3>1. Rest \in NonceStates BY <1>1 DEF Rest, NonceStates
    <3>2. sender' = [t \in Sender |-> sender'[t]] BY DEF MineNext
    <3>3. \A t \in Sender : sender'[t] \in NonceStates
      BY <1>4, <3>1 DEF NonceInv, NonceTypes
    <3>4. QED BY <3>2, <3>3
  <2>2. \A t \in Sender : Using(t)' => sender'[t].nonce < MaxNonce
    BY <1>4 DEF NonceInv, NonceTypes, Using
  <2>3. mined' \in 0 .. MaxNonce BY <1>1, <1>2, <1>3
  <2>4. QED BY <1>2, <2>1, <2>2, <2>3 DEF NonceInv, NonceTypes
<1>6. CountLocked'
  BY <1>2, <1>4 DEF NonceInv, CountLocked
<1>7. HandedOutOnce'
  BY <1>2, <1>4 DEF NonceInv, HandedOutOnce, Using
<1>8. NoGap'
  <2>1. \A n : n # mined /\ UnderWay(n) => UnderWay(n)'
    <3>1. TAKE n
    <3>2. HAVE n # mined /\ UnderWay(n)
    <3>3. CASE n \in pool BY <1>2, <3>2, <3>3 DEF UnderWay
    <3>4. CASE \E t \in Sender : sender[t] = [pc |-> "got", nonce |-> n]
      BY <1>4, <3>4 DEF UnderWay
    <3>5. QED BY <3>2, <3>3, <3>4 DEF UnderWay
  <2>2. \A m \in Int : \A n \in mined + 1 .. m : n # mined /\ n \in mined .. m
    BY <1>3
  <2>3. \A t \in Sender : sender[t].nonce \in Int /\ cachedNonce - 1 \in Int
    BY <1>1, SenderFields DEF NonceInv, NonceTypes
  <2>4. cachedNonce - 1 \in Int
    BY <1>1 DEF NonceInv, NonceTypes
  <2>5. \A t \in Sender : Using(t)' => Using(t) /\ sender'[t].nonce = sender[t].nonce
    BY <1>4 DEF Using
  <2>6. SUFFICES ASSUME failures = 0 PROVE NoGap'
    BY <1>2 DEF NoGap
  <2>7. \A t \in Sender : Using(t)' => \A n \in mined' .. sender'[t].nonce : UnderWay(n)'
    BY <1>2, <2>1, <2>2, <2>3, <2>5, <2>6 DEF NonceInv, NoGap
  <2>8. cachedNonce # NoNonce => \A n \in mined + 1 .. cachedNonce - 1 : UnderWay(n)'
    BY <2>1, <2>2, <2>4, <2>6 DEF NonceInv, NoGap
  <2>9. QED BY <1>2, <2>7, <2>8 DEF NoGap
<1>9. QED BY <1>5, <1>6, <1>7, <1>8 DEF NonceInv

\* After a restart nothing is in use, and nothing in the cache.
LEMMA RestartNoncesInv ==
  ASSUME NonceInv, RestartNonces
  PROVE  NonceInv'
<1>1. MaxNonce \in Nat /\ NoNonce = MaxNonce + 1
  BY NonceAssumption DEF NoNonce
<1>2. \A t \in Sender : sender'[t] = Rest
  BY DEF RestartNonces
<1>3. \A t \in Sender : ~Using(t)' /\ sender'[t].pc = "idle"
  BY <1>2 DEF Rest, Using
<1>4. cachedNonce' = NoNonce /\ restarts' = restarts + 1
      /\ UNCHANGED <<mined, pool, failures, resets>>
  BY DEF RestartNonces
<1>5. NonceTypes'
  <2>1. sender' \in [Sender -> NonceStates]
    BY <1>1 DEF RestartNonces, Rest, NonceStates
  <2>2. cachedNonce' \in 0 .. NoNonce /\ restarts' \in Nat
    BY <1>1, <1>4 DEF NonceInv, NonceTypes
  <2>3. QED BY <1>3, <1>4, <2>1, <2>2 DEF NonceInv, NonceTypes
<1>6. QED BY <1>3, <1>4, <1>5 DEF NonceInv, CountLocked, HandedOutOnce, NoGap

LEMMA NonceNextInv == NonceInv /\ [NonceNext]_nonceVars => NonceInv'
<1>1. SUFFICES ASSUME NonceInv, [NonceNext]_nonceVars PROVE NonceInv'
  OBVIOUS
<1>2. CASE UNCHANGED nonceVars
  BY <1>1, <1>2 DEF nonceVars, NonceInv, NonceTypes, CountLocked, HandedOutOnce, NoGap, Using, UnderWay
<1>3. CASE MineNext \/ RestartNonces
  BY <1>1, <1>3, MineNextInv, RestartNoncesInv
<1>4. CASE \E s \in Sender : TakeNonce(s) \/ BeginCount(s) \/ EndCount(s)
  BY <1>1, <1>4, TakeNonceInv, BeginCountInv, EndCountInv
<1>5. CASE \E s \in Sender : CountTimesOut(s) \/ Broadcast(s) \/ BroadcastFails(s)
  BY <1>1, <1>5, CountTimesOutInv, BroadcastInv, BroadcastFailsInv
<1>6. QED BY <1>1, <1>2, <1>3, <1>4, <1>5 DEF NonceNext

\* What is handed out is handed out once, and nothing is left out.
LEMMA NonceInvImplies == NonceInv => NoncesInSequence
<1>1. SUFFICES ASSUME NonceInv PROVE NoncesInSequence
  OBVIOUS
<1>2. resets = 0 =>
        \A s, t \in {u \in Sender : sender[u].pc \in {"got", "sent"}} :
          s # t => sender[s].nonce # sender[t].nonce
  BY <1>1 DEF NonceInv, HandedOutOnce, Using
<1>3. failures = 0 =>
        \A s \in Sender : sender[s].pc = "sent" =>
          \A n \in mined .. sender[s].nonce :
            n \in pool \/ \E t \in Sender : sender[t] = [pc |-> "got", nonce |-> n]
  BY <1>1 DEF NonceInv, NoGap, Using, UnderWay
<1>4. QED BY <1>2, <1>3 DEF NoncesInSequence

\* The nonces of the LP server's senders: for any number of senders, nonces and
\* restarts, none is used twice and none left out, unless the cache is reset or a
\* call fails.
THEOREM NoncesSequenced == LpServerSpec => []NoncesInSequence
<1>1. LpServerInit => NonceInv
  BY NonceInitInv DEF LpServerInit
<1>2. NonceInv /\ [LpServerNext]_lpVars => NonceInv'
  <2>1. [LpServerNext]_lpVars => [NonceNext]_nonceVars
    BY DEF LpServerNext, lpVars
  <2>2. QED BY <2>1, NonceNextInv
<1>3. NonceInv => NoncesInSequence
  BY NonceInvImplies
<1>4. QED BY <1>1, <1>2, <1>3, PTL DEF LpServerSpec

-----------------------------------------------------------------------------
\* The burns: types.

BurnRec == [status : {"INVALID"} \cup BurnOpen \cup BurnEnded, clock : {"open", "late", "over"},
            userSecret : BOOLEAN, lpSecret : BOOLEAN, abandoned : BOOLEAN]
EntryRec == [tracked : BOOLEAN, known : BOOLEAN,
             state : {"none", "requested", "proposed", "committed", "revealed", "finalized",
                      "cancelled", "swept", "abandoned", "stale", "slashed"},
             secret : Nat, sent : BOOLEAN, tries : Nat]
SavedRec == [secret : Nat, sent : BOOLEAN, tries : Nat]
JobStates == {"idle", "propose", "finalize", "sweep", "send", "sent", "mined",
              "send xmr", "xmr sent", "xmr failed"}
JobRec == [pc : JobStates,
           tx : {"none", "propose", "reveal", "settle"}, burn : Burn \cup {NoJob.burn},
           secret : Nat, entry : {"event", "recovery"},
           by : {"none", "event", "timer", "recovery", "manual"}, attempt : Nat]
TimerSet == Burn \X {"event", "recovery"} \X Nat
RecoveryRec ==
  {q \in [phase : {"files", "scan"}, left : SUBSET Burn, burn : Burn \cup {NoJob.burn},
          status : {"none", "asked", "INVALID"} \cup BurnOpen \cup BurnEnded] :
     q.status # "none" => q.burn \in Burn}
TxRec == [kind : {"propose", "reveal", "settle"}, burn : Burn, secret : Nat, job : Job]
TroubleRec == [crashes : Nat, faults : Nat, unsure : Nat, unsaved : Nat, calls : Nat]

JobTypes ==
  /\ job \in [Job -> JobRec]
  /\ \A j \in Job : job[j].pc # "idle" => job[j].burn \in Burn
  /\ \A j \in Job : job[j].pc = "send" => job[j].tx # "none"

BurnTypes ==
  /\ burn \in [Burn -> BurnRec] /\ hash \in [Burn -> Nat] /\ sent \in [Burn -> Nat]
  /\ burnTxs \subseteq TxRec /\ recovery \in RecoveryRec
  /\ burnEntry \in [BurnState -> EntryRec] /\ burnFile \in [Burn -> SavedRec]
  /\ JobTypes
  /\ sendTimer \subseteq TimerSet
  /\ trouble \in TroubleRec

-----------------------------------------------------------------------------
\* PaidOnce

Early(b) == burn[b].status \in {"INVALID", "REQUESTED"}

\* The job that will pay a burn: its proposal is accepted, or a payment is due.
Paying(j, b) ==
  /\ job[j].burn = b
  /\ \/ job[j].pc \in {"send xmr", "xmr failed"}
     \/ job[j].pc = "mined" /\ job[j].tx = "propose"

Timed(b) == {t \in sendTimer : t[1] = b}

\* Of a burn the LP has one thing at most: a job that will pay, a timer that will
\* start one, or the payment.
OnePayment(b) ==
  /\ Early(b) => sent[b] = 0
  /\ \A j \in Job : Paying(j, b) => ~Early(b) /\ sent[b] = 0 /\ Timed(b) = {}
  /\ \A i, j \in Job : Paying(i, b) /\ Paying(j, b) => i = j
  /\ Timed(b) # {} => ~Early(b) /\ sent[b] = 0
  /\ \A s, t \in Timed(b) : s = t
  /\ sent[b] <= 1

\* Without a crash nothing is recovered.
OnceInv ==
  trouble.crashes + trouble.unsure = 0 =>
    running /\ Recovered /\ \A b \in Burn : OnePayment(b)

-----------------------------------------------------------------------------
\* PaidSecretKept

\* The job that proposes with an object of a burn, before its secret is saved.
Proposing(j, o) ==
  /\ Held(j) = o
  /\ job[j].pc = "propose" \/ (job[j].tx = "propose" /\ job[j].pc \in {"send", "sent", "mined"})

\* The server proposes with an object in one job at a time; what the object knows of
\* a proposal is its secret, which is the hash on the chain once the proposal is
\* accepted.
ProposalHeld(o) ==
  \A j \in Job : Proposing(j, o) =>
    /\ burnEntry[o].tracked
    /\ \A i \in Job : Proposing(i, o) => i = j
    /\ job[j].pc # "propose" => burnEntry[o].secret = job[j].secret /\ job[j].secret # 0
    /\ job[j].pc = "mined" => hash[o[1]] = job[j].secret /\ ~Early(o[1])

Pays(j, b) == job[j].burn = b /\ job[j].pc \in {"send xmr", "xmr sent", "xmr failed"}
PayDue(b) == (\E j \in Job : Pays(j, b)) \/ Timed(b) # {} \/ sent[b] > 0

\* The secret in the file is the hash on the chain, and only then the XMR goes.
SecretHeld(b) ==
  /\ burnFile[b].secret # 0 => burnFile[b].secret = hash[b] /\ ~Early(b)
  /\ PayDue(b) => burnFile[b].secret # 0

\* The recovery makes its object of a burn once.  What it takes from the file has
\* its secret there.
Unrecovered(b) == ~burnEntry[<<b, "recovery">>].tracked
RecoveryHeld ==
  /\ ~running => /\ recovery.status = "none" /\ recovery.left = {}
                 /\ \A o \in BurnState : ~burnEntry[o].tracked
  /\ recovery.phase = "files" =>
       \A b \in recovery.left : burnFile[b].secret # 0 /\ Unrecovered(b)
  /\ recovery.status # "none" =>
       /\ recovery.burn \in Burn \ recovery.left /\ Unrecovered(recovery.burn)
       /\ recovery.phase = "files" => burnFile[recovery.burn].secret # 0

KeptInv ==
  trouble.unsaved + trouble.calls = 0 =>
    (\A o \in BurnState : ProposalHeld(o)) /\ (\A b \in Burn : SecretHeld(b)) /\ RecoveryHeld

LpBurnsInv == BurnTypes /\ OnceInv /\ KeptInv

\* The objects of a burn.
LEMMA StateOf ==
  /\ \A b \in Burn, k \in {"event", "recovery"} :
       <<b, k>> \in BurnState /\ <<b, k>>[1] = b /\ <<b, k>>[2] = k
  /\ \A o \in BurnState : o[1] \in Burn /\ o[2] \in {"event", "recovery"} /\ o = <<o[1], o[2]>>
BY DEF BurnState

LEMMA CurrentState ==
  ASSUME NEW b \in Burn
  PROVE  Current(b) \in BurnState /\ Current(b)[1] = b
BY DEF Current, BurnState

LEMMA HeldState ==
  ASSUME JobTypes, NEW j \in Job, job[j].burn \in Burn
  PROVE  Held(j) \in BurnState /\ Held(j)[1] = job[j].burn
<1>1. job[j].entry \in {"event", "recovery"}
  BY DEF JobTypes, JobRec
<1>2. QED BY <1>1, StateOf DEF Held

-----------------------------------------------------------------------------
\* What the steps of a job do to the jobs.

LEMMA JobFields ==
  ASSUME JobTypes, NEW j \in Job
  PROVE  /\ job[j] \in JobRec /\ job[j].pc \in JobStates
         /\ job[j].tx \in {"none", "propose", "reveal", "settle"}
         /\ job[j].secret \in Nat /\ job[j].attempt \in Nat
         /\ job[j].by \in {"none", "event", "timer", "recovery", "manual"}
         /\ job[j].entry \in {"event", "recovery"}
BY DEF JobTypes, JobRec

LEMMA NoJobFields ==
  /\ NoJob \in JobRec /\ NoJob.pc = "idle" /\ NoJob.tx = "none" /\ NoJob.secret = 0
  /\ NoJob.by = "none" /\ NoJob.attempt = 0
<1>1. PICK c : c = CHOOSE b \in Burn : TRUE
  OBVIOUS
<1>2. NoJob = [pc |-> "idle", tx |-> "none", burn |-> c, secret |-> 0, entry |-> "event",
               by |-> "none", attempt |-> 0]
  BY <1>1 DEF NoJob
<1>3. NoJob.burn = c
  BY <1>2
<1>4. QED BY <1>2, <1>3 DEF JobRec, JobStates

LEMMA WorksJob ==
  ASSUME JobTypes, NEW j \in Job, NEW pc \in JobStates \ {"send"}, job[j].pc # "idle", Works(j, pc)
  PROVE  /\ JobTypes'
         /\ job'[j].pc = pc /\ job'[j].tx = job[j].tx /\ job'[j].burn = job[j].burn
         /\ job'[j].secret = job[j].secret /\ job'[j].by = job[j].by /\ job'[j].attempt = job[j].attempt
         /\ job'[j].entry = job[j].entry
         /\ \A i \in Job : i # j => job'[i] = job[i]
<1>1. PICK r : r = [job[j] EXCEPT !.pc = pc]
  OBVIOUS
<1>2. job' = [job EXCEPT ![j] = r]
  BY <1>1 DEF Works
<1>3. /\ r \in JobRec /\ r.pc = pc /\ r.tx = job[j].tx /\ r.burn = job[j].burn
      /\ r.secret = job[j].secret /\ r.by = job[j].by /\ r.attempt = job[j].attempt
      /\ r.entry = job[j].entry
  BY <1>1, JobFields DEF JobRec
<1>4. /\ job' \in [Job -> JobRec] /\ job'[j] = r
      /\ \A i \in Job : i # j => job'[i] = job[i]
  BY <1>2, <1>3 DEF JobTypes
<1>5. JobTypes'
  BY <1>3, <1>4 DEF JobTypes
<1>6. QED BY <1>3, <1>4, <1>5

LEMMA SendsJob ==
  ASSUME JobTypes, NEW j \in Job, NEW tx \in {"propose", "reveal", "settle"}, NEW secret \in Nat,
         job[j].pc # "idle", Sends(j, tx, secret)
  PROVE  /\ JobTypes'
         /\ job'[j].pc = "send" /\ job'[j].tx = tx /\ job'[j].burn = job[j].burn
         /\ job'[j].secret = secret /\ job'[j].entry = job[j].entry
         /\ \A i \in Job : i # j => job'[i] = job[i]
<1>1. PICK r : r = [job[j] EXCEPT !.pc = "send", !.tx = tx, !.secret = secret]
  OBVIOUS
<1>2. job' = [job EXCEPT ![j] = r]
  BY <1>1 DEF Sends
<1>3. /\ r \in JobRec /\ r.pc = "send" /\ r.tx = tx /\ r.burn = job[j].burn /\ r.secret = secret
      /\ r.entry = job[j].entry
  BY <1>1, JobFields DEF JobRec, JobStates
<1>4. /\ job' \in [Job -> JobRec] /\ job'[j] = r
      /\ \A i \in Job : i # j => job'[i] = job[i]
  BY <1>2, <1>3 DEF JobTypes
<1>5. JobTypes'
  BY <1>3, <1>4 DEF JobTypes
<1>6. QED BY <1>3, <1>4, <1>5

LEMMA EndsJob ==
  ASSUME JobTypes, NEW j \in Job, Ends(j)
  PROVE  /\ JobTypes' /\ job'[j].pc = "idle"
         /\ \A i \in Job : i # j => job'[i] = job[i]
<1>1. /\ job' \in [Job -> JobRec] /\ job'[j] = NoJob
      /\ \A i \in Job : i # j => job'[i] = job[i]
  BY NoJobFields DEF JobTypes, Ends
<1>2. QED BY <1>1, NoJobFields DEF JobTypes

\* A call is started by a job that was free.
LEMMA BeginJob ==
  ASSUME JobTypes, NEW pc \in JobStates \ {"idle", "send"}, NEW o \in BurnState,
         NEW by \in {"event", "timer", "recovery", "manual"}, NEW n \in Nat, Begin(pc, o, by, n)
  PROVE  /\ JobTypes'
         /\ \E j \in Job :
              /\ job[j].pc = "idle"
              /\ job'[j].pc = pc /\ job'[j].burn = o[1] /\ job'[j].entry = o[2]
              /\ job'[j].tx = "none" /\ job'[j].secret = 0
              /\ \A i \in Job : i # j => job'[i] = job[i]
<1>1. PICK j : j = CHOOSE i \in FreeJobs : TRUE
  OBVIOUS
<1>2. PICK b, k : b = o[1] /\ k = o[2]
  OBVIOUS
<1>3. b \in Burn /\ k \in {"event", "recovery"}
  BY <1>2, StateOf
<1>4. PICK r : r = [NoJob EXCEPT !.pc = pc, !.burn = b, !.entry = k, !.by = by, !.attempt = n]
  OBVIOUS
<1>5. j \in FreeJobs
  BY <1>1 DEF Begin
<1>6. j \in Job /\ job[j].pc = "idle"
  BY <1>5 DEF FreeJobs
<1>7. job' = [job EXCEPT ![j] = r]
  BY <1>1, <1>2, <1>4 DEF Begin
<1>8. /\ r \in JobRec /\ r.pc = pc /\ r.burn = b /\ r.entry = k /\ r.tx = "none" /\ r.secret = 0
  BY <1>3, <1>4, NoJobFields DEF JobRec
<1>9. /\ job' \in [Job -> JobRec] /\ job'[j] = r
      /\ \A i \in Job : i # j => job'[i] = job[i]
  BY <1>6, <1>7, <1>8 DEF JobTypes
<1>10. JobTypes'
  BY <1>3, <1>8, <1>9 DEF JobTypes
<1>11. QED BY <1>2, <1>6, <1>8, <1>9, <1>10

\* A fresh secret is one, and nobody's yet.
LEMMA FreshIsSecret ==
  ASSUME FreshSecrets # {}
  PROVE  FreshSecret \in FreshSecrets /\ FreshSecret \in Secret /\ FreshSecret \in Nat \ {0}
<1>1. FreshSecrets \subseteq Nat /\ FreshSecrets \subseteq Secret /\ Secret \subseteq Nat \ {0}
  BY LpBurnsAssumption DEF FreshSecrets
<1>2. \E s \in FreshSecrets : \A t \in FreshSecrets : s <= t
  BY <1>1, LeastNat
<1>3. FreshSecret \in FreshSecrets
  BY <1>2 DEF FreshSecret
<1>4. QED BY <1>1, <1>3

-----------------------------------------------------------------------------
\* What the hub does to a burn.

HubTypes == burn \in [Burn -> BurnRec]

\* Nothing becomes requested, or unknown, again.
StaysLate == \A b \in Burn : Early(b)' => Early(b)

LEMMA AtRec ==
  ASSUME HubTypes, NEW b \in Burn, NEW s \in {"INVALID"} \cup BurnOpen \cup BurnEnded
  PROVE  At(b, s) \in BurnRec /\ At(b, s).status = s
BY DEF HubTypes, At, BurnRec

\* The public secrets and the mark of an abandoned burn, set or cleared.
LEMMA WithFlags ==
  ASSUME NEW r \in BurnRec, NEW t \in BOOLEAN, NEW f \in BOOLEAN
  PROVE  /\ [r EXCEPT !.lpSecret = t] \in BurnRec
         /\ [r EXCEPT !.userSecret = t] \in BurnRec
         /\ [r EXCEPT !.abandoned = t] \in BurnRec
         /\ [r EXCEPT !.userSecret = t, !.abandoned = f] \in BurnRec
         /\ [r EXCEPT !.lpSecret = t].status = r.status
         /\ [r EXCEPT !.userSecret = t].status = r.status
         /\ [r EXCEPT !.abandoned = t].status = r.status
         /\ [r EXCEPT !.userSecret = t, !.abandoned = f].status = r.status
BY DEF BurnRec

LEMMA MovesBurn ==
  ASSUME HubTypes, NEW b \in Burn, NEW from, NEW n \in BurnRec, BurnMoves(b, from, n),
         n.status \in {"INVALID", "REQUESTED"} => from \in {"INVALID", "REQUESTED"}
  PROVE  HubTypes' /\ StaysLate
<1>1. /\ burn' = [burn EXCEPT ![b] = n] /\ burn[b].status = from
  BY DEF BurnMoves
<1>2. burn' \in [Burn -> BurnRec]
  BY <1>1 DEF HubTypes
<1>3. \A c \in Burn : burn'[c] = IF c = b THEN n ELSE burn[c]
  BY <1>1 DEF HubTypes
<1>4. QED BY <1>1, <1>2, <1>3 DEF HubTypes, StaysLate, Early

LEMMA HubBurnStep ==
  ASSUME HubTypes, NEW b \in Burn, BurnSteps(b)
  PROVE  HubTypes' /\ StaysLate
<1>1. PICK t, f : t = TRUE /\ f = FALSE
  OBVIOUS
<1>2. t \in BOOLEAN /\ f \in BOOLEAN
  BY <1>1
<1>3. burn[b] \in BurnRec
  BY DEF HubTypes
<1>4. \A s \in {"INVALID"} \cup BurnOpen \cup BurnEnded : At(b, s) \in BurnRec /\ At(b, s).status = s
  BY AtRec
<1>5. /\ {"REQUESTED", "PROPOSED", "COMMITTED", "COMPLETED", "SLASHED", "CANCELLED"}
           \subseteq {"INVALID"} \cup BurnOpen \cup BurnEnded
  BY DEF BurnOpen, BurnEnded
<1>6. CASE RequestBurn(b) \/ ProposeHash(b) \/ ConfirmLock(b) \/ ForceSettle(b) \/ AbortBurn(b)
  <2>1. \/ BurnMoves(b, "INVALID", At(b, "REQUESTED")) \/ BurnMoves(b, "REQUESTED", At(b, "PROPOSED"))
        \/ BurnMoves(b, "PROPOSED", At(b, "COMMITTED")) \/ BurnMoves(b, "REQUESTED", At(b, "SLASHED"))
        \/ BurnMoves(b, "REQUESTED", At(b, "CANCELLED"))
    BY <1>6 DEF RequestBurn, ProposeHash, ConfirmLock, ForceSettle, AbortBurn
  <2>2. QED BY <1>4, <1>5, <2>1, MovesBurn
<1>7. CASE RevealBurn(b)
  <2>1. PICK n : n = [burn[b] EXCEPT !.lpSecret = t]
    OBVIOUS
  <2>2. n \in BurnRec /\ n.status = burn[b].status
    BY <1>2, <1>3, <2>1, WithFlags
  <2>3. BurnMoves(b, "COMMITTED", n) /\ burn[b].status = "COMMITTED"
    BY <1>1, <1>7, <2>1 DEF RevealBurn, BurnMoves
  <2>4. QED BY <2>2, <2>3, MovesBurn
<1>8. CASE FinalizeBurn(b)
  <2>1. PICK n : n = [At(b, "COMPLETED") EXCEPT !.lpSecret = t]
    OBVIOUS
  <2>2. n \in BurnRec /\ n.status = "COMPLETED"
    BY <1>2, <1>4, <1>5, <2>1, WithFlags
  <2>3. BurnMoves(b, "COMMITTED", n)
    BY <1>1, <1>8, <2>1 DEF FinalizeBurn
  <2>4. QED BY <2>2, <2>3, MovesBurn
<1>9. CASE ClaimSlashed(b)
  <2>1. PICK n : n = [At(b, "SLASHED") EXCEPT !.userSecret = t]
    OBVIOUS
  <2>2. n \in BurnRec /\ n.status = "SLASHED"
    BY <1>2, <1>4, <1>5, <2>1, WithFlags
  <2>3. BurnMoves(b, "COMMITTED", n)
    BY <1>1, <1>9, <2>1 DEF ClaimSlashed
  <2>4. QED BY <2>2, <2>3, MovesBurn
<1>10. CASE AbandonProposed(b)
  <2>1. PICK n : n = [At(b, "CANCELLED") EXCEPT !.abandoned = t]
    OBVIOUS
  <2>2. n \in BurnRec /\ n.status = "CANCELLED"
    BY <1>2, <1>4, <1>5, <2>1, WithFlags
  <2>3. BurnMoves(b, "PROPOSED", n)
    BY <1>1, <1>10, <2>1 DEF AbandonProposed
  <2>4. QED BY <2>2, <2>3, MovesBurn
<1>11. CASE ResolveDeclined(b)
  <2>1. PICK n : n = [At(b, "CANCELLED") EXCEPT !.userSecret = t]
    OBVIOUS
  <2>2. PICK m : m = [burn[b] EXCEPT !.userSecret = t, !.abandoned = f]
    OBVIOUS
  <2>3. n \in BurnRec /\ n.status = "CANCELLED" /\ m \in BurnRec /\ m.status = burn[b].status
    BY <1>2, <1>3, <1>4, <1>5, <2>1, <2>2, WithFlags
  <2>4. BurnMoves(b, "PROPOSED", n) \/ BurnMoves(b, "CANCELLED", m)
    BY <1>1, <1>11, <2>1, <2>2 DEF ResolveDeclined
  <2>5. burn[b].status = "CANCELLED" \/ BurnMoves(b, "PROPOSED", n)
    BY <2>4 DEF BurnMoves
  <2>6. QED BY <2>3, <2>4, <2>5, MovesBurn
<1>12. QED
  BY <1>6, <1>7, <1>8, <1>9, <1>10, <1>11 DEF BurnSteps

\* An auction ends open burns, and time passes over their deadlines.
LEMMA HubOtherStep ==
  ASSUME HubTypes, NEW b \in Burn, SettleByAuction({b}) \/ PassDeadlines({b})
  PROVE  HubTypes' /\ StaysLate
<1>1. burn[b] \in BurnRec
  BY DEF HubTypes
<1>2. CASE SettleByAuction({b})
  <2>1. PICK s : s = IF burn[b].status # "COMMITTED" THEN "CANCELLED"
                     ELSE IF burn[b].lpSecret THEN "COMPLETED" ELSE "SLASHED"
    OBVIOUS
  <2>2. s \in {"CANCELLED", "COMPLETED", "SLASHED"}
    BY <2>1
  <2>3. At(b, s) \in BurnRec /\ At(b, s).status = s
    BY <2>2, AtRec DEF BurnEnded
  <2>4. burn' = [c \in Burn |-> IF c = b THEN At(b, s) ELSE burn[c]]
    BY <1>2, <2>1 DEF SettleByAuction
  <2>5. QED BY <2>2, <2>3, <2>4 DEF HubTypes, StaysLate, Early
<1>3. CASE PassDeadlines({b})
  <2>1. PICK n : n = [burn[b] EXCEPT !.clock = IF @ = "open" THEN "late" ELSE "over"]
    OBVIOUS
  <2>2. n \in BurnRec /\ n.status = burn[b].status
    BY <1>1, <2>1 DEF BurnRec
  <2>3. burn' = [c \in Burn |-> IF c = b THEN n ELSE burn[c]]
    BY <1>3, <2>1 DEF PassDeadlines
  <2>4. QED BY <2>2, <2>3 DEF HubTypes, StaysLate, Early
<1>4. QED BY <1>2, <1>3

-----------------------------------------------------------------------------
\* Troubles are counted and never taken back; the entry and the file of a burn.

TroubleGrows ==
  /\ trouble' \in TroubleRec
  /\ trouble'.crashes + trouble'.unsure = 0 => trouble.crashes + trouble.unsure = 0
  /\ trouble'.unsaved + trouble'.calls = 0 => trouble.unsaved + trouble.calls = 0

LEMMA TroubleStep ==
  ASSUME trouble \in TroubleRec, NEW kind \in {"crashes", "faults", "unsure", "unsaved", "calls"},
         BurnTrouble(kind)
  PROVE  /\ TroubleGrows
         /\ kind \in {"crashes", "unsure"} => trouble'.crashes + trouble'.unsure # 0
         /\ kind \in {"unsaved", "calls"} => trouble'.unsaved + trouble'.calls # 0
<1>1. trouble' = [trouble EXCEPT ![kind] = @ + 1]
  BY DEF BurnTrouble
<1>2. /\ trouble.crashes \in Nat /\ trouble.faults \in Nat /\ trouble.unsure \in Nat
      /\ trouble.unsaved \in Nat /\ trouble.calls \in Nat
  BY DEF TroubleRec
<1>3. CASE kind = "crashes"
  <2>1. trouble' = [trouble EXCEPT !.crashes = @ + 1] BY <1>1, <1>3
  <2>2. QED BY <1>2, <1>3, <2>1 DEF TroubleGrows, TroubleRec
<1>4. CASE kind = "faults"
  <2>1. trouble' = [trouble EXCEPT !.faults = @ + 1] BY <1>1, <1>4
  <2>2. QED BY <1>2, <1>4, <2>1 DEF TroubleGrows, TroubleRec
<1>5. CASE kind = "unsure"
  <2>1. trouble' = [trouble EXCEPT !.unsure = @ + 1] BY <1>1, <1>5
  <2>2. QED BY <1>2, <1>5, <2>1 DEF TroubleGrows, TroubleRec
<1>6. CASE kind = "unsaved"
  <2>1. trouble' = [trouble EXCEPT !.unsaved = @ + 1] BY <1>1, <1>6
  <2>2. QED BY <1>2, <1>6, <2>1 DEF TroubleGrows, TroubleRec
<1>7. CASE kind = "calls"
  <2>1. trouble' = [trouble EXCEPT !.calls = @ + 1] BY <1>1, <1>7
  <2>2. QED BY <1>2, <1>7, <2>1 DEF TroubleGrows, TroubleRec
<1>8. QED BY <1>3, <1>4, <1>5, <1>6, <1>7

LEMMA NoTroubleStep ==
  ASSUME trouble \in TroubleRec, UNCHANGED trouble
  PROVE  TroubleGrows
BY DEF TroubleGrows

EntryTypes == burnEntry \in [BurnState -> EntryRec]
FileTypes == burnFile \in [Burn -> SavedRec]

\* Objects that stay tracked, or untracked, and the secrets of the tracked; files
\* that keep theirs.
EntriesKept ==
  \A o \in BurnState :
    /\ burnEntry'[o].tracked = burnEntry[o].tracked
    /\ burnEntry[o].tracked => burnEntry'[o].secret = burnEntry[o].secret
FilesKept == \A b \in Burn : burnFile'[b].secret = burnFile[b].secret

LEMMA InStateStep ==
  ASSUME EntryTypes, NEW o \in BurnState,
         NEW s \in {"none", "requested", "proposed", "committed", "revealed", "finalized",
                    "cancelled", "swept", "abandoned", "stale", "slashed"},
         InState(o, s)
  PROVE  EntryTypes' /\ EntriesKept
<1>1. PICK e : e = [burnEntry[o] EXCEPT !.state = s]
  OBVIOUS
<1>2. burnEntry[o] \in EntryRec
  BY DEF EntryTypes
<1>3. e \in EntryRec /\ e.tracked = burnEntry[o].tracked /\ e.secret = burnEntry[o].secret
  BY <1>1, <1>2 DEF EntryRec
<1>4. burnEntry' = [burnEntry EXCEPT ![o] = e]
  BY <1>1 DEF InState, SetEntry
<1>5. \A c \in BurnState : burnEntry'[c] = IF c = o THEN e ELSE burnEntry[c]
  BY <1>4 DEF EntryTypes
<1>6. burnEntry' \in [BurnState -> EntryRec]
  BY <1>3, <1>4 DEF EntryTypes
<1>7. QED BY <1>3, <1>5, <1>6 DEF EntryTypes, EntriesKept

LEMMA SetEntryStep ==
  ASSUME EntryTypes, NEW o \in BurnState, NEW e \in EntryRec, SetEntry(o, e)
  PROVE  EntryTypes' /\ burnEntry'[o] = e /\ \A c \in BurnState : c # o => burnEntry'[c] = burnEntry[c]
BY DEF EntryTypes, SetEntry

LEMMA SaveStep ==
  ASSUME FileTypes, NEW b \in Burn, NEW f \in SavedRec, f.secret = burnFile[b].secret, Save(b, f)
  PROVE  FileTypes' /\ FilesKept
<1>1. burnFile' = [burnFile EXCEPT ![b] = f] \/ burnFile' = burnFile
  <2>1. burnFile' = [burnFile EXCEPT ![b] = IF burnFile[b].secret = 0 THEN burnFile[b] ELSE f]
    BY DEF Save
  <2>2. QED BY <2>1 DEF FileTypes
<1>2. QED BY <1>1 DEF FileTypes, FilesKept

\* The failure of a call keeps the secrets.
LEMMA FailsStep ==
  ASSUME JobTypes, EntryTypes, FileTypes, NEW j \in Job, job[j].burn \in Burn, Fails(j)
  PROVE  /\ JobTypes' /\ job'[j].pc = "idle" /\ \A i \in Job : i # j => job'[i] = job[i]
         /\ EntryTypes' /\ EntriesKept /\ FileTypes' /\ FilesKept
<1>1. PICK b, o : b = job[j].burn /\ o = Held(j)
  OBVIOUS
<1>2. PICK e, f : e = [burnEntry[o] EXCEPT !.tries = @ + 1]
                  /\ f = [burnFile[b] EXCEPT !.tries = burnEntry[o].tries + 1]
  OBVIOUS
<1>3. Ends(j) /\ ((SetEntry(o, e) /\ Save(b, f)) \/ UNCHANGED <<burnFile, burnEntry>>)
  BY <1>1, <1>2 DEF Fails
<1>4. b \in Burn /\ o \in BurnState
  BY <1>1, HeldState
<1>5. burnEntry[o] \in EntryRec /\ burnFile[b] \in SavedRec
  BY <1>4 DEF EntryTypes, FileTypes
<1>6. /\ e \in EntryRec /\ e.tracked = burnEntry[o].tracked /\ e.secret = burnEntry[o].secret
      /\ f \in SavedRec /\ f.secret = burnFile[b].secret
  BY <1>2, <1>5 DEF EntryRec, SavedRec
<1>7. JobTypes' /\ job'[j].pc = "idle" /\ \A i \in Job : i # j => job'[i] = job[i]
  BY <1>3, EndsJob
<1>8. CASE SetEntry(o, e) /\ Save(b, f)
  <2>1. EntryTypes' /\ burnEntry'[o] = e /\ \A c \in BurnState : c # o => burnEntry'[c] = burnEntry[c]
    BY <1>4, <1>6, <1>8, SetEntryStep
  <2>2. EntriesKept
    BY <1>6, <2>1 DEF EntriesKept
  <2>3. FileTypes' /\ FilesKept
    BY <1>4, <1>6, <1>8, SaveStep
  <2>4. QED BY <1>7, <2>1, <2>2, <2>3
<1>9. CASE UNCHANGED <<burnFile, burnEntry>>
  BY <1>7, <1>9 DEF EntryTypes, EntriesKept, FileTypes, FilesKept
<1>10. QED BY <1>3, <1>8, <1>9

-----------------------------------------------------------------------------
\* Steps that neither propose nor pay.

JobQuiet(j) ==
  \/ job'[j] = job[j]
  \/ job'[j].pc \in {"idle", "finalize", "sweep"}
  \/ job'[j].pc \in {"send", "sent", "mined"} /\ job'[j].tx # "propose"
  \/ /\ job[j].pc = "send" /\ job'[j].pc = "sent" /\ job'[j].tx = job[j].tx
     /\ job'[j].burn = job[j].burn /\ job'[j].entry = job[j].entry
     /\ job'[j].secret = job[j].secret

LEMMA OnceQuiet ==
  ASSUME BurnTypes, OnceInv, StaysLate, TroubleGrows,
         UNCHANGED <<running, recovery, sent, sendTimer>>,
         \A j \in Job, b \in Burn : Paying(j, b)' => Paying(j, b)
  PROVE  OnceInv'
<1>1. SUFFICES ASSUME trouble'.crashes + trouble'.unsure = 0
      PROVE  running' /\ Recovered' /\ \A b \in Burn : OnePayment(b)'
  BY DEF OnceInv
<1>2. running /\ Recovered /\ \A b \in Burn : OnePayment(b)
  BY <1>1 DEF OnceInv, TroubleGrows
<1>3. \A b \in Burn : Timed(b)' = Timed(b)
  BY DEF Timed
<1>4. \A b \in Burn : OnePayment(b)'
  BY <1>2, <1>3 DEF OnePayment, StaysLate
<1>5. QED BY <1>2, <1>4 DEF Recovered

\* A burn whose payment a step leaves alone.
LEMMA OnePaymentSame ==
  ASSUME NEW b \in Burn, OnePayment(b), StaysLate, sent'[b] = sent[b], Timed(b)' = Timed(b),
         \A j \in Job : Paying(j, b)' => Paying(j, b)
  PROVE  OnePayment(b)'
BY DEF OnePayment, StaysLate

\* A payment is due, or may be made: the secret is in the file.
Owed(b) == PayDue(b) \/ burnFile[b].secret # 0

LEMMA KeptQuiet ==
  ASSUME BurnTypes, KeptInv, StaysLate, TroubleGrows, FilesKept, UNCHANGED hash,
         \A o \in BurnState : burnEntry[o].tracked =>
           burnEntry'[o].tracked /\ burnEntry'[o].secret = burnEntry[o].secret,
         \A j \in Job : JobQuiet(j) \/ (job'[j].pc = "send xmr" /\ Owed(job'[j].burn))
                     \/ (job'[j].pc \in {"xmr sent", "xmr failed"} /\ Pays(j, job'[j].burn)),
         \A b \in Burn : Timed(b)' # {} => PayDue(b),
         \A b \in Burn : sent'[b] > 0 => PayDue(b),
         KeptInv /\ trouble'.unsaved + trouble'.calls = 0 => RecoveryHeld'
  PROVE  KeptInv'
<1>1. SUFFICES ASSUME trouble'.unsaved + trouble'.calls = 0
      PROVE  /\ \A o \in BurnState : ProposalHeld(o)'
             /\ \A b \in Burn : SecretHeld(b)'
  BY DEF KeptInv
<1>2. (\A o \in BurnState : ProposalHeld(o)) /\ (\A b \in Burn : SecretHeld(b))
  BY <1>1 DEF KeptInv, TroubleGrows
<1>3. ASSUME NEW o \in BurnState PROVE ProposalHeld(o)'
  <2>1. \A j \in Job : Proposing(j, o)' =>
          /\ Proposing(j, o) /\ job'[j].secret = job[j].secret
          /\ job[j].pc = job'[j].pc \/ (job[j].pc = "send" /\ job'[j].pc = "sent")
    BY DEF JobQuiet, Proposing, Held
  <2>2. ProposalHeld(o) /\ o[1] \in Burn
    BY <1>2, <1>3, StateOf
  <2>3. SUFFICES ASSUME NEW j \in Job, Proposing(j, o)'
        PROVE  /\ burnEntry'[o].tracked
               /\ \A i \in Job : Proposing(i, o)' => i = j
               /\ job'[j].pc # "propose" => burnEntry'[o].secret = job'[j].secret /\ job'[j].secret # 0
               /\ job'[j].pc = "mined" => hash'[o[1]] = job'[j].secret /\ ~Early(o[1])'
    BY DEF ProposalHeld
  <2>4. Proposing(j, o) /\ job'[j].secret = job[j].secret
    BY <2>1, <2>3
  <2>5. burnEntry[o].tracked /\ \A i \in Job : Proposing(i, o) => i = j
    BY <2>2, <2>4 DEF ProposalHeld
  <2>6. burnEntry'[o].tracked /\ burnEntry'[o].secret = burnEntry[o].secret
    BY <2>5
  <2>7. \A i \in Job : Proposing(i, o)' => i = j
    BY <2>1, <2>5
  <2>8. job'[j].pc # "propose" => burnEntry'[o].secret = job'[j].secret /\ job'[j].secret # 0
    <3>1. job'[j].pc # "propose" => job[j].pc # "propose"
      BY <2>1, <2>3
    <3>2. job[j].pc # "propose" => burnEntry[o].secret = job[j].secret /\ job[j].secret # 0
      BY <2>2, <2>4 DEF ProposalHeld
    <3>3. QED BY <2>4, <2>6, <3>1, <3>2
  <2>9. job'[j].pc = "mined" => hash'[o[1]] = job'[j].secret /\ ~Early(o[1])'
    <3>1. job'[j].pc = "mined" => job[j].pc = "mined"
      BY <2>1, <2>3
    <3>2. job[j].pc = "mined" => hash[o[1]] = job[j].secret /\ ~Early(o[1])
      BY <2>2, <2>4 DEF ProposalHeld
    <3>3. QED BY <2>2, <2>4, <3>1, <3>2 DEF StaysLate
  <2>10. QED BY <2>6, <2>7, <2>8, <2>9
<1>4. ASSUME NEW b \in Burn PROVE SecretHeld(b)'
  <2>1. SecretHeld(b)
    BY <1>2
  <2>2. \A j \in Job : Pays(j, b)' => Owed(b)
    <3>1. TAKE j \in Job
    <3>2. HAVE Pays(j, b)'
    <3>3. job'[j].burn = b /\ job'[j].pc \in {"send xmr", "xmr sent", "xmr failed"}
      BY <3>2 DEF Pays
    <3>4. CASE job'[j] = job[j]
      BY <3>3, <3>4 DEF Pays, PayDue, Owed
    <3>5. QED BY <3>3, <3>4 DEF JobQuiet, PayDue, Owed
  <2>3. PayDue(b)' => Owed(b)
    BY <2>2 DEF PayDue, Owed
  <2>4. burnFile'[b].secret # 0 => burnFile'[b].secret = hash'[b] /\ ~Early(b)'
    BY <2>1 DEF SecretHeld, FilesKept, StaysLate
  <2>5. PayDue(b)' => burnFile'[b].secret # 0
    BY <2>1, <2>3 DEF SecretHeld, FilesKept, Owed
  <2>6. QED BY <2>4, <2>5 DEF SecretHeld
<1>5. QED BY <1>3, <1>4

\* A step that leaves the recovery where it is.
LEMMA RecoveryQuiet ==
  ASSUME KeptInv, BurnTypes, TroubleGrows, UNCHANGED <<running, recovery>>,
         \A b \in Burn : burnFile[b].secret # 0 => burnFile'[b].secret # 0,
         \A b \in Burn : Unrecovered(b) => Unrecovered(b)',
         running \/ \A o \in BurnState : burnEntry'[o].tracked => burnEntry[o].tracked,
         trouble'.unsaved + trouble'.calls = 0
  PROVE  RecoveryHeld'
<1>1. RecoveryHeld
  BY DEF KeptInv, TroubleGrows
<1>2. recovery.left \subseteq Burn
  BY DEF BurnTypes, RecoveryRec
<1>3. ~running' => /\ recovery'.status = "none" /\ recovery'.left = {}
                   /\ \A o \in BurnState : ~burnEntry'[o].tracked
  BY <1>1 DEF RecoveryHeld
<1>4. recovery'.phase = "files" =>
        \A b \in recovery'.left : burnFile'[b].secret # 0 /\ Unrecovered(b)'
  BY <1>1, <1>2 DEF RecoveryHeld
<1>5. recovery'.status # "none" =>
       /\ recovery'.burn \in Burn \ recovery'.left /\ Unrecovered(recovery.burn)'
       /\ recovery'.phase = "files" => burnFile'[recovery.burn].secret # 0
  BY <1>1 DEF RecoveryHeld
<1>6. QED BY <1>3, <1>4, <1>5 DEF RecoveryHeld, Unrecovered

LEMMA BurnQuiet ==
  ASSUME LpBurnsInv, BurnTypes', StaysLate, TroubleGrows, EntriesKept, FilesKept,
         UNCHANGED <<hash, sent, sendTimer, running, recovery>>,
         \A j \in Job : JobQuiet(j)
  PROVE  LpBurnsInv'
<1>1. BurnTypes /\ OnceInv /\ KeptInv
  BY DEF LpBurnsInv
<1>2. \A j \in Job, b \in Burn : Paying(j, b)' => Paying(j, b)
  BY DEF JobQuiet, Paying
<1>3. OnceInv'
  BY <1>1, <1>2, OnceQuiet
<1>4. /\ \A b \in Burn : Timed(b)' # {} => PayDue(b)
      /\ \A b \in Burn : sent'[b] > 0 => PayDue(b)
  BY DEF PayDue, Timed
<1>5. \A o \in BurnState : burnEntry[o].tracked =>
        burnEntry'[o].tracked /\ burnEntry'[o].secret = burnEntry[o].secret
  BY DEF EntriesKept
<1>6. /\ \A b \in Burn : burnFile[b].secret # 0 => burnFile'[b].secret # 0
      /\ \A b \in Burn : Unrecovered(b) => Unrecovered(b)'
      /\ \A o \in BurnState : burnEntry'[o].tracked => burnEntry[o].tracked
  BY StateOf DEF EntriesKept, FilesKept, Unrecovered
<1>7. KeptInv /\ trouble'.unsaved + trouble'.calls = 0 => RecoveryHeld'
  BY <1>1, <1>6, RecoveryQuiet
<1>8. KeptInv'
  BY <1>1, <1>4, <1>5, <1>7, KeptQuiet
<1>9. QED BY <1>3, <1>8 DEF LpBurnsInv

\* A step that leaves the proposals of an object alone.
LEMMA ProposalSame ==
  ASSUME NEW o \in BurnState, ProposalHeld(o), StaysLate, UNCHANGED hash,
         burnEntry[o].tracked => burnEntry'[o].tracked /\ burnEntry'[o].secret = burnEntry[o].secret,
         \A j \in Job : Proposing(j, o)' => Proposing(j, o) /\ job'[j] = job[j]
  PROVE  ProposalHeld(o)'
<1>1. SUFFICES ASSUME NEW j \in Job, Proposing(j, o)'
      PROVE  /\ burnEntry'[o].tracked
             /\ \A i \in Job : Proposing(i, o)' => i = j
             /\ job'[j].pc # "propose" => burnEntry'[o].secret = job'[j].secret /\ job'[j].secret # 0
             /\ job'[j].pc = "mined" => hash'[o[1]] = job'[j].secret /\ ~Early(o[1])'
  BY DEF ProposalHeld
<1>2. Proposing(j, o) /\ job'[j] = job[j] /\ o[1] \in Burn
  BY <1>1, StateOf
<1>3. /\ burnEntry[o].tracked
      /\ \A i \in Job : Proposing(i, o) => i = j
      /\ job[j].pc # "propose" => burnEntry[o].secret = job[j].secret /\ job[j].secret # 0
      /\ job[j].pc = "mined" => hash[o[1]] = job[j].secret /\ ~Early(o[1])
  BY <1>2 DEF ProposalHeld
<1>4. \A i \in Job : Proposing(i, o)' => i = j
  BY <1>3
<1>5. ~Early(o[1]) => ~Early(o[1])'
  BY <1>2 DEF StaysLate
<1>6. QED BY <1>2, <1>3, <1>4, <1>5

\* A step that leaves the hub alone.
LEMMA HubSame ==
  ASSUME HubTypes, UNCHANGED burn
  PROVE  HubTypes' /\ StaysLate
BY DEF HubTypes, StaysLate, Early

LEMMA EntriesSame ==
  ASSUME EntryTypes, UNCHANGED burnEntry
  PROVE  EntryTypes' /\ EntriesKept
BY DEF EntryTypes, EntriesKept

LEMMA FilesSame ==
  ASSUME FileTypes, UNCHANGED burnFile
  PROVE  FileTypes' /\ FilesKept
BY DEF FileTypes, FilesKept

\* The types, by their parts.
LEMMA BurnTypesParts ==
  BurnTypes <=>
    /\ HubTypes /\ EntryTypes /\ FileTypes /\ JobTypes
    /\ hash \in [Burn -> Nat] /\ sent \in [Burn -> Nat]
    /\ burnTxs \subseteq TxRec /\ recovery \in RecoveryRec
    /\ sendTimer \subseteq TimerSet /\ trouble \in TroubleRec
BY DEF BurnTypes, HubTypes, EntryTypes, FileTypes

\* A step of a job that leaves the chain alone.
LEMMA CheckRevealedInv ==
  ASSUME LpBurnsInv, NEW j \in Job, CheckRevealed(j)
  PROVE  LpBurnsInv'
<1>1. /\ job[j].pc = "finalize"
      /\ UNCHANGED <<burn, hash, sent, back, burnTxs, running, recovery, sendTimer, trouble>>
  BY DEF CheckRevealed, burnChain
<1>2. BurnTypes /\ HubTypes /\ EntryTypes /\ FileTypes /\ JobTypes
  BY BurnTypesParts DEF LpBurnsInv
<1>3. job[j].burn \in Burn
  BY <1>1, <1>2 DEF JobTypes
<1>4. Held(j) \in BurnState
  BY <1>2, <1>3, HeldState
<1>5. burnEntry[Held(j)].secret \in Nat
  BY <1>2, <1>4 DEF EntryTypes, EntryRec
<1>6. PICK tx \in {"settle", "reveal"} : tx = IF burn[job[j].burn].lpSecret THEN "settle" ELSE "reveal"
  OBVIOUS
<1>7. \/ Fails(j)
      \/ Sends(j, tx, burnEntry[Held(j)].secret) /\ UNCHANGED <<burnEntry, burnFile>>
  BY <1>6 DEF CheckRevealed
<1>8. /\ JobTypes' /\ \A i \in Job : JobQuiet(i)
      /\ EntryTypes' /\ EntriesKept /\ FileTypes' /\ FilesKept
  <2>1. CASE Fails(j)
    BY <1>2, <1>3, <2>1, FailsStep DEF JobQuiet
  <2>2. CASE Sends(j, tx, burnEntry[Held(j)].secret) /\ UNCHANGED <<burnEntry, burnFile>>
    BY <1>1, <1>2, <1>5, <2>2, SendsJob, EntriesSame, FilesSame DEF JobQuiet
  <2>3. QED BY <1>7, <2>1, <2>2
<1>9. HubTypes' /\ StaysLate
  BY <1>1, <1>2, HubSame
<1>10. BurnTypes' /\ TroubleGrows
  BY <1>1, <1>2, <1>8, <1>9, NoTroubleStep DEF BurnTypes, HubTypes, EntryTypes, FileTypes
<1>11. QED BY <1>1, <1>8, <1>9, <1>10, BurnQuiet

LEMMA RevealedInv ==
  ASSUME LpBurnsInv, NEW j \in Job, Revealed(j)
  PROVE  LpBurnsInv'
<1>1. /\ job[j].pc = "mined" /\ job[j].tx = "reveal"
      /\ InState(Held(j), "revealed") /\ Sends(j, "settle", job[j].secret)
      /\ UNCHANGED <<burn, hash, sent, back, burnTxs, running, recovery, overtaken, sendTimer, burnFile, trouble>>
  BY DEF Revealed, burnChain
<1>2. BurnTypes /\ HubTypes /\ EntryTypes /\ FileTypes /\ JobTypes
  BY BurnTypesParts DEF LpBurnsInv
<1>3. Held(j) \in BurnState /\ job[j].secret \in Nat
  BY <1>1, <1>2, JobFields, HeldState DEF JobTypes
<1>4. JobTypes' /\ \A i \in Job : JobQuiet(i)
  BY <1>1, <1>2, <1>3, SendsJob DEF JobQuiet
<1>5. EntryTypes' /\ EntriesKept
  BY <1>1, <1>2, <1>3, InStateStep
<1>6. HubTypes' /\ StaysLate /\ FileTypes' /\ FilesKept
  BY <1>1, <1>2, HubSame, FilesSame
<1>7. BurnTypes' /\ TroubleGrows
  BY <1>1, <1>2, <1>4, <1>5, <1>6, NoTroubleStep DEF BurnTypes, HubTypes, EntryTypes, FileTypes
<1>8. QED BY <1>1, <1>4, <1>5, <1>6, <1>7, BurnQuiet

LEMMA SettledInv ==
  ASSUME LpBurnsInv, NEW j \in Job, Settled(j)
  PROVE  LpBurnsInv'
<1>1. /\ job[j].pc = "mined" /\ job[j].tx = "settle"
      /\ InState(Held(j), "finalized") /\ Ends(j)
      /\ UNCHANGED <<burn, hash, sent, back, burnTxs, running, recovery, overtaken, sendTimer, burnFile, trouble>>
  BY DEF Settled, burnChain
<1>2. BurnTypes /\ HubTypes /\ EntryTypes /\ FileTypes /\ JobTypes
  BY BurnTypesParts DEF LpBurnsInv
<1>3. Held(j) \in BurnState
  BY <1>1, <1>2, HeldState DEF JobTypes
<1>4. JobTypes' /\ \A i \in Job : JobQuiet(i)
  BY <1>1, <1>2, EndsJob DEF JobQuiet
<1>5. EntryTypes' /\ EntriesKept
  BY <1>1, <1>2, <1>3, InStateStep
<1>6. HubTypes' /\ StaysLate /\ FileTypes' /\ FilesKept
  BY <1>1, <1>2, HubSame, FilesSame
<1>7. BurnTypes' /\ TroubleGrows
  BY <1>1, <1>2, <1>4, <1>5, <1>6, NoTroubleStep DEF BurnTypes, HubTypes, EntryTypes, FileTypes
<1>8. QED BY <1>1, <1>4, <1>5, <1>6, <1>7, BurnQuiet

LEMMA SendInv ==
  ASSUME LpBurnsInv, NEW j \in Job, Send(j)
  PROVE  LpBurnsInv'
<1>1. PICK b, tx, t : b = job[j].burn /\ tx = job[j].tx
                      /\ t = [kind |-> tx, burn |-> b, secret |-> job[j].secret, job |-> j]
  OBVIOUS
<1>2. BurnTypes /\ HubTypes /\ EntryTypes /\ FileTypes /\ JobTypes /\ trouble \in TroubleRec
      /\ burnTxs \subseteq TxRec
  BY BurnTypesParts DEF LpBurnsInv
<1>3. job[j].pc = "send"
  BY DEF Send
<1>4. /\ \/ burnTxs' = burnTxs \cup {t} /\ Works(j, "sent") /\ UNCHANGED <<burnFile, burnEntry, trouble>>
         \/ BurnTrouble("faults") /\ burnTxs' \in {burnTxs, burnTxs \cup {t}} /\ Fails(j)
      /\ UNCHANGED <<burn, hash, sent, back, burnEvents, running, recovery, sendTimer>>
  BY <1>1 DEF Send
<1>5. b \in Burn /\ t \in TxRec
  BY <1>1, <1>2, <1>3, JobFields DEF JobTypes, TxRec
<1>6. burnTxs' \subseteq TxRec
  BY <1>2, <1>4, <1>5
<1>7. /\ JobTypes' /\ \A i \in Job : JobQuiet(i)
      /\ EntryTypes' /\ EntriesKept /\ FileTypes' /\ FilesKept
  <2>1. CASE Works(j, "sent") /\ UNCHANGED <<burnFile, burnEntry>>
    BY <1>2, <1>3, <2>1, WorksJob, EntriesSame, FilesSame DEF JobQuiet, JobStates
  <2>2. CASE Fails(j)
    BY <1>1, <1>2, <1>5, <2>2, FailsStep DEF JobQuiet
  <2>3. QED BY <1>4, <2>1, <2>2
<1>8. TroubleGrows
  BY <1>2, <1>4, TroubleStep, NoTroubleStep
<1>9. HubTypes' /\ StaysLate
  BY <1>2, <1>4, HubSame
<1>10. BurnTypes'
  BY <1>2, <1>4, <1>6, <1>7, <1>8, <1>9
  DEF BurnTypes, HubTypes, EntryTypes, FileTypes, TroubleGrows
<1>11. QED BY <1>4, <1>7, <1>8, <1>9, <1>10, BurnQuiet

LEMMA SweepSharedInv ==
  ASSUME LpBurnsInv, NEW j \in Job, SweepShared(j)
  PROVE  LpBurnsInv'
<1>1. /\ job[j].pc = "sweep"
      /\ Ends(j) \/ job' = [job EXCEPT ![j].attempt = 2]
      /\ BurnTrouble("faults") \/ UNCHANGED trouble
      /\ UNCHANGED <<burn, hash, sent, burnTxs, burnEvents, running, recovery, overtaken, burnEntry,
                     sendTimer, burnFile>>
  BY DEF SweepShared
<1>2. BurnTypes /\ HubTypes /\ EntryTypes /\ FileTypes /\ JobTypes /\ trouble \in TroubleRec
  BY BurnTypesParts DEF LpBurnsInv
<1>3. JobTypes' /\ \A i \in Job : JobQuiet(i)
  <2>1. CASE Ends(j)
    BY <1>2, <2>1, EndsJob DEF JobQuiet
  <2>2. CASE job' = [job EXCEPT ![j].attempt = 2]
    <3>1. PICK r : r = [job[j] EXCEPT !.attempt = 2]
      OBVIOUS
    <3>2. job' = [job EXCEPT ![j] = r]
      BY <2>2, <3>1
    <3>3. r \in JobRec /\ r.pc = "sweep" /\ r.burn = job[j].burn
      BY <1>1, <1>2, <3>1, JobFields DEF JobRec
    <3>4. job' \in [Job -> JobRec] /\ job'[j] = r /\ \A i \in Job : i # j => job'[i] = job[i]
      BY <1>2, <3>2, <3>3 DEF JobTypes
    <3>5. JobTypes'
      BY <1>1, <1>2, <3>3, <3>4 DEF JobTypes
    <3>6. QED BY <3>3, <3>4, <3>5 DEF JobQuiet
  <2>3. QED BY <1>1, <2>1, <2>2
<1>4. HubTypes' /\ StaysLate /\ EntryTypes' /\ EntriesKept /\ FileTypes' /\ FilesKept
  BY <1>1, <1>2, HubSame, EntriesSame, FilesSame
<1>5. TroubleGrows
  BY <1>1, <1>2, TroubleStep, NoTroubleStep
<1>6. BurnTypes'
  BY <1>1, <1>2, <1>3, <1>4, <1>5 DEF BurnTypes, HubTypes, EntryTypes, FileTypes, TroubleGrows
<1>7. QED BY <1>1, <1>3, <1>4, <1>5, <1>6, BurnQuiet

\* The XMR is recorded in the entry and in the file.
LEMMA RecordXmrInv ==
  ASSUME LpBurnsInv, NEW j \in Job, RecordXmr(j)
  PROVE  LpBurnsInv'
<1>1. PICK b, o, t : b = job[j].burn /\ o = Held(j) /\ t = TRUE
  OBVIOUS
<1>2. PICK e, f : e = [burnEntry[o] EXCEPT !.sent = t] /\ f = [burnFile[b] EXCEPT !.sent = t]
  OBVIOUS
<1>3. /\ job[j].pc = "xmr sent" /\ Ends(j) /\ SetEntry(o, e) /\ Save(b, f)
      /\ UNCHANGED <<burn, hash, sent, back, burnTxs, burnEvents, running, recovery, sendTimer, trouble>>
  BY <1>1, <1>2 DEF RecordXmr, burnChain
<1>4. BurnTypes /\ HubTypes /\ EntryTypes /\ FileTypes /\ JobTypes
  BY BurnTypesParts DEF LpBurnsInv
<1>5. b \in Burn /\ o \in BurnState
  BY <1>1, <1>3, <1>4, HeldState DEF JobTypes
<1>6. burnEntry[o] \in EntryRec /\ burnFile[b] \in SavedRec /\ t \in BOOLEAN
  BY <1>1, <1>4, <1>5 DEF EntryTypes, FileTypes
<1>7. /\ e \in EntryRec /\ e.tracked = burnEntry[o].tracked /\ e.secret = burnEntry[o].secret
      /\ f \in SavedRec /\ f.secret = burnFile[b].secret
  BY <1>2, <1>6 DEF EntryRec, SavedRec
<1>8. JobTypes' /\ \A i \in Job : JobQuiet(i)
  BY <1>3, <1>4, EndsJob DEF JobQuiet
<1>9. EntryTypes' /\ burnEntry'[o] = e /\ \A c \in BurnState : c # o => burnEntry'[c] = burnEntry[c]
  BY <1>3, <1>4, <1>5, <1>7, SetEntryStep
<1>10. EntriesKept
  BY <1>7, <1>9 DEF EntriesKept
<1>11. FileTypes' /\ FilesKept
  BY <1>3, <1>4, <1>5, <1>7, SaveStep
<1>12. HubTypes' /\ StaysLate
  BY <1>3, <1>4, HubSame
<1>13. BurnTypes' /\ TroubleGrows
  BY <1>3, <1>4, <1>8, <1>9, <1>11, <1>12, NoTroubleStep DEF BurnTypes, HubTypes, EntryTypes, FileTypes
<1>14. QED BY <1>3, <1>8, <1>10, <1>11, <1>12, <1>13, BurnQuiet

-----------------------------------------------------------------------------
\* Events, the stale-burn job and the others.

\* A finalization or a sweep is started.
LEMMA BeginQuiet ==
  ASSUME JobTypes, NEW pc \in {"finalize", "sweep"}, NEW o \in BurnState,
         NEW by \in {"event", "timer", "recovery", "manual"}, NEW n \in Nat, Begin(pc, o, by, n)
  PROVE  JobTypes' /\ \A i \in Job : JobQuiet(i)
<1>1. pc \in JobStates \ {"idle", "send"}
  BY DEF JobStates
<1>2. JobTypes' /\ \E j \in Job : job'[j].pc = pc /\ \A i \in Job : i # j => job'[i] = job[i]
  BY <1>1, BeginJob
<1>3. QED BY <1>2 DEF JobQuiet

LEMMA PolledStep ==
  ASSUME trouble \in TroubleRec, NEW kind, NEW b, PolledBurn(kind, b)
  PROVE  TroubleGrows /\ running
BY TroubleStep, NoTroubleStep DEF PolledBurn, BurnQueryFails

LEMMA HandleCommittedInv ==
  ASSUME LpBurnsInv, NEW b \in Burn, HandleCommitted(b)
  PROVE  LpBurnsInv'
<1>1. /\ PolledBurn("committed", b)
      /\ InState(Current(b), "committed") \/ UNCHANGED burnEntry
      /\ Begin("finalize", Current(b), "event", 0) \/ UNCHANGED job
      /\ UNCHANGED <<burn, hash, sent, back, burnTxs, running, recovery, sendTimer, burnFile>>
  BY DEF HandleCommitted, burnChain
<1>0. Current(b) \in BurnState
  BY CurrentState
<1>2. BurnTypes /\ HubTypes /\ EntryTypes /\ FileTypes /\ JobTypes /\ trouble \in TroubleRec
  BY BurnTypesParts DEF LpBurnsInv
<1>3. JobTypes' /\ \A i \in Job : JobQuiet(i)
  <2>1. CASE Begin("finalize", Current(b), "event", 0)
    BY <1>0, <1>2, <2>1, BeginQuiet
  <2>2. CASE UNCHANGED job
    BY <1>2, <2>2 DEF JobQuiet, JobTypes
  <2>3. QED BY <1>1, <2>1, <2>2
<1>4. EntryTypes' /\ EntriesKept
  BY <1>0, <1>1, <1>2, InStateStep, EntriesSame
<1>5. HubTypes' /\ StaysLate /\ FileTypes' /\ FilesKept /\ TroubleGrows
  BY <1>1, <1>2, HubSame, FilesSame, PolledStep
<1>6. BurnTypes'
  BY <1>1, <1>2, <1>3, <1>4, <1>5 DEF BurnTypes, HubTypes, EntryTypes, FileTypes, TroubleGrows
<1>7. QED BY <1>1, <1>3, <1>4, <1>5, <1>6, BurnQuiet

LEMMA HandleEndedInv ==
  ASSUME LpBurnsInv, NEW b \in Burn, HandleEnded(b)
  PROVE  LpBurnsInv'
<1>1. PICK kind \in {"finalized", "cancelled"} :
        PolledBurn(kind, b) /\ InState(Current(b), IF Tracked(b) THEN kind ELSE "none")
  BY DEF HandleEnded
<1>2. UNCHANGED <<burn, hash, sent, back, burnTxs, running, recovery, job, sendTimer, burnFile>>
  BY DEF HandleEnded, burnChain
<1>3. BurnTypes /\ HubTypes /\ EntryTypes /\ FileTypes /\ JobTypes /\ trouble \in TroubleRec
  BY BurnTypesParts DEF LpBurnsInv
<1>4. JobTypes' /\ \A i \in Job : JobQuiet(i)
  BY <1>2, <1>3 DEF JobQuiet, JobTypes
<1>5. PICK s : s = IF Tracked(b) THEN kind ELSE "none"
  OBVIOUS
<1>6. EntryTypes' /\ EntriesKept
  BY <1>1, <1>3, <1>5, CurrentState, InStateStep
<1>7. HubTypes' /\ StaysLate /\ FileTypes' /\ FilesKept /\ TroubleGrows
  BY <1>1, <1>2, <1>3, HubSame, FilesSame, PolledStep
<1>8. BurnTypes'
  BY <1>2, <1>3, <1>4, <1>6, <1>7 DEF BurnTypes, HubTypes, EntryTypes, FileTypes, TroubleGrows
<1>9. QED BY <1>2, <1>4, <1>6, <1>7, <1>8, BurnQuiet

LEMMA HandleSweptInv ==
  ASSUME LpBurnsInv, NEW b \in Burn, HandleSwept(b)
  PROVE  LpBurnsInv'
<1>1. BurnTypes /\ HubTypes /\ EntryTypes /\ FileTypes /\ JobTypes /\ trouble \in TroubleRec
  BY BurnTypesParts DEF LpBurnsInv
<1>2. PICK o \in BurnState : o = Current(b)
  BY CurrentState
<1>3. PICK s \in {"swept", burnEntry[o].state} :
        s = IF (burn[b].userSecret /\ KnownSecret(o) # 0) /\ burnEntry[o].tracked THEN "swept"
            ELSE burnEntry[o].state
  OBVIOUS
<1>4. /\ PolledBurn("declined", b) \/ PolledBurn("slashed", b)
      /\ InState(o, s) /\ (Begin("sweep", o, "event", 1) \/ UNCHANGED job)
      /\ UNCHANGED <<burn, hash, sent, back, burnTxs, running, recovery, sendTimer, burnFile>>
  BY <1>2, <1>3 DEF HandleSwept, burnChain
<1>5. s \in {"none", "requested", "proposed", "committed", "revealed", "finalized",
             "cancelled", "swept", "abandoned", "stale", "slashed"}
  BY <1>1, <1>3 DEF EntryTypes, EntryRec
<1>6. EntryTypes' /\ EntriesKept
  BY <1>1, <1>4, <1>5, InStateStep
<1>7. JobTypes' /\ \A i \in Job : JobQuiet(i)
  <2>1. CASE Begin("sweep", o, "event", 1)
    BY <1>1, <2>1, BeginQuiet
  <2>2. CASE UNCHANGED job
    BY <1>1, <2>2 DEF JobQuiet, JobTypes
  <2>3. QED BY <1>4, <2>1, <2>2
<1>8. HubTypes' /\ StaysLate /\ FileTypes' /\ FilesKept /\ TroubleGrows
  BY <1>1, <1>4, HubSame, FilesSame, PolledStep
<1>9. BurnTypes'
  BY <1>1, <1>4, <1>6, <1>7, <1>8 DEF BurnTypes, HubTypes, EntryTypes, FileTypes, TroubleGrows
<1>10. QED BY <1>4, <1>6, <1>7, <1>8, <1>9, BurnQuiet

LEMMA AbandonStaleInv ==
  ASSUME LpBurnsInv, NEW b \in Burn, AbandonStale(b)
  PROVE  LpBurnsInv'
<1>1. /\ \/ AbandonProposed(b) /\ InState(Current(b), "abandoned") /\ UNCHANGED trouble
         \/ BurnTrouble("faults") /\ InState(Current(b), "stale") /\ UNCHANGED burn
      /\ UNCHANGED <<hash, sent, back, burnTxs, running, recovery, job, sendTimer, burnFile>>
  BY DEF AbandonStale
<1>2. BurnTypes /\ HubTypes /\ EntryTypes /\ FileTypes /\ JobTypes /\ trouble \in TroubleRec
  BY BurnTypesParts DEF LpBurnsInv
<1>3. AbandonProposed(b) => BurnSteps(b)
  BY DEF BurnSteps
<1>4. HubTypes' /\ StaysLate
  BY <1>1, <1>2, <1>3, HubBurnStep, HubSame
<1>5. EntryTypes' /\ EntriesKept
  BY <1>1, <1>2, CurrentState, InStateStep
<1>6. JobTypes' /\ \A i \in Job : JobQuiet(i)
  BY <1>1, <1>2 DEF JobQuiet, JobTypes
<1>7. FileTypes' /\ FilesKept /\ TroubleGrows
  BY <1>1, <1>2, FilesSame, TroubleStep, NoTroubleStep
<1>8. BurnTypes'
  BY <1>1, <1>2, <1>4, <1>5, <1>6, <1>7 DEF BurnTypes, HubTypes, EntryTypes, FileTypes, TroubleGrows
<1>9. QED BY <1>1, <1>4, <1>5, <1>6, <1>7, <1>8, BurnQuiet

LEMMA OthersBurnInv ==
  ASSUME LpBurnsInv, NEW b \in Burn, OthersBurn(b)
  PROVE  LpBurnsInv'
<1>1. /\ BurnSteps(b) \/ SettleByAuction({b}) \/ PassDeadlines({b})
      /\ UNCHANGED <<hash, sent, back, burnTxs, running, recovery, overtaken, burnEntry, job, sendTimer,
                     burnFile, trouble>>
  BY DEF OthersBurn, BurnSteps, burnServer
<1>2. BurnTypes /\ HubTypes /\ EntryTypes /\ FileTypes /\ JobTypes
  BY BurnTypesParts DEF LpBurnsInv
<1>3. HubTypes' /\ StaysLate
  BY <1>1, <1>2, HubBurnStep, HubOtherStep
<1>4. JobTypes' /\ \A i \in Job : JobQuiet(i)
  BY <1>1, <1>2 DEF JobQuiet, JobTypes
<1>5. EntryTypes' /\ EntriesKept /\ FileTypes' /\ FilesKept
  BY <1>1, <1>2, EntriesSame, FilesSame
<1>6. BurnTypes' /\ TroubleGrows
  BY <1>1, <1>2, <1>3, <1>4, <1>5, NoTroubleStep DEF BurnTypes, HubTypes, EntryTypes, FileTypes
<1>7. QED BY <1>1, <1>3, <1>4, <1>5, <1>6, BurnQuiet

-----------------------------------------------------------------------------
\* The operator and the restart.

\* A call of the operator, or a file that is not written, ends what is claimed of
\* the secrets.
LEMMA CallInv ==
  ASSUME LpBurnsInv, BurnTypes', StaysLate, TroubleGrows, trouble'.unsaved + trouble'.calls # 0,
         UNCHANGED <<sent, sendTimer, running, recovery>>,
         \A j \in Job, b \in Burn : Paying(j, b)' => Paying(j, b)
  PROVE  LpBurnsInv'
<1>1. OnceInv'
  BY OnceQuiet DEF LpBurnsInv
<1>2. KeptInv'
  BY DEF KeptInv
<1>3. QED BY <1>1, <1>2 DEF LpBurnsInv

LEMMA OperateBurnInv ==
  ASSUME LpBurnsInv, NEW b \in Burn, OperateBurn(b)
  PROVE  LpBurnsInv'
<1>1. PICK pc \in {"propose", "finalize"} : Begin(pc, Current(b), "manual", 0)
  BY DEF OperateBurn
<1>2. /\ BurnTrouble("calls")
      /\ UNCHANGED <<burn, hash, sent, back, burnTxs, running, recovery, overtaken, burnEntry, sendTimer, burnFile>>
  BY DEF OperateBurn, burnChain
<1>3. BurnTypes /\ HubTypes /\ EntryTypes /\ FileTypes /\ JobTypes /\ trouble \in TroubleRec
  BY BurnTypesParts DEF LpBurnsInv
<1>4. pc \in JobStates \ {"idle", "send"}
  BY DEF JobStates
<1>5. JobTypes' /\ \E j \in Job : job'[j].pc = pc /\ \A i \in Job : i # j => job'[i] = job[i]
  BY <1>1, <1>3, <1>4, CurrentState, BeginJob
<1>6. \A j \in Job, c \in Burn : Paying(j, c)' => Paying(j, c)
  BY <1>5 DEF Paying
<1>7. HubTypes' /\ StaysLate /\ EntryTypes' /\ FileTypes'
  BY <1>2, <1>3, HubSame, EntriesSame, FilesSame
<1>8. TroubleGrows /\ trouble'.unsaved + trouble'.calls # 0
  BY <1>2, <1>3, TroubleStep
<1>9. BurnTypes'
  BY <1>2, <1>3, <1>5, <1>7, <1>8 DEF BurnTypes, HubTypes, EntryTypes, FileTypes, TroubleGrows
<1>10. QED BY <1>2, <1>6, <1>7, <1>8, <1>9, CallInv

LEMMA OperatorEndsInv ==
  ASSUME LpBurnsInv, NEW b \in Burn, OperatorEnds(b)
  PROVE  LpBurnsInv'
<1>1. /\ ClaimSlashed(b) \/ ResolveDeclined(b)
      /\ InState(Current(b), "slashed") \/ UNCHANGED burnEntry
      /\ BurnTrouble("calls")
      /\ UNCHANGED <<hash, sent, back, burnTxs, running, recovery, overtaken, job, sendTimer, burnFile>>
  BY DEF OperatorEnds
<1>2. BurnTypes /\ HubTypes /\ EntryTypes /\ FileTypes /\ JobTypes /\ trouble \in TroubleRec
  BY BurnTypesParts DEF LpBurnsInv
<1>3. BurnSteps(b)
  BY <1>1 DEF BurnSteps
<1>4. HubTypes' /\ StaysLate /\ FileTypes'
  BY <1>1, <1>2, <1>3, HubBurnStep, FilesSame
<1>5. EntryTypes'
  BY <1>1, <1>2, CurrentState, InStateStep, EntriesSame
<1>6. TroubleGrows /\ trouble'.unsaved + trouble'.calls # 0
  BY <1>1, <1>2, TroubleStep
<1>7. JobTypes' /\ \A j \in Job, c \in Burn : Paying(j, c)' => Paying(j, c)
  BY <1>1, <1>2 DEF JobTypes, Paying
<1>8. BurnTypes'
  BY <1>1, <1>2, <1>4, <1>5, <1>6, <1>7 DEF BurnTypes, HubTypes, EntryTypes, FileTypes, TroubleGrows
<1>9. QED BY <1>1, <1>4, <1>6, <1>7, <1>8, CallInv

LEMMA ProposePastInv ==
  ASSUME LpBurnsInv, NEW b \in Burn, ProposePast(b)
  PROVE  LpBurnsInv'
<1>1. /\ BurnTrouble("calls") /\ FreshSecrets # {} /\ ProposeHash(b)
      /\ hash' = [hash EXCEPT ![b] = FreshSecret]
      /\ UNCHANGED <<sent, back, burnTxs, running, recovery, overtaken, burnEntry, job, sendTimer, burnFile>>
  BY DEF ProposePast, burnServer
<1>2. BurnTypes /\ HubTypes /\ EntryTypes /\ FileTypes /\ JobTypes /\ trouble \in TroubleRec
  BY BurnTypesParts DEF LpBurnsInv
<1>3. BurnSteps(b)
  BY <1>1 DEF BurnSteps
<1>4. HubTypes' /\ StaysLate /\ EntryTypes' /\ FileTypes'
  BY <1>1, <1>2, <1>3, HubBurnStep, EntriesSame, FilesSame
<1>5. TroubleGrows /\ trouble'.unsaved + trouble'.calls # 0
  BY <1>1, <1>2, TroubleStep
<1>6. JobTypes' /\ \A j \in Job, c \in Burn : Paying(j, c)' => Paying(j, c)
  BY <1>1, <1>2 DEF JobTypes, Paying
<1>7. hash' \in [Burn -> Nat]
  BY <1>1, <1>2, FreshIsSecret DEF BurnTypes
<1>8. BurnTypes'
  BY <1>1, <1>2, <1>4, <1>5, <1>6, <1>7 DEF BurnTypes, HubTypes, EntryTypes, FileTypes, TroubleGrows
<1>9. QED BY <1>1, <1>4, <1>5, <1>6, <1>8, CallInv

LEMMA NoBurnEntryRec == NoBurnEntry \in EntryRec /\ NoBurnEntry.secret = 0
<1>1. PICK f : f = FALSE
  OBVIOUS
<1>2. NoBurnEntry = [tracked |-> f, known |-> f, state |-> "none", secret |-> 0, sent |-> f, tries |-> 0]
  BY <1>1 DEF NoBurnEntry
<1>3. f \in BOOLEAN
  BY <1>1
<1>4. QED BY <1>2, <1>3 DEF EntryRec

LEMMA NoSavedRec == NoSaved \in SavedRec /\ NoSaved.secret = 0
<1>1. PICK f : f = FALSE
  OBVIOUS
<1>2. NoSaved = [secret |-> 0, sent |-> f, tries |-> 0] /\ f \in BOOLEAN
  BY <1>1 DEF NoSaved
<1>3. QED BY <1>2 DEF SavedRec

LEMMA NoRecoveryRec ==
  /\ NoRecovery \in RecoveryRec /\ NoRecovery.phase = "scan" /\ NoRecovery.left = {}
  /\ NoRecovery.status = "none"
<1>1. PICK c : c = NoJob.burn
  OBVIOUS
<1>2. NoRecovery = [phase |-> "scan", left |-> {}, burn |-> c, status |-> "none"]
  BY <1>1 DEF NoRecovery
<1>3. QED BY <1>1, <1>2 DEF RecoveryRec

\* A crash forgets the entries, the calls and the timers.
LEMMA CrashBurnsInv ==
  ASSUME LpBurnsInv, CrashBurns
  PROVE  LpBurnsInv'
<1>1. /\ BurnTrouble("crashes") /\ recovery' = NoRecovery /\ sendTimer' = {}
      /\ burnEntry' = [o \in BurnState |-> NoBurnEntry] /\ job' = [j \in Job |-> NoJob]
      /\ UNCHANGED <<burn, hash, sent, back, burnTxs, burnFile>>
  BY DEF CrashBurns, burnChain
<1>2. BurnTypes /\ HubTypes /\ FileTypes /\ trouble \in TroubleRec
  BY BurnTypesParts DEF LpBurnsInv
<1>3. TroubleGrows /\ trouble'.crashes + trouble'.unsure # 0
  BY <1>1, <1>2, TroubleStep
<1>4. /\ job' \in [Job -> JobRec]
      /\ \A j \in Job : job'[j].pc = "idle"
  BY <1>1, NoJobFields
<1>5. JobTypes'
  BY <1>4 DEF JobTypes
<1>6. EntryTypes' /\ \A o \in BurnState : ~burnEntry'[o].tracked
  <2>1. ~NoBurnEntry.tracked
    BY DEF NoBurnEntry
  <2>2. QED BY <1>1, <2>1, NoBurnEntryRec DEF EntryTypes
<1>7. HubTypes' /\ StaysLate /\ FileTypes' /\ FilesKept
  BY <1>1, <1>2, HubSame, FilesSame
<1>8. BurnTypes'
  BY <1>1, <1>2, <1>3, <1>5, <1>6, <1>7, NoRecoveryRec
  DEF BurnTypes, HubTypes, EntryTypes, FileTypes, TroubleGrows
<1>9. OnceInv'
  BY <1>3 DEF OnceInv
<1>10. KeptInv'
  <2>1. SUFFICES ASSUME trouble'.unsaved + trouble'.calls = 0
        PROVE  /\ \A o \in BurnState : ProposalHeld(o)'
               /\ \A b \in Burn : SecretHeld(b)'
               /\ RecoveryHeld'
    BY DEF KeptInv
  <2>2. \A o \in BurnState : ProposalHeld(o)'
    BY <1>4 DEF ProposalHeld, Proposing
  <2>3. ASSUME NEW b \in Burn PROVE SecretHeld(b)'
    <3>1. SecretHeld(b)
      BY <1>3, <2>1 DEF LpBurnsInv, KeptInv, TroubleGrows
    <3>2. \A j \in Job : ~Pays(j, b)'
      BY <1>4 DEF Pays
    <3>3. PayDue(b)' => PayDue(b)
      BY <1>1, <3>2 DEF PayDue, Timed
    <3>4. QED BY <1>1, <1>7, <3>1, <3>3 DEF SecretHeld, FilesKept, StaysLate
  <2>4. RecoveryHeld'
    BY <1>1, <1>6, NoRecoveryRec DEF RecoveryHeld
  <2>5. QED BY <2>2, <2>3, <2>4
<1>11. QED BY <1>8, <1>9, <1>10 DEF LpBurnsInv

-----------------------------------------------------------------------------
\* The recovery.

\* A step of the recovery, or the start, that moves the recovery only.
LEMMA RecoveryMoves ==
  ASSUME LpBurnsInv, recovery' \in RecoveryRec, TroubleGrows,
         ~running \/ ~Recovered,
         UNCHANGED <<burn, hash, sent, back, burnTxs, burnEntry, job, sendTimer, burnFile>>,
         KeptInv /\ trouble'.unsaved + trouble'.calls = 0 => RecoveryHeld'
  PROVE  LpBurnsInv'
<1>1. BurnTypes /\ HubTypes /\ EntryTypes /\ FileTypes /\ JobTypes
  BY BurnTypesParts DEF LpBurnsInv
<1>2. HubTypes' /\ StaysLate /\ EntryTypes' /\ EntriesKept /\ FileTypes' /\ FilesKept
  BY <1>1, HubSame, EntriesSame, FilesSame
<1>3. JobTypes' /\ \A j \in Job : JobQuiet(j)
  BY <1>1 DEF JobTypes, JobQuiet
<1>4. BurnTypes'
  BY <1>1, <1>2, <1>3 DEF BurnTypes, HubTypes, EntryTypes, FileTypes, TroubleGrows
<1>5. OnceInv'
  BY DEF LpBurnsInv, OnceInv, TroubleGrows
<1>6. /\ \A b \in Burn : Timed(b)' # {} => PayDue(b)
      /\ \A b \in Burn : sent'[b] > 0 => PayDue(b)
  BY DEF PayDue, Timed
<1>7. \A o \in BurnState : burnEntry[o].tracked =>
        burnEntry'[o].tracked /\ burnEntry'[o].secret = burnEntry[o].secret
  BY <1>2 DEF EntriesKept
<1>8. KeptInv'
  BY <1>1, <1>2, <1>3, <1>6, <1>7, KeptQuiet DEF LpBurnsInv
<1>9. QED BY <1>4, <1>5, <1>8 DEF LpBurnsInv

LEMMA StartBurnsInv ==
  ASSUME LpBurnsInv, StartBurns
  PROVE  LpBurnsInv'
<1>1. PICK left : left = {b \in Burn : burnFile[b].secret # 0}
  OBVIOUS
<1>2. PICK c : c = NoJob.burn
  OBVIOUS
<1>3. /\ ~running /\ running' = TRUE
      /\ recovery' = [phase |-> "files", left |-> left, burn |-> c, status |-> "none"]
      /\ UNCHANGED <<burn, hash, sent, back, burnTxs, burnEntry, job, sendTimer, burnFile, trouble>>
  BY <1>1, <1>2 DEF StartBurns, burnChain, NoRecovery
<1>4. recovery' \in RecoveryRec
  BY <1>1, <1>2, <1>3 DEF RecoveryRec
<1>5. TroubleGrows
  BY <1>3, NoTroubleStep, BurnTypesParts DEF LpBurnsInv
<1>6. ASSUME KeptInv, trouble'.unsaved + trouble'.calls = 0
      PROVE  RecoveryHeld'
  <2>1. \A o \in BurnState : ~burnEntry[o].tracked
    BY <1>3, <1>5, <1>6 DEF KeptInv, RecoveryHeld, TroubleGrows
  <2>2. \A b \in left : b \in Burn /\ burnFile'[b].secret # 0 /\ Unrecovered(b)'
    BY <1>1, <1>3, <2>1, StateOf DEF Unrecovered
  <2>3. running' /\ recovery'.left = left /\ recovery'.status = "none"
    BY <1>3
  <2>4. QED BY <2>2, <2>3 DEF RecoveryHeld
<1>7. QED BY <1>3, <1>4, <1>5, <1>6, RecoveryMoves

LEMMA ScanRequestsInv ==
  ASSUME LpBurnsInv, ScanRequests
  PROVE  LpBurnsInv'
<1>1. PICK left : left = {b \in Burn : burn[b].status # "INVALID"}
  OBVIOUS
<1>2. PICK c : c = NoJob.burn
  OBVIOUS
<1>3. /\ running /\ recovery.phase = "files"
      /\ \/ /\ recovery' = [phase |-> "scan", left |-> left, burn |-> c, status |-> "none"]
            /\ UNCHANGED trouble
         \/ BurnTrouble("faults") /\ recovery' = NoRecovery
      /\ UNCHANGED <<running, burn, hash, sent, back, burnTxs, burnEntry, job, sendTimer, burnFile>>
  BY <1>1, <1>2 DEF ScanRequests, burnChain, NoRecovery
<1>4. recovery' \in RecoveryRec /\ recovery'.phase = "scan" /\ recovery'.status = "none"
  BY <1>1, <1>2, <1>3, NoRecoveryRec DEF RecoveryRec
<1>5. TroubleGrows
  BY <1>3, TroubleStep, NoTroubleStep, BurnTypesParts DEF LpBurnsInv
<1>6. RecoveryHeld'
  BY <1>3, <1>4 DEF RecoveryHeld
<1>7. ~Recovered
  BY <1>3 DEF Recovered
<1>8. QED BY <1>3, <1>4, <1>5, <1>6, <1>7, RecoveryMoves

LEMMA AskStatusInv ==
  ASSUME LpBurnsInv, NEW b \in Burn, AskStatus(b)
  PROVE  LpBurnsInv'
<1>1. PICK seen : seen = (recovery.phase = "scan" /\ (Tracked(b) \/ burnFile[b].secret # 0))
  OBVIOUS
<1>2. PICK q : q = IF seen THEN [recovery EXCEPT !.left = @ \ {b}]
                   ELSE [recovery EXCEPT !.left = @ \ {b}, !.burn = b, !.status = "asked"]
  OBVIOUS
<1>3. /\ b \in recovery.left /\ recovery.status = "none" /\ recovery' = q
      /\ UNCHANGED <<running, burn, hash, sent, back, burnTxs, burnEntry, job, sendTimer, burnFile,
                     trouble>>
  BY <1>1, <1>2 DEF AskStatus, burnChain
<1>4. recovery \in RecoveryRec
  BY BurnTypesParts DEF LpBurnsInv
<1>5. /\ q \in RecoveryRec /\ q.phase = recovery.phase /\ q.left = recovery.left \ {b}
      /\ IF seen THEN q.status = "none" ELSE q.burn = b /\ q.status = "asked"
  BY <1>2, <1>3, <1>4 DEF RecoveryRec
<1>6. TroubleGrows
  BY <1>3, NoTroubleStep, BurnTypesParts DEF LpBurnsInv
<1>7. ASSUME KeptInv, trouble'.unsaved + trouble'.calls = 0
      PROVE  RecoveryHeld'
  <2>1. RecoveryHeld
    BY <1>6, <1>7 DEF KeptInv, TroubleGrows
  <2>2. running
    BY <1>3, <2>1 DEF RecoveryHeld
  <2>3. ~seen => Unrecovered(b) /\ (recovery.phase = "files" => burnFile[b].secret # 0)
    <3>1. CASE recovery.phase = "files"
      BY <1>3, <2>1, <3>1 DEF RecoveryHeld
    <3>2. CASE recovery.phase # "files"
      <4>1. recovery.phase = "scan"
        BY <1>4, <3>2 DEF RecoveryRec
      <4>2. ~seen => ~Tracked(b)
        BY <1>1, <4>1
      <4>3. ~Tracked(b) => Unrecovered(b)
        BY DEF Tracked, Current, Unrecovered
      <4>4. QED BY <3>2, <4>2, <4>3
    <3>3. QED BY <3>1, <3>2
  <2>4. recovery'.phase = "files" =>
          \A c \in recovery'.left : burnFile'[c].secret # 0 /\ Unrecovered(c)'
    BY <1>3, <1>5, <2>1 DEF RecoveryHeld, Unrecovered
  <2>5. recovery'.status # "none" =>
          /\ recovery'.burn \in Burn \ recovery'.left /\ Unrecovered(recovery.burn)'
          /\ recovery'.phase = "files" =>
               burnFile'[recovery'.burn].secret # 0
    BY <1>3, <1>5, <2>3 DEF Unrecovered
  <2>6. running'
    BY <1>3, <2>2
  <2>7. QED BY <2>4, <2>5, <2>6 DEF RecoveryHeld
<1>8. ~Recovered
  BY <1>3 DEF Recovered
<1>9. QED BY <1>3, <1>5, <1>6, <1>7, <1>8, RecoveryMoves

LEMMA AnswerStatusInv ==
  ASSUME LpBurnsInv, AnswerStatus
  PROVE  LpBurnsInv'
<1>1. PICK st : st = burn[recovery.burn].status
  OBVIOUS
<1>2. PICK x : x = IF recovery' = [recovery EXCEPT !.status = "none"] THEN "none" ELSE st
  OBVIOUS
<1>3. /\ recovery.status = "asked"
      /\ recovery' = [recovery EXCEPT !.status = x]
      /\ BurnTrouble("faults") \/ UNCHANGED trouble
      /\ UNCHANGED <<running, burn, hash, sent, back, burnTxs, burnEntry, job, sendTimer, burnFile>>
  BY <1>1, <1>2 DEF AnswerStatus, burnChain
<1>4. recovery \in RecoveryRec /\ HubTypes
  BY BurnTypesParts DEF LpBurnsInv
<1>5. TroubleGrows
  BY <1>3, TroubleStep, NoTroubleStep, BurnTypesParts DEF LpBurnsInv
<1>6. recovery' \in RecoveryRec
  <2>1. recovery.burn \in Burn
    BY <1>3, <1>4 DEF RecoveryRec
  <2>2. st \in {"INVALID"} \cup BurnOpen \cup BurnEnded
    BY <1>1, <1>4, <2>1 DEF HubTypes, BurnRec
  <2>3. QED BY <1>2, <1>3, <1>4, <2>1, <2>2 DEF RecoveryRec
<1>7. ASSUME KeptInv, trouble'.unsaved + trouble'.calls = 0
      PROVE  RecoveryHeld'
  <2>1. RecoveryHeld
    BY <1>5, <1>7 DEF KeptInv, TroubleGrows
  <2>2. running /\ recovery.burn \in Burn \ recovery.left /\ Unrecovered(recovery.burn)
        /\ (recovery.phase = "files" => burnFile[recovery.burn].secret # 0)
    BY <1>3, <2>1 DEF RecoveryHeld
  <2>3. /\ recovery'.phase = recovery.phase /\ recovery'.left = recovery.left
        /\ recovery'.burn = recovery.burn /\ recovery'.status = x
    BY <1>3, <1>4 DEF RecoveryRec
  <2>4. recovery'.phase = "files" =>
          \A b \in recovery'.left : burnFile'[b].secret # 0 /\ Unrecovered(b)'
    BY <1>3, <2>1, <2>3 DEF RecoveryHeld, Unrecovered
  <2>5. Unrecovered(recovery.burn)'
    BY <1>3, <2>2 DEF Unrecovered
  <2>6. recovery'.phase = "files" => burnFile'[recovery'.burn].secret # 0
    BY <1>3, <2>2, <2>3
  <2>7. QED BY <1>3, <2>2, <2>3, <2>4, <2>5, <2>6 DEF RecoveryHeld, Unrecovered
<1>8. ~Recovered
  BY <1>3 DEF Recovered
<1>9. QED BY <1>3, <1>5, <1>6, <1>7, <1>8, RecoveryMoves

-----------------------------------------------------------------------------
\* New objects, of a request and of the recovery.

\* An object that was not in use starts its first proposal.
LEMMA StartsProposing ==
  ASSUME LpBurnsInv, StaysLate, FilesKept, TroubleGrows, UNCHANGED <<hash, sent, sendTimer>>,
         NEW o \in BurnState, ~burnEntry[o].tracked, burnEntry'[o].tracked,
         \A c \in BurnState : c # o => burnEntry'[c] = burnEntry[c],
         NEW j \in Job, job[j].pc = "idle", job'[j].pc = "propose",
         job'[j].burn = o[1], job'[j].entry = o[2],
         \A i \in Job : i # j => job'[i] = job[i],
         KeptInv /\ trouble'.unsaved + trouble'.calls = 0 => RecoveryHeld'
  PROVE  KeptInv'
<1>1. SUFFICES ASSUME trouble'.unsaved + trouble'.calls = 0
      PROVE  /\ \A c \in BurnState : ProposalHeld(c)'
             /\ \A b \in Burn : SecretHeld(b)'
  BY DEF LpBurnsInv, KeptInv
<1>2. (\A c \in BurnState : ProposalHeld(c)) /\ (\A b \in Burn : SecretHeld(b))
  BY <1>1 DEF LpBurnsInv, KeptInv, TroubleGrows
<1>3. \A i \in Job, c \in BurnState : i # j => (Proposing(i, c)' <=> Proposing(i, c))
  BY DEF Proposing, Held
<1>4. \A c \in BurnState : Proposing(j, c)' => c = o
  BY StateOf DEF Proposing, Held
<1>5. ProposalHeld(o)'
  <2>1. \A i \in Job : Proposing(i, o)' => i = j
    BY <1>2, <1>3 DEF ProposalHeld
  <2>2. QED BY <2>1 DEF ProposalHeld
<1>6. ASSUME NEW c \in BurnState, c # o PROVE ProposalHeld(c)'
  <2>1. \A i \in Job : Proposing(i, c)' => Proposing(i, c) /\ job'[i] = job[i]
    BY <1>3, <1>4, <1>6
  <2>2. QED BY <1>2, <1>6, <2>1, ProposalSame
<1>7. ASSUME NEW b \in Burn PROVE SecretHeld(b)'
  <2>1. \A i \in Job : Pays(i, b)' => Pays(i, b)
    BY DEF Pays
  <2>2. PayDue(b)' => PayDue(b)
    BY <2>1 DEF PayDue, Timed
  <2>3. QED BY <1>2, <2>2 DEF SecretHeld, FilesKept, StaysLate
<1>8. QED BY <1>5, <1>6, <1>7

LEMMA HandleRequestInv ==
  ASSUME LpBurnsInv, NEW b \in Burn, HandleRequest(b)
  PROVE  LpBurnsInv'
<1>1. BurnTypes /\ HubTypes /\ EntryTypes /\ FileTypes /\ JobTypes /\ trouble \in TroubleRec
  BY BurnTypesParts DEF LpBurnsInv
<1>2. PolledBurn("requested", b)
      /\ UNCHANGED <<burn, hash, sent, back, burnTxs, running, recovery, sendTimer, burnFile>>
  BY DEF HandleRequest, burnChain
<1>3. HubTypes' /\ StaysLate /\ FileTypes' /\ FilesKept /\ TroubleGrows /\ running
  BY <1>1, <1>2, HubSame, FilesSame, PolledStep
<1>4. CASE Tracked(b)
  <2>1. UNCHANGED <<burnEntry, job>>
    BY <1>4 DEF HandleRequest
  <2>2. EntryTypes' /\ EntriesKept /\ JobTypes' /\ \A i \in Job : JobQuiet(i)
    BY <1>1, <2>1, EntriesSame DEF JobTypes, JobQuiet
  <2>3. BurnTypes'
    BY <1>1, <1>2, <1>3, <2>1, <2>2 DEF BurnTypes, HubTypes, EntryTypes, FileTypes, TroubleGrows
  <2>4. QED BY <1>2, <1>3, <2>2, <2>3, BurnQuiet
<1>5. CASE ~Tracked(b)
  <2>1. PICK t, o : t = TRUE /\ o = <<b, "event">>
    OBVIOUS
  <2>2. PICK e : e = [NoBurnEntry EXCEPT !.tracked = t, !.known = t, !.state = "requested"]
    OBVIOUS
  <2>3. o \in BurnState /\ o[1] = b /\ Current(b) = o /\ ~burnEntry[o].tracked
    BY <1>5, <2>1, StateOf DEF Tracked, Current
  <2>4. SetEntry(o, e) /\ (Begin("propose", o, "event", 0) \/ UNCHANGED job)
    BY <1>5, <2>1, <2>2, <2>3 DEF HandleRequest
  <2>5. e \in EntryRec /\ e.tracked = t
    BY <2>1, <2>2, NoBurnEntryRec DEF EntryRec
  <2>6. EntryTypes' /\ burnEntry'[o] = e /\ \A c \in BurnState : c # o => burnEntry'[c] = burnEntry[c]
    BY <1>1, <2>3, <2>4, <2>5, SetEntryStep
  <2>7. burnEntry'[o].tracked
    BY <2>1, <2>5, <2>6
  <2>8. "propose" \in JobStates \ {"idle", "send"}
    BY DEF JobStates
  <2>9. /\ JobTypes'
        /\ \/ UNCHANGED job
           \/ \E j \in Job :
                /\ job[j].pc = "idle" /\ job'[j].pc = "propose"
                /\ job'[j].burn = o[1] /\ job'[j].entry = o[2]
                /\ \A i \in Job : i # j => job'[i] = job[i]
    <3>1. CASE UNCHANGED job
      BY <1>1, <3>1 DEF JobTypes
    <3>2. CASE Begin("propose", o, "event", 0)
      BY <1>1, <2>3, <2>8, <3>2, BeginJob
    <3>3. QED BY <2>4, <3>1, <3>2
  <2>10. BurnTypes'
    BY <1>1, <1>2, <1>3, <2>6, <2>9 DEF BurnTypes, HubTypes, EntryTypes, FileTypes, TroubleGrows
  <2>11. \A j \in Job, c \in Burn : Paying(j, c)' => Paying(j, c)
    BY <2>9 DEF Paying
  <2>12. OnceInv'
    BY <1>1, <1>2, <1>3, <2>11, OnceQuiet DEF LpBurnsInv
  <2>13. KeptInv /\ trouble'.unsaved + trouble'.calls = 0 => RecoveryHeld'
    <3>1. \A c \in Burn : <<c, "recovery">> \in BurnState /\ <<c, "recovery">> # o
      BY <2>1, StateOf
    <3>2. \A c \in Burn : Unrecovered(c) => Unrecovered(c)'
      BY <2>6, <3>1 DEF Unrecovered
    <3>3. \A c \in Burn : burnFile[c].secret # 0 => burnFile'[c].secret # 0
      BY <1>2
    <3>4. QED BY <1>1, <1>2, <1>3, <3>2, <3>3, RecoveryQuiet
  <2>14. KeptInv'
    <3>1. CASE UNCHANGED job
      <4>1. \A j \in Job : JobQuiet(j)
        BY <3>1 DEF JobQuiet
      <4>2. /\ \A c \in Burn : Timed(c)' # {} => PayDue(c)
            /\ \A c \in Burn : sent'[c] > 0 => PayDue(c)
        BY <1>2 DEF PayDue, Timed
      <4>3. \A c \in BurnState : burnEntry[c].tracked =>
              burnEntry'[c].tracked /\ burnEntry'[c].secret = burnEntry[c].secret
        BY <2>3, <2>6
      <4>4. UNCHANGED hash
        BY <1>2
      <4>5. QED BY <1>1, <1>3, <2>13, <4>1, <4>2, <4>3, <4>4, KeptQuiet DEF LpBurnsInv
    <3>2. CASE \E j \in Job :
                /\ job[j].pc = "idle" /\ job'[j].pc = "propose"
                /\ job'[j].burn = o[1] /\ job'[j].entry = o[2]
                /\ \A i \in Job : i # j => job'[i] = job[i]
      BY <1>2, <1>3, <2>3, <2>6, <2>7, <2>13, <3>2, StartsProposing
    <3>3. QED BY <2>9, <3>1, <3>2
  <2>15. QED BY <2>10, <2>12, <2>14 DEF LpBurnsInv
<1>6. QED BY <1>4, <1>5

\* What the recovery starts for a burn: a payment only of one in the file.
LEMMA RecoveryJob ==
  ASSUME JobTypes, RecoveryTask # "none", NEW b \in Burn,
         Begin(RecoveryTask, <<b, "recovery">>, "recovery", 0)
  PROVE  /\ JobTypes'
         /\ \E j \in Job :
              /\ job[j].pc = "idle" /\ job'[j].burn = b /\ job'[j].entry = "recovery"
              /\ \/ job'[j].pc = "propose"
                 \/ job'[j].pc = "send xmr" /\ recovery.phase = "files"
                 \/ job'[j].pc = "finalize"
              /\ \A i \in Job : i # j => job'[i] = job[i]
<1>1. PICK pc, o : pc = RecoveryTask /\ o = <<b, "recovery">>
  OBVIOUS
<1>2. pc = "propose" \/ (pc = "send xmr" /\ recovery.phase = "files") \/ pc = "finalize"
  BY <1>1 DEF RecoveryTask
<1>3. pc \in JobStates \ {"idle", "send"}
  BY <1>2 DEF JobStates
<1>4. Begin(pc, o, "recovery", 0) /\ o \in BurnState /\ o[1] = b /\ o[2] = "recovery"
  BY <1>1, StateOf
<1>5. /\ JobTypes'
      /\ \E j \in Job :
              /\ job[j].pc = "idle"
              /\ job'[j].pc = pc /\ job'[j].burn = o[1] /\ job'[j].entry = o[2]
              /\ \A i \in Job : i # j => job'[i] = job[i]
  BY <1>3, <1>4, BeginJob
<1>6. QED BY <1>2, <1>4, <1>5

\* The burn of the answer gets its object: nothing of the burn's other object changes.
LEMMA RehydrateInv ==
  ASSUME LpBurnsInv, Rehydrate
  PROVE  LpBurnsInv'
<1>1. BurnTypes /\ HubTypes /\ EntryTypes /\ FileTypes /\ JobTypes /\ trouble \in TroubleRec
      /\ recovery \in RecoveryRec
  BY BurnTypesParts DEF LpBurnsInv
<1>2. PICK b, c, o : b = recovery.burn /\ c = NoJob.burn /\ o = <<b, "recovery">>
  OBVIOUS
<1>3. PICK t, known, st, f :
        /\ t = TRUE /\ known = (recovery.phase = "scan")
        /\ st = CASE recovery.status = "REQUESTED" -> "requested"
                  [] recovery.status = "PROPOSED" -> "proposed"
                  [] OTHER -> "committed"
        /\ f = IF recovery.phase = "files" THEN burnFile[b] ELSE NoSaved
  OBVIOUS
<1>4. PICK e, q : /\ e = [NoBurnEntry EXCEPT !.tracked = t, !.known = known, !.secret = f.secret,
                            !.sent = f.sent, !.tries = f.tries, !.state = st]
                  /\ q = [recovery EXCEPT !.burn = c, !.status = "none"]
  OBVIOUS
<1>5. /\ recovery.status # "none" /\ recovery' = q /\ SetEntry(o, e)
      /\ IF RecoveryTask = "none" THEN UNCHANGED job
         ELSE Begin(RecoveryTask, <<b, "recovery">>, "recovery", 0)
      /\ UNCHANGED <<burn, hash, sent, back, burnTxs, running, sendTimer, burnFile, trouble>>
  BY <1>2, <1>3, <1>4 DEF Rehydrate, burnChain
<1>6. b \in Burn /\ o \in BurnState /\ o[1] = b /\ o[2] = "recovery"
  BY <1>1, <1>2, <1>5, StateOf DEF RecoveryRec
<1>7. /\ q \in RecoveryRec /\ q.phase = recovery.phase /\ q.left = recovery.left
      /\ q.status = "none"
  BY <1>1, <1>2, <1>4 DEF RecoveryRec
<1>8. e \in EntryRec /\ e.tracked = t
  <2>1. f \in SavedRec
    <3>1. CASE recovery.phase = "files"
      BY <1>1, <1>3, <1>6, <3>1 DEF FileTypes
    <3>2. CASE recovery.phase # "files"
      BY <1>3, <3>2, NoSavedRec
    <3>3. QED BY <3>1, <3>2
  <2>2. f.secret \in Nat /\ f.sent \in BOOLEAN /\ f.tries \in Nat
    BY <2>1 DEF SavedRec
  <2>3. t \in BOOLEAN /\ known \in BOOLEAN /\ st \in {"requested", "proposed", "committed"}
    BY <1>3
  <2>4. QED BY <1>4, <2>2, <2>3, NoBurnEntryRec DEF EntryRec
<1>9. /\ EntryTypes' /\ burnEntry'[o] = e
      /\ \A d \in BurnState : d # o => burnEntry'[d] = burnEntry[d]
  BY <1>1, <1>5, <1>6, <1>8, SetEntryStep
<1>10. HubTypes' /\ StaysLate /\ FileTypes' /\ FilesKept /\ TroubleGrows
  BY <1>1, <1>5, HubSame, FilesSame, NoTroubleStep
<1>11. /\ JobTypes'
       /\ \/ UNCHANGED job
          \/ \E j \in Job :
               /\ job[j].pc = "idle" /\ job'[j].burn = b /\ job'[j].entry = "recovery"
               /\ \/ job'[j].pc = "propose"
                  \/ job'[j].pc = "send xmr" /\ recovery.phase = "files"
                  \/ job'[j].pc = "finalize"
               /\ \A i \in Job : i # j => job'[i] = job[i]
  <2>1. CASE RecoveryTask = "none"
    BY <1>1, <1>5, <2>1 DEF JobTypes
  <2>2. CASE RecoveryTask # "none"
    BY <1>1, <1>5, <1>6, <2>2, RecoveryJob
  <2>3. QED BY <2>1, <2>2
<1>12. BurnTypes'
  BY <1>1, <1>5, <1>7, <1>9, <1>10, <1>11 DEF BurnTypes, HubTypes, EntryTypes, FileTypes, TroubleGrows
<1>13. OnceInv'
  BY <1>5 DEF LpBurnsInv, OnceInv, Recovered
<1>14. KeptInv'
  <2>1. SUFFICES ASSUME trouble'.unsaved + trouble'.calls = 0
        PROVE  KeptInv'
    BY DEF KeptInv
  <2>2. RecoveryHeld /\ KeptInv
    BY <1>5, <2>1 DEF LpBurnsInv, KeptInv
  <2>3. /\ running /\ b \notin recovery.left /\ ~burnEntry[o].tracked
        /\ recovery.phase = "files" => burnFile[b].secret # 0
    BY <1>2, <1>5, <2>2 DEF RecoveryHeld, Unrecovered
  <2>4. RecoveryHeld'
    <3>1. \A d \in Burn : d # b => (Unrecovered(d) => Unrecovered(d)')
      <4>1. \A d \in Burn : d # b => <<d, "recovery">> \in BurnState /\ <<d, "recovery">> # o
        BY <1>2, StateOf
      <4>2. QED BY <1>9, <4>1 DEF Unrecovered
    <3>2. recovery.left \subseteq Burn
      BY <1>1 DEF RecoveryRec
    <3>3. recovery'.phase = "files" =>
            \A d \in recovery'.left : burnFile'[d].secret # 0 /\ Unrecovered(d)'
      BY <1>5, <1>7, <2>2, <2>3, <3>1, <3>2 DEF RecoveryHeld
    <3>4. recovery'.status = "none" /\ running'
      BY <1>5, <1>7, <2>3
    <3>5. QED BY <3>3, <3>4 DEF RecoveryHeld
  <2>5. /\ \A d \in Burn : Timed(d)' # {} => PayDue(d)
        /\ \A d \in Burn : sent'[d] > 0 => PayDue(d)
    BY <1>5 DEF PayDue, Timed
  <2>6. \A d \in BurnState : burnEntry[d].tracked =>
          burnEntry'[d].tracked /\ burnEntry'[d].secret = burnEntry[d].secret
    BY <1>9, <2>3
  <2>7. UNCHANGED <<hash, sent, sendTimer>>
    BY <1>5
  <2>8. CASE \A j \in Job : JobQuiet(j) \/ (job'[j].pc = "send xmr" /\ Owed(job'[j].burn))
    BY <1>1, <1>10, <2>4, <2>5, <2>6, <2>7, <2>8, KeptQuiet DEF LpBurnsInv
  <2>9. CASE UNCHANGED job
    <3>1. \A j \in Job : JobQuiet(j)
      BY <2>9 DEF JobQuiet
    <3>2. QED BY <2>8, <3>1
  <2>10. CASE \E j \in Job :
               /\ job[j].pc = "idle" /\ job'[j].burn = b /\ job'[j].entry = "recovery"
               /\ \/ job'[j].pc = "propose"
                  \/ job'[j].pc = "send xmr" /\ recovery.phase = "files"
                  \/ job'[j].pc = "finalize"
               /\ \A i \in Job : i # j => job'[i] = job[i]
    <3>1. PICK j \in Job :
            /\ job[j].pc = "idle" /\ job'[j].burn = b /\ job'[j].entry = "recovery"
            /\ \/ job'[j].pc = "propose"
               \/ job'[j].pc = "send xmr" /\ recovery.phase = "files"
               \/ job'[j].pc = "finalize"
            /\ \A i \in Job : i # j => job'[i] = job[i]
      BY <2>10
    <3>2. CASE job'[j].pc = "propose"
      <4>1. burnEntry'[o].tracked
        BY <1>3, <1>8, <1>9
      <4>2. QED BY <1>6, <1>9, <1>10, <2>3, <2>4, <2>7, <3>1, <3>2, <4>1, StartsProposing
    <3>3. CASE job'[j].pc # "propose"
      <4>1. \A i \in Job : JobQuiet(i) \/ (job'[i].pc = "send xmr" /\ Owed(job'[i].burn))
        BY <2>3, <3>1, <3>3 DEF JobQuiet, Owed
      <4>2. QED BY <2>8, <4>1
    <3>4. QED BY <3>2, <3>3
  <2>11. QED BY <1>11, <2>9, <2>10
<1>15. QED BY <1>12, <1>13, <1>14 DEF LpBurnsInv

-----------------------------------------------------------------------------
\* The proposal and the payment.

LEMMA TakeBurnSecretInv ==
  ASSUME LpBurnsInv, NEW j \in Job, TakeBurnSecret(j)
  PROVE  LpBurnsInv'
<1>1. PICK o : o = Held(j)
  OBVIOUS
<1>2. PICK e : e = [burnEntry[o] EXCEPT !.secret = FreshSecret]
  OBVIOUS
<1>3. /\ job[j].pc = "propose"
      /\ \/ Ends(j) /\ UNCHANGED burnEntry
         \/ FreshSecrets # {} /\ Sends(j, "propose", FreshSecret) /\ SetEntry(o, e)
      /\ UNCHANGED <<burn, hash, sent, back, burnTxs, running, recovery, sendTimer, burnFile, trouble>>
  BY <1>1, <1>2 DEF TakeBurnSecret, burnChain
<1>4. BurnTypes /\ HubTypes /\ EntryTypes /\ FileTypes /\ JobTypes /\ trouble \in TroubleRec
  BY BurnTypesParts DEF LpBurnsInv
<1>5. o \in BurnState
  BY <1>1, <1>3, <1>4, HeldState DEF JobTypes
<1>6. HubTypes' /\ StaysLate /\ FileTypes' /\ FilesKept /\ TroubleGrows
  BY <1>3, <1>4, HubSame, FilesSame, NoTroubleStep
<1>7. CASE Ends(j) /\ UNCHANGED burnEntry
  <2>1. JobTypes' /\ (\A i \in Job : JobQuiet(i)) /\ EntryTypes' /\ EntriesKept
    BY <1>4, <1>7, EndsJob, EntriesSame DEF JobQuiet
  <2>2. BurnTypes'
    BY <1>3, <1>4, <1>6, <2>1 DEF BurnTypes, HubTypes, EntryTypes, FileTypes, TroubleGrows
  <2>3. QED BY <1>3, <1>6, <2>1, <2>2, BurnQuiet
<1>8. CASE FreshSecrets # {} /\ Sends(j, "propose", FreshSecret) /\ SetEntry(o, e)
  <2>1. FreshSecret \in Nat \ {0}
    BY <1>8, FreshIsSecret
  <2>2. /\ JobTypes' /\ job'[j].pc = "send" /\ job'[j].tx = "propose" /\ Held(j)' = o
        /\ job'[j].secret = FreshSecret /\ \A i \in Job : i # j => job'[i] = job[i]
    BY <1>1, <1>3, <1>4, <1>8, <2>1, SendsJob DEF Held
  <2>3. e \in EntryRec /\ e.tracked = burnEntry[o].tracked /\ e.secret = FreshSecret
    BY <1>2, <1>4, <1>5, <2>1 DEF EntryTypes, EntryRec
  <2>4. /\ EntryTypes' /\ burnEntry'[o] = e
        /\ \A c \in BurnState : c # o => burnEntry'[c] = burnEntry[c]
    BY <1>4, <1>5, <1>8, <2>3, SetEntryStep
  <2>5. BurnTypes'
    BY <1>3, <1>4, <1>6, <2>2, <2>4 DEF BurnTypes, HubTypes, EntryTypes, FileTypes, TroubleGrows
  <2>6. \A i \in Job, c \in Burn : Paying(i, c)' => Paying(i, c)
    BY <2>2 DEF Paying
  <2>7. OnceInv'
    BY <1>3, <1>4, <1>6, <2>6, OnceQuiet DEF LpBurnsInv
  <2>8. KeptInv'
    <3>1. SUFFICES ASSUME trouble'.unsaved + trouble'.calls = 0
          PROVE  /\ \A c \in BurnState : ProposalHeld(c)'
                 /\ \A b \in Burn : SecretHeld(b)'
                 /\ RecoveryHeld'
      BY DEF KeptInv
    <3>2. /\ KeptInv /\ \A c \in BurnState : ProposalHeld(c)
          /\ \A b \in Burn : SecretHeld(b)
      BY <1>6, <3>1 DEF LpBurnsInv, KeptInv, TroubleGrows
    <3>3. Proposing(j, o) /\ \A i \in Job : Proposing(i, o)' => Proposing(i, o)
      BY <1>1, <1>3, <2>2 DEF Proposing, Held
    <3>4. burnEntry[o].tracked /\ \A i \in Job : Proposing(i, o) => i = j
      BY <1>5, <3>2, <3>3 DEF ProposalHeld
    <3>5. ProposalHeld(o)'
      <4>1. burnEntry'[o].tracked /\ burnEntry'[o].secret = job'[j].secret /\ job'[j].secret # 0
            /\ job'[j].pc = "send"
        BY <2>1, <2>2, <2>3, <2>4, <3>4
      <4>2. \A i \in Job : Proposing(i, o)' => i = j
        BY <3>3, <3>4
      <4>3. QED BY <4>1, <4>2 DEF ProposalHeld
    <3>6. ASSUME NEW c \in BurnState, c # o PROVE ProposalHeld(c)'
      <4>1. \A i \in Job : Proposing(i, c)' => Proposing(i, c) /\ job'[i] = job[i]
        BY <2>2, <3>6 DEF Proposing, Held
      <4>2. UNCHANGED hash
        BY <1>3
      <4>3. QED BY <1>6, <2>4, <3>2, <3>6, <4>1, <4>2, ProposalSame
    <3>7. ASSUME NEW b \in Burn PROVE SecretHeld(b)'
      <4>1. \A i \in Job : Pays(i, b)' => Pays(i, b)
        BY <2>2 DEF Pays
      <4>2. PayDue(b)' => PayDue(b)
        BY <1>3, <4>1 DEF PayDue, Timed
      <4>3. QED BY <1>3, <1>6, <3>2, <4>2 DEF SecretHeld, FilesKept, StaysLate
    <3>8. RecoveryHeld'
      <4>1. \A c \in BurnState : burnEntry'[c].tracked = burnEntry[c].tracked
        BY <2>3, <2>4
      <4>2. \A b \in Burn : Unrecovered(b) => Unrecovered(b)'
        BY <4>1, StateOf DEF Unrecovered
      <4>3. \A b \in Burn : burnFile[b].secret # 0 => burnFile'[b].secret # 0
        BY <1>3
      <4>4. UNCHANGED <<running, recovery>>
        BY <1>3
      <4>5. QED BY <1>4, <1>6, <3>1, <3>2, <4>1, <4>2, <4>3, <4>4, RecoveryQuiet
    <3>9. QED BY <3>5, <3>6, <3>7, <3>8
  <2>9. QED BY <2>5, <2>7, <2>8 DEF LpBurnsInv
<1>9. QED BY <1>3, <1>7, <1>8

\* The proposal is accepted: the secret goes to the file, the job goes on to pay.
LEMMA ProposedInv ==
  ASSUME LpBurnsInv, NEW j \in Job, Proposed(j)
  PROVE  LpBurnsInv'
<1>1. PICK b, o : b = job[j].burn /\ o = Held(j)
  OBVIOUS
<1>2. PICK f : f = [secret |-> burnEntry[o].secret, sent |-> burnEntry[o].sent, tries |-> 0]
  OBVIOUS
<1>3. /\ job[j].pc = "mined" /\ job[j].tx = "propose"
      /\ InState(o, "proposed") /\ Works(j, "send xmr")
      /\ \/ burnFile' = [burnFile EXCEPT ![b] = f] /\ UNCHANGED trouble
         \/ BurnTrouble("unsaved") /\ UNCHANGED burnFile
      /\ UNCHANGED <<burn, hash, sent, back, burnTxs, running, recovery, sendTimer>>
  BY <1>1, <1>2 DEF Proposed, InState, burnChain
<1>4. BurnTypes /\ HubTypes /\ EntryTypes /\ FileTypes /\ JobTypes /\ trouble \in TroubleRec
  BY BurnTypesParts DEF LpBurnsInv
<1>5. b \in Burn /\ o \in BurnState /\ o[1] = b
  BY <1>1, <1>3, <1>4, HeldState DEF JobTypes
<1>6. f \in SavedRec /\ f.secret = burnEntry[o].secret
  BY <1>2, <1>4, <1>5 DEF EntryTypes, EntryRec, SavedRec
<1>7. FileTypes' /\ \A c \in Burn : c # b => burnFile'[c] = burnFile[c]
  BY <1>3, <1>4, <1>6 DEF FileTypes
<1>8. HubTypes' /\ StaysLate /\ TroubleGrows /\ EntryTypes' /\ EntriesKept
  BY <1>3, <1>4, <1>5, HubSame, TroubleStep, NoTroubleStep, InStateStep
<1>9. "send xmr" \in JobStates \ {"send"}
  BY DEF JobStates
<1>10. /\ JobTypes' /\ job'[j].pc = "send xmr" /\ job'[j].burn = b
       /\ \A i \in Job : i # j => job'[i] = job[i]
  BY <1>1, <1>3, <1>4, <1>9, WorksJob
<1>11. BurnTypes'
  BY <1>3, <1>4, <1>7, <1>8, <1>10 DEF BurnTypes, HubTypes, EntryTypes, FileTypes, TroubleGrows
<1>12. \A i \in Job, c \in Burn : Paying(i, c)' => Paying(i, c)
  BY <1>1, <1>3, <1>10 DEF Paying
<1>13. OnceInv'
  BY <1>3, <1>4, <1>8, <1>12, OnceQuiet DEF LpBurnsInv
<1>14. KeptInv'
  <2>1. SUFFICES ASSUME trouble'.unsaved + trouble'.calls = 0
        PROVE  /\ \A c \in BurnState : ProposalHeld(c)'
               /\ \A c \in Burn : SecretHeld(c)'
               /\ RecoveryHeld'
    BY DEF KeptInv
  <2>2. /\ KeptInv /\ \A c \in BurnState : ProposalHeld(c)
        /\ \A c \in Burn : SecretHeld(c)
    BY <1>8, <2>1 DEF LpBurnsInv, KeptInv, TroubleGrows
  <2>3. burnFile' = [burnFile EXCEPT ![b] = f]
    BY <1>3, <1>4, <2>1, TroubleStep
  <2>4. Proposing(j, o)
    BY <1>1, <1>3 DEF Proposing
  <2>5. burnEntry[o].secret = hash[b] /\ hash[b] # 0 /\ ~Early(b)
    BY <1>3, <1>5, <2>2, <2>4 DEF ProposalHeld
  <2>6. burnFile'[b].secret = hash[b]
    BY <1>4, <1>5, <1>6, <2>3, <2>5 DEF FileTypes
  <2>7. ASSUME NEW c \in BurnState PROVE ProposalHeld(c)'
    <3>1. \A i \in Job : Proposing(i, c)' => Proposing(i, c) /\ job'[i] = job[i]
      BY <1>10 DEF Proposing, Held
    <3>2. burnEntry[c].tracked =>
            burnEntry'[c].tracked /\ burnEntry'[c].secret = burnEntry[c].secret
      BY <1>8 DEF EntriesKept
    <3>3. UNCHANGED hash
      BY <1>3
    <3>4. QED BY <1>8, <2>2, <3>1, <3>2, <3>3, ProposalSame
  <2>8. ASSUME NEW c \in Burn PROVE SecretHeld(c)'
    <3>1. CASE c = b
      BY <1>3, <1>8, <2>5, <2>6, <3>1 DEF SecretHeld, StaysLate
    <3>2. CASE c # b
      <4>1. burnFile'[c] = burnFile[c] /\ hash'[c] = hash[c] /\ (Early(c)' => Early(c))
        BY <1>3, <1>7, <1>8, <3>2 DEF StaysLate
      <4>2. \A i \in Job : Pays(i, c)' => Pays(i, c)
        BY <1>10, <3>2 DEF Pays
      <4>3. PayDue(c)' => PayDue(c)
        BY <1>3, <4>2 DEF PayDue, Timed
      <4>4. QED BY <2>2, <4>1, <4>3 DEF SecretHeld
    <3>3. QED BY <3>1, <3>2
  <2>9. RecoveryHeld'
    <3>1. \A c \in Burn : Unrecovered(c) => Unrecovered(c)'
      BY <1>8, StateOf DEF Unrecovered, EntriesKept
    <3>2. \A c \in Burn : burnFile[c].secret # 0 => burnFile'[c].secret # 0
      BY <1>7, <2>5, <2>6
    <3>3. \A c \in BurnState : burnEntry'[c].tracked => burnEntry[c].tracked
      BY <1>8 DEF EntriesKept
    <3>4. UNCHANGED <<running, recovery>>
      BY <1>3
    <3>5. QED BY <1>4, <1>8, <2>1, <2>2, <3>1, <3>2, <3>3, <3>4, RecoveryQuiet
  <2>10. QED BY <2>7, <2>8, <2>9
<1>15. QED BY <1>11, <1>13, <1>14 DEF LpBurnsInv

\* The wallet sends once, or not, unless its answer is lost.
LEMMA SendXmrInv ==
  ASSUME LpBurnsInv, NEW j \in Job, SendXmr(j)
  PROVE  LpBurnsInv'
<1>1. PICK b : b = job[j].burn
  OBVIOUS
<1>2. /\ job[j].pc = "send xmr"
      /\ \/ sent' = [sent EXCEPT ![b] = @ + 1] /\ Works(j, "xmr sent") /\ UNCHANGED trouble
         \/ BurnTrouble("faults") /\ UNCHANGED sent /\ Works(j, "xmr failed")
         \/ /\ BurnTrouble("unsure") /\ \E n \in {1, 2} : sent' = [sent EXCEPT ![b] = @ + n]
            /\ Works(j, "xmr failed") \/ Works(j, "xmr sent")
      /\ UNCHANGED <<burn, hash, back, burnTxs, burnEvents, running, recovery, overtaken, burnEntry,
                     sendTimer, burnFile>>
  BY <1>1 DEF SendXmr, TransferTimesOut
<1>3. BurnTypes /\ HubTypes /\ EntryTypes /\ FileTypes /\ JobTypes /\ trouble \in TroubleRec
  BY BurnTypesParts DEF LpBurnsInv
<1>4. b \in Burn /\ sent[b] \in Nat
  BY <1>1, <1>2, <1>3 DEF JobTypes, BurnTypes
<1>5. /\ HubTypes' /\ StaysLate /\ EntryTypes' /\ EntriesKept /\ FileTypes' /\ FilesKept
      /\ TroubleGrows
  BY <1>2, <1>3, HubSame, EntriesSame, FilesSame, TroubleStep, NoTroubleStep
<1>6. {"xmr sent", "xmr failed"} \subseteq JobStates \ {"send"}
  BY DEF JobStates
<1>7. /\ JobTypes' /\ job'[j].burn = b /\ job'[j].pc \in {"xmr sent", "xmr failed"}
      /\ \A i \in Job : i # j => job'[i] = job[i]
  BY <1>1, <1>2, <1>3, <1>6, WorksJob
<1>8. sent' \in [Burn -> Nat] /\ \A c \in Burn : c # b => sent'[c] = sent[c]
  <2>1. PICK n \in Nat : sent' = [sent EXCEPT ![b] = @ + n] \/ UNCHANGED sent
    BY <1>2
  <2>2. sent \in [Burn -> Nat]
    BY <1>3 DEF BurnTypes
  <2>3. QED BY <1>4, <2>1, <2>2
<1>9. BurnTypes'
  BY <1>2, <1>3, <1>5, <1>7, <1>8 DEF BurnTypes, HubTypes, EntryTypes, FileTypes, TroubleGrows
<1>10. KeptInv'
  <2>1. Pays(j, b) /\ PayDue(b)
    BY <1>1, <1>2 DEF Pays, PayDue
  <2>2. \A i \in Job : JobQuiet(i) \/ (job'[i].pc \in {"xmr sent", "xmr failed"} /\ Pays(i, job'[i].burn))
    BY <1>7, <2>1 DEF JobQuiet
  <2>3. \A c \in Burn : Timed(c)' # {} => PayDue(c)
    BY <1>2 DEF PayDue, Timed
  <2>4. \A c \in Burn : sent'[c] > 0 => PayDue(c)
    <3>1. \A c \in Burn : c # b /\ sent'[c] > 0 => PayDue(c)
      BY <1>8 DEF PayDue
    <3>2. QED BY <2>1, <3>1
  <2>5. UNCHANGED <<hash, burnEntry>>
    BY <1>2
  <2>6. KeptInv /\ trouble'.unsaved + trouble'.calls = 0 => RecoveryHeld'
    <3>1. /\ \A c \in Burn : burnFile[c].secret # 0 => burnFile'[c].secret # 0
          /\ \A c \in Burn : Unrecovered(c) => Unrecovered(c)'
          /\ \A c \in BurnState : burnEntry'[c].tracked => burnEntry[c].tracked
      BY <1>2 DEF Unrecovered
    <3>2. UNCHANGED <<running, recovery>>
      BY <1>2
    <3>3. QED BY <1>3, <1>5, <3>1, <3>2, RecoveryQuiet
  <2>7. QED BY <1>3, <1>5, <2>2, <2>3, <2>4, <2>5, <2>6, KeptQuiet DEF LpBurnsInv
<1>11. OnceInv'
  <2>1. SUFFICES ASSUME trouble'.crashes + trouble'.unsure = 0
        PROVE  running' /\ Recovered' /\ \A c \in Burn : OnePayment(c)'
    BY DEF OnceInv
  <2>2. running /\ Recovered /\ \A c \in Burn : OnePayment(c)
    BY <1>5, <2>1 DEF LpBurnsInv, OnceInv, TroubleGrows
  <2>3. \/ sent' = [sent EXCEPT ![b] = @ + 1] /\ Works(j, "xmr sent")
        \/ UNCHANGED sent /\ Works(j, "xmr failed")
    BY <1>2, <1>3, <2>1, TroubleStep
  <2>4. Paying(j, b) /\ ~Early(b) /\ sent[b] = 0 /\ Timed(b) = {}
    BY <1>1, <1>2, <1>4, <2>2 DEF Paying, OnePayment
  <2>5. \A i \in Job, c \in Burn : Paying(i, c)' => Paying(i, c)
    BY <1>1, <1>2, <1>7 DEF Paying
  <2>6. CASE UNCHANGED sent
    <3>1. \A c \in Burn : Timed(c)' = Timed(c)
      BY <1>2 DEF Timed
    <3>2. \A c \in Burn : OnePayment(c)'
      BY <1>5, <2>2, <2>5, <2>6, <3>1 DEF OnePayment, StaysLate
    <3>3. QED BY <1>2, <2>2, <3>2 DEF Recovered
  <2>7. CASE sent' = [sent EXCEPT ![b] = @ + 1] /\ Works(j, "xmr sent")
    <3>1. sent'[b] = 1
      <4>1. sent \in [Burn -> Nat]
        BY <1>3 DEF BurnTypes
      <4>2. sent'[b] = sent[b] + 1
        BY <1>4, <2>7, <4>1
      <4>3. QED BY <2>4, <4>2
    <3>2. "xmr sent" \in JobStates \ {"send"}
      BY <1>6
    <3>3. job'[j].pc = "xmr sent"
      BY <1>2, <1>3, <2>7, <3>2, WorksJob
    <3>4. \A i \in Job : ~Paying(i, b)'
      <4>1. ~Paying(j, b)'
        BY <3>3 DEF Paying
      <4>2. \A i \in Job : Paying(i, b) => i = j
        BY <1>4, <2>2, <2>4 DEF OnePayment
      <4>3. QED BY <1>4, <2>5, <4>1, <4>2
    <3>5. ~Early(b)'
      BY <1>4, <1>5, <2>4 DEF StaysLate
    <3>6. Timed(b)' = {} /\ \A c \in Burn : Timed(c)' = Timed(c)
      BY <1>2, <2>4 DEF Timed
    <3>7. OnePayment(b)'
      BY <3>1, <3>4, <3>5, <3>6 DEF OnePayment
    <3>8. \A c \in Burn : c # b => OnePayment(c)'
      BY <1>2, <1>5, <1>8, <2>2, <2>5, <3>6, OnePaymentSame
    <3>9. QED BY <1>2, <2>2, <3>7, <3>8 DEF Recovered
  <2>8. QED BY <2>3, <2>6, <2>7
<1>12. QED BY <1>9, <1>10, <1>11 DEF LpBurnsInv

\* A send that failed, and is tried again after its 30 seconds or given up.
LEMMA XmrFailedInv ==
  ASSUME LpBurnsInv, NEW j \in Job, XmrFailed(j)
  PROVE  LpBurnsInv'
<1>1. PICK b, k : b = job[j].burn /\ k = job[j].entry
  OBVIOUS
<1>2. PICK n : n = IF job[j].by = "timer" THEN job[j].attempt + 1 ELSE 1
  OBVIOUS
<1>3. /\ job[j].pc = "xmr failed" /\ Ends(j)
      /\ sendTimer' = sendTimer \cup {<<b, k, n>>} \/ sendTimer' = sendTimer
      /\ UNCHANGED <<burn, hash, sent, back, burnTxs, burnEvents, running, recovery, overtaken, burnEntry,
                     burnFile, trouble>>
  BY <1>1, <1>2 DEF XmrFailed, burnChain
<1>4. BurnTypes /\ HubTypes /\ EntryTypes /\ FileTypes /\ JobTypes /\ trouble \in TroubleRec
  BY BurnTypesParts DEF LpBurnsInv
<1>5. b \in Burn /\ n \in Nat /\ k \in {"event", "recovery"}
  <2>1. job[j].attempt \in Nat
    BY <1>4, JobFields
  <2>2. n \in Nat
    BY <1>2, <2>1
  <2>3. QED BY <1>1, <1>3, <1>4, <2>2, JobFields DEF JobTypes
<1>6. /\ HubTypes' /\ StaysLate /\ EntryTypes' /\ EntriesKept /\ FileTypes' /\ FilesKept
      /\ TroubleGrows
  BY <1>3, <1>4, HubSame, EntriesSame, FilesSame, NoTroubleStep
<1>7. /\ JobTypes' /\ job'[j].pc = "idle" /\ \A i \in Job : i # j => job'[i] = job[i]
  BY <1>3, <1>4, EndsJob
<1>8. PICK p : /\ p \in TimerSet /\ p[1] = b
               /\ sendTimer' = sendTimer \cup {p} \/ sendTimer' = sendTimer
  <2>1. <<b, k, n>> \in TimerSet /\ <<b, k, n>>[1] = b
    BY <1>5 DEF TimerSet
  <2>2. QED BY <1>3, <2>1
<1>9. BurnTypes'
  BY <1>3, <1>4, <1>6, <1>7, <1>8 DEF BurnTypes, HubTypes, EntryTypes, FileTypes, TroubleGrows
<1>10. KeptInv'
  <2>1. \A i \in Job : JobQuiet(i)
    BY <1>7 DEF JobQuiet
  <2>2. Pays(j, b)
    BY <1>1, <1>3 DEF Pays
  <2>3. \A c \in Burn : Timed(c)' # {} => PayDue(c)
    BY <1>8, <2>2 DEF PayDue, Timed
  <2>4. \A c \in Burn : sent'[c] > 0 => PayDue(c)
    BY <1>3 DEF PayDue
  <2>5. UNCHANGED <<hash, burnEntry>>
    BY <1>3
  <2>6. KeptInv /\ trouble'.unsaved + trouble'.calls = 0 => RecoveryHeld'
    <3>1. /\ \A c \in Burn : burnFile[c].secret # 0 => burnFile'[c].secret # 0
          /\ \A c \in Burn : Unrecovered(c) => Unrecovered(c)'
          /\ \A c \in BurnState : burnEntry'[c].tracked => burnEntry[c].tracked
      BY <1>3 DEF Unrecovered
    <3>2. UNCHANGED <<running, recovery>>
      BY <1>3
    <3>3. QED BY <1>4, <1>6, <3>1, <3>2, RecoveryQuiet
  <2>7. QED BY <1>4, <1>6, <2>1, <2>3, <2>4, <2>5, <2>6, KeptQuiet DEF LpBurnsInv
<1>11. OnceInv'
  <2>1. SUFFICES ASSUME trouble'.crashes + trouble'.unsure = 0
        PROVE  running' /\ Recovered' /\ \A c \in Burn : OnePayment(c)'
    BY DEF OnceInv
  <2>2. running /\ Recovered /\ \A c \in Burn : OnePayment(c)
    BY <1>6, <2>1 DEF LpBurnsInv, OnceInv, TroubleGrows
  <2>3. Paying(j, b) /\ ~Early(b) /\ sent[b] = 0 /\ Timed(b) = {}
    BY <1>1, <1>3, <1>5, <2>2 DEF Paying, OnePayment
  <2>4. \A i \in Job, c \in Burn : Paying(i, c)' => Paying(i, c) /\ i # j
    BY <1>7 DEF Paying
  <2>5. \A i \in Job : ~Paying(i, b)'
    BY <1>5, <2>2, <2>3, <2>4 DEF OnePayment
  <2>6. ~Early(b)' /\ sent'[b] = 0
    BY <1>3, <1>5, <1>6, <2>3 DEF StaysLate
  <2>7. Timed(b)' \subseteq {p}
    BY <1>8, <2>3 DEF Timed
  <2>8. OnePayment(b)'
    BY <2>5, <2>6, <2>7 DEF OnePayment
  <2>9. \A c \in Burn : c # b => Timed(c)' = Timed(c)
    BY <1>8 DEF Timed
  <2>10. \A c \in Burn : c # b => OnePayment(c)'
    BY <1>3, <1>6, <2>2, <2>4, <2>9, OnePaymentSame
  <2>11. QED BY <1>3, <2>2, <2>8, <2>10 DEF Recovered
<1>12. QED BY <1>9, <1>10, <1>11 DEF LpBurnsInv

LEMMA SendTimerFiresInv ==
  ASSUME LpBurnsInv, NEW b \in Burn, NEW k \in {"event", "recovery"},
         NEW n \in 1 .. SendRetryMax, SendTimerFires(b, k, n)
  PROVE  LpBurnsInv'
<1>1. /\ <<b, k, n>> \in sendTimer /\ sendTimer' = sendTimer \ {<<b, k, n>>}
      /\ Begin("send xmr", <<b, k>>, "timer", n) \/ UNCHANGED job
      /\ UNCHANGED <<burn, hash, sent, back, burnTxs, burnEvents, running, recovery, overtaken, burnEntry,
                     burnFile, trouble>>
  BY DEF SendTimerFires, burnChain
<1>2. BurnTypes /\ HubTypes /\ EntryTypes /\ FileTypes /\ JobTypes /\ trouble \in TroubleRec
  BY BurnTypesParts DEF LpBurnsInv
<1>3. n \in Nat /\ <<b, k, n>>[1] = b /\ sendTimer' \subseteq sendTimer
  <2>1. SendRetryMax \in Nat
    BY LpBurnsAssumption
  <2>2. PICK p : p = <<b, k, n>>
    OBVIOUS
  <2>3. sendTimer' = sendTimer \ {p}
    BY <1>1, <2>2
  <2>4. QED BY <2>1, <2>3
<1>4. /\ HubTypes' /\ StaysLate /\ EntryTypes' /\ EntriesKept /\ FileTypes' /\ FilesKept
      /\ TroubleGrows
  BY <1>1, <1>2, HubSame, EntriesSame, FilesSame, NoTroubleStep
<1>5. "send xmr" \in JobStates \ {"idle", "send"}
  BY DEF JobStates
<1>6. /\ JobTypes'
      /\ \/ UNCHANGED job
         \/ \E j \in Job : /\ job[j].pc = "idle" /\ job'[j].pc = "send xmr" /\ job'[j].burn = b
                           /\ \A i \in Job : i # j => job'[i] = job[i]
  <2>1. CASE UNCHANGED job
    BY <1>2, <2>1 DEF JobTypes
  <2>2. CASE Begin("send xmr", <<b, k>>, "timer", n)
    <3>1. PICK o, pc, by : o = <<b, k>> /\ pc = "send xmr" /\ by = "timer"
      OBVIOUS
    <3>2. /\ o \in BurnState /\ o[1] = b /\ Begin(pc, o, by, n)
          /\ pc \in JobStates \ {"idle", "send"} /\ by \in {"event", "timer", "recovery", "manual"}
      BY <1>5, <2>2, <3>1, StateOf
    <3>3. /\ JobTypes'
          /\ \E j \in Job : /\ job[j].pc = "idle" /\ job'[j].pc = pc /\ job'[j].burn = o[1]
                           /\ \A i \in Job : i # j => job'[i] = job[i]
      BY <1>2, <1>3, <3>2, BeginJob
    <3>4. QED BY <3>1, <3>2, <3>3
  <2>3. QED BY <1>1, <2>1, <2>2
<1>7. BurnTypes'
  BY <1>1, <1>2, <1>3, <1>4, <1>6 DEF BurnTypes, HubTypes, EntryTypes, FileTypes, TroubleGrows
<1>8. KeptInv'
  <2>1. PayDue(b)
    BY <1>1, <1>3 DEF PayDue, Timed
  <2>2. \A i \in Job : JobQuiet(i) \/ (job'[i].pc = "send xmr" /\ Owed(job'[i].burn))
    BY <1>6, <2>1 DEF JobQuiet, Owed
  <2>3. \A c \in Burn : Timed(c)' # {} => PayDue(c)
    BY <1>3 DEF PayDue, Timed
  <2>4. \A c \in Burn : sent'[c] > 0 => PayDue(c)
    BY <1>1 DEF PayDue
  <2>5. UNCHANGED <<hash, burnEntry>>
    BY <1>1
  <2>6. KeptInv /\ trouble'.unsaved + trouble'.calls = 0 => RecoveryHeld'
    <3>1. /\ \A c \in Burn : burnFile[c].secret # 0 => burnFile'[c].secret # 0
          /\ \A c \in Burn : Unrecovered(c) => Unrecovered(c)'
          /\ \A c \in BurnState : burnEntry'[c].tracked => burnEntry[c].tracked
      BY <1>1 DEF Unrecovered
    <3>2. UNCHANGED <<running, recovery>>
      BY <1>1
    <3>3. QED BY <1>2, <1>4, <3>1, <3>2, RecoveryQuiet
  <2>7. QED BY <1>2, <1>4, <2>2, <2>3, <2>4, <2>5, <2>6, KeptQuiet DEF LpBurnsInv
<1>9. OnceInv'
  <2>1. SUFFICES ASSUME trouble'.crashes + trouble'.unsure = 0
        PROVE  running' /\ Recovered' /\ \A c \in Burn : OnePayment(c)'
    BY DEF OnceInv
  <2>2. running /\ Recovered /\ \A c \in Burn : OnePayment(c)
    BY <1>4, <2>1 DEF LpBurnsInv, OnceInv, TroubleGrows
  <2>3. PICK p : p = <<b, k, n>>
    OBVIOUS
  <2>4. p \in Timed(b)
    BY <1>1, <1>3, <2>3 DEF Timed
  <2>5. /\ ~Early(b) /\ sent[b] = 0 /\ \A i \in Job : ~Paying(i, b)
        /\ \A q \in Timed(b) : q = p
    BY <2>2, <2>4 DEF OnePayment
  <2>6. Timed(b)' = {} /\ \A c \in Burn : c # b => Timed(c)' = Timed(c)
    BY <1>1, <1>3, <2>3, <2>5 DEF Timed
  <2>7. ~Early(b)' /\ sent'[b] = 0
    BY <1>1, <1>4, <2>5 DEF StaysLate
  <2>8. \A i, m \in Job : Paying(i, b)' /\ Paying(m, b)' => i = m
    BY <1>6, <2>5, ZenonT(60) DEF Paying
  <2>9. OnePayment(b)'
    BY <2>6, <2>7, <2>8 DEF OnePayment
  <2>10. \A c \in Burn : c # b => \A i \in Job : Paying(i, c)' => Paying(i, c)
    BY <1>6 DEF Paying
  <2>11. \A c \in Burn : c # b => OnePayment(c)'
    BY <1>1, <1>4, <2>2, <2>6, <2>10, OnePaymentSame
  <2>12. QED BY <1>1, <2>2, <2>9, <2>11 DEF Recovered
<1>10. QED BY <1>7, <1>8, <1>9 DEF LpBurnsInv

\* A transaction that is mined: an accepted proposal is the one case that counts.
LEMMA MineParts ==
  ASSUME BurnTypes, NEW t \in TxRec, MineBurnTx(t)
  PROVE  /\ t.burn \in Burn /\ t.job \in Job /\ t.secret \in Nat
         /\ burnTxs' \subseteq burnTxs
         /\ UNCHANGED <<sent, back, running, recovery, sendTimer, trouble>>
         /\ \/ /\ t.kind # "propose" \/ UNCHANGED burn
               /\ BurnSteps(t.burn) \/ UNCHANGED burn
               /\ UNCHANGED hash
               /\ \/ UNCHANGED <<job, burnEntry, burnFile>>
                  \/ job[t.job].pc = "sent" /\ Fails(t.job)
                  \/ /\ job[t.job].pc = "sent" /\ job[t.job].tx = t.kind /\ t.kind # "propose"
                     /\ Works(t.job, "mined") /\ UNCHANGED <<burnEntry, burnFile>>
            \/ /\ t.kind = "propose" /\ Early(t.burn) /\ ProposeHash(t.burn)
               /\ hash' = [hash EXCEPT ![t.burn] = t.secret]
               /\ UNCHANGED <<burnEntry, burnFile>>
               /\ \/ UNCHANGED job
                  \/ /\ job[t.job].pc = "sent" /\ job[t.job].tx = "propose"
                     /\ job[t.job].burn = t.burn /\ job[t.job].secret = t.secret
                     /\ Works(t.job, "mined")
<1>1. PICK b : b = t.burn
  OBVIOUS
<1>2. PICK taken : taken =
        CASE t.kind = "propose" -> burn[b].status = "REQUESTED" /\ Open(b)
          [] t.kind = "reveal" -> /\ t.secret = hash[b] /\ burn[b].status = "COMMITTED"
                                  /\ ~Over(b) /\ ~burn[b].lpSecret
          [] OTHER -> burn[b].status = "COMMITTED" /\ burn[b].lpSecret
  OBVIOUS
<1>3. PICK waits : waits = (/\ job[t.job].pc = "sent"
        /\ <<job[t.job].tx, job[t.job].burn, job[t.job].secret>> = <<t.kind, b, t.secret>>)
  OBVIOUS
<1>4. /\ IF taken THEN CASE t.kind = "propose" -> ProposeHash(b)
                          [] t.kind = "reveal" -> RevealBurn(b)
                          [] OTHER -> FinalizeBurn(b)
         ELSE UNCHANGED burn
      /\ hash' = IF taken /\ t.kind = "propose" THEN [hash EXCEPT ![b] = t.secret] ELSE hash
      /\ IF waits THEN JobAfter(t, taken) ELSE UNCHANGED <<job, burnFile, burnEntry>>
      /\ burnTxs' = burnTxs \ {t}
      /\ UNCHANGED <<sent, back, running, recovery, sendTimer, trouble>>
  BY <1>1, <1>2, <1>3 DEF MineBurnTx
<1>5. /\ b \in Burn /\ t.job \in Job /\ t.secret \in Nat
      /\ t.kind \in {"propose", "reveal", "settle"}
  BY <1>1 DEF TxRec
<1>6. waits => /\ job[t.job].pc = "sent" /\ job[t.job].tx = t.kind
               /\ job[t.job].burn = b /\ job[t.job].secret = t.secret
  BY <1>3
<1>7. JobAfter(t, taken) =>
        \/ taken /\ Works(t.job, "mined") /\ UNCHANGED <<burnEntry, burnFile>>
        \/ ~taken /\ Fails(t.job)
  BY DEF JobAfter
<1>8. \/ UNCHANGED <<job, burnEntry, burnFile>>
      \/ ~taken /\ waits /\ Fails(t.job)
      \/ taken /\ waits /\ Works(t.job, "mined") /\ UNCHANGED <<burnEntry, burnFile>>
  BY <1>4, <1>7
<1>9. CASE taken /\ t.kind = "propose"
  <2>1. Early(b)
    BY <1>2, <1>9 DEF Early
  <2>2. ProposeHash(b) /\ hash' = [hash EXCEPT ![b] = t.secret]
    BY <1>4, <1>9
  <2>3. /\ UNCHANGED <<burnEntry, burnFile>>
        /\ \/ UNCHANGED job
           \/ /\ job[t.job].pc = "sent" /\ job[t.job].tx = "propose"
              /\ job[t.job].burn = b /\ job[t.job].secret = t.secret
              /\ Works(t.job, "mined")
    BY <1>6, <1>8, <1>9
  <2>4. QED BY <1>1, <1>4, <1>5, <1>9, <2>1, <2>2, <2>3
<1>10. CASE ~(taken /\ t.kind = "propose")
  <2>1. UNCHANGED hash
    BY <1>4, <1>10
  <2>2. (t.kind # "propose" \/ UNCHANGED burn) /\ (BurnSteps(b) \/ UNCHANGED burn)
    BY <1>4, <1>10 DEF BurnSteps
  <2>3. \/ UNCHANGED <<job, burnEntry, burnFile>>
        \/ job[t.job].pc = "sent" /\ Fails(t.job)
        \/ /\ job[t.job].pc = "sent" /\ job[t.job].tx = t.kind /\ t.kind # "propose"
           /\ Works(t.job, "mined") /\ UNCHANGED <<burnEntry, burnFile>>
    BY <1>6, <1>8, <1>10
  <2>4. QED BY <1>1, <1>4, <1>5, <2>1, <2>2, <2>3
<1>11. QED BY <1>9, <1>10

LEMMA ProposedLate ==
  ASSUME HubTypes, NEW b \in Burn, ProposeHash(b)
  PROVE  ~Early(b)'
<1>1. At(b, "PROPOSED").status = "PROPOSED"
  BY AtRec DEF BurnOpen
<1>2. burn'[b] = At(b, "PROPOSED")
  BY DEF ProposeHash, BurnMoves, HubTypes
<1>3. QED BY <1>1, <1>2 DEF Early

LEMMA MineBurnTxInv ==
  ASSUME LpBurnsInv, NEW t \in burnTxs, MineBurnTx(t)
  PROVE  LpBurnsInv'
<1>1. BurnTypes /\ HubTypes /\ EntryTypes /\ FileTypes /\ JobTypes /\ trouble \in TroubleRec
      /\ burnTxs \subseteq TxRec
  BY BurnTypesParts DEF LpBurnsInv
<1>2. t \in TxRec
  BY <1>1
<1>3. PICK b, i : b = t.burn /\ i = t.job
  OBVIOUS
<1>4. /\ b \in Burn /\ i \in Job /\ t.secret \in Nat /\ burnTxs' \subseteq burnTxs
      /\ UNCHANGED <<sent, back, running, recovery, sendTimer, trouble>>
  BY <1>1, <1>2, <1>3, MineParts
<1>5. TroubleGrows
  BY <1>1, <1>4, NoTroubleStep
<1>6. "mined" \in JobStates \ {"send"}
  BY DEF JobStates
<1>7. CASE /\ BurnSteps(b) \/ UNCHANGED burn
           /\ UNCHANGED hash
           /\ \/ UNCHANGED <<job, burnEntry, burnFile>>
              \/ job[i].pc = "sent" /\ Fails(i)
              \/ /\ job[i].pc = "sent" /\ job[i].tx = t.kind /\ t.kind # "propose"
                 /\ Works(i, "mined") /\ UNCHANGED <<burnEntry, burnFile>>
  <2>1. HubTypes' /\ StaysLate
    BY <1>1, <1>4, <1>7, HubBurnStep, HubSame
  <2>2. /\ JobTypes' /\ \A j \in Job : JobQuiet(j)
        /\ EntryTypes' /\ EntriesKept /\ FileTypes' /\ FilesKept
    <3>1. CASE UNCHANGED <<job, burnEntry, burnFile>>
      BY <1>1, <3>1, EntriesSame, FilesSame DEF JobTypes, JobQuiet
    <3>2. CASE job[i].pc = "sent" /\ Fails(i)
      <4>1. job[i].burn \in Burn
        BY <1>1, <1>4, <3>2 DEF JobTypes
      <4>2. QED BY <1>1, <1>4, <3>2, <4>1, FailsStep DEF JobQuiet
    <3>3. CASE /\ job[i].pc = "sent" /\ job[i].tx = t.kind /\ t.kind # "propose"
               /\ Works(i, "mined") /\ UNCHANGED <<burnEntry, burnFile>>
      BY <1>1, <1>4, <1>6, <3>3, WorksJob, EntriesSame, FilesSame DEF JobQuiet
    <3>4. QED BY <1>7, <3>1, <3>2, <3>3
  <2>3. BurnTypes'
    BY <1>1, <1>4, <1>5, <1>7, <2>1, <2>2 DEF BurnTypes, HubTypes, EntryTypes, FileTypes, TroubleGrows
  <2>4. QED BY <1>4, <1>5, <1>7, <2>1, <2>2, <2>3, BurnQuiet
<1>8. CASE /\ Early(b) /\ ProposeHash(b)
           /\ hash' = [hash EXCEPT ![b] = t.secret]
           /\ UNCHANGED <<burnEntry, burnFile>>
           /\ \/ UNCHANGED job
              \/ /\ job[i].pc = "sent" /\ job[i].tx = "propose"
                 /\ job[i].burn = b /\ job[i].secret = t.secret
                 /\ Works(i, "mined")
  <2>1. BurnSteps(b)
    BY <1>8 DEF BurnSteps
  <2>2. HubTypes' /\ StaysLate /\ ~Early(b)'
    BY <1>1, <1>4, <1>8, <2>1, HubBurnStep, ProposedLate
  <2>3. /\ JobTypes'
        /\ \/ UNCHANGED job
           \/ /\ job[i].pc = "sent" /\ job[i].tx = "propose" /\ job[i].burn = b
              /\ job[i].secret = t.secret
              /\ job'[i].pc = "mined" /\ job'[i].tx = "propose" /\ job'[i].burn = b
              /\ job'[i].secret = t.secret /\ job'[i].entry = job[i].entry
              /\ \A j \in Job : j # i => job'[j] = job[j]
    <3>1. CASE UNCHANGED job
      BY <1>1, <3>1 DEF JobTypes
    <3>2. CASE Works(i, "mined") /\ job[i].pc = "sent" /\ job[i].tx = "propose"
               /\ job[i].burn = b /\ job[i].secret = t.secret
      BY <1>1, <1>4, <1>6, <3>2, WorksJob
    <3>3. QED BY <1>8, <3>1, <3>2
  <2>4. hash' \in [Burn -> Nat] /\ hash'[b] = t.secret /\ \A c \in Burn : c # b => hash'[c] = hash[c]
    BY <1>1, <1>4, <1>8 DEF BurnTypes
  <2>5. EntryTypes' /\ EntriesKept /\ FileTypes' /\ FilesKept
    BY <1>1, <1>8, EntriesSame, FilesSame
  <2>6. BurnTypes'
    BY <1>1, <1>4, <1>5, <2>2, <2>3, <2>4, <2>5 DEF BurnTypes, HubTypes, EntryTypes, FileTypes, TroubleGrows
  <2>7. OnceInv'
    <3>1. SUFFICES ASSUME trouble'.crashes + trouble'.unsure = 0
          PROVE  running' /\ Recovered' /\ \A c \in Burn : OnePayment(c)'
      BY DEF OnceInv
    <3>2. running /\ Recovered /\ \A c \in Burn : OnePayment(c)
      BY <1>5, <3>1 DEF LpBurnsInv, OnceInv, TroubleGrows
    <3>3. sent[b] = 0 /\ (\A j \in Job : ~Paying(j, b)) /\ Timed(b) = {}
      BY <1>4, <1>8, <3>2 DEF OnePayment
    <3>4. \A j, k \in Job : Paying(j, b)' /\ Paying(k, b)' => j = k
      BY <2>3, <3>3 DEF Paying
    <3>5. \A c \in Burn : Timed(c)' = Timed(c)
      BY <1>4 DEF Timed
    <3>6. OnePayment(b)'
      BY <1>4, <2>2, <3>3, <3>4, <3>5 DEF OnePayment
    <3>7. \A c \in Burn : c # b => \A j \in Job : Paying(j, c)' => Paying(j, c)
      BY <2>3 DEF Paying
    <3>8. \A c \in Burn : c # b => OnePayment(c)'
      BY <1>4, <2>2, <3>2, <3>5, <3>7 DEF OnePayment, StaysLate
    <3>9. QED BY <1>4, <3>2, <3>6, <3>8 DEF Recovered
  <2>8. KeptInv'
    <3>1. SUFFICES ASSUME trouble'.unsaved + trouble'.calls = 0
          PROVE  /\ \A o \in BurnState : ProposalHeld(o)'
                 /\ \A c \in Burn : SecretHeld(c)'
                 /\ RecoveryHeld'
      BY DEF KeptInv
    <3>2. /\ KeptInv /\ \A o \in BurnState : ProposalHeld(o)
          /\ \A c \in Burn : SecretHeld(c)
      BY <1>4, <3>1 DEF LpBurnsInv, KeptInv
    <3>3. burnFile[b].secret = 0 /\ ~PayDue(b)
      BY <1>4, <1>8, <3>2 DEF SecretHeld
    <3>4. \A o \in BurnState, j \in Job : Proposing(j, o)' =>
            /\ Proposing(j, o) /\ job'[j].secret = job[j].secret
            /\ job'[j].pc # "propose" => job[j].pc # "propose"
            /\ \/ job'[j] = job[j]
               \/ j = i /\ o[1] = b /\ job'[j].secret = t.secret
      BY <2>3, StateOf DEF Proposing, Held
    <3>5. ASSUME NEW o \in BurnState PROVE ProposalHeld(o)'
      <4>1. SUFFICES ASSUME NEW j \in Job, Proposing(j, o)'
            PROVE  /\ burnEntry'[o].tracked
                   /\ \A k \in Job : Proposing(k, o)' => k = j
                   /\ job'[j].pc # "propose" => burnEntry'[o].secret = job'[j].secret /\ job'[j].secret # 0
                   /\ job'[j].pc = "mined" => hash'[o[1]] = job'[j].secret /\ ~Early(o[1])'
        BY DEF ProposalHeld
      <4>2. ProposalHeld(o) /\ Proposing(j, o) /\ o[1] \in Burn
        BY <3>2, <3>4, <3>5, <4>1, StateOf
      <4>3. /\ burnEntry[o].tracked
            /\ \A k \in Job : Proposing(k, o) => k = j
            /\ job[j].pc # "propose" => burnEntry[o].secret = job[j].secret /\ job[j].secret # 0
            /\ job[j].pc = "mined" => hash[o[1]] = job[j].secret /\ ~Early(o[1])
        BY <4>2 DEF ProposalHeld
      <4>4. \A k \in Job : Proposing(k, o)' => k = j
        BY <3>4, <3>5, <4>3
      <4>5. job'[j].pc # "propose" => burnEntry'[o].secret = job'[j].secret /\ job'[j].secret # 0
        BY <1>8, <3>4, <3>5, <4>1, <4>3
      <4>6. job'[j].pc = "mined" => hash'[o[1]] = job'[j].secret /\ ~Early(o[1])'
        <5>1. CASE job'[j] = job[j] /\ o[1] = b
          BY <1>8, <4>3, <5>1
        <5>2. CASE job'[j] = job[j] /\ o[1] # b
          BY <2>2, <2>4, <4>2, <4>3, <5>2 DEF StaysLate
        <5>3. CASE job'[j] # job[j]
          BY <2>2, <2>4, <3>4, <3>5, <4>1, <5>3
        <5>4. QED BY <5>1, <5>2, <5>3
      <4>7. QED BY <1>8, <4>3, <4>4, <4>5, <4>6
    <3>6. ASSUME NEW c \in Burn PROVE SecretHeld(c)'
      <4>1. \A j \in Job : Pays(j, c)' => Pays(j, c)
        BY <2>3 DEF Pays
      <4>2. PayDue(c)' => PayDue(c)
        BY <1>4, <4>1 DEF PayDue, Timed
      <4>3. CASE c = b
        BY <1>8, <3>3, <4>2, <4>3 DEF SecretHeld
      <4>4. CASE c # b
        BY <1>8, <2>2, <2>4, <3>2, <4>2, <4>4 DEF SecretHeld, StaysLate
      <4>5. QED BY <4>3, <4>4
    <3>7. RecoveryHeld'
      <4>1. /\ \A c \in Burn : burnFile[c].secret # 0 => burnFile'[c].secret # 0
            /\ \A c \in Burn : Unrecovered(c) => Unrecovered(c)'
            /\ \A o \in BurnState : burnEntry'[o].tracked => burnEntry[o].tracked
        BY <1>8 DEF Unrecovered
      <4>2. UNCHANGED <<running, recovery>>
        BY <1>4
      <4>3. QED BY <1>1, <1>5, <3>1, <3>2, <4>1, <4>2, RecoveryQuiet
    <3>8. QED BY <3>5, <3>6, <3>7
  <2>9. QED BY <2>6, <2>7, <2>8 DEF LpBurnsInv
<1>9. QED BY <1>1, <1>2, <1>3, <1>7, <1>8, MineParts

-----------------------------------------------------------------------------
\* The theorems

LEMMA LpBurnsInitInv == LpBurnsInit => LpBurnsInv
<1> SUFFICES ASSUME LpBurnsInit PROVE LpBurnsInv
  OBVIOUS
<1>1. PICK f : f = FALSE
  OBVIOUS
<1>2. NoBurn = [status |-> "INVALID", clock |-> "open", userSecret |-> f, lpSecret |-> f, abandoned |-> f]
  BY <1>1 DEF NoBurn
<1>3. f \in BOOLEAN
  BY <1>1
<1>4. NoBurn \in BurnRec /\ NoSaved \in SavedRec /\ NoSaved.secret = 0
  BY <1>2, <1>3, NoSavedRec DEF BurnRec
<1>5. /\ burn = [b \in Burn |-> NoBurn] /\ hash = [b \in Burn |-> 0] /\ sent = [b \in Burn |-> 0]
      /\ burnTxs = {} /\ running = TRUE /\ recovery = NoRecovery /\ sendTimer = {}
      /\ burnEntry = [o \in BurnState |-> NoBurnEntry] /\ job = [j \in Job |-> NoJob]
      /\ burnFile = [b \in Burn |-> NoSaved]
      /\ trouble = [crashes |-> 0, faults |-> 0, unsure |-> 0, unsaved |-> 0, calls |-> 0]
  BY DEF LpBurnsInit, BurnInit
<1>6. \A j \in Job : job[j] = NoJob /\ job[j].pc = "idle"
  BY <1>5, NoJobFields
<1>7. JobTypes
  BY <1>5, <1>6, NoJobFields DEF JobTypes
<1>8. trouble \in TroubleRec
  BY <1>5 DEF TroubleRec
<1>9. BurnTypes
  BY <1>4, <1>5, <1>7, <1>8, NoBurnEntryRec, NoRecoveryRec DEF BurnTypes
<1>10. /\ \A b \in Burn, j \in Job : ~Paying(j, b) /\ ~Pays(j, b)
       /\ \A o \in BurnState, j \in Job : ~Proposing(j, o)
       /\ \A b \in Burn : Timed(b) = {}
  BY <1>5, <1>6 DEF Paying, Proposing, Pays, Timed
<1>11. OnceInv
  BY <1>5, <1>10, NoRecoveryRec DEF OnceInv, OnePayment, Recovered
<1>12. KeptInv
  BY <1>4, <1>5, <1>10, NoRecoveryRec DEF KeptInv, ProposalHeld, SecretHeld, PayDue, RecoveryHeld
<1>13. QED BY <1>9, <1>11, <1>12 DEF LpBurnsInv

LEMMA LpBurnsNextInv == LpBurnsInv /\ [LpBurnsNext]_burnVars => LpBurnsInv'
<1>1. SUFFICES ASSUME LpBurnsInv, [LpBurnsNext]_burnVars PROVE LpBurnsInv'
  OBVIOUS
<1>2. CASE UNCHANGED burnVars
  <2>1. /\ UNCHANGED <<burn, hash, sent, burnTxs, running, recovery, overtaken, burnEntry, job>>
        /\ UNCHANGED <<sendTimer, burnFile, trouble>>
    BY <1>2 DEF burnVars, burnChain, burnServer
  <2>2. BurnTypes /\ HubTypes /\ EntryTypes /\ FileTypes /\ JobTypes /\ trouble \in TroubleRec
    BY <1>1, BurnTypesParts DEF LpBurnsInv
  <2>3. /\ HubTypes' /\ StaysLate /\ EntryTypes' /\ EntriesKept /\ FileTypes' /\ FilesKept
        /\ TroubleGrows
    BY <2>1, <2>2, HubSame, EntriesSame, FilesSame, NoTroubleStep
  <2>4. JobTypes' /\ \A j \in Job : JobQuiet(j)
    BY <2>1, <2>2 DEF JobTypes, JobQuiet
  <2>5. BurnTypes'
    BY <2>1, <2>2, <2>3, <2>4 DEF BurnTypes, HubTypes, EntryTypes, FileTypes, TroubleGrows
  <2>6. QED BY <1>1, <2>1, <2>3, <2>4, <2>5, BurnQuiet
<1>3. CASE \E j \in Job : \/ TakeBurnSecret(j) \/ Send(j) \/ Proposed(j) \/ SendXmr(j)
                          \/ RecordXmr(j)
  BY <1>1, <1>3, TakeBurnSecretInv, SendInv, ProposedInv, SendXmrInv, RecordXmrInv
<1>4. CASE \E j \in Job : \/ XmrFailed(j) \/ CheckRevealed(j) \/ Revealed(j) \/ Settled(j)
                          \/ SweepShared(j)
  BY <1>1, <1>4, XmrFailedInv, CheckRevealedInv, RevealedInv, SettledInv, SweepSharedInv
<1>5. CASE \E b \in Burn : \/ HandleRequest(b) \/ HandleCommitted(b) \/ HandleEnded(b)
                           \/ HandleSwept(b) \/ AbandonStale(b) \/ AskStatus(b)
  BY <1>1, <1>5, HandleRequestInv, HandleCommittedInv, HandleEndedInv, HandleSweptInv,
     AbandonStaleInv, AskStatusInv
<1>6. CASE \E b \in Burn : \E k \in {"event", "recovery"}, n \in 1 .. SendRetryMax :
             SendTimerFires(b, k, n)
  BY <1>1, <1>6, SendTimerFiresInv
<1>7. CASE \E b \in Burn : OperateBurn(b) \/ OperatorEnds(b) \/ ProposePast(b) \/ OthersBurn(b)
  BY <1>1, <1>7, OperateBurnInv, OperatorEndsInv, ProposePastInv, OthersBurnInv
<1>8. CASE \E t \in burnTxs : MineBurnTx(t)
  BY <1>1, <1>8, MineBurnTxInv
<1>9. CASE RecoverySteps \/ CrashBurns \/ StartBurns
  BY <1>1, <1>9, ScanRequestsInv, AnswerStatusInv, RehydrateInv, CrashBurnsInv, StartBurnsInv
  DEF RecoverySteps
<1>10. QED
  BY <1>1, <1>2, <1>3, <1>4, <1>5, <1>6, <1>7, <1>8, <1>9
  DEF LpBurnsNext, JobSteps, BurnServerSteps

\* What the LP server knows of its burns holds in every state of it.
THEOREM LpBurnsInvariant == LpServerSpec => []LpBurnsInv
<1>1. LpServerInit => LpBurnsInv
  BY LpBurnsInitInv DEF LpServerInit
<1>2. LpBurnsInv /\ [LpServerNext]_lpVars => LpBurnsInv'
  <2>1. [LpServerNext]_lpVars => [LpBurnsNext]_burnVars
    BY DEF LpServerNext, lpVars, restVars
  <2>2. QED BY <2>1, LpBurnsNextInv
<1>3. QED BY <1>1, <1>2, PTL DEF LpServerSpec

\* No retry and no concurrent call pays a burn a second time: for any number of
\* burns, calls, retries and failures, unless the server crashes or the answer of
\* the wallet is lost.
THEOREM BurnsPaidOnce == LpServerSpec => []PaidOnce
<1>1. LpBurnsInv => PaidOnce
  BY DEF LpBurnsInv, OnceInv, OnePayment, PaidOnce
<1>2. QED BY <1>1, LpBurnsInvariant, PTL

\* The XMR goes to the key of the hash on the chain, and its secret is on the disk:
\* over any number of crashes and failures.
THEOREM PaidSecretsKept == LpServerSpec => []PaidSecretKept
<1>1. ASSUME LpBurnsInv PROVE PaidSecretKept
  <2>1. SUFFICES ASSUME trouble.unsaved + trouble.calls = 0, NEW b \in Burn, sent[b] > 0
        PROVE  hash[b] # 0 /\ burnFile[b].secret = hash[b]
    BY DEF PaidSecretKept
  <2>2. SecretHeld(b) /\ PayDue(b)
    BY <1>1, <2>1 DEF LpBurnsInv, KeptInv, PayDue
  <2>3. QED BY <2>2 DEF SecretHeld
<1>2. QED BY <1>1, LpBurnsInvariant, PTL

-----------------------------------------------------------------------------
\* The mints: types.

MintRec == [status : {"INVALID", "SECRET_REVEALED"} \cup MintWaiting \cup MintEnded,
            expired : BOOLEAN, userSecret : BOOLEAN, lpSecret : BOOLEAN]
MintEntryRec == [tracked : BOOLEAN, known : BOOLEAN, processing : BOOLEAN, keyPosted : BOOLEAN,
                 error : BOOLEAN, finalizing : BOOLEAN, sweeping : BOOLEAN, swept : BOOLEAN,
                 secret : Nat, retries : Nat]
FileRec == [secret : Nat, swept : BOOLEAN, unrecoverable : BOOLEAN]
RunStates == {"idle", "status", "secret", "send", "wait", "mined", "posted", "scan", "finalize",
              "ready", "readywait", "throw"}
RunRec == [pc : RunStates, mint : Mint \cup {Idle.mint}, key : Nat, secret : Nat,
           status : {"UNKNOWN", "PENDING"} \cup Keyed, known : BOOLEAN,
           by : {"none", "event", "recovery", "timer", "periodic", "manual"}, attempt : Nat]
MintTxRec == [kind : {"provide", "ready"}, mint : Mint, key : Nat, run : Run]
CountRec == [crashes : Nat, faults : Nat, unsaved : Nat, drops : Nat, calls : Nat, refusals : Nat]

HubMintTypes == mint \in [Mint -> MintRec]
RunTypes == run \in [Run -> RunRec] /\ \A i \in Run : run[i].pc # "idle" => run[i].mint \in Mint
MintEntryTypes == entry \in [Mint -> MintEntryRec]
DiskTypes == disk \in [Mint -> FileRec]

LpMintTypes ==
  /\ HubMintTypes /\ RunTypes /\ MintEntryTypes /\ DiskTypes
  /\ {snapshot, copy} \subseteq [Mint -> FileRec]
  /\ posted \in [Mint -> Nat] /\ paid \in [Mint -> Nat] /\ swept \in [Mint -> BOOLEAN]
  /\ txs \subseteq MintTxRec /\ count \in CountRec

-----------------------------------------------------------------------------
\* DepositsMatched

\* The file, and both copies of it, say swept only of what is.
SweptInv ==
  \A m \in Mint : disk[m].swept \/ snapshot[m].swept \/ copy[m].swept =>
                    swept[m] \/ mint[m].status = "CANCELLED"

Ended(m) == mint[m].status \in MintEnded
Unkeyed(m) == mint[m].status \in {"INVALID", "PENDING"}

\* The deposit is there, or the file once lacked the secret of the key, or there is no
\* looking for the deposit.
Covered(m) == ~Unkeyed(m) /\ (paid[m] = posted[m] \/ m \in lost \/ ~Verifiable(m))

\* What a run knows of a request that has not ended: it knows the address, it asks
\* for the key it has the secret of or works with the key on the chain, and it sets
\* ready what is covered.
RunSound(i) ==
  LET r == run[i]
      m == r.mint IN
  /\ r.known /\ entry[m].known
  /\ r.pc = "status" => (r.secret = r.key /\ r.key # 0) \/ ~Unkeyed(m)
  /\ r.pc = "secret" => \/ r.status \in Keyed /\ r.key = posted[m] /\ ~Unkeyed(m)
                        \/ r.status = "PENDING" /\ r.secret = r.key /\ r.key # 0
  /\ r.pc \in {"send", "wait"} => r.secret = r.key /\ r.key # 0
  /\ r.pc \in {"mined", "posted"} =>
       ~Unkeyed(m) /\ r.key = posted[m] /\ (r.secret = r.key \/ m \in lost)
  /\ r.pc = "scan" => ~Unkeyed(m) /\ r.key = posted[m]
  /\ r.pc \in {"finalize", "ready", "readywait"} => Covered(m)

RunFine(i) == run[i].pc = "idle" \/ Ended(run[i].mint) \/ RunSound(i)

\* A key on the chain is a key; whoever reads of a cancelled request finds it so.
MintSound(m) ==
  /\ mint[m].status \in Keyed => posted[m] # 0
  /\ <<"cancelled", m>> \in unseen => mint[m].status = "CANCELLED"
  /\ entry[m].tracked => entry[m].known \/ Ended(m)
  /\ mint[m].status = "READY" => Covered(m)

TxSound(t) ==
  Ended(t.mint) \/ (IF t.kind = "provide" THEN t.key # 0 ELSE Covered(t.mint))

Clean == count.faults + count.unsaved + count.calls = 0

MintsSound ==
  /\ \A m \in Mint : MintSound(m)
  /\ \A i \in Run : RunFine(i)
  /\ \A t \in txs : TxSound(t)

DepositInv == Clean => MintsSound

LpMintsInv == LpMintTypes /\ SweptInv /\ DepositInv


-----------------------------------------------------------------------------
\* The troubles so far, the records, and what the helpers make of them.

LEMMA TroubleCounted ==
  ASSUME count \in CountRec,
         NEW kind \in {"crashes", "faults", "unsaved", "drops", "calls", "refusals"}, Trouble(kind)
  PROVE  /\ count' \in CountRec
         /\ Clean' => Clean
         /\ kind \in {"faults", "unsaved", "calls"} => ~Clean'
<1>1. /\ count.crashes \in Nat /\ count.faults \in Nat /\ count.unsaved \in Nat
      /\ count.drops \in Nat /\ count.calls \in Nat /\ count.refusals \in Nat
  BY DEF CountRec
<1>2. count' = [count EXCEPT ![kind] = @ + 1]
  BY DEF Trouble
<1>3. CASE kind = "crashes"
  <2>1. PICK c : c = [count EXCEPT !.crashes = @ + 1]
    OBVIOUS
  <2>2. count' = c
    BY <1>2, <1>3, <2>1
  <2>3. c \in CountRec /\ c.faults = count.faults /\ c.unsaved = count.unsaved /\ c.calls = count.calls
    BY <1>1, <2>1 DEF CountRec
  <2>4. QED BY <1>3, <2>2, <2>3 DEF Clean
<1>4. CASE kind = "drops"
  <2>1. PICK c : c = [count EXCEPT !.drops = @ + 1]
    OBVIOUS
  <2>2. count' = c
    BY <1>2, <1>4, <2>1
  <2>3. c \in CountRec /\ c.faults = count.faults /\ c.unsaved = count.unsaved /\ c.calls = count.calls
    BY <1>1, <2>1 DEF CountRec
  <2>4. QED BY <1>4, <2>2, <2>3 DEF Clean
<1>5. CASE kind = "faults"
  <2>1. PICK c : c = [count EXCEPT !.faults = @ + 1]
    OBVIOUS
  <2>2. count' = c
    BY <1>2, <1>5, <2>1
  <2>3. c \in CountRec /\ c.faults = count.faults + 1 /\ c.unsaved = count.unsaved
        /\ c.calls = count.calls
    BY <1>1, <2>1 DEF CountRec
  <2>4. QED BY <1>1, <2>2, <2>3 DEF Clean
<1>6. CASE kind = "unsaved"
  <2>1. PICK c : c = [count EXCEPT !.unsaved = @ + 1]
    OBVIOUS
  <2>2. count' = c
    BY <1>2, <1>6, <2>1
  <2>3. c \in CountRec /\ c.faults = count.faults /\ c.unsaved = count.unsaved + 1
        /\ c.calls = count.calls
    BY <1>1, <2>1 DEF CountRec
  <2>4. QED BY <1>1, <2>2, <2>3 DEF Clean
<1>7. CASE kind = "calls"
  <2>1. PICK c : c = [count EXCEPT !.calls = @ + 1]
    OBVIOUS
  <2>2. count' = c
    BY <1>2, <1>7, <2>1
  <2>3. c \in CountRec /\ c.faults = count.faults /\ c.unsaved = count.unsaved
        /\ c.calls = count.calls + 1
    BY <1>1, <2>1 DEF CountRec
  <2>4. QED BY <1>1, <2>2, <2>3 DEF Clean
<1>8. CASE kind = "refusals"
  <2>1. PICK c : c = [count EXCEPT !.refusals = @ + 1]
    OBVIOUS
  <2>2. count' = c
    BY <1>2, <1>8, <2>1
  <2>3. c \in CountRec /\ c.faults = count.faults /\ c.unsaved = count.unsaved /\ c.calls = count.calls
    BY <1>1, <2>1 DEF CountRec
  <2>4. QED BY <1>8, <2>2, <2>3 DEF Clean
<1>9. QED BY <1>3, <1>4, <1>5, <1>6, <1>7, <1>8

LEMMA FaultCounted ==
  ASSUME count \in CountRec, Fault
  PROVE  count' \in CountRec /\ ~Clean'
BY TroubleCounted DEF Fault

LEMMA NoTrouble ==
  ASSUME count \in CountRec, UNCHANGED count
  PROVE  count' \in CountRec /\ (Clean' => Clean)
BY DEF Clean

LEMMA IdleFields ==
  /\ Idle \in RunRec /\ Idle.pc = "idle"
  /\ Idle.key = 0 /\ Idle.secret = 0 /\ Idle.attempt = 0 /\ Idle.status = "UNKNOWN"
<1>1. PICK c : c = CHOOSE m \in Mint : TRUE
  OBVIOUS
<1>2. Idle = [pc |-> "idle", mint |-> c, key |-> 0, secret |-> 0,
              status |-> "UNKNOWN", known |-> FALSE, by |-> "none", attempt |-> 0]
  BY <1>1 DEF Idle
<1>3. Idle.mint = c
  BY <1>2
<1>4. FALSE \in BOOLEAN /\ 0 \in Nat
  OBVIOUS
<1>5. QED BY <1>2, <1>3, <1>4 DEF RunRec, RunStates

LEMMA EmptyEntries ==
  /\ NoEntry \in MintEntryRec /\ ~NoEntry.tracked /\ ~NoEntry.known
  /\ NewEntry \in MintEntryRec /\ NewEntry.tracked /\ NewEntry.known
  /\ NoFile \in FileRec /\ ~NoFile.swept /\ NoFile.secret = 0
<1>1. PICK f \in BOOLEAN : f = FALSE
  OBVIOUS
<1>2. PICK t \in BOOLEAN : t = TRUE
  OBVIOUS
<1>3. PICK z \in Nat : z = 0
  OBVIOUS
<1>4. NoEntry = [tracked |-> f, known |-> f, processing |-> f, keyPosted |-> f, error |-> f,
                 finalizing |-> f, sweeping |-> f, swept |-> f, secret |-> z, retries |-> z]
  BY <1>1, <1>3 DEF NoEntry
<1>5. NoEntry \in MintEntryRec /\ NoEntry.tracked = f /\ NoEntry.known = f
  BY <1>4 DEF MintEntryRec
<1>6. PICK e : e = [NoEntry EXCEPT !.tracked = t, !.known = t, !.processing = t]
  OBVIOUS
<1>7. NewEntry = e
  BY <1>2, <1>6 DEF NewEntry
<1>8. e \in MintEntryRec /\ e.tracked = t /\ e.known = t
  BY <1>5, <1>6 DEF MintEntryRec
<1>9. NoFile = [secret |-> z, swept |-> f, unrecoverable |-> f]
  BY <1>1, <1>3 DEF NoFile
<1>10. NoFile \in FileRec /\ NoFile.swept = f /\ NoFile.secret = z
  BY <1>9 DEF FileRec
<1>11. QED BY <1>1, <1>2, <1>3, <1>5, <1>7, <1>8, <1>10

LEMMA RunFields ==
  ASSUME RunTypes, NEW i \in Run
  PROVE  /\ run[i] \in RunRec /\ run[i].pc \in RunStates
         /\ run[i].pc # "idle" => run[i].mint \in Mint
         /\ run[i].key \in Nat /\ run[i].secret \in Nat /\ run[i].attempt \in Nat
         /\ run[i].status \in {"UNKNOWN", "PENDING"} \cup Keyed /\ run[i].known \in BOOLEAN
BY DEF RunTypes, RunRec

LEMMA EntryFields ==
  ASSUME MintEntryTypes, NEW m \in Mint
  PROVE  /\ entry[m] \in MintEntryRec /\ entry[m].secret \in Nat /\ entry[m].retries \in Nat
         /\ entry[m].tracked \in BOOLEAN /\ entry[m].known \in BOOLEAN
BY DEF MintEntryTypes, MintEntryRec

LEMMA GoesRun ==
  ASSUME RunTypes, NEW i \in Run, NEW r \in RunRec, r.pc # "idle" => r.mint \in Mint, Goes(i, r)
  PROVE  RunTypes' /\ run'[i] = r /\ \A j \in Run : j # i => run'[j] = run[j]
<1>1. /\ run' \in [Run -> RunRec] /\ run'[i] = r
      /\ \A j \in Run : j # i => run'[j] = run[j]
  BY DEF RunTypes, Goes
<1>2. QED BY <1>1 DEF RunTypes

LEMMA EnterEntry ==
  ASSUME MintEntryTypes, NEW m \in Mint, NEW e \in MintEntryRec, Enter(m, e)
  PROVE  MintEntryTypes' /\ entry'[m] = e /\ \A n \in Mint : n # m => entry'[n] = entry[n]
BY DEF MintEntryTypes, Enter

\* A fresh key is a key.
LEMMA FreshIsKey ==
  ASSUME FreshKeys # {}
  PROVE  FreshKey \in Nat \ {0}
<1>1. FreshKeys \subseteq Nat \ {0}
  BY LpMintsAssumption DEF FreshKeys
<1>2. FreshKeys \subseteq Nat
  BY <1>1
<1>3. \E k \in FreshKeys : \A l \in FreshKeys : k <= l
  BY <1>2, LeastNat
<1>4. FreshKey \in FreshKeys
  BY <1>3 DEF FreshKey
<1>5. QED BY <1>1, <1>4


-----------------------------------------------------------------------------
\* What a step may do to a request, and what it must keep.

Forward(m) ==
  /\ Ended(m) => Ended(m)'
  /\ ~Unkeyed(m) => ~Unkeyed(m)' /\ posted'[m] = posted[m]
  /\ Covered(m) => Covered(m)'
  /\ m \in lost => m \in lost'

EntryForward(m) ==
  \/ entry'[m].known \/ Ended(m)'
  \/ entry'[m].known = entry[m].known /\ entry'[m].tracked = entry[m].tracked

LEMMA RunKept ==
  ASSUME NEW i \in Run, run'[i] = run[i], RunTypes, RunFine(i),
         \A m \in Mint : Forward(m), \A m \in Mint : EntryForward(m)
  PROVE  RunFine(i)'
<1>1. CASE run[i].pc = "idle"
  BY <1>1 DEF RunFine
<1>2. CASE run[i].pc # "idle"
  <2>1. PICK r : r = run[i]
    OBVIOUS
  <2>2. PICK m : m = r.mint
    OBVIOUS
  <2>3. m \in Mint
    BY <1>2, <2>1, <2>2, RunFields
  <2>4. Forward(m) /\ EntryForward(m)
    BY <2>3
  <2>5. CASE Ended(m)'
    BY <2>1, <2>2, <2>5 DEF RunFine
  <2>6. CASE ~Ended(m)'
    <3>1. ~Ended(m) /\ RunSound(i)
      BY <1>2, <2>1, <2>2, <2>4, <2>6 DEF Forward, RunFine
    <3>2. r.known /\ entry[m].known
      BY <2>1, <2>2, <3>1 DEF RunSound
    <3>3. entry'[m].known
      BY <2>4, <2>6, <3>2 DEF EntryForward
    <3>4. /\ r.pc = "status" => (r.secret = r.key /\ r.key # 0) \/ ~Unkeyed(m)
          /\ r.pc = "secret" => \/ r.status \in Keyed /\ r.key = posted[m] /\ ~Unkeyed(m)
                                \/ r.status = "PENDING" /\ r.secret = r.key /\ r.key # 0
          /\ r.pc \in {"send", "wait"} => r.secret = r.key /\ r.key # 0
          /\ r.pc \in {"mined", "posted"} =>
               ~Unkeyed(m) /\ r.key = posted[m] /\ (r.secret = r.key \/ m \in lost)
          /\ r.pc = "scan" => ~Unkeyed(m) /\ r.key = posted[m]
          /\ r.pc \in {"finalize", "ready", "readywait"} => Covered(m)
      BY <2>1, <2>2, <3>1 DEF RunSound
    <3>5. /\ r.pc = "status" => (r.secret = r.key /\ r.key # 0) \/ ~Unkeyed(m)'
          /\ r.pc = "secret" => \/ r.status \in Keyed /\ r.key = posted'[m] /\ ~Unkeyed(m)'
                                \/ r.status = "PENDING" /\ r.secret = r.key /\ r.key # 0
          /\ r.pc \in {"send", "wait"} => r.secret = r.key /\ r.key # 0
          /\ r.pc \in {"mined", "posted"} =>
               ~Unkeyed(m)' /\ r.key = posted'[m] /\ (r.secret = r.key \/ m \in lost')
          /\ r.pc = "scan" => ~Unkeyed(m)' /\ r.key = posted'[m]
          /\ r.pc \in {"finalize", "ready", "readywait"} => Covered(m)'
      BY <2>4, <3>4 DEF Forward
    <3>6. run'[i] = r /\ run'[i].mint = m
      BY <2>1, <2>2
    <3>7. RunSound(i)'
      BY <3>2, <3>3, <3>5, <3>6 DEF RunSound
    <3>8. QED BY <3>7 DEF RunFine
  <2>7. QED BY <2>5, <2>6
<1>3. QED BY <1>1, <1>2

\* Any step: what it does not change stays sound.
LEMMA MintStepInv ==
  ASSUME LpMintsInv, LpMintTypes', SweptInv', Clean' => Clean,
         Clean' =>
           /\ \A m \in Mint : Forward(m)
           /\ \A m \in Mint : EntryForward(m)
           /\ \A m \in Mint : MintSound(m)'
           /\ \A i \in Run : run'[i] = run[i] \/ RunFine(i)'
           /\ \A t \in txs' : t \in txs \/ TxSound(t)'
  PROVE  LpMintsInv'
<1>1. SUFFICES ASSUME Clean' PROVE MintsSound'
  BY DEF LpMintsInv, DepositInv
<1>2. MintsSound /\ LpMintTypes
  BY <1>1 DEF LpMintsInv, DepositInv
<1>3. RunTypes
  BY <1>2 DEF LpMintTypes
<1>4. \A i \in Run : RunFine(i)'
  <2>1. TAKE i \in Run
  <2>2. CASE run'[i] = run[i]
    <3>1. RunFine(i)
      BY <1>2 DEF MintsSound
    <3>2. QED BY <1>1, <1>3, <2>2, <3>1, RunKept
  <2>3. QED BY <1>1, <2>2
<1>5. \A t \in txs' : TxSound(t)'
  <2>1. TAKE t \in txs'
  <2>2. CASE t \in txs
    <3>1. t.mint \in Mint /\ TxSound(t)
      BY <1>2, <2>2 DEF LpMintTypes, MintTxRec, MintsSound
    <3>2. Forward(t.mint)
      BY <1>1, <3>1
    <3>3. QED BY <3>1, <3>2 DEF TxSound, Forward
  <2>3. QED BY <1>1, <2>2
<1>6. \A m \in Mint : MintSound(m)'
  BY <1>1
<1>7. QED BY <1>4, <1>5, <1>6 DEF MintsSound

\* A step of the server that leaves the hub alone.
HubAlone ==
  /\ UNCHANGED <<mint, posted, paid, given>>
  /\ \A m \in Mint : m \in lost => m \in lost'
  /\ \A e \in unseen' : e \in unseen

LEMMA HubAloneForward ==
  ASSUME HubAlone, NEW m \in Mint
  PROVE  /\ Forward(m) /\ Ended(m)' = Ended(m) /\ Unkeyed(m)' = Unkeyed(m)
         /\ MintSound(m) /\ EntryForward(m) => MintSound(m)'
<1>1. /\ mint'[m] = mint[m] /\ posted'[m] = posted[m] /\ paid'[m] = paid[m]
      /\ m \in lost => m \in lost'
      /\ <<"cancelled", m>> \in unseen' => <<"cancelled", m>> \in unseen
  BY DEF HubAlone
<1>2. Ended(m)' = Ended(m) /\ Unkeyed(m)' = Unkeyed(m)
  BY <1>1 DEF Ended, Unkeyed
<1>3. Covered(m) => Covered(m)'
  BY <1>1, <1>2 DEF Covered, Verifiable, HubAlone
<1>4. Forward(m)
  BY <1>1, <1>2, <1>3 DEF Forward
<1>5. ASSUME MintSound(m), EntryForward(m) PROVE MintSound(m)'
  BY <1>1, <1>2, <1>3, <1>5 DEF MintSound, EntryForward
<1>6. QED BY <1>2, <1>4, <1>5

LEMMA ServerStepInv ==
  ASSUME LpMintsInv, HubAlone, LpMintTypes', SweptInv', Clean' => Clean,
         Clean' =>
           /\ \A m \in Mint : EntryForward(m)
           /\ \A i \in Run : run'[i] = run[i] \/ RunFine(i)'
           /\ \A t \in txs' : t \in txs \/ TxSound(t)'
  PROVE  LpMintsInv'
<1>1. \A m \in Mint : Forward(m)
  BY HubAloneForward
<1>2. ASSUME Clean' PROVE \A m \in Mint : MintSound(m)'
  <2>1. \A m \in Mint : MintSound(m)
    BY <1>2 DEF LpMintsInv, DepositInv, MintsSound
  <2>2. QED BY <1>2, <2>1, HubAloneForward
<1>3. QED BY <1>1, <1>2, MintStepInv

\* What the marks say depends on nothing else.
LEMMA MarksKept ==
  ASSUME SweptInv, UNCHANGED <<mint, swept, snapshot, copy>>,
         \A m \in Mint : disk'[m].swept = disk[m].swept
  PROVE  SweptInv'
BY DEF SweptInv

\* A step of a run: it changes itself, perhaps the entry of its request, the secret
\* in the file and the transactions under way.
LEMMA RunStepInv ==
  ASSUME LpMintsInv, HubAlone, UNCHANGED <<swept, snapshot, copy>>,
         NEW i \in Run, NEW r \in RunRec, r.pc # "idle" => r.mint \in Mint, Goes(i, r),
         NEW m \in Mint, NEW e \in MintEntryRec, Enter(m, e) \/ UNCHANGED entry,
         disk' \in [Mint -> FileRec], \A n \in Mint : disk'[n].swept = disk[n].swept,
         txs' \subseteq MintTxRec, count' \in CountRec, Clean' => Clean,
         Clean' =>
           /\ UNCHANGED entry \/ e.known \/ Ended(m)
           /\ RunFine(i)'
           /\ \A t \in txs' : t \in txs \/ TxSound(t)'
  PROVE  LpMintsInv'
<1>1. LpMintTypes /\ SweptInv
  BY DEF LpMintsInv
<1>2. RunTypes' /\ \A j \in Run : j # i => run'[j] = run[j]
  BY <1>1, GoesRun DEF LpMintTypes
<1>3. /\ MintEntryTypes'
      /\ UNCHANGED entry \/ (entry'[m] = e /\ \A n \in Mint : n # m => entry'[n] = entry[n])
  <2>1. CASE UNCHANGED entry
    BY <1>1, <2>1 DEF LpMintTypes, MintEntryTypes
  <2>2. CASE Enter(m, e)
    BY <1>1, <2>2, EnterEntry DEF LpMintTypes
  <2>3. QED BY <2>1, <2>2
<1>4. SweptInv'
  BY <1>1, MarksKept DEF HubAlone
<1>5. LpMintTypes'
  BY <1>1, <1>2, <1>3 DEF LpMintTypes, HubAlone, HubMintTypes, DiskTypes
<1>6. ASSUME Clean' PROVE \A n \in Mint : EntryForward(n)
  <2>1. TAKE n \in Mint
  <2>2. CASE UNCHANGED entry
    BY <2>2 DEF EntryForward
  <2>3. CASE entry' # entry /\ n = m
    <3>1. (e.known \/ Ended(m)) /\ entry'[m] = e
      BY <1>3, <1>6, <2>3
    <3>2. Ended(m)' = Ended(m)
      BY HubAloneForward
    <3>3. QED BY <2>3, <3>1, <3>2 DEF EntryForward
  <2>4. CASE entry' # entry /\ n # m
    BY <1>3, <2>4 DEF EntryForward
  <2>5. QED BY <2>2, <2>3, <2>4
<1>7. ASSUME Clean' PROVE \A j \in Run : run'[j] = run[j] \/ RunFine(j)'
  BY <1>2, <1>7
<1>8. QED BY <1>4, <1>5, <1>6, <1>7, ServerStepInv


-----------------------------------------------------------------------------
\* What becomes of an entry.

Failed(e) == [e EXCEPT !.tracked = TRUE, !.error = TRUE, !.processing = FALSE]
KeyNoted(e) == [e EXCEPT !.keyPosted = TRUE]
ErrorNoted(e) == [e EXCEPT !.error = TRUE]
Finalizing(e) == [e EXCEPT !.finalizing = TRUE]
Busy(e) == [e EXCEPT !.processing = TRUE]
Retried(e) == [e EXCEPT !.retries = @ + 1, !.processing = TRUE, !.error = FALSE]
Sweeping(e) == [e EXCEPT !.sweeping = TRUE]
SweepOver(e) == [e EXCEPT !.sweeping = FALSE]
SweptAway(e) == [e EXCEPT !.swept = TRUE, !.sweeping = FALSE]

Keeps(e, d) == d \in MintEntryRec /\ d.known = e.known /\ d.tracked = e.tracked

LEMMA EntryChanges ==
  ASSUME NEW e \in MintEntryRec
  PROVE  /\ Failed(e) \in MintEntryRec /\ Failed(e).known = e.known
         /\ Keeps(e, KeyNoted(e))
         /\ Keeps(e, ErrorNoted(e))
         /\ Keeps(e, Finalizing(e))
         /\ Keeps(e, Busy(e))
         /\ Keeps(e, Retried(e))
         /\ Keeps(e, Sweeping(e))
         /\ Keeps(e, SweepOver(e))
         /\ Keeps(e, SweptAway(e))
<1>1. PICK t \in BOOLEAN : t = TRUE
  OBVIOUS
<1>2. PICK f \in BOOLEAN : f = FALSE
  OBVIOUS
<1>3. PICK n \in Nat : n = e.retries + 1
  BY DEF MintEntryRec
<1>4. Failed(e) \in MintEntryRec /\ Failed(e).known = e.known
  <2>1. PICK d : d = [e EXCEPT !.tracked = t, !.error = t, !.processing = f]
    OBVIOUS
  <2>2. d \in MintEntryRec /\ d.known = e.known
    BY <2>1 DEF MintEntryRec
  <2>3. Failed(e) = d
    BY <1>1, <1>2, <1>3, <2>1 DEF Failed
  <2>4. QED BY <2>2, <2>3
<1>5. Keeps(e, KeyNoted(e))
  <2>1. PICK d : d = [e EXCEPT !.keyPosted = t]
    OBVIOUS
  <2>2. d \in MintEntryRec /\ d.known = e.known /\ d.tracked = e.tracked
    BY <2>1 DEF MintEntryRec
  <2>3. KeyNoted(e) = d
    BY <1>1, <1>2, <1>3, <2>1 DEF KeyNoted
  <2>4. QED BY <2>2, <2>3 DEF Keeps
<1>6. Keeps(e, ErrorNoted(e))
  <2>1. PICK d : d = [e EXCEPT !.error = t]
    OBVIOUS
  <2>2. d \in MintEntryRec /\ d.known = e.known /\ d.tracked = e.tracked
    BY <2>1 DEF MintEntryRec
  <2>3. ErrorNoted(e) = d
    BY <1>1, <1>2, <1>3, <2>1 DEF ErrorNoted
  <2>4. QED BY <2>2, <2>3 DEF Keeps
<1>7. Keeps(e, Finalizing(e))
  <2>1. PICK d : d = [e EXCEPT !.finalizing = t]
    OBVIOUS
  <2>2. d \in MintEntryRec /\ d.known = e.known /\ d.tracked = e.tracked
    BY <2>1 DEF MintEntryRec
  <2>3. Finalizing(e) = d
    BY <1>1, <1>2, <1>3, <2>1 DEF Finalizing
  <2>4. QED BY <2>2, <2>3 DEF Keeps
<1>8. Keeps(e, Busy(e))
  <2>1. PICK d : d = [e EXCEPT !.processing = t]
    OBVIOUS
  <2>2. d \in MintEntryRec /\ d.known = e.known /\ d.tracked = e.tracked
    BY <2>1 DEF MintEntryRec
  <2>3. Busy(e) = d
    BY <1>1, <1>2, <1>3, <2>1 DEF Busy
  <2>4. QED BY <2>2, <2>3 DEF Keeps
<1>9. Keeps(e, Retried(e))
  <2>1. PICK d : d = [e EXCEPT !.retries = n, !.processing = t, !.error = f]
    OBVIOUS
  <2>2. d \in MintEntryRec /\ d.known = e.known /\ d.tracked = e.tracked
    BY <2>1 DEF MintEntryRec
  <2>3. Retried(e) = d
    BY <1>1, <1>2, <1>3, <2>1 DEF Retried
  <2>4. QED BY <2>2, <2>3 DEF Keeps
<1>10. Keeps(e, Sweeping(e))
  <2>1. PICK d : d = [e EXCEPT !.sweeping = t]
    OBVIOUS
  <2>2. d \in MintEntryRec /\ d.known = e.known /\ d.tracked = e.tracked
    BY <2>1 DEF MintEntryRec
  <2>3. Sweeping(e) = d
    BY <1>1, <1>2, <1>3, <2>1 DEF Sweeping
  <2>4. QED BY <2>2, <2>3 DEF Keeps
<1>11. Keeps(e, SweepOver(e))
  <2>1. PICK d : d = [e EXCEPT !.sweeping = f]
    OBVIOUS
  <2>2. d \in MintEntryRec /\ d.known = e.known /\ d.tracked = e.tracked
    BY <2>1 DEF MintEntryRec
  <2>3. SweepOver(e) = d
    BY <1>1, <1>2, <1>3, <2>1 DEF SweepOver
  <2>4. QED BY <2>2, <2>3 DEF Keeps
<1>12. Keeps(e, SweptAway(e))
  <2>1. PICK d : d = [e EXCEPT !.swept = t, !.sweeping = f]
    OBVIOUS
  <2>2. d \in MintEntryRec /\ d.known = e.known /\ d.tracked = e.tracked
    BY <2>1 DEF MintEntryRec
  <2>3. SweptAway(e) = d
    BY <1>1, <1>2, <1>3, <2>1 DEF SweptAway
  <2>4. QED BY <2>2, <2>3 DEF Keeps
<1>13. QED BY <1>4, <1>5, <1>6, <1>7, <1>8, <1>9, <1>10, <1>11, <1>12

LEMMA NotedEntry ==
  ASSUME NEW r \in RunRec, entry[r.mint] \in MintEntryRec
  PROVE  Noted(r) \in MintEntryRec /\ Noted(r).known = r.known
<1>1. PICK t \in BOOLEAN : t = TRUE
  OBVIOUS
<1>2. PICK k \in BOOLEAN : k = r.known
  BY DEF RunRec
<1>3. PICK n \in Nat : n = r.secret
  BY DEF RunRec
<1>4. PICK e \in MintEntryRec : e = entry[r.mint]
  OBVIOUS
<1>5. PICK d : d = [e EXCEPT !.tracked = t, !.known = k, !.secret = n]
  OBVIOUS
<1>6. d \in MintEntryRec /\ d.known = k
  BY <1>5 DEF MintEntryRec
<1>7. Noted(r) = d
  BY <1>1, <1>2, <1>3, <1>4, <1>5 DEF Noted
<1>8. QED BY <1>2, <1>6, <1>7

LEMMA FileSecret ==
  ASSUME DiskTypes, NEW m \in Mint, NEW k \in Nat, disk' = [disk EXCEPT ![m].secret = k]
  PROVE  /\ disk' \in [Mint -> FileRec] /\ disk'[m].secret = k
         /\ \A n \in Mint : disk'[n].swept = disk[n].swept
<1>1. disk[m] \in FileRec
  BY DEF DiskTypes
<1>2. PICK f : f = [disk[m] EXCEPT !.secret = k]
  OBVIOUS
<1>3. f \in FileRec /\ f.secret = k /\ f.swept = disk[m].swept
  BY <1>1, <1>2 DEF FileRec
<1>4. disk' = [disk EXCEPT ![m] = f]
  BY <1>2
<1>5. /\ disk' \in [Mint -> FileRec] /\ disk'[m] = f
      /\ \A n \in Mint : n # m => disk'[n] = disk[n]
  BY <1>3, <1>4 DEF DiskTypes
<1>6. QED BY <1>3, <1>5

-----------------------------------------------------------------------------
\* The runs of processMint.

\* The step is the server's: the operator's script stands still, and the history
\* notes whose secret the file lacks.
LostNoted ==
  lost' = lost \cup {m \in Mint : posted'[m] # 0 /\ disk'[m].secret # posted'[m]}

LEMMA RunKnows ==
  ASSUME LpMintsInv, NEW i \in Run, run[i].pc # "idle"
  PROVE  /\ LpMintTypes /\ SweptInv /\ RunTypes /\ MintEntryTypes /\ DiskTypes
         /\ run[i] \in RunRec /\ run[i].mint \in Mint /\ entry[run[i].mint] \in MintEntryRec
         /\ posted[run[i].mint] \in Nat /\ paid[run[i].mint] \in Nat
         /\ Clean => Ended(run[i].mint) \/ RunSound(i)
<1>1. LpMintTypes /\ SweptInv /\ DepositInv
  BY DEF LpMintsInv
<1>2. RunTypes /\ MintEntryTypes /\ DiskTypes /\ posted \in [Mint -> Nat] /\ paid \in [Mint -> Nat]
  BY <1>1 DEF LpMintTypes
<1>3. run[i] \in RunRec /\ run[i].mint \in Mint
  BY <1>2, RunFields
<1>4. entry[run[i].mint] \in MintEntryRec
  BY <1>2, <1>3, EntryFields
<1>5. Clean => Ended(run[i].mint) \/ RunSound(i)
  BY <1>1 DEF DepositInv, MintsSound, RunFine
<1>6. QED BY <1>1, <1>2, <1>3, <1>4, <1>5


LEMMA LeavesHub ==
  ASSUME LostNoted, UNCHANGED <<mint, posted, paid, given, unseen>>
  PROVE  HubAlone
BY DEF LostNoted, HubAlone

LEMMA ReadStatusSound ==
  ASSUME LpMintsInv, UNCHANGED toolVars, LostNoted, NEW i \in Run, ReadStatus(i)
  PROVE  LpMintsInv'
<1>1. PICK r : r = run[i]
  OBVIOUS
<1>2. PICK m : m = r.mint
  OBVIOUS
<1>3. r.pc = "status"
  BY <1>1 DEF ReadStatus
<1>4. /\ LpMintTypes /\ RunTypes /\ MintEntryTypes /\ DiskTypes /\ count \in CountRec
      /\ r \in RunRec /\ m \in Mint /\ entry[m] \in MintEntryRec /\ posted[m] \in Nat
      /\ Clean => Ended(m) \/ RunSound(i)
  BY <1>1, <1>2, <1>3, RunKnows DEF LpMintTypes
<1>5. /\ UNCHANGED <<mint, posted, paid, given, swept, txs, unseen, snapshot, disk, copy>>
      /\ disk' \in [Mint -> FileRec] /\ txs' \subseteq MintTxRec
      /\ \A t \in txs' : t \in txs \/ TxSound(t)'
  BY <1>4 DEF ReadStatus, chainVars, toolVars, LpMintTypes, DiskTypes
<1>6. HubAlone
  BY <1>5, LeavesHub
<1>7. CASE mint[m].status \in MintEnded /\ Goes(i, Idle) /\ Enter(m, NoEntry) /\ UNCHANGED count
  <2>1. Ended(m)
    BY <1>7 DEF Ended
  <2>2. run'[i] = Idle
    BY <1>4, <1>7, IdleFields, GoesRun
  <2>3. RunFine(i)'
    BY <2>2, IdleFields DEF RunFine
  <2>4. QED BY <1>4, <1>5, <1>6, <1>7, <2>1, <2>3, NoTrouble, IdleFields, EmptyEntries, RunStepInv
<1>8. CASE /\ mint[m].status \in Keyed
           /\ Goes(i, [r EXCEPT !.pc = "secret", !.status = mint[m].status, !.key = posted[m]])
           /\ UNCHANGED <<entry, count>>
  <2>1. PICK s : s = mint[m].status
    OBVIOUS
  <2>2. PICK p : p = [r EXCEPT !.pc = "secret", !.status = s, !.key = posted[m]]
    OBVIOUS
  <2>3. /\ p \in RunRec /\ p.pc = "secret" /\ p.mint = m /\ p.status = s /\ p.key = posted[m]
        /\ p.known = r.known
    BY <1>2, <1>4, <1>8, <2>1, <2>2 DEF RunRec, RunStates
  <2>4. Goes(i, p) /\ s \in Keyed
    BY <1>8, <2>1, <2>2
  <2>5. run'[i] = p
    BY <1>4, <2>3, <2>4, GoesRun
  <2>6. ASSUME Clean' PROVE RunFine(i)'
    <3>1. ~Unkeyed(m)
      BY <2>1, <2>4 DEF Unkeyed, Keyed
    <3>2. ~Ended(m)
      BY <2>1, <2>4 DEF Ended, Keyed, MintEnded
    <3>3. r.known /\ entry[m].known
      BY <1>1, <1>2, <1>4, <1>8, <2>6, <3>2, NoTrouble DEF RunSound
    <3>4. ~Unkeyed(m)'
      BY <1>4, <1>6, <3>1, HubAloneForward
    <3>5. RunSound(i)'
      BY <1>5, <1>8, <2>3, <2>4, <2>5, <3>3, <3>4 DEF RunSound
    <3>6. QED BY <3>5 DEF RunFine
  <2>7. QED BY <1>4, <1>5, <1>6, <1>8, <2>3, <2>4, <2>6, NoTrouble, EmptyEntries, RunStepInv
<1>9. CASE /\ mint[m].status = "PENDING"
           /\ Goes(i, [r EXCEPT !.pc = "secret", !.status = mint[m].status])
           /\ UNCHANGED <<entry, count>>
  <2>1. PICK p : p = [r EXCEPT !.pc = "secret", !.status = "PENDING"]
    OBVIOUS
  <2>2. /\ p \in RunRec /\ p.pc = "secret" /\ p.mint = m /\ p.status = "PENDING" /\ p.key = r.key
        /\ p.known = r.known /\ p.secret = r.secret
    BY <1>2, <1>4, <2>1 DEF RunRec, RunStates
  <2>3. Goes(i, p)
    BY <1>9, <2>1
  <2>4. run'[i] = p
    BY <1>4, <2>2, <2>3, GoesRun
  <2>5. ASSUME Clean' PROVE RunFine(i)'
    <3>1. Unkeyed(m)
      BY <1>9 DEF Unkeyed
    <3>2. ~Ended(m)
      BY <1>9 DEF Ended, MintEnded
    <3>3. r.known /\ entry[m].known /\ r.secret = r.key /\ r.key # 0
      BY <1>1, <1>2, <1>3, <1>4, <1>9, <2>5, <3>1, <3>2, NoTrouble DEF RunSound
    <3>4. RunSound(i)'
      BY <1>9, <2>2, <2>4, <3>3 DEF RunSound
    <3>5. QED BY <3>4 DEF RunFine
  <2>6. QED BY <1>4, <1>5, <1>6, <1>9, <2>2, <2>3, <2>5, NoTrouble, EmptyEntries, RunStepInv
<1>10. CASE /\ mint[m].status = "PENDING"
            /\ Goes(i, Idle)
            /\ Enter(m, [entry[m] EXCEPT !.tracked = TRUE, !.error = TRUE, !.processing = FALSE])
            /\ UNCHANGED count
  <2>1. PICK e : e = Failed(entry[m])
    OBVIOUS
  <2>2. e \in MintEntryRec /\ e.known = entry[m].known /\ Enter(m, e)
    <3>1. Enter(m, Failed(entry[m]))
      BY <1>10 DEF Failed
    <3>2. QED BY <1>4, <2>1, <3>1, EntryChanges
  <2>3. run'[i] = Idle
    BY <1>4, <1>10, IdleFields, GoesRun
  <2>4. RunFine(i)'
    BY <2>3, IdleFields DEF RunFine
  <2>5. ASSUME Clean' PROVE e.known \/ Ended(m)
    BY <1>1, <1>2, <1>4, <1>10, <2>2, <2>5, NoTrouble DEF RunSound
  <2>6. QED BY <1>4, <1>5, <1>6, <1>10, <2>2, <2>4, <2>5, NoTrouble, IdleFields, RunStepInv
<1>11. CASE Fault /\ Goes(i, [r EXCEPT !.pc = "secret"]) /\ UNCHANGED entry
  <2>1. PICK p : p = [r EXCEPT !.pc = "secret"]
    OBVIOUS
  <2>2. p \in RunRec /\ p.mint = m
    BY <1>2, <1>4, <2>1 DEF RunRec, RunStates
  <2>3. count' \in CountRec /\ ~Clean'
    BY <1>4, <1>11, FaultCounted
  <2>4. QED BY <1>4, <1>5, <1>6, <1>11, <2>1, <2>2, <2>3, EmptyEntries, RunStepInv
<1>12. QED BY <1>1, <1>2, <1>7, <1>8, <1>9, <1>10, <1>11 DEF ReadStatus

LEMMA TakeSecretSound ==
  ASSUME LpMintsInv, UNCHANGED toolVars, LostNoted, NEW i \in Run, TakeSecret(i)
  PROVE  LpMintsInv'
<1>1. PICK r : r = run[i]
  OBVIOUS
<1>2. PICK m : m = r.mint
  OBVIOUS
<1>3. r.pc = "secret"
  BY <1>1 DEF TakeSecret
<1>4. /\ LpMintTypes /\ RunTypes /\ MintEntryTypes /\ DiskTypes /\ count \in CountRec
      /\ r \in RunRec /\ r.known \in BOOLEAN /\ m \in Mint /\ entry[m] \in MintEntryRec
      /\ posted[m] \in Nat /\ r.secret \in Nat
      /\ Clean => Ended(m) \/ RunSound(i)
  BY <1>1, <1>2, <1>3, RunKnows, RunFields DEF LpMintTypes
<1>5. /\ UNCHANGED <<mint, posted, paid, given, swept, txs, unseen, snapshot, copy>>
      /\ txs' \subseteq MintTxRec
      /\ \A t \in txs' : t \in txs \/ TxSound(t)'
  BY <1>4 DEF TakeSecret, chainVars, toolVars, LpMintTypes
<1>6. HubAlone
  BY <1>5, LeavesHub
<1>7. PICK k \in (IF r.secret # 0 THEN {r.secret}
                  ELSE IF disk[m].secret # 0 THEN {disk[m].secret}
                  ELSE IF FreshKeys # {} THEN {FreshKey} ELSE {}) :
        /\ Goes(i, [r EXCEPT !.secret = k, !.pc = IF r.status \in Keyed THEN "posted" ELSE "send"])
        /\ Enter(m, Noted([r EXCEPT !.secret = k]))
        /\ \/ disk' = [disk EXCEPT ![m].secret = k] /\ UNCHANGED count
           \/ Trouble("unsaved") /\ UNCHANGED disk
  BY <1>1, <1>2 DEF TakeSecret
<1>8. k \in Nat \ {0} /\ (r.secret # 0 => k = r.secret)
  <2>1. disk[m].secret \in Nat
    BY <1>4 DEF DiskTypes, FileRec
  <2>2. QED BY <1>4, <1>7, <2>1, FreshIsKey
<1>9. PICK c \in {"posted", "send"} : c = IF r.status \in Keyed THEN "posted" ELSE "send"
  OBVIOUS
<1>10. PICK p : p = [r EXCEPT !.secret = k, !.pc = c]
  OBVIOUS
<1>11. /\ p \in RunRec /\ p.pc = c /\ p.mint = m /\ p.status = r.status /\ p.key = r.key
       /\ p.known = r.known /\ p.secret = k
  BY <1>2, <1>4, <1>8, <1>10 DEF RunRec, RunStates
<1>12. Goes(i, p) /\ run'[i] = p
  <2>1. Goes(i, p)
    BY <1>7, <1>9, <1>10
  <2>2. QED BY <1>4, <1>11, <2>1, GoesRun
<1>13. PICK q : q = [r EXCEPT !.secret = k]
  OBVIOUS
<1>14. PICK e \in MintEntryRec : Enter(m, e) /\ e.known = r.known
  <2>1. q \in RunRec /\ q.mint = m /\ q.known = r.known
    BY <1>2, <1>4, <1>8, <1>13 DEF RunRec
  <2>2. Noted(q) \in MintEntryRec /\ Noted(q).known = r.known
    BY <1>4, <2>1, NotedEntry
  <2>3. QED BY <1>7, <1>13, <2>2
<1>15. CASE disk' = [disk EXCEPT ![m].secret = k] /\ UNCHANGED count
  <2>1. /\ disk' \in [Mint -> FileRec] /\ disk'[m].secret = k
        /\ \A n \in Mint : disk'[n].swept = disk[n].swept
    BY <1>4, <1>8, <1>15, FileSecret
  <2>2. ASSUME Clean', ~Ended(m) PROVE RunSound(i)' /\ e.known
    <3>1. /\ r.known /\ entry[m].known
          /\ \/ r.status \in Keyed /\ r.key = posted[m] /\ ~Unkeyed(m)
             \/ r.status = "PENDING" /\ r.secret = r.key /\ r.key # 0
      BY <1>1, <1>2, <1>3, <1>4, <1>15, <2>2, NoTrouble DEF RunSound
    <3>2. entry'[m].known
      BY <1>4, <1>14, <3>1, EnterEntry
    <3>3. CASE r.status \in Keyed /\ r.key = posted[m] /\ ~Unkeyed(m)
      <4>1. posted'[m] # 0 /\ k # posted'[m] => m \in lost'
        BY <1>4, <2>1 DEF LostNoted
      <4>2. ~Unkeyed(m)' /\ posted'[m] = posted[m]
        BY <1>4, <1>6, <3>3, HubAloneForward DEF Forward
      <4>3. posted[m] # 0
        <5>1. mint[m].status \in Keyed => posted[m] # 0
          BY <1>4, <1>15, <2>2, NoTrouble DEF LpMintsInv, DepositInv, MintsSound, MintSound
        <5>2. mint[m].status \in Keyed
          BY <1>4, <2>2, <3>3 DEF Unkeyed, Ended, Keyed, MintWaiting, LpMintTypes, HubMintTypes, MintRec
        <5>3. QED BY <5>1, <5>2
      <4>4. c = "posted"
        BY <1>9, <3>3
      <4>5. QED BY <1>11, <1>12, <1>14, <3>1, <3>2, <3>3, <4>1, <4>2, <4>3, <4>4 DEF RunSound
    <3>4. CASE r.status = "PENDING" /\ r.secret = r.key /\ r.key # 0
      <4>1. c = "send" /\ k = r.key
        BY <1>8, <1>9, <3>4 DEF Keyed
      <4>2. QED BY <1>11, <1>12, <1>14, <3>1, <3>2, <3>4, <4>1 DEF RunSound
    <3>5. QED BY <3>1, <3>3, <3>4
  <2>3. ASSUME Clean' PROVE RunFine(i)'
    BY <1>4, <1>6, <1>11, <1>12, <2>2, <2>3, HubAloneForward DEF RunFine
  <2>4. QED BY <1>4, <1>5, <1>6, <1>11, <1>12, <1>14, <1>15, <2>1, <2>2, <2>3, NoTrouble, RunStepInv
<1>16. CASE Trouble("unsaved") /\ UNCHANGED disk
  <2>1. count' \in CountRec /\ ~Clean'
    BY <1>4, <1>16, TroubleCounted
  <2>2. QED BY <1>4, <1>5, <1>6, <1>11, <1>12, <1>14, <1>16, <2>1, RunStepInv DEF DiskTypes
<1>17. QED BY <1>7, <1>15, <1>16


\* A run that only moves on, with the same keys.
LEMMA RunMoves ==
  ASSUME NEW r \in RunRec, NEW pc \in RunStates
  PROVE  LET p == [r EXCEPT !.pc = pc] IN
           /\ p \in RunRec /\ p.pc = pc /\ p.mint = r.mint /\ p.key = r.key /\ p.secret = r.secret
           /\ p.status = r.status /\ p.known = r.known /\ p.by = r.by /\ p.attempt = r.attempt
BY DEF RunRec

\* The file or the count of the unsaved: what the run saves.
LEMMA SecretSaved ==
  ASSUME LpMintTypes, NEW m \in Mint, NEW k \in Nat,
         \/ disk' = [disk EXCEPT ![m].secret = k] /\ UNCHANGED count
         \/ Trouble("unsaved") /\ UNCHANGED disk
  PROVE  /\ disk' \in [Mint -> FileRec] /\ \A n \in Mint : disk'[n].swept = disk[n].swept
         /\ count' \in CountRec /\ (Clean' => Clean)
<1>1. DiskTypes /\ count \in CountRec
  BY DEF LpMintTypes
<1>2. CASE disk' = [disk EXCEPT ![m].secret = k] /\ UNCHANGED count
  BY <1>1, <1>2, FileSecret, NoTrouble
<1>3. CASE Trouble("unsaved") /\ UNCHANGED disk
  BY <1>1, <1>3, TroubleCounted DEF DiskTypes
<1>4. QED BY <1>2, <1>3

LEMMA SendKeySound ==
  ASSUME LpMintsInv, UNCHANGED toolVars, LostNoted, NEW i \in Run, SendKey(i)
  PROVE  LpMintsInv'
<1>1. PICK r : r = run[i]
  OBVIOUS
<1>2. PICK m : m = r.mint
  OBVIOUS
<1>3. r.pc = "send"
  BY <1>1 DEF SendKey
<1>4. /\ LpMintTypes /\ RunTypes /\ DiskTypes /\ count \in CountRec
      /\ r \in RunRec /\ m \in Mint /\ r.key \in Nat
      /\ Clean => Ended(m) \/ RunSound(i)
  BY <1>1, <1>2, <1>3, RunKnows, RunFields DEF LpMintTypes
<1>5. /\ UNCHANGED <<mint, posted, paid, given, swept, unseen, snapshot, disk, copy, entry>>
      /\ disk' \in [Mint -> FileRec]
  BY <1>4 DEF SendKey, toolVars, LpMintTypes, DiskTypes
<1>6. HubAlone
  BY <1>5, LeavesHub
<1>7. PICK t : t = [kind |-> "provide", mint |-> m, key |-> r.key, run |-> i]
  OBVIOUS
<1>8. t \in MintTxRec /\ t.kind = "provide" /\ t.key = r.key
  BY <1>4, <1>7 DEF MintTxRec
<1>9. txs \subseteq MintTxRec
  BY <1>4 DEF LpMintTypes
<1>10. CASE txs' = txs \cup {t} /\ Goes(i, [r EXCEPT !.pc = "wait"]) /\ UNCHANGED count
  <2>1. PICK p : p = [r EXCEPT !.pc = "wait"]
    OBVIOUS
  <2>2. /\ p \in RunRec /\ p.pc = "wait" /\ p.mint = m /\ p.key = r.key /\ p.secret = r.secret
        /\ p.known = r.known
    BY <1>2, <1>4, <2>1, RunMoves, ZenonT(60) DEF RunStates
  <2>3. Goes(i, p) /\ run'[i] = p
    <3>1. Goes(i, p)
      BY <1>10, <2>1
    <3>2. QED BY <1>4, <2>2, <3>1, GoesRun
  <2>4. ASSUME Clean' PROVE RunFine(i)' /\ \A u \in txs' : u \in txs \/ TxSound(u)'
    <3>1. Ended(m) \/ (r.known /\ entry[m].known /\ r.secret = r.key /\ r.key # 0)
      BY <1>1, <1>2, <1>3, <1>4, <1>10, <2>4, NoTrouble DEF RunSound
    <3>2. Ended(m)' = Ended(m)
      BY <1>4, <1>6, HubAloneForward
    <3>3. ASSUME ~Ended(m) PROVE RunSound(i)'
      BY <1>5, <2>2, <2>3, <3>1, <3>3 DEF RunSound
    <3>4. RunFine(i)'
      BY <2>2, <2>3, <3>2, <3>3 DEF RunFine
    <3>5. TxSound(t)'
      BY <1>7, <1>8, <3>1, <3>2 DEF TxSound
    <3>6. QED BY <1>10, <3>4, <3>5
  <2>5. QED BY <1>4, <1>5, <1>6, <1>8, <1>9, <1>10, <2>2, <2>3, <2>4, NoTrouble, EmptyEntries,
               RunStepInv
<1>11. CASE txs' \in {txs, txs \cup {t}} /\ Goes(i, [r EXCEPT !.pc = "throw"]) /\ Fault
  <2>1. PICK p : p = [r EXCEPT !.pc = "throw"]
    OBVIOUS
  <2>2. p \in RunRec /\ p.mint = m
    BY <1>2, <1>4, <2>1, RunMoves DEF RunStates
  <2>3. count' \in CountRec /\ ~Clean'
    BY <1>4, <1>11, FaultCounted
  <2>4. QED BY <1>4, <1>5, <1>6, <1>8, <1>9, <1>11, <2>1, <2>2, <2>3, EmptyEntries, RunStepInv
<1>12. QED BY <1>1, <1>2, <1>7, <1>10, <1>11 DEF SendKey


LEMMA AwaitTimeoutSound ==
  ASSUME LpMintsInv, UNCHANGED toolVars, LostNoted, NEW i \in Run, AwaitTimeout(i)
  PROVE  LpMintsInv'
<1>1. PICK r : r = run[i]
  OBVIOUS
<1>2. r.pc \in {"wait", "mined"} /\ Fault
  BY <1>1 DEF AwaitTimeout
<1>3. LpMintTypes /\ RunTypes /\ DiskTypes /\ count \in CountRec /\ r \in RunRec /\ r.mint \in Mint
  BY <1>1, <1>2, RunKnows DEF LpMintTypes
<1>4. /\ UNCHANGED <<mint, posted, paid, given, swept, txs, unseen, snapshot, disk, copy, entry>>
      /\ disk' \in [Mint -> FileRec] /\ txs' \subseteq MintTxRec
  BY <1>3 DEF AwaitTimeout, chainVars, toolVars, LpMintTypes, DiskTypes
<1>5. HubAlone
  BY <1>4, LeavesHub
<1>6. PICK p : p = [r EXCEPT !.pc = "throw"]
  OBVIOUS
<1>7. p \in RunRec /\ p.mint = r.mint
  BY <1>3, <1>6, RunMoves DEF RunStates
<1>8. Goes(i, p)
  BY <1>1, <1>6 DEF AwaitTimeout
<1>9. count' \in CountRec /\ ~Clean'
  BY <1>2, <1>3, FaultCounted
<1>10. QED BY <1>3, <1>4, <1>5, <1>7, <1>8, <1>9, EmptyEntries, RunStepInv

LEMMA PostedSound ==
  ASSUME LpMintsInv, UNCHANGED toolVars, LostNoted, NEW i \in Run, Posted(i)
  PROVE  LpMintsInv'
<1>1. PICK r : r = run[i]
  OBVIOUS
<1>2. PICK m : m = r.mint
  OBVIOUS
<1>3. r.pc \in {"mined", "posted"}
  BY <1>1 DEF Posted
<1>4. /\ LpMintTypes /\ RunTypes /\ MintEntryTypes /\ DiskTypes /\ count \in CountRec
      /\ r \in RunRec /\ r.known \in BOOLEAN /\ r.secret \in Nat
      /\ m \in Mint /\ entry[m] \in MintEntryRec
      /\ Clean => Ended(m) \/ RunSound(i)
  BY <1>1, <1>2, <1>3, RunKnows, RunFields DEF LpMintTypes
<1>5. /\ UNCHANGED <<mint, posted, paid, given, swept, txs, unseen, snapshot, disk, copy, count>>
      /\ disk' \in [Mint -> FileRec] /\ txs' \subseteq MintTxRec
  BY <1>4 DEF Posted, chainVars, toolVars, LpMintTypes, DiskTypes
<1>6. HubAlone
  BY <1>5, LeavesHub
<1>7. PICK c \in {"scan", "finalize"} : 
        c = IF r.known /\ Verifiable(m) /\ r.secret = r.key THEN "scan" ELSE "finalize"
  OBVIOUS
<1>8. PICK p : p = [r EXCEPT !.pc = c]
  OBVIOUS
<1>9. /\ p \in RunRec /\ p.pc = c /\ p.mint = m /\ p.key = r.key /\ p.known = r.known
  BY <1>2, <1>4, <1>8 DEF RunRec, RunStates
<1>10. Goes(i, p) /\ run'[i] = p
  <2>1. Goes(i, p)
    BY <1>1, <1>2, <1>7, <1>8 DEF Posted
  <2>2. QED BY <1>4, <1>9, <2>1, GoesRun
<1>11. PICK d : d = Noted(r)
  OBVIOUS
<1>12. PICK e : e = KeyNoted(d)
  OBVIOUS
<1>13. e \in MintEntryRec /\ e.known = r.known
  <2>1. d \in MintEntryRec /\ d.known = r.known
    BY <1>2, <1>4, <1>11, NotedEntry
  <2>2. Keeps(d, e)
    BY <1>12, <2>1, EntryChanges
  <2>3. QED BY <2>1, <2>2 DEF Keeps
<1>14. Enter(m, e)
  BY <1>1, <1>2, <1>11, <1>12 DEF Posted, KeyNoted
<1>15. Clean' => Clean
  BY <1>5 DEF Clean
<1>16. ASSUME Clean', ~Ended(m) PROVE RunSound(i)' /\ e.known
  <2>1. /\ r.known /\ entry[m].known
        /\ ~Unkeyed(m) /\ r.key = posted[m] /\ (r.secret = r.key \/ m \in lost)
    BY <1>1, <1>2, <1>3, <1>4, <1>15, <1>16 DEF RunSound
  <2>2. entry'[m].known
    BY <1>4, <1>13, <1>14, <2>1, EnterEntry
  <2>3. ~Unkeyed(m)' /\ posted'[m] = posted[m] /\ (m \in lost => m \in lost')
    BY <1>4, <1>6, <2>1, HubAloneForward DEF Forward
  <2>4. c = "finalize" => m \in lost' \/ ~Verifiable(m)'
    BY <1>5, <1>7, <2>1, <2>3 DEF Verifiable
  <2>5. c = "finalize" => Covered(m)'
    BY <2>3, <2>4 DEF Covered
  <2>6. QED BY <1>7, <1>9, <1>10, <1>13, <2>1, <2>2, <2>3, <2>5 DEF RunSound
<1>17. ASSUME Clean' PROVE RunFine(i)'
  BY <1>4, <1>6, <1>9, <1>10, <1>16, <1>17, HubAloneForward DEF RunFine
<1>18. QED BY <1>4, <1>5, <1>6, <1>9, <1>10, <1>13, <1>14, <1>15, <1>16, <1>17, RunStepInv

LEMMA ScanFindsSound ==
  ASSUME LpMintsInv, UNCHANGED toolVars, LostNoted, NEW i \in Run, ScanFinds(i)
  PROVE  LpMintsInv'
<1>1. PICK r : r = run[i]
  OBVIOUS
<1>2. PICK m : m = r.mint
  OBVIOUS
<1>3. r.pc = "scan" /\ paid[m] = r.key
  BY <1>1, <1>2 DEF ScanFinds
<1>4. /\ LpMintTypes /\ RunTypes /\ DiskTypes /\ count \in CountRec /\ r \in RunRec /\ m \in Mint
      /\ Clean => Ended(m) \/ RunSound(i)
  BY <1>1, <1>2, <1>3, RunKnows DEF LpMintTypes
<1>5. /\ UNCHANGED <<mint, posted, paid, given, swept, txs, unseen, snapshot, disk, copy, entry, count>>
      /\ disk' \in [Mint -> FileRec] /\ txs' \subseteq MintTxRec
  BY <1>4 DEF ScanFinds, chainVars, toolVars, LpMintTypes, DiskTypes
<1>6. HubAlone
  BY <1>5, LeavesHub
<1>7. PICK p : p = [r EXCEPT !.pc = "finalize"]
  OBVIOUS
<1>8. p \in RunRec /\ p.pc = "finalize" /\ p.mint = m /\ p.known = r.known
  BY <1>2, <1>4, <1>7, RunMoves DEF RunStates
<1>9. Goes(i, p) /\ run'[i] = p
  <2>1. Goes(i, p)
    BY <1>1, <1>7 DEF ScanFinds
  <2>2. QED BY <1>4, <1>8, <2>1, GoesRun
<1>10. Clean' => Clean
  BY <1>5 DEF Clean
<1>11. ASSUME Clean', ~Ended(m) PROVE RunSound(i)'
  <2>1. r.known /\ entry[m].known /\ ~Unkeyed(m) /\ r.key = posted[m]
    BY <1>1, <1>2, <1>3, <1>4, <1>10, <1>11 DEF RunSound
  <2>2. Covered(m)
    BY <1>3, <2>1 DEF Covered
  <2>3. Covered(m)'
    BY <1>4, <1>6, <2>2, HubAloneForward DEF Forward
  <2>4. QED BY <1>5, <1>8, <1>9, <2>1, <2>3 DEF RunSound
<1>12. ASSUME Clean' PROVE RunFine(i)'
  BY <1>4, <1>6, <1>8, <1>9, <1>11, <1>12, HubAloneForward DEF RunFine
<1>13. QED BY <1>4, <1>5, <1>6, <1>8, <1>9, <1>10, <1>12, EmptyEntries, RunStepInv

LEMMA ScanGivesUpSound ==
  ASSUME LpMintsInv, UNCHANGED toolVars, LostNoted, NEW i \in Run, ScanGivesUp(i)
  PROVE  LpMintsInv'
<1>1. PICK r : r = run[i]
  OBVIOUS
<1>2. PICK m : m = r.mint
  OBVIOUS
<1>3. r.pc = "scan"
  BY <1>1 DEF ScanGivesUp
<1>4. /\ LpMintTypes /\ RunTypes /\ MintEntryTypes /\ DiskTypes /\ count \in CountRec
      /\ r \in RunRec /\ r.known \in BOOLEAN /\ r.secret \in Nat
      /\ m \in Mint /\ entry[m] \in MintEntryRec
      /\ Clean => Ended(m) \/ RunSound(i)
  BY <1>1, <1>2, <1>3, RunKnows, RunFields DEF LpMintTypes
<1>5. /\ UNCHANGED <<mint, posted, paid, given, swept, txs, unseen, snapshot, disk, copy>>
      /\ disk' \in [Mint -> FileRec] /\ txs' \subseteq MintTxRec
      /\ Goes(i, Idle)
  BY <1>4 DEF ScanGivesUp, chainVars, toolVars, LpMintTypes, DiskTypes
<1>6. HubAlone
  BY <1>5, LeavesHub
<1>7. PICK d : d = Noted(r)
  OBVIOUS
<1>8. PICK e : e = ErrorNoted(d)
  OBVIOUS
<1>9. e \in MintEntryRec /\ e.known = r.known
  <2>1. d \in MintEntryRec /\ d.known = r.known
    BY <1>2, <1>4, <1>7, NotedEntry
  <2>2. Keeps(d, e)
    BY <1>8, <2>1, EntryChanges
  <2>3. QED BY <2>1, <2>2 DEF Keeps
<1>10. Enter(m, e)
  BY <1>1, <1>2, <1>7, <1>8 DEF ScanGivesUp, ErrorNoted
<1>11. count' \in CountRec /\ (Clean' => Clean)
  BY <1>4, FaultCounted, NoTrouble DEF ScanGivesUp
<1>12. RunFine(i)'
  BY <1>4, <1>5, IdleFields, GoesRun DEF RunFine
<1>13. Clean' => e.known \/ Ended(m)
  BY <1>1, <1>2, <1>4, <1>9, <1>11 DEF RunSound
<1>14. QED BY <1>4, <1>5, <1>6, <1>9, <1>10, <1>11, <1>12, <1>13, IdleFields, RunStepInv


LEMMA FinalizeSound ==
  ASSUME LpMintsInv, UNCHANGED toolVars, LostNoted, NEW i \in Run, Finalize(i)
  PROVE  LpMintsInv'
<1>1. PICK r : r = run[i]
  OBVIOUS
<1>2. PICK m : m = r.mint
  OBVIOUS
<1>3. r.pc = "finalize"
  BY <1>1 DEF Finalize
<1>4. /\ LpMintTypes /\ RunTypes /\ MintEntryTypes /\ DiskTypes /\ count \in CountRec
      /\ r \in RunRec /\ r.known \in BOOLEAN /\ r.secret \in Nat
      /\ m \in Mint /\ entry[m] \in MintEntryRec
      /\ Clean => Ended(m) \/ RunSound(i)
  BY <1>1, <1>2, <1>3, RunKnows, RunFields DEF LpMintTypes
<1>5. /\ UNCHANGED <<mint, posted, paid, given, swept, txs, unseen, snapshot, copy>>
      /\ txs' \subseteq MintTxRec
  BY <1>4 DEF Finalize, chainVars, toolVars, LpMintTypes
<1>6. HubAlone
  BY <1>5, LeavesHub
<1>7. CASE Goes(i, Idle) /\ UNCHANGED <<entry, disk, count>>
  <2>1. RunFine(i)'
    BY <1>4, <1>7, IdleFields, GoesRun DEF RunFine
  <2>2. disk' \in [Mint -> FileRec]
    BY <1>4, <1>7 DEF DiskTypes
  <2>3. QED BY <1>4, <1>5, <1>6, <1>7, <2>1, <2>2, NoTrouble, IdleFields, EmptyEntries, RunStepInv
<1>8. CASE /\ Goes(i, [r EXCEPT !.pc = "ready"])
           /\ Enter(m, [Noted(r) EXCEPT !.finalizing = TRUE])
           /\ \/ disk' = [disk EXCEPT ![m].secret = r.secret] /\ UNCHANGED count
              \/ Trouble("unsaved") /\ UNCHANGED disk
  <2>1. PICK p : p = [r EXCEPT !.pc = "ready"]
    OBVIOUS
  <2>2. p \in RunRec /\ p.pc = "ready" /\ p.mint = m /\ p.known = r.known
    BY <1>2, <1>4, <2>1, RunMoves DEF RunStates
  <2>3. Goes(i, p) /\ run'[i] = p
    <3>1. Goes(i, p)
      BY <1>8, <2>1
    <3>2. QED BY <1>4, <2>2, <3>1, GoesRun
  <2>4. PICK d : d = Noted(r)
    OBVIOUS
  <2>5. d \in MintEntryRec /\ d.known = r.known
    BY <1>2, <1>4, <2>4, NotedEntry
  <2>6. PICK e : e = Finalizing(d)
    OBVIOUS
  <2>7. e \in MintEntryRec /\ e.known = r.known
    <3>1. Keeps(d, e)
      BY <2>5, <2>6, EntryChanges
    <3>2. QED BY <2>5, <3>1 DEF Keeps
  <2>8. Enter(m, e)
    BY <1>8, <2>4, <2>6 DEF Finalizing
  <2>9. /\ disk' \in [Mint -> FileRec] /\ \A n \in Mint : disk'[n].swept = disk[n].swept
        /\ count' \in CountRec /\ (Clean' => Clean)
    BY <1>4, <1>8, SecretSaved
  <2>10. ASSUME Clean', ~Ended(m) PROVE RunSound(i)' /\ e.known
    <3>1. r.known /\ entry[m].known /\ Covered(m)
      BY <1>1, <1>2, <1>3, <1>4, <2>9, <2>10 DEF RunSound
    <3>2. entry'[m].known
      BY <1>4, <2>7, <2>8, <3>1, EnterEntry
    <3>3. Covered(m)'
      BY <1>4, <1>6, <3>1, HubAloneForward DEF Forward
    <3>4. QED BY <2>2, <2>3, <2>7, <3>1, <3>2, <3>3 DEF RunSound
  <2>11. ASSUME Clean' PROVE RunFine(i)'
    BY <1>4, <1>6, <2>2, <2>3, <2>10, <2>11, HubAloneForward DEF RunFine
  <2>12. QED BY <1>4, <1>5, <1>6, <2>2, <2>3, <2>7, <2>8, <2>9, <2>10, <2>11, RunStepInv
<1>9. QED BY <1>1, <1>2, <1>7, <1>8 DEF Finalize

LEMMA SendReadySound ==
  ASSUME LpMintsInv, UNCHANGED toolVars, LostNoted, NEW i \in Run, SendReady(i)
  PROVE  LpMintsInv'
<1>1. PICK r : r = run[i]
  OBVIOUS
<1>2. PICK m : m = r.mint
  OBVIOUS
<1>3. r.pc = "ready"
  BY <1>1 DEF SendReady
<1>4. /\ LpMintTypes /\ RunTypes /\ DiskTypes /\ count \in CountRec
      /\ r \in RunRec /\ m \in Mint
      /\ Clean => Ended(m) \/ RunSound(i)
  BY <1>1, <1>2, <1>3, RunKnows DEF LpMintTypes
<1>5. /\ UNCHANGED <<mint, posted, paid, given, swept, unseen, snapshot, disk, copy, entry>>
      /\ disk' \in [Mint -> FileRec]
  BY <1>4 DEF SendReady, toolVars, LpMintTypes, DiskTypes
<1>6. HubAlone
  BY <1>5, LeavesHub
<1>7. PICK t : t = [kind |-> "ready", mint |-> m, key |-> 0, run |-> i]
  OBVIOUS
<1>8. t \in MintTxRec /\ t.kind = "ready" /\ t.mint = m
  BY <1>4, <1>7 DEF MintTxRec
<1>9. txs \subseteq MintTxRec
  BY <1>4 DEF LpMintTypes
<1>10. CASE txs' = txs \cup {t} /\ Goes(i, [r EXCEPT !.pc = "readywait"]) /\ UNCHANGED count
  <2>1. PICK p : p = [r EXCEPT !.pc = "readywait"]
    OBVIOUS
  <2>2. p \in RunRec /\ p.pc = "readywait" /\ p.mint = m /\ p.known = r.known
    BY <1>2, <1>4, <2>1, RunMoves DEF RunStates
  <2>3. Goes(i, p) /\ run'[i] = p
    <3>1. Goes(i, p)
      BY <1>10, <2>1
    <3>2. QED BY <1>4, <2>2, <3>1, GoesRun
  <2>4. ASSUME Clean' PROVE RunFine(i)' /\ \A u \in txs' : u \in txs \/ TxSound(u)'
    <3>1. Ended(m) \/ (r.known /\ entry[m].known /\ Covered(m))
      BY <1>1, <1>2, <1>3, <1>4, <1>10, <2>4, NoTrouble DEF RunSound
    <3>2. Ended(m)' = Ended(m) /\ (Covered(m) => Covered(m)')
      BY <1>4, <1>6, HubAloneForward DEF Forward
    <3>3. ASSUME ~Ended(m) PROVE RunSound(i)'
      BY <1>5, <2>2, <2>3, <3>1, <3>2, <3>3 DEF RunSound
    <3>4. RunFine(i)'
      BY <2>2, <2>3, <3>2, <3>3 DEF RunFine
    <3>5. TxSound(t)'
      BY <1>8, <3>1, <3>2 DEF TxSound
    <3>6. QED BY <1>10, <3>4, <3>5
  <2>5. QED BY <1>4, <1>5, <1>6, <1>8, <1>9, <1>10, <2>2, <2>3, <2>4, NoTrouble, EmptyEntries,
               RunStepInv
<1>11. CASE UNCHANGED txs /\ Goes(i, [r EXCEPT !.pc = "throw"]) /\ Fault
  <2>1. PICK p : p = [r EXCEPT !.pc = "throw"]
    OBVIOUS
  <2>2. p \in RunRec /\ p.mint = m
    BY <1>2, <1>4, <2>1, RunMoves DEF RunStates
  <2>3. count' \in CountRec /\ ~Clean'
    BY <1>4, <1>11, FaultCounted
  <2>4. QED BY <1>4, <1>5, <1>6, <1>9, <1>11, <2>1, <2>2, <2>3, EmptyEntries, RunStepInv
<1>12. QED BY <1>1, <1>2, <1>7, <1>10, <1>11 DEF SendReady

LEMMA ThrowSound ==
  ASSUME LpMintsInv, UNCHANGED toolVars, LostNoted, NEW i \in Run, Throw(i)
  PROVE  LpMintsInv'
<1>1. PICK r : r = run[i]
  OBVIOUS
<1>2. PICK m : m = r.mint
  OBVIOUS
<1>3. r.pc = "throw"
  BY <1>1 DEF Throw
<1>4. /\ LpMintTypes /\ RunTypes /\ MintEntryTypes /\ DiskTypes /\ count \in CountRec
      /\ m \in Mint /\ entry[m] \in MintEntryRec
      /\ Clean => Ended(m) \/ RunSound(i)
  BY <1>1, <1>2, <1>3, RunKnows DEF LpMintTypes
<1>5. /\ UNCHANGED <<mint, posted, paid, given, swept, txs, unseen, snapshot, disk, copy, count>>
      /\ disk' \in [Mint -> FileRec] /\ txs' \subseteq MintTxRec /\ Goes(i, Idle)
  BY <1>4 DEF Throw, chainVars, toolVars, LpMintTypes, DiskTypes
<1>6. HubAlone
  BY <1>5, LeavesHub
<1>7. PICK e : e = Failed(entry[m])
  OBVIOUS
<1>8. e \in MintEntryRec /\ e.known = entry[m].known
  BY <1>4, <1>7, EntryChanges
<1>9. Enter(m, e) \/ UNCHANGED entry
  <2>1. Enter(m, Failed(entry[m])) \/ UNCHANGED entry
    BY <1>1, <1>2 DEF Throw, Failed
  <2>2. QED BY <1>7, <2>1
<1>10. RunFine(i)'
  BY <1>4, <1>5, IdleFields, GoesRun DEF RunFine
<1>11. Clean' => Clean
  BY <1>5 DEF Clean
<1>12. Clean' => e.known \/ Ended(m)
  BY <1>1, <1>2, <1>4, <1>8, <1>11 DEF RunSound
<1>13. QED BY <1>4, <1>5, <1>6, <1>8, <1>9, <1>10, <1>11, <1>12, IdleFields, RunStepInv

LEMMA RunStepsSound ==
  ASSUME LpMintsInv, UNCHANGED toolVars, LostNoted, NEW i \in Run, RunSteps(i)
  PROVE  LpMintsInv'
BY ReadStatusSound, TakeSecretSound, SendKeySound, AwaitTimeoutSound, PostedSound, ScanFindsSound,
   ScanGivesUpSound, FinalizeSound, SendReadySound, ThrowSound DEF RunSteps


-----------------------------------------------------------------------------
\* Events, timers and the phases of a start.

\* A step that touches an entry, and no run.
LEMMA EntryStepInv ==
  ASSUME LpMintsInv, HubAlone, UNCHANGED <<run, txs, copy>>,
         disk' \in [Mint -> FileRec], snapshot' \in [Mint -> FileRec],
         swept' \in [Mint -> BOOLEAN], SweptInv', count' \in CountRec, Clean' => Clean,
         NEW m \in Mint, NEW e \in MintEntryRec, Enter(m, e) \/ UNCHANGED entry,
         Clean' => UNCHANGED entry \/ e.known \/ Ended(m) \/ Keeps(entry[m], e)
  PROVE  LpMintsInv'
<1>1. LpMintTypes
  BY DEF LpMintsInv
<1>2. /\ MintEntryTypes'
      /\ UNCHANGED entry \/ (entry'[m] = e /\ \A n \in Mint : n # m => entry'[n] = entry[n])
  <2>1. CASE UNCHANGED entry
    BY <1>1, <2>1 DEF LpMintTypes, MintEntryTypes
  <2>2. CASE Enter(m, e)
    BY <1>1, <2>2, EnterEntry DEF LpMintTypes
  <2>3. QED BY <2>1, <2>2
<1>3. LpMintTypes'
  BY <1>1, <1>2 DEF LpMintTypes, HubAlone, HubMintTypes, RunTypes, DiskTypes
<1>4. ASSUME Clean' PROVE \A n \in Mint : EntryForward(n)
  <2>1. TAKE n \in Mint
  <2>2. CASE UNCHANGED entry
    BY <2>2 DEF EntryForward
  <2>3. CASE entry' # entry /\ n = m
    <3>1. (e.known \/ Ended(m) \/ Keeps(entry[m], e)) /\ entry'[m] = e
      BY <1>2, <1>4, <2>3
    <3>2. Ended(m)' = Ended(m)
      BY HubAloneForward
    <3>3. QED BY <2>3, <3>1, <3>2 DEF EntryForward, Keeps
  <2>4. CASE entry' # entry /\ n # m
    BY <1>2, <2>4 DEF EntryForward
  <2>5. QED BY <2>2, <2>3, <2>4
<1>5. \A j \in Run : run'[j] = run[j]
  OBVIOUS
<1>6. \A t \in txs' : t \in txs
  OBVIOUS
<1>7. QED BY <1>3, <1>4, <1>5, <1>6, ServerStepInv

LEMMA StartedRun ==
  ASSUME RunTypes, posted \in [Mint -> Nat], MintEntryTypes, NEW m \in Mint, NEW fresh \in BOOLEAN,
         NEW by \in {"event", "recovery", "timer", "periodic", "manual"}, NEW n \in Nat,
         StartRun(m, fresh, by, n)
  PROVE  \E i \in Run, r \in RunRec :
           /\ Goes(i, r) /\ r.pc = "status" /\ r.mint = m
           /\ fresh => r.secret = r.key /\ r.key # 0
           /\ r.known = (by \in {"event", "recovery"} \/ entry[m].known)
<1>1. PICK i \in Free : i = FreeRun
  BY DEF StartRun, FreeRun
<1>2. i \in Run
  BY DEF Free
<1>3. PICK k \in Nat : k = (IF fresh THEN FreshKey ELSE posted[m]) /\ (fresh => k # 0)
  BY FreshIsKey DEF StartRun
<1>4. PICK s \in Nat : s = IF fresh THEN k ELSE 0
  OBVIOUS
<1>5. PICK w \in BOOLEAN : w = (by \in {"event", "recovery"} \/ entry[m].known)
  OBVIOUS
<1>6. PICK r : r = [pc |-> "status", mint |-> m, key |-> k, secret |-> s, status |-> "UNKNOWN",
                    by |-> by, attempt |-> n, known |-> w]
  OBVIOUS
<1>7. r \in RunRec /\ r.pc = "status" /\ r.mint = m /\ r.key = k /\ r.secret = s /\ r.known = w
  BY <1>6 DEF RunRec, RunStates
<1>8. Goes(i, r)
  BY <1>1, <1>3, <1>4, <1>5, <1>6 DEF StartRun
<1>9. QED BY <1>2, <1>3, <1>4, <1>5, <1>7, <1>8

\* A run starts: it knows the address, and it asks with keys of its own unless the
\* request has its key.
LEMMA RunStarts ==
  ASSUME LpMintsInv, HubAlone, UNCHANGED <<swept, snapshot, copy, disk, txs, count>>,
         NEW m \in Mint, NEW fresh \in BOOLEAN,
         NEW by \in {"event", "recovery", "timer", "periodic", "manual"}, NEW n \in Nat,
         StartRun(m, fresh, by, n),
         NEW e \in MintEntryRec, Enter(m, e),
         Clean => \/ Ended(m)
                  \/ /\ by \in {"event", "recovery"} \/ entry[m].known
                     /\ e.known /\ (fresh \/ ~Unkeyed(m))
  PROVE  LpMintsInv'
<1>1. /\ LpMintTypes /\ RunTypes /\ MintEntryTypes /\ DiskTypes /\ count \in CountRec
      /\ posted \in [Mint -> Nat] /\ txs \subseteq MintTxRec
  BY DEF LpMintsInv, LpMintTypes
<1>2. PICK i \in Run, r \in RunRec :
        /\ Goes(i, r) /\ r.pc = "status" /\ r.mint = m
        /\ fresh => r.secret = r.key /\ r.key # 0
        /\ r.known = (by \in {"event", "recovery"} \/ entry[m].known)
  BY <1>1, StartedRun
<1>3. run'[i] = r
  BY <1>1, <1>2, GoesRun
<1>4. count' \in CountRec /\ (Clean' => Clean)
  BY <1>1, NoTrouble
<1>5. entry'[m] = e
  BY <1>1, EnterEntry
<1>6. ASSUME Clean', ~Ended(m) PROVE RunSound(i)' /\ e.known
  <2>1. r.known /\ e.known /\ (fresh \/ ~Unkeyed(m))
    BY <1>2, <1>4, <1>6
  <2>2. Unkeyed(m)' = Unkeyed(m)
    BY HubAloneForward
  <2>3. (r.secret = r.key /\ r.key # 0) \/ ~Unkeyed(m)'
    BY <1>2, <2>1, <2>2
  <2>4. QED BY <1>2, <1>3, <1>5, <2>1, <2>3 DEF RunSound
<1>7. ASSUME Clean' PROVE RunFine(i)'
  BY <1>2, <1>3, <1>6, <1>7, HubAloneForward DEF RunFine
<1>8. disk' \in [Mint -> FileRec]
  BY <1>1 DEF DiskTypes
<1>9. QED BY <1>1, <1>2, <1>4, <1>6, <1>7, <1>8, RunStepInv

LEMMA EntryKnown ==
  ASSUME LpMintsInv, Clean, NEW m \in Mint, entry[m].tracked
  PROVE  entry[m].known \/ Ended(m)
BY DEF LpMintsInv, DepositInv, MintsSound, MintSound

LEMMA TimerFiresSound ==
  ASSUME LpMintsInv, UNCHANGED toolVars, LostNoted, NEW m \in Mint, NEW n \in Nat, TimerFires(m, n)
  PROVE  LpMintsInv'
<1>1. /\ LpMintTypes /\ SweptInv /\ MintEntryTypes /\ DiskTypes /\ count \in CountRec
      /\ entry[m] \in MintEntryRec
  BY EntryFields DEF LpMintsInv, LpMintTypes
<1>2. UNCHANGED <<mint, posted, paid, given, swept, txs, unseen, snapshot, disk, copy>>
  BY DEF TimerFires, chainVars, toolVars
<1>3. HubAlone
  BY <1>2, LeavesHub
<1>4. SweptInv'
  BY <1>1, <1>2, MarksKept
<1>5. /\ disk' \in [Mint -> FileRec] /\ snapshot' \in [Mint -> FileRec]
      /\ swept' \in [Mint -> BOOLEAN]
  BY <1>1, <1>2 DEF LpMintTypes, DiskTypes
<1>6. CASE UNCHANGED <<entry, run, count>>
  <2>1. count' \in CountRec /\ (Clean' => Clean)
    BY <1>1, <1>6, NoTrouble
  <2>2. QED BY <1>1, <1>2, <1>3, <1>4, <1>5, <1>6, <2>1, EntryStepInv
<1>7. CASE /\ entry[m].tracked /\ Enter(m, [entry[m] EXCEPT !.processing = TRUE])
           /\ IF mint[m].status \in {"PENDING", "KEY_PROVIDED"}
              THEN StartRun(m, mint[m].status = "PENDING", "timer", n)
              ELSE UNCHANGED run
           /\ UNCHANGED count
  <2>1. PICK e : e = Busy(entry[m])
    OBVIOUS
  <2>2. Keeps(entry[m], e)
    BY <1>1, <2>1, EntryChanges
  <2>3. Enter(m, e)
    BY <1>7, <2>1 DEF Busy
  <2>4. e \in MintEntryRec /\ e.known = entry[m].known
    BY <2>2 DEF Keeps
  <2>5. CASE UNCHANGED run
    <3>1. count' \in CountRec /\ (Clean' => Clean)
      BY <1>1, <1>7, NoTrouble
    <3>2. QED BY <1>2, <1>3, <1>4, <1>5, <2>2, <2>3, <2>4, <2>5, <3>1, EntryStepInv
  <2>6. CASE /\ mint[m].status \in {"PENDING", "KEY_PROVIDED"}
             /\ StartRun(m, mint[m].status = "PENDING", "timer", n)
    <3>1. PICK fresh \in BOOLEAN : fresh = (mint[m].status = "PENDING")
      OBVIOUS
    <3>2. StartRun(m, fresh, "timer", n)
      BY <2>6, <3>1
    <3>3. fresh \/ ~Unkeyed(m)
      BY <2>6, <3>1 DEF Unkeyed
    <3>4. Clean => Ended(m) \/ entry[m].known
      BY <1>7, EntryKnown
    <3>5. QED BY <1>2, <1>3, <1>7, <2>3, <2>4, <3>2, <3>3, <3>4, RunStarts
  <2>7. QED BY <1>7, <2>5, <2>6
<1>8. CASE Fault /\ Enter(m, [entry[m] EXCEPT !.error = TRUE]) /\ UNCHANGED run
  <2>1. PICK e : e = ErrorNoted(entry[m])
    OBVIOUS
  <2>2. Keeps(entry[m], e)
    BY <1>1, <2>1, EntryChanges
  <2>3. Enter(m, e)
    BY <1>8, <2>1 DEF ErrorNoted
  <2>4. e \in MintEntryRec
    BY <2>2 DEF Keeps
  <2>5. count' \in CountRec /\ ~Clean'
    BY <1>1, <1>8, FaultCounted
  <2>6. QED BY <1>2, <1>3, <1>4, <1>5, <1>8, <2>2, <2>3, <2>4, <2>5, EntryStepInv
<1>9. QED BY <1>6, <1>7, <1>8 DEF TimerFires

LEMMA PeriodicRetrySound ==
  ASSUME LpMintsInv, UNCHANGED toolVars, LostNoted, NEW m \in Mint, PeriodicRetry(m)
  PROVE  LpMintsInv'
<1>1. /\ LpMintTypes /\ SweptInv /\ MintEntryTypes /\ DiskTypes /\ count \in CountRec
      /\ entry[m] \in MintEntryRec
  BY EntryFields DEF LpMintsInv, LpMintTypes
<1>2. UNCHANGED <<mint, posted, paid, given, swept, txs, unseen, snapshot, disk, copy, count>>
  BY DEF PeriodicRetry, chainVars, toolVars
<1>3. HubAlone
  BY <1>2, LeavesHub
<1>4. SweptInv'
  BY <1>1, <1>2, MarksKept
<1>5. /\ disk' \in [Mint -> FileRec] /\ snapshot' \in [Mint -> FileRec]
      /\ swept' \in [Mint -> BOOLEAN] /\ count' \in CountRec /\ (Clean' => Clean)
  BY <1>1, <1>2, NoTrouble DEF LpMintTypes, DiskTypes
<1>6. CASE /\ mint[m].status = "KEY_PROVIDED"
           /\ Enter(m, [entry[m] EXCEPT !.retries = @ + 1, !.processing = TRUE, !.error = FALSE])
           /\ StartRun(m, FALSE, "periodic", 0)
  <2>1. PICK e : e = Retried(entry[m])
    OBVIOUS
  <2>2. Keeps(entry[m], e)
    BY <1>1, <2>1, EntryChanges
  <2>3. Enter(m, e)
    BY <1>6, <2>1 DEF Retried
  <2>4. e \in MintEntryRec /\ e.known = entry[m].known
    BY <2>2 DEF Keeps
  <2>5. ~Unkeyed(m)
    BY <1>6 DEF Unkeyed
  <2>6. Clean => Ended(m) \/ entry[m].known
    BY EntryKnown DEF PeriodicRetry
  <2>7. PICK z \in Nat : z = 0
    OBVIOUS
  <2>8. PICK f \in BOOLEAN : f = FALSE
    OBVIOUS
  <2>9. StartRun(m, f, "periodic", z)
    BY <1>6, <2>7, <2>8
  <2>10. QED BY <1>2, <1>3, <2>3, <2>4, <2>5, <2>6, <2>9, RunStarts
<1>7. CASE mint[m].status \in MintEnded /\ Enter(m, NoEntry) /\ UNCHANGED run
  <2>1. Ended(m)
    BY <1>7 DEF Ended
  <2>2. QED BY <1>2, <1>3, <1>4, <1>5, <1>7, <2>1, EmptyEntries, EntryStepInv
<1>8. QED BY <1>6, <1>7 DEF PeriodicRetry


LEMMA SeeInitiatedSound ==
  ASSUME LpMintsInv, UNCHANGED toolVars, LostNoted, NEW m \in Mint, SeeInitiated(m)
  PROVE  LpMintsInv'
<1>1. /\ LpMintTypes /\ SweptInv /\ MintEntryTypes /\ DiskTypes /\ count \in CountRec
      /\ entry[m] \in MintEntryRec
  BY EntryFields DEF LpMintsInv, LpMintTypes
<1>2. /\ UNCHANGED <<mint, posted, paid, given, swept, txs, snapshot, disk, copy, count>>
      /\ \A e \in unseen' : e \in unseen
  BY DEF SeeInitiated, Polled, chainVars, toolVars
<1>3. HubAlone
  BY <1>2 DEF HubAlone, LostNoted
<1>4. CASE UNCHANGED <<entry, run>>
  <2>1. SweptInv'
    BY <1>1, <1>2, MarksKept
  <2>2. /\ disk' \in [Mint -> FileRec] /\ snapshot' \in [Mint -> FileRec]
        /\ swept' \in [Mint -> BOOLEAN] /\ count' \in CountRec /\ (Clean' => Clean)
    BY <1>1, <1>2, NoTrouble DEF LpMintTypes, DiskTypes
  <2>3. QED BY <1>1, <1>2, <1>3, <1>4, <2>1, <2>2, EntryStepInv
<1>5. CASE Enter(m, NewEntry) /\ StartRun(m, TRUE, "event", 0)
  <2>1. PICK z \in Nat : z = 0
    OBVIOUS
  <2>2. PICK t \in BOOLEAN : t = TRUE
    OBVIOUS
  <2>3. StartRun(m, t, "event", z)
    BY <1>5, <2>1, <2>2
  <2>4. QED BY <1>2, <1>3, <1>5, <2>2, <2>3, EmptyEntries, RunStarts
<1>6. QED BY <1>4, <1>5 DEF SeeInitiated

LEMMA SeeFinalizedSound ==
  ASSUME LpMintsInv, UNCHANGED toolVars, LostNoted, NEW m \in Mint, SeeFinalized(m)
  PROVE  LpMintsInv'
<1>1. /\ LpMintTypes /\ SweptInv /\ MintEntryTypes /\ DiskTypes /\ count \in CountRec
      /\ entry[m] \in MintEntryRec
  BY EntryFields DEF LpMintsInv, LpMintTypes
<1>2. /\ UNCHANGED <<mint, posted, paid, given, swept, txs, snapshot, disk, copy, count, run>>
      /\ \A e \in unseen' : e \in unseen
  BY DEF SeeFinalized, Polled, chainVars, toolVars
<1>3. HubAlone
  BY <1>2 DEF HubAlone, LostNoted
<1>4. SweptInv'
  BY <1>1, <1>2, MarksKept
<1>5. /\ disk' \in [Mint -> FileRec] /\ snapshot' \in [Mint -> FileRec]
      /\ swept' \in [Mint -> BOOLEAN] /\ count' \in CountRec /\ (Clean' => Clean)
  BY <1>1, <1>2, NoTrouble DEF LpMintTypes, DiskTypes
<1>6. PICK e : e = Sweeping(entry[m])
  OBVIOUS
<1>7. Keeps(entry[m], e)
  BY <1>1, <1>6, EntryChanges
<1>8. Enter(m, e) \/ UNCHANGED entry
  <2>1. Enter(m, Sweeping(entry[m])) \/ UNCHANGED entry
    BY DEF SeeFinalized, Sweeping
  <2>2. QED BY <1>6, <2>1
<1>9. e \in MintEntryRec
  BY <1>7 DEF Keeps
<1>10. QED BY <1>2, <1>3, <1>4, <1>5, <1>7, <1>8, <1>9, EntryStepInv

LEMMA SeeCancelledSound ==
  ASSUME LpMintsInv, UNCHANGED toolVars, LostNoted, NEW m \in Mint, SeeCancelled(m)
  PROVE  LpMintsInv'
<1>1. LpMintTypes /\ SweptInv /\ DiskTypes /\ count \in CountRec
  BY DEF LpMintsInv, LpMintTypes
<1>2. /\ UNCHANGED <<mint, posted, paid, given, swept, txs, snapshot, disk, copy, count, run>>
      /\ <<"cancelled", m>> \in unseen /\ \A e \in unseen' : e \in unseen
      /\ Enter(m, NoEntry)
  BY DEF SeeCancelled, Polled, chainVars, toolVars
<1>3. HubAlone
  BY <1>2 DEF HubAlone, LostNoted
<1>4. SweptInv'
  BY <1>1, <1>2, MarksKept
<1>5. /\ disk' \in [Mint -> FileRec] /\ snapshot' \in [Mint -> FileRec]
      /\ swept' \in [Mint -> BOOLEAN] /\ count' \in CountRec /\ (Clean' => Clean)
  BY <1>1, <1>2, NoTrouble DEF LpMintTypes, DiskTypes
<1>6. ASSUME Clean' PROVE Ended(m)
  <2>1. MintSound(m)
    BY <1>5, <1>6 DEF LpMintsInv, DepositInv, MintsSound
  <2>2. QED BY <1>2, <2>1 DEF MintSound, Ended, MintEnded
<1>7. QED BY <1>2, <1>3, <1>4, <1>5, <1>6, EmptyEntries, EntryStepInv

\* Whose deposit is marked is in the wallet by then.
LEMMA SweepSound ==
  ASSUME LpMintsInv, UNCHANGED toolVars, LostNoted, NEW m \in Mint, Sweep(m)
  PROVE  LpMintsInv'
<1>1. /\ LpMintTypes /\ SweptInv /\ MintEntryTypes /\ DiskTypes /\ count \in CountRec
      /\ entry[m] \in MintEntryRec /\ swept \in [Mint -> BOOLEAN]
  BY EntryFields DEF LpMintsInv, LpMintTypes
<1>2. UNCHANGED <<mint, posted, paid, given, txs, unseen, snapshot, copy, run>>
  BY DEF Sweep, chainVars, toolVars
<1>3. HubAlone
  BY <1>2, LeavesHub
<1>4. snapshot' \in [Mint -> FileRec]
  BY <1>1, <1>2 DEF LpMintTypes
<1>5. CASE /\ Enter(m, [entry[m] EXCEPT !.swept = TRUE, !.sweeping = FALSE])
           /\ disk' = [disk EXCEPT ![m].swept = (disk[m].secret # 0)]
           /\ swept' = [swept EXCEPT ![m] = TRUE] /\ UNCHANGED count
  <2>1. PICK e : e = SweptAway(entry[m])
    OBVIOUS
  <2>2. Keeps(entry[m], e)
    BY <1>1, <2>1, EntryChanges
  <2>3. Enter(m, e)
    BY <1>5, <2>1 DEF SweptAway
  <2>4. e \in MintEntryRec
    BY <2>2 DEF Keeps
  <2>5. PICK w \in BOOLEAN : w = (disk[m].secret # 0)
    OBVIOUS
  <2>6. PICK f : f = [disk[m] EXCEPT !.swept = w]
    OBVIOUS
  <2>7. disk[m] \in FileRec /\ f \in FileRec
    BY <1>1, <2>6 DEF DiskTypes, FileRec
  <2>8. disk' = [disk EXCEPT ![m] = f]
    BY <1>5, <2>5, <2>6
  <2>9. disk' \in [Mint -> FileRec] /\ \A n \in Mint : n # m => disk'[n] = disk[n]
    BY <1>1, <2>7, <2>8 DEF DiskTypes
  <2>10. PICK t \in BOOLEAN : t = TRUE
    OBVIOUS
  <2>11. swept' = [swept EXCEPT ![m] = t]
    BY <1>5, <2>10
  <2>12. /\ swept' \in [Mint -> BOOLEAN] /\ swept'[m]
         /\ \A n \in Mint : swept[n] => swept'[n]
    BY <1>1, <2>10, <2>11
  <2>13. SweptInv'
    <3>1. SUFFICES ASSUME NEW n \in Mint, disk'[n].swept \/ snapshot'[n].swept \/ copy'[n].swept
                   PROVE  swept'[n] \/ mint'[n].status = "CANCELLED"
      BY DEF SweptInv
    <3>2. CASE n = m
      BY <2>12, <3>2
    <3>3. CASE n # m
      BY <1>1, <1>2, <2>9, <2>12, <3>1, <3>3 DEF SweptInv, toolVars
    <3>4. QED BY <3>2, <3>3
  <2>14. count' \in CountRec /\ (Clean' => Clean)
    BY <1>1, <1>5, NoTrouble
  <2>15. QED BY <1>2, <1>3, <1>4, <2>2, <2>3, <2>4, <2>9, <2>12, <2>13, <2>14, EntryStepInv
            DEF toolVars
<1>6. CASE /\ Enter(m, [entry[m] EXCEPT !.sweeping = FALSE]) /\ UNCHANGED <<disk, swept>>
           /\ Fault \/ UNCHANGED count
  <2>1. PICK e : e = SweepOver(entry[m])
    OBVIOUS
  <2>2. Keeps(entry[m], e)
    BY <1>1, <2>1, EntryChanges
  <2>3. Enter(m, e)
    BY <1>6, <2>1 DEF SweepOver
  <2>4. e \in MintEntryRec
    BY <2>2 DEF Keeps
  <2>5. SweptInv'
    BY <1>1, <1>2, <1>6, MarksKept DEF toolVars
  <2>6. count' \in CountRec /\ (Clean' => Clean)
    BY <1>1, <1>6, FaultCounted, NoTrouble
  <2>7. disk' \in [Mint -> FileRec] /\ swept' \in [Mint -> BOOLEAN]
    BY <1>1, <1>6 DEF DiskTypes
  <2>8. QED BY <1>2, <1>3, <1>4, <2>2, <2>3, <2>4, <2>5, <2>6, <2>7, EntryStepInv DEF toolVars
<1>7. QED BY <1>5, <1>6 DEF Sweep


-----------------------------------------------------------------------------
\* The hub moves a request.

HubStatus == {"INVALID", "SECRET_REVEALED"} \cup MintWaiting \cup MintEnded

\* Every move but a key posted and a deposit confirmed.
MovesOn(m) ==
  /\ mint' \in [Mint -> MintRec] /\ \A n \in Mint : n # m => mint'[n] = mint[n]
  /\ Ended(m) => mint'[m].status = mint[m].status
  /\ ~Unkeyed(m) => ~Unkeyed(m)'
  /\ mint'[m].status \in Keyed => mint[m].status \in Keyed
  /\ mint'[m].status = "READY" => mint[m].status = "READY"

LEMMA StatusSet ==
  ASSUME HubMintTypes, NEW m \in Mint, NEW q \in MintRec, mint' = [mint EXCEPT ![m] = q]
  PROVE  mint' \in [Mint -> MintRec] /\ mint'[m] = q /\ \A n \in Mint : n # m => mint'[n] = mint[n]
BY DEF HubMintTypes

LEMMA MovedRecord ==
  ASSUME HubMintTypes, NEW m \in Mint, NEW s \in HubStatus
  PROVE  MintMoves(m, s) \in MintRec /\ MintMoves(m, s).status = s
<1>1. PICK f \in BOOLEAN : f = FALSE
  OBVIOUS
<1>2. PICK q \in MintRec : q = mint[m]
  BY DEF HubMintTypes
<1>3. PICK p : p = [q EXCEPT !.status = s, !.expired = f]
  OBVIOUS
<1>4. p \in MintRec /\ p.status = s
  BY <1>2, <1>3 DEF MintRec, HubStatus
<1>5. MintMoves(m, s) = p
  BY <1>1, <1>2, <1>3 DEF MintMoves
<1>6. QED BY <1>4, <1>5

LEMMA StatusMoves ==
  ASSUME HubMintTypes, NEW m \in Mint, NEW from, NEW to \in HubStatus, Moves(m, from, to)
  PROVE  /\ mint' \in [Mint -> MintRec] /\ \A n \in Mint : n # m => mint'[n] = mint[n]
         /\ mint[m].status = from /\ mint'[m].status = to
<1>1. MintMoves(m, to) \in MintRec /\ MintMoves(m, to).status = to
  BY MovedRecord
<1>2. mint' = [mint EXCEPT ![m] = MintMoves(m, to)] /\ mint[m].status = from
  BY DEF Moves
<1>3. QED BY <1>1, <1>2, StatusSet

LEMMA RevealMoves ==
  ASSUME HubMintTypes, NEW m \in Mint, RevealMint(m)
  PROVE  /\ mint' \in [Mint -> MintRec] /\ \A n \in Mint : n # m => mint'[n] = mint[n]
         /\ mint[m].status = "READY" /\ mint'[m].status = "SECRET_REVEALED"
<1>1. PICK t \in BOOLEAN : t = TRUE
  OBVIOUS
<1>2. PICK p : p = MintMoves(m, "SECRET_REVEALED")
  OBVIOUS
<1>3. p \in MintRec /\ p.status = "SECRET_REVEALED"
  BY <1>2, MovedRecord DEF HubStatus
<1>4. PICK q : q = [p EXCEPT !.userSecret = t]
  OBVIOUS
<1>5. q \in MintRec /\ q.status = "SECRET_REVEALED"
  BY <1>3, <1>4 DEF MintRec
<1>6. mint' = [mint EXCEPT ![m] = q] /\ mint[m].status = "READY"
  BY <1>1, <1>2, <1>4 DEF RevealMint
<1>7. QED BY <1>5, <1>6, StatusSet

LEMMA PublishMoves ==
  ASSUME HubMintTypes, NEW m \in Mint, PublishLpSecret(m)
  PROVE  /\ mint' \in [Mint -> MintRec] /\ \A n \in Mint : n # m => mint'[n] = mint[n]
         /\ mint[m].status \in {"KEY_PROVIDED", "KEY_CANCELLED", "EXPIRED_READY"}
         /\ mint'[m].status = "CANCELLED"
<1>1. PICK t \in BOOLEAN : t = TRUE
  OBVIOUS
<1>2. PICK p : p = MintMoves(m, "CANCELLED")
  OBVIOUS
<1>3. p \in MintRec /\ p.status = "CANCELLED"
  BY <1>2, MovedRecord DEF HubStatus, MintEnded
<1>4. PICK q : q = [p EXCEPT !.lpSecret = t]
  OBVIOUS
<1>5. q \in MintRec /\ q.status = "CANCELLED"
  BY <1>3, <1>4 DEF MintRec
<1>6. mint' = [mint EXCEPT ![m] = q]
  BY <1>1, <1>2, <1>4 DEF PublishLpSecret
<1>7. mint[m].status \in {"KEY_PROVIDED", "KEY_CANCELLED", "EXPIRED_READY"}
  BY DEF PublishLpSecret
<1>8. QED BY <1>5, <1>6, <1>7, StatusSet

LEMMA ReclaimMoves ==
  ASSUME HubMintTypes, NEW m \in Mint, ReclaimMint(m)
  PROVE  /\ mint' \in [Mint -> MintRec] /\ \A n \in Mint : n # m => mint'[n] = mint[n]
         /\ mint[m].status \in {"KEY_CANCELLED", "EXPIRED_READY"} /\ mint'[m].status = "CANCELLED"
<1>1. MintMoves(m, "CANCELLED") \in MintRec /\ MintMoves(m, "CANCELLED").status = "CANCELLED"
  BY MovedRecord DEF HubStatus, MintEnded
<1>2. /\ mint' = [mint EXCEPT ![m] = MintMoves(m, "CANCELLED")]
      /\ mint[m].status \in {"KEY_CANCELLED", "EXPIRED_READY"}
  BY DEF ReclaimMint
<1>3. QED BY <1>1, <1>2, StatusSet

LEMMA ExpireMoves ==
  ASSUME HubMintTypes, NEW m \in Mint, ExpireMints({m})
  PROVE  /\ mint' \in [Mint -> MintRec] /\ \A n \in Mint : n # m => mint'[n] = mint[n]
         /\ mint'[m].status = mint[m].status
<1>1. PICK t \in BOOLEAN : t = TRUE
  OBVIOUS
<1>2. PICK p \in MintRec : p = mint[m]
  BY DEF HubMintTypes
<1>3. PICK q : q = [p EXCEPT !.expired = t]
  OBVIOUS
<1>4. q \in MintRec /\ q.status = p.status
  BY <1>2, <1>3 DEF MintRec
<1>5. mint' = [n \in Mint |-> IF n = m THEN q ELSE mint[n]]
  BY <1>1, <1>2, <1>3 DEF ExpireMints
<1>6. QED BY <1>2, <1>4, <1>5 DEF HubMintTypes

LEMMA HubMoves ==
  ASSUME HubMintTypes, NEW m \in Mint,
         \/ RequestMint(m) \/ RevealMint(m) \/ CompleteMint(m) \/ VoidMint(m)
         \/ CancelExpired(m) \/ PublishLpSecret(m) \/ ReclaimMint(m) \/ ExpireMints({m})
  PROVE  MovesOn(m)
<1> USE DEF MovesOn, Ended, Unkeyed, MintEnded, Keyed
<1>1. CASE RequestMint(m)
  <2>1. /\ mint' \in [Mint -> MintRec] /\ \A n \in Mint : n # m => mint'[n] = mint[n]
        /\ mint[m].status = "INVALID" /\ mint'[m].status = "PENDING"
    BY <1>1, StatusMoves DEF RequestMint, HubStatus, MintWaiting
  <2>2. QED BY <2>1
<1>2. CASE RevealMint(m)
  <2>1. QED BY <1>2, RevealMoves
<1>3. CASE CompleteMint(m)
  <2>1. /\ mint' \in [Mint -> MintRec] /\ \A n \in Mint : n # m => mint'[n] = mint[n]
        /\ mint[m].status = "SECRET_REVEALED" /\ mint'[m].status = "COMPLETED"
    BY <1>3, StatusMoves DEF CompleteMint, HubStatus
  <2>2. QED BY <2>1
<1>4. CASE VoidMint(m)
  <2>1. /\ mint' \in [Mint -> MintRec] /\ \A n \in Mint : n # m => mint'[n] = mint[n]
        /\ mint[m].status = "SECRET_REVEALED" /\ mint'[m].status = "CANCELLED"
    BY <1>4, StatusMoves DEF VoidMint, HubStatus
  <2>2. QED BY <2>1
<1>5. CASE CancelExpired(m)
  <2>1. /\ mint' \in [Mint -> MintRec] /\ \A n \in Mint : n # m => mint'[n] = mint[n]
        /\ \/ mint[m].status = "PENDING" /\ mint'[m].status = "CANCELLED"
           \/ mint[m].status = "KEY_PROVIDED" /\ mint'[m].status = "KEY_CANCELLED"
           \/ mint[m].status = "READY" /\ mint'[m].status = "EXPIRED_READY"
    BY <1>5, StatusMoves DEF CancelExpired, HubStatus, MintWaiting
  <2>2. QED BY <2>1
<1>6. CASE PublishLpSecret(m)
  <2>1. QED BY <1>6, PublishMoves
<1>7. CASE ReclaimMint(m)
  <2>1. QED BY <1>7, ReclaimMoves
<1>8. CASE ExpireMints({m})
  <2>1. QED BY <1>8, ExpireMoves
<1>9. QED BY <1>1, <1>2, <1>3, <1>4, <1>5, <1>6, <1>7, <1>8


\* What the poller has to read of a move of m.
SeesOnly(m) ==
  \A n \in Mint : <<"cancelled", n>> \in unseen' =>
    <<"cancelled", n>> \in unseen \/ (n = m /\ mint'[m].status = "CANCELLED")

LEMMA SeenOnly ==
  ASSUME NEW m \in Mint, Seen(m)
  PROVE  SeesOnly(m)
<1>1. SUFFICES ASSUME NEW n \in Mint, <<"cancelled", n>> \in unseen', <<"cancelled", n>> \notin unseen
               PROVE  n = m /\ mint'[m].status = "CANCELLED"
  BY DEF SeesOnly
<1>2. \/ <<"cancelled", n>> \in {<<"initiated", m>>, <<"finalized", m>>, <<"keyCancelled", m>>}
      \/ <<"cancelled", n>> = <<"cancelled", m>> /\ mint'[m].status = "CANCELLED"
  BY <1>1 DEF Seen
<1>3. QED BY <1>2

LEMMA MovesForward ==
  ASSUME NEW m \in Mint, MovesOn(m), UNCHANGED <<posted, paid, given>>,
         \A n \in Mint : n \in lost => n \in lost', NEW n \in Mint
  PROVE  /\ Forward(n)
         /\ mint'[n].status \in Keyed => mint[n].status \in Keyed
         /\ mint'[n].status = "READY" => mint[n].status = "READY"
         /\ mint[n].status = "CANCELLED" => mint'[n].status = "CANCELLED"
<1>1. /\ Ended(n) => mint'[n].status = mint[n].status
      /\ ~Unkeyed(n) => ~Unkeyed(n)'
      /\ mint'[n].status \in Keyed => mint[n].status \in Keyed
      /\ mint'[n].status = "READY" => mint[n].status = "READY"
  <2>1. CASE n = m
    BY <2>1 DEF MovesOn
  <2>2. CASE n # m
    <3>1. mint'[n] = mint[n]
      BY <2>2 DEF MovesOn
    <3>2. QED BY <3>1 DEF Unkeyed
  <2>3. QED BY <2>1, <2>2
<1>2. Ended(n) => Ended(n)'
  BY <1>1 DEF Ended
<1>3. Covered(n) => Covered(n)'
  BY <1>1 DEF Covered, Verifiable
<1>4. mint[n].status = "CANCELLED" => mint'[n].status = "CANCELLED"
  BY <1>1 DEF Ended, MintEnded
<1>5. QED BY <1>1, <1>2, <1>3, <1>4 DEF Forward

\* A request that moves on leaves everything sound, whoever moves it.
LEMMA HubStepInv ==
  ASSUME LpMintsInv, NEW m \in Mint, MovesOn(m), SeesOnly(m),
         UNCHANGED <<posted, paid, given, swept, txs, run, disk, snapshot, copy>>,
         \A n \in Mint : n \in lost => n \in lost',
         count' \in CountRec, Clean' => Clean,
         MintEntryTypes', \A n \in Mint : EntryForward(n)
  PROVE  LpMintsInv'
<1>1. LpMintTypes /\ SweptInv
  BY DEF LpMintsInv
<1>2. LpMintTypes'
  BY <1>1 DEF LpMintTypes, HubMintTypes, RunTypes, DiskTypes, MovesOn
<1>3. SweptInv'
  BY <1>1, MovesForward DEF SweptInv
<1>4. \A n \in Mint : Forward(n)
  BY MovesForward
<1>5. ASSUME Clean' PROVE \A n \in Mint : MintSound(n)'
  <2>1. TAKE n \in Mint
  <2>2. MintSound(n)
    BY <1>5 DEF LpMintsInv, DepositInv, MintsSound
  <2>3. Forward(n) /\ EntryForward(n)
    BY <1>4
  <2>4. mint'[n].status \in Keyed => posted'[n] # 0
    BY <2>2, MovesForward DEF MintSound
  <2>5. <<"cancelled", n>> \in unseen' => mint'[n].status = "CANCELLED"
    BY <2>2, MovesForward DEF MintSound, SeesOnly
  <2>6. entry'[n].tracked => entry'[n].known \/ Ended(n)'
    BY <2>2, <2>3 DEF MintSound, Forward, EntryForward
  <2>7. mint'[n].status = "READY" => Covered(n)'
    BY <2>2, <2>3, MovesForward DEF MintSound, Forward
  <2>8. QED BY <2>4, <2>5, <2>6, <2>7 DEF MintSound
<1>6. (\A j \in Run : run'[j] = run[j]) /\ (\A t \in txs' : t \in txs)
  OBVIOUS
<1>7. QED BY <1>2, <1>3, <1>4, <1>5, <1>6, MintStepInv

LEMMA EntriesForward ==
  ASSUME UNCHANGED entry
  PROVE  \A n \in Mint : EntryForward(n)
BY DEF EntryForward

LEMMA OthersSound ==
  ASSUME LpMintsInv, UNCHANGED toolVars, LostNoted, NEW m \in Mint, Others(m)
  PROVE  LpMintsInv'
<1>1. LpMintTypes /\ HubMintTypes /\ MintEntryTypes /\ count \in CountRec
  BY DEF LpMintsInv, LpMintTypes
<1>2. UNCHANGED <<posted, paid, given, swept, txs, run, disk, snapshot, copy, entry, count>>
  BY DEF Others, serverVars, toolVars
<1>3. MovesOn(m)
  BY <1>1, HubMoves DEF Others
<1>4. SeesOnly(m)
  BY SeenOnly DEF Others
<1>5. MintEntryTypes' /\ \A n \in Mint : n \in lost => n \in lost'
  BY <1>1, <1>2 DEF MintEntryTypes, LostNoted
<1>6. count' \in CountRec /\ (Clean' => Clean)
  BY <1>1, <1>2, NoTrouble
<1>7. QED BY <1>2, <1>3, <1>4, <1>5, <1>6, EntriesForward, HubStepInv

LEMMA ResolveSound ==
  ASSUME LpMintsInv, UNCHANGED toolVars, LostNoted, NEW m \in Mint, Resolve(m)
  PROVE  LpMintsInv'
<1>1. /\ LpMintTypes /\ SweptInv /\ HubMintTypes /\ MintEntryTypes /\ DiskTypes
      /\ count \in CountRec
  BY DEF LpMintsInv, LpMintTypes
<1>2. UNCHANGED <<posted, paid, given, swept, txs, run, disk, snapshot, copy, entry>>
  BY DEF Resolve, toolVars
<1>3. MintEntryTypes' /\ \A n \in Mint : n \in lost => n \in lost'
  BY <1>1, <1>2 DEF MintEntryTypes, LostNoted
<1>4. CASE CancelExpired(m) /\ Seen(m) /\ UNCHANGED count
  <2>1. MovesOn(m) /\ SeesOnly(m)
    BY <1>1, <1>4, HubMoves, SeenOnly
  <2>2. count' \in CountRec /\ (Clean' => Clean)
    BY <1>1, <1>4, NoTrouble
  <2>3. QED BY <1>2, <1>3, <2>1, <2>2, EntriesForward, HubStepInv
<1>5. CASE (Fault \/ UNCHANGED count) /\ UNCHANGED <<mint, unseen>>
  <2>1. HubAlone
    BY <1>2, <1>5, LeavesHub
  <2>2. SweptInv'
    BY <1>1, <1>2, <1>5, MarksKept
  <2>3. count' \in CountRec /\ (Clean' => Clean)
    BY <1>1, <1>5, FaultCounted, NoTrouble
  <2>4. /\ disk' \in [Mint -> FileRec] /\ snapshot' \in [Mint -> FileRec]
        /\ swept' \in [Mint -> BOOLEAN]
    BY <1>1, <1>2 DEF LpMintTypes, DiskTypes
  <2>5. QED BY <1>2, <2>1, <2>2, <2>3, <2>4, EmptyEntries, EntryStepInv
<1>6. QED BY <1>4, <1>5 DEF Resolve

LEMMA SeeKeyCancelledSound ==
  ASSUME LpMintsInv, UNCHANGED toolVars, LostNoted, NEW m \in Mint, SeeKeyCancelled(m)
  PROVE  LpMintsInv'
<1>1. /\ LpMintTypes /\ SweptInv /\ HubMintTypes /\ MintEntryTypes /\ DiskTypes
      /\ count \in CountRec
  BY DEF LpMintsInv, LpMintTypes
<1>2. UNCHANGED <<posted, paid, given, swept, txs, run, disk, snapshot, copy>>
  BY DEF SeeKeyCancelled, toolVars
<1>3. \A n \in Mint : n \in lost => n \in lost'
  BY DEF LostNoted
<1>4. CASE /\ PublishLpSecret(m)
           /\ unseen' = (unseen \ {<<"keyCancelled", m>>}) \cup {<<"cancelled", m>>}
           /\ Enter(m, NoEntry) /\ UNCHANGED count
  <2>1. MovesOn(m) /\ mint'[m].status = "CANCELLED"
    BY <1>1, <1>4, HubMoves, PublishMoves
  <2>2. SeesOnly(m)
    BY <1>4, <2>1 DEF SeesOnly
  <2>3. MintEntryTypes' /\ \A n \in Mint : n # m => entry'[n] = entry[n]
    BY <1>1, <1>4, EmptyEntries, EnterEntry
  <2>4. Ended(m)'
    BY <2>1 DEF Ended, MintEnded
  <2>5. \A n \in Mint : EntryForward(n)
    BY <2>3, <2>4 DEF EntryForward
  <2>6. count' \in CountRec /\ (Clean' => Clean)
    BY <1>1, <1>4, NoTrouble
  <2>7. QED BY <1>2, <1>3, <2>1, <2>2, <2>3, <2>5, <2>6, HubStepInv
<1>5. CASE /\ unseen' = unseen \ {<<"keyCancelled", m>>} /\ UNCHANGED <<mint, entry>>
           /\ Fault \/ UNCHANGED count
  <2>1. HubAlone
    BY <1>2, <1>3, <1>5 DEF HubAlone
  <2>2. SweptInv'
    BY <1>1, <1>2, <1>5, MarksKept
  <2>3. count' \in CountRec /\ (Clean' => Clean)
    BY <1>1, <1>5, FaultCounted, NoTrouble
  <2>4. /\ disk' \in [Mint -> FileRec] /\ snapshot' \in [Mint -> FileRec]
        /\ swept' \in [Mint -> BOOLEAN]
    BY <1>1, <1>2 DEF LpMintTypes, DiskTypes
  <2>5. QED BY <1>2, <1>5, <2>1, <2>2, <2>3, <2>4, EmptyEntries, EntryStepInv
<1>6. QED BY <1>4, <1>5 DEF SeeKeyCancelled


LEMMA RecoverSound ==
  ASSUME LpMintsInv, UNCHANGED toolVars, LostNoted, NEW m \in Mint, Recover(m)
  PROVE  LpMintsInv'
<1>1. /\ LpMintTypes /\ SweptInv /\ HubMintTypes /\ MintEntryTypes /\ DiskTypes
      /\ count \in CountRec
  BY DEF LpMintsInv, LpMintTypes
<1>2. UNCHANGED <<posted, paid, given, swept, txs, disk, snapshot, copy>>
  BY DEF Recover, toolVars
<1>3. \A n \in Mint : n \in lost => n \in lost'
  BY DEF LostNoted
<1>4. CASE /\ CancelExpired(m) \/ PublishLpSecret(m)
           /\ Seen(m) /\ UNCHANGED <<entry, run, count>>
  <2>1. MovesOn(m) /\ SeesOnly(m)
    BY <1>1, <1>4, HubMoves, SeenOnly
  <2>2. count' \in CountRec /\ (Clean' => Clean)
    BY <1>1, <1>4, NoTrouble
  <2>3. MintEntryTypes'
    BY <1>1, <1>4 DEF MintEntryTypes
  <2>4. QED BY <1>2, <1>3, <1>4, <2>1, <2>2, <2>3, EntriesForward, HubStepInv
<1>5. CASE /\ mint[m].status = "PENDING" \/ mint[m].status = "KEY_PROVIDED"
           /\ Enter(m, [NewEntry EXCEPT !.keyPosted = (mint[m].status = "KEY_PROVIDED")])
           /\ StartRun(m, mint[m].status = "PENDING", "recovery", 0)
           /\ UNCHANGED <<mint, unseen, count>>
  <2>1. HubAlone
    BY <1>2, <1>5, LeavesHub
  <2>2. PICK k \in BOOLEAN : k = (mint[m].status = "KEY_PROVIDED")
    OBVIOUS
  <2>3. PICK e : e = [NewEntry EXCEPT !.keyPosted = k]
    OBVIOUS
  <2>4. e \in MintEntryRec /\ e.known
    BY <2>3, EmptyEntries DEF MintEntryRec
  <2>5. Enter(m, e)
    BY <1>5, <2>2, <2>3
  <2>6. PICK fresh \in BOOLEAN : fresh = (mint[m].status = "PENDING")
    OBVIOUS
  <2>7. PICK z \in Nat : z = 0
    OBVIOUS
  <2>8. StartRun(m, fresh, "recovery", z)
    BY <1>5, <2>6, <2>7
  <2>9. fresh \/ ~Unkeyed(m)
    BY <1>5, <2>6 DEF Unkeyed
  <2>10. QED BY <1>2, <1>5, <2>1, <2>4, <2>5, <2>8, <2>9, RunStarts
<1>6. CASE /\ Trouble("drops") \/ UNCHANGED count
           /\ UNCHANGED <<mint, unseen, entry, run>>
  <2>1. HubAlone
    BY <1>2, <1>6, LeavesHub
  <2>2. SweptInv'
    BY <1>1, <1>2, <1>6, MarksKept
  <2>3. count' \in CountRec /\ (Clean' => Clean)
    BY <1>1, <1>6, TroubleCounted, NoTrouble
  <2>4. /\ disk' \in [Mint -> FileRec] /\ snapshot' \in [Mint -> FileRec]
        /\ swept' \in [Mint -> BOOLEAN]
    BY <1>1, <1>2 DEF LpMintTypes, DiskTypes
  <2>5. QED BY <1>2, <1>6, <2>1, <2>2, <2>3, <2>4, EmptyEntries, EntryStepInv
<1>7. QED BY <1>4, <1>5, <1>6 DEF Recover

\* A copy of the file in which one more is marked, as swept or as lost for good.
Marked(f) == [f EXCEPT !.swept = TRUE]
GivenUp(f) == [f EXCEPT !.unrecoverable = TRUE]

LEMMA FileMarks ==
  ASSUME NEW f \in FileRec
  PROVE  /\ Marked(f) \in FileRec
         /\ GivenUp(f) \in FileRec /\ GivenUp(f).swept = f.swept
<1>1. PICK t \in BOOLEAN : t = TRUE
  OBVIOUS
<1>2. PICK g : g = [f EXCEPT !.swept = t]
  OBVIOUS
<1>3. g \in FileRec
  BY <1>2 DEF FileRec
<1>4. PICK h : h = [f EXCEPT !.unrecoverable = t]
  OBVIOUS
<1>5. h \in FileRec /\ h.swept = f.swept
  BY <1>4 DEF FileRec
<1>6. Marked(f) = g
  BY <1>1, <1>2 DEF Marked
<1>7. GivenUp(f) = h
  BY <1>1, <1>4 DEF GivenUp
<1>8. QED BY <1>3, <1>5, <1>6, <1>7

LEMMA FileMarked ==
  ASSUME NEW F \in [Mint -> FileRec], NEW G, NEW m \in Mint, NEW f \in FileRec,
         G = [F EXCEPT ![m] = f]
  PROVE  G \in [Mint -> FileRec] /\ G[m] = f /\ \A n \in Mint : n # m => G[n] = F[n]
OBVIOUS

LEMMA BootSweepSound ==
  ASSUME LpMintsInv, UNCHANGED toolVars, LostNoted, NEW m \in Mint, BootSweep(m)
  PROVE  LpMintsInv'
<1>1. /\ LpMintTypes /\ SweptInv /\ MintEntryTypes /\ DiskTypes /\ count \in CountRec
      /\ swept \in [Mint -> BOOLEAN] /\ snapshot \in [Mint -> FileRec]
  BY DEF LpMintsInv, LpMintTypes
<1>2. UNCHANGED <<mint, posted, paid, given, txs, unseen, disk, copy, run>>
  BY DEF BootSweep, toolVars
<1>3. HubAlone
  BY <1>2, LeavesHub
<1>4. disk' \in [Mint -> FileRec]
  BY <1>1, <1>2 DEF DiskTypes
<1>5. PICK f \in FileRec : f = snapshot[m]
  BY <1>1
<1>6. PICK e : e = [NoEntry EXCEPT !.tracked = TRUE, !.secret = f.secret]
  OBVIOUS
<1>7. e \in MintEntryRec
  <2>1. PICK t \in BOOLEAN : t = TRUE
    OBVIOUS
  <2>2. PICK n \in Nat : n = f.secret
    BY DEF FileRec
  <2>3. e = [NoEntry EXCEPT !.tracked = t, !.secret = n]
    BY <1>6, <2>1, <2>2
  <2>4. QED BY <2>3, EmptyEntries DEF MintEntryRec
<1>8. CASE UNCHANGED <<swept, snapshot>> /\ (Enter(m, e) \/ UNCHANGED entry)
  <2>1. SweptInv'
    BY <1>1, <1>2, <1>8, MarksKept
  <2>2. snapshot' \in [Mint -> FileRec] /\ swept' \in [Mint -> BOOLEAN]
    BY <1>1, <1>8
  <2>3. CASE UNCHANGED count /\ (UNCHANGED entry \/ Ended(m))
    <3>1. count' \in CountRec /\ (Clean' => Clean)
      BY <1>1, <2>3, NoTrouble
    <3>2. QED BY <1>2, <1>3, <1>4, <1>7, <1>8, <2>1, <2>2, <2>3, <3>1, EntryStepInv
  <2>4. CASE Fault
    <3>1. count' \in CountRec /\ ~Clean'
      BY <1>1, <2>4, FaultCounted
    <3>2. QED BY <1>2, <1>3, <1>4, <1>7, <1>8, <2>1, <2>2, <3>1, EntryStepInv
  <2>5. mint[m].status = "COMPLETED" => Ended(m)
    BY DEF Ended, MintEnded
  <2>6. \/ UNCHANGED count /\ (UNCHANGED entry \/ Ended(m))
        \/ Fault
        \/ UNCHANGED entry /\ UNCHANGED count
    BY <2>5 DEF BootSweep
  <2>7. QED BY <2>3, <2>4, <2>6
<1>9. CASE /\ snapshot' = [snapshot EXCEPT ![m].swept = TRUE]
           /\ \/ mint[m].status = "CANCELLED" /\ UNCHANGED swept
              \/ swept' = [swept EXCEPT ![m] = TRUE]
           /\ UNCHANGED <<entry, count>>
  <2>1. PICK g : g = Marked(f)
    OBVIOUS
  <2>2. snapshot' = [snapshot EXCEPT ![m] = g]
    BY <1>5, <1>9, <2>1 DEF Marked
  <2>3. g \in FileRec
    BY <2>1, FileMarks
  <2>4. snapshot' \in [Mint -> FileRec] /\ \A n \in Mint : n # m => snapshot'[n] = snapshot[n]
    BY <1>1, <2>2, <2>3, FileMarked
  <2>5. /\ swept' \in [Mint -> BOOLEAN] /\ (swept'[m] \/ mint'[m].status = "CANCELLED")
        /\ \A n \in Mint : swept[n] => swept'[n]
    BY <1>1, <1>2, <1>9
  <2>6. SweptInv'
    <3>1. SUFFICES ASSUME NEW n \in Mint, disk'[n].swept \/ snapshot'[n].swept \/ copy'[n].swept
                   PROVE  swept'[n] \/ mint'[n].status = "CANCELLED"
      BY DEF SweptInv
    <3>2. CASE n = m
      BY <2>5, <3>2
    <3>3. CASE n # m
      BY <1>1, <1>2, <2>4, <2>5, <3>1, <3>3 DEF SweptInv
    <3>4. QED BY <3>2, <3>3
  <2>7. count' \in CountRec /\ (Clean' => Clean)
    BY <1>1, <1>9, NoTrouble
  <2>8. QED BY <1>2, <1>3, <1>4, <1>7, <1>9, <2>4, <2>5, <2>6, <2>7, EntryStepInv
<1>10. CASE /\ snapshot' = [snapshot EXCEPT ![m].unrecoverable = TRUE]
            /\ UNCHANGED <<entry, swept, count>>
  <2>1. PICK g : g = GivenUp(f)
    OBVIOUS
  <2>2. snapshot' = [snapshot EXCEPT ![m] = g]
    BY <1>5, <1>10, <2>1 DEF GivenUp
  <2>3. g \in FileRec /\ g.swept = f.swept
    BY <2>1, FileMarks
  <2>4. /\ snapshot' \in [Mint -> FileRec] /\ snapshot'[m] = g
        /\ \A n \in Mint : n # m => snapshot'[n] = snapshot[n]
    BY <1>1, <2>2, <2>3, FileMarked
  <2>5. \A n \in Mint : snapshot'[n].swept = snapshot[n].swept
    BY <1>5, <2>3, <2>4
  <2>6. SweptInv'
    BY <1>1, <1>2, <1>10, <2>5 DEF SweptInv
  <2>7. count' \in CountRec /\ (Clean' => Clean)
    BY <1>1, <1>10, NoTrouble
  <2>8. swept' \in [Mint -> BOOLEAN]
    BY <1>1, <1>10
  <2>9. QED BY <1>2, <1>3, <1>4, <1>7, <1>10, <2>4, <2>6, <2>7, <2>8, EntryStepInv
<1>11. QED BY <1>5, <1>6, <1>8, <1>9, <1>10 DEF BootSweep

LEMMA ServerStepsSound ==
  ASSUME LpMintsInv, UNCHANGED toolVars, LostNoted, NEW m \in Mint, ServerSteps(m)
  PROVE  LpMintsInv'
<1>1. CASE \E n \in 1 .. RetryMax : TimerFires(m, n)
  <2>1. PICK n \in 1 .. RetryMax : TimerFires(m, n)
    BY <1>1
  <2>2. n \in Nat
    BY LpMintsAssumption
  <2>3. QED BY <2>1, <2>2, TimerFiresSound
<1>2. QED BY <1>1, PeriodicRetrySound, SeeInitiatedSound, SeeFinalizedSound, SweepSound,
             SeeCancelledSound, SeeKeyCancelledSound, RecoverSound, ResolveSound, BootSweepSound
             DEF ServerSteps


-----------------------------------------------------------------------------
\* The operator's routes, the user and the start of the server.

\* Once a call has failed, nothing is claimed of the deposits.
LEMMA TroubledInv ==
  ASSUME LpMintTypes', SweptInv', ~Clean'
  PROVE  LpMintsInv'
BY DEF LpMintsInv, DepositInv

LEMMA OperatorRuns ==
  ASSUME RunTypes, count \in CountRec, NEW p \in RunRec, p.mint \in Mint, Operator(p)
  PROVE  RunTypes' /\ count' \in CountRec /\ ~Clean'
<1>1. PICK i \in Free : i = FreeRun
  BY DEF Operator, FreeRun
<1>2. i \in Run
  BY DEF Free
<1>3. RunTypes'
  BY <1>1, <1>2, GoesRun DEF Operator
<1>4. QED BY <1>3, TroubleCounted DEF Operator

\* The run of a route, as an operator starts it.
Manual(m, k, w) == [Idle EXCEPT !.pc = "status", !.mint = m, !.key = k, !.by = "manual", !.known = w]

LEMMA ManualRun ==
  ASSUME NEW m \in Mint, NEW k \in Nat, NEW w \in BOOLEAN
  PROVE  Manual(m, k, w) \in RunRec /\ Manual(m, k, w).mint = m
<1>1. PICK p : p = [Idle EXCEPT !.pc = "status", !.mint = m, !.key = k, !.by = "manual", !.known = w]
  OBVIOUS
<1>2. p \in RunRec /\ p.mint = m
  BY <1>1, IdleFields DEF RunRec, RunStates
<1>3. QED BY <1>1, <1>2 DEF Manual

LEMMA PostKeySound ==
  ASSUME LpMintsInv, UNCHANGED toolVars, NEW m \in Mint, PostKey(m)
  PROVE  LpMintsInv'
<1>1. /\ LpMintTypes /\ SweptInv /\ RunTypes /\ MintEntryTypes /\ count \in CountRec
      /\ entry[m].known \in BOOLEAN
  BY EntryFields DEF LpMintsInv, LpMintTypes
<1>2. UNCHANGED <<mint, posted, paid, given, swept, txs, snapshot, disk, copy, entry>>
  BY DEF PostKey, chainVars, toolVars
<1>3. PICK k \in Nat : k = FreshKey
  BY FreshIsKey DEF PostKey
<1>4. PICK w \in BOOLEAN : w = entry[m].known
  BY <1>1
<1>5. PICK p \in RunRec : p = Manual(m, k, w) /\ p.mint = m
  BY ManualRun
<1>6. Operator(p)
  BY <1>3, <1>4, <1>5 DEF PostKey, Manual
<1>7. RunTypes' /\ count' \in CountRec /\ ~Clean'
  BY <1>1, <1>5, <1>6, OperatorRuns
<1>8. LpMintTypes'
  BY <1>1, <1>2, <1>7 DEF LpMintTypes, HubMintTypes, MintEntryTypes, DiskTypes
<1>9. SweptInv'
  BY <1>1, <1>2, MarksKept
<1>10. QED BY <1>7, <1>8, <1>9, TroubledInv

LEMMA PostScanSound ==
  ASSUME LpMintsInv, UNCHANGED toolVars, NEW m \in Mint, PostScan(m)
  PROVE  LpMintsInv'
<1>1. /\ LpMintTypes /\ SweptInv /\ RunTypes /\ MintEntryTypes /\ count \in CountRec
      /\ posted[m] \in Nat /\ entry[m] \in MintEntryRec
      /\ entry[m].tracked \in BOOLEAN /\ entry[m].known \in BOOLEAN
  BY EntryFields DEF LpMintsInv, LpMintTypes
<1>2. UNCHANGED <<mint, posted, paid, given, swept, txs, snapshot, disk, copy>>
  BY DEF PostScan, chainVars, toolVars
<1>3. PICK w \in BOOLEAN : w = (entry[m].tracked => entry[m].known)
  OBVIOUS
<1>4. PICK p \in RunRec : p = Manual(m, posted[m], w) /\ p.mint = m
  BY <1>1, ManualRun
<1>5. Operator(p)
  BY <1>3, <1>4 DEF PostScan, Manual
<1>6. RunTypes' /\ count' \in CountRec /\ ~Clean'
  BY <1>1, <1>4, <1>5, OperatorRuns
<1>7. PICK d : d = [NewEntry EXCEPT !.processing = FALSE, !.keyPosted = TRUE]
  OBVIOUS
<1>8. d \in MintEntryRec
  <2>1. PICK f \in BOOLEAN : f = FALSE
    OBVIOUS
  <2>2. PICK t \in BOOLEAN : t = TRUE
    OBVIOUS
  <2>3. d = [NewEntry EXCEPT !.processing = f, !.keyPosted = t]
    BY <1>7, <2>1, <2>2
  <2>4. QED BY <2>3, EmptyEntries DEF MintEntryRec
<1>9. PICK e : e = IF entry[m].tracked THEN KeyNoted(entry[m]) ELSE d
  OBVIOUS
<1>10. e \in MintEntryRec
  BY <1>1, <1>8, <1>9, EntryChanges DEF Keeps
<1>11. Enter(m, e)
  BY <1>7, <1>9 DEF PostScan, KeyNoted
<1>12. MintEntryTypes'
  BY <1>1, <1>10, <1>11, EnterEntry
<1>13. LpMintTypes'
  BY <1>1, <1>2, <1>6, <1>12 DEF LpMintTypes, HubMintTypes, DiskTypes
<1>14. SweptInv'
  BY <1>1, <1>2, MarksKept
<1>15. QED BY <1>6, <1>13, <1>14, TroubledInv

\* The user pays to the key on the chain, and to no other.
LEMMA PaySound ==
  ASSUME LpMintsInv, UNCHANGED toolVars, LostNoted, NEW m \in Mint, Pay(m)
  PROVE  LpMintsInv'
<1>1. /\ LpMintTypes /\ SweptInv /\ count \in CountRec
      /\ posted \in [Mint -> Nat] /\ paid \in [Mint -> Nat]
  BY DEF LpMintsInv, LpMintTypes
<1>2. UNCHANGED <<mint, posted, given, swept, txs, unseen, snapshot, disk, copy, entry, run, count>>
  BY DEF Pay, serverVars, toolVars
<1>3. /\ paid' \in [Mint -> Nat] /\ paid'[m] = posted[m]
      /\ \A n \in Mint : n # m => paid'[n] = paid[n]
  BY <1>1 DEF Pay
<1>4. LpMintTypes'
  BY <1>1, <1>2, <1>3 DEF LpMintTypes, HubMintTypes, RunTypes, MintEntryTypes, DiskTypes
<1>5. SweptInv'
  BY <1>1, <1>2, MarksKept
<1>6. count' \in CountRec /\ (Clean' => Clean)
  BY <1>1, <1>2, NoTrouble
<1>7. \A n \in Mint : Ended(n)' = Ended(n) /\ Unkeyed(n)' = Unkeyed(n)
  BY <1>2 DEF Ended, Unkeyed
<1>8. \A n \in Mint : Covered(n) => Covered(n)'
  BY <1>2, <1>3, <1>7 DEF Covered, Verifiable, LostNoted
<1>9. \A n \in Mint : Forward(n) /\ EntryForward(n)
  BY <1>2, <1>7, <1>8, EntriesForward DEF Forward, LostNoted
<1>10. ASSUME Clean' PROVE \A n \in Mint : MintSound(n)'
  <2>1. \A n \in Mint : MintSound(n)
    BY <1>6, <1>10 DEF LpMintsInv, DepositInv, MintsSound
  <2>2. QED BY <1>2, <1>7, <1>8, <2>1 DEF MintSound
<1>11. (\A j \in Run : run'[j] = run[j]) /\ (\A t \in txs' : t \in txs)
  BY <1>2
<1>12. QED BY <1>4, <1>5, <1>6, <1>9, <1>10, <1>11, MintStepInv

\* What the user paid gets its confirmations.
LEMMA RipenSound ==
  ASSUME LpMintsInv, UNCHANGED toolVars, LostNoted, NEW m \in Mint, Ripen(m)
  PROVE  LpMintsInv'
<1>1. LpMintTypes /\ SweptInv /\ count \in CountRec
  BY DEF LpMintsInv, LpMintTypes
<1>2. UNCHANGED <<mint, posted, paid, given, swept, txs, unseen, snapshot, disk, copy, entry, run,
                  count>>
  BY DEF Ripen, serverVars, toolVars
<1>3. HubAlone
  BY <1>2, LeavesHub
<1>4. LpMintTypes'
  BY <1>1, <1>2 DEF LpMintTypes, HubMintTypes, RunTypes, MintEntryTypes, DiskTypes
<1>5. SweptInv'
  BY <1>1, <1>2, MarksKept
<1>6. count' \in CountRec /\ (Clean' => Clean)
  BY <1>1, <1>2, NoTrouble
<1>7. (\A j \in Run : run'[j] = run[j]) /\ (\A t \in txs' : t \in txs)
  BY <1>2
<1>8. QED BY <1>2, <1>3, <1>4, <1>5, <1>6, <1>7, EntriesForward, ServerStepInv

LEMMA LoseEventsSound ==
  ASSUME LpMintsInv, UNCHANGED toolVars, LostNoted, NEW kind, LoseEvents(kind), NEW m \in Mint
  PROVE  LpMintsInv'
<1>1. LpMintTypes /\ SweptInv /\ count \in CountRec
  BY DEF LpMintsInv, LpMintTypes
<1>2. /\ UNCHANGED <<mint, posted, paid, given, swept, txs, snapshot, disk, copy, entry, run>>
      /\ \A e \in unseen' : e \in unseen
  BY DEF LoseEvents, chainVars, serverVars, toolVars
<1>3. HubAlone
  BY <1>2 DEF HubAlone, LostNoted
<1>4. SweptInv'
  BY <1>1, <1>2, MarksKept
<1>5. count' \in CountRec /\ (Clean' => Clean)
  BY <1>1, TroubleCounted DEF LoseEvents, MintQueryFails
<1>6. /\ disk' \in [Mint -> FileRec] /\ snapshot' \in [Mint -> FileRec]
      /\ swept' \in [Mint -> BOOLEAN]
  BY <1>1, <1>2 DEF LpMintTypes, DiskTypes
<1>7. QED BY <1>2, <1>3, <1>4, <1>5, <1>6, EmptyEntries, EntryStepInv

\* A crash forgets the runs and the entries; the file and the chain remain.
LEMMA CrashSound ==
  ASSUME LpMintsInv, UNCHANGED toolVars, LostNoted, Crash
  PROVE  LpMintsInv'
<1>1. LpMintTypes /\ SweptInv /\ count \in CountRec
  BY DEF LpMintsInv, LpMintTypes
<1>2. /\ UNCHANGED <<mint, posted, paid, given, swept, txs, unseen, disk, copy>>
      /\ entry' = [m \in Mint |-> NoEntry] /\ run' = [i \in Run |-> Idle]
      /\ snapshot' = [m \in Mint |-> NoFile]
  BY DEF Crash, chainVars, toolVars
<1>3. HubAlone
  BY <1>2, LeavesHub
<1>4. count' \in CountRec /\ (Clean' => Clean)
  BY <1>1, TroubleCounted DEF Crash
<1>5. /\ \A i \in Run : run'[i] = Idle
      /\ \A m \in Mint : entry'[m] = NoEntry /\ snapshot'[m] = NoFile
  BY <1>2
<1>6. RunTypes' /\ MintEntryTypes' /\ snapshot' \in [Mint -> FileRec]
  BY <1>2, IdleFields, EmptyEntries DEF RunTypes, MintEntryTypes
<1>7. LpMintTypes'
  BY <1>1, <1>2, <1>4, <1>6 DEF LpMintTypes, HubMintTypes, DiskTypes
<1>8. SweptInv'
  BY <1>1, <1>2, <1>5, EmptyEntries DEF SweptInv
<1>9. ASSUME Clean' PROVE MintsSound'
  <2>1. MintsSound
    BY <1>4, <1>9 DEF LpMintsInv, DepositInv
  <2>2. ASSUME NEW m \in Mint PROVE MintSound(m)'
    <3>1. MintSound(m) /\ Forward(m)
      BY <1>3, <2>1, HubAloneForward DEF MintsSound
    <3>2. ~entry'[m].tracked
      BY <1>5, EmptyEntries
    <3>3. QED BY <1>2, <3>1, <3>2 DEF MintSound, Forward
  <2>3. \A i \in Run : RunFine(i)'
    BY <1>5, IdleFields DEF RunFine
  <2>4. ASSUME NEW t \in txs' PROVE TxSound(t)'
    <3>1. t \in txs /\ t.mint \in Mint /\ TxSound(t)
      BY <1>1, <1>2, <2>1 DEF LpMintTypes, MintTxRec, MintsSound
    <3>2. Forward(t.mint)
      BY <1>3, <3>1, HubAloneForward
    <3>3. QED BY <3>1, <3>2 DEF TxSound, Forward
  <2>5. QED BY <2>2, <2>3, <2>4 DEF MintsSound
<1>10. QED BY <1>7, <1>8, <1>9 DEF LpMintsInv, DepositInv

\* What a start copies from the file, and what its end writes back, is marked soundly.
LEMMA PhaseStepInv ==
  ASSUME LpMintsInv, LostNoted, UNCHANGED toolVars, UNCHANGED <<chainVars, entry, run, count>>,
         \A e \in unseen' : e \in unseen,
         snapshot' \in {snapshot, disk, [m \in Mint |-> NoFile]}, disk' \in {disk, snapshot}
  PROVE  LpMintsInv'
<1>1. /\ LpMintTypes /\ SweptInv /\ count \in CountRec
      /\ disk \in [Mint -> FileRec] /\ snapshot \in [Mint -> FileRec]
  BY DEF LpMintsInv, LpMintTypes, DiskTypes
<1>2. UNCHANGED <<mint, posted, paid, given, swept, txs, copy, entry, run, count>>
  BY DEF chainVars, toolVars
<1>3. HubAlone
  BY <1>2 DEF HubAlone, LostNoted
<1>4. PICK F : F = [n \in Mint |-> NoFile]
  OBVIOUS
<1>5. F \in [Mint -> FileRec] /\ \A n \in Mint : ~F[n].swept
  BY <1>4, EmptyEntries
<1>6. snapshot' \in {snapshot, disk, F}
  BY <1>4
<1>7. snapshot' \in [Mint -> FileRec] /\ disk' \in [Mint -> FileRec]
  BY <1>1, <1>5, <1>6
<1>8. SweptInv'
  BY <1>1, <1>2, <1>5, <1>6 DEF SweptInv
<1>9. count' \in CountRec /\ (Clean' => Clean)
  BY <1>1, <1>2, NoTrouble
<1>10. LpMintTypes'
  BY <1>1, <1>2, <1>7, <1>9 DEF LpMintTypes, HubMintTypes, RunTypes, MintEntryTypes, DiskTypes
<1>11. (\A j \in Run : run'[j] = run[j]) /\ (\A t \in txs' : t \in txs)
  BY <1>2
<1>12. QED BY <1>2, <1>3, <1>8, <1>9, <1>10, <1>11, EntriesForward, ServerStepInv

LEMMA StartSound ==
  ASSUME LpMintsInv, UNCHANGED toolVars, LostNoted, Start
  PROVE  LpMintsInv'
BY PhaseStepInv DEF Start

LEMMA NextPhaseSound ==
  ASSUME LpMintsInv, UNCHANGED toolVars, LostNoted, NextPhase
  PROVE  LpMintsInv'
BY PhaseStepInv DEF NextPhase


-----------------------------------------------------------------------------
\* A transaction is mined.

Thrown(r) == [r EXCEPT !.pc = "throw"]
KeyMined(r) == [r EXCEPT !.pc = "mined"]

SameRun(r, q) ==
  q \in RunRec /\ q.mint = r.mint /\ q.key = r.key /\ q.secret = r.secret /\ q.known = r.known

LEMMA ReceiptRuns ==
  ASSUME NEW r \in RunRec
  PROVE  /\ SameRun(r, Thrown(r)) /\ Thrown(r).pc = "throw"
         /\ SameRun(r, KeyMined(r)) /\ KeyMined(r).pc = "mined"
<1>1. PICK q : q = [r EXCEPT !.pc = "throw"]
  OBVIOUS
<1>2. SameRun(r, q) /\ q.pc = "throw"
  BY <1>1 DEF SameRun, RunRec, RunStates
<1>3. PICK p : p = [r EXCEPT !.pc = "mined"]
  OBVIOUS
<1>4. SameRun(r, p) /\ p.pc = "mined"
  BY <1>3 DEF SameRun, RunRec, RunStates
<1>5. QED BY <1>1, <1>2, <1>3, <1>4 DEF Thrown, KeyMined

\* Who waits for the receipt of t.
Waiting(i, t) ==
  /\ i = t.run /\ run[i].mint = t.mint /\ run[i].pc = [provide |-> "wait", ready |-> "readywait"][t.kind]
  /\ t.kind = "ready" \/ run[i].key = t.key

\* What the receipt does to the runs: to one at most, which waits.
Received(t, ok) ==
  /\ run' = [i \in Run |-> run'[i]]
  /\ \A i \in Run :
       \/ run'[i] = run[i]
       \/ Waiting(i, t) /\ run'[i] = IF ~ok THEN Thrown(run[i])
                                     ELSE IF t.kind = "ready" THEN Idle ELSE KeyMined(run[i])

LEMMA ReceivedTypes ==
  ASSUME RunTypes, NEW t \in MintTxRec, NEW ok, Received(t, ok)
  PROVE  RunTypes'
<1>1. ASSUME NEW i \in Run
      PROVE  run'[i] \in RunRec /\ (run'[i].pc # "idle" => run'[i].mint \in Mint)
  <2>1. run[i] \in RunRec /\ (run[i].pc # "idle" => run[i].mint \in Mint)
    BY RunFields
  <2>2. CASE run'[i] = run[i]
    BY <2>1, <2>2
  <2>3. CASE /\ Waiting(i, t)
             /\ run'[i] \in {Thrown(run[i]), Idle, KeyMined(run[i])}
    <3>1. run[i].mint \in Mint
      BY <2>3 DEF Waiting, MintTxRec
    <3>2. QED BY <2>1, <2>3, <3>1, ReceiptRuns, IdleFields DEF SameRun
  <2>4. QED BY <2>2, <2>3 DEF Received
<1>2. QED BY <1>1 DEF RunTypes, Received

LEMMA MineReceived ==
  ASSUME NEW t, Mine(t)
  PROVE  /\ t \in txs /\ txs' = txs \ {t}
         /\ UNCHANGED <<paid, given, swept, unseen, entry, snapshot, disk>>
         /\ \/ /\ t.kind = "provide" /\ ProvideKey(t.mint) /\ Received(t, TRUE)
               /\ posted' = [posted EXCEPT ![t.mint] = t.key] /\ UNCHANGED count
            \/ /\ t.kind = "ready" /\ MarkReady(t.mint) /\ Received(t, TRUE)
               /\ UNCHANGED <<posted, count>>
            \/ Received(t, FALSE) /\ UNCHANGED <<mint, posted>> /\ (UNCHANGED count \/ Refused)
<1>1. PICK w : w = [provide |-> "wait", ready |-> "readywait"][t.kind]
  OBVIOUS
<1>2. ASSUME run' = [i \in Run |->
               IF /\ i = t.run /\ run[i].mint = t.mint /\ run[i].pc = w
                  /\ t.kind = "ready" \/ run[i].key = t.key
               THEN IF t.kind = "ready" THEN Idle ELSE [run[i] EXCEPT !.pc = "mined"]
               ELSE run[i]]
      PROVE  Received(t, TRUE)
  <2>1. \A i \in Run : run'[i] = IF Waiting(i, t)
                                 THEN IF t.kind = "ready" THEN Idle ELSE KeyMined(run[i])
                                 ELSE run[i]
    BY <1>1, <1>2 DEF Waiting, KeyMined
  <2>2. run' = [i \in Run |-> run'[i]]
    BY <1>2
  <2>3. QED BY <2>1, <2>2 DEF Received
<1>3. ASSUME run' = [i \in Run |->
               IF /\ i = t.run /\ run[i].mint = t.mint /\ run[i].pc = w
                  /\ t.kind = "ready" \/ run[i].key = t.key
               THEN [run[i] EXCEPT !.pc = "throw"]
               ELSE run[i]]
      PROVE  Received(t, FALSE)
  <2>1. \A i \in Run : run'[i] = IF Waiting(i, t) THEN Thrown(run[i]) ELSE run[i]
    BY <1>1, <1>3 DEF Waiting, Thrown
  <2>2. run' = [i \in Run |-> run'[i]]
    BY <1>3
  <2>3. QED BY <2>1, <2>2 DEF Received
<1>4. QED BY <1>1, <1>2, <1>3 DEF Mine

\* A key comes on the chain: the run that sent it has its secret.
LEMMA KeyMinedSound ==
  ASSUME LpMintsInv, UNCHANGED toolVars, LostNoted, NEW t \in txs, txs' = txs \ {t},
         UNCHANGED <<paid, given, swept, unseen, entry, snapshot, disk, count>>,
         t.kind = "provide", ProvideKey(t.mint), Received(t, TRUE),
         posted' = [posted EXCEPT ![t.mint] = t.key]
  PROVE  LpMintsInv'
<1>1. /\ LpMintTypes /\ SweptInv /\ count \in CountRec /\ HubMintTypes /\ RunTypes
      /\ t \in MintTxRec /\ posted \in [Mint -> Nat]
  BY DEF LpMintsInv, LpMintTypes
<1>2. PICK m \in Mint : m = t.mint
  BY <1>1 DEF MintTxRec
<1>3. PICK k \in Nat : k = t.key
  BY <1>1 DEF MintTxRec
<1>4. /\ mint' \in [Mint -> MintRec] /\ \A n \in Mint : n # m => mint'[n] = mint[n]
      /\ mint[m].status = "PENDING" /\ mint'[m].status = "KEY_PROVIDED"
  BY <1>1, <1>2, StatusMoves DEF ProvideKey, HubStatus, MintWaiting
<1>5. posted' \in [Mint -> Nat] /\ posted'[m] = k /\ \A n \in Mint : n # m => posted'[n] = posted[n]
  BY <1>1, <1>2, <1>3
<1>6. RunTypes'
  BY <1>1, ReceivedTypes
<1>7. LpMintTypes'
  BY <1>1, <1>4, <1>5, <1>6 DEF LpMintTypes, HubMintTypes, MintEntryTypes, DiskTypes, toolVars
<1>8. SweptInv'
  <2>1. \A n \in Mint : mint[n].status = "CANCELLED" => mint'[n].status = "CANCELLED"
    BY <1>4
  <2>2. QED BY <1>1, <2>1 DEF SweptInv, toolVars
<1>9. count' \in CountRec /\ (Clean' => Clean)
  BY <1>1, NoTrouble
<1>10. Unkeyed(m) /\ ~Ended(m) /\ ~Unkeyed(m)'
  BY <1>4 DEF Unkeyed, Ended, MintEnded
<1>11. ASSUME NEW n \in Mint PROVE Forward(n)
  <2>1. n \in lost => n \in lost'
    BY DEF LostNoted
  <2>2. CASE n = m
    BY <1>10, <2>1, <2>2 DEF Forward, Covered, Verifiable
  <2>3. CASE n # m
    <3>1. mint'[n] = mint[n] /\ posted'[n] = posted[n] /\ paid'[n] = paid[n]
      BY <1>4, <1>5, <2>3
    <3>2. Ended(n)' = Ended(n) /\ Unkeyed(n)' = Unkeyed(n)
      BY <3>1 DEF Ended, Unkeyed
    <3>3. QED BY <2>1, <3>1, <3>2 DEF Forward, Covered, Verifiable
  <2>4. QED BY <2>2, <2>3
<1>12. ASSUME Clean'
       PROVE  /\ \A n \in Mint : MintSound(n)'
              /\ \A i \in Run : run'[i] = run[i] \/ RunFine(i)'
  <2>1. MintsSound
    BY <1>9, <1>12 DEF LpMintsInv, DepositInv
  <2>2. k # 0
    BY <1>2, <1>3, <1>10, <2>1 DEF MintsSound, TxSound
  <2>3. ASSUME NEW n \in Mint PROVE MintSound(n)'
    <3>1. MintSound(n)
      BY <2>1 DEF MintsSound
    <3>2. CASE n = m
      <4>1. entry'[m].tracked => entry'[m].known
        BY <1>10, <3>1, <3>2 DEF MintSound
      <4>2. <<"cancelled", m>> \notin unseen'
        BY <1>4, <3>1, <3>2 DEF MintSound
      <4>3. QED BY <1>4, <1>5, <2>2, <3>2, <4>1, <4>2 DEF MintSound
    <3>3. CASE n # m
      <4>1. mint'[n] = mint[n] /\ posted'[n] = posted[n]
        BY <1>4, <1>5, <3>3
      <4>2. Ended(n)' = Ended(n)
        BY <4>1 DEF Ended
      <4>3. Covered(n) => Covered(n)'
        BY <1>11 DEF Forward
      <4>4. QED BY <3>1, <4>1, <4>2, <4>3 DEF MintSound
    <3>4. QED BY <3>2, <3>3
  <2>4. ASSUME NEW i \in Run, run'[i] # run[i] PROVE RunFine(i)'
    <3>1. Waiting(i, t) /\ run'[i] = KeyMined(run[i])
      BY <2>4 DEF Received
    <3>2. run[i].mint = m /\ run[i].pc = "wait" /\ run[i].key = k
      BY <1>2, <1>3, <3>1 DEF Waiting
    <3>3. RunSound(i)
      BY <1>10, <2>1, <3>2 DEF MintsSound, RunFine
    <3>4. /\ run[i].known /\ entry[m].known /\ run[i].secret = run[i].key
      BY <3>2, <3>3 DEF RunSound
    <3>5. PICK q : q = run'[i]
      OBVIOUS
    <3>6. /\ q.pc = "mined" /\ q.mint = m /\ q.key = k /\ q.secret = k /\ q.known
      BY <1>1, <3>1, <3>2, <3>4, <3>5, RunFields, ReceiptRuns DEF SameRun
    <3>7. RunSound(i)'
      BY <1>5, <1>10, <3>4, <3>5, <3>6 DEF RunSound
    <3>8. QED BY <3>7 DEF RunFine
  <2>5. QED BY <2>3, <2>4
<1>13. \A s \in txs' : s \in txs
  OBVIOUS
<1>14. QED BY <1>7, <1>8, <1>9, <1>11, <1>12, <1>13, EntriesForward, MintStepInv

LEMMA ReadyMinedSound ==
  ASSUME LpMintsInv, UNCHANGED toolVars, LostNoted, NEW t \in txs, txs' = txs \ {t},
         UNCHANGED <<posted, paid, given, swept, unseen, entry, snapshot, disk, count>>,
         t.kind = "ready", MarkReady(t.mint), Received(t, TRUE)
  PROVE  LpMintsInv'
<1>1. /\ LpMintTypes /\ SweptInv /\ count \in CountRec /\ HubMintTypes /\ RunTypes
      /\ t \in MintTxRec
  BY DEF LpMintsInv, LpMintTypes
<1>2. PICK m \in Mint : m = t.mint
  BY <1>1 DEF MintTxRec
<1>3. /\ mint' \in [Mint -> MintRec] /\ \A n \in Mint : n # m => mint'[n] = mint[n]
      /\ mint[m].status = "KEY_PROVIDED" /\ mint'[m].status = "READY"
  BY <1>1, <1>2, StatusMoves DEF MarkReady, HubStatus, MintWaiting
<1>4. RunTypes'
  BY <1>1, ReceivedTypes
<1>5. LpMintTypes'
  BY <1>1, <1>3, <1>4 DEF LpMintTypes, HubMintTypes, MintEntryTypes, DiskTypes, toolVars
<1>6. SweptInv'
  <2>1. \A n \in Mint : mint[n].status = "CANCELLED" => mint'[n].status = "CANCELLED"
    BY <1>3
  <2>2. QED BY <1>1, <2>1 DEF SweptInv, toolVars
<1>7. count' \in CountRec /\ (Clean' => Clean)
  BY <1>1, NoTrouble
<1>8. \A n \in Mint : Ended(n)' = Ended(n) /\ Unkeyed(n)' = Unkeyed(n)
  <2>1. TAKE n \in Mint
  <2>2. CASE n = m
    BY <1>3, <2>2 DEF Ended, Unkeyed, MintEnded
  <2>3. CASE n # m
    BY <1>3, <2>3 DEF Ended, Unkeyed
  <2>4. QED BY <2>2, <2>3
<1>9. \A n \in Mint : n \in lost => n \in lost'
  BY DEF LostNoted
<1>10. \A n \in Mint : Covered(n) => Covered(n)'
  BY <1>8, <1>9 DEF Covered, Verifiable
<1>11. \A n \in Mint : Forward(n)
  BY <1>8, <1>9, <1>10 DEF Forward
<1>12. ASSUME Clean'
       PROVE  /\ \A n \in Mint : MintSound(n)'
              /\ \A i \in Run : run'[i] = run[i] \/ RunFine(i)'
  <2>1. MintsSound
    BY <1>7, <1>12 DEF LpMintsInv, DepositInv
  <2>2. Covered(m)
    <3>1. ~Ended(m)
      BY <1>3 DEF Ended, MintEnded
    <3>2. QED BY <1>2, <2>1, <3>1 DEF MintsSound, TxSound
  <2>3. ASSUME NEW n \in Mint PROVE MintSound(n)'
    <3>1. MintSound(n)
      BY <2>1 DEF MintsSound
    <3>2. mint'[n].status \in Keyed => posted'[n] # 0
      <4>1. mint'[n].status \in Keyed => mint[n].status \in Keyed
        BY <1>3 DEF Keyed
      <4>2. QED BY <3>1, <4>1 DEF MintSound
    <3>3. <<"cancelled", n>> \in unseen' => mint'[n].status = "CANCELLED"
      BY <1>3, <3>1 DEF MintSound
    <3>4. mint'[n].status = "READY" => Covered(n)'
      BY <1>3, <1>10, <2>2, <3>1 DEF MintSound
    <3>5. entry'[n].tracked => entry'[n].known \/ Ended(n)'
      BY <1>8, <3>1 DEF MintSound
    <3>6. QED BY <3>2, <3>3, <3>4, <3>5 DEF MintSound
  <2>4. ASSUME NEW i \in Run, run'[i] # run[i] PROVE RunFine(i)'
    <3>1. run'[i] = Idle
      BY <2>4 DEF Received
    <3>2. QED BY <3>1, IdleFields DEF RunFine
  <2>5. QED BY <2>3, <2>4
<1>13. \A s \in txs' : s \in txs
  OBVIOUS
<1>14. QED BY <1>5, <1>6, <1>7, <1>11, <1>12, <1>13, EntriesForward, MintStepInv

LEMMA RefusedSound ==
  ASSUME LpMintsInv, UNCHANGED toolVars, LostNoted, NEW t \in txs, txs' = txs \ {t},
         UNCHANGED <<mint, posted, paid, given, swept, unseen, entry, snapshot, disk>>,
         UNCHANGED count \/ Refused, Received(t, FALSE)
  PROVE  LpMintsInv'
<1>1. /\ LpMintTypes /\ SweptInv /\ count \in CountRec /\ RunTypes /\ t \in MintTxRec
  BY DEF LpMintsInv, LpMintTypes
<1>2. HubAlone
  BY LeavesHub
<1>3. RunTypes'
  BY <1>1, ReceivedTypes
<1>4. count' \in CountRec /\ (Clean' => Clean)
  BY <1>1, NoTrouble, TroubleCounted DEF Refused
<1>5. LpMintTypes'
  BY <1>1, <1>3, <1>4 DEF LpMintTypes, HubMintTypes, MintEntryTypes, DiskTypes, toolVars
<1>6. SweptInv'
  BY <1>1, MarksKept DEF toolVars
<1>7. ASSUME Clean', NEW i \in Run, run'[i] # run[i] PROVE RunFine(i)'
  <2>1. Waiting(i, t) /\ run'[i] = Thrown(run[i])
    BY <1>7 DEF Received
  <2>2. run[i].pc # "idle"
    BY <1>1, <2>1 DEF Waiting, MintTxRec
  <2>3. PICK m : m = run[i].mint
    OBVIOUS
  <2>4. m \in Mint /\ (Ended(m) \/ RunSound(i))
    BY <1>4, <1>7, <2>2, <2>3, RunKnows
  <2>5. PICK q : q = run'[i]
    OBVIOUS
  <2>6. q.pc = "throw" /\ q.mint = m /\ q.known = run[i].known
    BY <1>1, <2>1, <2>3, <2>5, RunFields, ReceiptRuns DEF SameRun
  <2>7. CASE Ended(m)
    BY <1>2, <2>4, <2>5, <2>6, <2>7, HubAloneForward DEF RunFine
  <2>8. CASE RunSound(i)
    <3>1. run[i].known /\ entry[m].known
      BY <2>3, <2>8 DEF RunSound
    <3>2. RunSound(i)'
      BY <2>5, <2>6, <3>1 DEF RunSound
    <3>3. QED BY <3>2 DEF RunFine
  <2>9. QED BY <2>4, <2>7, <2>8
<1>8. QED BY <1>2, <1>4, <1>5, <1>6, <1>7, EntriesForward, ServerStepInv

LEMMA MineSound ==
  ASSUME LpMintsInv, UNCHANGED toolVars, LostNoted, NEW t, Mine(t)
  PROVE  LpMintsInv'
BY MineReceived, KeyMinedSound, ReadyMinedSound, RefusedSound


-----------------------------------------------------------------------------
\* What the operator runs beside the server.

\* The script recover-sweeps: it writes its copy over the file, and marks what it swept.
LEMMA ScriptStepInv ==
  ASSUME LpMintsInv, LostNoted,
         UNCHANGED <<mint, posted, paid, given, txs, unseen, serverVars>>,
         copy' \in [Mint -> FileRec], disk' \in {disk, copy'},
         swept' \in [Mint -> BOOLEAN], SweptInv', count' \in CountRec, Clean' => Clean
  PROVE  LpMintsInv'
<1>1. /\ LpMintTypes /\ SweptInv /\ disk \in [Mint -> FileRec]
  BY DEF LpMintsInv, LpMintTypes, DiskTypes
<1>2. UNCHANGED <<mint, posted, paid, given, txs, unseen, snapshot, entry, run>>
  BY DEF serverVars
<1>3. HubAlone
  BY <1>2, LeavesHub
<1>4. LpMintTypes'
  BY <1>1, <1>2 DEF LpMintTypes, HubMintTypes, RunTypes, MintEntryTypes, DiskTypes
<1>5. (\A j \in Run : run'[j] = run[j]) /\ (\A t \in txs' : t \in txs)
  BY <1>2
<1>6. QED BY <1>2, <1>3, <1>4, <1>5, EntriesForward, ServerStepInv

LEMMA RecoverStartsSound ==
  ASSUME LpMintsInv, LostNoted, RecoverStarts
  PROVE  LpMintsInv'
<1>1. LpMintTypes /\ SweptInv /\ disk \in [Mint -> FileRec] /\ count \in CountRec
      /\ swept \in [Mint -> BOOLEAN]
  BY DEF LpMintsInv, LpMintTypes, DiskTypes
<1>2. /\ UNCHANGED <<mint, posted, paid, given, swept, txs, unseen, serverVars, disk>>
      /\ copy' = disk
  BY DEF RecoverStarts, chainVars
<1>3. SweptInv'
  BY <1>1, <1>2 DEF SweptInv, serverVars
<1>4. count' \in CountRec /\ (Clean' => Clean)
  BY <1>1, TroubleCounted DEF RecoverStarts, ToolCall
<1>5. QED BY <1>1, <1>2, <1>3, <1>4, ScriptStepInv

LEMMA RecoverSkipsSound ==
  ASSUME LpMintsInv, LostNoted, NEW m \in Mint, RecoverSkips(m)
  PROVE  LpMintsInv'
<1>1. LpMintTypes /\ SweptInv /\ copy \in [Mint -> FileRec] /\ count \in CountRec
      /\ swept \in [Mint -> BOOLEAN] /\ copy[m] \in FileRec
  BY DEF LpMintsInv, LpMintTypes
<1>2. UNCHANGED <<mint, posted, paid, given, swept, txs, unseen, serverVars, disk, count>>
  BY DEF RecoverSkips, mintVars, chainVars
<1>3. copy' = copy \/ copy' = [copy EXCEPT ![m] = GivenUp(copy[m])]
  BY DEF RecoverSkips, GivenUp
<1>4. GivenUp(copy[m]) \in FileRec /\ GivenUp(copy[m]).swept = copy[m].swept
  BY <1>1, FileMarks
<1>5. copy' \in [Mint -> FileRec] /\ \A n \in Mint : copy'[n].swept = copy[n].swept
  <2>1. PICK g \in FileRec : g = GivenUp(copy[m])
    BY <1>4
  <2>2. CASE copy' = [copy EXCEPT ![m] = g]
    <3>1. copy' \in [Mint -> FileRec] /\ copy'[m] = g /\ \A n \in Mint : n # m => copy'[n] = copy[n]
      BY <1>1, <2>2, FileMarked
    <3>2. QED BY <1>4, <2>1, <3>1
  <2>3. QED BY <1>1, <1>3, <2>1, <2>2
<1>6. SweptInv'
  BY <1>1, <1>2, <1>5 DEF SweptInv, serverVars
<1>7. count' \in CountRec /\ (Clean' => Clean)
  BY <1>1, <1>2, NoTrouble
<1>8. QED BY <1>1, <1>2, <1>5, <1>6, <1>7, ScriptStepInv

LEMMA RecoverSweepsSound ==
  ASSUME LpMintsInv, LostNoted, NEW m \in Mint, RecoverSweeps(m)
  PROVE  LpMintsInv'
<1>1. LpMintTypes /\ SweptInv /\ copy \in [Mint -> FileRec] /\ count \in CountRec
      /\ swept \in [Mint -> BOOLEAN] /\ copy[m] \in FileRec
  BY DEF LpMintsInv, LpMintTypes
<1>2. UNCHANGED <<mint, posted, paid, given, txs, unseen, serverVars>> /\ disk' = copy'
  BY DEF RecoverSweeps
<1>3. CASE /\ copy' = [copy EXCEPT ![m].swept = TRUE] /\ swept' = [swept EXCEPT ![m] = TRUE]
           /\ UNCHANGED count
  <2>1. PICK g \in FileRec : g = Marked(copy[m])
    BY <1>1, FileMarks
  <2>2. copy' = [copy EXCEPT ![m] = g]
    BY <1>3, <2>1 DEF Marked
  <2>3. copy' \in [Mint -> FileRec] /\ \A n \in Mint : n # m => copy'[n] = copy[n]
    BY <1>1, <2>2, FileMarked
  <2>4. swept' \in [Mint -> BOOLEAN] /\ swept'[m] /\ \A n \in Mint : swept[n] => swept'[n]
    BY <1>1, <1>3
  <2>5. SweptInv'
    <3>1. SUFFICES ASSUME NEW n \in Mint, disk'[n].swept \/ snapshot'[n].swept \/ copy'[n].swept
                   PROVE  swept'[n] \/ mint'[n].status = "CANCELLED"
      BY DEF SweptInv
    <3>2. CASE n = m
      BY <2>4, <3>2
    <3>3. CASE n # m
      BY <1>1, <1>2, <2>3, <2>4, <3>1, <3>3 DEF SweptInv, serverVars
    <3>4. QED BY <3>2, <3>3
  <2>6. count' \in CountRec /\ (Clean' => Clean)
    BY <1>1, <1>3, NoTrouble
  <2>7. QED BY <1>2, <2>3, <2>4, <2>5, <2>6, ScriptStepInv
<1>4. CASE (Fault \/ UNCHANGED count) /\ UNCHANGED <<copy, swept>>
  <2>1. SweptInv'
    BY <1>1, <1>2, <1>4 DEF SweptInv, serverVars
  <2>2. count' \in CountRec /\ (Clean' => Clean)
    BY <1>1, <1>4, FaultCounted, NoTrouble
  <2>3. QED BY <1>1, <1>2, <1>4, <2>1, <2>2, ScriptStepInv
<1>5. QED BY <1>3, <1>4 DEF RecoverSweeps

LEMMA ScriptSound ==
  ASSUME LpMintsInv, LostNoted, NEW m \in Mint, Script(m)
  PROVE  LpMintsInv'
<1>1. LpMintTypes /\ SweptInv /\ HubMintTypes /\ count \in CountRec
  BY DEF LpMintsInv, LpMintTypes
<1>2. UNCHANGED <<posted, paid, given, swept, txs, snapshot, disk, copy, entry, run>>
  BY DEF Script, serverVars, toolVars
<1>3. /\ mint' \in [Mint -> MintRec]
      /\ \A n \in Mint : mint[n].status = "CANCELLED" => mint'[n].status = "CANCELLED"
  <2>1. CASE MarkReady(m)
    <3>1. /\ mint' \in [Mint -> MintRec] /\ \A n \in Mint : n # m => mint'[n] = mint[n]
          /\ mint[m].status = "KEY_PROVIDED"
      BY <1>1, <2>1, StatusMoves DEF MarkReady, HubStatus, MintWaiting
    <3>2. QED BY <3>1
  <2>2. CASE RevealMint(m) \/ CompleteMint(m) \/ VoidMint(m) \/ CancelExpired(m)
    <3>1. MovesOn(m)
      BY <1>1, <2>2, HubMoves
    <3>2. \A n \in Mint : n \in lost => n \in lost'
      BY DEF LostNoted
    <3>3. UNCHANGED <<posted, paid, given>>
      BY <1>2
    <3>4. \A n \in Mint : mint[n].status = "CANCELLED" => mint'[n].status = "CANCELLED"
      BY <3>1, <3>2, <3>3, MovesForward
    <3>5. QED BY <3>1, <3>4 DEF MovesOn
  <2>3. QED BY <2>1, <2>2 DEF Script, ManualReady, ManualFinalize, ManualCancel
<1>4. SweptInv'
  BY <1>1, <1>2, <1>3 DEF SweptInv
<1>5. count' \in CountRec /\ ~Clean'
  BY <1>1, TroubleCounted DEF Script, ToolCall
<1>6. LpMintTypes'
  BY <1>1, <1>2, <1>3, <1>5 DEF LpMintTypes, HubMintTypes, RunTypes, MintEntryTypes, DiskTypes
<1>7. QED BY <1>4, <1>5, <1>6, TroubledInv

-----------------------------------------------------------------------------
\* The invariant.

LEMMA LpMintsNextSound ==
  ASSUME LpMintsInv, UNCHANGED toolVars, LostNoted, LpMintsNext
  PROVE  LpMintsInv'
<1>1. CASE \E i \in Run : RunSteps(i)
  BY <1>1, RunStepsSound
<1>2. CASE \E m \in Mint : ServerSteps(m) \/ PostKey(m) \/ PostScan(m) \/ Pay(m) \/ Ripen(m)
                          \/ Others(m)
  BY <1>2, ServerStepsSound, PostKeySound, PostScanSound, PaySound, RipenSound, OthersSound
<1>3. CASE \E t \in txs : Mine(t)
  BY <1>3, MineSound
<1>4. CASE \E kind \in {"finalized", "cancelled", "keyCancelled"} : LoseEvents(kind)
  <2>1. PICK kind \in {"finalized", "cancelled", "keyCancelled"} : LoseEvents(kind)
    BY <1>4
  <2>2. PICK m \in Mint : <<kind, m>> \in unseen
    BY <2>1 DEF LoseEvents
  <2>3. QED BY <2>1, LoseEventsSound
<1>5. CASE Crash \/ Start \/ NextPhase
  BY <1>5, CrashSound, StartSound, NextPhaseSound
<1>6. QED BY <1>1, <1>2, <1>3, <1>4, <1>5 DEF LpMintsNext

LEMMA MintsStutter ==
  ASSUME LpMintsInv, UNCHANGED <<mintVars, toolVars, lost>>
  PROVE  LpMintsInv'
<1>1. LpMintTypes /\ SweptInv /\ count \in CountRec
  BY DEF LpMintsInv, LpMintTypes
<1>2. UNCHANGED <<mint, posted, paid, given, swept, txs, unseen, snapshot, disk, copy, entry, run, count>>
  BY DEF mintVars, chainVars, serverVars, toolVars
<1>3. HubAlone
  BY <1>2 DEF HubAlone
<1>4. LpMintTypes'
  BY <1>1, <1>2 DEF LpMintTypes, HubMintTypes, RunTypes, MintEntryTypes, DiskTypes
<1>5. SweptInv'
  BY <1>1, <1>2, MarksKept
<1>6. Clean' => Clean
  BY <1>1, <1>2, NoTrouble
<1>7. (\A j \in Run : run'[j] = run[j]) /\ (\A t \in txs' : t \in txs)
  BY <1>2
<1>8. QED BY <1>2, <1>3, <1>4, <1>5, <1>6, <1>7, EntriesForward, ServerStepInv

LEMMA MintsStep ==
  ASSUME LpMintsInv, [LpServerNext]_lpVars
  PROVE  LpMintsInv'
<1>1. CASE LpMintsNext /\ UNCHANGED toolVars /\ LostNoted
  BY <1>1, LpMintsNextSound
<1>2. CASE ToolsNext /\ LostNoted
  BY <1>2, RecoverStartsSound, RecoverSkipsSound, RecoverSweepsSound, ScriptSound DEF ToolsNext
<1>3. CASE UNCHANGED <<mintVars, toolVars, lost>>
  BY <1>3, MintsStutter
<1>4. QED BY <1>1, <1>2, <1>3 DEF LpServerNext, LostNoted, lpVars, restVars

LEMMA MintsStart ==
  ASSUME LpServerInit
  PROVE  LpMintsInv
<1>1. PICK z \in Nat : z = 0
  OBVIOUS
<1>2. PICK f \in BOOLEAN : f = FALSE
  OBVIOUS
<1>3. /\ mint = [m \in Mint |-> NoMint]
      /\ posted = [m \in Mint |-> z] /\ paid = [m \in Mint |-> z] /\ swept = [m \in Mint |-> f]
      /\ txs = {} /\ unseen = {}
      /\ entry = [m \in Mint |-> NoEntry] /\ run = [i \in Run |-> Idle]
      /\ disk = [m \in Mint |-> NoFile] /\ snapshot = [m \in Mint |-> NoFile]
      /\ copy = [m \in Mint |-> NoFile]
      /\ count = [crashes |-> z, faults |-> z, unsaved |-> z, drops |-> z, calls |-> z,
                  refusals |-> z]
  BY <1>1, <1>2 DEF LpServerInit, LpMintsInit, ToolsInit, MintInit
<1>4. NoMint \in MintRec /\ NoMint.status = "INVALID"
  <2>1. NoMint = [status |-> "INVALID", expired |-> f, userSecret |-> f, lpSecret |-> f]
    BY <1>2 DEF NoMint
  <2>2. QED BY <2>1 DEF MintRec
<1>5. HubMintTypes /\ \A m \in Mint : mint[m].status = "INVALID"
  BY <1>3, <1>4 DEF HubMintTypes
<1>6. RunTypes /\ \A i \in Run : run[i].pc = "idle"
  BY <1>3, IdleFields DEF RunTypes
<1>7. MintEntryTypes /\ \A m \in Mint : ~entry[m].tracked
  BY <1>3, EmptyEntries DEF MintEntryTypes
<1>8. DiskTypes /\ {snapshot, copy} \subseteq [Mint -> FileRec]
  BY <1>3, EmptyEntries DEF DiskTypes
<1>9. posted \in [Mint -> Nat] /\ paid \in [Mint -> Nat] /\ swept \in [Mint -> BOOLEAN]
  BY <1>3
<1>10. count \in CountRec
  BY <1>3 DEF CountRec
<1>11. LpMintTypes
  BY <1>3, <1>5, <1>6, <1>7, <1>8, <1>9, <1>10 DEF LpMintTypes
<1>12. SweptInv
  BY <1>3, EmptyEntries DEF SweptInv
<1>13. MintsSound
  BY <1>3, <1>5, <1>6, <1>7 DEF MintsSound, MintSound, RunFine, Keyed
<1>14. QED BY <1>11, <1>12, <1>13 DEF LpMintsInv, DepositInv

\* In every state the file's marks are true, and without a failed call, an unwritable
\* file or an operator every run of processMint works with keys whose secret it has or
\* that are on the chain, and sets ready what the user paid for, what the file lost the
\* secret of or what has no wallet or address to look at (server.js, processMint and its
\* callers).
THEOREM LpMintsInvariant == LpServerSpec => []LpMintsInv
<1>1. LpServerInit => LpMintsInv
  BY MintsStart
<1>2. LpMintsInv /\ [LpServerNext]_lpVars => LpMintsInv'
  BY MintsStep
<1>3. QED BY <1>1, <1>2, PTL DEF LpServerSpec

\* Crashes, restarts, lost events and retries never make the server tell the hub of a
\* deposit the user did not make to the key on the chain, where a wallet is configured and
\* the deposit address can be computed, unless the file lost that key's secret; and the
\* file never says swept of a deposit that is not in the LP's wallet (server.js,
\* processMint, finalizeMint and the sweeps).
THEOREM DepositsAreMatched == LpServerSpec => []DepositsMatched
<1>1. LpMintsInv => DepositsMatched
  BY DEF LpMintsInv, DepositInv, SweptInv, MintsSound, MintSound, Covered, Clean, DepositsMatched
<1>2. QED BY <1>1, LpMintsInvariant, PTL
=============================================================================
