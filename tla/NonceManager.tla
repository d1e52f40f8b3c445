---------------------------- MODULE NonceManager ----------------------------
(***************************************************************************)
(* The nonces of one chain (lp-server-js/nonceManager.js): every sender of *)
(* the LP server takes its nonce from one cache behind one lock, the chain *)
(* mines them in order, and the senders differ in what they do when a      *)
(* broadcast fails: the kick watcher resets the cache, the others do not.  *)
(***************************************************************************)
EXTENDS Naturals

CONSTANTS Sender, Resetting,   \* the senders, and those that reset on failure
          MaxNonce,            \* bounds the nonces ever used
          MaxNonceTroubles     \* bounds failures and restarts

Nobody == "nobody"

ASSUME NonceAssumption ==
  /\ Resetting \subseteq Sender /\ {MaxNonce, MaxNonceTroubles} \subseteq Nat
  /\ Nobody \notin Sender

NoNonce == MaxNonce + 1

VARIABLES cachedNonce, nonceLock,  \* the cache, and the sender inside the lock
          mined, pool,             \* nonces below mined are on the chain, pool waits
          sender,                  \* per sender: pc and nonce
          failures, resets, restarts

nonceVars == <<cachedNonce, nonceLock, mined, pool, sender, failures, resets, restarts>>

Rest == [pc |-> "idle", nonce |-> NoNonce]
Holds(s, pc, n) == sender' = [sender EXCEPT ![s] = [pc |-> pc, nonce |-> n]]
NonceTrouble == failures + restarts < MaxNonceTroubles

\* getNextNonce with a cached nonce: taken in one step, the lock is free after.
TakeNonce(s) ==
  /\ sender[s].pc = "idle" /\ nonceLock = Nobody /\ cachedNonce < MaxNonce
  /\ Holds(s, "got", cachedNonce) /\ cachedNonce' = cachedNonce + 1
  /\ UNCHANGED <<nonceLock, mined, pool, failures, resets, restarts>>

\* Mutant: the count is asked for outside the lock.
BeginCountUnlocked(s) ==
  /\ sender[s].pc = "idle" /\ cachedNonce = NoNonce
  /\ Holds(s, "counting", NoNonce) /\ nonceLock' = s
  /\ UNCHANGED <<cachedNonce, mined, pool, failures, resets, restarts>>

\* Without one: the lock is held while the chain is asked for the mined count.
BeginCount(s) ==
  /\ sender[s].pc = "idle" /\ nonceLock = Nobody /\ cachedNonce = NoNonce
  /\ Holds(s, "counting", NoNonce) /\ nonceLock' = s
  /\ UNCHANGED <<cachedNonce, mined, pool, failures, resets, restarts>>

EndCount(s) ==
  /\ sender[s].pc = "counting" /\ mined < MaxNonce
  /\ Holds(s, "got", mined) /\ cachedNonce' = mined + 1 /\ nonceLock' = Nobody
  /\ UNCHANGED <<mined, pool, failures, resets, restarts>>

\* The count does not come within 15 seconds: the sender fails, the lock goes on.
CountTimesOut(s) ==
  /\ sender[s].pc = "counting" /\ NonceTrouble /\ failures' = failures + 1
  /\ sender' = [sender EXCEPT ![s] = Rest] /\ nonceLock' = Nobody
  /\ UNCHANGED <<cachedNonce, mined, pool, resets, restarts>>

\* The node takes a nonce nobody used; it refuses one that is mined or waits.
Broadcast(s) ==
  LET n == sender[s].nonce IN
  /\ sender[s].pc = "got" /\ n >= mined /\ n \notin pool
  /\ pool' = pool \cup {n} /\ Holds(s, "sent", n)
  /\ UNCHANGED <<cachedNonce, nonceLock, mined, failures, resets, restarts>>

\* A refused or failed broadcast; its nonce is gone unless the cache is reset.
BroadcastFails(s) ==
  LET n == sender[s].nonce
      Refused == n < mined \/ n \in pool IN
  /\ sender[s].pc = "got"
  /\ IF Refused THEN UNCHANGED failures ELSE NonceTrouble /\ failures' = failures + 1
  /\ sender' = [sender EXCEPT ![s] = Rest]
  /\ IF s \in Resetting THEN cachedNonce' = NoNonce /\ resets' = 1
     ELSE UNCHANGED <<cachedNonce, resets>>
  /\ UNCHANGED <<nonceLock, mined, pool, restarts>>

\* The chain mines the next nonce, and its sender has its receipt.
MineNext ==
  /\ mined \in pool
  /\ pool' = pool \ {mined} /\ mined' = mined + 1
  /\ sender' = [s \in Sender |-> IF sender[s] = [pc |-> "sent", nonce |-> mined] THEN Rest
                                 ELSE sender[s]]
  /\ UNCHANGED <<cachedNonce, nonceLock, failures, resets, restarts>>

\* A restart forgets the cache and the senders, never the pool.
RestartNonces ==
  /\ NonceTrouble /\ restarts' = restarts + 1
  /\ cachedNonce' = NoNonce /\ nonceLock' = Nobody /\ sender' = [s \in Sender |-> Rest]
  /\ UNCHANGED <<mined, pool, failures, resets>>

NonceInit ==
  /\ cachedNonce = NoNonce /\ nonceLock = Nobody /\ mined = 0 /\ pool = {}
  /\ sender = [s \in Sender |-> Rest] /\ failures = 0 /\ resets = 0 /\ restarts = 0

NonceNext ==
  \/ \E s \in Sender : \/ TakeNonce(s) \/ BeginCount(s) \/ EndCount(s) \/ CountTimesOut(s)
                       \/ Broadcast(s) \/ BroadcastFails(s)
  \/ MineNext \/ RestartNonces

NonceSpec == NonceInit /\ [][NonceNext]_nonceVars

-----------------------------------------------------------------------------
\* Nonces are handed out one by one, however the senders interleave
\* (nonceManager.js, getNextNonce).  As long as nobody resets the cache no two
\* transactions are under way with one nonce; and if no count and no broadcast fails
\* every nonce before that of a transaction that was sent is sent or about to be, also
\* after a restart over a pool of earlier transactions: it can be mined.
NoncesInSequence ==
  /\ resets = 0 =>
       \A s, t \in {u \in Sender : sender[u].pc \in {"got", "sent"}} :
         s # t => sender[s].nonce # sender[t].nonce
  /\ failures = 0 =>
       \A s \in Sender : sender[s].pc = "sent" =>
         \A n \in mined .. sender[s].nonce :
           n \in pool \/ \E t \in Sender : sender[t] = [pc |-> "got", nonce |-> n]
=============================================================================
