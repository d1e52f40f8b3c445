--------------------------- MODULE LifecycleProofs --------------------------
(***************************************************************************)
(* The hub implements the two lifecycles of HubLifecycles: each step of    *)
(* the hub is, of the requests as the off-chain programs see them, a step  *)
(* of the lifecycle or no step at all.  A move of one request is first     *)
(* described by the record before and after it (MintMove, BurnMove), then  *)
(* mapped; the two moves of many requests at once, the passing of time and *)
(* the settlement by an auction, are mapped as they are.                   *)
(***************************************************************************)
EXTENDS HubLifecycles, LedgerProofs

-----------------------------------------------------------------------------
(* The mints. *)

MintAwaited == {"PENDING", "KEY_PROVIDED", "READY", "KEY_CANCELLED", "EXPIRED_READY"}

\* A request as the lifecycle sees it at a given block, and all of them.
MintAs(m, time) ==
  [status |-> m.status, userSecret |-> m.userSecret, lpSecret |-> m.lpSecret,
   expired |-> m.status \in MintAwaited /\ time >= m.timeout]
MintsShown == [r \in NewRequest |-> MintSeen(r)]

\* What one step of the hub may make of one request: it enters a status with a
\* fresh timeout, before or after the old timeout as the status demands.
MintEnters(m, q, from, to) ==
  m.status = from /\ q.status = to /\ (to \in MintAwaited => block < q.timeout)
SecretsKept(m, q) == q.userSecret = m.userSecret /\ q.lpSecret = m.lpSecret
Published(m, q) == q.userSecret = m.userSecret /\ q.lpSecret = TRUE

MintMove(m, q) ==
  \/ MintEnters(m, q, "INVALID", "PENDING") /\ SecretsKept(m, q)
  \/ MintEnters(m, q, "PENDING", "KEY_PROVIDED") /\ SecretsKept(m, q) /\ block < m.timeout
  \/ MintEnters(m, q, "KEY_PROVIDED", "READY") /\ SecretsKept(m, q) /\ block < m.timeout
  \/ /\ MintEnters(m, q, "READY", "SECRET_REVEALED")
     /\ q.userSecret = TRUE /\ q.lpSecret = m.lpSecret
  \/ MintEnters(m, q, "SECRET_REVEALED", "COMPLETED") /\ SecretsKept(m, q)
  \/ MintEnters(m, q, "SECRET_REVEALED", "CANCELLED") /\ SecretsKept(m, q)
  \/ /\ SecretsKept(m, q) /\ block >= m.timeout
     /\ \/ MintEnters(m, q, "PENDING", "CANCELLED")
        \/ MintEnters(m, q, "KEY_PROVIDED", "KEY_CANCELLED")
        \/ MintEnters(m, q, "READY", "EXPIRED_READY")
        \/ MintEnters(m, q, "KEY_CANCELLED", "CANCELLED")
        \/ MintEnters(m, q, "EXPIRED_READY", "CANCELLED")
  \/ MintEnters(m, q, "KEY_PROVIDED", "CANCELLED") /\ Published(m, q) /\ block >= m.timeout
  \/ /\ Published(m, q) /\ block < m.timeout
     /\ \/ MintEnters(m, q, "KEY_CANCELLED", "CANCELLED")
        \/ MintEnters(m, q, "EXPIRED_READY", "CANCELLED")

\* One request changes, and one record of what is shown.
LEMMA OneMintShown ==
  ASSUME TypeInv, TypeInv', NEW r \in NewRequest, NEW q, UNCHANGED block,
         mintRequests' = [mintRequests EXCEPT ![r] = q]
  PROVE  /\ MintsShown' = [MintsShown EXCEPT ![r] = MintAs(q, block)]
         /\ MintsShown[r] = MintAs(mintRequests[r], block)
<1>1. r \in ReqId /\ mintRequests'[r] = q
  BY DEF NewRequest, TypeInv
<1>2. \A i \in NewRequest : i \in ReqId /\ (i # r => mintRequests'[i] = mintRequests[i])
  BY DEF NewRequest, TypeInv
<1>3. \A i \in NewRequest : i # r => MintSeen(i)' = MintSeen(i)
  BY <1>2 DEF MintSeen
<1>4. MintSeen(r)' = MintAs(q, block)
  BY <1>1 DEF MintSeen, MintAs, MintAwaited
<1>5. MintSeen(r) = MintAs(mintRequests[r], block)
  BY DEF MintSeen, MintAs, MintAwaited
<1>6. NewRequest' = NewRequest
  BY DEF NewRequest
<1>7. QED BY <1>3, <1>4, <1>5, <1>6 DEF MintsShown

\* A request no lifecycle follows, the mint of a warm start, may do as it likes.
LEMMA OtherMintShown ==
  ASSUME TypeInv, NEW r \in ReqId \ NewRequest, NEW q, UNCHANGED block,
         mintRequests' = [mintRequests EXCEPT ![r] = q]
  PROVE  MintsShown' = MintsShown
<1>1. \A i \in NewRequest : mintRequests'[i] = mintRequests[i]
  BY DEF NewRequest, TypeInv
<1>2. QED BY <1>1 DEF MintsShown, MintSeen, NewRequest

\* Each move of a request is a step of its lifecycle.
LEMMA MintMoveMapped ==
  ASSUME TypeInv, TypeInv', NEW r \in NewRequest, NEW m, NEW q, m = mintRequests[r],
         mintRequests' = [mintRequests EXCEPT ![r] = q], UNCHANGED block, MintMove(m, q)
  PROVE  MintsSeen!MintSteps(r)
<1>1. PICK f, g, a, b : f = MintsShown /\ g = MintsShown' /\ a = MintAs(m, block)
                        /\ b = MintAs(q, block)
  OBVIOUS
<1>2. g = [f EXCEPT ![r] = b] /\ f[r] = a
  BY <1>1, OneMintShown
<1>3. block \in Nat /\ m.timeout \in Nat /\ q.timeout \in Nat /\ q.status \in MintStatus
  <2>1. r \in ReqId /\ mintRequests'[r] = q
    BY DEF NewRequest, TypeInv
  <2>2. m \in MintRecord /\ q \in MintRecord
    BY <2>1 DEF TypeInv, GoodMint
  <2>3. QED BY <2>2 DEF TypeInv, MintRecord
<1>4. a.expired <=> m.status \in MintAwaited /\ block >= m.timeout
  BY <1>1 DEF MintAs
<1>5. ASSUME NEW from, NEW to, MintEnters(m, q, from, to)
      PROVE  /\ a.status = from /\ b.status = to /\ b.expired = FALSE
             /\ SecretsKept(m, q) => b = [a EXCEPT !.status = to, !.expired = FALSE]
             /\ q.userSecret = TRUE /\ q.lpSecret = m.lpSecret =>
                  b = [[a EXCEPT !.status = to, !.expired = FALSE] EXCEPT !.userSecret = TRUE]
             /\ Published(m, q) =>
                  b = [[a EXCEPT !.status = to, !.expired = FALSE] EXCEPT !.lpSecret = TRUE]
  <2>1. ~(q.status \in MintAwaited /\ block >= q.timeout)
    BY <1>3, <1>5 DEF MintEnters
  <2>2. b = [status |-> to, userSecret |-> q.userSecret, lpSecret |-> q.lpSecret,
             expired |-> FALSE]
    BY <1>1, <1>5, <2>1 DEF MintAs, MintEnters
  <2>3. PICK e : a = [status |-> from, userSecret |-> m.userSecret, lpSecret |-> m.lpSecret,
                      expired |-> e]
    BY <1>1, <1>5 DEF MintAs, MintEnters
  <2>4. PICK c : c = [a EXCEPT !.status = to, !.expired = FALSE]
    OBVIOUS
  <2>5. c = [status |-> to, userSecret |-> m.userSecret, lpSecret |-> m.lpSecret,
             expired |-> FALSE]
    BY <2>3, <2>4
  <2>6. SecretsKept(m, q) => b = c
    BY <2>2, <2>5 DEF SecretsKept
  <2>7. ASSUME q.userSecret = TRUE, q.lpSecret = m.lpSecret
        PROVE  b = [c EXCEPT !.userSecret = TRUE]
    <3>1. PICK t, x : t = TRUE /\ x = FALSE
      OBVIOUS
    <3>2. b = [status |-> to, userSecret |-> t, lpSecret |-> m.lpSecret, expired |-> x]
      BY <2>2, <2>7, <3>1, Zenon
    <3>3. c = [status |-> to, userSecret |-> m.userSecret, lpSecret |-> m.lpSecret,
               expired |-> x]
      BY <2>5, <3>1, Zenon
    <3>4. b = [c EXCEPT !.userSecret = t]
      BY <3>2, <3>3
    <3>5. QED BY <3>1, <3>4, Zenon
  <2>8. ASSUME Published(m, q)
        PROVE  b = [c EXCEPT !.lpSecret = TRUE]
    <3>1. PICK t, x : t = TRUE /\ x = FALSE
      OBVIOUS
    <3>2. b = [status |-> to, userSecret |-> m.userSecret, lpSecret |-> t, expired |-> x]
      BY <2>2, <2>8, <3>1, Zenon DEF Published
    <3>3. c = [status |-> to, userSecret |-> m.userSecret, lpSecret |-> m.lpSecret,
               expired |-> x]
      BY <2>5, <3>1, Zenon
    <3>4. b = [c EXCEPT !.lpSecret = t]
      BY <3>2, <3>3
    <3>5. QED BY <3>1, <3>4, Zenon
  <2>9. a.status = from /\ b.status = to /\ b.expired = FALSE
    BY <2>2, <2>3
  <2>10. QED BY <2>4, <2>6, <2>7, <2>8, <2>9
<1>6. \A to : MintsSeen!MintMoves(r, to) = [a EXCEPT !.status = to, !.expired = FALSE]
  BY <1>1, <1>2 DEF MintsSeen!MintMoves, MintsShown
<1>7. ASSUME NEW from, NEW to, MintEnters(m, q, from, to), SecretsKept(m, q)
      PROVE  MintsSeen!Moves(r, from, to)
  <2>1. a.status = from /\ b = [a EXCEPT !.status = to, !.expired = FALSE]
    BY <1>5, <1>7
  <2>2. f[r].status = from /\ b = MintsSeen!MintMoves(r, to)
    BY <1>2, <1>6, <2>1
  <2>3. QED BY <1>1, <1>2, <2>2 DEF MintsSeen!Moves, MintsShown
<1>8. MintsSeen!InTime(r) <=> ~a.expired
  BY <1>1, <1>2 DEF MintsSeen!InTime, MintsShown
<1>9. [i \in NewRequest |-> MintSeen(i)][r].expired <=> a.expired
  BY <1>1, <1>2 DEF MintsShown
<1>10. CASE MintEnters(m, q, "INVALID", "PENDING") /\ SecretsKept(m, q)
  BY <1>7, <1>10 DEF MintsSeen!MintSteps, MintsSeen!RequestMint
<1>11. CASE MintEnters(m, q, "PENDING", "KEY_PROVIDED") /\ SecretsKept(m, q) /\ block < m.timeout
  <2>1. ~a.expired
    BY <1>3, <1>4, <1>11
  <2>2. QED BY <1>7, <1>8, <1>11, <2>1 DEF MintsSeen!MintSteps, MintsSeen!ProvideKey
<1>12. CASE MintEnters(m, q, "KEY_PROVIDED", "READY") /\ SecretsKept(m, q) /\ block < m.timeout
  <2>1. ~a.expired
    BY <1>3, <1>4, <1>12
  <2>2. QED BY <1>7, <1>8, <1>12, <2>1 DEF MintsSeen!MintSteps, MintsSeen!MarkReady
<1>13. CASE /\ MintEnters(m, q, "READY", "SECRET_REVEALED")
            /\ q.userSecret = TRUE /\ q.lpSecret = m.lpSecret
  <2>1. /\ f[r].status = "READY"
        /\ b = [MintsSeen!MintMoves(r, "SECRET_REVEALED") EXCEPT !.userSecret = TRUE]
    <3>1. a.status = "READY"
      BY <1>5, <1>13
    <3>2. b = [[a EXCEPT !.status = "SECRET_REVEALED", !.expired = FALSE]
                 EXCEPT !.userSecret = TRUE]
      BY <1>5, <1>13
    <3>3. QED BY <1>2, <1>6, <3>1, <3>2
  <2>2. MintsSeen!RevealMint(r)
    BY <1>1, <1>2, <2>1 DEF MintsSeen!RevealMint, MintsShown
  <2>3. QED BY <2>2 DEF MintsSeen!MintSteps
<1>14. CASE /\ SecretsKept(m, q)
            /\ \/ MintEnters(m, q, "SECRET_REVEALED", "COMPLETED")
               \/ MintEnters(m, q, "SECRET_REVEALED", "CANCELLED")
  BY <1>7, <1>14 DEF MintsSeen!MintSteps, MintsSeen!CompleteMint, MintsSeen!VoidMint
<1>15. CASE /\ SecretsKept(m, q) /\ block >= m.timeout
            /\ \/ MintEnters(m, q, "PENDING", "CANCELLED")
               \/ MintEnters(m, q, "KEY_PROVIDED", "KEY_CANCELLED")
               \/ MintEnters(m, q, "READY", "EXPIRED_READY")
  <2>1. a.expired
    BY <1>4, <1>15 DEF MintEnters, MintAwaited
  <2>2. MintsSeen!CancelExpired(r)
    BY <1>7, <1>9, <1>15, <2>1 DEF MintsSeen!CancelExpired
  <2>3. QED BY <2>2 DEF MintsSeen!MintSteps
<1>16. CASE /\ SecretsKept(m, q) /\ block >= m.timeout
            /\ \/ MintEnters(m, q, "KEY_CANCELLED", "CANCELLED")
               \/ MintEnters(m, q, "EXPIRED_READY", "CANCELLED")
  <2>1. a.expired
    BY <1>4, <1>16 DEF MintEnters, MintAwaited
  <2>2. /\ a.status \in {"KEY_CANCELLED", "EXPIRED_READY"}
        /\ b = [a EXCEPT !.status = "CANCELLED", !.expired = FALSE]
    BY <1>5, <1>16
  <2>3. f[r].status \in {"KEY_CANCELLED", "EXPIRED_READY"}
        /\ b = MintsSeen!MintMoves(r, "CANCELLED")
    BY <1>2, <1>6, <2>2
  <2>4. MintsSeen!ReclaimMint(r)
    BY <1>1, <1>2, <1>9, <2>1, <2>3 DEF MintsSeen!ReclaimMint, MintsShown
  <2>5. QED BY <2>4 DEF MintsSeen!MintSteps
<1>17. CASE /\ Published(m, q)
            /\ \/ MintEnters(m, q, "KEY_PROVIDED", "CANCELLED") /\ block >= m.timeout
               \/ /\ block < m.timeout
                  /\ \/ MintEnters(m, q, "KEY_CANCELLED", "CANCELLED")
                     \/ MintEnters(m, q, "EXPIRED_READY", "CANCELLED")
  <2>1. \/ f[r].status = "KEY_PROVIDED" /\ a.expired
        \/ f[r].status \in {"KEY_CANCELLED", "EXPIRED_READY"} /\ ~a.expired
    <3>1. CASE MintEnters(m, q, "KEY_PROVIDED", "CANCELLED") /\ block >= m.timeout
      BY <1>2, <1>4, <1>5, <3>1 DEF MintEnters, MintAwaited
    <3>2. CASE /\ block < m.timeout
               /\ \/ MintEnters(m, q, "KEY_CANCELLED", "CANCELLED")
                  \/ MintEnters(m, q, "EXPIRED_READY", "CANCELLED")
      <4>1. ~a.expired
        BY <1>3, <1>4, <3>2
      <4>2. QED BY <1>2, <1>5, <3>2, <4>1
    <3>3. QED BY <1>17, <3>1, <3>2
  <2>2. b = [MintsSeen!MintMoves(r, "CANCELLED") EXCEPT !.lpSecret = TRUE]
    <3>1. b = [[a EXCEPT !.status = "CANCELLED", !.expired = FALSE] EXCEPT !.lpSecret = TRUE]
      BY <1>5, <1>17
    <3>2. QED BY <1>6, <3>1
  <2>3. MintsSeen!PublishLpSecret(r)
    BY <1>1, <1>2, <1>8, <1>9, <2>1, <2>2 DEF MintsSeen!PublishLpSecret, MintsShown
  <2>4. QED BY <2>3 DEF MintsSeen!MintSteps
<1>18. QED
  BY <1>10, <1>11, <1>12, <1>13, <1>14, <1>15, <1>16, <1>17 DEF MintMove

\* A new request: at least a block to key it.
LEMMA InitiateMintMoves ==
  ASSUME TypeInv, MintsFresh, NEW u \in Minters, NEW recipient \in Recipients, NEW v \in Vault,
         NEW amount \in MintAmounts, NEW value \in EthValues,
         InitiateMint(u, recipient, v, amount, value)
  PROVE  \E r \in ReqId : \E q : /\ mintRequests' = [mintRequests EXCEPT ![r] = q]
                                 /\ MintMove(mintRequests[r], q)
<1>1. PICK r : r = requestNonce + 1
  OBVIOUS
<1>2. r \in ReqId /\ r > requestNonce
  BY <1>1, SizesAssumption, SMTT(30) DEF InitiateMint, TypeInv, ReqId
<1>3. PICK m \in GoodMint : m = mintRequests[r]
  BY <1>2 DEF TypeInv
<1>4. m.status = "INVALID" /\ ~m.userSecret /\ ~m.lpSecret
  BY <1>2, <1>3 DEF MintsFresh, GoodMint
<1>5. PICK a, b, c, d :
        mintRequests' = [mintRequests EXCEPT ![r] =
          [EmptyMint EXCEPT !.status = "PENDING", !.initiator = u, !.recipient = recipient,
                            !.lpVault = v, !.wsxmrAmount = a, !.feeAmount = b,
                            !.timeout = block + vaults[v].mintTimeout,
                            !.griefingDeposit = c, !.vaultMintNonce = d]]
  BY <1>1 DEF InitiateMint
<1>6. PICK q :
        q = [EmptyMint EXCEPT !.status = "PENDING", !.initiator = u, !.recipient = recipient,
                              !.lpVault = v, !.wsxmrAmount = a, !.feeAmount = b,
                              !.timeout = block + vaults[v].mintTimeout,
                              !.griefingDeposit = c, !.vaultMintNonce = d]
  OBVIOUS
<1>7. /\ q.status = "PENDING" /\ q.timeout = block + vaults[v].mintTimeout
      /\ q.userSecret = FALSE /\ q.lpSecret = FALSE
  BY <1>6 DEF EmptyMint
<1>8. block < q.timeout
  <2>1. PICK V \in GoodVault : V = vaults[v]
    BY DEF TypeInv
  <2>2. V.active /\ V.mintTimeout \in Nat
    BY <2>1, VaultFields DEF InitiateMint
  <2>3. V.mintTimeout > 0
    BY <2>2 DEF GoodVault
  <2>4. PICK t \in Nat, n \in Nat : t = V.mintTimeout /\ n = block
    BY <2>2 DEF TypeInv
  <2>5. QED BY <1>7, <2>1, <2>3, <2>4
<1>9. m.userSecret = FALSE /\ m.lpSecret = FALSE
  BY <1>3, <1>4 DEF GoodMint, MintRecord
<1>10. MintMove(m, q)
  BY <1>4, <1>7, <1>8, <1>9 DEF MintMove, MintEnters, SecretsKept
<1>11. QED BY <1>2, <1>3, <1>5, <1>6, <1>10

\* The steps of a request that was made, one at a time.
LEMMA MintActionMoves ==
  ASSUME TypeInv, NEW r \in ReqId, MintAction(r)
  PROVE  \E q : /\ mintRequests' = [mintRequests EXCEPT ![r] = q]
                /\ MintMove(mintRequests[r], q)
<1>1. PICK m \in MintRecord : m = mintRequests[r]
  BY DEF TypeInv, GoodMint
<1>2. PICK n \in Nat, e \in Nat, w \in Nat : n = block /\ e = MintReadyExtension /\ w = LpClaimWindow
  BY TimesAssumption DEF TypeInv
<1>3. block < block + MintReadyExtension /\ block < block + LpClaimWindow
  BY <1>2, WaitsAssumption
<1>4. CASE ProvideLPKey(r)
  <2>1. PICK l : mintRequests' = [mintRequests EXCEPT ![r] =
                   [m EXCEPT !.status = "KEY_PROVIDED", !.lockedCollateral = l]]
    BY <1>1, <1>4 DEF ProvideLPKey, TypeInv
  <2>2. PICK q : q = [m EXCEPT !.status = "KEY_PROVIDED", !.lockedCollateral = l]
    OBVIOUS
  <2>3. q.status = "KEY_PROVIDED" /\ q.timeout = m.timeout /\ SecretsKept(m, q)
    BY <2>2 DEF MintRecord, SecretsKept, Published
  <2>4. m.status = "PENDING" /\ block < m.timeout
    BY <1>1, <1>4 DEF ProvideLPKey
  <2>5. MintMove(m, q)
    BY <2>3, <2>4 DEF MintMove, MintEnters
  <2>6. QED BY <1>1, <2>1, <2>2, <2>5
<1>5. CASE SetMintReady(r)
  <2>1. PICK l : mintRequests' = [mintRequests EXCEPT ![r] =
                   [m EXCEPT !.status = "READY", !.lockedCollateral = l,
                             !.timeout = block + MintReadyExtension]]
    BY <1>1, <1>5 DEF SetMintReady, TypeInv
  <2>2. PICK q : q = [m EXCEPT !.status = "READY", !.lockedCollateral = l,
                               !.timeout = block + MintReadyExtension]
    OBVIOUS
  <2>3. q.status = "READY" /\ q.timeout = block + MintReadyExtension /\ SecretsKept(m, q)
    BY <2>2 DEF MintRecord, SecretsKept, Published
  <2>4. m.status = "KEY_PROVIDED" /\ block < m.timeout
    BY <1>1, <1>5 DEF SetMintReady
  <2>5. MintMove(m, q)
    BY <1>3, <2>3, <2>4 DEF MintMove, MintEnters
  <2>6. QED BY <1>1, <2>1, <2>2, <2>5
<1>6. CASE RevealSecret(r)
  <2>1. PICK q : q = [m EXCEPT !.status = "SECRET_REVEALED", !.userSecret = TRUE]
    OBVIOUS
  <2>2. mintRequests' = [mintRequests EXCEPT ![r] = q] /\ m.status = "READY"
    BY <1>1, <1>6, <2>1 DEF RevealSecret, TypeInv
  <2>3. q.status = "SECRET_REVEALED" /\ q.userSecret = TRUE /\ q.lpSecret = m.lpSecret
    BY <2>1 DEF MintRecord, SecretsKept, Published
  <2>4. MintMove(m, q)
    BY <2>2, <2>3 DEF MintMove, MintEnters, MintAwaited
  <2>5. QED BY <1>1, <2>2, <2>4
\* The steps that change nothing but the status.
<1>7. ASSUME NEW s,
             mintRequests' = [mintRequests EXCEPT ![r].status = s],
             \/ s \in {"COMPLETED", "CANCELLED"} /\ m.status = "SECRET_REVEALED"
             \/ /\ s = "CANCELLED" /\ block >= m.timeout
                /\ m.status \in {"PENDING", "KEY_CANCELLED", "EXPIRED_READY"}
      PROVE  \E q : /\ mintRequests' = [mintRequests EXCEPT ![r] = q]
                    /\ MintMove(mintRequests[r], q)
  <2>1. PICK q : q = [m EXCEPT !.status = s]
    OBVIOUS
  <2>2. mintRequests' = [mintRequests EXCEPT ![r] = q]
    BY <1>1, <1>7, <2>1 DEF TypeInv
  <2>3. q.status = s /\ SecretsKept(m, q)
    BY <2>1 DEF MintRecord, SecretsKept, Published
  <2>4. MintMove(m, q)
    BY <1>7, <2>3 DEF MintMove, MintEnters, MintAwaited
  <2>5. QED BY <1>1, <2>2, <2>4
<1>8. CASE mintRequests[r].status = "SECRET_REVEALED"
             /\ (FinalizeAfterAuction(r) \/ FinalizeMinting(r))
  <2>1. PICK s \in {"COMPLETED", "CANCELLED"} :
          mintRequests' = [mintRequests EXCEPT ![r].status = s]
    BY <1>8 DEF FinalizeAfterAuction, FinalizeMinting
  <2>2. QED BY <1>1, <1>7, <1>8, <2>1
<1>9. CASE CancelMint(r)
  <2>1. block >= m.timeout
    BY <1>1, <1>9 DEF CancelMint
  <2>2. CASE CancelPendingMint(r)
    BY <1>1, <1>7, <2>1, <2>2 DEF CancelPendingMint
  <2>3. ASSUME NEW from, NEW to, ExpireMint(r, from, to),
               \/ from = "KEY_PROVIDED" /\ to = "KEY_CANCELLED"
               \/ from = "READY" /\ to = "EXPIRED_READY"
        PROVE  \E q : /\ mintRequests' = [mintRequests EXCEPT ![r] = q]
                      /\ MintMove(mintRequests[r], q)
    <3>1. PICK q : q = [m EXCEPT !.status = to, !.timeout = block + LpClaimWindow]
      OBVIOUS
    <3>2. mintRequests' = [mintRequests EXCEPT ![r] = q] /\ m.status = from
      BY <1>1, <2>3, <3>1 DEF ExpireMint, TypeInv
    <3>3. q.status = to /\ q.timeout = block + LpClaimWindow /\ SecretsKept(m, q)
      BY <3>1 DEF MintRecord, SecretsKept, Published
    <3>4. MintMove(m, q)
      BY <1>3, <2>1, <2>3, <3>2, <3>3 DEF MintMove, MintEnters
    <3>5. QED BY <1>1, <3>2, <3>4
  <2>4. QED BY <1>8, <1>9, <2>2, <2>3 DEF CancelMint
<1>10. CASE AbandonKeyProvidedMint(r)
  <2>1. PICK l : mintRequests' = [mintRequests EXCEPT ![r] =
                   [m EXCEPT !.status = "CANCELLED", !.lpSecret = TRUE, !.lockedCollateral = l]]
    BY <1>1, <1>10, ZenonT(60) DEF AbandonKeyProvidedMint, TypeInv
  <2>2. PICK q : q = [m EXCEPT !.status = "CANCELLED", !.lpSecret = TRUE, !.lockedCollateral = l]
    OBVIOUS
  <2>3. q.status = "CANCELLED" /\ Published(m, q)
    BY <2>2 DEF MintRecord, SecretsKept, Published
  <2>4. \/ m.status = "KEY_PROVIDED" /\ block >= m.timeout
        \/ m.status = "KEY_CANCELLED" /\ block < m.timeout
    BY <1>1, <1>10 DEF AbandonKeyProvidedMint
  <2>5. MintMove(m, q)
    BY <2>3, <2>4 DEF MintMove, MintEnters, MintAwaited
  <2>6. QED BY <1>1, <2>1, <2>2, <2>5
<1>11. CASE ClaimGriefingDeposit(r)
  <2>1. PICK q : q = [m EXCEPT !.status = "CANCELLED", !.lpSecret = TRUE]
    OBVIOUS
  <2>2. /\ mintRequests' = [mintRequests EXCEPT ![r] = q]
        /\ m.status = "EXPIRED_READY" /\ block < m.timeout
    BY <1>1, <1>11, <2>1 DEF ClaimGriefingDeposit, TypeInv
  <2>3. q.status = "CANCELLED" /\ Published(m, q)
    BY <2>1 DEF MintRecord, SecretsKept, Published
  <2>4. MintMove(m, q)
    BY <2>2, <2>3 DEF MintMove, MintEnters, MintAwaited
  <2>5. QED BY <1>1, <2>2, <2>4
<1>12. CASE ReclaimParkedDeposit(r) \/ SweepUnclaimedExpiredMint(r)
  <2>1. /\ m.status \in {"KEY_CANCELLED", "EXPIRED_READY"} /\ block >= m.timeout
        /\ mintRequests' = [mintRequests EXCEPT ![r].status = "CANCELLED"]
    BY <1>1, <1>12 DEF ReclaimParkedDeposit, SweepUnclaimedExpiredMint, ReturnToInitiator
  <2>2. QED BY <1>7, <2>1
<1>13. QED
  BY <1>4, <1>5, <1>6, <1>8, <1>9, <1>10, <1>11, <1>12 DEF MintAction, FinalizeMint

\* Only a block moves time, and only the mint facet moves a mint.
LEMMA MintNextKeepsTime ==
  ASSUME MintNext
  PROVE  UNCHANGED block
<1>1. CASE \E u \in Minters, recipient \in Recipients, v \in Vault,
              amount \in MintAmounts, value \in EthValues :
             InitiateMint(u, recipient, v, amount, value)
  BY <1>1 DEF InitiateMint, timeVars
<1>2. CASE \E r \in ReqId : MintAction(r)
  <2>1. MintUnchanged
    BY <1>2 DEF MintAction, ProvideLPKey, SetMintReady, RevealSecret, FinalizeMint, CancelMint,
                AbandonKeyProvidedMint, ClaimGriefingDeposit, ReclaimParkedDeposit,
                SweepUnclaimedExpiredMint
  <2>2. QED BY <2>1 DEF MintUnchanged, timeVars
<1>3. QED BY <1>1, <1>2 DEF MintNext, MintAction

LEMMA VaultNextKeepsRequests ==
  ASSUME VaultNext
  PROVE  UNCHANGED <<block, mintRequests, burnRequests, abandonedBurns>>
<1>1. CASE \E v \in Vault : \/ CreateVault(v) \/ DeactivateVault(v)
                            \/ \E w \in Vault : CreateVaultEvicting(v, w)
  BY <1>1 DEF CreateVault, CreateVaultEvicting, DeactivateVault, timeVars, mintVars, burnVars
<1>2. CASE \E v \in Vault : \/ \E x \in DepositAmounts : DepositCollateral(v, x)
                            \/ \E x \in WithdrawAmounts : WithdrawCollateral(v, x)
                            \/ \E x \in RepayAmounts : RepayDebt(v, x)
  BY <1>2 DEF DepositCollateral, WithdrawCollateral, RepayDebt, timeVars, mintVars, burnVars
<1>3. CASE \E v \in Vault :
         \/ \E x \in Thresholds : SetThreshold(v, x)
         \/ \E x \in MaxMints : SetMaxMintWsxmr(v, x)
         \/ \E x \in GriefingDeposits : SetMintGriefingDeposit(v, x)
         \/ \E x \in MintFees, y \in BurnRewards : SetVaultMarketMetrics(v, x, y)
         \/ \E x \in MinBurns : SetMinBurnAmount(v, x)
         \/ \E x \in Timeouts : SetMintTimeoutBlocks(v, x)
         \/ \E x \in Timeouts : SetBurnTimeoutBlocks(v, x)
  <2>1. ConfigUnchanged
    BY <1>3 DEF SetThreshold, SetMaxMintWsxmr, SetMintGriefingDeposit, SetVaultMarketMetrics,
                SetMinBurnAmount, SetMintTimeoutBlocks, SetBurnTimeoutBlocks
  <2>2. QED BY <2>1 DEF ConfigUnchanged, timeVars, mintVars, burnVars
<1>4. CASE \/ \E v \in Vault, minters \in Whitelists, on \in BOOLEAN :
                SetMinterWhitelist(v, minters, on)
           \/ \E a \in Account : WithdrawCollateralReturns(a) \/ WithdrawEthReturns(a)
  BY <1>4 DEF SetMinterWhitelist, WithdrawCollateralReturns, WithdrawEthReturns,
              timeVars, mintVars, burnVars
<1>5. QED BY <1>1, <1>2, <1>3, <1>4 DEF VaultNext

LEMMA BurnNextKeepsMints ==
  ASSUME BurnNext
  PROVE  UNCHANGED <<block, mintRequests>>
<1>1. CASE \E u \in Burners, v \in Vault, amount \in BurnAmounts : RequestBurn(u, v, amount)
  BY <1>1 DEF RequestBurn, timeVars, mintVars
<1>2. CASE \E r \in ReqId : BurnAction(r)
  <2>1. BurnUnchanged
    BY <1>2 DEF BurnAction, ProposeHash, ConfirmMoneroLock, RevealBurnSecret, SettleBurn,
                ClaimSlashedCollateral, ForceSettleBurn, AbortBurn, ResolveDeclinedProposal,
                ResolveAbandonedProposal, AbandonProposedBurn
  <2>2. QED BY <2>1 DEF BurnUnchanged, timeVars, mintVars
<1>3. QED BY <1>1, <1>2 DEF BurnNext, BurnAction

LEMMA AuctionNextKeepsMints ==
  ASSUME AuctionNext
  PROVE  UNCHANGED <<block, mintRequests, abandonedBurns>>
<1>1. KickUnchanged
  BY DEF AuctionNext, Kick, Reauction, OpenAuction, ResolveKick, Bid, BackstopVault
<1>2. QED BY <1>1 DEF KickUnchanged, timeVars, mintVars

LEMMA OthersKeepMints ==
  ASSUME VaultNext \/ BurnNext \/ AuctionNext \/ TokenNext \/ UNCHANGED vars
  PROVE  UNCHANGED <<block, mintRequests>>
<1>1. CASE TokenNext \/ UNCHANGED vars
  BY <1>1 DEF TokenNext, Transfer, vars, timeVars, mintVars
<1>2. QED BY <1>1, VaultNextKeepsRequests, BurnNextKeepsMints, AuctionNextKeepsMints

\* A block is mined: the timeouts it passes are those of a set of awaited requests.
LEMMA TickExpires ==
  ASSUME TypeInv, Tick
  PROVE  \E S \in SUBSET NewRequest : MintsSeen!ExpireMints(S)
<1>1. PICK f, g : f = MintsShown /\ g = MintsShown'
  OBVIOUS
<1> DEFINE S == {i \in NewRequest : ~f[i].expired /\ g[i].expired}
<1>2. ASSUME NEW i \in NewRequest
      PROVE  /\ g[i] = IF i \in S THEN [f[i] EXCEPT !.expired = TRUE] ELSE f[i]
             /\ i \in S => /\ f[i].status \in MintAwaited /\ ~f[i].expired
  <2>1. PICK m \in MintRecord : m = mintRequests[i]
    BY DEF TypeInv, NewRequest, GoodMint
  <2>2. mintRequests'[i] = m
    BY <2>1 DEF Tick, mintVars
  <2>3. f[i] = MintAs(m, block) /\ g[i] = MintAs(m, block + 1)
    BY <1>1, <2>1, <2>2 DEF MintsShown, MintSeen, MintAs, MintAwaited, Tick, NewRequest
  <2>4. PICK n \in Nat, t \in Nat : n = block /\ t = m.timeout
    BY <2>1 DEF TypeInv, MintRecord
  <2>5. n >= t => n + 1 >= t
    OBVIOUS
  <2>6. CASE m.status \in MintAwaited /\ block + 1 >= m.timeout /\ ~(block >= m.timeout)
    <3>1. /\ f[i] = [status |-> m.status, userSecret |-> m.userSecret, lpSecret |-> m.lpSecret,
                     expired |-> FALSE]
          /\ g[i] = [status |-> m.status, userSecret |-> m.userSecret, lpSecret |-> m.lpSecret,
                     expired |-> TRUE]
      BY <2>3, <2>6 DEF MintAs
    <3>2. i \in S /\ f[i].status \in MintAwaited /\ ~f[i].expired
      BY <2>6, <3>1
    <3>3. g[i] = [f[i] EXCEPT !.expired = TRUE]
      <4>1. PICK x, y : x = FALSE /\ y = TRUE
        OBVIOUS
      <4>2. f[i] = [status |-> m.status, userSecret |-> m.userSecret, lpSecret |-> m.lpSecret,
                    expired |-> x]
        BY <3>1, <4>1, Zenon
      <4>3. g[i] = [status |-> m.status, userSecret |-> m.userSecret, lpSecret |-> m.lpSecret,
                    expired |-> y]
        BY <3>1, <4>1, Zenon
      <4>4. g[i] = [f[i] EXCEPT !.expired = y]
        BY <4>2, <4>3
      <4>5. QED BY <4>1, <4>4, Zenon
    <3>4. QED BY <3>2, <3>3
  <2>7. CASE ~(m.status \in MintAwaited /\ block + 1 >= m.timeout /\ ~(block >= m.timeout))
    <3>1. (m.status \in MintAwaited /\ block + 1 >= m.timeout)
            <=> (m.status \in MintAwaited /\ block >= m.timeout)
      BY <2>4, <2>5, <2>7
    <3>2. g[i] = f[i]
      BY <2>3, <3>1 DEF MintAs
    <3>3. QED BY <3>2
  <2>8. QED BY <2>6, <2>7
<1>3. g = [i \in NewRequest |-> IF i \in S THEN [f[i] EXCEPT !.expired = TRUE] ELSE f[i]]
  <2>1. g = [i \in NewRequest |-> g[i]]
    BY <1>1 DEF MintsShown, NewRequest
  <2>2. QED BY <1>2, <2>1
<1>4. \A i \in S : f[i].status \in MintsSeen!MintWaiting /\ MintsSeen!InTime(i)
  BY <1>1, <1>2 DEF MintsSeen!MintWaiting, MintsSeen!InTime, MintAwaited, MintsShown
<1>5. S \in SUBSET NewRequest
  OBVIOUS
<1> HIDE DEF S
<1>6. MintsSeen!ExpireMints(S)
  BY <1>1, <1>3, <1>4 DEF MintsSeen!ExpireMints, MintsShown
<1>7. QED BY <1>5, <1>6

\* Every step of the hub is one of the mint lifecycle, or none.
LEMMA MintsStep ==
  ASSUME LedgerInv, TypeInv', [Next]_vars
  PROVE  [MintsSeen!MintLifecycleNext]_MintsShown
<1>1. TypeInv /\ MintsFresh
  BY DEF LedgerInv, LedgerFacts, BurnListInv
<1>2. ASSUME UNCHANGED <<block, mintRequests>>
      PROVE  MintsShown' = MintsShown
  BY <1>2 DEF MintsShown, MintSeen, NewRequest
<1>3. ASSUME NEW r \in ReqId, NEW q, mintRequests' = [mintRequests EXCEPT ![r] = q],
             MintMove(mintRequests[r], q), UNCHANGED block
      PROVE  [MintsSeen!MintLifecycleNext]_MintsShown
  <2>1. CASE r \in NewRequest
    <3>1. MintsSeen!MintSteps(r)
      BY <1>1, <1>3, <2>1, MintMoveMapped
    <3>2. QED BY <2>1, <3>1 DEF MintsSeen!MintLifecycleNext
  <2>2. CASE r \notin NewRequest
    BY <1>1, <1>3, <2>2, OtherMintShown
  <2>3. QED BY <2>1, <2>2
<1>4. CASE MintNext
  <2>1. UNCHANGED block
    BY <1>4, MintNextKeepsTime
  <2>2. PICK r \in ReqId : \E q : /\ mintRequests' = [mintRequests EXCEPT ![r] = q]
                                   /\ MintMove(mintRequests[r], q)
    BY <1>1, <1>4, InitiateMintMoves, MintActionMoves DEF MintNext, MintAction
  <2>3. QED BY <1>3, <2>1, <2>2
<1>5. CASE Tick
  BY <1>1, <1>5, TickExpires DEF MintsSeen!MintLifecycleNext
<1>6. CASE VaultNext \/ BurnNext \/ AuctionNext \/ TokenNext \/ UNCHANGED vars
  <2>1. UNCHANGED <<block, mintRequests>>
    BY <1>6, OthersKeepMints
  <2>2. QED BY <1>2, <2>1
<1>7. QED BY <1>4, <1>5, <1>6 DEF Next

\* The mint lifecycle the servers and the page are specified against is the one the
\* hub implements (MintFacet.sol), from its deployment on, for any number of requests
\* and whatever the vaults quote.
THEOREM MintLifecycleImplemented == Spec => MintLifecycleKept
<1>1. Init => MintsSeen!MintInit
  <2> SUFFICES ASSUME Init PROVE MintsSeen!MintInit
    OBVIOUS
  <2>1. \A r \in NewRequest : MintSeen(r) = MintsSeen!NoMint
    BY DEF Init, NewRequest, MintSeen, EmptyMint, MintsSeen!NoMint
  <2>2. QED BY <2>1 DEF MintsSeen!MintInit
<1>2. LedgerInv /\ LedgerInv' /\ [Next]_vars
        => [MintsSeen!MintLifecycleNext]_([r \in NewRequest |-> MintSeen(r)])
  <2>1. LedgerInv' => TypeInv'
    BY DEF LedgerInv, BurnListInv
  <2>2. LedgerInv /\ LedgerInv' /\ [Next]_vars => [MintsSeen!MintLifecycleNext]_MintsShown
    BY <2>1, MintsStep
  <2>3. QED BY <2>2 DEF MintsShown
<1>3. QED
  BY <1>1, <1>2, LedgerInvariant, PTL
  DEF Spec, MintLifecycleKept, MintsSeen!MintLifecycleSpec

-----------------------------------------------------------------------------
(* The burns. *)

BurnClock(b, time) ==
  IF b.status \notin ActiveBurn \/ time < b.deadline THEN "open"
  ELSE IF b.status = "COMMITTED" /\ time >= b.deadline + BurnFinalizeGrace THEN "over" ELSE "late"
BurnAs(b, abandoned, time) ==
  [status |-> b.status, userSecret |-> b.userSecret, lpSecret |-> b.lpSecret,
   abandoned |-> abandoned, clock |-> BurnClock(b, time)]
BurnsShown == [r \in ReqId |-> BurnSeen(r)]

BurnEnters(b, c, from, to) ==
  b.status = from /\ c.status = to /\ (to \in ActiveBurn => block < c.deadline)
UserShown(b, c) == c.userSecret = TRUE /\ c.lpSecret = b.lpSecret
Late(b) == block >= b.deadline + BurnFinalizeGrace

\* What one step of the hub may make of one burn that it leaves abandoned or not.
BurnPasses(b, c) ==
  \/ BurnEnters(b, c, "INVALID", "REQUESTED") /\ SecretsKept(b, c)
  \/ BurnEnters(b, c, "REQUESTED", "PROPOSED") /\ SecretsKept(b, c) /\ block < b.deadline
  \/ BurnEnters(b, c, "PROPOSED", "COMMITTED") /\ SecretsKept(b, c) /\ block < b.deadline
  \/ /\ b.status = "COMMITTED" /\ ~b.lpSecret /\ ~Late(b)
     /\ c.status = b.status /\ c.deadline = b.deadline /\ Published(b, c)
  \/ /\ BurnEnters(b, c, "COMMITTED", "COMPLETED") /\ Published(b, c)
     /\ b.lpSecret \/ ~Late(b)
  \/ /\ BurnEnters(b, c, "COMMITTED", "SLASHED") /\ UserShown(b, c)
     /\ ~b.lpSecret /\ Late(b)
  \/ /\ SecretsKept(b, c) /\ block >= b.deadline
     /\ \/ BurnEnters(b, c, "REQUESTED", "SLASHED")
        \/ BurnEnters(b, c, "REQUESTED", "CANCELLED")
  \/ BurnEnters(b, c, "PROPOSED", "CANCELLED") /\ UserShown(b, c) /\ block >= b.deadline

BurnMove(r, b, c) ==
  \/ abandonedBurns' = abandonedBurns /\ BurnPasses(b, c)
  \/ /\ r \in abandonedBurns /\ abandonedBurns' = abandonedBurns \ {r}
     /\ BurnEnters(b, c, "CANCELLED", "CANCELLED") /\ UserShown(b, c)
  \/ /\ abandonedBurns' = abandonedBurns \cup {r} /\ block >= b.deadline
     /\ BurnEnters(b, c, "PROPOSED", "CANCELLED") /\ SecretsKept(b, c)

\* One burn changes, and one record of what is shown.
LEMMA OneBurnShown ==
  ASSUME TypeInv, NEW r \in ReqId, NEW c, UNCHANGED block,
         burnRequests' = [burnRequests EXCEPT ![r] = c],
         \A i \in ReqId \ {r} : i \in abandonedBurns' <=> i \in abandonedBurns
  PROVE  /\ BurnsShown' = [BurnsShown EXCEPT ![r] = BurnAs(c, r \in abandonedBurns', block)]
         /\ BurnsShown[r] = BurnAs(burnRequests[r], r \in abandonedBurns, block)
<1>1. burnRequests'[r] = c /\ \A i \in ReqId : i # r => burnRequests'[i] = burnRequests[i]
  BY DEF TypeInv
<1>2. \A i \in ReqId : i # r => BurnSeen(i)' = BurnSeen(i)
  BY <1>1 DEF BurnSeen
<1>3. BurnSeen(r)' = BurnAs(c, r \in abandonedBurns', block)
  BY <1>1 DEF BurnSeen, BurnAs, BurnClock
<1>4. BurnSeen(r) = BurnAs(burnRequests[r], r \in abandonedBurns, block)
  BY DEF BurnSeen, BurnAs, BurnClock
<1>5. QED BY <1>2, <1>3, <1>4 DEF BurnsShown

\* The clock of a burn in flight.
LEMMA ClockReads ==
  ASSUME TypeInv, NEW b \in BurnRecord
  PROVE  /\ BurnClock(b, block) = "open" <=> b.status \notin ActiveBurn \/ block < b.deadline
         /\ b.status = "COMMITTED" =>
              (BurnClock(b, block) = "over" <=> block >= b.deadline + BurnFinalizeGrace)
<1>1. PICK n \in Nat, d \in Nat, g \in Nat :
        n = block /\ d = b.deadline /\ g = BurnFinalizeGrace
  BY TimesAssumption DEF TypeInv, BurnRecord
<1>2. n >= d + g => ~(n < d)
  OBVIOUS
<1>3. QED BY <1>1, <1>2 DEF BurnClock, ActiveBurn

\* Each move of a burn is a step of its lifecycle.
LEMMA BurnMoveMapped ==
  ASSUME TypeInv, TypeInv', NEW r \in ReqId, NEW b, NEW c, b = burnRequests[r],
         burnRequests' = [burnRequests EXCEPT ![r] = c], UNCHANGED block, BurnMove(r, b, c)
  PROVE  BurnsSeen!BurnSteps(r)
<1>1. PICK x, y : x = (r \in abandonedBurns) /\ y = (r \in abandonedBurns')
  OBVIOUS
<1>2. PICK f, g, a, z : f = BurnsShown /\ g = BurnsShown' /\ a = BurnAs(b, x, block)
                        /\ z = BurnAs(c, y, block)
  OBVIOUS
<1>3. \A i \in ReqId \ {r} : i \in abandonedBurns' <=> i \in abandonedBurns
  BY DEF BurnMove
<1>4. g = [f EXCEPT ![r] = z] /\ f[r] = a
  BY <1>1, <1>2, <1>3, OneBurnShown
<1>5. b \in BurnRecord /\ c \in BurnRecord
  <2>1. burnRequests'[r] = c
    BY DEF TypeInv
  <2>2. QED BY <2>1 DEF TypeInv, GoodBurn
<1>6. PICK k, l : k = BurnClock(b, block) /\ l = BurnClock(c, block)
  OBVIOUS
<1>7. /\ a = [status |-> b.status, userSecret |-> b.userSecret, lpSecret |-> b.lpSecret,
              abandoned |-> x, clock |-> k]
      /\ z = [status |-> c.status, userSecret |-> c.userSecret, lpSecret |-> c.lpSecret,
              abandoned |-> y, clock |-> l]
  BY <1>2, <1>6 DEF BurnAs
<1>8. /\ BurnsSeen!Open(r) <=> b.status \notin ActiveBurn \/ block < b.deadline
      /\ b.status = "COMMITTED" => (BurnsSeen!Over(r) <=> Late(b))
  <2>1. a.clock = k
    BY <1>7
  <2>2. BurnsSeen!Open(r) <=> k = "open"
    BY <1>2, <1>4, <2>1 DEF BurnsSeen!Open, BurnsShown
  <2>3. BurnsSeen!Over(r) <=> k = "over"
    BY <1>2, <1>4, <2>1 DEF BurnsSeen!Over, BurnsShown
  <2>4. QED BY <1>5, <1>6, <2>2, <2>3, ClockReads DEF Late
<1>9. f[r].lpSecret = b.lpSecret /\ f[r].status = b.status /\ f[r].abandoned = x
  BY <1>4, <1>7
<1>10. [i \in ReqId |-> BurnSeen(i)][r].lpSecret = b.lpSecret
       /\ [i \in ReqId |-> BurnSeen(i)][r].status = b.status
       /\ [i \in ReqId |-> BurnSeen(i)][r].abandoned = x
  BY <1>2, <1>9 DEF BurnsShown
<1>11. ASSUME NEW from, z = from, NEW s, s = b.status
       PROVE  BurnsSeen!BurnMoves(r, s, from)
  BY <1>2, <1>4, <1>10, <1>11 DEF BurnsSeen!BurnMoves, BurnsShown
<1>12. \A s : BurnsSeen!At(r, s) = [a EXCEPT !.status = s, !.clock = "open"]
  BY <1>2, <1>4 DEF BurnsSeen!At, BurnsShown
<1>13. ASSUME NEW from, NEW to, BurnEnters(b, c, from, to)
       PROVE  b.status = from /\ c.status = to /\ l = "open"
  <2>1. c.status \notin ActiveBurn \/ block < c.deadline
    BY <1>13 DEF BurnEnters
  <2>2. QED BY <1>5, <1>6, <1>13, <2>1, ClockReads DEF BurnEnters
<1>14. PICK t, n : t = TRUE /\ n = FALSE
  OBVIOUS
<1>15. ASSUME NEW from, NEW to, BurnEnters(b, c, from, to), SecretsKept(b, c), x = y
       PROVE  BurnsSeen!BurnMoves(r, from, BurnsSeen!At(r, to))
  <2>1. PICK o : o = "open"
    OBVIOUS
  <2>2. z = [status |-> to, userSecret |-> b.userSecret, lpSecret |-> b.lpSecret,
             abandoned |-> x, clock |-> o]
    BY <1>7, <1>13, <1>15, <2>1 DEF SecretsKept
  <2>3. z = [a EXCEPT !.status = to, !.clock = o]
    <3>1. PICK e : e = [a EXCEPT !.status = to, !.clock = o]
      OBVIOUS
    <3>2. e = [status |-> to, userSecret |-> b.userSecret, lpSecret |-> b.lpSecret,
               abandoned |-> x, clock |-> o]
      BY <1>7, <3>1
    <3>3. QED BY <2>2, <3>1, <3>2
  <2>4. z = BurnsSeen!At(r, to)
    BY <1>12, <2>1, <2>3, Zenon
  <2>5. QED BY <1>11, <1>13, <1>15, <2>4
<1>16. ASSUME NEW from, NEW to, BurnEnters(b, c, from, to), UserShown(b, c), x = y
       PROVE  BurnsSeen!BurnMoves(r, from, [BurnsSeen!At(r, to) EXCEPT !.userSecret = TRUE])
  <2>1. PICK o : o = "open"
    OBVIOUS
  <2>2. z = [status |-> to, userSecret |-> t, lpSecret |-> b.lpSecret,
             abandoned |-> x, clock |-> o]
    BY <1>7, <1>13, <1>14, <1>16, <2>1 DEF UserShown
  <2>3. z = [[a EXCEPT !.status = to, !.clock = o] EXCEPT !.userSecret = t]
    <3>1. PICK e : e = [a EXCEPT !.status = to, !.clock = o]
      OBVIOUS
    <3>2. e = [status |-> to, userSecret |-> b.userSecret, lpSecret |-> b.lpSecret,
               abandoned |-> x, clock |-> o]
      BY <1>7, <3>1
    <3>3. z = [e EXCEPT !.userSecret = t]
      BY <2>2, <3>2
    <3>4. QED BY <3>1, <3>3
  <2>4. z = [BurnsSeen!At(r, to) EXCEPT !.userSecret = TRUE]
    BY <1>12, <1>14, <2>1, <2>3, Zenon
  <2>5. QED BY <1>11, <1>13, <1>16, <2>4
<1>17. block >= b.deadline /\ b.status \in ActiveBurn => ~BurnsSeen!Open(r)
  <2>1. PICK u \in Nat, d \in Nat : u = block /\ d = b.deadline
    BY <1>5 DEF TypeInv, BurnRecord
  <2>2. QED BY <1>8, <2>1
<1>18. CASE abandonedBurns' = abandonedBurns /\ BurnPasses(b, c)
  <2>1. x = y
    BY <1>1, <1>18
  <2>2. CASE /\ SecretsKept(b, c)
             /\ \/ BurnEnters(b, c, "INVALID", "REQUESTED")
                \/ BurnEnters(b, c, "REQUESTED", "PROPOSED") /\ block < b.deadline
                \/ BurnEnters(b, c, "PROPOSED", "COMMITTED") /\ block < b.deadline
    BY <1>8, <1>15, <2>1, <2>2
    DEF BurnsSeen!BurnSteps, BurnsSeen!RequestBurn, BurnsSeen!ProposeHash, BurnsSeen!ConfirmLock
  <2>3. CASE /\ b.status = "COMMITTED" /\ ~b.lpSecret /\ ~Late(b)
             /\ c.status = b.status /\ c.deadline = b.deadline /\ Published(b, c)
    <3>1. k = l
      BY <1>6, <2>3 DEF BurnClock
    <3>2. z = [status |-> b.status, userSecret |-> b.userSecret, lpSecret |-> t,
               abandoned |-> x, clock |-> k]
      BY <1>7, <1>14, <2>1, <2>3, <3>1 DEF Published
    <3>3. z = [a EXCEPT !.lpSecret = t]
      BY <1>7, <3>2
    <3>4. z = [f[r] EXCEPT !.lpSecret = TRUE]
      BY <1>4, <1>14, <3>3, Zenon
    <3>5. BurnsSeen!BurnMoves(r, "COMMITTED",
            [[i \in ReqId |-> BurnSeen(i)][r] EXCEPT !.lpSecret = TRUE])
      BY <1>2, <1>11, <2>3, <3>4 DEF BurnsShown
    <3>6. BurnsSeen!RevealBurn(r)
      BY <1>8, <1>10, <2>3, <3>5 DEF BurnsSeen!RevealBurn
    <3>7. QED BY <3>6 DEF BurnsSeen!BurnSteps
  <2>4. CASE /\ BurnEnters(b, c, "COMMITTED", "COMPLETED") /\ Published(b, c)
             /\ b.lpSecret \/ ~Late(b)
    <3>1. PICK o : o = "open"
      OBVIOUS
    <3>2. z = [status |-> "COMPLETED", userSecret |-> b.userSecret, lpSecret |-> t,
               abandoned |-> x, clock |-> o]
      BY <1>7, <1>13, <1>14, <2>1, <2>4, <3>1 DEF Published
    <3>3. z = [[a EXCEPT !.status = "COMPLETED", !.clock = o] EXCEPT !.lpSecret = t]
      <4>1. PICK e : e = [a EXCEPT !.status = "COMPLETED", !.clock = o]
        OBVIOUS
      <4>2. e = [status |-> "COMPLETED", userSecret |-> b.userSecret, lpSecret |-> b.lpSecret,
                 abandoned |-> x, clock |-> o]
        BY <1>7, <4>1
      <4>3. z = [e EXCEPT !.lpSecret = t]
        BY <3>2, <4>2
      <4>4. QED BY <4>1, <4>3
    <3>4. z = [BurnsSeen!At(r, "COMPLETED") EXCEPT !.lpSecret = TRUE]
      BY <1>12, <1>14, <3>1, <3>3, Zenon
    <3>5. BurnsSeen!BurnMoves(r, "COMMITTED",
            [BurnsSeen!At(r, "COMPLETED") EXCEPT !.lpSecret = TRUE])
      BY <1>11, <1>13, <2>4, <3>4
    <3>6. b.status = "COMMITTED"
      BY <1>13, <2>4
    <3>7. BurnsSeen!FinalizeBurn(r)
      BY <1>8, <1>10, <2>4, <3>5, <3>6 DEF BurnsSeen!FinalizeBurn
    <3>8. QED BY <3>7 DEF BurnsSeen!BurnSteps
  <2>5. CASE /\ BurnEnters(b, c, "COMMITTED", "SLASHED") /\ UserShown(b, c)
             /\ ~b.lpSecret /\ Late(b)
    <3>1. BurnsSeen!BurnMoves(r, "COMMITTED",
            [BurnsSeen!At(r, "SLASHED") EXCEPT !.userSecret = TRUE])
      BY <1>16, <2>1, <2>5
    <3>2. b.status = "COMMITTED"
      BY <1>13, <2>5
    <3>3. BurnsSeen!ClaimSlashed(r)
      BY <1>8, <1>10, <2>5, <3>1, <3>2 DEF BurnsSeen!ClaimSlashed
    <3>4. QED BY <3>3 DEF BurnsSeen!BurnSteps
  <2>6. CASE /\ SecretsKept(b, c) /\ block >= b.deadline
             /\ \/ BurnEnters(b, c, "REQUESTED", "SLASHED")
                \/ BurnEnters(b, c, "REQUESTED", "CANCELLED")
    <3>1. ~BurnsSeen!Open(r)
      BY <1>13, <1>17, <2>6 DEF ActiveBurn
    <3>2. BurnsSeen!ForceSettle(r) \/ BurnsSeen!AbortBurn(r)
      BY <1>15, <2>1, <2>6, <3>1 DEF BurnsSeen!ForceSettle, BurnsSeen!AbortBurn
    <3>3. QED BY <3>2 DEF BurnsSeen!BurnSteps
  <2>7. CASE BurnEnters(b, c, "PROPOSED", "CANCELLED") /\ UserShown(b, c) /\ block >= b.deadline
    <3>1. ~BurnsSeen!Open(r)
      BY <1>13, <1>17, <2>7 DEF ActiveBurn
    <3>2. BurnsSeen!ResolveDeclined(r)
      BY <1>16, <2>1, <2>7, <3>1 DEF BurnsSeen!ResolveDeclined
    <3>3. QED BY <3>2 DEF BurnsSeen!BurnSteps
  <2>8. QED BY <1>18, <2>2, <2>3, <2>4, <2>5, <2>6, <2>7 DEF BurnPasses
<1>19. CASE /\ r \in abandonedBurns /\ abandonedBurns' = abandonedBurns \ {r}
            /\ BurnEnters(b, c, "CANCELLED", "CANCELLED") /\ UserShown(b, c)
  <2>1. x = TRUE /\ y = FALSE /\ k = "open" /\ l = "open"
    <3>1. b.status = "CANCELLED" /\ c.status = "CANCELLED" /\ l = "open"
      BY <1>13, <1>19
    <3>2. k = "open"
      BY <1>6, <3>1 DEF BurnClock, ActiveBurn
    <3>3. (r \in abandonedBurns) = TRUE /\ (r \in abandonedBurns') = FALSE
      BY <1>19
    <3>4. QED BY <1>1, <3>1, <3>2, <3>3, Zenon
  <2>2. z = [status |-> b.status, userSecret |-> t, lpSecret |-> b.lpSecret,
             abandoned |-> n, clock |-> k]
    BY <1>7, <1>13, <1>14, <1>19, <2>1 DEF UserShown
  <2>3. z = [a EXCEPT !.userSecret = t, !.abandoned = n]
    <3>1. PICK e : e = [a EXCEPT !.userSecret = t, !.abandoned = n]
      OBVIOUS
    <3>2. e = [status |-> b.status, userSecret |-> t, lpSecret |-> b.lpSecret,
               abandoned |-> n, clock |-> k]
      BY <1>7, <3>1
    <3>3. QED BY <2>2, <3>1, <3>2
  <2>4. z = [f[r] EXCEPT !.userSecret = TRUE, !.abandoned = FALSE]
    BY <1>4, <1>14, <2>3, Zenon
  <2>5. b.status = "CANCELLED"
    BY <1>13, <1>19
  <2>6. BurnsSeen!BurnMoves(r, "CANCELLED",
          [[i \in ReqId |-> BurnSeen(i)][r] EXCEPT !.userSecret = TRUE, !.abandoned = FALSE])
    BY <1>2, <1>11, <2>4, <2>5 DEF BurnsShown
  <2>7. BurnsSeen!ResolveDeclined(r)
    BY <1>10, <2>1, <2>6 DEF BurnsSeen!ResolveDeclined
  <2>8. QED BY <2>7 DEF BurnsSeen!BurnSteps
<1>20. CASE /\ abandonedBurns' = abandonedBurns \cup {r} /\ block >= b.deadline
            /\ BurnEnters(b, c, "PROPOSED", "CANCELLED") /\ SecretsKept(b, c)
  <2>1. PICK o : o = "open"
    OBVIOUS
  <2>2. y = TRUE
    BY <1>1, <1>20
  <2>3. z = [status |-> "CANCELLED", userSecret |-> b.userSecret, lpSecret |-> b.lpSecret,
             abandoned |-> t, clock |-> o]
    BY <1>7, <1>13, <1>14, <1>20, <2>1, <2>2 DEF SecretsKept
  <2>4. z = [[a EXCEPT !.status = "CANCELLED", !.clock = o] EXCEPT !.abandoned = t]
    <3>1. PICK e : e = [a EXCEPT !.status = "CANCELLED", !.clock = o]
      OBVIOUS
    <3>2. e = [status |-> "CANCELLED", userSecret |-> b.userSecret, lpSecret |-> b.lpSecret,
               abandoned |-> x, clock |-> o]
      BY <1>7, <3>1
    <3>3. z = [e EXCEPT !.abandoned = t]
      BY <2>3, <3>2
    <3>4. QED BY <3>1, <3>3
  <2>5. z = [BurnsSeen!At(r, "CANCELLED") EXCEPT !.abandoned = TRUE]
    BY <1>12, <1>14, <2>1, <2>4, Zenon
  <2>6. BurnsSeen!BurnMoves(r, "PROPOSED",
          [BurnsSeen!At(r, "CANCELLED") EXCEPT !.abandoned = TRUE])
    BY <1>11, <1>13, <1>20, <2>5
  <2>7. ~BurnsSeen!Open(r)
    BY <1>13, <1>17, <1>20 DEF ActiveBurn
  <2>8. BurnsSeen!AbandonProposed(r)
    BY <2>6, <2>7 DEF BurnsSeen!AbandonProposed
  <2>9. QED BY <2>8 DEF BurnsSeen!BurnSteps
<1>21. QED BY <1>18, <1>19, <1>20 DEF BurnMove

\* A new burn: at least a block to propose its hash.
LEMMA RequestBurnMoves ==
  ASSUME TypeInv, RequestsFresh, NEW u \in Burners, NEW v \in Vault, NEW amount \in BurnAmounts,
         RequestBurn(u, v, amount)
  PROVE  \E r \in ReqId : \E c : /\ burnRequests' = [burnRequests EXCEPT ![r] = c]
                                 /\ BurnMove(r, burnRequests[r], c)
<1>1. PICK r : r = requestNonce + 1
  OBVIOUS
<1>2. r \in ReqId /\ r > requestNonce
  BY <1>1, SizesAssumption DEF RequestBurn, TypeInv, ReqId
<1>3. PICK b \in GoodBurn : b = burnRequests[r]
  BY <1>2 DEF TypeInv
<1>4. b.status = "INVALID" /\ b.userSecret = FALSE /\ b.lpSecret = FALSE
  <2>1. b.status = "INVALID"
    BY <1>2, <1>3 DEF RequestsFresh
  <2>2. QED BY <1>3, <2>1 DEF GoodBurn, BurnRecord
<1>5. PICK c :
        /\ burnRequests' = [burnRequests EXCEPT ![r] = c]
        /\ c = [EmptyBurn EXCEPT !.status = "REQUESTED", !.user = u, !.lpVault = v,
                         !.wsxmrAmount = amount, !.lockedCollateral = BurnLock(vaults[v], amount),
                         !.rewardCollateral = BurnReward(vaults[v], amount),
                         !.deadline = block + vaults[v].burnTimeout,
                         !.vaultLiquidationNonce = vaults[v].liquidationNonce,
                         !.thresholdAtRequest = vaults[v].threshold]
  BY <1>1 DEF RequestBurn
<1>6. /\ c.status = "REQUESTED" /\ c.deadline = block + vaults[v].burnTimeout
      /\ c.userSecret = FALSE /\ c.lpSecret = FALSE
  BY <1>5 DEF EmptyBurn
<1>7. block < c.deadline
  <2>1. PICK V \in GoodVault : V = vaults[v]
    BY DEF TypeInv
  <2>2. V.active /\ V.burnTimeout \in Nat
    BY <2>1, VaultFields DEF RequestBurn
  <2>3. V.burnTimeout > 0
    BY <2>2 DEF GoodVault
  <2>4. PICK t \in Nat, n \in Nat : t = V.burnTimeout /\ n = block
    BY <2>2 DEF TypeInv
  <2>5. QED BY <1>6, <2>1, <2>3, <2>4
<1>8. abandonedBurns' = abandonedBurns
  BY DEF RequestBurn
<1>9. BurnMove(r, b, c)
  BY <1>4, <1>6, <1>7, <1>8 DEF BurnMove, BurnPasses, BurnEnters, SecretsKept
<1>10. QED BY <1>2, <1>3, <1>5, <1>9

\* The steps of a burn that was requested, one at a time.
LEMMA BurnActionMoves ==
  ASSUME TypeInv, NEW r \in ReqId, BurnAction(r)
  PROVE  \E c : /\ burnRequests' = [burnRequests EXCEPT ![r] = c]
                /\ BurnMove(r, burnRequests[r], c)
<1>1. PICK b \in BurnRecord : b = burnRequests[r]
  BY DEF TypeInv, GoodBurn
<1>2. block < block + BurnCommitTimeout
  <2>1. PICK n \in Nat, e \in Nat : n = block /\ e = BurnCommitTimeout
    BY TimesAssumption DEF TypeInv
  <2>2. QED BY <2>1, WaitsAssumption
<1>3. CASE ProposeHash(r) \/ ConfirmMoneroLock(r)
  <2>1. PICK s : /\ \/ s = "PROPOSED" /\ b.status = "REQUESTED"
                    \/ s = "COMMITTED" /\ b.status = "PROPOSED"
                 /\ block < b.deadline
                 /\ burnRequests' = [burnRequests EXCEPT ![r] =
                      [b EXCEPT !.status = s, !.deadline = block + BurnCommitTimeout]]
    BY <1>1, <1>3 DEF ProposeHash, ConfirmMoneroLock, TypeInv
  <2>2. PICK c : c = [b EXCEPT !.status = s, !.deadline = block + BurnCommitTimeout]
    OBVIOUS
  <2>3. c.status = s /\ c.deadline = block + BurnCommitTimeout /\ SecretsKept(b, c)
    BY <2>2 DEF BurnRecord, SecretsKept
  <2>4. abandonedBurns' = abandonedBurns
    BY <1>3 DEF ProposeHash, ConfirmMoneroLock
  <2>5. BurnMove(r, b, c)
    BY <1>2, <2>1, <2>3, <2>4 DEF BurnMove, BurnPasses, BurnEnters
  <2>6. QED BY <1>1, <2>1, <2>2, <2>5
<1>4. CASE RevealBurnSecret(r)
  <2>1. PICK c : c = [b EXCEPT !.lpSecret = TRUE]
    OBVIOUS
  <2>2. /\ b.status = "COMMITTED" /\ ~b.lpSecret /\ block < b.deadline + BurnFinalizeGrace
        /\ burnRequests' = [burnRequests EXCEPT ![r] = c]
    BY <1>1, <1>4, <2>1 DEF RevealBurnSecret, TypeInv
  <2>3. c.status = b.status /\ c.deadline = b.deadline /\ Published(b, c)
    BY <2>1 DEF BurnRecord, Published
  <2>4. ~Late(b)
    <3>1. PICK n \in Nat, d \in Nat, e \in Nat :
            n = block /\ d = b.deadline /\ e = BurnFinalizeGrace
      BY TimesAssumption DEF TypeInv, BurnRecord
    <3>2. QED BY <2>2, <3>1 DEF Late
  <2>5. abandonedBurns' = abandonedBurns
    BY <1>4 DEF RevealBurnSecret
  <2>6. BurnMove(r, b, c)
    BY <2>2, <2>3, <2>4, <2>5 DEF BurnMove, BurnPasses
  <2>7. QED BY <1>1, <2>2, <2>6
<1>5. CASE SettleBurn(r)
  <2>1. PICK c : c = [b EXCEPT !.status = "COMPLETED", !.lpSecret = TRUE]
    OBVIOUS
  <2>2. /\ b.status = "COMMITTED" /\ (b.lpSecret \/ block < b.deadline + BurnFinalizeGrace)
        /\ burnRequests' = [burnRequests EXCEPT ![r] = c]
    BY <1>1, <1>5, <2>1 DEF SettleBurn, TypeInv
  <2>3. c.status = "COMPLETED" /\ Published(b, c)
    BY <2>1 DEF BurnRecord, Published
  <2>4. b.lpSecret \/ ~Late(b)
    <3>1. PICK n \in Nat, d \in Nat, e \in Nat :
            n = block /\ d = b.deadline /\ e = BurnFinalizeGrace
      BY TimesAssumption DEF TypeInv, BurnRecord
    <3>2. QED BY <2>2, <3>1 DEF Late
  <2>5. abandonedBurns' = abandonedBurns
    BY <1>5 DEF SettleBurn, SettleAgainstDebt
  <2>6. BurnMove(r, b, c)
    BY <2>2, <2>3, <2>4, <2>5 DEF BurnMove, BurnPasses, BurnEnters, ActiveBurn
  <2>7. QED BY <1>1, <2>2, <2>6
<1>6. CASE ClaimSlashedCollateral(r) \/ ResolveDeclinedProposal(r)
  <2>1. PICK s : /\ \/ /\ s = "SLASHED" /\ b.status = "COMMITTED" /\ ~b.lpSecret
                       /\ block >= b.deadline + BurnFinalizeGrace
                    \/ /\ s = "CANCELLED" /\ b.status = "PROPOSED" /\ block >= b.deadline
                 /\ burnRequests' = [burnRequests EXCEPT ![r] =
                      [b EXCEPT !.status = s, !.userSecret = TRUE]]
    BY <1>1, <1>6 DEF ClaimSlashedCollateral, ResolveDeclinedProposal, TypeInv
  <2>2. PICK c : c = [b EXCEPT !.status = s, !.userSecret = TRUE]
    OBVIOUS
  <2>3. c.status = s /\ UserShown(b, c)
    BY <2>2 DEF BurnRecord, UserShown
  <2>4. abandonedBurns' = abandonedBurns
    BY <1>6 DEF ClaimSlashedCollateral, SettleAgainstDebt, ResolveDeclinedProposal
  <2>5. BurnMove(r, b, c)
    BY <2>1, <2>3, <2>4 DEF BurnMove, BurnPasses, BurnEnters, Late, ActiveBurn
  <2>6. QED BY <1>1, <2>1, <2>2, <2>5
<1>7. CASE ForceSettleBurn(r) \/ AbortBurn(r) \/ AbandonProposedBurn(r)
  <2>1. PICK s : /\ burnRequests' = [burnRequests EXCEPT ![r] = [b EXCEPT !.status = s]]
                 /\ block >= b.deadline
                 /\ \/ /\ s \in {"SLASHED", "CANCELLED"} /\ b.status = "REQUESTED"
                       /\ abandonedBurns' = abandonedBurns
                    \/ /\ s = "CANCELLED" /\ b.status = "PROPOSED"
                       /\ abandonedBurns' = abandonedBurns \cup {r}
    BY <1>1, <1>7 DEF ForceSettleBurn, SettleAgainstDebt, AbortBurn, AbandonProposedBurn, TypeInv
  <2>2. PICK c : c = [b EXCEPT !.status = s]
    OBVIOUS
  <2>3. c.status = s /\ SecretsKept(b, c)
    BY <2>2 DEF BurnRecord, SecretsKept
  <2>4. BurnMove(r, b, c)
    BY <2>1, <2>3 DEF BurnMove, BurnPasses, BurnEnters, ActiveBurn
  <2>5. QED BY <1>1, <2>1, <2>2, <2>4
<1>8. CASE ResolveAbandonedProposal(r)
  <2>1. PICK c : c = [b EXCEPT !.userSecret = TRUE]
    OBVIOUS
  <2>2. /\ b.status = "CANCELLED" /\ r \in abandonedBurns
        /\ abandonedBurns' = abandonedBurns \ {r}
        /\ burnRequests' = [burnRequests EXCEPT ![r] = c]
    BY <1>1, <1>8, <2>1 DEF ResolveAbandonedProposal, TypeInv
  <2>3. c.status = "CANCELLED" /\ UserShown(b, c)
    BY <2>1, <2>2 DEF BurnRecord, UserShown
  <2>4. BurnMove(r, b, c)
    BY <2>2, <2>3 DEF BurnMove, BurnEnters, ActiveBurn
  <2>5. QED BY <1>1, <2>2, <2>4
<1>9. QED BY <1>3, <1>4, <1>5, <1>6, <1>7, <1>8 DEF BurnAction

\* An auction opens, or a vault is taken over: the listed burns end together.
LEMMA SettlementMapped ==
  ASSUME BurnListInv, NEW v \in Vault, NEW S, SettlementStep(v, S)
  PROVE  \E T \in SUBSET ReqId : BurnsSeen!SettleByAuction(T)
<1>1. /\ S = {} \/ S = vaultBurnRequests[v]
      /\ SettleBurns(v, S) /\ UNCHANGED <<block, abandonedBurns>>
  BY SettlementStepSettles DEF Settles, KickUnchanged, timeVars
<1>2. S \in SUBSET ReqId
  BY <1>1 DEF BurnListInv, TypeInv
<1>3. PICK f, g : f = BurnsShown /\ g = BurnsShown'
  OBVIOUS
<1> DEFINE End(r) == IF f[r].status # "COMMITTED" THEN "CANCELLED"
                     ELSE IF f[r].lpSecret THEN "COMPLETED" ELSE "SLASHED"
<1>4. ASSUME NEW r \in ReqId
      PROVE  /\ g[r] = IF r \notin S THEN f[r]
                       ELSE [f[r] EXCEPT !.status = End(r), !.clock = "open"]
             /\ r \in S => f[r].status \in ActiveBurn
  <2>1. PICK b \in BurnRecord : b = burnRequests[r]
    BY DEF BurnListInv, TypeInv, GoodBurn
  <2>2. PICK x, k : x = (r \in abandonedBurns) /\ k = BurnClock(b, block)
    OBVIOUS
  <2>3. f[r] = [status |-> b.status, userSecret |-> b.userSecret, lpSecret |-> b.lpSecret,
                abandoned |-> x, clock |-> k]
    BY <1>3, <2>1, <2>2 DEF BurnsShown, BurnSeen, BurnClock
  <2>4. CASE r \notin S
    <3>1. burnRequests'[r] = burnRequests[r]
      BY <1>1, <2>4, ListedIsSettled
    <3>2. g[r] = f[r]
      BY <1>1, <1>3, <3>1 DEF BurnsShown, BurnSeen
    <3>3. QED BY <2>4, <3>2
  <2>5. CASE r \in S
    <3>1. b.status \in ActiveBurn
      BY <1>1, <2>1, <2>5 DEF BurnListInv, ListedInFlight
    <3>2. PICK e : e = End(r)
      OBVIOUS
    <3>3. e = IF b.status # "COMMITTED" THEN "CANCELLED"
              ELSE IF b.lpSecret THEN "COMPLETED" ELSE "SLASHED"
      BY <2>3, <3>2
    <3>4. burnRequests'[r] = [b EXCEPT !.status = e]
      <4>1. CASE b.status # "COMMITTED"
        BY <1>1, <2>1, <2>5, <3>1, <3>3, <4>1 DEF SettleBurns, Cancelled, ActiveBurn
      <4>2. CASE b.status = "COMMITTED"
        BY <1>1, <2>1, <2>5, <3>3, <4>2 DEF SettleBurns, Cancelled, Committed
      <4>3. QED BY <4>1, <4>2
    <3>5. PICK c : c = burnRequests'[r]
      OBVIOUS
    <3>6. /\ c.status = e /\ c.userSecret = b.userSecret /\ c.lpSecret = b.lpSecret
          /\ e \notin ActiveBurn
      BY <3>3, <3>4, <3>5 DEF BurnRecord, ActiveBurn
    <3>7. PICK o : o = "open"
      OBVIOUS
    <3>8. g[r] = BurnAs(c, r \in abandonedBurns', block)
      BY <1>1, <1>3, <3>5 DEF BurnsShown, BurnSeen, BurnAs, BurnClock
    <3>9. g[r] = [status |-> e, userSecret |-> b.userSecret, lpSecret |-> b.lpSecret,
                  abandoned |-> x, clock |-> o]
      BY <1>1, <2>2, <3>6, <3>7, <3>8 DEF BurnAs, BurnClock
    <3>10. PICK a : a = f[r]
      OBVIOUS
    <3>11. a = [status |-> b.status, userSecret |-> b.userSecret, lpSecret |-> b.lpSecret,
                abandoned |-> x, clock |-> k]
      BY <2>3, <3>10
    <3>12. [a EXCEPT !.status = e, !.clock = o]
             = [status |-> e, userSecret |-> b.userSecret, lpSecret |-> b.lpSecret,
                abandoned |-> x, clock |-> o]
      <4>1. PICK d : d = [a EXCEPT !.status = e, !.clock = o]
        OBVIOUS
      <4>2. d = [status |-> e, userSecret |-> b.userSecret, lpSecret |-> b.lpSecret,
                 abandoned |-> x, clock |-> o]
        BY <3>11, <4>1
      <4>3. QED BY <4>1, <4>2
    <3>13. g[r] = [f[r] EXCEPT !.status = End(r), !.clock = "open"]
      BY <3>2, <3>7, <3>9, <3>10, <3>12, Zenon
    <3>14. f[r].status \in ActiveBurn
      BY <2>3, <3>1
    <3>15. QED BY <2>5, <3>13, <3>14
  <2>6. QED BY <2>4, <2>5
<1>5. g = [r \in ReqId |-> IF r \notin S THEN f[r]
                           ELSE [f[r] EXCEPT !.status = End(r), !.clock = "open"]]
  <2>1. g = [r \in ReqId |-> g[r]]
    BY <1>3 DEF BurnsShown
  <2>2. QED BY <1>4, <2>1
<1>6. BurnsSeen!SettleByAuction(S)
  <2>1. \A r \in S : f[r].status \in BurnsSeen!BurnOpen
    BY <1>2, <1>4 DEF BurnsSeen!BurnOpen, ActiveBurn
  <2>2. QED
    BY <1>3, <1>5, <2>1 DEF BurnsSeen!SettleByAuction, BurnsSeen!At, BurnsShown
<1>7. QED BY <1>2, <1>6

\* A block is mined: it ends the wait for some burns and the grace of others.
LEMMA TickPasses ==
  ASSUME TypeInv, Tick
  PROVE  \E S \in SUBSET ReqId : BurnsSeen!PassDeadlines(S)
<1>1. PICK f, g : f = BurnsShown /\ g = BurnsShown'
  OBVIOUS
<1> DEFINE S == {r \in ReqId : f[r].clock # g[r].clock}
           Later(k) == IF k = "open" THEN "late" ELSE "over"
<1>2. ASSUME NEW r \in ReqId
      PROVE  /\ g[r] = IF r \in S THEN [f[r] EXCEPT !.clock = Later(f[r].clock)] ELSE f[r]
             /\ r \in S => /\ f[r].status \in ActiveBurn /\ f[r].clock # "over"
                           /\ f[r].clock = "open" \/ f[r].status = "COMMITTED"
  <2>1. PICK b \in BurnRecord : b = burnRequests[r]
    BY DEF TypeInv, GoodBurn
  <2>2. burnRequests'[r] = b /\ abandonedBurns' = abandonedBurns /\ block' = block + 1
    BY <2>1 DEF Tick, burnVars
  <2>3. PICK x, k, l : x = (r \in abandonedBurns) /\ k = BurnClock(b, block)
                       /\ l = BurnClock(b, block + 1)
    OBVIOUS
  <2>4. f[r] = [status |-> b.status, userSecret |-> b.userSecret, lpSecret |-> b.lpSecret,
                abandoned |-> x, clock |-> k]
    BY <1>1, <2>1, <2>3 DEF BurnsShown, BurnSeen, BurnClock
  <2>5. g[r] = [status |-> b.status, userSecret |-> b.userSecret, lpSecret |-> b.lpSecret,
                abandoned |-> x, clock |-> l]
    BY <1>1, <2>2, <2>3 DEF BurnsShown, BurnSeen, BurnClock
  <2>6. k = l \/ /\ b.status \in ActiveBurn
                 /\ \/ k = "open" /\ l = "late"
                    \/ k = "late" /\ l = "over" /\ b.status = "COMMITTED"
    <3>1. PICK n \in Nat, d \in Nat, e \in Nat :
            n = block /\ d = b.deadline /\ e = BurnFinalizeGrace /\ e > 0
      BY <2>1, TimesAssumption, WaitsAssumption DEF TypeInv, BurnRecord
    <3>2. /\ n + 1 < d => n < d
          /\ n < d => ~(n + 1 >= d + e)
          /\ n >= d + e => n + 1 >= d + e
      BY <3>1
    <3>3. k = IF b.status \notin ActiveBurn \/ n < d THEN "open"
              ELSE IF b.status = "COMMITTED" /\ n >= d + e THEN "over" ELSE "late"
      BY <2>3, <3>1 DEF BurnClock
    <3>4. l = IF b.status \notin ActiveBurn \/ n + 1 < d THEN "open"
              ELSE IF b.status = "COMMITTED" /\ n + 1 >= d + e THEN "over" ELSE "late"
      BY <2>3, <3>1 DEF BurnClock
    <3>5. QED BY <3>2, <3>3, <3>4
  <2>7. r \in S <=> k # l
    BY <2>4, <2>5
  <2>8. CASE k = l
    BY <2>4, <2>5, <2>7, <2>8
  <2>9. CASE k # l
    <3>1. l = Later(k)
      BY <2>6, <2>9
    <3>2. g[r] = [f[r] EXCEPT !.clock = l]
      BY <2>4, <2>5
    <3>3. f[r].clock = k /\ f[r].status = b.status
      BY <2>4
    <3>4. /\ f[r].status \in ActiveBurn /\ f[r].clock # "over"
          /\ f[r].clock = "open" \/ f[r].status = "COMMITTED"
      BY <2>6, <2>9, <3>3
    <3>5. QED BY <2>7, <2>9, <3>1, <3>2, <3>3, <3>4
  <2>10. QED BY <2>8, <2>9
<1>3. g = [r \in ReqId |-> IF r \in S THEN [f[r] EXCEPT !.clock = Later(f[r].clock)] ELSE f[r]]
  <2>1. g = [r \in ReqId |-> g[r]]
    BY <1>1 DEF BurnsShown
  <2>2. QED BY <1>2, <2>1
<1>4. S \in SUBSET ReqId
  OBVIOUS
<1>5. \A r \in S : /\ f[r].status \in BurnsSeen!BurnOpen /\ f[r].clock # "over"
                   /\ f[r].clock = "open" \/ f[r].status = "COMMITTED"
  BY <1>2 DEF BurnsSeen!BurnOpen, ActiveBurn
<1>6. g = [r \in ReqId |->
             IF r \in S THEN [f[r] EXCEPT !.clock = IF @ = "open" THEN "late" ELSE "over"]
             ELSE f[r]]
  BY <1>3
<1> HIDE DEF S
<1>7. BurnsSeen!PassDeadlines(S)
  BY <1>1, <1>5, <1>6 DEF BurnsSeen!PassDeadlines, BurnsSeen!Open, BurnsShown
<1>8. QED BY <1>4, <1>7

\* Only the burn facet, a settlement and a block move a burn.
LEMMA OthersKeepBurns ==
  ASSUME BurnListInv, VaultNext \/ MintNext \/ TokenNext \/ UNCHANGED vars
  PROVE  UNCHANGED <<block, burnRequests, abandonedBurns>>
<1>1. CASE TokenNext \/ UNCHANGED vars
  BY <1>1 DEF TokenNext, Transfer, vars, timeVars, burnVars
<1>2. CASE MintNext
  <2>1. CASE \E u \in Minters, recipient \in Recipients, v \in Vault,
                amount \in MintAmounts, value \in EthValues :
               InitiateMint(u, recipient, v, amount, value)
    BY <2>1 DEF InitiateMint, timeVars, burnVars
  <2>2. CASE \E r \in ReqId : MintAction(r)
    <3>1. MintUnchanged
      BY <2>2 DEF MintAction, ProvideLPKey, SetMintReady, RevealSecret, FinalizeMint, CancelMint,
                  AbandonKeyProvidedMint, ClaimGriefingDeposit, ReclaimParkedDeposit,
                  SweepUnclaimedExpiredMint
    <3>2. QED BY <3>1 DEF MintUnchanged, timeVars, burnVars
  <2>3. QED BY <1>2, <2>1, <2>2 DEF MintNext, MintAction
<1>3. QED BY <1>1, <1>2, VaultNextKeepsRequests

\* Every step of the hub is one of the burn lifecycle, or none.
LEMMA BurnsStep ==
  ASSUME LedgerInv, TypeInv', [Next]_vars
  PROVE  [BurnsSeen!BurnLifecycleNext]_BurnsShown
<1>1. BurnListInv /\ TypeInv /\ RequestsFresh
  BY DEF LedgerInv, BurnListInv
<1>2. ASSUME UNCHANGED <<block, burnRequests, abandonedBurns>>
      PROVE  BurnsShown' = BurnsShown
  BY <1>2 DEF BurnsShown, BurnSeen
<1>3. CASE BurnNext
  <2>1. UNCHANGED block
    BY <1>3, BurnNextKeepsMints
  <2>2. PICK r \in ReqId : \E c : /\ burnRequests' = [burnRequests EXCEPT ![r] = c]
                                   /\ BurnMove(r, burnRequests[r], c)
    BY <1>1, <1>3, RequestBurnMoves, BurnActionMoves DEF BurnNext, BurnAction
  <2>3. BurnsSeen!BurnSteps(r)
    BY <1>1, <2>1, <2>2, BurnMoveMapped
  <2>4. QED BY <2>3 DEF BurnsSeen!BurnLifecycleNext
<1>4. CASE AuctionNext
  <2>1. CASE \E kicker \in Kickers, v \in Vault : Kick(kicker, v) \/ Reauction(kicker, v)
    <3>1. UNCHANGED <<block, burnRequests, abandonedBurns>>
      BY <2>1 DEF Kick, Reauction, StartKick, KickUnchanged, timeVars
    <3>2. QED BY <1>2, <3>1
  <2>2. CASE \E v \in Vault : \E S : SettlementStep(v, S)
    BY <1>1, <2>2, SettlementMapped DEF BurnsSeen!BurnLifecycleNext
  <2>3. AuctionNext =>
          \/ \E kicker \in Kickers, v \in Vault : Kick(kicker, v) \/ Reauction(kicker, v)
          \/ \E v \in Vault : SettlementStep(v, ToSettle(v)) \/ SettlementStep(v, vaultBurnRequests[v])
    BY DEF AuctionNext, SettlementStep
  <2>4. QED BY <1>4, <2>1, <2>2, <2>3
<1>5. CASE Tick
  BY <1>1, <1>5, TickPasses DEF BurnsSeen!BurnLifecycleNext
<1>6. CASE VaultNext \/ MintNext \/ TokenNext \/ UNCHANGED vars
  <2>1. UNCHANGED <<block, burnRequests, abandonedBurns>>
    BY <1>1, <1>6, OthersKeepBurns
  <2>2. QED BY <1>2, <2>1
<1>7. QED BY <1>3, <1>4, <1>5, <1>6 DEF Next

\* The burn lifecycle the servers, the page and the liquidator are specified against is
\* the one the hub implements (BurnFacet.sol, and LiquidationAuctionFacet.sol where an
\* auction or a takeover settles the burns in flight), from its deployment on.
THEOREM BurnLifecycleImplemented == Spec => BurnLifecycleKept
<1>1. Init => BurnsSeen!BurnInit
  <2> SUFFICES ASSUME Init PROVE BurnsSeen!BurnInit
    OBVIOUS
  <2>1. \A r \in ReqId : BurnSeen(r) = BurnsSeen!NoBurn
    <3> SUFFICES ASSUME NEW r \in ReqId PROVE BurnSeen(r) = BurnsSeen!NoBurn
      OBVIOUS
    <3>1. burnRequests[r] = EmptyBurn /\ (r \in abandonedBurns) = FALSE
      BY DEF Init
    <3>2. PICK b : b = burnRequests[r]
      OBVIOUS
    <3>3. /\ b.status = "INVALID" /\ b.userSecret = FALSE /\ b.lpSecret = FALSE
          /\ b.status \notin ActiveBurn
      BY <3>1, <3>2 DEF EmptyBurn, ActiveBurn
    <3>4. BurnSeen(r) = [status |-> "INVALID", userSecret |-> FALSE, lpSecret |-> FALSE,
                         abandoned |-> FALSE, clock |-> "open"]
      BY <3>1, <3>2, <3>3, Zenon DEF BurnSeen
    <3>5. QED BY <3>4 DEF BurnsSeen!NoBurn
  <2>2. QED BY <2>1 DEF BurnsSeen!BurnInit
<1>2. LedgerInv /\ LedgerInv' /\ [Next]_vars
        => [BurnsSeen!BurnLifecycleNext]_([r \in ReqId |-> BurnSeen(r)])
  <2>1. LedgerInv' => TypeInv'
    BY DEF LedgerInv, BurnListInv
  <2>2. LedgerInv /\ LedgerInv' /\ [Next]_vars => [BurnsSeen!BurnLifecycleNext]_BurnsShown
    BY <2>1, BurnsStep
  <2>3. QED BY <2>2 DEF BurnsShown
<1>3. QED
  BY <1>1, <1>2, LedgerInvariant, PTL
  DEF Spec, BurnLifecycleKept, BurnsSeen!BurnLifecycleSpec
=============================================================================
