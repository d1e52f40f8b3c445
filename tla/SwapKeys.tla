------------------------------ MODULE SwapKeys ------------------------------
(***************************************************************************)
(* The key arithmetic on which a swap rests.  The page, the LP's server    *)
(* and the hub read the same 32 bytes as numbers, some little-endian and   *)
(* some big-endian, post the points they stand for, and build one Monero   *)
(* address of two spend keys; later each of them must rebuild the private  *)
(* keys of that address from bytes a chain revealed.  Three kinds of swap: *)
(* a mint and a burn over the EVM hub, a mint over Solana.                 *)
(*                                                                         *)
(* A key is two digits of base Base; the group has Order elements and a    *)
(* point s * G is written as s % Order, so that adding points is adding    *)
(* residues.  Hash stands for keccak256.  A commitment (a hash of a point) *)
(* is told apart only by its point.  noble's multiply refuses a zero       *)
(* scalar, so no key is zero; that two keys may add up to zero, one chance *)
(* in the group's order, is left out.                                      *)
(***************************************************************************)
EXTENDS Integers, Sequences, FiniteSets

CONSTANTS
  Base,      \* digits of a byte string
  Order,     \* ED25519_L
  HdKey,     \* what the wallet of the seed may derive for a path
  Hash(_),   \* keccak256 of a byte string
  Blinding   \* the random r of a Monero payment

Bytes == (0..(Base - 1)) \X (0..(Base - 1))

ASSUME KeyAssumption ==
  /\ Base \in Nat \ {0, 1} /\ Order \in 2..(Base * Base) /\ HdKey \subseteq Nat
  /\ Blinding \subseteq 1..(Order - 1)
  /\ \A b \in Bytes : Hash(b) \in Bytes

Point == 0..(Order - 1)

VARIABLES
  swap,      \* the kind of swap: "mint", "burn", "solMint"
  mine,      \* the user's keys: a record, or NoKeys
  theirs,    \* the LP's secret, as the file keeps it: bytes, or NoBytes
  posted,    \* the public keys and commitments the chain holds
  output,    \* the output of the payment: [R, P, to], or NoOutput
  sight,     \* "no", "found" or "missed": whoever must see the payment looked for it
  opened     \* [by, how]: who built a wallet of the revealed keys, and what it is good for

keyVars == <<swap, mine, theirs, posted, output, sight, opened>>

NoKeys == [spend |-> -1, view |-> -1]
NoBytes == <<>>
NoOutput == [R |-> -1, P |-> -1, to |-> <<-1, -1>>]

---------------------------------------------------------------------------
(* Bytes and scalars.                                                      *)

BE(b) == Base * b[1] + b[2]
AsBE(n) == <<n \div Base, n % Base>>
reverseHexBytes(b) == <<b[2], b[1]>>
LE(b) == BE(reverseHexBytes(b))
toLeHex(n) == reverseHexBytes(AsBE(n))

\* burnHandler.js and commitment.js: the bytes as the EVM reads a uint256.
scalarToPubKeyBE(b) == BE(b) % Order
computeSecretHash(b) == BE(b) % Order

\* server.js: the bytes as Monero reads a key.
scalarHexToPubKeyHex(b) == LE(b) % Order

\* secrets.js of the Solana client: little-endian, and the program reads it so.
computePublicKey(b) == LE(b) % Order

\* A raw key reduced and written again, as wallet-rpc requires it.
_canonicalScalarLeHex(b) == toLeHex(LE(b) % Order)

---------------------------------------------------------------------------
(* The keys of the page (seedManager.js).                                  *)

\* The view key of a spend key: the hash of its little-endian bytes, read little-endian.
viewKeyOf(spend) == LE(Hash(toLeHex(spend))) % Order

generateKeysFromSeed(hd) == [spend |-> hd % Order, view |-> viewKeyOf(hd % Order)]
derivePerBurnKeySet(hash) == [spend |-> BE(hash) % Order, view |-> viewKeyOf(BE(hash) % Order)]
generateCommitment(secret) == secret % Order

---------------------------------------------------------------------------
(* Monero addresses, payments and wallets.                                 *)

addEd25519Points(a, b) == (a + b) % Order
deriveMoneroAddress(spendPub, viewPub) == <<spendPub, viewPub>>

\* The LP's copy (moneroCrypto.js of the server) ...
computeDepositAddress(userPub, lpSpend, lpView) ==
  deriveMoneroAddress(addEd25519Points(userPub, lpSpend), lpView)
computeBurnAddress(userPub, userView, lpSpend) ==
  deriveMoneroAddress(addEd25519Points(userPub, lpSpend), userView)

\* ... the page's ...
pageAdd(a, b) == (a + b) % Order
pageDepositAddress(userPub, lpSpend, lpView) == <<pageAdd(userPub, lpSpend), lpView>>
pageBurnAddress(userPub, userView, lpSpend) == <<pageAdd(userPub, lpSpend), userView>>

\* ... and the Solana node's.
solDepositAddress(userPub, lpSpend, lpView) == <<(userPub + lpSpend) % Order, lpView>>

\* What a derivation 8 * r * V adds to the spend key: the one-time scalar of an output.
oneTime(deriv) == LE(Hash(toLeHex(deriv % Order))) % Order

\* A wallet that pays address a with the random r.
payment(r, a) == [R |-> r, P |-> (oneTime(8 * r * a[2]) + a[1]) % Order, to |-> a]

\* The matchers of the LP's daemon scan and of the page's.
_matchTxOutputs(out, viewScalar, spendPub) ==
  out.P = (oneTime(8 * out.R * viewScalar) + spendPub) % Order
matchTxOutputs(out, viewScalar, spendPub) ==
  out.P = (oneTime(8 * viewScalar * out.R) + spendPub) % Order

\* scanDepositViaDaemon (and the mempool scan): the raw key is reduced before use.
scanDepositViaDaemon(a, viewHex, out) == _matchTxOutputs(out, LE(viewHex) % Order, a[1])

\* wallet-rpc takes a view key that fits the address, and scans with it only if it is
\* canonical.
viewWalletSees(a, viewHex) == LE(viewHex) < Order /\ LE(viewHex) = a[2]

\* Mutant: wallet-rpc gets the raw key.
_pollDepositRpcRaw(a, viewHex, out) == viewWalletSees(a, viewHex) /\ out.to = a

\* The dedicated deposit wallet: the key is made canonical first.
_pollDepositRpcOnce(a, viewHex, out) ==
  viewWalletSees(a, _canonicalScalarLeHex(viewHex)) /\ out.to = a

\* scanBlocksForPayment of the page.
scanBlocksForPayment(a, viewHex, out) == matchTxOutputs(out, LE(viewHex) % Order, a[1])

\* What wallet-rpc makes of an address, a spend key and a view key.
walletFromKeys(a, spendHex, viewHex) ==
  CASE LE(spendHex) % Order # a[1] \/ LE(viewHex) % Order # a[2] -> "refused"
    [] LE(spendHex) >= Order \/ LE(viewHex) >= Order -> "blind"
    [] output.to # a -> "empty"
    [] OTHER -> "open"

---------------------------------------------------------------------------
(* The swap.                                                               *)

NoPost == [userPub |-> -1, userView |-> -1, userCommit |-> -1,
           lpPub |-> -1, lpView |-> -1, lpCommit |-> -1]

KeyInit ==
  /\ swap \in {"mint", "burn", "solMint"}
  /\ mine = NoKeys /\ theirs = NoBytes /\ posted = NoPost
  /\ output = NoOutput /\ sight = "no" /\ opened = [by |-> "none", how |-> "none"]

\* The page requests a mint: the key set of the seed, its commitment, its spend key.
keyedMint ==
  /\ swap = "mint" /\ mine = NoKeys
  /\ \E hd \in HdKey :
       LET keys == generateKeysFromSeed(hd) IN
       /\ keys.spend # 0 /\ keys.view # 0
       /\ mine' = keys
       /\ posted' = [posted EXCEPT !.userPub = keys.spend,
                                   !.userCommit = generateCommitment(keys.spend)]
  /\ UNCHANGED <<swap, theirs, output, sight, opened>>

\* The page requests a burn: a key set of its own, both public keys on chain.
keyedBurn ==
  /\ swap = "burn" /\ mine = NoKeys
  /\ \E hash \in Bytes :
       LET keys == derivePerBurnKeySet(hash) IN
       /\ keys.spend # 0 /\ keys.view # 0
       /\ mine' = keys
       /\ posted' = [posted EXCEPT !.userPub = keys.spend, !.userView = keys.view,
                                   !.userCommit = generateCommitment(keys.spend)]
  /\ UNCHANGED <<swap, theirs, output, sight, opened>>

\* makeSecret masks the top bits, so that the scalar is canonical.
makeSecret == {b \in Bytes : LE(b) \in 1..(Order - 1)}

\* A user of the Solana program makes a secret of the same kind as the LP's.
keyedSolMint ==
  /\ swap = "solMint" /\ mine = NoKeys
  /\ \E b \in makeSecret :
       /\ mine' = [spend |-> LE(b), view |-> -1]
       /\ posted' = [posted EXCEPT !.userPub = computePublicKey(b), !.userCommit = computePublicKey(b)]
  /\ UNCHANGED <<swap, theirs, output, sight, opened>>

\* The deposit embeds userPublicKey, the reveal is checked against the commitment.
verifyCommitmentBinding == posted.userCommit = posted.userPub

\* One random secret is spend key, view key and commitment of the LP; the points are of
\* its little-endian reading, the commitment of its big-endian one.
generateEd25519Keys(b) ==
  [lpPub |-> LE(b) % Order, lpView |-> LE(b) % Order, lpCommit |-> computeSecretHash(b)]

lpKeyForMint ==
  /\ swap = "mint" /\ mine # NoKeys /\ theirs = NoBytes /\ verifyCommitmentBinding
  /\ \E b \in Bytes :
       LET keys == generateEd25519Keys(b) IN
       /\ keys.lpPub # 0 /\ keys.lpCommit # 0
       /\ theirs' = b
       /\ posted' = [posted EXCEPT !.lpPub = keys.lpPub, !.lpView = keys.lpView,
                                   !.lpCommit = keys.lpCommit]
  /\ UNCHANGED <<swap, mine, output, sight, opened>>

\* handleBurnPropose: the point and the commitment are both of the big-endian reading.
\* The LP's view key is posted but is in no address.
proposedKeys(b) ==
  [lpPub |-> scalarToPubKeyBE(b), lpCommit |-> computeSecretHash(b)]

lpKeyForBurn ==
  /\ swap = "burn" /\ mine # NoKeys /\ theirs = NoBytes
  /\ \E b \in Bytes :
       LET keys == proposedKeys(b) IN
       /\ keys.lpPub # 0
       /\ theirs' = b
       /\ posted' = [posted EXCEPT !.lpPub = keys.lpPub, !.lpCommit = keys.lpCommit]
  /\ UNCHANGED <<swap, mine, output, sight, opened>>

lpKeyForSolMint ==
  /\ swap = "solMint" /\ mine # NoKeys /\ theirs = NoBytes /\ verifyCommitmentBinding
  /\ \E b \in makeSecret :
       /\ theirs' = b
       /\ posted' = [posted EXCEPT !.lpPub = computePublicKey(b), !.lpView = computePublicKey(b),
                                   !.lpCommit = computePublicKey(b)]
  /\ UNCHANGED <<swap, mine, output, sight, opened>>

\* The user pays the deposit the page shows; the LP pays a burn's shared address.
depositPaid ==
  /\ swap \in {"mint", "solMint"} /\ theirs # NoBytes /\ output = NoOutput
  /\ \E r \in Blinding :
       output' = payment(r, pageDepositAddress(posted.userPub, posted.lpPub, posted.lpView))
  /\ UNCHANGED <<swap, mine, theirs, posted, sight, opened>>

sharedPaid ==
  /\ swap = "burn" /\ theirs # NoBytes /\ output = NoOutput
  /\ \E r \in Blinding :
       output' = payment(r, computeBurnAddress(posted.userPub, posted.userView, posted.lpPub))
  /\ UNCHANGED <<swap, mine, theirs, posted, sight, opened>>

\* processMint scans with lpSecret if its point is the one the chain holds.
scanViewKey == IF scalarHexToPubKeyHex(theirs) = posted.lpPub THEN theirs ELSE NoBytes

\* The LP's poll: the dedicated wallet or, when it fails, the daemon's blocks.
depositWatched ==
  /\ swap = "mint" /\ output # NoOutput /\ sight = "no"
  /\ LET a == computeDepositAddress(posted.userPub, posted.lpPub, posted.lpView)
     IN \E byWallet \in BOOLEAN :
          sight' = IF /\ scanViewKey # NoBytes
                      /\ IF byWallet THEN _pollDepositRpcOnce(a, scanViewKey, output)
                                     ELSE scanDepositViaDaemon(a, scanViewKey, output)
                   THEN "found" ELSE "missed"
  /\ UNCHANGED <<swap, mine, theirs, posted, output, opened>>

\* The Solana node: the same poll, but its deposit wallet takes the raw key.
solDepositWatched ==
  /\ swap = "solMint" /\ output # NoOutput /\ sight = "no"
  /\ LET a == solDepositAddress(posted.userPub, computePublicKey(theirs), computePublicKey(theirs))
     IN \E byWallet \in BOOLEAN :
          sight' = IF IF byWallet THEN viewWalletSees(a, theirs) /\ output.to = a
                                  ELSE scanDepositViaDaemon(a, theirs, output)
                   THEN "found" ELSE "missed"
  /\ UNCHANGED <<swap, mine, theirs, posted, output, opened>>

\* confirmMoneroLock: the page turns its view key round and scans blocks for the payment.
burnWatched ==
  /\ swap = "burn" /\ output # NoOutput /\ sight = "no"
  /\ sight' = IF scanBlocksForPayment(
                   pageBurnAddress(posted.userPub, posted.userView, posted.lpPub),
                   reverseHexBytes(AsBE(mine.view)), output)
              THEN "found" ELSE "missed"
  /\ UNCHANGED <<swap, mine, theirs, posted, output, opened>>

---------------------------------------------------------------------------
(* After a reveal: the private keys of the address are put together again. *)

\* A revealed secret is accepted if its point is the committed one; the hub reads
\* big-endian, the Solana program little-endian.
revealed(secret, commit) ==
  IF swap = "solMint" THEN LE(secret) % Order = commit ELSE BE(secret) % Order = commit

outcome(by, secret, commit, how) ==
  opened' = [by |-> by, how |-> IF revealed(secret, commit) THEN how ELSE "rejected"]

\* _sweepMintDeposit: the user's secret is read big-endian, the LP's little-endian; the
\* view key is the caller's, reduced before wallet-rpc gets it.
_sweepMintDeposit(userHex, lpHex, viewHex) ==
  LET spend == ((BE(userHex) % Order) + (LE(lpHex) % Order)) % Order
  IN walletFromKeys(deriveMoneroAddress(spend, LE(viewHex) % Order),
                    toLeHex(spend), _canonicalScalarLeHex(viewHex))

\* The candidates for the view key: by what the chain says of the LP's keys or, when it
\* cannot be read, all of them (MONERO_VIEW_KEY, of older mints, is left out).
viewKeyCandidates(readOk) ==
  IF readOk /\ posted.lpPub = posted.lpView
    THEN {theirs} ELSE {theirs, reverseHexBytes(AsBE(mine.spend))}

sweepMintWithViewKeyFallback ==
  /\ swap = "mint" /\ sight = "found" /\ opened.by = "none"
  /\ \E readOk \in BOOLEAN :
       LET userHex == AsBE(mine.spend)
           tried == {_sweepMintDeposit(userHex, theirs, v) : v \in viewKeyCandidates(readOk)}
       IN outcome("lpSweep", userHex, posted.userCommit,
                  IF "open" \in tried THEN "open" ELSE CHOOSE how \in tried : TRUE)
  /\ UNCHANGED <<swap, mine, theirs, posted, output, sight>>

\* Mutant: the LP's bytes are read as a mint's whatever they are.
combineSpendKeysLe(userHex, lpHex, lpSecretIsLe) == toLeHex((BE(userHex) + LE(lpHex)) % Order)

\* combineSpendKeys of the page serves mints and burns: the LP's bytes differ.
combineSpendKeys(userHex, lpHex, lpSecretIsLe) ==
  toLeHex((BE(userHex) + (IF lpSecretIsLe THEN LE(lpHex) ELSE BE(lpHex))) % Order)

\* mintRecovery.js: the view key is the LP's secret as it is.
deriveMintDepositAddress(userHex, lpHex) ==
  deriveMoneroAddress((BE(userHex) + LE(lpHex)) % Order, LE(lpHex) % Order)
getMintKeysForImport(userHex, lpHex) ==
  [spendKey |-> combineSpendKeys(userHex, lpHex, TRUE), viewKey |-> lpHex]

\* The LP's secret of a mint is revealed (abandoned mint): the user recovers the deposit.
userRecoversMint ==
  /\ swap = "mint" /\ output # NoOutput /\ opened.by = "none"
  /\ LET userHex == AsBE(mine.spend)
         keys == getMintKeysForImport(userHex, theirs)
     IN outcome("userRecovery", theirs, posted.lpCommit,
                walletFromKeys(deriveMintDepositAddress(userHex, theirs), keys.spendKey, keys.viewKey))
  /\ UNCHANGED <<swap, mine, theirs, posted, output, sight>>

\* burnSweep.js: what the page hands out for a finalized burn.
getCombinedKeysForImport(userHex, lpHex, viewScalar) ==
  [spendKey |-> combineSpendKeys(userHex, lpHex, FALSE), viewKey |-> toLeHex(viewScalar)]

buildBurnClaimKeys ==
  /\ swap = "burn" /\ sight = "found" /\ opened.by = "none"
  /\ LET keys == getCombinedKeysForImport(AsBE(mine.spend), theirs, mine.view)
     IN outcome("userClaim", theirs, posted.lpCommit,
                walletFromKeys(pageBurnAddress(posted.userPub, posted.userView, posted.lpPub),
                               keys.spendKey, keys.viewKey))
  /\ UNCHANGED <<swap, mine, theirs, posted, output, sight>>

\* The user of a declined proposal reveals its secret: the LP wants its XMR back.
\* _sweepBurnShared reads the LP's secret little-endian, and gives wallet-rpc the
\* big-endian digits of the view key as if they were little-endian.
_sweepBurnShared ==
  /\ swap = "burn" /\ output # NoOutput /\ opened.by = "none"
  /\ LET userHex == AsBE(mine.spend)
         spend == ((BE(userHex) % Order) + (LE(theirs) % Order)) % Order
         view == viewKeyOf(BE(userHex) % Order)
     IN outcome("lpShared", userHex, posted.userCommit,
                walletFromKeys(deriveMoneroAddress(spend, view),
                               toLeHex(spend), _canonicalScalarLeHex(AsBE(view))))
  /\ UNCHANGED <<swap, mine, theirs, posted, output, sight>>

\* settle of the Solana node: the revealed bytes are turned round for _sweepMintDeposit,
\* whose copy there gives wallet-rpc the raw view key.
leToBeHex(b) == reverseHexBytes(b)

sweepSolMint ==
  /\ swap = "solMint" /\ sight = "found" /\ opened.by = "none"
  /\ LET secret == reverseHexBytes(AsBE(mine.spend))
         spend == ((BE(leToBeHex(secret)) % Order) + (LE(theirs) % Order)) % Order
     IN outcome("solSweep", secret, posted.userCommit,
                walletFromKeys(deriveMoneroAddress(spend, LE(theirs) % Order),
                               toLeHex(spend), theirs))
  /\ UNCHANGED <<swap, mine, theirs, posted, output, sight>>

KeyNext ==
  \/ keyedMint \/ keyedBurn \/ keyedSolMint
  \/ lpKeyForMint \/ lpKeyForBurn \/ lpKeyForSolMint
  \/ depositPaid \/ sharedPaid
  \/ depositWatched \/ solDepositWatched \/ burnWatched
  \/ sweepMintWithViewKeyFallback \/ userRecoversMint \/ buildBurnClaimKeys
  \/ _sweepBurnShared \/ sweepSolMint

KeySpec == KeyInit /\ [][KeyNext]_keyVars

---------------------------------------------------------------------------
(* Properties.                                                             *)

\* Whoever has to see a payment sees it: the address the payer was shown is the one that
\* is scanned, with a view key that fits it, by every way the scan can take.
PaymentSeen == sight # "missed"

\* The keys revealed on chain open the address that was paid: the LP's sweep of a mint,
\* the user's claim of a burn and the Solana node's sweep.  The user's recovery of a mint
\* has the right keys, but the view key it hands out may not be canonical.
KeysOpenDeposit ==
  /\ opened.by \in {"lpSweep", "userClaim", "solSweep"} => opened.how = "open"
  /\ opened.by = "userRecovery" => opened.how \in {"open", "blind"}

\* After a declined proposal the LP can combine the user's revealed secret with its own
\* and sweep the shared XMR (moneroWallet.js, the comment of sweepBurnShared).
SharedIsSwept == opened.by = "lpShared" => opened.how = "open"
=============================================================================
