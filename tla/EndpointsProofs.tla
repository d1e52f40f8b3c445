--------------------------- MODULE EndpointsProofs ---------------------------
(***************************************************************************)
(* The endpoints of a swap, one section per module of Endpoints: the       *)
(* Solana node and page, the deposit scan, the page's watch for a payment, *)
(* the wallets, and the co-LP positions with their cached list.  The keys  *)
(* are in KeyProofs.                                                       *)
(***************************************************************************)
EXTENDS Endpoints, SumsProofs

-----------------------------------------------------------------------------
\* Burns on Solana: a payout per burn.

SolBurnRec == [status : {"none", "requested", "proposed", "committed", "completed",
                         "cancelled", "slashed"},
               key : Nat, late : BOOLEAN]
BurnJobRec == [pc : {"idle", "propose", "abandon", "finalize", "wait", "pay", "record"},
               key : Nat, sent : BOOLEAN]
BurnTxRec == [kind : {"propose", "abandon", "finalize"}, burn : SolBurn, key : Nat,
              awaited : BOOLEAN]

SolBurnTypes ==
  /\ solBurn \in [SolBurn -> SolBurnRec] /\ burnScan \in [SolBurn -> SolBurnRec]
  /\ burnJob \in [SolBurn -> BurnJobRec] /\ burnTxs \subseteq BurnTxRec
  /\ burnFile \in [SolBurn -> [key : Nat, sent : BOOLEAN]]
  /\ burnPaid \in [SolBurn -> [BurnKey -> Nat]]

\* A proposal is of the key in the file, and the job that waits for a transaction
\* waits for no other.
ProposalSound(t) ==
  /\ t.kind = "propose" => t.key = burnFile[t.burn].key /\ t.key # 0
  /\ t.awaited =>
       /\ burnJob[t.burn].pc = "wait" /\ burnJob[t.burn].key = t.key
       /\ \A s \in burnTxs : s.awaited /\ s.burn = t.burn => s = t

\* The key on the chain is the one in the file.
Answered(b) ==
  /\ solBurn[b].status \notin {"none", "requested"}
  /\ burnFile[b].key = solBurn[b].key /\ solBurn[b].key # 0

Unpaid(b) == \A k \in BurnKey : burnPaid[b][k] = 0

\* Who is about to pay has the key of the accepted proposal, and nobody has paid.
PayerSound(b) ==
  /\ burnJob[b].pc = "propose" => burnJob[b].key = burnFile[b].key /\ burnJob[b].key # 0
  /\ burnJob[b].pc = "pay" =>
       Answered(b) /\ Unpaid(b) /\ burnJob[b].key = solBurn[b].key
  /\ \A k \in BurnKey : burnPaid[b][k] > 0 =>
       /\ Answered(b) /\ k = solBurn[b].key
       /\ burnPaid[b][k] <= IF b \in timedOut THEN WalletCalls ELSE 1

SolBurnInv ==
  /\ SolBurnTypes
  /\ \A t \in burnTxs : ProposalSound(t)
  /\ \A b \in SolBurn : PayerSound(b)

LEMMA SolBurnInitInv == SolBurnInit => SolBurnInv
<1> SUFFICES ASSUME SolBurnInit PROVE SolBurnInv
  OBVIOUS
<1> USE DEF SolBurnInit, NoBurn, NoEntry, BurnIdle
<1>1. SolBurnTypes
  BY DEF SolBurnTypes, SolBurnRec, BurnJobRec, BurnTxRec
<1>2. \A b \in SolBurn : PayerSound(b)
  BY DEF PayerSound
<1>3. QED BY <1>1, <1>2 DEF SolBurnInv

\* The fields of the records the actions change.
LEMMA BurnJobStep ==
  ASSUME SolBurnTypes, NEW b \in SolBurn,
         NEW pc \in {"idle", "propose", "abandon", "finalize", "wait", "pay", "record"},
         BurnStep(b, pc)
  PROVE  /\ burnJob' \in [SolBurn -> BurnJobRec]
         /\ burnJob'[b].pc = pc /\ burnJob'[b].key = burnJob[b].key
         /\ \A c \in SolBurn : c # b => burnJob'[c] = burnJob[c]
<1>1. burnJob[b] \in BurnJobRec
  BY DEF SolBurnTypes
<1>2. PICK r : r = [burnJob[b] EXCEPT !.pc = pc]
  OBVIOUS
<1>3. r \in BurnJobRec /\ r.pc = pc /\ r.key = burnJob[b].key
  BY <1>1, <1>2 DEF BurnJobRec
<1>4. burnJob' = [burnJob EXCEPT ![b] = r]
  BY <1>2 DEF BurnStep
<1>5. QED BY <1>3, <1>4 DEF SolBurnTypes

LEMMA BurnOrphansStep ==
  ASSUME SolBurnTypes, NEW which, BurnOrphans(which)
  PROVE  /\ burnTxs' \subseteq BurnTxRec
         /\ \A t \in burnTxs' : \E s \in burnTxs :
              /\ t.kind = s.kind /\ t.burn = s.burn /\ t.key = s.key
              /\ t.awaited => t = s /\ t.burn \notin which
<1> SUFFICES ASSUME NEW t \in burnTxs'
             PROVE  t \in BurnTxRec /\ \E s \in burnTxs :
                      /\ t.kind = s.kind /\ t.burn = s.burn /\ t.key = s.key
                      /\ t.awaited => t = s /\ t.burn \notin which
  OBVIOUS
<1>1. PICK s \in burnTxs : t = IF s.burn \in which THEN [s EXCEPT !.awaited = FALSE] ELSE s
  BY DEF BurnOrphans
<1>2. s \in BurnTxRec
  BY DEF SolBurnTypes
<1>3. PICK f \in BOOLEAN : f = FALSE
  OBVIOUS
<1>4. PICK r : r = [s EXCEPT !.awaited = f]
  OBVIOUS
<1>5. /\ r \in BurnTxRec /\ r.kind = s.kind /\ r.burn = s.burn /\ r.key = s.key
      /\ r.awaited = f
  BY <1>2, <1>4 DEF BurnTxRec
<1>6. t = IF s.burn \in which THEN r ELSE s
  BY <1>1, <1>3, <1>4
<1>7. QED BY <1>2, <1>3, <1>5, <1>6

LEMMA BurnGoesStep ==
  ASSUME SolBurnTypes, NEW b \in SolBurn, NEW from,
         NEW to \in {"requested", "proposed", "committed", "completed", "cancelled", "slashed"},
         BurnGoes(b, from, to)
  PROVE  /\ solBurn' \in [SolBurn -> SolBurnRec]
         /\ solBurn[b].status = from /\ solBurn'[b].status = to
         /\ solBurn'[b].key = solBurn[b].key
         /\ \A c \in SolBurn : c # b => solBurn'[c] = solBurn[c]
<1>1. solBurn[b] \in SolBurnRec
  BY DEF SolBurnTypes
<1>2. PICK f \in BOOLEAN : f = FALSE
  OBVIOUS
<1>3. PICK r : r = [solBurn[b] EXCEPT !.status = to, !.late = f]
  OBVIOUS
<1>4. r \in SolBurnRec /\ r.status = to /\ r.key = solBurn[b].key
  BY <1>1, <1>3 DEF SolBurnRec
<1>5. solBurn' = [solBurn EXCEPT ![b] = r]
  BY <1>2, <1>3 DEF BurnGoes
<1>6. solBurn[b].status = from /\ solBurn \in [SolBurn -> SolBurnRec]
  BY DEF SolBurnTypes, BurnGoes, BurnStatus
<1>7. QED BY <1>4, <1>5, <1>6

\* What a step of the program leaves alone.
LEMMA ProgramQuiet ==
  ASSUME SolBurnInv, NEW b \in SolBurn,
         UNCHANGED <<burnPaid, timedOut, burnTxs, burnScan, burnJob, burnFile>>,
         solBurn' \in [SolBurn -> SolBurnRec],
         solBurn'[b].key = solBurn[b].key,
         solBurn[b].status = "none" \/ solBurn'[b].status \notin {"none", "requested"}
           \/ solBurn'[b].status = solBurn[b].status,
         solBurn'[b].status \in {"none", "requested"} => solBurn[b].status \in {"none", "requested"},
         \A c \in SolBurn : c # b => solBurn'[c] = solBurn[c]
  PROVE  SolBurnInv'
<1>1. SolBurnTypes'
  BY DEF SolBurnInv, SolBurnTypes
<1>2. ASSUME NEW t \in burnTxs PROVE ProposalSound(t)'
  BY DEF SolBurnInv, ProposalSound
<1>3. ASSUME NEW c \in SolBurn PROVE PayerSound(c)'
  BY DEF SolBurnInv, PayerSound, Answered, Unpaid
<1>4. QED BY <1>1, <1>2, <1>3 DEF SolBurnInv

LEMMA UserOrProgramInv ==
  ASSUME SolBurnInv, NEW b \in SolBurn, UserOrProgram(b)
  PROVE  SolBurnInv'
<1>1. SolBurnTypes /\ UNCHANGED <<burnPaid, timedOut, burnTxs, burnScan, burnJob, burnFile>>
  BY DEF SolBurnInv, UserOrProgram
<1>2. CASE BurnDeadline(b)
  <2>1. PICK t \in BOOLEAN : t = TRUE
    OBVIOUS
  <2>2. PICK r : r = [solBurn[b] EXCEPT !.late = t]
    OBVIOUS
  <2>3. r \in SolBurnRec /\ r.status = solBurn[b].status /\ r.key = solBurn[b].key
    BY <1>1, <2>2, ZenonT(60) DEF SolBurnTypes, SolBurnRec
  <2>4. solBurn' = [solBurn EXCEPT ![b] = r]
    BY <1>2, <2>1, <2>2 DEF BurnDeadline
  <2>5. /\ solBurn' \in [SolBurn -> SolBurnRec] /\ solBurn'[b] = r
        /\ \A c \in SolBurn : c # b => solBurn'[c] = solBurn[c]
    BY <1>1, <2>3, <2>4 DEF SolBurnTypes
  <2>6. QED BY <1>1, <2>3, <2>5, ProgramQuiet
<1>3. ASSUME NEW from, NEW to \in {"requested", "proposed", "committed", "completed", "cancelled", "slashed"},
             BurnGoes(b, from, to),
             from = "none" \/ (to # "requested" /\ from # "none")
      PROVE  SolBurnInv'
  BY <1>1, <1>3, BurnGoesStep, ProgramQuiet
<1>4. CASE RequestSolBurn(b)
  BY <1>3, <1>4 DEF RequestSolBurn
<1>5. CASE EndUnanswered(b)
  BY <1>3, <1>5 DEF EndUnanswered
<1>6. CASE ConfirmSolLock(b)
  BY <1>3, <1>6 DEF ConfirmSolLock
<1>7. CASE UserSettles(b)
  BY <1>3, <1>7 DEF UserSettles
<1>8. CASE LiquidationSettles(b)
  BY <1>3, <1>8 DEF LiquidationSettles
<1>9. QED BY <1>2, <1>4, <1>5, <1>6, <1>7, <1>8 DEF UserOrProgram

\* Landing: an accepted proposal sets the key of the file on the chain.
LEMMA BurnTxEffectStep ==
  ASSUME SolBurnInv, NEW t \in burnTxs, BurnTxEffect(t)
  PROVE  /\ solBurn' \in [SolBurn -> SolBurnRec]
         /\ solBurn[t.burn].status # "none"
         /\ solBurn'[t.burn].status \notin {"none", "requested"}
         /\ t.kind = "propose" =>
              solBurn[t.burn].status = "requested" /\ solBurn'[t.burn].key = t.key
         /\ t.kind # "propose" =>
              /\ solBurn'[t.burn].key = solBurn[t.burn].key
              /\ solBurn[t.burn].status \notin {"none", "requested"}
         /\ \A c \in SolBurn : c # t.burn => solBurn'[c] = solBurn[c]
<1>1. SolBurnTypes /\ t \in BurnTxRec /\ t.burn \in SolBurn /\ t.key \in Nat
  BY DEF SolBurnInv, SolBurnTypes, BurnTxRec
<1>2. CASE t.kind = "propose"
  <2>1. solBurn[t.burn].status = "requested"
    BY <1>2 DEF BurnTxEffect, BurnStatus
  <2>2. PICK f \in BOOLEAN : f = FALSE
    OBVIOUS
  <2>3. PICK r : r = [NoBurn EXCEPT !.status = "proposed", !.key = t.key]
    OBVIOUS
  <2>4. r = [status |-> "proposed", key |-> t.key, late |-> f]
    BY <2>2, <2>3 DEF NoBurn
  <2>5. r \in SolBurnRec /\ r.status = "proposed" /\ r.key = t.key
    BY <1>1, <2>4 DEF SolBurnRec
  <2>6. solBurn' = [solBurn EXCEPT ![t.burn] = r]
    BY <1>2, <2>3 DEF BurnTxEffect
  <2>7. QED BY <1>1, <1>2, <2>1, <2>5, <2>6 DEF SolBurnTypes
<1>3. CASE t.kind = "finalize"
  <2>1. BurnGoes(t.burn, "committed", "completed")
    BY <1>3 DEF BurnTxEffect
  <2>2. QED BY <1>1, <1>3, <2>1, BurnGoesStep
<1>4. CASE t.kind = "abandon"
  <2>1. BurnGoes(t.burn, "proposed", "cancelled")
    BY <1>4 DEF BurnTxEffect
  <2>2. QED BY <1>1, <1>4, <2>1, BurnGoesStep
<1>5. QED BY <1>1, <1>2, <1>3, <1>4 DEF BurnTxRec

LEMMA LandBurnTxInv ==
  ASSUME SolBurnInv, NEW t \in burnTxs, LandBurnTx(t)
  PROVE  SolBurnInv'
<1> DEFINE b == t.burn
<1>1. /\ SolBurnTypes /\ t \in BurnTxRec /\ b \in SolBurn /\ ProposalSound(t) /\ PayerSound(b)
      /\ burnTxs' = burnTxs \ {t} /\ UNCHANGED <<burnPaid, timedOut, burnScan, burnFile>>
  BY DEF SolBurnInv, SolBurnTypes, BurnTxRec, LandBurnTx
<1>2. PICK ok \in BOOLEAN :
        /\ IF ok THEN BurnTxEffect(t) ELSE UNCHANGED solBurn
        /\ IF t.awaited THEN BurnStep(b, IF PayoutDue(t, ok) THEN "pay" ELSE "idle") ELSE UNCHANGED burnJob
  BY DEF LandBurnTx
<1>3. /\ solBurn' \in [SolBurn -> SolBurnRec]
      /\ \/ solBurn'[b] = solBurn[b]
         \/ /\ t.kind = "propose" /\ solBurn[b].status = "requested" /\ solBurn'[b].key = t.key
            /\ solBurn'[b].status \notin {"none", "requested"}
         \/ /\ solBurn'[b].key = solBurn[b].key /\ solBurn[b].status \notin {"none", "requested"}
            /\ solBurn'[b].status \notin {"none", "requested"}
      /\ \A c \in SolBurn : c # b => solBurn'[c] = solBurn[c]
  <2>1. CASE ok
    BY <1>2, <2>1, BurnTxEffectStep
  <2>2. CASE ~ok
    BY <1>1, <1>2, <2>2 DEF SolBurnTypes
  <2>3. QED BY <2>1, <2>2
<1>4. /\ burnJob' \in [SolBurn -> BurnJobRec] /\ \A c \in SolBurn : c # b => burnJob'[c] = burnJob[c]
      /\ burnJob'[b].key = burnJob[b].key
      /\ ~t.awaited => burnJob'[b] = burnJob[b]
      /\ t.awaited => burnJob'[b].pc = IF PayoutDue(t, ok) THEN "pay" ELSE "idle"
  <2>1. CASE t.awaited
    <3>1. PICK pc \in {"idle", "propose", "abandon", "finalize", "wait", "pay", "record"} :
            pc = IF PayoutDue(t, ok) THEN "pay" ELSE "idle"
      OBVIOUS
    <3>2. BurnStep(b, pc)
      BY <1>2, <2>1, <3>1
    <3>3. QED BY <1>1, <2>1, <3>1, <3>2, BurnJobStep
  <2>2. CASE ~t.awaited
    BY <1>1, <1>2, <2>2 DEF SolBurnTypes
  <2>3. QED BY <2>1, <2>2
<1>5. SolBurnTypes'
  BY <1>1, <1>3, <1>4 DEF SolBurnTypes
<1>6. ASSUME NEW s \in burnTxs' PROVE ProposalSound(s)'
  <2>1. s \in burnTxs /\ s # t /\ s.burn \in SolBurn /\ ProposalSound(s)
    BY <1>1 DEF SolBurnInv, SolBurnTypes, BurnTxRec
  <2>2. s.awaited => s.burn # b \/ ~t.awaited
    BY <1>1, <2>1 DEF ProposalSound
  <2>3. s.awaited => burnJob'[s.burn] = burnJob[s.burn]
    BY <1>4, <2>1, <2>2
  <2>4. s.kind = "propose" => s.key = burnFile'[s.burn].key /\ s.key # 0
    BY <1>1, <2>1 DEF ProposalSound
  <2>5. QED BY <1>1, <2>1, <2>3, <2>4 DEF ProposalSound
<1>7. ASSUME NEW c \in SolBurn PROVE PayerSound(c)'
  <2>1. PayerSound(c)
    BY DEF SolBurnInv
  <2>2. CASE c # b
    BY <1>1, <1>3, <1>4, <2>1, <2>2 DEF PayerSound, Answered, Unpaid
  <2>3. CASE c = b
    <3>1. t.awaited /\ PayoutDue(t, ok) => /\ t.kind = "propose" /\ BurnTxEffect(t) /\ burnJob[b].pc = "wait"
                                           /\ burnJob[b].key = t.key
      BY <1>1, <1>2 DEF PayoutDue, ProposalSound
    <3>2. t.awaited /\ PayoutDue(t, ok) => /\ solBurn[b].status = "requested" /\ solBurn'[b].key = t.key
                                           /\ solBurn'[b].status \notin {"none", "requested"}
      BY <3>1, BurnTxEffectStep
    <3>3. solBurn[b].status = "requested" => Unpaid(b) /\ burnJob[b].pc # "pay"
      <4>1. \A k \in BurnKey : burnPaid[b][k] \in Nat
        BY <1>1 DEF SolBurnTypes
      <4>2. ~Answered(b) => Unpaid(b) /\ burnJob[b].pc # "pay"
        BY <1>1, <4>1 DEF PayerSound, Unpaid
      <4>3. QED BY <4>2 DEF Answered
    <3>4. t.kind = "propose" => burnFile[b].key = t.key /\ t.key # 0
      BY <1>1 DEF ProposalSound
    <3>5. burnJob'[b].pc = "pay" => Answered(b)' /\ Unpaid(b)' /\ burnJob'[b].key = solBurn'[b].key
      <4>1. Unpaid(b) => Unpaid(b)'
        BY <1>1 DEF Unpaid
      <4>2. CASE t.awaited
        BY <1>1, <1>4, <3>1, <3>2, <3>3, <3>4, <4>1, <4>2 DEF Answered
      <4>3. CASE ~t.awaited
        BY <1>1, <1>3, <1>4, <2>1, <2>3, <3>3, <4>1, <4>3 DEF PayerSound, Answered
      <4>4. QED BY <4>2, <4>3
    <3>6. burnJob'[b].pc = "propose" => burnJob'[b].key = burnFile'[b].key /\ burnJob'[b].key # 0
      BY <1>1, <1>4 DEF PayerSound
    <3>7. ASSUME NEW k \in BurnKey, burnPaid'[b][k] > 0
          PROVE  /\ Answered(b)' /\ k = solBurn'[b].key
                 /\ burnPaid'[b][k] <= IF b \in timedOut' THEN WalletCalls ELSE 1
      BY <1>1, <1>3, <3>3, <3>7 DEF PayerSound, Answered, Unpaid
    <3>8. QED BY <2>3, <3>5, <3>6, <3>7 DEF PayerSound
  <2>4. QED BY <2>2, <2>3
<1>8. QED BY <1>5, <1>6, <1>7 DEF SolBurnInv

\* A step of the node that leaves the chain, the payouts and the keys of the file
\* alone, and takes no job to the payout.
LEMMA BurnNodeQuiet ==
  ASSUME SolBurnInv, NEW b \in SolBurn,
         UNCHANGED <<solBurn, burnPaid, timedOut, burnTxs>>, SolBurnTypes',
         \A c \in SolBurn : burnFile'[c].key = burnFile[c].key,
         \A c \in SolBurn : c # b => burnJob'[c] = burnJob[c],
         burnJob[b].pc # "wait",
         burnJob'[b].pc \notin {"pay", "wait"},
         burnJob'[b].pc = "propose" => burnJob'[b].key = burnFile[b].key /\ burnJob'[b].key # 0
  PROVE  SolBurnInv'
<1>1. ASSUME NEW t \in burnTxs PROVE ProposalSound(t)'
  <2>1. ProposalSound(t) /\ t.burn \in SolBurn
    BY DEF SolBurnInv, SolBurnTypes, BurnTxRec
  <2>2. t.awaited => t.burn # b
    BY <2>1 DEF ProposalSound
  <2>3. QED BY <2>1, <2>2 DEF ProposalSound
<1>2. ASSUME NEW c \in SolBurn PROVE PayerSound(c)'
  <2>1. PayerSound(c)
    BY DEF SolBurnInv
  <2>2. (Answered(c) => Answered(c)') /\ (Unpaid(c) => Unpaid(c)')
    BY DEF Answered, Unpaid
  <2>3. QED BY <2>1, <2>2 DEF PayerSound
<1>3. QED BY <1>1, <1>2 DEF SolBurnInv

LEMMA StartProposalInv ==
  ASSUME SolBurnInv, NEW b \in SolBurn, BurnAt(b, "idle"), StartProposal(b),
         burnScan' \in [SolBurn -> SolBurnRec], UNCHANGED <<solBurn, burnPaid, timedOut, burnTxs>>
  PROVE  SolBurnInv'
<1>1. SolBurnTypes
  BY DEF SolBurnInv
<1>2. PICK k \in (IF burnFile[b].key # 0 THEN {burnFile[b].key} ELSE FreshBurnKeys) :
        /\ burnFile' = [burnFile EXCEPT ![b].key = k]
        /\ burnJob' = [burnJob EXCEPT ![b] = [pc |-> "propose", key |-> k, sent |-> burnFile[b].sent]]
  BY DEF StartProposal
<1>3. k \in Nat /\ k # 0 /\ (burnFile[b].key # 0 => k = burnFile[b].key)
  BY <1>1, <1>2, SolBurnAssumption DEF SolBurnTypes, FreshBurnKeys
<1>4. PICK e : e = [burnFile[b] EXCEPT !.key = k]
  OBVIOUS
<1>5. PICK j : j = [pc |-> "propose", key |-> k, sent |-> burnFile[b].sent]
  OBVIOUS
<1>6. /\ e \in [key : Nat, sent : BOOLEAN] /\ e.key = k
      /\ j \in BurnJobRec /\ j.key = k /\ j.pc = "propose"
  BY <1>1, <1>3, <1>4, <1>5 DEF SolBurnTypes, BurnJobRec
<1>7. burnFile' = [burnFile EXCEPT ![b] = e] /\ burnJob' = [burnJob EXCEPT ![b] = j]
  BY <1>2, <1>4, <1>5
<1>8. /\ burnFile' \in [SolBurn -> [key : Nat, sent : BOOLEAN]] /\ burnJob' \in [SolBurn -> BurnJobRec]
      /\ burnFile'[b] = e /\ burnJob'[b] = j
      /\ \A c \in SolBurn : c # b => burnFile'[c] = burnFile[c] /\ burnJob'[c] = burnJob[c]
  BY <1>1, <1>6, <1>7 DEF SolBurnTypes
<1>9. SolBurnTypes'
  BY <1>1, <1>8 DEF SolBurnTypes
<1>10. ASSUME NEW t \in burnTxs PROVE ProposalSound(t)'
  <2>1. ProposalSound(t) /\ t.burn \in SolBurn /\ burnJob[b].pc = "idle"
    BY DEF SolBurnInv, SolBurnTypes, BurnTxRec, BurnAt
  <2>2. t.awaited => t.burn # b
    BY <2>1 DEF ProposalSound
  <2>3. t.kind = "propose" => burnFile'[t.burn].key = burnFile[t.burn].key
    BY <1>3, <1>6, <1>8, <2>1 DEF ProposalSound
  <2>4. QED BY <1>8, <2>1, <2>2, <2>3 DEF ProposalSound
<1>11. ASSUME NEW c \in SolBurn PROVE PayerSound(c)'
  <2>1. PayerSound(c) /\ burnJob[b].pc = "idle"
    BY DEF SolBurnInv, BurnAt
  <2>2. (Answered(c) => Answered(c)') /\ (Unpaid(c) => Unpaid(c)')
    BY <1>3, <1>6, <1>8 DEF Answered, Unpaid
  <2>3. burnJob'[c].pc = "propose" => burnJob'[c].key = burnFile'[c].key /\ burnJob'[c].key # 0
    BY <1>3, <1>6, <1>8, <2>1 DEF PayerSound
  <2>4. burnJob'[c].pc = "pay" => burnJob'[c] = burnJob[c]
    BY <1>6, <1>8
  <2>5. QED BY <2>1, <2>2, <2>3, <2>4 DEF PayerSound
<1>12. QED BY <1>9, <1>10, <1>11 DEF SolBurnInv

LEMMA NoBurnRec == NoBurn \in SolBurnRec
<1>1. PICK f \in BOOLEAN : f = FALSE
  OBVIOUS
<1>2. NoBurn = [status |-> "none", key |-> 0, late |-> f]
  BY <1>1 DEF NoBurn
<1>3. QED BY <1>2 DEF SolBurnRec

LEMMA BurnIdleRec == BurnIdle \in BurnJobRec /\ BurnIdle.pc = "idle"
<1>1. PICK f \in BOOLEAN : f = FALSE
  OBVIOUS
<1>2. BurnIdle = [pc |-> "idle", key |-> 0, sent |-> f]
  BY <1>1 DEF BurnIdle
<1>3. QED BY <1>2 DEF BurnJobRec

LEMMA DispatchBurnInv ==
  ASSUME SolBurnInv, NEW b \in SolBurn, DispatchBurn(b)
  PROVE  SolBurnInv'
<1>1. SolBurnTypes /\ UNCHANGED <<solBurn, burnPaid, timedOut, burnTxs>>
  BY DEF SolBurnInv, DispatchBurn
<1>2. burnScan' \in [SolBurn -> SolBurnRec]
  BY <1>1, NoBurnRec DEF DispatchBurn, SolBurnTypes
<1>3. CASE UNCHANGED <<burnJob, burnFile>>
  <2>1. SolBurnTypes'
    BY <1>1, <1>2, <1>3 DEF SolBurnTypes
  <2>2. ASSUME NEW t \in burnTxs PROVE ProposalSound(t)'
    BY <1>1, <1>3 DEF SolBurnInv, ProposalSound
  <2>3. ASSUME NEW c \in SolBurn PROVE PayerSound(c)'
    BY <1>1, <1>3 DEF SolBurnInv, PayerSound, Answered, Unpaid
  <2>4. QED BY <1>1, <2>1, <2>2, <2>3 DEF SolBurnInv
<1>4. CASE BurnAt(b, "idle") /\ StartProposal(b)
  BY <1>1, <1>2, <1>4, StartProposalInv
<1>5. ASSUME NEW stage \in {"abandon", "finalize", "idle"}, BurnAt(b, "idle"), UNCHANGED burnFile,
             burnJob' = [burnJob EXCEPT ![b] = [BurnIdle EXCEPT !.pc = stage, !.key = burnFile[b].key]]
      PROVE  SolBurnInv'
  <2>1. PICK r : r = [BurnIdle EXCEPT !.pc = stage, !.key = burnFile[b].key]
    OBVIOUS
  <2>2. r \in BurnJobRec /\ r.pc = stage
    BY <1>1, <2>1, BurnIdleRec DEF SolBurnTypes, BurnJobRec
  <2>3. burnJob' = [burnJob EXCEPT ![b] = r]
    BY <1>5, <2>1
  <2>4. burnJob' \in [SolBurn -> BurnJobRec] /\ burnJob'[b] = r /\ \A c \in SolBurn : c # b => burnJob'[c] = burnJob[c]
    BY <1>1, <2>2, <2>3 DEF SolBurnTypes
  <2>5. SolBurnTypes' /\ burnJob[b].pc = "idle" /\ \A c \in SolBurn : burnFile'[c].key = burnFile[c].key
    BY <1>1, <1>2, <1>5, <2>4 DEF SolBurnTypes, BurnAt
  <2>6. QED BY <1>1, <2>2, <2>4, <2>5, BurnNodeQuiet
<1>6. PICK stage : stage = StageOf(b, burnScan[b])
  OBVIOUS
<1>7. stage \in {"abandon", "finalize", "idle"}
  BY <1>6 DEF StageOf
<1>8. CASE /\ BurnAt(b, "idle") /\ UNCHANGED burnFile
           /\ burnJob' = [burnJob EXCEPT ![b] = [BurnIdle EXCEPT !.pc = StageOf(b, burnScan[b]), !.key = burnFile[b].key]]
  <2>1. burnJob' = [burnJob EXCEPT ![b] = [BurnIdle EXCEPT !.pc = stage, !.key = burnFile[b].key]]
    BY <1>6, <1>8
  <2>2. QED BY <1>5, <1>7, <1>8, <2>1
<1>9. QED BY <1>3, <1>4, <1>8, ZenonT(30) DEF DispatchBurn

LEMMA SendBurnTxInv ==
  ASSUME SolBurnInv, NEW b \in SolBurn, SendBurnTx(b)
  PROVE  SolBurnInv'
<1>1. SolBurnTypes /\ UNCHANGED <<solBurn, burnPaid, timedOut, burnScan, burnFile>>
  BY DEF SolBurnInv, SendBurnTx
<1>2. ASSUME NEW kind \in {"propose", "abandon", "finalize"}, BurnAt(b, kind), BurnTx(kind, b), BurnStep(b, "wait")
      PROVE  SolBurnInv'
  <2>1. /\ burnJob' \in [SolBurn -> BurnJobRec]
        /\ burnJob'[b].pc = "wait" /\ burnJob'[b].key = burnJob[b].key
        /\ \A c \in SolBurn : c # b => burnJob'[c] = burnJob[c]
    BY <1>1, <1>2, BurnJobStep
  <2>2. PICK t \in BOOLEAN : t = TRUE
    OBVIOUS
  <2>3. PICK r : r = [kind |-> kind, burn |-> b, key |-> burnJob[b].key, awaited |-> t]
    OBVIOUS
  <2>4. r \in BurnTxRec /\ r.kind = kind /\ r.burn = b /\ r.key = burnJob[b].key /\ r.awaited = t
    BY <1>1, <2>3 DEF SolBurnTypes, BurnTxRec, BurnJobRec
  <2>5. burnTxs' = burnTxs \cup {r}
    BY <1>2, <2>2, <2>3 DEF BurnTx
  <2>6. SolBurnTypes'
    BY <1>1, <2>1, <2>4, <2>5 DEF SolBurnTypes
  <2>7. burnJob[b].pc = kind /\ PayerSound(b) /\ kind # "wait" /\ kind # "pay"
    BY <1>2 DEF SolBurnInv, BurnAt
  <2>8. ASSUME NEW s \in burnTxs PROVE s.awaited => s.burn # b
    BY <2>7 DEF SolBurnInv, ProposalSound
  <2>9. ASSUME NEW s \in burnTxs' PROVE ProposalSound(s)'
    <3>1. CASE s = r
      <4>1. s.kind = "propose" => s.key = burnFile'[s.burn].key /\ s.key # 0
        BY <1>1, <2>4, <2>7, <3>1 DEF PayerSound
      <4>2. \A q \in burnTxs' : q.awaited /\ q.burn = s.burn => q = s
        BY <2>4, <2>5, <2>8, <3>1
      <4>3. QED BY <2>1, <2>4, <3>1, <4>1, <4>2 DEF ProposalSound
    <3>2. CASE s \in burnTxs
      <4>1. ProposalSound(s) /\ s.burn \in SolBurn
        BY <3>2 DEF SolBurnInv, SolBurnTypes, BurnTxRec
      <4>2. s.awaited => \A q \in burnTxs' : q.awaited /\ q.burn = s.burn => q = s
        BY <2>4, <2>5, <2>8, <3>2, <4>1 DEF ProposalSound
      <4>3. QED BY <1>1, <2>1, <2>8, <3>2, <4>1, <4>2 DEF ProposalSound
    <3>3. QED BY <2>5, <3>1, <3>2
  <2>10. ASSUME NEW c \in SolBurn PROVE PayerSound(c)'
    BY <1>1, <2>1 DEF SolBurnInv, PayerSound, Answered, Unpaid
  <2>11. QED BY <2>6, <2>9, <2>10 DEF SolBurnInv
<1>3. CASE BurnAt(b, "finalize") /\ BurnStep(b, "idle") /\ UNCHANGED burnTxs
  <2>1. /\ burnJob' \in [SolBurn -> BurnJobRec] /\ burnJob'[b].pc = "idle"
        /\ \A c \in SolBurn : c # b => burnJob'[c] = burnJob[c]
    BY <1>1, <1>3, BurnJobStep
  <2>2. SolBurnTypes' /\ burnJob[b].pc = "finalize" /\ \A c \in SolBurn : burnFile'[c].key = burnFile[c].key
    BY <1>1, <1>3, <2>1 DEF SolBurnTypes, BurnAt
  <2>3. QED BY <1>1, <1>3, <2>1, <2>2, BurnNodeQuiet
<1>4. CASE burnJob[b].pc \in {"propose", "abandon"} /\ BurnTx(burnJob[b].pc, b) /\ BurnStep(b, "wait")
  BY <1>2, <1>4 DEF BurnAt
<1>5. QED BY <1>2, <1>3, <1>4 DEF SendBurnTx

\* Jobs end, and their transactions are no longer waited for.
LEMMA BurnJobsEnd ==
  ASSUME SolBurnInv, NEW which \in SUBSET SolBurn, BurnOrphans(which), SolBurnTypes',
         UNCHANGED <<solBurn, burnPaid, timedOut, burnFile>>,
         \A c \in SolBurn : IF c \in which THEN burnJob'[c].pc = "idle" ELSE burnJob'[c] = burnJob[c]
  PROVE  SolBurnInv'
<1>1. SolBurnTypes
  BY DEF SolBurnInv
<1>2. ASSUME NEW t \in burnTxs' PROVE ProposalSound(t)'
  <2>1. PICK s \in burnTxs : /\ t.kind = s.kind /\ t.burn = s.burn /\ t.key = s.key
                             /\ t.awaited => t = s /\ t.burn \notin which
    BY <1>1, BurnOrphansStep
  <2>2. ProposalSound(s) /\ s.burn \in SolBurn
    BY DEF SolBurnInv, SolBurnTypes, BurnTxRec
  <2>3. ASSUME NEW q \in burnTxs', q.awaited, q.burn = t.burn, t.awaited PROVE q = t
    <3>1. q \in burnTxs
      BY <1>1, <2>3, BurnOrphansStep
    <3>2. QED BY <2>1, <2>2, <2>3, <3>1 DEF ProposalSound
  <2>4. QED BY <2>1, <2>2, <2>3 DEF ProposalSound
<1>3. ASSUME NEW c \in SolBurn PROVE PayerSound(c)'
  BY DEF SolBurnInv, PayerSound, Answered, Unpaid
<1>4. QED BY <1>2, <1>3 DEF SolBurnInv

LEMMA GiveUpBurnTxInv ==
  ASSUME SolBurnInv, NEW b \in SolBurn, GiveUpBurnTx(b)
  PROVE  SolBurnInv'
<1>1. /\ SolBurnTypes /\ UNCHANGED <<solBurn, burnPaid, timedOut, burnScan, burnFile>>
      /\ BurnStep(b, "idle") /\ BurnOrphans({b})
  BY DEF SolBurnInv, GiveUpBurnTx
<1>2. /\ burnJob' \in [SolBurn -> BurnJobRec] /\ burnJob'[b].pc = "idle"
      /\ \A c \in SolBurn : c # b => burnJob'[c] = burnJob[c]
  BY <1>1, BurnJobStep
<1>3. burnTxs' \subseteq BurnTxRec
  BY <1>1, BurnOrphansStep
<1>4. SolBurnTypes'
  BY <1>1, <1>2, <1>3 DEF SolBurnTypes
<1>5. \A c \in SolBurn : IF c \in {b} THEN burnJob'[c].pc = "idle" ELSE burnJob'[c] = burnJob[c]
  BY <1>2
<1>6. {b} \in SUBSET SolBurn
  OBVIOUS
<1>7. QED BY <1>1, <1>4, <1>5, <1>6, BurnJobsEnd

LEMMA RestartBurnNodeInv ==
  ASSUME SolBurnInv, RestartBurnNode
  PROVE  SolBurnInv'
<1>1. /\ SolBurnTypes /\ UNCHANGED <<solBurn, burnPaid, timedOut, burnFile>>
      /\ burnScan' = [b \in SolBurn |-> NoBurn] /\ burnJob' = [b \in SolBurn |-> BurnIdle]
      /\ BurnOrphans(SolBurn)
  BY DEF SolBurnInv, RestartBurnNode
<1>2. burnTxs' \subseteq BurnTxRec
  BY <1>1, BurnOrphansStep
<1>3. /\ burnScan' \in [SolBurn -> SolBurnRec] /\ burnJob' \in [SolBurn -> BurnJobRec]
      /\ \A c \in SolBurn : burnJob'[c].pc = "idle"
  BY <1>1, NoBurnRec, BurnIdleRec
<1>4. SolBurnTypes'
  BY <1>1, <1>2, <1>3 DEF SolBurnTypes
<1>5. QED BY <1>1, <1>3, <1>4, BurnJobsEnd

LEMMA PayBurnInv ==
  ASSUME SolBurnInv, NEW b \in SolBurn, PayBurn(b)
  PROVE  SolBurnInv'
<1>1. /\ SolBurnTypes /\ UNCHANGED <<solBurn, burnTxs, burnScan, burnFile>>
      /\ burnJob[b].pc = "pay" /\ PayerSound(b)
  BY DEF SolBurnInv, PayBurn, BurnAt
<1>2. PICK sends \in 0..WalletCalls, answered \in BOOLEAN :
        /\ answered => sends > 0
        /\ burnPaid' = [burnPaid EXCEPT ![b][burnJob[b].key] = @ + sends]
        /\ BurnStep(b, IF answered THEN "record" ELSE "idle")
        /\ \/ answered /\ sends = 1 /\ UNCHANGED <<timedOut, burnNodeFaults>>
           \/ sends = 0 /\ BurnFault /\ UNCHANGED timedOut
           \/ (answered => sends > 1) /\ sends > 0 /\ BurnFault /\ timedOut' = timedOut \cup {b}
  BY DEF PayBurn
<1>3. /\ burnJob' \in [SolBurn -> BurnJobRec] /\ burnJob'[b].pc \in {"record", "idle"}
      /\ \A c \in SolBurn : c # b => burnJob'[c] = burnJob[c]
  <2>1. PICK pc \in {"idle", "propose", "abandon", "finalize", "wait", "pay", "record"} :
          pc \in {"record", "idle"} /\ BurnStep(b, pc)
    BY <1>2
  <2>2. QED BY <1>1, <2>1, BurnJobStep
<1>4. /\ Unpaid(b) /\ burnJob[b].key = solBurn[b].key /\ Answered(b)
      /\ sends \in Nat /\ sends <= WalletCalls
      /\ b \in timedOut' \/ sends <= 1
      /\ \A c \in SolBurn : c # b => (c \in timedOut' <=> c \in timedOut)
  BY <1>1, <1>2 DEF PayerSound, WalletCalls
<1>5. PICK p : p = [burnPaid[b] EXCEPT ![burnJob[b].key] = @ + sends]
  OBVIOUS
<1>6. burnPaid[b] \in [BurnKey -> Nat]
  BY <1>1 DEF SolBurnTypes
<1>7. /\ p \in [BurnKey -> Nat]
      /\ \A k \in BurnKey : p[k] = IF k = burnJob[b].key THEN burnPaid[b][k] + sends ELSE burnPaid[b][k]
  <2>1. \A k \in BurnKey : burnPaid[b][k] + sends \in Nat
    BY <1>4, <1>6
  <2>2. PICK q : q = burnPaid[b]
    OBVIOUS
  <2>3. PICK n : n = q[burnJob[b].key] + sends
    OBVIOUS
  <2>4. p = [q EXCEPT ![burnJob[b].key] = n]
    BY <1>5, <2>2, <2>3
  <2>5. q \in [BurnKey -> Nat] /\ (burnJob[b].key \in BurnKey => n \in Nat)
    BY <1>6, <2>1, <2>2, <2>3
  <2>6. /\ p \in [BurnKey -> Nat]
        /\ \A k \in BurnKey : p[k] = IF k = burnJob[b].key THEN n ELSE q[k]
    BY <2>4, <2>5
  <2>7. QED BY <2>2, <2>3, <2>6
<1>8. burnPaid' = [burnPaid EXCEPT ![b] = p]
  BY <1>2, <1>5
<1>9. /\ burnPaid' \in [SolBurn -> [BurnKey -> Nat]] /\ burnPaid'[b] = p
      /\ \A c \in SolBurn : c # b => burnPaid'[c] = burnPaid[c]
  BY <1>1, <1>7, <1>8 DEF SolBurnTypes
<1>10. SolBurnTypes'
  BY <1>1, <1>3, <1>9 DEF SolBurnTypes
<1>11. ASSUME NEW t \in burnTxs' PROVE ProposalSound(t)'
  <2>1. ProposalSound(t) /\ t.burn \in SolBurn
    BY <1>1 DEF SolBurnInv, SolBurnTypes, BurnTxRec
  <2>2. t.awaited => t.burn # b
    BY <1>1, <2>1 DEF ProposalSound
  <2>3. QED BY <1>1, <1>3, <2>1, <2>2 DEF ProposalSound
<1>12. ASSUME NEW c \in SolBurn PROVE PayerSound(c)'
  <2>1. CASE c = b
    <3>1. ASSUME NEW k \in BurnKey, burnPaid'[b][k] > 0
          PROVE  k = burnJob[b].key /\ burnPaid'[b][k] = sends
      BY <1>4, <1>7, <1>9, <3>1 DEF Unpaid
    <3>2. Answered(b)'
      BY <1>1, <1>4 DEF Answered
    <3>3. QED BY <1>1, <1>3, <1>4, <2>1, <3>1, <3>2 DEF PayerSound
  <2>2. CASE c # b
    <3>1. PayerSound(c) /\ (Answered(c) => Answered(c)')
      BY <1>1 DEF SolBurnInv, Answered
    <3>2. QED BY <1>1, <1>3, <1>4, <1>9, <2>2, <3>1 DEF PayerSound, Unpaid
  <2>3. QED BY <2>1, <2>2
<1>13. QED BY <1>10, <1>11, <1>12 DEF SolBurnInv

LEMMA RecordPayoutInv ==
  ASSUME SolBurnInv, NEW b \in SolBurn, RecordPayout(b)
  PROVE  SolBurnInv'
<1>1. /\ SolBurnTypes /\ UNCHANGED <<solBurn, burnPaid, timedOut, burnTxs, burnScan>>
      /\ burnJob[b].pc = "record" /\ BurnStep(b, "idle")
  BY DEF SolBurnInv, RecordPayout, BurnAt
<1>2. /\ burnJob' \in [SolBurn -> BurnJobRec] /\ burnJob'[b].pc = "idle"
      /\ \A c \in SolBurn : c # b => burnJob'[c] = burnJob[c]
  BY <1>1, BurnJobStep
<1>3. PICK t \in BOOLEAN : t = TRUE
  OBVIOUS
<1>4. PICK e : e = [burnFile[b] EXCEPT !.sent = t]
  OBVIOUS
<1>5. e \in [key : Nat, sent : BOOLEAN] /\ e.key = burnFile[b].key
  BY <1>1, <1>4 DEF SolBurnTypes
<1>6. burnFile' = [burnFile EXCEPT ![b] = e]
  BY <1>3, <1>4 DEF RecordPayout
<1>7. burnFile' \in [SolBurn -> [key : Nat, sent : BOOLEAN]] /\ \A c \in SolBurn : burnFile'[c].key = burnFile[c].key
  BY <1>1, <1>5, <1>6 DEF SolBurnTypes
<1>8. SolBurnTypes'
  BY <1>1, <1>2, <1>7 DEF SolBurnTypes
<1>9. QED BY <1>1, <1>2, <1>7, <1>8, BurnNodeQuiet

LEMMA ScanBurnsInv ==
  ASSUME SolBurnInv, ScanBurns
  PROVE  SolBurnInv'
<1>1. SolBurnTypes /\ UNCHANGED <<solBurn, burnPaid, timedOut, burnTxs, burnJob, burnFile>>
  BY DEF SolBurnInv, ScanBurns
<1>2. burnScan' \in [SolBurn -> SolBurnRec]
  BY <1>1, NoBurnRec DEF ScanBurns, SolBurnTypes
<1>3. SolBurnTypes'
  BY <1>1, <1>2 DEF SolBurnTypes
<1>4. ASSUME NEW t \in burnTxs PROVE ProposalSound(t)'
  BY <1>1 DEF SolBurnInv, ProposalSound
<1>5. ASSUME NEW c \in SolBurn PROVE PayerSound(c)'
  BY <1>1 DEF SolBurnInv, PayerSound, Answered, Unpaid
<1>6. QED BY <1>1, <1>3, <1>4, <1>5 DEF SolBurnInv

LEMMA SolBurnNextInv == SolBurnInv /\ [SolBurnNext]_solBurnVars => SolBurnInv'
<1> SUFFICES ASSUME SolBurnInv, [SolBurnNext]_solBurnVars PROVE SolBurnInv'
  OBVIOUS
<1>1. CASE UNCHANGED solBurnVars
  BY <1>1 DEF SolBurnInv, SolBurnTypes, ProposalSound, PayerSound, Answered, Unpaid, solBurnVars
<1>2. ASSUME NEW b \in SolBurn, UserOrProgram(b) PROVE SolBurnInv'
  BY <1>2, UserOrProgramInv
<1>3. ASSUME NEW b \in SolBurn, DispatchBurn(b) PROVE SolBurnInv'
  BY <1>3, DispatchBurnInv
<1>4. ASSUME NEW b \in SolBurn, SendBurnTx(b) PROVE SolBurnInv'
  BY <1>4, SendBurnTxInv
<1>5. ASSUME NEW b \in SolBurn, GiveUpBurnTx(b) PROVE SolBurnInv'
  BY <1>5, GiveUpBurnTxInv
<1>6. ASSUME NEW b \in SolBurn, PayBurn(b) PROVE SolBurnInv'
  BY <1>6, PayBurnInv
<1>7. ASSUME NEW b \in SolBurn, RecordPayout(b) PROVE SolBurnInv'
  BY <1>7, RecordPayoutInv
<1>8. ASSUME NEW t \in burnTxs, LandBurnTx(t) PROVE SolBurnInv'
  BY <1>8, LandBurnTxInv
<1>9. CASE ScanBurns
  BY <1>9, ScanBurnsInv
<1>10. CASE RestartBurnNode
  BY <1>10, RestartBurnNodeInv
<1>11. QED BY <1>1, <1>2, <1>3, <1>4, <1>5, <1>6, <1>7, <1>8, <1>9, <1>10 DEF SolBurnNext

\* On Solana, a burn is paid with the key of the accepted proposal only, whose secret
\* the file still has, and once, or up to three times if the transfer itself timed out
\* and walletRpc called again, whatever scans are stale, calls fail, transactions land
\* late and restarts come between (propose and sendXmr, burnPipeline.js).
THEOREM SolBurnsPaidOnce == EndpointsSpec => []SolPaidOnce
<1>1. EndpointsInit => SolBurnInv
  BY SolBurnInitInv DEF EndpointsInit
<1>2. SolBurnInv /\ [EndpointsNext]_<<part, solWalletVars, scanVars, solMintVars, solBurnVars,
        webVars, keyVars, pageScanVars, coLPVars, webCoLPVars>> => SolBurnInv'
  BY SolBurnNextInv DEF EndpointsNext, walletPart, solWalletPart, scanPart, solMintPart,
     solBurnPart, webPart, keyPart, pageScanPart, coLPPart, webCoLPPart
<1>3. SolBurnInv => SolPaidOnce
  BY DEF SolBurnInv, PayerSound, Answered, Unpaid, SolPaidOnce
<1>4. QED BY <1>1, <1>2, <1>3, PTL DEF EndpointsSpec

-----------------------------------------------------------------------------
\* Mints on Solana: the secret of the key on the chain.

SolMintStates == {"none", "cancelled", "keyCancelled", "expiredReady", "completed"} \cup SolMintActive
SolMintRec == [status : SolMintStates, key : Nat, late : BOOLEAN, bound : BOOLEAN]
MintJobStates == {"idle", "provide", "scan", "setReady", "finalize", "wait", "sweep"}
MintJobRec == [pc : MintJobStates, key : Nat]
SolTxRec == [kind : {"provide", "ready", "finalize"}, mint : SolMint, key : Nat, awaited : BOOLEAN]

SolMintTypes ==
  /\ solMint \in [SolMint -> SolMintRec] /\ mintScan \in [SolMint -> SolMintRec]
  /\ mintJob \in [SolMint -> MintJobRec] /\ mintTxs \subseteq SolTxRec
  /\ lpSecrets \in [SolMint -> Nat]

\* A key that is on the chain, or on its way there, is that of the saved secret.
SavedInv ==
  /\ \A m \in SolMint :
       /\ solMint[m].key # 0 => lpSecrets[m] = solMint[m].key
       /\ mintJob[m].pc = "provide" => lpSecrets[m] = mintJob[m].key /\ mintJob[m].key # 0
  /\ \A t \in mintTxs : t.kind = "provide" => lpSecrets[t.mint] = t.key /\ t.key # 0

SolMintInv == SolMintTypes /\ SavedInv

LEMMA NoRequestRec == NoRequest \in SolMintRec /\ NoRequest.key = 0
<1>1. PICK f \in BOOLEAN, t \in BOOLEAN : f = FALSE /\ t = TRUE
  OBVIOUS
<1>2. NoRequest = [status |-> "none", key |-> 0, late |-> f, bound |-> t]
  BY <1>1 DEF NoRequest
<1>3. QED BY <1>2 DEF SolMintRec, SolMintStates

LEMMA RestingRec == Resting \in MintJobRec /\ Resting.pc = "idle"
BY DEF Resting, MintJobRec, MintJobStates

LEMMA SolMintInitInv == SolMintInit => SolMintInv
<1> SUFFICES ASSUME SolMintInit PROVE SolMintInv
  OBVIOUS
<1>1. SolMintTypes
  BY NoRequestRec, RestingRec DEF SolMintInit, SolMintTypes
<1>2. SavedInv
  BY NoRequestRec, RestingRec DEF SolMintInit, SavedInv
<1>3. QED BY <1>1, <1>2 DEF SolMintInv

LEMMA MintStepFields ==
  ASSUME SolMintTypes, NEW m \in SolMint, NEW pc \in MintJobStates, Step(m, pc)
  PROVE  /\ mintJob' \in [SolMint -> MintJobRec]
         /\ mintJob'[m].pc = pc /\ mintJob'[m].key = mintJob[m].key
         /\ \A n \in SolMint : n # m => mintJob'[n] = mintJob[n]
<1>1. PICK r : r = [mintJob[m] EXCEPT !.pc = pc]
  OBVIOUS
<1>2. r \in MintJobRec /\ r.pc = pc /\ r.key = mintJob[m].key
  BY <1>1 DEF SolMintTypes, MintJobRec
<1>3. mintJob' = [mintJob EXCEPT ![m] = r]
  BY <1>1 DEF Step
<1>4. QED BY <1>2, <1>3 DEF SolMintTypes

LEMMA BecomesFields ==
  ASSUME SolMintTypes, NEW m \in SolMint, NEW s \in SolMintStates, NEW late \in BOOLEAN,
         Becomes(m, s, late)
  PROVE  /\ solMint' \in [SolMint -> SolMintRec]
         /\ \A n \in SolMint : solMint'[n].key = solMint[n].key
<1>1. PICK r : r = [solMint[m] EXCEPT !.status = s, !.late = late]
  OBVIOUS
<1>2. r \in SolMintRec /\ r.key = solMint[m].key
  BY <1>1 DEF SolMintTypes, SolMintRec
<1>3. solMint' = [solMint EXCEPT ![m] = r]
  BY <1>1 DEF Becomes
<1>4. QED BY <1>2, <1>3 DEF SolMintTypes

\* A step of the program or of a user: no key comes, and the node is not moved.
LEMMA AccountsQuiet ==
  ASSUME SolMintInv, UNCHANGED <<mintTxs, mintScan, mintJob, lpSecrets>>,
         solMint' \in [SolMint -> SolMintRec],
         \A m \in SolMint : solMint'[m].key \in {0, solMint[m].key}
  PROVE  SolMintInv'
<1>1. SolMintTypes'
  BY DEF SolMintInv, SolMintTypes
<1>2. SavedInv'
  BY DEF SolMintInv, SavedInv
<1>3. QED BY <1>1, <1>2 DEF SolMintInv

\* A step of the node that sends nothing and leaves the file alone.
LEMMA MintNodeQuiet ==
  ASSUME SolMintInv, UNCHANGED <<solMint, lpSecrets>>, SolMintTypes',
         \A m \in SolMint : mintJob'[m] = mintJob[m] \/ mintJob'[m].pc # "provide",
         \A t \in mintTxs' : \E s \in mintTxs : t.kind = s.kind /\ t.mint = s.mint /\ t.key = s.key
  PROVE  SolMintInv'
BY DEF SolMintInv, SavedInv

LEMMA OrphanedStep ==
  ASSUME SolMintTypes, NEW which, Orphaned(which)
  PROVE  /\ mintTxs' \subseteq SolTxRec
         /\ \A t \in mintTxs' : \E s \in mintTxs : t.kind = s.kind /\ t.mint = s.mint /\ t.key = s.key
<1> SUFFICES ASSUME NEW t \in mintTxs'
             PROVE  t \in SolTxRec /\ \E s \in mintTxs : t.kind = s.kind /\ t.mint = s.mint /\ t.key = s.key
  OBVIOUS
<1>1. PICK s \in mintTxs : t = IF s.mint \in which THEN [s EXCEPT !.awaited = FALSE] ELSE s
  BY DEF Orphaned
<1>2. s \in SolTxRec
  BY DEF SolMintTypes
<1>3. PICK f \in BOOLEAN : f = FALSE
  OBVIOUS
<1>4. PICK r : r = [s EXCEPT !.awaited = f]
  OBVIOUS
<1>5. r \in SolTxRec /\ r.kind = s.kind /\ r.mint = s.mint /\ r.key = s.key
  BY <1>2, <1>4 DEF SolTxRec
<1>6. t = IF s.mint \in which THEN r ELSE s
  BY <1>1, <1>3, <1>4
<1>7. QED BY <1>2, <1>5, <1>6

LEMMA AccountStepsInv ==
  ASSUME SolMintInv, NEW m \in SolMint,
         \/ InitiateSolMint(m) \/ SolTimeout(m) \/ CancelSolMint(m) \/ CloseSolMint(m) \/ PayDeposit(m)
         \/ RevealSolSecret(m) \/ FinalizeByOther(m) \/ AbandonKeyed(m)
  PROVE  SolMintInv'
<1>1. /\ SolMintTypes /\ UNCHANGED <<mintTxs, mintScan, mintJob, lpSecrets>>
      /\ solMint[m] \in SolMintRec
  BY DEF SolMintInv, SolMintTypes, InitiateSolMint, SolTimeout, CancelSolMint, CloseSolMint, PayDeposit,
         RevealSolSecret, FinalizeByOther, AbandonKeyed, nodeVars
<1>2. PICK f \in BOOLEAN, t \in BOOLEAN : f = FALSE /\ t = TRUE
  OBVIOUS
<1>3. ASSUME NEW s \in SolMintStates, NEW late \in BOOLEAN, Becomes(m, s, late) PROVE SolMintInv'
  BY <1>1, <1>3, BecomesFields, AccountsQuiet
<1>4. CASE InitiateSolMint(m)
  <2>1. PICK b \in BOOLEAN : solMint' = [solMint EXCEPT ![m] = [NoRequest EXCEPT !.status = "pending", !.bound = b]]
    BY <1>4 DEF InitiateSolMint
  <2>2. PICK r : r = [NoRequest EXCEPT !.status = "pending", !.bound = b]
    OBVIOUS
  <2>3. r \in SolMintRec /\ r.key = 0
    BY <2>2, NoRequestRec DEF SolMintRec, SolMintStates, SolMintActive
  <2>4. /\ solMint' \in [SolMint -> SolMintRec] /\ solMint'[m] = r
        /\ \A n \in SolMint : n # m => solMint'[n] = solMint[n]
    BY <1>1, <2>1, <2>2, <2>3 DEF SolMintTypes
  <2>5. QED BY <1>1, <2>3, <2>4, AccountsQuiet
<1>5. CASE SolTimeout(m)
  <2>1. Becomes(m, SolStatus(m), t) /\ SolStatus(m) \in SolMintStates
    BY <1>1, <1>2, <1>5 DEF SolTimeout, SolStatus, SolMintRec
  <2>2. QED BY <1>3, <2>1
<1>6. CASE CancelSolMint(m)
  <2>1. Becomes(m, CancelledStatus[SolStatus(m)], f) /\ SolStatus(m) \in SolMintActive
    BY <1>2, <1>6 DEF CancelSolMint
  <2>2. CancelledStatus[SolStatus(m)] \in SolMintStates
    BY <2>1 DEF CancelledStatus, SolMintActive, SolMintStates
  <2>3. QED BY <1>3, <2>1, <2>2
<1>7. CASE CloseSolMint(m)
  BY <1>2, <1>3, <1>7 DEF CloseSolMint, SolMintStates
<1>8. CASE PayDeposit(m)
  BY <1>1, <1>8, AccountsQuiet DEF PayDeposit, SolMintTypes
<1>9. CASE RevealSolSecret(m)
  <2>1. Becomes(m, "secretRevealed", solMint[m].late) /\ solMint[m].late \in BOOLEAN
    BY <1>1, <1>9 DEF RevealSolSecret, SolMintRec
  <2>2. QED BY <1>3, <2>1 DEF SolMintStates, SolMintActive
<1>10. CASE FinalizeByOther(m)
  BY <1>2, <1>3, <1>10 DEF FinalizeByOther, SolMintStates
<1>11. CASE AbandonKeyed(m)
  BY <1>2, <1>3, <1>11 DEF AbandonKeyed, SolMintStates
<1>12. QED BY <1>4, <1>5, <1>6, <1>7, <1>8, <1>9, <1>10, <1>11

LEMMA LandMintTxInv ==
  ASSUME SolMintInv, NEW t \in mintTxs, LandMintTx(t)
  PROVE  SolMintInv'
<1> DEFINE m == t.mint
<1>1. /\ SolMintTypes /\ t \in SolTxRec /\ m \in SolMint /\ t.key \in Nat /\ solMint[m] \in SolMintRec
      /\ mintTxs' = mintTxs \ {t} /\ UNCHANGED <<mintScan, lpSecrets>>
      /\ t.kind \in {"provide", "ready", "finalize"}
  BY DEF SolMintInv, SolMintTypes, SolTxRec, LandMintTx
<1>2. PICK ok :
        /\ solMint' = IF ~ok THEN solMint ELSE
             [solMint EXCEPT ![m].status = TxResult[t.kind], ![m].late = FALSE,
                             ![m].key = IF t.kind = "provide" THEN t.key ELSE @]
        /\ IF t.awaited THEN Step(m, IF ok THEN AfterTx[t.kind] ELSE "idle") ELSE UNCHANGED mintJob
  BY DEF LandMintTx
<1>3. /\ solMint' \in [SolMint -> SolMintRec]
      /\ \A n \in SolMint : \/ solMint'[n].key = solMint[n].key
                            \/ n = m /\ t.kind = "provide" /\ solMint'[n].key = t.key
  <2>1. CASE ~ok
    BY <1>1, <1>2, <2>1 DEF SolMintTypes
  <2>2. CASE ok
    <3>1. PICK f \in BOOLEAN : f = FALSE
      OBVIOUS
    <3>2. PICK s \in SolMintStates : s = TxResult[t.kind]
      BY <1>1 DEF TxResult, SolMintStates, SolMintActive
    <3>3. PICK k \in Nat : k = IF t.kind = "provide" THEN t.key ELSE solMint[m].key
      BY <1>1 DEF SolMintRec
    <3>4. PICK r : r = [solMint[m] EXCEPT !.status = s, !.late = f, !.key = k]
      OBVIOUS
    <3>5. r \in SolMintRec /\ r.key = k
      BY <1>1, <3>4 DEF SolMintRec
    <3>6. solMint' = [solMint EXCEPT ![m] = r]
      BY <1>1, <1>2, <2>2, <3>1, <3>2, <3>3, <3>4 DEF SolMintTypes, SolMintRec
    <3>7. QED BY <1>1, <3>3, <3>5, <3>6 DEF SolMintTypes
  <2>3. QED BY <2>1, <2>2
<1>4. /\ mintJob' \in [SolMint -> MintJobRec]
      /\ \A n \in SolMint : mintJob'[n] = mintJob[n] \/ mintJob'[n].pc # "provide"
  <2>1. CASE t.awaited
    <3>1. PICK pc \in MintJobStates \ {"provide"} : pc = IF ok THEN AfterTx[t.kind] ELSE "idle"
      BY <1>1 DEF AfterTx, MintJobStates
    <3>2. Step(m, pc)
      BY <1>2, <2>1, <3>1
    <3>3. QED BY <1>1, <3>1, <3>2, MintStepFields
  <2>2. CASE ~t.awaited
    BY <1>1, <1>2, <2>2 DEF SolMintTypes
  <2>3. QED BY <2>1, <2>2
<1>5. SolMintTypes'
  BY <1>1, <1>3, <1>4 DEF SolMintTypes
<1>6. SavedInv'
  BY <1>1, <1>3, <1>4 DEF SolMintInv, SavedInv
<1>7. QED BY <1>5, <1>6 DEF SolMintInv

LEMMA DispatchMintInv ==
  ASSUME SolMintInv, NEW m \in SolMint, DispatchMint(m)
  PROVE  SolMintInv'
<1>1. SolMintTypes /\ UNCHANGED <<solMint, mintTxs>>
  BY DEF SolMintInv, DispatchMint, accountVars
<1>2. mintScan' \in [SolMint -> SolMintRec]
  BY <1>1, NoRequestRec DEF SolMintTypes, DispatchMint
<1>3. CASE UNCHANGED <<mintJob, lpSecrets>>
  <2>1. SolMintTypes'
    BY <1>1, <1>2, <1>3 DEF SolMintTypes
  <2>2. QED BY <1>1, <1>3, <2>1, MintNodeQuiet
<1>4. ASSUME NEW pc \in MintJobStates \ {"provide"}, Step(m, pc), UNCHANGED lpSecrets PROVE SolMintInv'
  <2>1. /\ mintJob' \in [SolMint -> MintJobRec]
        /\ \A n \in SolMint : mintJob'[n] = mintJob[n] \/ mintJob'[n].pc # "provide"
    BY <1>1, <1>4, MintStepFields
  <2>2. SolMintTypes'
    BY <1>1, <1>2, <1>4, <2>1 DEF SolMintTypes
  <2>3. QED BY <1>1, <1>4, <2>1, <2>2, MintNodeQuiet
<1>5. ASSUME NEW k \in (IF lpSecrets[m] # 0 THEN {lpSecrets[m]} ELSE FreshSecrets),
             SaveSecret(m, k), mintJob' = [mintJob EXCEPT ![m] = [pc |-> "provide", key |-> k]]
      PROVE  SolMintInv'
  <2>1. k \in Nat /\ k # 0 /\ (lpSecrets[m] # 0 => k = lpSecrets[m])
    BY <1>1, <1>5, SolMintAssumption DEF SolMintTypes, FreshSecrets
  <2>2. /\ lpSecrets' \in [SolMint -> Nat] /\ lpSecrets'[m] = k
        /\ \A n \in SolMint : n # m => lpSecrets'[n] = lpSecrets[n]
    BY <1>1, <1>5, <2>1 DEF SolMintTypes, SaveSecret
  <2>3. PICK r : r = [pc |-> "provide", key |-> k]
    OBVIOUS
  <2>4. r \in MintJobRec /\ r.key = k
    BY <2>1, <2>3 DEF MintJobRec, MintJobStates
  <2>5. /\ mintJob' \in [SolMint -> MintJobRec] /\ mintJob'[m] = r
        /\ \A n \in SolMint : n # m => mintJob'[n] = mintJob[n]
    BY <1>1, <1>5, <2>3, <2>4 DEF SolMintTypes
  <2>6. SolMintTypes'
    BY <1>1, <1>2, <2>2, <2>5 DEF SolMintTypes
  <2>7. \A n \in SolMint : lpSecrets[n] # 0 => lpSecrets'[n] = lpSecrets[n]
    BY <2>1, <2>2
  <2>8. ASSUME NEW t \in mintTxs, t.kind = "provide" PROVE lpSecrets'[t.mint] = t.key /\ t.key # 0
    BY <2>7, <2>8 DEF SolMintInv, SolMintTypes, SolTxRec, SavedInv
  <2>9. ASSUME NEW n \in SolMint
        PROVE  /\ solMint[n].key # 0 => lpSecrets'[n] = solMint[n].key
               /\ mintJob'[n].pc = "provide" => lpSecrets'[n] = mintJob'[n].key /\ mintJob'[n].key # 0
    BY <2>1, <2>2, <2>4, <2>5, <2>7 DEF SolMintInv, SavedInv
  <2>10. QED BY <1>1, <2>6, <2>8, <2>9 DEF SolMintInv, SavedInv
<1>6. CASE ProvideKeys(m, mintScan[m])
  BY <1>3, <1>5, <1>6 DEF ProvideKeys
<1>7. "scan" \in MintJobStates \ {"provide"} /\ "finalize" \in MintJobStates \ {"provide"}
  BY DEF MintJobStates
<1>8. QED BY <1>3, <1>4, <1>6, <1>7 DEF DispatchMint

LEMMA SendMintTxInv ==
  ASSUME SolMintInv, NEW m \in SolMint, SendMintTx(m)
  PROVE  SolMintInv'
<1>1. SolMintTypes /\ UNCHANGED <<solMint, mintScan, lpSecrets>>
  BY DEF SolMintInv, SendMintTx, accountVars
<1>2. ASSUME NEW pc \in MintJobStates \ {"provide"}, Step(m, pc)
      PROVE  /\ mintJob' \in [SolMint -> MintJobRec]
             /\ \A n \in SolMint : mintJob'[n] = mintJob[n] \/ mintJob'[n].pc # "provide"
  BY <1>1, <1>2, MintStepFields
<1>3. {"idle", "wait", "sweep"} \subseteq MintJobStates \ {"provide"}
  BY DEF MintJobStates
<1>4. ASSUME NEW kind \in {"provide", "ready", "finalize"}, Broadcast(kind, m), Step(m, "wait"),
             kind = "provide" => JobAt(m, "provide")
      PROVE  SolMintInv'
  <2>1. PICK t \in BOOLEAN : t = TRUE
    OBVIOUS
  <2>2. PICK r : r = [kind |-> kind, mint |-> m, key |-> mintJob[m].key, awaited |-> t]
    OBVIOUS
  <2>3. r \in SolTxRec /\ r.kind = kind /\ r.mint = m /\ r.key = mintJob[m].key
    BY <1>1, <2>2 DEF SolMintTypes, SolTxRec, MintJobRec
  <2>4. mintTxs' = mintTxs \cup {r}
    BY <1>4, <2>1, <2>2 DEF Broadcast
  <2>5. /\ mintJob' \in [SolMint -> MintJobRec]
        /\ \A n \in SolMint : mintJob'[n] = mintJob[n] \/ mintJob'[n].pc # "provide"
    BY <1>2, <1>3, <1>4
  <2>6. SolMintTypes'
    BY <1>1, <2>3, <2>4, <2>5 DEF SolMintTypes
  <2>7. r.kind = "provide" => lpSecrets[m] = r.key /\ r.key # 0
    BY <1>4, <2>3 DEF SolMintInv, SavedInv, JobAt
  <2>8. SavedInv'
    BY <1>1, <2>3, <2>4, <2>5, <2>7 DEF SolMintInv, SavedInv
  <2>9. QED BY <2>6, <2>8 DEF SolMintInv
<1>5. ASSUME NEW pc \in {"idle", "sweep"}, Step(m, pc), UNCHANGED mintTxs PROVE SolMintInv'
  <2>1. /\ mintJob' \in [SolMint -> MintJobRec]
        /\ \A n \in SolMint : mintJob'[n] = mintJob[n] \/ mintJob'[n].pc # "provide"
    BY <1>2, <1>3, <1>5
  <2>2. SolMintTypes'
    BY <1>1, <1>5, <2>1 DEF SolMintTypes
  <2>3. QED BY <1>1, <1>5, <2>1, <2>2, MintNodeQuiet
<1>6. QED BY <1>4, <1>5 DEF SendMintTx

LEMMA MintJobEndsInv ==
  ASSUME SolMintInv, NEW m \in SolMint, GiveUpMintTx(m) \/ ScanDeposit(m) \/ SweepSolMint(m)
  PROVE  SolMintInv'
<1>1. SolMintTypes /\ UNCHANGED <<solMint, mintScan, lpSecrets>>
  BY DEF SolMintInv, GiveUpMintTx, ScanDeposit, SweepSolMint, accountVars
<1>2. PICK pc \in {"idle", "setReady"} : Step(m, pc)
  BY DEF GiveUpMintTx, ScanDeposit, ScanOutcome, SweepSolMint
<1>3. pc \in MintJobStates /\ pc # "provide"
  BY DEF MintJobStates
<1>4. /\ mintJob' \in [SolMint -> MintJobRec]
      /\ \A n \in SolMint : mintJob'[n] = mintJob[n] \/ mintJob'[n].pc # "provide"
  BY <1>1, <1>2, <1>3, MintStepFields
<1>5. UNCHANGED mintTxs \/ Orphaned({m})
  BY DEF GiveUpMintTx, ScanDeposit, SweepSolMint
<1>6. /\ mintTxs' \subseteq SolTxRec
      /\ \A t \in mintTxs' : \E s \in mintTxs : t.kind = s.kind /\ t.mint = s.mint /\ t.key = s.key
  BY <1>1, <1>5, OrphanedStep DEF SolMintTypes
<1>7. SolMintTypes'
  BY <1>1, <1>4, <1>6 DEF SolMintTypes
<1>8. QED BY <1>1, <1>4, <1>6, <1>7, MintNodeQuiet

LEMMA ScanMintsInv ==
  ASSUME SolMintInv, ScanMints
  PROVE  SolMintInv'
<1>1. SolMintTypes /\ UNCHANGED <<solMint, mintTxs, mintJob, lpSecrets>>
  BY DEF SolMintInv, ScanMints, accountVars
<1>2. mintScan' \in [SolMint -> SolMintRec]
  BY <1>1, NoRequestRec DEF ScanMints, SolMintTypes
<1>3. SolMintTypes'
  BY <1>1, <1>2 DEF SolMintTypes
<1>4. QED BY <1>1, <1>3, MintNodeQuiet

LEMMA RestartMintNodeInv ==
  ASSUME SolMintInv, RestartMintNode
  PROVE  SolMintInv'
<1>1. /\ SolMintTypes /\ UNCHANGED <<solMint, lpSecrets>> /\ Orphaned(SolMint)
      /\ mintScan' = [m \in SolMint |-> NoRequest] /\ mintJob' = [m \in SolMint |-> Resting]
  BY DEF SolMintInv, RestartMintNode, accountVars
<1>2. /\ mintTxs' \subseteq SolTxRec
      /\ \A t \in mintTxs' : \E s \in mintTxs : t.kind = s.kind /\ t.mint = s.mint /\ t.key = s.key
  BY <1>1, OrphanedStep
<1>3. /\ mintScan' \in [SolMint -> SolMintRec] /\ mintJob' \in [SolMint -> MintJobRec]
      /\ \A m \in SolMint : mintJob'[m].pc # "provide"
  BY <1>1, NoRequestRec, RestingRec
<1>4. SolMintTypes'
  BY <1>1, <1>2, <1>3 DEF SolMintTypes
<1>5. QED BY <1>1, <1>2, <1>3, <1>4, MintNodeQuiet

LEMMA SolMintNextInv == SolMintInv /\ [SolMintNext]_solMintVars => SolMintInv'
<1> SUFFICES ASSUME SolMintInv, [SolMintNext]_solMintVars PROVE SolMintInv'
  OBVIOUS
<1>1. CASE UNCHANGED solMintVars
  BY <1>1 DEF SolMintInv, SolMintTypes, SavedInv, solMintVars
<1>2. ASSUME NEW m \in SolMint,
             \/ InitiateSolMint(m) \/ SolTimeout(m) \/ CancelSolMint(m) \/ CloseSolMint(m) \/ PayDeposit(m)
             \/ RevealSolSecret(m) \/ FinalizeByOther(m) \/ AbandonKeyed(m)
      PROVE  SolMintInv'
  BY <1>2, AccountStepsInv
<1>3. ASSUME NEW m \in SolMint, MintNodeSteps(m) PROVE SolMintInv'
  BY <1>3, DispatchMintInv, SendMintTxInv, MintJobEndsInv DEF MintNodeSteps
<1>4. ASSUME NEW t \in mintTxs, LandMintTx(t) PROVE SolMintInv'
  BY <1>4, LandMintTxInv
<1>5. CASE ScanMints \/ RestartMintNode
  BY <1>5, ScanMintsInv, RestartMintNodeInv
<1>6. QED BY <1>1, <1>2, <1>3, <1>4, <1>5 DEF SolMintNext

\* On Solana, the key on the chain is that of the secret in the file, over stale
\* scans, confirmations that time out, late transactions and restarts: no second
\* secret is made for a request (provideKeys and its store.set, mintPipeline.js).
THEOREM ChainKeysAreSaved == EndpointsSpec => []ChainKeyIsSaved
<1>1. EndpointsInit => SolMintInv
  BY SolMintInitInv DEF EndpointsInit
<1>2. SolMintInv /\ [EndpointsNext]_<<part, solWalletVars, scanVars, solMintVars, solBurnVars,
        webVars, keyVars, pageScanVars, coLPVars, webCoLPVars>> => SolMintInv'
  BY SolMintNextInv DEF EndpointsNext, walletPart, solWalletPart, scanPart, solMintPart,
     solBurnPart, webPart, keyPart, pageScanPart, coLPPart, webCoLPPart
<1>3. SolMintInv => ChainKeyIsSaved
  BY DEF SolMintInv, SavedInv, ChainKeyIsSaved
<1>4. QED BY <1>1, <1>2, <1>3, PTL DEF EndpointsSpec

-----------------------------------------------------------------------------
\* The watch for deposits.

WatchStates == {"off", "turn", "close", "provision", "note", "refresh", "transfers", "daemon", "done"}
WatchRec == [pc : WatchStates, rpcOk : BOOLEAN, from : Nat, cursor : Nat]

ScanTypes ==
  /\ tip \in Nat /\ minedAt \in [Watched -> Nat] /\ watch \in [Watched -> WatchRec]
  /\ rpcWallet \in Watched \cup {NoWallet} /\ foundAt \in [Watched -> Watched \cup {NoWallet}]

\* No block after the tip has a deposit, no watch starts after it, and no cursor is past
\* the next block.
ScanInv ==
  /\ ScanTypes
  /\ \A m \in Watched : minedAt[m] <= tip /\ watch[m].cursor <= tip + 1 /\ watch[m].from <= tip
  /\ DepositNotMissed

LEMMA ScanInitInv == ScanInit => ScanInv
<1> SUFFICES ASSUME ScanInit PROVE ScanInv
  OBVIOUS
<1>1. ScanTypes
  <2>1. PICK t \in BOOLEAN : t = TRUE
    OBVIOUS
  <2>2. watch = [m \in Watched |-> [pc |-> "off", rpcOk |-> t, from |-> 0, cursor |-> 0]]
    BY <2>1 DEF ScanInit
  <2>3. [pc |-> "off", rpcOk |-> t, from |-> 0, cursor |-> 0] \in WatchRec
    BY DEF WatchRec, WatchStates
  <2>4. QED BY <2>2, <2>3 DEF ScanInit, ScanTypes
<1>2. QED BY <1>1 DEF ScanInit, ScanInv, DepositNotMissed

LEMMA MinusNat ==
  ASSUME NEW a \in Nat, NEW b \in Nat
  PROVE  Minus(a, b) \in Nat /\ Minus(a, b) <= a /\ a <= Minus(a, b) + b
BY DEF Minus

\* Every step that moves no cursor and mines no block.
LEMMA WatchQuiet ==
  ASSUME ScanInv, UNCHANGED <<tip, minedAt, overlooked>>, ScanTypes',
         \A m \in Watched : watch'[m].cursor = watch[m].cursor /\ watch'[m].from = watch[m].from,
         \A m \in Watched : foundAt[m] # NoWallet => foundAt'[m] # NoWallet
  PROVE  ScanInv'
<1>1. \A m \in Watched : ScanFrom(m)' = ScanFrom(m)
  BY DEF ScanFrom
<1>2. QED BY <1>1 DEF ScanInv, DepositNotMissed

LEMMA ThenFields ==
  ASSUME ScanTypes, NEW m \in Watched, NEW pc \in WatchStates, Then(m, pc)
  PROVE  watch' \in [Watched -> WatchRec] /\ \A n \in Watched : watch'[n].cursor = watch[n].cursor /\ watch'[n].from = watch[n].from
<1>1. PICK r : r = [watch[m] EXCEPT !.pc = pc]
  OBVIOUS
<1>2. r \in WatchRec /\ r.cursor = watch[m].cursor /\ r.from = watch[m].from
  BY <1>1 DEF ScanTypes, WatchRec
<1>3. watch' = [watch EXCEPT ![m] = r]
  BY <1>1 DEF Then
<1>4. QED BY <1>2, <1>3 DEF ScanTypes

LEMMA RpcLostFields ==
  ASSUME ScanTypes, NEW m \in Watched, RpcLost(m)
  PROVE  watch' \in [Watched -> WatchRec] /\ \A n \in Watched : watch'[n].cursor = watch[n].cursor /\ watch'[n].from = watch[n].from
<1>1. PICK f \in BOOLEAN : f = FALSE
  OBVIOUS
<1>2. PICK r : r = [watch[m] EXCEPT !.pc = "daemon", !.rpcOk = f]
  OBVIOUS
<1>3. r \in WatchRec /\ r.cursor = watch[m].cursor /\ r.from = watch[m].from
  BY <1>2 DEF ScanTypes, WatchRec, WatchStates
<1>4. watch' = [watch EXCEPT ![m] = r]
  BY <1>1, <1>2 DEF RpcLost, ScanTypes
<1>5. QED BY <1>3, <1>4 DEF ScanTypes

LEMMA WatchStepsInv ==
  ASSUME ScanInv, NEW m \in Watched,
         \/ Turn(m) \/ CloseOther(m) \/ Provision(m) \/ NoteWallet(m) \/ RefreshOpen(m)
         \/ ReadTransfers(m) \/ WatchEnds(m)
  PROVE  ScanInv'
<1>1. ScanTypes /\ UNCHANGED <<tip, minedAt, overlooked>>
  BY DEF ScanInv, Turn, CloseOther, Provision, NoteWallet, RefreshOpen, ReadTransfers, WatchEnds
<1>2. RpcLost(m) \/ \E pc \in WatchStates : Then(m, pc)
  BY DEF Turn, CloseOther, Provision, NoteWallet, RefreshOpen, ReadTransfers, WatchEnds, Returns, WatchStates
<1>3. watch' \in [Watched -> WatchRec] /\ \A n \in Watched : watch'[n].cursor = watch[n].cursor /\ watch'[n].from = watch[n].from
  BY <1>1, <1>2, ThenFields, RpcLostFields
<1>4. rpcWallet' \in {rpcWallet, m, NoWallet}
  BY DEF Turn, CloseOther, Provision, NoteWallet, RefreshOpen, ReadTransfers, WatchEnds
<1>5. UNCHANGED foundAt \/ (rpcWallet # NoWallet /\ foundAt' = [foundAt EXCEPT ![m] = rpcWallet])
  BY DEF Turn, CloseOther, Provision, NoteWallet, RefreshOpen, ReadTransfers, WatchEnds, Returns
<1>6. /\ foundAt' \in [Watched -> Watched \cup {NoWallet}]
      /\ \A n \in Watched : foundAt[n] # NoWallet => foundAt'[n] # NoWallet
  BY <1>1, <1>5 DEF ScanTypes
<1>7. ScanTypes'
  BY <1>1, <1>3, <1>4, <1>6 DEF ScanTypes
<1>8. QED BY <1>1, <1>3, <1>6, <1>7, WatchQuiet

LEMMA StartWatchInv ==
  ASSUME ScanInv, NEW m \in Watched, StartWatch(m)
  PROVE  ScanInv'
<1>1. /\ ScanTypes /\ UNCHANGED <<tip, minedAt, rpcWallet, current, foundAt, overlooked>>
      /\ \A n \in Watched : minedAt[n] <= tip /\ watch[n].cursor <= tip + 1 /\ watch[n].from <= tip
  <2>1. UNCHANGED <<tip, minedAt, rpcWallet, current, foundAt, overlooked>>
    BY Zenon DEF StartWatch
  <2>2. QED BY <2>1 DEF ScanInv
<1>2. CASE Then(m, "turn")
  <2>1. watch' \in [Watched -> WatchRec]
        /\ \A n \in Watched : watch'[n].cursor = watch[n].cursor /\ watch'[n].from = watch[n].from
    BY <1>1, <1>2, ThenFields DEF WatchStates
  <2>2. ScanTypes'
    BY <1>1, <2>1 DEF ScanTypes
  <2>3. QED BY <1>1, <2>1, <2>2, WatchQuiet
<1>3. ASSUME NEW lookback \in Lookbacks,
             watch' = [watch EXCEPT ![m].pc = "turn", ![m].from = Minus(tip, lookback),
                                    ![m].cursor = Minus(tip, lookback)]
      PROVE  ScanInv'
  <2> DEFINE from == Minus(tip, lookback)
  <2>1. tip \in Nat /\ from \in Nat /\ from <= tip
    BY <1>1, MinusNat, ScanAssumption DEF ScanTypes
  <2> HIDE DEF from
  <2>2. PICK r : r = [watch[m] EXCEPT !.pc = "turn", !.from = from, !.cursor = from]
    OBVIOUS
  <2>3. r \in WatchRec /\ r.from = from /\ r.cursor = from
    BY <1>1, <2>1, <2>2 DEF ScanTypes, WatchRec, WatchStates
  <2>4. watch' = [watch EXCEPT ![m] = r]
    BY <1>1, <1>3, <2>2 DEF ScanTypes, from
  <2>5. /\ watch' \in [Watched -> WatchRec] /\ watch'[m] = r
        /\ \A n \in Watched : n # m => watch'[n] = watch[n]
    BY <1>1, <2>3, <2>4 DEF ScanTypes
  <2>6. ScanTypes'
    BY <1>1, <2>5 DEF ScanTypes
  <2>7. \A n \in Watched : minedAt'[n] <= tip' /\ watch'[n].cursor <= tip' + 1 /\ watch'[n].from <= tip'
    BY <1>1, <2>1, <2>3, <2>5
  <2>8. \A n \in Watched : n # m => ScanFrom(n)' = ScanFrom(n)
    BY <2>5 DEF ScanFrom
  <2>9. ScanFrom(m)' = from
    <3>1. ScanFrom(m)' = Later(from, Minus(from, Overlap))
      BY <2>3, <2>5 DEF ScanFrom
    <3>2. Minus(from, Overlap) \in Nat /\ Minus(from, Overlap) <= from
      BY <2>1, MinusNat, ScanAssumption
    <3>3. QED BY <2>1, <3>1, <3>2 DEF Later
  <2>10. ASSUME NEW n \in Watched, minedAt'[n] # 0, watch'[n].from <= minedAt'[n],
                minedAt'[n] < ScanFrom(n)', n \notin overlooked'
         PROVE  foundAt'[n] # NoWallet
    <3>1. n # m
      BY <1>1, <2>1, <2>3, <2>5, <2>9, <2>10 DEF ScanTypes
    <3>2. QED BY <1>1, <2>5, <2>8, <2>10, <3>1 DEF ScanInv, DepositNotMissed
  <2>11. QED BY <2>6, <2>7, <2>10 DEF ScanInv, DepositNotMissed
<1>4. QED BY <1>2, <1>3, Zenon DEF StartWatch

\* Where a scan starts: never after the next block.
LEMMA ScanFromNat ==
  ASSUME ScanInv, NEW m \in Watched
  PROVE  ScanFrom(m) \in Nat /\ ScanFrom(m) <= tip + 1
<1>1. /\ watch[m].cursor \in Nat /\ watch[m].from \in Nat /\ tip \in Nat /\ Overlap \in Nat
      /\ watch[m].cursor <= tip + 1 /\ watch[m].from <= tip
  BY ScanAssumption DEF ScanInv, ScanTypes, WatchRec
<1>2. Minus(watch[m].cursor, Overlap) \in Nat /\ Minus(watch[m].cursor, Overlap) <= watch[m].cursor
  BY <1>1, MinusNat
<1>3. QED BY <1>1, <1>2 DEF ScanFrom, Later

LEMMA NewBlockInv ==
  ASSUME ScanInv, NewBlock
  PROVE  ScanInv'
<1>1. /\ ScanTypes /\ tip' = tip + 1 /\ UNCHANGED <<rpcWallet, watch, foundAt, overlooked>>
      /\ \A m \in Watched : minedAt[m] <= tip /\ watch[m].cursor <= tip + 1 /\ watch[m].from <= tip
  BY DEF ScanInv, NewBlock
<1>2. PICK paying \in SUBSET {m \in Watched : minedAt[m] = 0} :
        minedAt' = [m \in Watched |-> IF m \in paying THEN tip + 1 ELSE minedAt[m]]
  BY DEF NewBlock
<1>3. ScanTypes'
  BY <1>1, <1>2 DEF ScanTypes
<1>4. \A m \in Watched : minedAt'[m] <= tip' /\ watch'[m].cursor <= tip' + 1 /\ watch'[m].from <= tip'
  BY <1>1, <1>2 DEF ScanTypes, WatchRec
<1>5. ASSUME NEW m \in Watched, minedAt'[m] # 0, watch'[m].from <= minedAt'[m],
             minedAt'[m] < ScanFrom(m)', m \notin overlooked'
      PROVE  foundAt'[m] # NoWallet
  <2>1. ScanFrom(m)' = ScanFrom(m) /\ ScanFrom(m) \in Nat /\ ScanFrom(m) <= tip + 1
    BY <1>1, ScanFromNat DEF ScanFrom
  <2>2. minedAt'[m] = minedAt[m]
    BY <1>1, <1>2, <1>5, <2>1 DEF ScanTypes
  <2>3. QED BY <1>1, <1>5, <2>1, <2>2 DEF ScanInv, DepositNotMissed
<1>6. QED BY <1>3, <1>4, <1>5 DEF ScanInv, DepositNotMissed

LEMMA DaemonScanInv ==
  ASSUME ScanInv, NEW m \in Watched, DaemonScan(m)
  PROVE  ScanInv'
<1>1. /\ ScanTypes /\ UNCHANGED <<tip, minedAt, rpcWallet>>
      /\ \A n \in Watched : minedAt[n] <= tip /\ watch[n].cursor <= tip + 1 /\ watch[n].from <= tip
  BY DEF ScanInv, DaemonScan
<1>2. CASE ScanFault /\ Then(m, "turn") /\ UNCHANGED <<foundAt, overlooked>>
  <2>1. watch' \in [Watched -> WatchRec] /\ \A n \in Watched : watch'[n].cursor = watch[n].cursor /\ watch'[n].from = watch[n].from
    BY <1>1, <1>2, ThenFields DEF WatchStates
  <2>2. ScanTypes'
    BY <1>1, <1>2, <2>1 DEF ScanTypes
  <2>3. QED BY <1>1, <1>2, <2>1, <2>2, WatchQuiet
<1>3. CASE Returns(m, m) /\ UNCHANGED overlooked
  <2>1. watch' \in [Watched -> WatchRec] /\ \A n \in Watched : watch'[n].cursor = watch[n].cursor /\ watch'[n].from = watch[n].from
    BY <1>1, <1>3, ThenFields DEF WatchStates, Returns
  <2>2. /\ foundAt' \in [Watched -> Watched \cup {NoWallet}]
        /\ \A n \in Watched : foundAt[n] # NoWallet => foundAt'[n] # NoWallet
    BY <1>1, <1>3, ScanAssumption DEF ScanTypes, Returns
  <2>3. ScanTypes'
    BY <1>1, <2>1, <2>2 DEF ScanTypes
  <2>4. QED BY <1>1, <1>3, <2>1, <2>2, <2>3, WatchQuiet
<1>4. ASSUME NEW served \in Minus(tip, MaxLag) .. tip, NEW there,
             there <=> tip > ScanFrom(m) /\ minedAt[m] # 0 /\ minedAt[m] \in ScanFrom(m) .. served,
             watch' = [watch EXCEPT ![m].pc = "turn",
                          ![m].cursor = IF tip > ScanFrom(m) THEN tip + 1 ELSE @],
             overlooked' = IF there THEN overlooked \cup {m} ELSE overlooked,
             UNCHANGED foundAt
      PROVE  ScanInv'
  <2>1. /\ watch[m] \in WatchRec /\ watch[m].cursor \in Nat /\ Overlap \in Nat /\ MaxLag \in Nat
        /\ MaxLag <= Overlap /\ tip \in Nat
    BY <1>1, ScanAssumption DEF ScanTypes, WatchRec
  <2>2. PICK c : c = IF tip > ScanFrom(m) THEN tip + 1 ELSE watch[m].cursor
    OBVIOUS
  <2>3. c \in Nat /\ c <= tip + 1
    BY <1>1, <2>1, <2>2
  <2>4. PICK r : r = [watch[m] EXCEPT !.pc = "turn", !.cursor = c]
    OBVIOUS
  <2>5. r \in WatchRec /\ r.cursor = c /\ r.from = watch[m].from
    BY <2>1, <2>3, <2>4 DEF WatchRec, WatchStates
  <2>6. watch' = [watch EXCEPT ![m] = r]
    BY <1>1, <1>4, <2>1, <2>2, <2>4 DEF ScanTypes, WatchRec
  <2>7. /\ watch' \in [Watched -> WatchRec] /\ watch'[m].cursor = c /\ watch'[m].from = watch[m].from
        /\ \A n \in Watched : n # m => watch'[n] = watch[n]
    BY <1>1, <2>5, <2>6 DEF ScanTypes
  <2>8. ScanTypes'
    BY <1>1, <1>4, <2>7 DEF ScanTypes
  <2>9. \A n \in Watched : minedAt'[n] <= tip' /\ watch'[n].cursor <= tip' + 1 /\ watch'[n].from <= tip'
    BY <1>1, <2>3, <2>7
  <2>10. ASSUME NEW n \in Watched, minedAt'[n] # 0, watch'[n].from <= minedAt'[n],
                minedAt'[n] < ScanFrom(n)', n \notin overlooked'
         PROVE  foundAt'[n] # NoWallet
    <3>1. n \notin overlooked /\ minedAt'[n] = minedAt[n] /\ watch'[n].from = watch[n].from
      BY <1>1, <1>4, <2>7, <2>10
    <3>2. CASE n # m \/ c = watch[m].cursor
      <4>1. watch'[n].cursor = watch[n].cursor
        BY <2>7, <3>2
      <4>2. ScanFrom(n)' = ScanFrom(n)
        BY <3>1, <4>1 DEF ScanFrom
      <4>3. QED BY <1>4, <2>10, <3>1, <4>2 DEF ScanInv, DepositNotMissed
    <3>3. CASE n = m /\ c # watch[m].cursor
      <4>1. tip > ScanFrom(m) /\ c = tip + 1 /\ ScanFrom(m) \in Nat
        BY <2>2, <3>3, ScanFromNat
      <4>2. ScanFrom(m)' = Later(watch[m].from, Minus(tip + 1, Overlap))
        BY <2>7, <4>1 DEF ScanFrom
      <4>3. minedAt[m] \in Nat /\ watch[m].from \in Nat /\ Minus(tip + 1, Overlap) \in Nat
        <5>1. tip + 1 \in Nat
          BY <2>1
        <5>2. QED BY <1>1, <2>1, <5>1, MinusNat DEF ScanTypes, WatchRec
      <4>4. minedAt[m] < Minus(tip + 1, Overlap)
        BY <2>10, <3>1, <3>3, <4>2, <4>3 DEF Later
      <4>5. minedAt[m] + MaxLag <= tip
        BY <2>1, <4>3, <4>4 DEF Minus
      <4>6. Minus(tip, MaxLag) \in Nat /\ minedAt[m] <= Minus(tip, MaxLag)
        BY <2>1, <4>3, <4>5 DEF Minus
      <4>7. ~there
        BY <1>4, <2>10, <3>3
      <4>8. minedAt[m] < ScanFrom(m)
        BY <1>4, <2>10, <3>1, <3>3, <4>1, <4>3, <4>6, <4>7
      <4>9. QED BY <1>4, <2>10, <3>1, <3>3, <4>8 DEF ScanInv, DepositNotMissed
    <3>4. QED BY <3>2, <3>3
  <2>11. QED BY <2>8, <2>9, <2>10 DEF ScanInv, DepositNotMissed
<1>5. QED BY <1>2, <1>3, <1>4 DEF DaemonScan

LEMMA ScanNextInv == ScanInv /\ [ScanNext]_scanVars => ScanInv'
<1> SUFFICES ASSUME ScanInv, [ScanNext]_scanVars PROVE ScanInv'
  OBVIOUS
<1>1. CASE UNCHANGED scanVars
  BY <1>1 DEF ScanInv, ScanTypes, DepositNotMissed, ScanFrom, Later, scanVars
<1>2. ASSUME NEW m \in Watched,
             \/ Turn(m) \/ CloseOther(m) \/ Provision(m) \/ NoteWallet(m) \/ RefreshOpen(m)
             \/ ReadTransfers(m) \/ WatchEnds(m)
      PROVE  ScanInv'
  BY <1>2, WatchStepsInv
<1>3. ASSUME NEW m \in Watched, DaemonScan(m) PROVE ScanInv'
  BY <1>3, DaemonScanInv
<1>4. CASE NewBlock
  BY <1>4, NewBlockInv
<1>5. ASSUME NEW m \in Watched, StartWatch(m) PROVE ScanInv'
  BY <1>5, StartWatchInv
<1>6. QED BY <1>1, <1>2, <1>3, <1>4, <1>5 DEF ScanNext

\* A deposit in the lookback that the cursor of its watch has left behind has been found,
\* unless every reply with it was an error read as empty or showed another payment first,
\* for any overlap that covers the lag of the daemon that serves the blocks
\* (pollForDeposit).
THEOREM DepositsNotMissed == EndpointsSpec => []DepositNotMissed
<1>1. EndpointsInit => ScanInv
  BY ScanInitInv DEF EndpointsInit
<1>2. ScanInv /\ [EndpointsNext]_<<part, solWalletVars, scanVars, solMintVars, solBurnVars,
        webVars, keyVars, pageScanVars, coLPVars, webCoLPVars>> => ScanInv'
  BY ScanNextInv DEF EndpointsNext, walletPart, solWalletPart, scanPart, solMintPart,
     solBurnPart, webPart, keyPart, pageScanPart, coLPPart, webCoLPPart
<1>3. ScanInv => DepositNotMissed
  BY DEF ScanInv
<1>4. QED BY <1>1, <1>2, <1>3, PTL DEF EndpointsSpec

-----------------------------------------------------------------------------
\* The page's watch for a burn's payment.

PageRec == [state : {"propose", "confirm", "watch", "finalize"}, height : Nat, cursor : Nat,
            tx : Payment \cup {"none"}, stored : Payment \cup {"none"}, confirmed : BOOLEAN,
            scanTimer : BOOLEAN, watchTimer : BOOLEAN, button : BOOLEAN]
RunnerStates == {"idle", "scan", "due", "status", "send"}
RunnerRec == [pc : RunnerStates, from : Nat, to : Nat]

PageTypes ==
  /\ count \in Nat /\ noted \in Nat /\ paidAt \in [Payment -> Nat]
  /\ page \in PageRec /\ runner \in [Runner -> RunnerRec]

Heights ==
  /\ noted <= count /\ page.height <= noted /\ page.cursor <= count
  /\ \A p \in Payment : paidAt[p] <= count
  /\ \A x \in {page.tx, page.stored} : x # "none" => paidAt[x] # 0

\* The payments below h, but for those a scan could not read or that are too old.
PassedAt(h) ==
  \A p \in Payment : paidAt[p] # 0 /\ paidAt[p] < h =>
                       paidAt[p] \in unread \/ paidAt[p] + Margin < noted

Acceptable(p) ==
  /\ told => p = "whole"
  /\ paidAt[p] # 0 /\ count >= paidAt[p] + MinConf
SomePaid == \E p \in Payment : Acceptable(p)

\* A check that scans has left nothing behind its range, and one that is about to
\* confirm has seen the payment.
CheckSound(c) ==
  /\ runner[c].pc = "scan" =>
       runner[c].from <= runner[c].to /\ runner[c].to <= count /\ PassedAt(runner[c].from)
  /\ runner[c].pc \in {"due", "status", "send"} => SomePaid

PageScanInv ==
  /\ PageTypes /\ Heights
  /\ page.state = "watch" /\ page.tx = "none" => PassedAt(page.cursor)
  /\ \A c \in Check : CheckSound(c)
  /\ AutoConfirmIsPaid

LEMMA PageScanInitInv == PageScanInit => PageScanInv
<1> SUFFICES ASSUME PageScanInit PROVE PageScanInv
  OBVIOUS
<1>1. PICK f \in BOOLEAN : f = FALSE
  OBVIOUS
<1>2. page = [state |-> "propose", height |-> 0, cursor |-> 0, tx |-> "none",
              stored |-> "none", confirmed |-> f, scanTimer |-> f, watchTimer |-> f, button |-> f]
  BY <1>1 DEF PageScanInit
<1>3. page \in PageRec /\ page.state = "propose" /\ page.height = 0 /\ page.cursor = 0
      /\ page.tx = "none" /\ page.stored = "none"
  BY <1>2 DEF PageRec
<1>4. count = 1 /\ noted = 0 /\ paidAt = [p \in Payment |-> 0] /\ committedBy = "nobody"
  BY DEF PageScanInit
<1>5. runner \in [Runner -> RunnerRec] /\ \A r \in Runner : runner[r].pc = "idle"
  BY DEF PageScanInit, Idle, RunnerRec, RunnerStates
<1>6. PageTypes /\ Heights
  BY <1>3, <1>4, <1>5 DEF PageTypes, Heights
<1>7. \A c \in Check : CheckSound(c)
  BY <1>5 DEF CheckSound, Runner
<1>8. AutoConfirmIsPaid
  BY <1>4, PageScanAssumption DEF AutoConfirmIsPaid
<1>9. QED BY <1>3, <1>6, <1>7, <1>8 DEF PageScanInv

\* Steps that mine nothing, read nothing and start no watch.
LEMMA PageQuiet ==
  ASSUME PageScanInv, UNCHANGED <<count, told, paidAt, unread, noted>>, PageTypes',
         page'.cursor = page.cursor, page'.height \in {0, page.height},
         page'.tx \in {page.tx, page.stored, "none"}, page'.stored \in {page.stored, "none"},
         page'.state = "watch" => page.state = "watch" /\ page'.tx = page.tx,
         \A c \in Check :
           /\ runner'[c].pc = "scan" =>
                \/ runner'[c] = runner[c]
                \/ /\ runner'[c].from <= runner'[c].to /\ runner'[c].to <= count
                   /\ PassedAt(runner'[c].from)
           /\ runner'[c].pc \in {"due", "status", "send"} =>
                SomePaid \/ runner[c].pc \in {"due", "status", "send"},
         committedBy' \in Check =>
           committedBy' = committedBy \/ runner[committedBy'].pc \in {"due", "status", "send"}
  PROVE  PageScanInv'
<1>1. ASSUME NEW c \in Check PROVE CheckSound(c)'
  BY DEF PageScanInv, CheckSound, PassedAt, SomePaid, Acceptable
<1>2. Heights'
  BY DEF PageScanInv, Heights, PageTypes, PageRec
<1>3. AutoConfirmIsPaid'
  BY DEF PageScanInv, CheckSound, SomePaid, Acceptable, AutoConfirmIsPaid
<1>4. page'.state = "watch" /\ page'.tx = "none" => (PassedAt(page.cursor))'
  BY DEF PageScanInv, PassedAt
<1>5. QED BY <1>1, <1>2, <1>3, <1>4 DEF PageScanInv

LEMMA RunnerFields ==
  ASSUME PageTypes, NEW r \in Runner, NEW pc \in RunnerStates, RunnerTo(r, pc)
  PROVE  /\ runner' \in [Runner -> RunnerRec] /\ runner'[r].pc = pc
         /\ \A q \in Runner : q # r => runner'[q] = runner[q]
<1>1. PICK s : s = [runner[r] EXCEPT !.pc = pc]
  OBVIOUS
<1>2. s \in RunnerRec /\ s.pc = pc
  BY <1>1 DEF PageTypes, RunnerRec
<1>3. runner' = [runner EXCEPT ![r] = s]
  BY <1>1 DEF RunnerTo
<1>4. QED BY <1>2, <1>3 DEF PageTypes

\* The page with its flags, and nothing else, set anew.
LEMMA PageFlags ==
  ASSUME PageTypes, NEW a \in BOOLEAN, NEW b \in BOOLEAN, NEW c \in BOOLEAN, NEW d \in BOOLEAN,
         page' = [page EXCEPT !.confirmed = a, !.scanTimer = b, !.watchTimer = c, !.button = d]
  PROVE  /\ page' \in PageRec /\ page'.state = page.state /\ page'.height = page.height
         /\ page'.cursor = page.cursor /\ page'.tx = page.tx /\ page'.stored = page.stored
BY DEF PageTypes, PageRec

LEMMA CleanupFields ==
  ASSUME PageTypes, Cleanup
  PROVE  /\ page' \in PageRec /\ page'.state = page.state /\ page'.height = page.height
         /\ page'.cursor = page.cursor /\ page'.tx = page.tx /\ page'.stored = page.stored
<1>1. PICK t \in BOOLEAN, f \in BOOLEAN : t = TRUE /\ f = FALSE
  OBVIOUS
<1>2. page' = [page EXCEPT !.confirmed = t, !.scanTimer = f, !.watchTimer = f, !.button = f]
  BY <1>1 DEF Cleanup
<1>3. QED BY <1>2, PageFlags

LEMMA AbandonOfferInv ==
  ASSUME PageScanInv, LpAbandons \/ OfferRestore
  PROVE  PageScanInv'
<1>1. PageTypes /\ UNCHANGED <<count, told, paidAt, unread, noted, runner, committedBy>>
  BY DEF PageScanInv, LpAbandons, OfferRestore, MoneroChain, PageHistory
<1>2. /\ page' \in PageRec /\ page'.state = page.state /\ page'.height = page.height
      /\ page'.cursor = page.cursor /\ page'.tx = page.tx /\ page'.stored = page.stored
  BY <1>1, CleanupFields DEF LpAbandons, OfferRestore, PageTypes
<1>3. PageTypes'
  BY <1>1, <1>2 DEF PageTypes
<1>4. QED BY <1>1, <1>2, <1>3, PageQuiet

LEMMA PollInv ==
  ASSUME PageScanInv, PageAt("watch"), NEW c \in Check, Poll(c)
  PROVE  PageScanInv'
<1>1. PageTypes /\ UNCHANGED <<count, told, paidAt, unread, noted, page, committedBy>> /\ c \in Runner
  BY DEF PageScanInv, Poll, MoneroChain, PageHistory, Runner
<1>2. page.cursor < count /\ PassedAt(page.cursor) /\ page.cursor \in Nat /\ count \in Nat
  BY <1>1 DEF Poll, getHeight, PageScanInv, PageAt, PageTypes, PageRec
<1>3. PICK s : s = [pc |-> "scan", from |-> page.cursor, to |-> getHeight]
  OBVIOUS
<1>4. s \in RunnerRec /\ s.pc = "scan" /\ s.from = page.cursor /\ s.to = count
  BY <1>2, <1>3 DEF RunnerRec, RunnerStates, getHeight
<1>5. runner' = [runner EXCEPT ![c] = s]
  BY <1>3 DEF Poll
<1>6. runner' \in [Runner -> RunnerRec] /\ runner'[c] = s /\ \A q \in Runner : q # c => runner'[q] = runner[q]
  BY <1>1, <1>4, <1>5 DEF PageTypes
<1>7. PageTypes'
  BY <1>1, <1>6 DEF PageTypes
<1>8. \A q \in Check : /\ runner'[q].pc = "scan" =>
                            \/ runner'[q] = runner[q]
                            \/ /\ runner'[q].from <= runner'[q].to /\ runner'[q].to <= count
                               /\ PassedAt(runner'[q].from)
                       /\ runner'[q].pc \in {"due", "status", "send"} =>
                            SomePaid \/ runner[q].pc \in {"due", "status", "send"}
  BY <1>2, <1>4, <1>6 DEF Runner
<1>9. QED BY <1>1, <1>7, <1>8, PageQuiet

LEMMA VerifyInv ==
  ASSUME PageScanInv, NEW c \in Check, Verify(c)
  PROVE  PageScanInv'
<1>1. PageTypes /\ UNCHANGED <<count, told, paidAt, unread, noted, committedBy>> /\ c \in Runner
  BY DEF PageScanInv, Verify, MoneroChain, PageHistory, Runner
<1>2. /\ runner' \in [Runner -> RunnerRec] /\ runner'[c].pc = "due"
      /\ \A q \in Runner : q # c => runner'[q] = runner[q]
  BY <1>1, RunnerFields DEF Verify, RunnerStates
<1>3. PICK f \in BOOLEAN : f = FALSE
  OBVIOUS
<1>4. PICK p : p = [page EXCEPT !.scanTimer = f]
  OBVIOUS
<1>5. page' = p
  BY <1>3, <1>4 DEF Verify
<1>6. /\ p \in PageRec /\ p.state = page.state /\ p.height = page.height
      /\ p.cursor = page.cursor /\ p.tx = page.tx /\ p.stored = page.stored
  BY <1>1, <1>4 DEF PageTypes, PageRec
<1>7. PageTypes'
  BY <1>1, <1>2, <1>5, <1>6 DEF PageTypes
<1>8. SomePaid
  <2>1. page.tx \in Payment /\ (told => page.tx = "whole") /\ Less(count, paidAt[page.tx]) >= MinConf
    BY <1>1 DEF Verify, amountSufficient, Confirmations, PageTypes, PageRec
  <2>2. /\ paidAt[page.tx] # 0 /\ paidAt[page.tx] <= count /\ paidAt[page.tx] \in Nat
        /\ count \in Nat /\ MinConf \in Nat
    BY <1>1, <2>1, PageScanAssumption DEF PageScanInv, Heights, PageTypes, Payment
  <2>3. count >= paidAt[page.tx] + MinConf
    BY <2>1, <2>2 DEF Less
  <2>4. QED BY <2>1, <2>2, <2>3 DEF SomePaid, Acceptable
<1>9. \A q \in Check : /\ runner'[q].pc = "scan" => runner'[q] = runner[q]
                       /\ runner'[q].pc \in {"due", "status", "send"} => SomePaid
  BY <1>2, <1>8 DEF Runner
<1>10. QED BY <1>1, <1>5, <1>6, <1>7, <1>9, PageQuiet

\* A step of a runner that goes on, or ends, as one that confirms.
LEMMA RunnerQuiet ==
  ASSUME PageScanInv, NEW r \in Runner, NEW pc \in RunnerStates \ {"scan"}, RunnerTo(r, pc),
         UNCHANGED <<count, told, paidAt, unread, noted>>,
         page' \in PageRec, page'.state \in {page.state, "finalize"}, page'.height = page.height,
         page'.cursor = page.cursor, page'.tx = page.tx, page'.stored = page.stored,
         pc \in {"due", "status", "send"} => r = "button" \/ runner[r].pc \in {"due", "status", "send"},
         committedBy' = committedBy \/ (committedBy' = r /\ runner[r].pc \in {"due", "status", "send"})
  PROVE  PageScanInv'
<1>1. PageTypes /\ \A c \in Check : c # "button"
  BY PageScanAssumption DEF PageScanInv
<1>2. /\ runner' \in [Runner -> RunnerRec] /\ runner'[r].pc = pc
      /\ \A q \in Runner : q # r => runner'[q] = runner[q]
  BY <1>1, RunnerFields
<1>3. PageTypes'
  BY <1>1, <1>2 DEF PageTypes
<1>4. \A q \in Check : /\ runner'[q].pc = "scan" => runner'[q] = runner[q]
                       /\ runner'[q].pc \in {"due", "status", "send"} => runner[q].pc \in {"due", "status", "send"}
  BY <1>1, <1>2 DEF Runner
<1>5. QED BY <1>1, <1>3, <1>4, PageQuiet

LEMMA ConfirmStepsInv ==
  ASSUME PageScanInv, NEW r \in Runner, Begin(r) \/ CheckStatus(r) \/ Send(r)
  PROVE  PageScanInv'
<1>1. /\ PageTypes /\ page \in PageRec /\ UNCHANGED <<count, told, paidAt, unread, noted>>
      /\ {"idle", "status", "send"} \subseteq RunnerStates \ {"scan"}
  BY DEF PageScanInv, PageTypes, Begin, CheckStatus, Send, MoneroChain, PageHistory, RunnerStates
<1>2. CASE Begin(r)
  <2>1. PICK pc \in {"idle", "status"} : RunnerTo(r, pc)
    BY <1>2 DEF Begin
  <2>2. UNCHANGED <<page, committedBy>> /\ (r = "button" \/ runner[r].pc = "due")
    BY <1>2 DEF Begin, RunnerAt
  <2>3. QED BY <1>1, <2>1, <2>2, RunnerQuiet
<1>3. CASE CheckStatus(r)
  <2>1. PICK pc \in {"idle", "send"} : RunnerTo(r, pc)
    BY <1>3 DEF CheckStatus
  <2>2. Cleanup \/ UNCHANGED page
    BY <1>3 DEF CheckStatus
  <2>3. /\ page' \in PageRec /\ page'.state = page.state /\ page'.height = page.height
        /\ page'.cursor = page.cursor /\ page'.tx = page.tx /\ page'.stored = page.stored
    BY <1>1, <2>2, CleanupFields
  <2>4. UNCHANGED committedBy /\ runner[r].pc = "status"
    BY <1>3 DEF CheckStatus, RunnerAt
  <2>5. QED BY <1>1, <2>1, <2>3, <2>4, RunnerQuiet
<1>4. CASE Send(r)
  <2>1. RunnerTo(r, "idle") /\ runner[r].pc = "send" /\ committedBy' \in {committedBy, r}
    BY <1>4 DEF Send, RunnerAt
  <2>2. /\ page' \in PageRec /\ page'.state \in {page.state, "finalize"} /\ page'.height = page.height
        /\ page'.cursor = page.cursor /\ page'.tx = page.tx /\ page'.stored = page.stored
    <3>1. CASE page' = [page EXCEPT !.state = "finalize"]
      BY <1>1, <3>1 DEF PageRec
    <3>2. CASE page' = [page EXCEPT !.confirmed = FALSE, !.button = TRUE]
      <4>1. PICK t \in BOOLEAN, f \in BOOLEAN : t = TRUE /\ f = FALSE
        OBVIOUS
      <4>2. page' = [page EXCEPT !.confirmed = f, !.button = t]
        BY <3>2, <4>1
      <4>3. QED BY <1>1, <4>2 DEF PageRec
    <3>3. QED BY <1>4, <3>1, <3>2 DEF Send
  <2>3. QED BY <1>1, <2>1, <2>2, RunnerQuiet
<1>5. QED BY <1>2, <1>3, <1>4

LEMMA ReopenInv ==
  ASSUME PageScanInv, Reopen
  PROVE  PageScanInv'
<1>1. /\ PageTypes /\ page \in PageRec /\ UNCHANGED <<count, told, paidAt, unread, noted, committedBy>>
      /\ runner' = [r \in Runner |-> Idle]
  BY DEF PageScanInv, PageTypes, Reopen, MoneroChain, PageHistory
<1>2. runner' \in [Runner -> RunnerRec] /\ \A r \in Runner : runner'[r].pc = "idle"
  BY <1>1 DEF Idle, RunnerRec, RunnerStates
<1>3. PICK kept \in BOOLEAN :
        page' = [page EXCEPT !.state = IF kept THEN "confirm" ELSE "propose",
                             !.height = IF kept THEN @ ELSE 0,
                             !.tx = IF kept THEN page.stored ELSE "none",
                             !.stored = IF kept THEN @ ELSE "none",
                             !.confirmed = FALSE, !.scanTimer = FALSE,
                             !.watchTimer = FALSE, !.button = FALSE]
  BY DEF Reopen
<1>4. PICK f \in BOOLEAN : f = FALSE
  OBVIOUS
<1>5. CASE kept
  <2>1. page' = [page EXCEPT !.state = "confirm", !.height = page.height, !.tx = page.stored,
                             !.stored = page.stored, !.confirmed = f, !.scanTimer = f,
                             !.watchTimer = f, !.button = f]
    BY <1>1, <1>3, <1>4, <1>5 DEF PageRec
  <2>2. /\ page' \in PageRec /\ page'.state = "confirm" /\ page'.height = page.height
        /\ page'.cursor = page.cursor /\ page'.tx = page.stored /\ page'.stored = page.stored
    BY <1>1, <2>1 DEF PageRec
  <2>3. PageTypes'
    BY <1>1, <1>2, <2>2 DEF PageTypes
  <2>4. QED BY <1>1, <1>2, <2>2, <2>3, PageQuiet DEF Runner
<1>6. CASE ~kept
  <2>1. page' = [page EXCEPT !.state = "propose", !.height = 0, !.tx = "none",
                             !.stored = "none", !.confirmed = f, !.scanTimer = f,
                             !.watchTimer = f, !.button = f]
    BY <1>1, <1>3, <1>4, <1>6 DEF PageRec
  <2>2. /\ page' \in PageRec /\ page'.state = "propose" /\ page'.height = 0
        /\ page'.cursor = page.cursor /\ page'.tx = "none" /\ page'.stored = "none"
    BY <1>1, <2>1 DEF PageRec
  <2>3. PageTypes'
    BY <1>1, <1>2, <2>2 DEF PageTypes
  <2>4. QED BY <1>1, <1>2, <2>2, <2>3, PageQuiet DEF Runner
<1>7. QED BY <1>5, <1>6

LEMMA MineBlockInv ==
  ASSUME PageScanInv, MineBlock
  PROVE  PageScanInv'
<1>1. /\ PageTypes /\ Heights /\ page \in PageRec /\ count \in Nat /\ count' = count + 1
      /\ UNCHANGED <<told, page, runner, unread, noted, committedBy>>
  BY DEF PageScanInv, PageTypes, MineBlock
<1>2. PICK paying \in SUBSET {p \in Payment : paidAt[p] = 0} :
        paidAt' = [p \in Payment |-> IF p \in paying THEN count ELSE paidAt[p]]
  BY DEF MineBlock
<1>3. /\ paidAt' \in [Payment -> Nat] /\ \A p \in Payment : paidAt[p] # 0 => paidAt'[p] = paidAt[p]
      /\ \A p \in Payment : paidAt'[p] # paidAt[p] => paidAt'[p] = count
      /\ \A p \in Payment : paidAt'[p] <= count + 1
  BY <1>1, <1>2 DEF PageTypes, Heights
<1>4. PageTypes'
  BY <1>1, <1>3 DEF PageTypes
<1>5. Heights'
  <2>1. noted \in Nat /\ page.height \in Nat /\ page.cursor \in Nat
    BY <1>1 DEF PageTypes, PageRec
  <2>2. page.tx \in Payment \cup {"none"} /\ page.stored \in Payment \cup {"none"}
    BY <1>1 DEF PageRec
  <2>3. \A x \in {page.tx, page.stored} : x # "none" => paidAt'[x] # 0
    BY <1>1, <1>3, <2>2 DEF Heights
  <2>4. QED BY <1>1, <1>3, <2>1, <2>3 DEF Heights
<1>6. ASSUME NEW h \in Nat, h <= count, PassedAt(h) PROVE \A k : k = h => PassedAt(k)'
  BY <1>1, <1>3, <1>6 DEF PassedAt, PageTypes
<1>7. SomePaid => SomePaid'
  <2>1. SUFFICES ASSUME NEW p \in Payment, Acceptable(p) PROVE Acceptable(p)'
    BY DEF SomePaid
  <2>2. paidAt[p] \in Nat /\ MinConf \in Nat
    BY <1>1, PageScanAssumption DEF PageTypes
  <2>3. QED BY <1>1, <1>3, <2>1, <2>2 DEF Acceptable
<1>8. ASSUME NEW c \in Check PROVE CheckSound(c)'
  <2>1. CheckSound(c) /\ c \in Runner
    BY DEF PageScanInv, Runner
  <2>2. runner[c].from \in Nat /\ runner[c].to \in Nat
    BY <1>1, <2>1 DEF PageTypes, RunnerRec
  <2>3. runner[c].pc = "scan" => (PassedAt(runner[c].from))'
    <3>1. SUFFICES ASSUME runner[c].pc = "scan" PROVE (PassedAt(runner[c].from))'
      OBVIOUS
    <3>2. PICK h : h = runner[c].from
      OBVIOUS
    <3>3. h \in Nat /\ h <= count /\ PassedAt(h)
      BY <1>1, <2>1, <2>2, <3>1, <3>2 DEF CheckSound
    <3>4. \A k : k = h => PassedAt(k)'
      BY <1>6, <3>3
    <3>5. runner'[c].from = h
      BY <1>1, <3>2
    <3>6. QED BY <3>4, <3>5 DEF PassedAt
  <2>4. QED BY <1>1, <1>7, <2>1, <2>2, <2>3 DEF CheckSound
<1>9. page'.state = "watch" /\ page'.tx = "none" => (PassedAt(page.cursor))'
  <2>1. page.cursor \in Nat /\ page.cursor <= count
    BY <1>1 DEF PageRec, Heights
  <2>2. page.state = "watch" /\ page.tx = "none" => PassedAt(page.cursor)
    BY DEF PageScanInv
  <2>3. QED BY <1>1, <1>6, <2>1, <2>2 DEF PassedAt
<1>10. AutoConfirmIsPaid'
  <2>1. committedBy \in Check => SomePaid
    BY DEF PageScanInv, AutoConfirmIsPaid, SomePaid, Acceptable
  <2>2. QED BY <1>1, <1>7, <2>1 DEF AutoConfirmIsPaid, SomePaid, Acceptable
<1>11. QED BY <1>4, <1>5, <1>8, <1>9, <1>10 DEF PageScanInv

\* The page notes the height, or a watch begins: what is passed stays passed.
LEMMA NotedLater ==
  ASSUME PageScanInv, UNCHANGED <<count, told, paidAt, runner, unread, committedBy>>,
         noted' \in {noted, count}, page' \in PageRec,
         page'.height <= noted', page'.cursor <= count,
         page'.tx = page.tx, page'.stored = page.stored,
         page'.state = "watch" /\ page'.tx = "none" => (PassedAt(page.cursor))'
  PROVE  PageScanInv'
<1>1. /\ PageTypes /\ Heights /\ noted \in Nat /\ count \in Nat /\ noted <= count
      /\ paidAt \in [Payment -> Nat] /\ Margin \in Nat
  BY PageScanAssumption DEF PageScanInv, PageTypes, Heights
<1>2. noted' \in Nat /\ noted <= noted' /\ noted' <= count
  BY <1>1
<1>3. PageTypes' /\ Heights'
  BY <1>1, <1>2 DEF PageTypes, Heights
<1>4. ASSUME NEW h, PassedAt(h) PROVE \A k : k = h => PassedAt(k)'
  BY <1>1, <1>2, <1>4 DEF PassedAt
<1>5. ASSUME NEW c \in Check PROVE CheckSound(c)'
  <2>1. CheckSound(c)
    BY DEF PageScanInv
  <2>2. runner[c].pc = "scan" => (PassedAt(runner[c].from))'
    BY <1>4, <2>1 DEF CheckSound, PassedAt
  <2>3. QED BY <1>1, <2>1, <2>2 DEF CheckSound, SomePaid, Acceptable
<1>6. AutoConfirmIsPaid'
  BY DEF PageScanInv, AutoConfirmIsPaid
<1>7. QED BY <1>3, <1>5, <1>6 DEF PageScanInv

LEMMA SeeProposalInv ==
  ASSUME PageScanInv, SeeProposal
  PROVE  PageScanInv'
<1>1. /\ PageTypes /\ Heights /\ page \in PageRec /\ count \in Nat /\ noted \in Nat /\ noted' = count
      /\ UNCHANGED <<count, told, paidAt, runner, unread, committedBy>>
  BY DEF PageScanInv, PageTypes, SeeProposal
<1>2. PICK h \in {count, page.height} : page' = [page EXCEPT !.state = "confirm", !.height = h]
  <2>1. CASE page' = [page EXCEPT !.state = "confirm", !.height = getHeight]
    BY <2>1 DEF getHeight
  <2>2. CASE page' = [page EXCEPT !.state = "confirm"]
    <3>1. page' = [page EXCEPT !.state = "confirm", !.height = page.height]
      BY <1>1, <2>2 DEF PageRec
    <3>2. QED BY <3>1
  <2>3. QED BY <2>1, <2>2 DEF SeeProposal
<1>3. h \in Nat /\ h <= count
  BY <1>1 DEF PageRec, Heights
<1>4. /\ page' \in PageRec /\ page'.state = "confirm" /\ page'.height = h
      /\ page'.cursor = page.cursor /\ page'.tx = page.tx /\ page'.stored = page.stored
  BY <1>1, <1>2, <1>3 DEF PageRec
<1>5. QED BY <1>1, <1>3, <1>4, NotedLater DEF Heights

LEMMA LessNat ==
  ASSUME NEW a \in Nat, NEW b \in Nat
  PROVE  Less(a, b) \in Nat /\ Less(a, b) <= a /\ (Less(a, b) # 0 => Less(a, b) + b = a)
BY DEF Less

LEMMA BeginWatchInv ==
  ASSUME PageScanInv, BeginWatch
  PROVE  PageScanInv'
<1>1. /\ PageTypes /\ Heights /\ page \in PageRec /\ count \in Nat /\ noted \in Nat
      /\ UNCHANGED <<count, told, paidAt, runner, unread, committedBy>>
      /\ page.height \in Nat /\ page.height <= noted /\ noted <= count
      /\ paidAt \in [Payment -> Nat] /\ Margin \in Nat /\ Depth \in Nat /\ Margin <= Depth
  BY PageScanAssumption DEF PageScanInv, PageTypes, Heights, PageRec, BeginWatch, MoneroChain
<1>2. PICK h : /\ page' = [page EXCEPT !.state = "watch", !.cursor = h,
                             !.scanTimer = TRUE, !.watchTimer = TRUE, !.button = TRUE]
               /\ \/ h = RestoreHeight /\ noted' = noted
                  \/ h = Less(getHeight, Depth) /\ noted' = count
                  \/ h = 0 /\ noted' = noted
  BY DEF BeginWatch
<1>3. PICK t \in BOOLEAN : t = TRUE
  OBVIOUS
<1>4. h \in Nat /\ h <= count /\ noted' \in {noted, count} /\ page.height <= noted'
  BY <1>1, <1>2, LessNat DEF RestoreHeight, getHeight
<1>5. \A a \in Nat : a < h => a + Margin < noted'
  <2>1. CASE h = RestoreHeight /\ noted' = noted
    <3>1. h \in Nat /\ (h # 0 => h + Margin = page.height)
      BY <1>1, <2>1, LessNat DEF RestoreHeight
    <3>2. QED BY <1>1, <2>1, <3>1
  <2>2. CASE h = Less(getHeight, Depth) /\ noted' = count
    <3>1. h \in Nat /\ (h # 0 => h + Depth = count)
      BY <1>1, <2>2, LessNat DEF getHeight
    <3>2. QED BY <1>1, <2>2, <3>1
  <2>3. QED BY <1>2, <2>1, <2>2
<1>6. page' = [page EXCEPT !.state = "watch", !.cursor = h, !.scanTimer = t, !.watchTimer = t, !.button = t]
  BY <1>2, <1>3
<1>7. /\ page' \in PageRec /\ page'.state = "watch" /\ page'.height = page.height
      /\ page'.cursor = h /\ page'.tx = page.tx /\ page'.stored = page.stored
  BY <1>1, <1>4, <1>6 DEF PageRec
<1>8. (PassedAt(page.cursor))'
  BY <1>1, <1>5, <1>7 DEF PassedAt
<1>9. QED BY <1>1, <1>4, <1>7, <1>8, NotedLater

LEMMA ScanInvStep ==
  ASSUME PageScanInv, NEW c \in Check, Scan(c)
  PROVE  PageScanInv'
<1> DEFINE range == runner[c].from .. (runner[c].to - 1)
<1>1. /\ PageTypes /\ Heights /\ page \in PageRec /\ CheckSound(c) /\ c \in Runner
      /\ UNCHANGED <<count, told, paidAt, noted, committedBy>>
      /\ runner[c].pc = "scan" /\ runner' = [runner EXCEPT ![c] = Idle]
      /\ runner[c].from \in Nat /\ runner[c].to \in Nat /\ paidAt \in [Payment -> Nat]
  BY DEF PageScanInv, PageTypes, RunnerRec, Scan, MoneroChain, Runner, RunnerAt
<1>2. /\ runner' \in [Runner -> RunnerRec] /\ runner'[c].pc = "idle"
      /\ \A q \in Runner : q # c => runner'[q] = runner[q]
  <2>1. Idle \in RunnerRec /\ Idle.pc = "idle"
    BY DEF Idle, RunnerRec, RunnerStates
  <2>2. QED BY <1>1, <2>1 DEF PageTypes
<1>3. PICK failed \in {{}} \cup {{h} : h \in range} :
        LET matches == {p \in Payment : paidAt[p] # 0 /\ paidAt[p] \in range \ failed}
            First == {p \in matches : \A q \in matches : paidAt[p] <= paidAt[q]} IN
        /\ unread' = unread \cup failed
        /\ \/ matches = {} /\ page' = [page EXCEPT !.cursor = CursorAfter(c)]
           \/ \E p \in First : page' = [page EXCEPT !.cursor = CursorAfter(c), !.tx = p, !.stored = p]
  BY DEF Scan
<1> DEFINE matches == {p \in Payment : paidAt[p] # 0 /\ paidAt[p] \in range \ failed}
<1>4. unread' = unread \cup failed
  BY <1>3
<1>5. /\ page' \in PageRec /\ page'.state = page.state /\ page'.height = page.height
      /\ page'.cursor = runner[c].to
      /\ \/ matches = {} /\ page'.tx = page.tx /\ page'.stored = page.stored
         \/ \E p \in matches : page'.tx = p /\ page'.stored = p
  <2>1. CASE matches = {} /\ page' = [page EXCEPT !.cursor = CursorAfter(c)]
    BY <1>1, <2>1 DEF PageRec, CursorAfter
  <2>2. ASSUME NEW p \in matches, page' = [page EXCEPT !.cursor = CursorAfter(c), !.tx = p, !.stored = p]
        PROVE  /\ page' \in PageRec /\ page'.state = page.state /\ page'.height = page.height
               /\ page'.cursor = runner[c].to /\ page'.tx = p /\ page'.stored = p
    BY <1>1, <2>2 DEF PageRec, CursorAfter
  <2>3. QED BY <1>3, <2>1, <2>2
<1>6. PageTypes' /\ Heights'
  <2>1. PageTypes'
    BY <1>1, <1>2, <1>5 DEF PageTypes
  <2>2. \A x \in {page'.tx, page'.stored} : x # "none" => paidAt'[x] # 0
    BY <1>1, <1>5 DEF Heights
  <2>3. QED BY <1>1, <1>5, <2>1, <2>2 DEF Heights, CheckSound
<1>7. ASSUME NEW h, PassedAt(h) PROVE \A k : k = h => PassedAt(k)'
  BY <1>1, <1>4, <1>7 DEF PassedAt
<1>8. ASSUME NEW q \in Check PROVE CheckSound(q)'
  <2>1. CheckSound(q) /\ q \in Runner
    BY DEF PageScanInv, Runner
  <2>2. q # c => runner'[q] = runner[q]
    BY <1>2, <2>1
  <2>3. q # c /\ runner[q].pc = "scan" => (PassedAt(runner[q].from))'
    BY <1>7, <2>1, <2>2 DEF CheckSound, PassedAt
  <2>4. QED BY <1>1, <1>2, <2>1, <2>2, <2>3 DEF CheckSound, SomePaid, Acceptable
<1>9. page'.tx = "none" => (PassedAt(page.cursor))'
  <2>1. SUFFICES ASSUME page'.tx = "none", NEW p \in Payment, paidAt[p] # 0, paidAt[p] < runner[c].to
                 PROVE  paidAt[p] \in unread \cup failed \/ paidAt[p] + Margin < noted
    BY <1>1, <1>4, <1>5 DEF PassedAt
  <2>2. matches = {}
    BY <1>5, <2>1 DEF Payment
  <2>3. CASE paidAt[p] < runner[c].from
    BY <1>1, <2>1, <2>3 DEF CheckSound, PassedAt
  <2>4. CASE ~(paidAt[p] < runner[c].from)
    <3>1. paidAt[p] \in range
      BY <1>1, <2>1, <2>4
    <3>2. QED BY <2>1, <2>2, <3>1
  <2>5. QED BY <2>3, <2>4
<1>10. AutoConfirmIsPaid'
  BY <1>1 DEF PageScanInv, AutoConfirmIsPaid
<1>11. QED BY <1>6, <1>8, <1>9, <1>10 DEF PageScanInv

LEMMA PageScanNextInv == PageScanInv /\ [PageScanNext]_pageScanVars => PageScanInv'
<1> SUFFICES ASSUME PageScanInv, [PageScanNext]_pageScanVars PROVE PageScanInv'
  OBVIOUS
<1>1. CASE UNCHANGED pageScanVars
  BY <1>1 DEF PageScanInv, PageTypes, Heights, PassedAt, CheckSound, SomePaid, Acceptable, AutoConfirmIsPaid, pageScanVars
<1>2. CASE MineBlock
  BY <1>2, MineBlockInv
<1>3. CASE LpAbandons \/ OfferRestore
  BY <1>3, AbandonOfferInv
<1>4. CASE SeeProposal
  BY <1>4, SeeProposalInv
<1>5. CASE BeginWatch
  BY <1>5, BeginWatchInv
<1>6. CASE Reopen
  BY <1>6, ReopenInv
<1>7. ASSUME NEW c \in Check, PageAt("watch"), Poll(c) \/ Scan(c) \/ Verify(c) PROVE PageScanInv'
  BY <1>7, PollInv, ScanInvStep, VerifyInv
<1>8. ASSUME NEW r \in Runner, Begin(r) \/ CheckStatus(r) \/ Send(r) PROVE PageScanInv'
  BY <1>8, ConfirmStepsInv
<1>9. QED BY <1>1, <1>2, <1>3, <1>4, <1>5, <1>6, <1>7, <1>8 DEF PageScanNext

LEMMA PageScanHolds == EndpointsSpec => []PageScanInv
<1>1. EndpointsInit => PageScanInv
  BY PageScanInitInv DEF EndpointsInit
<1>2. PageScanInv /\ [EndpointsNext]_<<part, solWalletVars, scanVars, solMintVars, solBurnVars,
        webVars, keyVars, pageScanVars, coLPVars, webCoLPVars>> => PageScanInv'
  BY PageScanNextInv DEF EndpointsNext, walletPart, solWalletPart, scanPart, solMintPart,
     solBurnPart, webPart, keyPart, pageScanPart, coLPPart, webCoLPPart
<1>3. QED BY <1>1, <1>2, PTL DEF EndpointsSpec

\* What confirms without the user has seen a payment, deep enough, that is whole or does
\* not tell its true amount, for any number of checks at once (confirmMoneroLock,
\* burnFlow.js).
THEOREM AutoConfirmsArePaid == EndpointsSpec => []AutoConfirmIsPaid
<1>1. PageScanInv => AutoConfirmIsPaid
  BY DEF PageScanInv
<1>2. QED BY <1>1, PageScanHolds, PTL

\* The scan passes no payment by: what is below the cursor without having been found
\* was unreadable or too old (pollDaemonScan and scanBlocksForPayment, burnFlow.js).
THEOREM PaymentsNotPassed == EndpointsSpec => []PaymentNotPassed
<1>1. PageScanInv => PaymentNotPassed
  BY DEF PageScanInv, PassedAt, PaymentNotPassed, PageAt
<1>2. QED BY <1>1, PageScanHolds, PTL

-----------------------------------------------------------------------------
\* The wallet-rpc and its lock, of both nodes.

Wallets == Sweeps \cup {Main, None}
JobPcs == {"idle", "balance", "transfer", "open", "look", "sweep", "restore", "ensure",
           "joined", "done"}
JobRec == [pc : JobPcs, opened : BOOLEAN]

WalletTypes ==
  /\ open \in Wallets /\ up \in BOOLEAN /\ walletOpened \in BOOLEAN
  /\ lock \in Seq(WalletJob) /\ job \in [WalletJob -> JobRec]
  /\ result \in [WalletJob -> {"none", "paid", "failed", "swept"}]
  /\ spent \in [WalletJob -> Wallets] /\ walletFaults \in Nat

\* The opening at import: only the Solana node has one, and it has no burn sweeps.
OpeningSound ==
  /\ part = "wallet" => opening = "done"
  /\ opening # "done" => \A i \in BurnSweeps : job[i].pc = "idle"
  /\ walletFaults = 0 /\ opening # "reach" => up

\* A job looks and sweeps only at the head of the lock, over its own wallet or none.
JobSound(j) ==
  /\ job[j].pc \in {"balance", "transfer"} => j \in Payouts
  /\ job[j].pc \in {"open", "look", "sweep", "restore", "ensure", "joined"} => j \in Sweeps
  /\ job[j].pc # "idle" /\ j \notin early => opening = "done"
  /\ job[j].pc \in {"look", "sweep"} =>
       lock # <<>> /\ Head(lock) = j /\ (j \notin early => open \in {j, None})
  /\ j \in BurnSweeps /\ walletFaults = 0 /\ job[j].pc \in {"look", "sweep", "restore"} =>
       job[j].opened

SpentSound(j) ==
  /\ j \in Sweeps \ early => spent[j] \in {j, None} /\ (result[j] = "swept" => spent[j] = j)
  /\ j \in Payouts \ early /\ walletFaults = 0 => spent[j] \in {Main, None}

\* Without failures a sweep's wallet is open only while a sweep at the head has not
\* closed it.
NoneLeftOpen ==
  /\ walletFaults = 0 /\ opening = "done"
  /\ lock # <<>> => job[Head(lock)].pc \notin {"look", "sweep", "restore"}
  => open \in {Main, None}

WalletInv ==
  /\ WalletTypes /\ OpeningSound /\ NoneLeftOpen
  /\ \A j \in WalletJob : JobSound(j) /\ SpentSound(j)

LEMMA WalletInitInv ==
  ASSUME NoJobs, up \in BOOLEAN, open \in Wallets, walletOpened \in BOOLEAN,
         early = {},
         (opening = "reach" /\ part = "solWallet") \/ (opening = "done" /\ up /\ open = Main)
  PROVE  WalletInv
<1>1. PICK f \in BOOLEAN : f = FALSE
  OBVIOUS
<1>2. job = [j \in WalletJob |-> [pc |-> "idle", opened |-> f]]
  BY <1>1 DEF NoJobs
<1>3. job \in [WalletJob -> JobRec] /\ \A j \in WalletJob : job[j].pc = "idle"
  BY <1>2 DEF JobRec, JobPcs
<1>4. /\ lock = <<>> /\ walletFaults = 0 /\ spent = [j \in WalletJob |-> None]
      /\ result = [j \in WalletJob |-> "none"]
  BY DEF NoJobs
<1>5. WalletTypes
  BY <1>3, <1>4 DEF WalletTypes, Wallets
<1>6. OpeningSound
  BY <1>3 DEF OpeningSound, WalletJob, Sweeps
<1>7. ASSUME NEW j \in WalletJob PROVE JobSound(j) /\ SpentSound(j)
  BY <1>3, <1>4 DEF JobSound, SpentSound
<1>8. NoneLeftOpen
  BY DEF NoneLeftOpen
<1>9. QED BY <1>5, <1>6, <1>7, <1>8 DEF WalletInv

\* The job at the head takes a step.
LEMMA HeadMoves ==
  ASSUME WalletInv, NEW j \in WalletJob, NEW r \in JobRec,
         lock # <<>>, Head(lock) = j, job' = [job EXCEPT ![j] = r],
         j \notin early => opening = "done",
         UNCHANGED <<part, opening, early>>, lock' \in {lock, Tail(lock)}, WalletTypes',
         walletFaults' = 0 => walletFaults = 0,
         \A k \in WalletJob : k # j => spent'[k] = spent[k] /\ result'[k] = result[k],
         walletFaults' = 0 /\ opening # "reach" => up',
         r.pc \in {"balance", "transfer"} => j \in Payouts,
         r.pc \in {"open", "look", "sweep", "restore", "ensure", "joined"} => j \in Sweeps,
         job[j].pc # "idle",
         r.pc \in {"look", "sweep"} => lock' = lock /\ (j \notin early => open' \in {j, None}),
         j \in BurnSweeps /\ walletFaults' = 0 /\ r.pc \in {"look", "sweep", "restore"} => r.opened,
         (SpentSound(j))', NoneLeftOpen'
  PROVE  WalletInv'
<1>1. /\ WalletTypes /\ OpeningSound /\ job \in [WalletJob -> JobRec]
      /\ job'[j] = r /\ \A k \in WalletJob : k # j => job'[k] = job[k]
  BY DEF WalletInv, WalletTypes
<1>2. OpeningSound'
  <2>1. j \in BurnSweeps => opening = "done"
    BY <1>1 DEF OpeningSound
  <2>2. opening # "done" => \A i \in BurnSweeps : job'[i].pc = "idle"
    BY <1>1, <2>1 DEF OpeningSound, WalletJob, Sweeps
  <2>3. QED BY <1>1, <2>2 DEF OpeningSound
<1>3. ASSUME NEW k \in WalletJob, k # j PROVE (JobSound(k) /\ SpentSound(k))'
  <2>1. JobSound(k) /\ SpentSound(k) /\ job'[k] = job[k] /\ spent'[k] = spent[k] /\ result'[k] = result[k]
    BY <1>1, <1>3 DEF WalletInv
  <2>2. job[k].pc \notin {"look", "sweep"}
    BY <1>3, <2>1 DEF JobSound
  <2>3. (JobSound(k))'
    BY <2>1, <2>2 DEF JobSound
  <2>4. (SpentSound(k))'
    BY <2>1 DEF SpentSound
  <2>5. QED BY <2>3, <2>4
<1>4. (JobSound(j))'
  BY <1>1 DEF JobSound
<1>5. QED BY <1>2, <1>3, <1>4 DEF WalletInv

\* What Working gives.
LEMMA WorkingJob ==
  ASSUME WalletInv, NEW j \in WalletJob, NEW pc \in JobPcs, Working(j, pc), pc # "idle"
  PROVE  /\ lock # <<>> /\ Head(lock) = j /\ job[j] \in JobRec /\ job[j].pc = pc
         /\ (j \notin early => opening = "done") /\ JobSound(j) /\ SpentSound(j)
         /\ Tail(lock) \in Seq(WalletJob)
<1>1. /\ lock # <<>> /\ Head(lock) = j /\ job[j].pc = pc /\ JobSound(j) /\ SpentSound(j)
      /\ lock \in Seq(WalletJob) /\ job \in [WalletJob -> JobRec]
  BY DEF WalletInv, WalletTypes, Working
<1>2. Tail(lock) \in Seq(WalletJob)
  BY <1>1
<1>3. j \notin early => opening = "done"
  BY <1>1 DEF JobSound
<1>4. QED BY <1>1, <1>2, <1>3

LEMMA JobGoes ==
  ASSUME WalletInv, NEW j \in WalletJob, NEW pc \in JobPcs, Goes(j, pc)
  PROVE  \E r \in JobRec : job' = [job EXCEPT ![j] = r] /\ r.pc = pc /\ r.opened = job[j].opened
<1>1. job \in [WalletJob -> JobRec] /\ job[j] \in JobRec
  BY DEF WalletInv, WalletTypes
<1>2. PICK r : r = [job[j] EXCEPT !.pc = pc]
  OBVIOUS
<1>3. r \in JobRec /\ r.pc = pc /\ r.opened = job[j].opened
  BY <1>1, <1>2 DEF JobRec
<1>4. job' = [job EXCEPT ![j] = r]
  BY <1>2 DEF Goes
<1>5. QED BY <1>3, <1>4

LEMMA FaultsUp ==
  ASSUME WalletInv, UNCHANGED walletFaults \/ WalletFault
  PROVE  /\ walletFaults' \in Nat /\ (walletFaults' = 0 => walletFaults = 0 /\ UNCHANGED walletFaults)
BY DEF WalletInv, WalletTypes, WalletFault
LEMMA AskInv ==
  ASSUME WalletInv, NEW j \in WalletJob, Ask(j), UNCHANGED <<part, opening>>,
         early' = (IF opening = "done" THEN early ELSE early \cup {j}),
         opening # "done" => j \notin BurnSweeps
  PROVE  WalletInv'
<1>1. /\ WalletTypes /\ OpeningSound /\ job \in [WalletJob -> JobRec] /\ lock \in Seq(WalletJob)
      /\ lock' = Append(lock, j) /\ job[j].pc = "idle"
      /\ UNCHANGED <<open, up, walletOpened, money, result, spent, walletFaults>>
  BY DEF WalletInv, WalletTypes, Ask, Queue
<1>2. PICK f \in BOOLEAN : f = FALSE
  OBVIOUS
<1>3. PICK pc \in {"balance", "open"} : pc = IF j \in Payouts THEN "balance" ELSE "open"
  OBVIOUS
<1>4. PICK r \in JobRec : r = [pc |-> pc, opened |-> f]
  BY DEF JobRec, JobPcs
<1>5. r.pc = pc /\ job' = [job EXCEPT ![j] = r]
  BY <1>2, <1>3, <1>4 DEF Ask
<1>6. job'[j] = r /\ \A k \in WalletJob : k # j => job'[k] = job[k]
  BY <1>1, <1>5
<1>7. lock' \in Seq(WalletJob) /\ lock' # <<>> /\ Head(lock') = IF lock = <<>> THEN j ELSE Head(lock)
  BY <1>1
<1>8. WalletTypes'
  BY <1>1, <1>5, <1>7 DEF WalletTypes
<1>9. OpeningSound'
  BY <1>1, <1>6 DEF OpeningSound, WalletJob, Sweeps
<1>10. early \subseteq early' /\ (opening # "done" => j \in early')
  OBVIOUS
<1>11. ASSUME NEW k \in WalletJob PROVE (JobSound(k) /\ SpentSound(k))'
  <2>1. JobSound(k) /\ SpentSound(k)
    BY DEF WalletInv
  <2>2. (SpentSound(k))'
    BY <1>1, <1>10, <2>1 DEF SpentSound
  <2>3. CASE k = j
    <3>1. (j \in Payouts => r.pc = "balance") /\ (j \notin Payouts => r.pc = "open" /\ j \in Sweeps)
      BY <1>3, <1>5 DEF WalletJob
    <3>2. (JobSound(j))'
      BY <1>1, <1>5, <1>6, <1>10, <3>1 DEF JobSound
    <3>3. QED BY <2>2, <2>3, <3>2
  <2>4. CASE k # j
    <3>1. job'[k] = job[k]
      BY <1>6, <2>4
    <3>2. job[k].pc \in {"look", "sweep"} => lock # <<>> /\ Head(lock) = k
      BY <2>1 DEF JobSound
    <3>3. (JobSound(k))'
      BY <1>1, <1>7, <1>10, <2>1, <3>1, <3>2 DEF JobSound
    <3>4. QED BY <2>2, <3>3
  <2>5. QED BY <2>3, <2>4
<1>12. NoneLeftOpen'
  <2>1. SUFFICES ASSUME walletFaults' = 0, opening' = "done",
                        job'[Head(lock')].pc \notin {"look", "sweep", "restore"}
                 PROVE  open \in {Main, None}
    BY <1>1, <1>7 DEF NoneLeftOpen
  <2>2. CASE lock = <<>>
    BY <1>1, <2>1, <2>2 DEF WalletInv, NoneLeftOpen
  <2>3. CASE lock # <<>>
    <3>1. Head(lock) \in WalletJob /\ Head(lock') = Head(lock)
      BY <1>1, <1>7, <2>3
    <3>2. job[Head(lock)].pc \notin {"look", "sweep", "restore"}
      BY <1>1, <1>6, <2>1, <3>1
    <3>3. QED BY <1>1, <2>1, <3>2 DEF WalletInv, NoneLeftOpen
  <2>4. QED BY <2>2, <2>3
<1>13. QED BY <1>8, <1>9, <1>11, <1>12 DEF WalletInv

\* A step of a payout.
LEMMA PaysInv ==
  ASSUME WalletInv, NEW j \in WalletJob, CheckBalance(j) \/ Transfer(j),
         UNCHANGED <<part, opening, early>>
  PROVE  WalletInv'
<1>1. PICK from \in {"balance", "transfer"} : Working(j, from)
  BY DEF CheckBalance, Transfer
<1>2. /\ lock # <<>> /\ Head(lock) = j /\ job[j] \in JobRec /\ job[j].pc = from
      /\ j \notin early => opening = "done"
      /\ JobSound(j) /\ SpentSound(j) /\ Tail(lock) \in Seq(WalletJob)
  BY <1>1, WorkingJob DEF JobPcs
<1>3. j \in Payouts /\ j \notin Sweeps
  BY <1>2, WalletAssumption DEF JobSound
<1>4. PICK pc \in {"transfer", "done"} : Goes(j, pc) /\ lock' \in {lock, Tail(lock)}
  BY DEF CheckBalance, Transfer, Finish
<1>5. PICK r \in JobRec : job' = [job EXCEPT ![j] = r] /\ r.pc = pc
  BY <1>4, JobGoes DEF JobPcs
<1>6. UNCHANGED <<open, up, walletOpened>> /\ (UNCHANGED walletFaults \/ WalletFault)
  BY DEF CheckBalance, Transfer
<1>7. walletFaults' \in Nat /\ (walletFaults' = 0 => walletFaults = 0 /\ UNCHANGED walletFaults)
  BY <1>6, FaultsUp
<1>8. /\ open \in Wallets /\ up \in BOOLEAN /\ walletOpened \in BOOLEAN /\ lock \in Seq(WalletJob)
      /\ job \in [WalletJob -> JobRec] /\ spent \in [WalletJob -> Wallets]
      /\ result \in [WalletJob -> {"none", "paid", "failed", "swept"}] /\ walletFaults \in Nat
  BY DEF WalletInv, WalletTypes
<1>9. /\ result' \in [WalletJob -> {"none", "paid", "failed", "swept"}]
      /\ \A k \in WalletJob : k # j => result'[k] = result[k]
  <2>1. \E w \in {"none", "paid", "failed"} : UNCHANGED result \/ Reports(j, w)
    BY DEF CheckBalance, Transfer
  <2>2. QED BY <1>8, <2>1 DEF Reports
<1>10. /\ spent' \in [WalletJob -> Wallets] /\ \A k \in WalletJob : k # j => spent'[k] = spent[k]
       /\ walletFaults' = 0 => spent'[j] \in {spent[j], open}
  <2>1. spent' \in {spent, [spent EXCEPT ![j] = open]}
    BY DEF CheckBalance, Transfer
  <2>2. QED BY <1>8, <2>1
<1>11. WalletTypes'
  BY <1>4, <1>2, <1>5, <1>6, <1>7, <1>8, <1>9, <1>10 DEF WalletTypes
<1>12. walletFaults' = 0 /\ opening = "done" => open \in {Main, None}
  BY <1>2, <1>7 DEF WalletInv, NoneLeftOpen
<1>13. NoneLeftOpen'
  BY <1>6, <1>12 DEF NoneLeftOpen
<1>14. (SpentSound(j))'
  <2>1. j \in Payouts \ early /\ walletFaults' = 0 => spent'[j] \in {Main, None}
    BY <1>2, <1>7, <1>10, <1>12 DEF SpentSound
  <2>2. QED BY <1>3, <2>1 DEF SpentSound
<1>15. walletFaults' = 0 /\ opening # "reach" => up'
  BY <1>6, <1>7 DEF WalletInv, OpeningSound
<1>16. r.pc \in {"balance", "transfer", "done"} /\ job[j].pc # "idle"
  BY <1>2, <1>5
<1>17. QED
  BY <1>2, <1>3, <1>4, <1>5, <1>7, <1>9, <1>10, <1>11, <1>13, <1>14, <1>15, <1>16, HeadMoves

LEMMA OpenSweepInv ==
  ASSUME WalletInv, NEW j \in WalletJob, OpenSweepWallet(j), UNCHANGED <<part, opening, early>>
  PROVE  WalletInv'
<1>1. Working(j, "open") /\ UNCHANGED <<up, lock, money, result, spent>>
  BY DEF OpenSweepWallet
<1>2. /\ lock # <<>> /\ Head(lock) = j /\ job[j] \in JobRec /\ job[j].pc = "open"
      /\ j \notin early => opening = "done"
      /\ JobSound(j) /\ SpentSound(j)
  BY <1>1, WorkingJob DEF JobPcs
<1>3. j \in Sweeps
  BY <1>2 DEF JobSound
<1>4. UNCHANGED walletFaults \/ WalletFault
  BY DEF OpenSweepWallet
<1>5. walletFaults' \in Nat /\ (walletFaults' = 0 => walletFaults = 0 /\ UNCHANGED walletFaults)
  BY <1>4, FaultsUp
<1>6. /\ open \in Wallets /\ up \in BOOLEAN /\ walletOpened \in BOOLEAN /\ lock \in Seq(WalletJob)
      /\ job \in [WalletJob -> JobRec] /\ spent \in [WalletJob -> Wallets]
      /\ result \in [WalletJob -> {"none", "paid", "failed", "swept"}] /\ walletFaults \in Nat
  BY DEF WalletInv, WalletTypes
<1>7. \E r \in JobRec :
        /\ job' = [job EXCEPT ![j] = r] /\ open' \in {j, open} /\ walletOpened' \in BOOLEAN
        /\ \/ r.pc = "look" /\ r.opened /\ open' = j
           \/ r.pc = "restore" /\ (walletFaults' = 0 => ~up)
  <2>1. CASE Goes(j, "restore") /\ UNCHANGED <<open, walletOpened>> /\ (~up \/ WalletFault)
    <3>1. PICK r \in JobRec : job' = [job EXCEPT ![j] = r] /\ r.pc = "restore"
      BY <2>1, JobGoes DEF JobPcs
    <3>2. walletFaults' = 0 => ~up
      BY <1>5, <1>6, <2>1 DEF WalletFault
    <3>3. QED BY <1>6, <2>1, <3>1, <3>2
  <2>2. CASE /\ up /\ open' = j
             /\ job' = [job EXCEPT ![j].pc = "look", ![j].opened = TRUE]
             /\ walletOpened' = (walletOpened \/ j \in MintSweeps)
    <3>1. PICK t \in BOOLEAN : t = TRUE
      OBVIOUS
    <3>2. PICK r : r = [pc |-> "look", opened |-> t]
      OBVIOUS
    <3>3. r \in JobRec /\ r.pc = "look" /\ r.opened
      BY <3>1, <3>2 DEF JobRec, JobPcs
    <3>4. job' = [job EXCEPT ![j] = [[job[j] EXCEPT !.pc = "look"] EXCEPT !.opened = t]]
      BY <1>6, <2>2, <3>1
    <3>5. [[job[j] EXCEPT !.pc = "look"] EXCEPT !.opened = t] = r
      <4>1. PICK m : m = [job[j] EXCEPT !.pc = "look"]
        OBVIOUS
      <4>2. m \in JobRec /\ m.pc = "look"
        BY <1>2, <4>1 DEF JobRec, JobPcs
      <4>3. [m EXCEPT !.opened = t] = r
        BY <3>2, <4>2 DEF JobRec
      <4>4. QED BY <4>1, <4>3
    <3>6. job' = [job EXCEPT ![j] = r]
      BY <3>4, <3>5
    <3>7. walletOpened' \in BOOLEAN
      BY <1>6, <2>2
    <3>8. QED BY <2>2, <3>3, <3>6, <3>7
  <2>3. QED BY <2>1, <2>2 DEF OpenSweepWallet
<1>8. PICK r \in JobRec :
        /\ job' = [job EXCEPT ![j] = r] /\ open' \in {j, open} /\ walletOpened' \in BOOLEAN
        /\ \/ r.pc = "look" /\ r.opened /\ open' = j
           \/ r.pc = "restore" /\ (walletFaults' = 0 => ~up)
  BY <1>7
<1>9. WalletTypes'
  BY <1>1, <1>3, <1>5, <1>6, <1>8 DEF WalletTypes, Wallets
<1>10. job'[j] = r
  BY <1>6, <1>8
<1>11. NoneLeftOpen'
  BY <1>1, <1>2, <1>8, <1>10 DEF NoneLeftOpen
<1>12. (SpentSound(j))'
  BY <1>1, <1>2, <1>5 DEF SpentSound
<1>13. walletFaults' = 0 /\ opening # "reach" => up'
  BY <1>1, <1>5 DEF WalletInv, OpeningSound
<1>14. j \in BurnSweeps /\ walletFaults' = 0 /\ r.pc \in {"look", "sweep", "restore"} => r.opened
  <2>1. j \in BurnSweeps => opening = "done"
    BY <1>2 DEF WalletInv, OpeningSound
  <2>2. QED BY <1>1, <1>8, <1>13, <2>1
<1>15. lock' = lock /\ (\A k \in WalletJob : spent'[k] = spent[k] /\ result'[k] = result[k])
       /\ (r.pc \in {"look", "sweep"} => open' = j)
       /\ r.pc \in {"look", "restore"}
  BY <1>1, <1>8
<1>16. QED
  BY <1>2, <1>3, <1>5, <1>8, <1>9, <1>11, <1>12, <1>13, <1>14, <1>15, HeadMoves
LEMMA SweepStepsInv ==
  ASSUME WalletInv, NEW j \in WalletJob, LookForDeposit(j) \/ SweepAll(j),
         UNCHANGED <<part, opening, early>>
  PROVE  WalletInv'
<1>1. PICK from \in {"look", "sweep"} : Working(j, from)
  BY DEF LookForDeposit, SweepAll
<1>2. /\ lock # <<>> /\ Head(lock) = j /\ job[j] \in JobRec /\ job[j].pc = from
      /\ j \notin early => opening = "done"
      /\ JobSound(j) /\ SpentSound(j)
  BY <1>1, WorkingJob DEF JobPcs
<1>3. j \in Sweeps /\ j \notin Payouts /\ (j \notin early => open \in {j, None})
  BY <1>2, WalletAssumption DEF JobSound
<1>4. PICK pc \in {"sweep", "restore"} : Goes(j, pc)
  <2>1. CASE LookForDeposit(j)
    BY <2>1 DEF LookForDeposit
  <2>2. CASE SweepAll(j)
    BY <2>2 DEF SweepAll
  <2>3. QED BY <2>1, <2>2
<1>5. PICK r \in JobRec : job' = [job EXCEPT ![j] = r] /\ r.pc = pc /\ r.opened = job[j].opened
  BY <1>4, JobGoes DEF JobPcs
<1>6. UNCHANGED <<open, up, walletOpened, lock>> /\ (UNCHANGED walletFaults \/ WalletFault)
  BY DEF LookForDeposit, SweepAll
<1>7. walletFaults' \in Nat /\ (walletFaults' = 0 => walletFaults = 0 /\ UNCHANGED walletFaults)
  BY <1>6, FaultsUp
<1>8. /\ open \in Wallets /\ up \in BOOLEAN /\ walletOpened \in BOOLEAN /\ lock \in Seq(WalletJob)
      /\ job \in [WalletJob -> JobRec] /\ spent \in [WalletJob -> Wallets]
      /\ result \in [WalletJob -> {"none", "paid", "failed", "swept"}] /\ walletFaults \in Nat
  BY DEF WalletInv, WalletTypes
<1>9. \/ UNCHANGED <<spent, result>>
      \/ open # None /\ spent' = [spent EXCEPT ![j] = open]
         /\ (result' = result \/ result' = [result EXCEPT ![j] = "swept"])
  BY DEF LookForDeposit, SweepAll, Reports
<1>10. /\ spent' \in [WalletJob -> Wallets]
       /\ result' \in [WalletJob -> {"none", "paid", "failed", "swept"}]
       /\ \A k \in WalletJob : k # j => spent'[k] = spent[k] /\ result'[k] = result[k]
       /\ \/ spent'[j] = spent[j] /\ result'[j] = result[j]
          \/ open # None /\ spent'[j] = open
  BY <1>8, <1>9
<1>11. WalletTypes'
  BY <1>5, <1>6, <1>7, <1>8, <1>10 DEF WalletTypes
<1>12. job'[j] = r
  BY <1>5, <1>8
<1>13. NoneLeftOpen'
  BY <1>2, <1>4, <1>5, <1>6, <1>12 DEF NoneLeftOpen
<1>14. (SpentSound(j))'
  BY <1>2, <1>3, <1>7, <1>10 DEF SpentSound
<1>15. walletFaults' = 0 /\ opening # "reach" => up'
  BY <1>6, <1>7 DEF WalletInv, OpeningSound
<1>16. j \in BurnSweeps /\ walletFaults' = 0 /\ r.pc \in {"look", "sweep", "restore"} => r.opened
  BY <1>2, <1>5, <1>7 DEF JobSound
<1>17. r.pc \in {"sweep", "restore"} /\ job[j].pc # "idle" /\ lock' = lock
       /\ (j \notin early => open' \in {j, None})
  BY <1>2, <1>3, <1>4, <1>5, <1>6
<1>18. QED
  BY <1>2, <1>3, <1>5, <1>7, <1>10, <1>11, <1>13, <1>14, <1>15, <1>16, <1>17, HeadMoves

LEMMA RestoreInv ==
  ASSUME WalletInv, NEW j \in WalletJob, Restore(j), UNCHANGED <<part, opening, early>>
  PROVE  WalletInv'
<1>1. Working(j, "restore") /\ UNCHANGED <<up, money, result, spent>>
  BY DEF Restore
<1>2. /\ lock # <<>> /\ Head(lock) = j /\ job[j] \in JobRec /\ job[j].pc = "restore"
      /\ j \notin early => opening = "done"
      /\ JobSound(j) /\ SpentSound(j) /\ Tail(lock) \in Seq(WalletJob)
  BY <1>1, WorkingJob DEF JobPcs
<1>3. j \in Sweeps /\ (j \in BurnSweeps /\ walletFaults = 0 => job[j].opened)
  BY <1>2 DEF JobSound
<1>4. UNCHANGED walletFaults \/ WalletFault
  BY DEF Restore
<1>5. walletFaults' \in Nat /\ (walletFaults' = 0 => walletFaults = 0 /\ UNCHANGED walletFaults)
  BY <1>4, FaultsUp
<1>6. /\ open \in Wallets /\ up \in BOOLEAN /\ walletOpened \in BOOLEAN /\ lock \in Seq(WalletJob)
      /\ job \in [WalletJob -> JobRec] /\ spent \in [WalletJob -> Wallets]
      /\ result \in [WalletJob -> {"none", "paid", "failed", "swept"}] /\ walletFaults \in Nat
  BY DEF WalletInv, WalletTypes
<1>7. walletFaults' = 0 /\ opening # "reach" => up /\ up'
  BY <1>1, <1>5 DEF WalletInv, OpeningSound
<1>8. PICK pc \in {"ensure", "done"} :
        /\ Goes(j, pc) /\ lock' \in {lock, Tail(lock)} /\ open' \in {open, None}
        /\ walletOpened' \in BOOLEAN
        /\ walletFaults' = 0 /\ opening # "reach" => open' = None
  <2>1. CASE /\ j \in BurnSweeps /\ ~job[j].opened
             /\ Goes(j, "ensure") /\ UNCHANGED <<open, walletOpened, lock, walletFaults>>
    BY <1>3, <1>5, <1>6, <2>1
  <2>2. CASE /\ open' = None /\ walletOpened' = (walletOpened /\ j \in BurnSweeps)
             /\ Goes(j, "ensure") /\ UNCHANGED lock
    BY <1>6, <2>2
  <2>3. CASE /\ Finish(j) /\ UNCHANGED <<open, walletOpened>>
             /\ ~(up /\ open # None) \/ WalletFault
    <3>1. walletFaults' = 0 => ~WalletFault
      BY <1>5, <1>6 DEF WalletFault
    <3>2. QED BY <1>6, <1>7, <2>3, <3>1 DEF Finish
  <2>4. QED BY <2>1, <2>2, <2>3 DEF Restore
<1>9. PICK r \in JobRec : job' = [job EXCEPT ![j] = r] /\ r.pc = pc
  BY <1>8, JobGoes DEF JobPcs
<1>10. WalletTypes'
  BY <1>1, <1>2, <1>5, <1>6, <1>8, <1>9 DEF WalletTypes, Wallets
<1>11. NoneLeftOpen'
  BY <1>8 DEF NoneLeftOpen
<1>12. (SpentSound(j))'
  BY <1>1, <1>2, <1>5 DEF SpentSound
<1>13. r.pc \in {"ensure", "done"} /\ job[j].pc # "idle"
       /\ (\A k \in WalletJob : spent'[k] = spent[k] /\ result'[k] = result[k])
  BY <1>1, <1>2, <1>8, <1>9
<1>14. QED
  BY <1>2, <1>3, <1>5, <1>7, <1>8, <1>9, <1>10, <1>11, <1>12, <1>13, HeadMoves

\* The wallet is ensured: the main one, or none, or the one a flag left open.
LEMMA EnsureInv ==
  ASSUME WalletInv, NEW j \in WalletJob, UNCHANGED <<part, opening, early>>,
         \/ EnsureOpen(j)
         \/ /\ opening # "done" /\ Working(j, "ensure") /\ Goes(j, "joined")
            /\ UNCHANGED <<open, up, walletOpened, lock, money, result, spent, walletFaults>>
         \/ /\ Working(j, "joined") /\ Finish(j)
            /\ UNCHANGED <<open, up, walletOpened, money, result, spent, walletFaults>>
  PROVE  WalletInv'
<1>1. PICK from \in {"ensure", "joined"} : Working(j, from)
  BY DEF EnsureOpen
<1>2. /\ lock # <<>> /\ Head(lock) = j /\ job[j] \in JobRec /\ job[j].pc = from
      /\ j \notin early => opening = "done"
      /\ JobSound(j) /\ SpentSound(j) /\ Tail(lock) \in Seq(WalletJob)
  BY <1>1, WorkingJob DEF JobPcs
<1>3. j \in Sweeps
  BY <1>2 DEF JobSound
<1>4. (UNCHANGED walletFaults \/ WalletFault) /\ UNCHANGED <<money, result, spent>>
  BY DEF EnsureOpen
<1>5. walletFaults' \in Nat /\ (walletFaults' = 0 => walletFaults = 0 /\ UNCHANGED walletFaults)
  BY <1>4, FaultsUp
<1>6. /\ open \in Wallets /\ up \in BOOLEAN /\ walletOpened \in BOOLEAN /\ lock \in Seq(WalletJob)
      /\ job \in [WalletJob -> JobRec] /\ spent \in [WalletJob -> Wallets]
      /\ result \in [WalletJob -> {"none", "paid", "failed", "swept"}] /\ walletFaults \in Nat
  BY DEF WalletInv, WalletTypes
<1>7. PICK pc \in {"joined", "done"} : Goes(j, pc) /\ lock' \in {lock, Tail(lock)}
  BY DEF EnsureOpen, Finish
<1>8. PICK r \in JobRec : job' = [job EXCEPT ![j] = r] /\ r.pc = pc
  BY <1>7, JobGoes DEF JobPcs
<1>9. open' \in {open, Main, None} /\ up' \in {up, TRUE} /\ walletOpened' \in {walletOpened, TRUE}
  BY DEF EnsureOpen
<1>10. open' \in Wallets /\ up' \in BOOLEAN /\ walletOpened' \in BOOLEAN
  BY <1>6, <1>9 DEF Wallets
<1>11. WalletTypes'
  BY <1>2, <1>4, <1>5, <1>6, <1>7, <1>8, <1>10 DEF WalletTypes
<1>12. walletFaults = 0 /\ opening = "done" => open \in {Main, None}
  BY <1>2 DEF WalletInv, NoneLeftOpen
<1>13. NoneLeftOpen'
  BY <1>5, <1>9, <1>12 DEF NoneLeftOpen
<1>14. walletFaults' = 0 /\ opening # "reach" => up'
  <2>1. walletFaults' = 0 /\ opening # "reach" => up
    BY <1>5 DEF WalletInv, OpeningSound
  <2>2. up => up'
    BY <1>9
  <2>3. QED BY <2>1, <2>2
<1>15. (SpentSound(j))'
  BY <1>2, <1>4, <1>5 DEF SpentSound
<1>16. r.pc \in {"joined", "done"} /\ job[j].pc # "idle"
       /\ (\A k \in WalletJob : spent'[k] = spent[k] /\ result'[k] = result[k])
  BY <1>2, <1>4, <1>7, <1>8
<1>17. QED
  BY <1>2, <1>3, <1>5, <1>7, <1>8, <1>11, <1>13, <1>14, <1>15, <1>16, HeadMoves
\* What is not a job's step: no job moves, and what is open is the main wallet, none,
\* or it stays.
LEMMA OutsideInv ==
  ASSUME WalletInv, UNCHANGED <<part, early, lock, job, result, spent>>,
         open' \in Wallets, up' \in BOOLEAN, walletOpened' \in BOOLEAN,
         UNCHANGED walletFaults \/ WalletFault,
         opening' = "reach" => opening = "reach",
         opening = "done" => opening' = "done",
         opening = "done" => open' \in {open, None},
         opening # "done" /\ opening' = "done" /\ walletFaults' = 0 => open' \in {Main, None},
         walletFaults' = 0 /\ opening' # "reach" => up'
  PROVE  WalletInv'
<1>1. walletFaults' \in Nat /\ (walletFaults' = 0 => walletFaults = 0 /\ UNCHANGED walletFaults)
  BY FaultsUp
<1>2. WalletTypes'
  BY <1>1 DEF WalletInv, WalletTypes
<1>3. OpeningSound'
  BY DEF WalletInv, OpeningSound
<1>4. NoneLeftOpen'
  BY <1>1 DEF WalletInv, NoneLeftOpen
<1>5. ASSUME NEW j \in WalletJob PROVE (JobSound(j) /\ SpentSound(j))'
  <2>1. JobSound(j) /\ SpentSound(j)
    BY DEF WalletInv
  <2>2. (SpentSound(j))'
    BY <1>1, <2>1 DEF SpentSound
  <2>3. (JobSound(j))'
    BY <1>1, <2>1 DEF JobSound
  <2>4. QED BY <2>2, <2>3
<1>6. QED BY <1>2, <1>3, <1>4, <1>5 DEF WalletInv

LEMMA ExitsInv ==
  ASSUME WalletInv, WalletRpcExits \/ (\E i \in Sweeps : Unlocks(i)),
         UNCHANGED <<part, opening, early>>
  PROVE  WalletInv'
<1>1. /\ open \in Wallets /\ up \in BOOLEAN /\ walletOpened \in BOOLEAN /\ walletFaults \in Nat
      /\ OpeningSound
  BY DEF WalletInv, WalletTypes
<1>2. CASE WalletRpcExits
  <2>1. /\ WalletFault /\ open' = None /\ up' \in {up, FALSE} /\ walletOpened' \in {walletOpened, FALSE}
        /\ UNCHANGED <<lock, job, money, result, spent>>
    BY <1>2 DEF WalletRpcExits
  <2>2. open' \in Wallets /\ up' \in BOOLEAN /\ walletOpened' \in BOOLEAN /\ walletFaults' # 0
    <3>1. walletFaults' = walletFaults + 1 /\ None \in Wallets
      BY <2>1 DEF Wallets, WalletFault
    <3>2. up' \in BOOLEAN
      BY <1>1, <2>1
    <3>3. walletOpened' \in BOOLEAN
      BY <1>1, <2>1
    <3>4. walletFaults' # 0
      BY <1>1, <3>1
    <3>5. QED BY <2>1, <3>1, <3>2, <3>3, <3>4
  <2>3. QED BY <2>1, <2>2, OutsideInv
<1>3. ASSUME NEW i \in Sweeps, Unlocks(i) PROVE WalletInv'
  BY <1>1, <1>3, OutsideInv DEF Unlocks, OpeningSound
<1>4. QED BY <1>2, <1>3

LEMMA OpeningInv ==
  ASSUME WalletInv, Reach \/ Look \/ Close \/ OpenMain, UNCHANGED part
  PROVE  WalletInv'
<1>1. /\ open \in Wallets /\ up \in BOOLEAN /\ walletOpened \in BOOLEAN /\ walletFaults \in Nat
      /\ OpeningSound
  BY DEF WalletInv, WalletTypes
<1>2. UNCHANGED <<early, lock, job, money, result, spent>> /\ opening # "done" /\ opening' # "reach"
  <2>1. CASE Reach
    BY <2>1 DEF Reach, OpeningGoes
  <2>2. CASE Look
    BY <2>2 DEF Look, OpeningGoes
  <2>3. CASE Close
    BY <2>3 DEF Close, OpeningGoes
  <2>4. CASE OpenMain
    BY <2>4 DEF OpenMain, OpeningGoes
  <2>5. QED BY <2>1, <2>2, <2>3, <2>4
<1>3. UNCHANGED walletFaults \/ WalletFault
  BY DEF Reach, Look, Close, OpenMain, CallFails
<1>4. open' \in {open, Main, None} /\ up' \in {up, TRUE} /\ walletOpened' \in {walletOpened, TRUE, FALSE}
  <2>1. CASE Reach
    BY <2>1 DEF Reach
  <2>2. CASE Look
    BY <2>2 DEF Look
  <2>3. CASE Close
    BY <2>3 DEF Close
  <2>4. CASE OpenMain
    BY <2>4 DEF OpenMain
  <2>5. QED BY <2>1, <2>2, <2>3, <2>4
<1>5. open' \in Wallets /\ up' \in BOOLEAN /\ walletOpened' \in BOOLEAN
  BY <1>1, <1>4 DEF Wallets
<1>6. walletFaults' = 0 => ~WalletFault
  BY <1>1 DEF WalletFault
<1>7. walletFaults' = 0 => up'
  <2>1. CASE Reach
    BY <1>1, <1>6, <2>1 DEF Reach
  <2>2. CASE opening # "reach" /\ UNCHANGED up
    BY <1>1, <1>3, <1>6, <2>2 DEF OpeningSound
  <2>3. Look \/ Close \/ OpenMain => opening # "reach" /\ UNCHANGED up
    BY DEF Look, Close, OpenMain
  <2>4. QED BY <2>1, <2>2, <2>3
<1>8. opening' = "done" /\ walletFaults' = 0 => open' \in {Main, None}
  <2>1. SUFFICES ASSUME opening' = "done", walletFaults' = 0 PROVE open' \in {Main, None}
    OBVIOUS
  <2>2. CASE Reach
    BY <1>6, <2>1, <2>2 DEF Reach, OpeningGoes
  <2>3. CASE Look
    BY <2>1, <2>3 DEF Look, OpeningGoes
  <2>4. CASE Close
    BY <2>1, <2>4 DEF Close, OpeningGoes
  <2>5. CASE OpenMain
    <3>1. up
      BY <1>7, <2>1, <2>5 DEF OpenMain
    <3>2. QED BY <1>6, <2>1, <2>5, <3>1 DEF OpenMain, CallFails
  <2>6. QED BY <2>2, <2>3, <2>4, <2>5
<1>9. QED BY <1>2, <1>3, <1>5, <1>7, <1>8, OutsideInv

LEMMA WalletPartInv ==
  ASSUME WalletInv, walletPart \/ solWalletPart, UNCHANGED part
  PROVE  WalletInv'
<1>1. CASE walletPart
  <2>1. opening = "done" /\ UNCHANGED <<opening, early>> /\ WalletNext
    BY <1>1 DEF walletPart, WalletInv, OpeningSound
  <2>2. early' = (IF opening = "done" THEN early ELSE early \cup {})
    BY <2>1
  <2>3. ASSUME NEW j \in WalletJob, Ask(j) PROVE WalletInv'
    BY <2>1, <2>3, AskInv
  <2>4. ASSUME NEW j \in WalletJob,
               \/ CheckBalance(j) \/ Transfer(j) \/ OpenSweepWallet(j) \/ LookForDeposit(j)
               \/ SweepAll(j) \/ Restore(j) \/ EnsureOpen(j)
        PROVE  WalletInv'
    BY <2>1, <2>4, PaysInv, OpenSweepInv, SweepStepsInv, RestoreInv, EnsureInv
  <2>5. CASE WalletRpcExits \/ \E i \in Sweeps : Unlocks(i)
    BY <2>1, <2>5, ExitsInv
  <2>6. QED BY <2>1, <2>3, <2>4, <2>5 DEF WalletNext
<1>2. CASE SolWalletNext
  <2>1. CASE Reach \/ Look \/ Close \/ OpenMain
    BY <2>1, OpeningInv
  <2>2. ASSUME NEW j \in SolWalletJob, SolAsk(j) PROVE WalletInv'
    <3>1. j \in WalletJob /\ j \notin BurnSweeps
      BY WalletAssumption DEF SolWalletJob, WalletJob, Sweeps
    <3>2. QED BY <2>2, <3>1, AskInv DEF SolAsk
  <2>3. ASSUME NEW j \in SolWalletJob, SolSend(j) \/ SolOpenSweepWallet(j) \/ SolSweep(j)
        PROVE  WalletInv'
    <3>1. j \in WalletJob
      BY DEF SolWalletJob, WalletJob, Sweeps
    <3>2. QED
      BY <2>3, <3>1, PaysInv, OpenSweepInv, SweepStepsInv, RestoreInv
      DEF SolSend, SolOpenSweepWallet, SolSweep
  <2>4. ASSUME NEW j \in SolWalletJob, SolEnsureOpen(j) PROVE WalletInv'
    <3>1. j \in WalletJob
      BY DEF SolWalletJob, WalletJob, Sweeps
    <3>2. QED BY <2>4, <3>1, EnsureInv DEF SolEnsureOpen
  <2>5. CASE (WalletRpcExits \/ \E i \in MintSweeps : Unlocks(i)) /\ UNCHANGED <<opening, early>>
    BY <2>5, ExitsInv DEF Sweeps
  <2>6. QED BY <1>2, <2>1, <2>2, <2>3, <2>4, <2>5 DEF SolWalletNext
<1>3. QED BY <1>1, <1>2 DEF solWalletPart

LEMMA WalletHolds == EndpointsSpec => []WalletInv
<1>1. EndpointsInit => WalletInv
  <2>1. SUFFICES ASSUME EndpointsInit PROVE WalletInv
    OBVIOUS
  <2>2. CASE part = "solWallet" /\ SolWalletInit
    <3>1. open \in Wallets
      BY <2>2 DEF SolWalletInit, Wallets, Sweeps
    <3>2. QED BY <2>2, <3>1, WalletInitInv DEF SolWalletInit
  <2>3. CASE part # "solWallet" /\ WalletInit /\ opening = "done" /\ early = {}
    BY <2>3, WalletInitInv DEF WalletInit, Wallets
  <2>4. QED BY <2>1, <2>2, <2>3 DEF EndpointsInit
<1>2. WalletInv /\ [EndpointsNext]_<<part, solWalletVars, scanVars, solMintVars, solBurnVars,
        webVars, keyVars, pageScanVars, coLPVars, webCoLPVars>> => WalletInv'
  <2>1. ASSUME WalletInv, UNCHANGED <<part, solWalletVars>> PROVE WalletInv'
    BY <2>1 DEF WalletInv, WalletTypes, OpeningSound, NoneLeftOpen, JobSound, SpentSound,
       solWalletVars, walletVars
  <2>2. QED
    BY <2>1, WalletPartInv DEF EndpointsNext, walletPart, solWalletPart, scanPart, solMintPart,
       solBurnPart, webPart, keyPart, pageScanPart, coLPPart, webCoLPPart
<1>3. QED BY <1>1, <1>2, PTL DEF EndpointsSpec

\* A sweep that reports success emptied its own address, and without failures a payout
\* came out of the main wallet, for any number of jobs in any order (withWalletLock and
\* the finally blocks, moneroWallet.js).
THEOREM MoneyFromRightWallet == EndpointsSpec => []RightWallet
<1>1. WalletInv => RightWallet
  BY DEF WalletInv, SpentSound, RightWallet
<1>2. QED BY <1>1, WalletHolds, PTL

-----------------------------------------------------------------------------
\* The co-LP positions.

CoVaultRec == [shares : Nat, locked : Nat, debt : Nat, deployedCollateral : Nat,
               deployedWsxmr : Nat, kick : {"none", "grace", "late", "opened"},
               frozen : BOOLEAN, reauctioned : BOOLEAN]
MetaRec == [owner : CoVault \cup {NoOne}, user : CoUser \cup {NoOne}, coll : Nat, ws : Nat]
PoolRec == [coll : Nat, ws : Nat, inRange : BOOLEAN]
ReturnRec == [coll : Nat, ws : Nat]

CoLPTypes ==
  /\ covault \in [CoVault -> CoVaultRec] /\ meta \in [Positions -> MetaRec]
  /\ pool \in [Positions -> PoolRec] /\ held \in [CoAccount -> SUBSET Positions]
  /\ returns \in [CoAccount -> ReturnRec]
  /\ hub \in [coll : Nat, ws : Nat]

\* The ledgers, one by one: PositionsAccounted is their conjunction.
Shares == SumFunctionOnSet([v \in CoVault |-> covault[v].shares], CoVault)
ReturnedColl == SumFunctionOnSet([a \in CoAccount |-> returns[a].coll], CoAccount)
ReturnedWs == SumFunctionOnSet([a \in CoAccount |-> returns[a].ws], CoAccount)

\* The legs a vault has noted are those of its positions, and none is left in its auction.
LegsNoted(v) ==
  /\ held[v] = Live(v) /\ covault[v].shares >= covault[v].locked
  /\ covault[v].deployedCollateral = CollateralLegs(Live(v))
  /\ covault[v].deployedWsxmr >= WsxmrLegs(Live(v))
  /\ covault[v].kick = "opened" \/ covault[v].frozen => Live(v) = {}

UserHolds(u) == held[u] = {t \in Positions : meta[t].user = u}

CoLPInv ==
  /\ CoLPTypes /\ hub.coll = Shares + ReturnedColl /\ hub.ws = ReturnedWs
  /\ \A t \in Positions : meta[t].owner = NoOne <=> meta[t].user = NoOne
  /\ \A v \in CoVault : LegsNoted(v)
  /\ \A u \in CoUser : UserHolds(u)

LEMMA CoLPInvPromises ==
  ASSUME CoLPInv
  PROVE  PositionsAccounted /\ NothingDeployedInAuction
<1>1. /\ Shares = SumFunction([v \in CoVault |-> covault[v].shares])
      /\ ReturnedColl = SumFunction([a \in CoAccount |-> returns[a].coll])
      /\ ReturnedWs = SumFunction([a \in CoAccount |-> returns[a].ws])
  BY DEF Shares, ReturnedColl, ReturnedWs, SumFunction
<1>2. PositionsAccounted
  BY <1>1 DEF CoLPInv, LegsNoted, UserHolds, PositionsAccounted
<1>3. NothingDeployedInAuction
  BY DEF CoLPInv, LegsNoted, NothingDeployedInAuction
<1>4. QED BY <1>2, <1>3

LEMMA CoFinite ==
  /\ IsFiniteSet(CoVault) /\ IsFiniteSet(CoUser) /\ IsFiniteSet(CoAccount)
  /\ IsFiniteSet(Positions) /\ \A S \in SUBSET Positions : IsFiniteSet(S)
<1>1. IsFiniteSet(CoAccount) /\ IsFiniteSet(Positions)
  BY CoLPAssumption
<1>2. CoVault \in SUBSET CoAccount /\ CoUser \in SUBSET CoAccount
  BY DEF CoAccount
<1>3. QED BY <1>1, <1>2, FS_Subset

\* The sums are natural numbers.
LEMMA LegsNat ==
  ASSUME CoLPTypes, NEW S \in SUBSET Positions
  PROVE  Collateral(S) \in Nat /\ Wsxmr(S) \in Nat /\ CollateralLegs(S) \in Nat /\ WsxmrLegs(S) \in Nat
<1>1. IsFiniteSet(S)
  BY CoFinite
<1>2. \A t \in Positions : meta[t].coll \in Nat /\ meta[t].ws \in Nat /\ pool[t].coll \in Nat /\ pool[t].ws \in Nat
  BY DEF CoLPTypes, MetaRec, PoolRec
<1>3. Collateral(S) \in Nat
  <2>1. \A t \in S : [x \in Positions |-> pool[x].coll][t] \in Nat
    BY <1>2
  <2>2. QED BY <1>1, <2>1, SumSetNat DEF Collateral
<1>4. Wsxmr(S) \in Nat
  <2>1. \A t \in S : [x \in Positions |-> pool[x].ws][t] \in Nat
    BY <1>2
  <2>2. QED BY <1>1, <2>1, SumSetNat DEF Wsxmr
<1>5. CollateralLegs(S) \in Nat
  <2>1. \A t \in S : [x \in Positions |-> meta[x].coll][t] \in Nat
    BY <1>2
  <2>2. QED BY <1>1, <2>1, SumSetNat DEF CollateralLegs
<1>6. WsxmrLegs(S) \in Nat
  <2>1. \A t \in S : [x \in Positions |-> meta[x].ws][t] \in Nat
    BY <1>2
  <2>2. QED BY <1>1, <2>1, SumSetNat DEF WsxmrLegs
<1>7. QED BY <1>3, <1>4, <1>5, <1>6

LEMMA SumsNat ==
  ASSUME CoLPTypes
  PROVE  Shares \in Nat /\ ReturnedColl \in Nat /\ ReturnedWs \in Nat
<1>1. Shares \in Nat
  <2>1. \A v \in CoVault : [x \in CoVault |-> covault[x].shares][v] \in Nat
    BY DEF CoLPTypes, CoVaultRec
  <2>2. QED BY <2>1, CoFinite, SumSetNat DEF Shares
<1>2. ReturnedColl \in Nat
  <2>1. \A a \in CoAccount : [x \in CoAccount |-> returns[x].coll][a] \in Nat
    BY DEF CoLPTypes, ReturnRec
  <2>2. QED BY <2>1, CoFinite, SumSetNat DEF ReturnedColl
<1>3. ReturnedWs \in Nat
  <2>1. \A a \in CoAccount : [x \in CoAccount |-> returns[x].ws][a] \in Nat
    BY DEF CoLPTypes, ReturnRec
  <2>2. QED BY <2>1, CoFinite, SumSetNat DEF ReturnedWs
<1>4. QED BY <1>1, <1>2, <1>3

\* The vault v becomes W.
LEMMA SharesMove ==
  ASSUME CoLPTypes, NEW v \in CoVault, NEW W \in CoVaultRec,
         covault' = [covault EXCEPT ![v] = W]
  PROVE  /\ covault' \in [CoVault -> CoVaultRec] /\ covault'[v] = W
         /\ \A q \in CoVault : q # v => covault'[q] = covault[q]
         /\ Shares \in Nat /\ Shares' \in Nat /\ Shares' + covault[v].shares = Shares + W.shares
<1>1. /\ covault' \in [CoVault -> CoVaultRec] /\ covault'[v] = W
      /\ \A q \in CoVault : q # v => covault'[q] = covault[q]
  BY DEF CoLPTypes
<1>2. PICK f : f = [x \in CoVault |-> covault[x].shares]
  OBVIOUS
<1>3. PICK g : g = [x \in CoVault |-> covault'[x].shares]
  OBVIOUS
<1>4. \A x \in CoVault : f[x] \in Nat /\ g[x] \in Nat /\ (x # v => g[x] = f[x])
  BY <1>1, <1>2, <1>3 DEF CoLPTypes, CoVaultRec
<1>5. SumFunctionOnSet(g, CoVault) + f[v] = SumFunctionOnSet(f, CoVault) + g[v]
  <2>1. IsFiniteSet(CoVault)
    BY CoFinite
  <2>2. QED BY <1>4, <2>1, SumSetUpdate
<1>6. SumFunctionOnSet(f, CoVault) \in Nat /\ SumFunctionOnSet(g, CoVault) \in Nat
  BY <1>4, CoFinite, SumSetNat
<1>7. Shares = SumFunctionOnSet(f, CoVault) /\ Shares' = SumFunctionOnSet(g, CoVault)
  BY <1>2, <1>3 DEF Shares
<1>8. f[v] = covault[v].shares /\ g[v] = W.shares
  BY <1>1, <1>2, <1>3
<1>9. QED BY <1>1, <1>5, <1>6, <1>7, <1>8

\* What depends only on the positions does not change when they do not.
LEMMA LegsStay ==
  ASSUME NEW S \in SUBSET Positions, \A t \in S : meta'[t] = meta[t]
  PROVE  (CollateralLegs(S))' = CollateralLegs(S) /\ (WsxmrLegs(S))' = WsxmrLegs(S)
<1>1. IsFiniteSet(S)
  BY CoFinite
<1>2. PICK f, g : f = [t \in Positions |-> meta[t].coll] /\ g = [t \in Positions |-> meta'[t].coll]
  OBVIOUS
<1>3. \A t \in S : f[t] = g[t]
  BY <1>2
<1>4. (CollateralLegs(S))' = CollateralLegs(S)
  BY <1>1, <1>2, <1>3, SumSetSame DEF CollateralLegs
<1>5. PICK h, k : h = [t \in Positions |-> meta[t].ws] /\ k = [t \in Positions |-> meta'[t].ws]
  OBVIOUS
<1>6. \A t \in S : h[t] = k[t]
  BY <1>5
<1>7. (WsxmrLegs(S))' = WsxmrLegs(S)
  BY <1>1, <1>5, <1>6, SumSetSame DEF WsxmrLegs
<1>8. QED BY <1>4, <1>7
\* The positions and the returns stay, the vault v becomes W: deposits, withdrawals,
\* mints, repayments and the kicks that open no auction.
LEMMA VaultMoves ==
  ASSUME CoLPInv, NEW v \in CoVault, NEW W \in CoVaultRec, NEW n \in Int,
         covault' = [covault EXCEPT ![v] = W], UNCHANGED <<meta, held, pool, returns>>,
         hub' = [hub EXCEPT !.coll = n], n + covault[v].shares = hub.coll + W.shares,
         W.deployedCollateral = covault[v].deployedCollateral,
         W.deployedWsxmr = covault[v].deployedWsxmr, W.shares >= W.locked,
         W.kick = "opened" \/ W.frozen => covault[v].kick = "opened" \/ covault[v].frozen
  PROVE  CoLPInv'
<1>1. /\ CoLPTypes /\ hub \in [coll : Nat, ws : Nat] /\ hub.coll = Shares + ReturnedColl
      /\ hub.ws = ReturnedWs /\ covault[v] \in CoVaultRec
  BY DEF CoLPInv, CoLPTypes
<1>2. /\ covault' \in [CoVault -> CoVaultRec] /\ covault'[v] = W
      /\ \A q \in CoVault : q # v => covault'[q] = covault[q]
      /\ Shares \in Nat /\ Shares' \in Nat /\ Shares' + covault[v].shares = Shares + W.shares
  BY <1>1, SharesMove
<1>3. ReturnedColl' = ReturnedColl /\ ReturnedWs' = ReturnedWs /\ ReturnedColl \in Nat
  BY <1>1, SumsNat DEF ReturnedColl, ReturnedWs
<1>4. n = Shares' + ReturnedColl /\ n \in Nat
  <2>1. covault[v].shares \in Nat /\ W.shares \in Nat
    BY <1>1 DEF CoVaultRec
  <2>2. QED BY <1>1, <1>2, <1>3, <2>1
<1>5. hub' \in [coll : Nat, ws : Nat] /\ hub'.coll = n /\ hub'.ws = hub.ws
  BY <1>1, <1>4
<1>6. CoLPTypes'
  BY <1>1, <1>2, <1>5 DEF CoLPTypes
<1>7. ASSUME NEW q \in CoVault PROVE (LegsNoted(q))'
  <2>1. LegsNoted(q)
    BY DEF CoLPInv
  <2>2. (Live(q))' = Live(q) /\ Live(q) \in SUBSET Positions
    BY DEF Live
  <2>3. (CollateralLegs(Live(q)))' = CollateralLegs(Live(q)) /\ (WsxmrLegs(Live(q)))' = WsxmrLegs(Live(q))
    BY <2>2 DEF CollateralLegs, WsxmrLegs, Live
  <2>4. CASE q = v
    BY <1>2, <2>1, <2>2, <2>3, <2>4 DEF LegsNoted
  <2>5. CASE q # v
    <3>1. covault'[q] = covault[q]
      BY <1>2, <2>5
    <3>2. QED BY <2>1, <2>2, <2>3, <3>1 DEF LegsNoted
  <2>6. QED BY <2>4, <2>5
<1>8. (\A u \in CoUser : UserHolds(u))'
  BY DEF CoLPInv, UserHolds
<1>9. (\A t \in Positions : meta[t].owner = NoOne <=> meta[t].user = NoOne)'
  BY DEF CoLPInv
<1>10. QED BY <1>1, <1>3, <1>4, <1>5, <1>6, <1>7, <1>8, <1>9 DEF CoLPInv

LEMMA DepositCoInv ==
  ASSUME CoLPInv, NEW v \in CoVault, DepositCollateral(v)
  PROVE  CoLPInv'
<1>1. /\ covault \in [CoVault -> CoVaultRec] /\ covault[v] \in CoVaultRec /\ LegsNoted(v)
      /\ hub \in [coll : Nat, ws : Nat]
  BY DEF CoLPInv, CoLPTypes
<1>2. PICK k \in {"none", "grace", "late", "opened"} :
        k = IF covault[v].kick = "grace" THEN "none" ELSE covault[v].kick
  BY <1>1 DEF CoVaultRec
<1>3. PICK W : W = [covault[v] EXCEPT !.shares = covault[v].shares + 1, !.kick = k]
  OBVIOUS
<1>4. /\ W \in CoVaultRec /\ W.shares = covault[v].shares + 1 /\ W.locked = covault[v].locked
      /\ W.deployedCollateral = covault[v].deployedCollateral
      /\ W.deployedWsxmr = covault[v].deployedWsxmr /\ W.kick = k /\ W.frozen = covault[v].frozen
  <2>1. PICK n \in Nat : n = covault[v].shares + 1
    BY <1>1 DEF CoVaultRec
  <2>2. W = [covault[v] EXCEPT !.shares = n, !.kick = k]
    BY <1>3, <2>1
  <2>3. QED BY <1>1, <2>1, <2>2 DEF CoVaultRec
<1>5. covault' = [covault EXCEPT ![v] = W]
  <2>1. covault' = [covault EXCEPT ![v].shares = covault[v].shares + 1, ![v].kick = k]
    BY <1>1, <1>2 DEF DepositCollateral, CoVaultRec
  <2>2. PICK U : U = [covault[v] EXCEPT !.shares = covault[v].shares + 1]
    OBVIOUS
  <2>3. [U EXCEPT !.kick = k] = W
    BY <1>1, <1>2, <1>3, <2>2 DEF CoVaultRec
  <2>4. covault' = [covault EXCEPT ![v] = [U EXCEPT !.kick = k]]
    BY <1>1, <2>1, <2>2
  <2>5. QED BY <2>3, <2>4
<1>6. hub' = [hub EXCEPT !.coll = hub.coll + 1] /\ UNCHANGED <<meta, held, pool, returns>>
  BY <1>1 DEF DepositCollateral
<1>7. PICK n \in Int : n = hub.coll + 1
  BY <1>1
<1>8. n + covault[v].shares = hub.coll + W.shares /\ W.shares >= W.locked
  BY <1>1, <1>4, <1>7 DEF CoVaultRec, LegsNoted
<1>9. W.kick = "opened" \/ W.frozen => covault[v].kick = "opened" \/ covault[v].frozen
  BY <1>2, <1>4
<1>10. hub' = [hub EXCEPT !.coll = n]
  BY <1>6, <1>7
<1>11. QED BY <1>4, <1>5, <1>6, <1>7, <1>8, <1>9, <1>10, VaultMoves

LEMMA WithdrawCoInv ==
  ASSUME CoLPInv, NEW v \in CoVault, NEW amount \in 1..MaxShares, WithdrawCollateral(v, amount)
  PROVE  CoLPInv'
<1>1. /\ covault \in [CoVault -> CoVaultRec] /\ covault[v] \in CoVaultRec /\ LegsNoted(v)
      /\ hub \in [coll : Nat, ws : Nat] /\ amount \in Nat
  BY CoLPAssumption DEF CoLPInv, CoLPTypes
<1>2. PICK W : W = [covault[v] EXCEPT !.shares = covault[v].shares - amount]
  OBVIOUS
<1>3. covault[v].shares - amount \in Nat /\ covault[v].shares - amount >= covault[v].locked
  BY <1>1 DEF WithdrawCollateral, Free, FloorMinus, LegsNoted, CoVaultRec
<1>4. /\ W \in CoVaultRec /\ W.shares = covault[v].shares - amount /\ W.locked = covault[v].locked
      /\ W.deployedCollateral = covault[v].deployedCollateral
      /\ W.deployedWsxmr = covault[v].deployedWsxmr
      /\ W.kick = covault[v].kick /\ W.frozen = covault[v].frozen
  BY <1>1, <1>2, <1>3 DEF CoVaultRec
<1>5. covault' = [covault EXCEPT ![v] = W]
  BY <1>1, <1>2 DEF WithdrawCollateral
<1>6. hub' = [hub EXCEPT !.coll = hub.coll - amount] /\ UNCHANGED <<meta, held, pool, returns>>
  BY <1>1 DEF WithdrawCollateral
<1>7. PICK n \in Int : n = hub.coll - amount
  BY <1>1
<1>8. n + covault[v].shares = hub.coll + W.shares /\ W.shares >= W.locked
  BY <1>1, <1>3, <1>4, <1>7 DEF CoVaultRec
<1>9. hub' = [hub EXCEPT !.coll = n]
  BY <1>6, <1>7
<1>10. QED BY <1>4, <1>5, <1>6, <1>7, <1>8, <1>9, VaultMoves

\* The debt and the kick of a vault.
LEMMA DebtMoves ==
  ASSUME CoLPInv, NEW v \in CoVault, NEW W \in CoVaultRec, covault' = [covault EXCEPT ![v] = W],
         UNCHANGED <<meta, held, pool, returns, hub>>,
         W.shares = covault[v].shares, W.locked = covault[v].locked,
         W.deployedCollateral = covault[v].deployedCollateral,
         W.deployedWsxmr = covault[v].deployedWsxmr,
         W.kick = "opened" \/ W.frozen => covault[v].kick = "opened" \/ covault[v].frozen
  PROVE  CoLPInv'
<1>1. /\ covault[v] \in CoVaultRec /\ LegsNoted(v) /\ hub \in [coll : Nat, ws : Nat]
  BY DEF CoLPInv, CoLPTypes
<1>2. PICK n \in Int : n = hub.coll
  BY <1>1
<1>3. hub' = [hub EXCEPT !.coll = n] /\ n + covault[v].shares = hub.coll + W.shares /\ W.shares >= W.locked
  BY <1>1, <1>2 DEF LegsNoted, CoVaultRec
<1>4. QED BY <1>3, VaultMoves

LEMMA DebtActionsInv ==
  ASSUME CoLPInv, NEW v \in CoVault,
         MintOne(v) \/ StartKick(v) \/ GraceEnds(v) \/ (\E amount \in 1..MaxDebt : RepayDebt(v, amount))
  PROVE  CoLPInv'
<1>1. covault \in [CoVault -> CoVaultRec] /\ covault[v] \in CoVaultRec
  BY DEF CoLPInv, CoLPTypes
<1>2. PICK f \in BOOLEAN : f = FALSE
  OBVIOUS
<1>3. CASE MintOne(v)
  <2>1. PICK W : W = [covault[v] EXCEPT !.debt = covault[v].debt + 1]
    OBVIOUS
  <2>2. covault' = [covault EXCEPT ![v] = W] /\ UNCHANGED <<meta, held, pool, returns, hub>>
    BY <1>1, <1>3, <2>1 DEF MintOne
  <2>3. /\ W \in CoVaultRec /\ W.shares = covault[v].shares /\ W.locked = covault[v].locked
        /\ W.deployedCollateral = covault[v].deployedCollateral
        /\ W.deployedWsxmr = covault[v].deployedWsxmr
        /\ W.kick = covault[v].kick /\ W.frozen = covault[v].frozen
    BY <1>1, <2>1 DEF CoVaultRec
  <2>4. QED BY <2>2, <2>3, DebtMoves
<1>4. CASE GraceEnds(v)
  <2>1. PICK W : W = [covault[v] EXCEPT !.kick = "late"]
    OBVIOUS
  <2>2. covault' = [covault EXCEPT ![v] = W] /\ UNCHANGED <<meta, held, pool, returns, hub>>
    BY <1>1, <1>4, <2>1 DEF GraceEnds
  <2>3. /\ W \in CoVaultRec /\ W.shares = covault[v].shares /\ W.locked = covault[v].locked
        /\ W.deployedCollateral = covault[v].deployedCollateral
        /\ W.deployedWsxmr = covault[v].deployedWsxmr
        /\ W.kick = "late" /\ W.frozen = covault[v].frozen
    BY <1>1, <2>1 DEF CoVaultRec
  <2>4. QED BY <2>2, <2>3, DebtMoves
<1>5. CASE StartKick(v)
  <2>1. PICK r \in BOOLEAN : r = (covault[v].reauctioned \/ covault[v].frozen)
    OBVIOUS
  <2>2. PICK W : W = [covault[v] EXCEPT !.kick = "grace", !.frozen = f, !.reauctioned = r]
    OBVIOUS
  <2>3. /\ W \in CoVaultRec /\ W.shares = covault[v].shares /\ W.locked = covault[v].locked
        /\ W.deployedCollateral = covault[v].deployedCollateral
        /\ W.deployedWsxmr = covault[v].deployedWsxmr
        /\ W.kick = "grace" /\ W.frozen = f
    BY <1>1, <2>2 DEF CoVaultRec
  <2>4. covault' = [covault EXCEPT ![v] = W] /\ UNCHANGED <<meta, held, pool, returns, hub>>
    <3>1. covault' = [covault EXCEPT ![v].kick = "grace", ![v].frozen = f, ![v].reauctioned = r]
      BY <1>1, <1>2, <1>5, <2>1 DEF StartKick
    <3>2. PICK A : A = [covault[v] EXCEPT !.kick = "grace"]
      OBVIOUS
    <3>3. PICK B : B = [A EXCEPT !.frozen = f]
      OBVIOUS
    <3>4. [B EXCEPT !.reauctioned = r] = W
      BY <1>1, <2>2, <3>2, <3>3 DEF CoVaultRec
    <3>5. covault' = [covault EXCEPT ![v] = [B EXCEPT !.reauctioned = r]]
      BY <1>1, <3>1, <3>2, <3>3
    <3>6. QED BY <1>5, <3>4, <3>5 DEF StartKick
  <2>5. QED BY <1>2, <2>3, <2>4, DebtMoves
<1>6. ASSUME NEW amount \in 1..MaxDebt, RepayDebt(v, amount) PROVE CoLPInv'
  <2>1. PICK z \in BOOLEAN : z = (covault[v].frozen /\ amount < covault[v].debt)
    OBVIOUS
  <2>2. PICK W : W = [covault[v] EXCEPT !.debt = covault[v].debt - amount, !.kick = "none", !.frozen = z]
    OBVIOUS
  <2>3. covault' = [covault EXCEPT ![v] = W] /\ UNCHANGED <<meta, held, pool, returns, hub>>
    BY <1>1, <1>6, <2>1, <2>2 DEF RepayDebt
  <2>4. covault[v].debt - amount \in Nat
    <3>1. amount <= covault[v].debt
      BY <1>6 DEF RepayDebt
    <3>2. MaxDebt \in Nat /\ covault[v].debt \in Nat
      BY <1>1, CoLPAssumption DEF CoVaultRec
    <3>3. QED BY <3>1, <3>2
  <2>5. /\ W \in CoVaultRec /\ W.shares = covault[v].shares /\ W.locked = covault[v].locked
        /\ W.deployedCollateral = covault[v].deployedCollateral
        /\ W.deployedWsxmr = covault[v].deployedWsxmr
        /\ W.kick = "none" /\ W.frozen = z
    BY <1>1, <2>2, <2>4 DEF CoVaultRec
  <2>6. QED BY <2>1, <2>3, <2>5, DebtMoves
<1>7. QED BY <1>3, <1>4, <1>5, <1>6

\* The returns of one account change, or of none.
LEMMA ReturnedCollMoves ==
  ASSUME CoLPTypes, NEW a \in CoAccount, returns' \in [CoAccount -> ReturnRec],
         \A b \in CoAccount : b # a => returns'[b].coll = returns[b].coll
  PROVE  /\ ReturnedColl \in Nat /\ ReturnedColl' \in Nat
         /\ ReturnedColl' + returns[a].coll = ReturnedColl + returns'[a].coll
<1>1. PICK f, g : /\ f = [b \in CoAccount |-> returns[b].coll]
                  /\ g = [b \in CoAccount |-> returns'[b].coll]
  OBVIOUS
<1>2. \A b \in CoAccount : f[b] \in Nat /\ g[b] \in Nat /\ (b # a => g[b] = f[b])
  BY <1>1 DEF CoLPTypes, ReturnRec
<1>3. SumFunctionOnSet(g, CoAccount) + f[a] = SumFunctionOnSet(f, CoAccount) + g[a]
  <2>1. IsFiniteSet(CoAccount)
    BY CoFinite
  <2>2. QED BY <1>2, <2>1, SumSetUpdate
<1>4. SumFunctionOnSet(f, CoAccount) \in Nat /\ SumFunctionOnSet(g, CoAccount) \in Nat
  BY <1>2, CoFinite, SumSetNat
<1>5. ReturnedColl = SumFunctionOnSet(f, CoAccount) /\ ReturnedColl' = SumFunctionOnSet(g, CoAccount)
  BY <1>1 DEF ReturnedColl
<1>6. QED BY <1>1, <1>3, <1>4, <1>5

LEMMA ReturnedWsMoves ==
  ASSUME CoLPTypes, NEW a \in CoAccount, returns' \in [CoAccount -> ReturnRec],
         \A b \in CoAccount : b # a => returns'[b].ws = returns[b].ws
  PROVE  /\ ReturnedWs \in Nat /\ ReturnedWs' \in Nat
         /\ ReturnedWs' + returns[a].ws = ReturnedWs + returns'[a].ws
<1>1. PICK f, g : /\ f = [b \in CoAccount |-> returns[b].ws]
                  /\ g = [b \in CoAccount |-> returns'[b].ws]
  OBVIOUS
<1>2. \A b \in CoAccount : f[b] \in Nat /\ g[b] \in Nat /\ (b # a => g[b] = f[b])
  BY <1>1 DEF CoLPTypes, ReturnRec
<1>3. SumFunctionOnSet(g, CoAccount) + f[a] = SumFunctionOnSet(f, CoAccount) + g[a]
  <2>1. IsFiniteSet(CoAccount)
    BY CoFinite
  <2>2. QED BY <1>2, <2>1, SumSetUpdate
<1>4. SumFunctionOnSet(f, CoAccount) \in Nat /\ SumFunctionOnSet(g, CoAccount) \in Nat
  BY <1>2, CoFinite, SumSetNat
<1>5. ReturnedWs = SumFunctionOnSet(f, CoAccount) /\ ReturnedWs' = SumFunctionOnSet(g, CoAccount)
  BY <1>1 DEF ReturnedWs
<1>6. QED BY <1>1, <1>3, <1>4, <1>5

\* Vaults and positions stay.
LEMMA OnlyReturns ==
  ASSUME CoLPInv, UNCHANGED <<covault, meta, held>>, pool' \in [Positions -> PoolRec],
         returns' \in [CoAccount -> ReturnRec], hub' \in [coll : Nat, ws : Nat],
         hub'.coll = Shares + ReturnedColl', hub'.ws = ReturnedWs'
  PROVE  CoLPInv'
<1>1. CoLPTypes /\ Shares' = Shares
  BY DEF CoLPInv, Shares
<1>2. CoLPTypes'
  BY <1>1 DEF CoLPTypes
<1>3. ASSUME NEW q \in CoVault PROVE (LegsNoted(q))'
  <2>1. LegsNoted(q)
    BY DEF CoLPInv
  <2>2. (Live(q))' = Live(q)
    BY DEF Live
  <2>3. (CollateralLegs(Live(q)))' = CollateralLegs(Live(q)) /\ (WsxmrLegs(Live(q)))' = WsxmrLegs(Live(q))
    BY <2>2 DEF CollateralLegs, WsxmrLegs, Live
  <2>4. QED BY <2>1, <2>2, <2>3 DEF LegsNoted
<1>4. \A u \in CoUser : (UserHolds(u))'
  BY DEF CoLPInv, UserHolds
<1>5. QED BY <1>1, <1>2, <1>3, <1>4 DEF CoLPInv

LEMMA PriceMovesInv ==
  ASSUME CoLPInv, NEW t \in Positions, PriceMoves(t)
  PROVE  CoLPInv'
<1>1. /\ CoLPTypes /\ pool \in [Positions -> PoolRec] /\ returns \in [CoAccount -> ReturnRec]
      /\ hub \in [coll : Nat, ws : Nat] /\ hub.coll = Shares + ReturnedColl /\ hub.ws = ReturnedWs
      /\ MaxLeg \in Nat
  BY CoLPAssumption DEF CoLPInv, CoLPTypes
<1>2. PICK c \in 0..MaxLeg, w \in 0..MaxLeg, r \in BOOLEAN :
        pool' = [pool EXCEPT ![t] = [coll |-> c, ws |-> w, inRange |-> r]]
  BY DEF PriceMoves
<1>3. pool' \in [Positions -> PoolRec]
  BY <1>1, <1>2 DEF PoolRec
<1>4. UNCHANGED <<covault, meta, held, returns, hub>>
  BY DEF PriceMoves
<1>5. ReturnedColl' = ReturnedColl /\ ReturnedWs' = ReturnedWs
  BY <1>4 DEF ReturnedColl, ReturnedWs
<1>6. QED BY <1>1, <1>3, <1>4, <1>5, OnlyReturns

LEMMA CollectInv ==
  ASSUME CoLPInv, NEW t \in Positions, NEW c \in Nat, NEW w \in Nat, CollectCoLPFees(t, c, w)
  PROVE  CoLPInv'
<1>1. /\ CoLPTypes /\ pool \in [Positions -> PoolRec] /\ returns \in [CoAccount -> ReturnRec]
      /\ hub \in [coll : Nat, ws : Nat] /\ hub.coll = Shares + ReturnedColl /\ hub.ws = ReturnedWs
      /\ Shares \in Nat /\ meta[t] \in MetaRec
  BY SumsNat DEF CoLPInv, CoLPTypes
<1>2. PICK v \in CoVault : v = meta[t].owner
  BY <1>1 DEF CollectCoLPFees, MetaRec
<1>3. PICK u \in CoUser : u = meta[t].user
  BY <1>1 DEF CollectCoLPFees, CoLPInv, MetaRec
<1>4. v \in CoAccount /\ u \in CoAccount /\ v # u
  BY CoLPAssumption DEF CoAccount
<1>5. returns' = [returns EXCEPT ![v].coll = @ + c, ![u].ws = @ + w]
  BY <1>2, <1>3 DEF CollectCoLPFees
<1>6. PICK A : A = [returns[v] EXCEPT !.coll = returns[v].coll + c]
  OBVIOUS
<1>7. PICK B : B = [returns[u] EXCEPT !.ws = returns[u].ws + w]
  OBVIOUS
<1>8. A \in ReturnRec /\ A.coll = returns[v].coll + c /\ A.ws = returns[v].ws
  BY <1>1, <1>4, <1>6 DEF ReturnRec
<1>9. B \in ReturnRec /\ B.coll = returns[u].coll /\ B.ws = returns[u].ws + w
  BY <1>1, <1>4, <1>7 DEF ReturnRec
<1>10. /\ returns' \in [CoAccount -> ReturnRec] /\ returns'[v] = A /\ returns'[u] = B
       /\ \A b \in CoAccount : b # v /\ b # u => returns'[b] = returns[b]
  <2>1. returns' = [[returns EXCEPT ![v] = A] EXCEPT ![u] = B]
    BY <1>1, <1>4, <1>5, <1>6, <1>7
  <2>2. QED BY <1>1, <1>4, <1>8, <1>9, <2>1
<1>11. \A b \in CoAccount : /\ b # v => returns'[b].coll = returns[b].coll
                            /\ b # u => returns'[b].ws = returns[b].ws
  BY <1>8, <1>9, <1>10
<1>12. /\ ReturnedColl \in Nat /\ ReturnedColl' \in Nat
       /\ ReturnedColl' + returns[v].coll = ReturnedColl + returns'[v].coll
  BY <1>1, <1>4, <1>10, <1>11, ReturnedCollMoves
<1>13. /\ ReturnedWs \in Nat /\ ReturnedWs' \in Nat
       /\ ReturnedWs' + returns[u].ws = ReturnedWs + returns'[u].ws
  BY <1>1, <1>4, <1>10, <1>11, ReturnedWsMoves
<1>14. returns[v].coll \in Nat /\ returns[u].ws \in Nat
  BY <1>1, <1>4 DEF ReturnRec
<1>15. ReturnedColl' = ReturnedColl + c /\ ReturnedWs' = ReturnedWs + w
  BY <1>8, <1>9, <1>10, <1>12, <1>13, <1>14
<1>16. PICK m \in Nat, n \in Nat : m = hub.coll + c /\ n = hub.ws + w
  BY <1>1
<1>17. hub' \in [coll : Nat, ws : Nat] /\ hub'.coll = hub.coll + c /\ hub'.ws = hub.ws + w
  <2>1. hub' = [hub EXCEPT !.coll = m, !.ws = n]
    BY <1>1, <1>16 DEF CollectCoLPFees
  <2>2. hub' \in [coll : Nat, ws : Nat] /\ hub'.coll = m /\ hub'.ws = n
    BY <1>1, <2>1
  <2>3. QED BY <1>16, <2>2
<1>18. hub'.coll = Shares + ReturnedColl' /\ hub'.ws = ReturnedWs'
  BY <1>1, <1>12, <1>13, <1>15, <1>17
<1>19. UNCHANGED <<covault, meta, held, pool>>
  BY DEF CollectCoLPFees
<1>20. QED BY <1>1, <1>10, <1>17, <1>18, <1>19, OnlyReturns

LEMMA WithdrawReturnsInv ==
  ASSUME CoLPInv, NEW a \in CoAccount, WithdrawReturns(a)
  PROVE  CoLPInv'
<1>1. /\ CoLPTypes /\ pool \in [Positions -> PoolRec] /\ returns \in [CoAccount -> ReturnRec]
      /\ hub \in [coll : Nat, ws : Nat] /\ hub.coll = Shares + ReturnedColl /\ hub.ws = ReturnedWs
      /\ Shares \in Nat /\ returns[a] \in ReturnRec /\ UNCHANGED <<covault, meta, held, pool>>
      /\ returns[a].coll \in Nat /\ returns[a].ws \in Nat
  BY SumsNat DEF CoLPInv, CoLPTypes, ReturnRec, WithdrawReturns
<1>2. CASE returns' = [returns EXCEPT ![a].coll = 0] /\ hub' = [hub EXCEPT !.coll = @ - returns[a].coll]
  <2>1. PICK A : A = [returns[a] EXCEPT !.coll = 0]
    OBVIOUS
  <2>2. A \in ReturnRec /\ A.coll = 0 /\ A.ws = returns[a].ws
    BY <1>1, <2>1 DEF ReturnRec
  <2>3. /\ returns' \in [CoAccount -> ReturnRec] /\ returns'[a] = A
        /\ \A b \in CoAccount : b # a => returns'[b] = returns[b]
    <3>1. returns' = [returns EXCEPT ![a] = A]
      BY <1>1, <1>2, <2>1
    <3>2. QED BY <1>1, <2>2, <3>1
  <2>4. /\ ReturnedColl \in Nat /\ ReturnedColl' \in Nat
        /\ ReturnedColl' + returns[a].coll = ReturnedColl + returns'[a].coll
    BY <1>1, <2>3, ReturnedCollMoves
  <2>5. /\ ReturnedWs \in Nat /\ ReturnedWs' \in Nat
        /\ ReturnedWs' + returns[a].ws = ReturnedWs + returns'[a].ws
    BY <1>1, <2>3, ReturnedWsMoves
  <2>6. PICK n \in Int : n = hub.coll - returns[a].coll
    BY <1>1
  <2>7. n = Shares + ReturnedColl' /\ n \in Nat
    BY <1>1, <2>2, <2>3, <2>4, <2>6
  <2>8. hub' = [hub EXCEPT !.coll = n]
    BY <1>1, <1>2, <2>6
  <2>9. hub' \in [coll : Nat, ws : Nat] /\ hub'.coll = n /\ hub'.ws = hub.ws
    BY <1>1, <2>7, <2>8
  <2>10. hub'.ws = ReturnedWs'
    BY <1>1, <2>2, <2>3, <2>5, <2>9
  <2>11. QED BY <1>1, <2>3, <2>7, <2>9, <2>10, OnlyReturns
<1>3. CASE returns' = [returns EXCEPT ![a].ws = 0] /\ hub' = [hub EXCEPT !.ws = @ - returns[a].ws]
  <2>1. PICK A : A = [returns[a] EXCEPT !.ws = 0]
    OBVIOUS
  <2>2. A \in ReturnRec /\ A.ws = 0 /\ A.coll = returns[a].coll
    BY <1>1, <2>1 DEF ReturnRec
  <2>3. /\ returns' \in [CoAccount -> ReturnRec] /\ returns'[a] = A
        /\ \A b \in CoAccount : b # a => returns'[b] = returns[b]
    <3>1. returns' = [returns EXCEPT ![a] = A]
      BY <1>1, <1>3, <2>1
    <3>2. QED BY <1>1, <2>2, <3>1
  <2>4. /\ ReturnedColl \in Nat /\ ReturnedColl' \in Nat
        /\ ReturnedColl' + returns[a].coll = ReturnedColl + returns'[a].coll
    BY <1>1, <2>3, ReturnedCollMoves
  <2>5. /\ ReturnedWs \in Nat /\ ReturnedWs' \in Nat
        /\ ReturnedWs' + returns[a].ws = ReturnedWs + returns'[a].ws
    BY <1>1, <2>3, ReturnedWsMoves
  <2>6. PICK n \in Int : n = hub.ws - returns[a].ws
    BY <1>1
  <2>7. n = ReturnedWs' /\ n \in Nat
    BY <1>1, <2>2, <2>3, <2>5, <2>6
  <2>8. hub' = [hub EXCEPT !.ws = n]
    BY <1>1, <1>3, <2>6
  <2>9. hub' \in [coll : Nat, ws : Nat] /\ hub'.ws = n /\ hub'.coll = hub.coll
    BY <1>1, <2>7, <2>8
  <2>10. hub'.coll = Shares + ReturnedColl'
    <3>1. ReturnedColl' = ReturnedColl
      BY <1>1, <2>2, <2>3, <2>4
    <3>2. QED BY <1>1, <2>9, <3>1
  <2>11. QED BY <1>1, <2>3, <2>7, <2>9, <2>10, OnlyReturns
<1>4. QED BY <1>2, <1>3 DEF WithdrawReturns
\* The positions S of the vault v are gone, the positions N are new, and the vault's
\* noted legs have followed.
LEMMA PositionsMove ==
  ASSUME CoLPInv, NEW v \in CoVault, NEW S \in SUBSET Live(v), NEW N \in SUBSET Positions,
         \A s \in N : meta[s].owner = NoOne,
         meta' \in [Positions -> MetaRec],
         \A s \in S : meta'[s] = NoPosition,
         \A s \in Positions : s \notin S /\ s \notin N => meta'[s] = meta[s],
         \A s \in N : meta'[s].owner = v /\ meta'[s].user \in CoUser,
         \A a \in CoAccount :
           held'[a] = (held[a] \ S) \cup {s \in N : meta'[s].owner = a \/ meta'[s].user = a},
         NEW W \in CoVaultRec, covault' = [covault EXCEPT ![v] = W], W.shares >= W.locked,
         W.deployedCollateral + CollateralLegs(S) = covault[v].deployedCollateral + (CollateralLegs(N))',
         W.deployedWsxmr + WsxmrLegs(S) >= covault[v].deployedWsxmr + (WsxmrLegs(N))',
         W.kick = "opened" \/ W.frozen => N = {} /\ S = Live(v)
  PROVE  /\ (\A q \in CoVault : LegsNoted(q))' /\ (\A u \in CoUser : UserHolds(u))'
         /\ (\A t \in Positions : meta[t].owner = NoOne <=> meta[t].user = NoOne)'
<1>1. /\ covault \in [CoVault -> CoVaultRec] /\ covault[v] \in CoVaultRec /\ LegsNoted(v)
      /\ CoLPTypes /\ meta \in [Positions -> MetaRec]
      /\ \A t \in Positions : meta[t].owner = NoOne <=> meta[t].user = NoOne
  BY DEF CoLPInv, CoLPTypes
<1>2. covault'[v] = W /\ \A q \in CoVault : q # v => covault'[q] = covault[q]
  BY <1>1
<1>3. /\ NoOne \notin CoVault /\ NoOne \notin CoUser /\ CoVault \cap CoUser = {}
      /\ CoVault \subseteq CoAccount /\ CoUser \subseteq CoAccount
  BY CoLPAssumption DEF CoAccount
<1>4. NoPosition.owner = NoOne /\ NoPosition.user = NoOne
  BY DEF NoPosition
<1>5. PICK L : L = Live(v)
  OBVIOUS
<1>6. L \in SUBSET Positions /\ S \subseteq L /\ \A t \in Positions : t \in L <=> meta[t].owner = v
  BY <1>5 DEF Live
<1>7. N \cap L = {}
  BY <1>3, <1>6
<1>8. (Live(v))' = (L \ S) \cup N
  <2>1. ASSUME NEW t \in Positions PROVE meta'[t].owner = v <=> t \in (L \ S) \cup N
    <3>1. CASE t \in S
      BY <1>3, <1>4, <1>6, <1>7, <3>1
    <3>2. CASE t \in N
      BY <3>2
    <3>3. CASE t \notin S /\ t \notin N
      BY <1>6, <3>3
    <3>4. QED BY <3>1, <3>2, <3>3
  <2>2. QED BY <1>6, <2>1 DEF Live
<1>9. IsFiniteSet(L) /\ IsFiniteSet((L \ S) \cup N) /\ IsFiniteSet(L \ S)
      /\ (L \ S) \cup N \in SUBSET Positions /\ L \ S \in SUBSET Positions
      /\ ((L \ S) \cup N) \ N = L \ S
  BY <1>6, <1>7, CoFinite
<1>10. \A s \in L \ S : meta'[s] = meta[s]
  BY <1>6, <1>7
<1>11. (CollateralLegs((L \ S) \cup N))' + CollateralLegs(S) = CollateralLegs(L) + (CollateralLegs(N))'
       /\ (CollateralLegs((L \ S) \cup N))' \in Nat /\ CollateralLegs(S) \in Nat
  <2>1. PICK f, g : f = [t \in Positions |-> meta[t].coll] /\ g = [t \in Positions |-> meta'[t].coll]
    OBVIOUS
  <2>2. \A t \in Positions : f[t] \in Nat /\ g[t] \in Nat /\ (t \in L \ S => f[t] = g[t])
    BY <1>1, <1>10, <2>1 DEF MetaRec
  <2>3. SumFunctionOnSet(f, L) = SumFunctionOnSet(f, S) + SumFunctionOnSet(f, L \ S)
    BY <1>6, <1>9, <2>2, SumSetSplit
  <2>4. PICK M : M = (L \ S) \cup N
    OBVIOUS
  <2>5. SumFunctionOnSet(g, M) = SumFunctionOnSet(g, N) + SumFunctionOnSet(g, M \ N)
    BY <1>9, <2>2, <2>4, SumSetSplit
  <2>6. SumFunctionOnSet(f, L \ S) = SumFunctionOnSet(g, L \ S)
    BY <1>9, <2>2, SumSetSame
  <2>7. SumFunctionOnSet(f, S) \in Nat /\ SumFunctionOnSet(g, N) \in Nat /\ SumFunctionOnSet(g, M \ N) \in Nat
    <3>1. IsFiniteSet(S) /\ IsFiniteSet(N) /\ IsFiniteSet(M \ N) /\ M \subseteq Positions
      BY <1>6, <1>9, <2>4, CoFinite
    <3>2. QED BY <1>6, <2>2, <3>1, SumSetNat
  <2>8. M \ N = L \ S
    BY <1>9, <2>4
  <2>9. /\ (CollateralLegs(M))' = SumFunctionOnSet(g, M) /\ (CollateralLegs(N))' = SumFunctionOnSet(g, N)
        /\ CollateralLegs(L) = SumFunctionOnSet(f, L) /\ CollateralLegs(S) = SumFunctionOnSet(f, S)
    BY <2>1 DEF CollateralLegs
  <2>10. PICK x \in Nat, y \in Nat, z \in Nat :
           /\ x = SumFunctionOnSet(f, S) /\ y = SumFunctionOnSet(g, N)
           /\ z = SumFunctionOnSet(g, M \ N)
    BY <2>7
  <2>11. /\ (CollateralLegs(M))' = y + z /\ (CollateralLegs(N))' = y
         /\ CollateralLegs(L) = x + z /\ CollateralLegs(S) = x
    BY <2>3, <2>5, <2>6, <2>8, <2>9, <2>10
  <2>12. (CollateralLegs((L \ S) \cup N))' = y + z
    BY <2>4, <2>11
  <2>13. QED BY <2>10, <2>11, <2>12
<1>12. (WsxmrLegs((L \ S) \cup N))' + WsxmrLegs(S) = WsxmrLegs(L) + (WsxmrLegs(N))'
       /\ (WsxmrLegs((L \ S) \cup N))' \in Nat /\ WsxmrLegs(S) \in Nat /\ (WsxmrLegs(N))' \in Nat
       /\ WsxmrLegs(L) \in Nat
  <2>1. PICK f, g : f = [t \in Positions |-> meta[t].ws] /\ g = [t \in Positions |-> meta'[t].ws]
    OBVIOUS
  <2>2. \A t \in Positions : f[t] \in Nat /\ g[t] \in Nat /\ (t \in L \ S => f[t] = g[t])
    BY <1>1, <1>10, <2>1 DEF MetaRec
  <2>3. SumFunctionOnSet(f, L) = SumFunctionOnSet(f, S) + SumFunctionOnSet(f, L \ S)
    BY <1>6, <1>9, <2>2, SumSetSplit
  <2>4. PICK M : M = (L \ S) \cup N
    OBVIOUS
  <2>5. SumFunctionOnSet(g, M) = SumFunctionOnSet(g, N) + SumFunctionOnSet(g, M \ N)
    BY <1>9, <2>2, <2>4, SumSetSplit
  <2>6. SumFunctionOnSet(f, L \ S) = SumFunctionOnSet(g, L \ S)
    BY <1>9, <2>2, SumSetSame
  <2>7. SumFunctionOnSet(f, S) \in Nat /\ SumFunctionOnSet(g, N) \in Nat /\ SumFunctionOnSet(g, M \ N) \in Nat
    <3>1. IsFiniteSet(S) /\ IsFiniteSet(N) /\ IsFiniteSet(M \ N) /\ M \subseteq Positions
      BY <1>6, <1>9, <2>4, CoFinite
    <3>2. QED BY <1>6, <2>2, <3>1, SumSetNat
  <2>8. M \ N = L \ S
    BY <1>9, <2>4
  <2>9. /\ (WsxmrLegs(M))' = SumFunctionOnSet(g, M) /\ (WsxmrLegs(N))' = SumFunctionOnSet(g, N)
        /\ WsxmrLegs(L) = SumFunctionOnSet(f, L) /\ WsxmrLegs(S) = SumFunctionOnSet(f, S)
    BY <2>1 DEF WsxmrLegs
  <2>10. PICK x \in Nat, y \in Nat, z \in Nat :
           /\ x = SumFunctionOnSet(f, S) /\ y = SumFunctionOnSet(g, N)
           /\ z = SumFunctionOnSet(g, M \ N)
    BY <2>7
  <2>11. /\ (WsxmrLegs(M))' = y + z /\ (WsxmrLegs(N))' = y
         /\ WsxmrLegs(L) = x + z /\ WsxmrLegs(S) = x
    BY <2>3, <2>5, <2>6, <2>8, <2>9, <2>10
  <2>12. (WsxmrLegs((L \ S) \cup N))' = y + z
    BY <2>4, <2>11
  <2>13. QED BY <2>10, <2>11, <2>12
<1>13. (LegsNoted(v))'
  <2>1. /\ held[v] = L /\ covault[v].deployedCollateral = CollateralLegs(L)
        /\ covault[v].deployedWsxmr >= WsxmrLegs(L) /\ covault[v].deployedWsxmr \in Nat
        /\ W.deployedCollateral \in Nat /\ W.deployedWsxmr \in Nat
    BY <1>1, <1>5 DEF LegsNoted, CoVaultRec
  <2>2. held'[v] = (L \ S) \cup N
    <3>1. held'[v] = (held[v] \ S) \cup {s \in N : meta'[s].owner = v \/ meta'[s].user = v}
      BY <1>3
    <3>2. QED BY <2>1, <3>1
  <2>3. W.deployedCollateral = (CollateralLegs((L \ S) \cup N))'
    BY <1>11, <2>1
  <2>4. W.deployedWsxmr >= (WsxmrLegs((L \ S) \cup N))'
    BY <1>12, <2>1
  <2>5. (CollateralLegs(Live(v)))' = (CollateralLegs((L \ S) \cup N))'
    BY <1>8 DEF CollateralLegs
  <2>6. (WsxmrLegs(Live(v)))' = (WsxmrLegs((L \ S) \cup N))'
    BY <1>8 DEF WsxmrLegs
  <2>7. W.kick = "opened" \/ W.frozen => (L \ S) \cup N = {}
    BY <1>5
  <2>8. QED BY <1>2, <1>8, <2>2, <2>3, <2>4, <2>5, <2>6, <2>7 DEF LegsNoted
<1>14. ASSUME NEW q \in CoVault, q # v PROVE (LegsNoted(q))'
  <2>1. LegsNoted(q) /\ covault'[q] = covault[q] /\ q \in CoAccount
    BY <1>2, <1>3, <1>14 DEF CoLPInv
  <2>2. \A t \in Live(q) : t \in Positions /\ t \notin S /\ t \notin N /\ meta'[t] = meta[t]
    <3>1. \A t \in Live(q) : t \in Positions /\ meta[t].owner = q
      BY DEF Live
    <3>2. \A t \in Live(q) : t \notin L /\ t \notin N
      BY <1>3, <1>6, <1>14, <3>1
    <3>3. QED BY <1>6, <3>1, <3>2
  <2>3. (Live(q))' = Live(q)
    <3>1. ASSUME NEW t \in Positions PROVE meta'[t].owner = q <=> meta[t].owner = q
      <4>1. CASE t \in S
        BY <1>3, <1>4, <1>6, <1>14, <4>1
      <4>2. CASE t \in N
        BY <1>3, <1>14, <4>2
      <4>3. CASE t \notin S /\ t \notin N
        BY <4>3
      <4>4. QED BY <4>1, <4>2, <4>3
    <3>2. QED BY <3>1 DEF Live
  <2>4. held'[q] = held[q]
    <3>1. held'[q] = (held[q] \ S) \cup {s \in N : meta'[s].owner = q \/ meta'[s].user = q}
      BY <2>1
    <3>2. {s \in N : meta'[s].owner = q \/ meta'[s].user = q} = {}
      BY <1>3, <1>14
    <3>3. held[q] = Live(q)
      BY <2>1 DEF LegsNoted
    <3>4. QED BY <2>2, <3>1, <3>2, <3>3
  <2>5. PICK K : K = Live(q)
    OBVIOUS
  <2>6. K \in SUBSET Positions /\ \A t \in K : meta'[t] = meta[t]
    BY <2>2, <2>5
  <2>7. (CollateralLegs(K))' = CollateralLegs(K) /\ (WsxmrLegs(K))' = WsxmrLegs(K)
    BY <2>6, LegsStay
  <2>8. (CollateralLegs(Live(q)))' = (CollateralLegs(K))' /\ (WsxmrLegs(Live(q)))' = (WsxmrLegs(K))'
    BY <2>3, <2>5 DEF CollateralLegs, WsxmrLegs
  <2>9. QED BY <2>1, <2>3, <2>4, <2>5, <2>7, <2>8 DEF LegsNoted
<1>15. ASSUME NEW u \in CoUser PROVE (UserHolds(u))'
  <2>1. held[u] = {t \in Positions : meta[t].user = u} /\ u \in CoAccount
    BY <1>3 DEF CoLPInv, UserHolds
  <2>2. held'[u] = (held[u] \ S) \cup {s \in N : meta'[s].owner = u \/ meta'[s].user = u}
    BY <2>1
  <2>3. \A s \in N : meta'[s].owner # u
    BY <1>3
  <2>4. ASSUME NEW t \in Positions PROVE t \in held'[u] <=> meta'[t].user = u
    <3>1. CASE t \in S
      <4>1. meta'[t].user = NoOne /\ t \notin N
        BY <1>4, <1>6, <1>7, <3>1
      <4>2. QED BY <1>3, <2>2, <3>1, <4>1
    <3>2. CASE t \in N
      <4>1. meta[t].user = NoOne /\ t \notin held[u]
        BY <1>1, <1>3, <2>1, <3>2
      <4>2. QED BY <2>2, <2>3, <3>2, <4>1
    <3>3. CASE t \notin S /\ t \notin N
      BY <2>1, <2>2, <3>3
    <3>4. QED BY <3>1, <3>2, <3>3
  <2>5. held'[u] \subseteq Positions
    BY <2>1, <2>2
  <2>6. QED BY <2>4, <2>5 DEF UserHolds
<1>16. (\A t \in Positions : meta[t].owner = NoOne <=> meta[t].user = NoOne)'
  <2>1. ASSUME NEW t \in Positions PROVE meta'[t].owner = NoOne <=> meta'[t].user = NoOne
    <3>1. CASE t \in S
      BY <1>4, <3>1
    <3>2. CASE t \in N
      BY <1>3, <3>2
    <3>3. CASE t \notin S /\ t \notin N
      BY <1>1, <3>3
    <3>4. QED BY <3>1, <3>2, <3>3
  <2>2. QED BY <2>1
<1>17. QED BY <1>13, <1>14, <1>15, <1>16

LEMMA CoLPInitInv ==
  ASSUME CoLPInit
  PROVE  CoLPInv
<1>1. /\ NoOne \notin CoAccount /\ IsFiniteSet(CoAccount) /\ IsFiniteSet(CoVault)
      /\ \A v \in CoVault : v # NoOne
      /\ CoVault \subseteq CoAccount
  BY CoLPAssumption, CoFinite DEF CoAccount
<1>2. PICK f \in BOOLEAN : f = FALSE
  OBVIOUS
<1>3. \A v \in CoVault :
        /\ covault[v] \in [shares : {2}, locked : {0, 1}, debt : {0}, deployedCollateral : {0},
                           deployedWsxmr : {0}, kick : {"none"}, frozen : {f}, reauctioned : {f}]
        /\ covault[v] \in CoVaultRec /\ covault[v].shares = 2 /\ covault[v].shares \in Nat
        /\ covault[v].locked \in {0, 1}
        /\ covault[v].deployedCollateral = 0 /\ covault[v].deployedWsxmr = 0
  <2>1. \A v \in CoVault :
          covault[v] \in [shares : {2}, locked : {0, 1}, debt : {0}, deployedCollateral : {0},
                          deployedWsxmr : {0}, kick : {"none"}, frozen : {f}, reauctioned : {f}]
    BY <1>2 DEF CoLPInit
  <2>2. QED BY <2>1 DEF CoVaultRec
<1>4. covault \in [CoVault -> CoVaultRec]
  <2>1. covault \in [CoVault -> [shares : {2}, locked : {0, 1}, debt : {0}, deployedCollateral : {0},
                              deployedWsxmr : {0}, kick : {"none"}, frozen : {FALSE},
                              reauctioned : {FALSE}]]
    BY DEF CoLPInit
  <2>2. QED BY <1>3, <2>1
<1>5. \A a \in CoAccount : held[a] = {} /\ returns[a].coll = 0 /\ returns[a].ws = 0
  BY DEF CoLPInit
<1>6. \A t \in Positions : meta[t] = NoPosition /\ meta[t].owner = NoOne /\ meta[t].user = NoOne
  BY DEF CoLPInit, NoPosition
<1>7. Shares \in Nat /\ hub = [coll |-> Shares, ws |-> 0]
  <2>1. \A v \in CoVault : [x \in CoVault |-> covault[x].shares][v] \in Nat
    BY <1>3
  <2>2. Shares \in Nat
    BY <1>1, <2>1, SumSetNat DEF Shares
  <2>3. Shares = SumFunction([v \in CoVault |-> covault[v].shares])
    BY DEF Shares, SumFunction
  <2>4. QED BY <2>2, <2>3 DEF CoLPInit
<1>8. ReturnedColl = 0 /\ ReturnedWs = 0
  <2>1. \A a \in CoAccount : /\ [x \in CoAccount |-> returns[x].coll][a] = 0
                             /\ [x \in CoAccount |-> returns[x].ws][a] = 0
    BY <1>5
  <2>2. QED BY <1>1, <2>1, SumSetZero DEF ReturnedColl, ReturnedWs
<1>9. CoLPTypes
  <2>1. meta \in [Positions -> MetaRec]
    BY DEF CoLPInit, NoPosition, MetaRec
  <2>2. pool \in [Positions -> PoolRec]
    <3>1. PICK r \in BOOLEAN : r = TRUE
      OBVIOUS
    <3>2. EmptyPool = [coll |-> 0, ws |-> 0, inRange |-> r]
      BY <3>1 DEF EmptyPool
    <3>3. EmptyPool \in PoolRec
      BY <3>2 DEF PoolRec
    <3>4. QED BY <3>3 DEF CoLPInit
  <2>3. held \in [CoAccount -> SUBSET Positions] /\ returns \in [CoAccount -> ReturnRec]
    BY DEF CoLPInit, ReturnRec
  <2>4. QED BY <1>4, <1>7, <2>1, <2>2, <2>3 DEF CoLPTypes
<1>10. ASSUME NEW v \in CoVault PROVE LegsNoted(v)
  <2>1. Live(v) = {}
    BY <1>1, <1>6 DEF Live
  <2>2. CollateralLegs(Live(v)) = 0 /\ WsxmrLegs(Live(v)) = 0
    BY <2>1, SumSetEmpty DEF CollateralLegs, WsxmrLegs
  <2>3. covault[v].shares >= covault[v].locked
    BY <1>3
  <2>4. QED BY <1>1, <1>3, <1>5, <2>1, <2>2, <2>3 DEF LegsNoted
<1>11. ASSUME NEW u \in CoUser PROVE UserHolds(u)
  BY <1>5, <1>6, CoLPAssumption DEF CoAccount, UserHolds
<1>12. QED BY <1>6, <1>7, <1>8, <1>9, <1>10, <1>11 DEF CoLPInv

LEMMA EmptyPoolRec == EmptyPool \in PoolRec /\ NoPosition \in MetaRec
<1>1. PICK r \in BOOLEAN : r = TRUE
  OBVIOUS
<1>2. EmptyPool = [coll |-> 0, ws |-> 0, inRange |-> r]
  BY <1>1 DEF EmptyPool
<1>3. QED BY <1>2 DEF PoolRec, NoPosition, MetaRec

\* What a drained position held in wsXMR goes to the returns of its user.
LEMMA DrainReturns ==
  ASSUME CoLPInv, NEW v \in CoVault, NEW S \in SUBSET Live(v), NEW paid, Drain(S, paid)
  PROVE  /\ returns' \in [CoAccount -> ReturnRec] /\ ReturnedColl' = ReturnedColl
         /\ ReturnedWs' = ReturnedWs + Wsxmr(S) /\ ReturnedWs' \in Nat
<1>1. /\ CoLPTypes /\ returns \in [CoAccount -> ReturnRec] /\ meta \in [Positions -> MetaRec]
      /\ pool \in [Positions -> PoolRec]
      /\ S \subseteq Positions /\ IsFiniteSet(S) /\ IsFiniteSet(CoAccount)
  BY CoFinite DEF CoLPInv, CoLPTypes, Live
<1>2. PICK g : g = [a \in CoAccount |-> Wsxmr({t \in S : meta[t].user = a})]
  OBVIOUS
<1>3. \A a \in CoAccount : g[a] \in Nat /\ g[a] = Wsxmr({t \in S : meta[t].user = a})
  <2>1. ASSUME NEW a \in CoAccount PROVE Wsxmr({t \in S : meta[t].user = a}) \in Nat
    <3>1. {t \in S : meta[t].user = a} \in SUBSET Positions
      BY <1>1
    <3>2. QED BY <1>1, <3>1, LegsNat
  <2>2. QED BY <1>2, <2>1
<1>4. \A a \in CoAccount :
        /\ returns'[a] \in ReturnRec /\ returns'[a].coll = returns[a].coll
        /\ returns'[a].ws = returns[a].ws + g[a]
  <2>1. SUFFICES ASSUME NEW a \in CoAccount
                 PROVE  /\ returns'[a] \in ReturnRec /\ returns'[a].coll = returns[a].coll
                        /\ returns'[a].ws = returns[a].ws + g[a]
    OBVIOUS
  <2>2. returns'[a] = [returns[a] EXCEPT !.ws = returns[a].ws + g[a]]
    BY <1>1, <1>3 DEF Drain, ReturnRec
  <2>3. returns[a] \in ReturnRec /\ g[a] \in Nat
    BY <1>1, <1>3
  <2>4. QED BY <2>2, <2>3 DEF ReturnRec
<1>5. returns' \in [CoAccount -> ReturnRec]
  BY <1>4 DEF Drain
<1>6. PICK p, q, r, s : /\ p = [a \in CoAccount |-> returns[a].coll]
                        /\ q = [a \in CoAccount |-> returns'[a].coll]
                        /\ r = [a \in CoAccount |-> returns[a].ws]
                        /\ s = [a \in CoAccount |-> returns'[a].ws]
  OBVIOUS
<1>7. \A a \in CoAccount : p[a] = q[a] /\ r[a] \in Nat /\ g[a] \in Nat /\ s[a] = r[a] + g[a]
  BY <1>1, <1>3, <1>4, <1>6 DEF ReturnRec
<1>8. SumFunctionOnSet(p, CoAccount) = SumFunctionOnSet(q, CoAccount)
  BY <1>1, <1>7, SumSetSame
<1>9. SumFunctionOnSet(s, CoAccount) = SumFunctionOnSet(r, CoAccount) + SumFunctionOnSet(g, CoAccount)
  BY <1>1, <1>7, SumSetPlus
<1>10. SumFunctionOnSet(g, CoAccount) = Wsxmr(S)
  <2>1. PICK f : f = [t \in Positions |-> pool[t].ws]
    OBVIOUS
  <2>2. PICK o : o = [t \in Positions |-> meta[t].user]
    OBVIOUS
  <2>3. \A t \in S : f[t] \in Nat
    BY <1>1, <2>1 DEF PoolRec
  <2>4. \A t \in S : o[t] \in CoAccount /\ o[t] = meta[t].user
    <3>1. \A t \in S : meta[t].owner = v /\ t \in Positions
      BY DEF Live
    <3>2. \A t \in S : meta[t].user # NoOne /\ meta[t].user \in CoUser \cup {NoOne}
      BY <1>1, <3>1, CoLPAssumption DEF CoLPInv, MetaRec, CoAccount
    <3>3. QED BY <1>1, <2>2, <3>2 DEF CoAccount
  <2>5. ASSUME NEW a \in CoAccount PROVE g[a] = SumFunctionOnSet(f, {t \in S : o[t] = a})
    <3>1. {t \in S : o[t] = a} = {t \in S : meta[t].user = a}
      BY <2>4
    <3>2. QED BY <1>3, <2>1, <3>1 DEF Wsxmr
  <2>6. SumFunctionOnSet(g, CoAccount) = SumFunctionOnSet(f, S)
    <3>1. PICK P : P = [a \in CoAccount |-> {x \in S : o[x] = a}]
      OBVIOUS
    <3>2. \A a \in CoAccount : P[a] = {x \in S : o[x] = a}
      BY <3>1
    <3>3. /\ \A a \in CoAccount : P[a] \subseteq S
          /\ \A a \in CoAccount : \A x \in S : x \in P[a] <=> o[x] = a
      BY <3>2
    <3>4. \A a \in CoAccount : g[a] = SumFunctionOnSet(f, P[a])
      <4>1. SUFFICES ASSUME NEW a \in CoAccount PROVE g[a] = SumFunctionOnSet(f, P[a])
        OBVIOUS
      <4>2. P[a] = {x \in S : o[x] = a}
        BY <3>2
      <4>3. QED BY <2>5, <4>2
    <3>5. \A x \in S : f[x] \in Nat /\ o[x] \in CoAccount
      BY <2>3, <2>4
    <3>6. IsFiniteSet(CoAccount) /\ IsFiniteSet(S)
      BY <1>1
    <3>7. QED BY <3>3, <3>4, <3>5, <3>6, SumSetByOwner
  <2>7. QED BY <2>1, <2>6 DEF Wsxmr
<1>11. /\ ReturnedColl = SumFunctionOnSet(p, CoAccount) /\ ReturnedColl' = SumFunctionOnSet(q, CoAccount)
       /\ ReturnedWs = SumFunctionOnSet(r, CoAccount) /\ ReturnedWs' = SumFunctionOnSet(s, CoAccount)
  BY <1>6 DEF ReturnedColl, ReturnedWs
<1>12. ReturnedWs \in Nat /\ Wsxmr(S) \in Nat
  BY <1>1, SumsNat, LegsNat
<1>13. ReturnedWs' = ReturnedWs + Wsxmr(S)
  BY <1>9, <1>10, <1>11
<1>14. ReturnedWs' \in Nat
  BY <1>12, <1>13
<1>15. QED BY <1>5, <1>8, <1>11, <1>13, <1>14

\* The positions S of the vault v are drained, and the vault is W.
LEMMA DrainInv ==
  ASSUME CoLPInv, NEW v \in CoVault, NEW S \in SUBSET Live(v), NEW paid \in Nat, Drain(S, paid),
         NEW W \in CoVaultRec, covault' = [covault EXCEPT ![v] = W], W.shares >= W.locked,
         W.shares + paid = covault[v].shares + Collateral(S),
         W.deployedCollateral + CollateralLegs(S) = covault[v].deployedCollateral,
         W.deployedWsxmr + WsxmrLegs(S) >= covault[v].deployedWsxmr,
         W.kick = "opened" \/ W.frozen => S = Live(v)
  PROVE  CoLPInv'
<1>1. /\ CoLPTypes /\ covault \in [CoVault -> CoVaultRec] /\ meta \in [Positions -> MetaRec]
      /\ pool \in [Positions -> PoolRec] /\ held \in [CoAccount -> SUBSET Positions]
      /\ hub \in [coll : Nat, ws : Nat] /\ hub.coll = Shares + ReturnedColl /\ hub.ws = ReturnedWs
      /\ S \in SUBSET Positions /\ covault[v] \in CoVaultRec
  BY DEF CoLPInv, CoLPTypes, Live
<1>2. /\ returns' \in [CoAccount -> ReturnRec] /\ ReturnedColl' = ReturnedColl
      /\ ReturnedWs' = ReturnedWs + Wsxmr(S) /\ ReturnedWs' \in Nat
  BY DrainReturns
<1>3. /\ covault' \in [CoVault -> CoVaultRec] /\ Shares \in Nat /\ Shares' \in Nat
      /\ Shares' + covault[v].shares = Shares + W.shares
  BY <1>1, SharesMove
<1>4. Collateral(S) \in Nat /\ Wsxmr(S) \in Nat /\ CollateralLegs(S) \in Nat /\ WsxmrLegs(S) \in Nat
      /\ ReturnedColl \in Nat
  BY <1>1, LegsNat, SumsNat
<1>5. PICK m \in Int, n \in Int : m = hub.coll + Collateral(S) - paid /\ n = hub.ws + Wsxmr(S)
  BY <1>1, <1>4
<1>6. m = Shares' + ReturnedColl' /\ m \in Nat /\ n = ReturnedWs' /\ n \in Nat
  <2>1. covault[v].shares \in Nat /\ W.shares \in Nat
    BY <1>1 DEF CoVaultRec
  <2>2. m = Shares' + ReturnedColl
    BY <1>1, <1>3, <1>4, <1>5, <2>1
  <2>3. m \in Nat
    <3>1. PICK x \in Nat, y \in Nat : x = Shares' /\ y = ReturnedColl
      BY <1>3, <1>4
    <3>2. m = x + y
      BY <2>2, <3>1
    <3>3. QED BY <3>2
  <2>4. QED BY <1>1, <1>2, <1>5, <2>2, <2>3
<1>7. hub' \in [coll : Nat, ws : Nat] /\ hub'.coll = m /\ hub'.ws = n
  <2>1. hub' = [hub EXCEPT !.coll = m, !.ws = n]
    BY <1>1, <1>5 DEF Drain
  <2>2. QED BY <1>1, <1>6, <2>1
<1>8. meta' \in [Positions -> MetaRec] /\ pool' \in [Positions -> PoolRec]
      /\ held' \in [CoAccount -> SUBSET Positions]
  BY <1>1, EmptyPoolRec DEF Drain
<1>9. CoLPTypes'
  BY <1>2, <1>3, <1>7, <1>8 DEF CoLPTypes
<1>10. PICK N \in SUBSET Positions : N = {}
  OBVIOUS
<1>11. (CollateralLegs(N))' = 0 /\ (WsxmrLegs(N))' = 0
  BY <1>10, SumSetEmpty DEF CollateralLegs, WsxmrLegs
<1>12. /\ \A s \in S : meta'[s] = NoPosition
       /\ \A s \in Positions : s \notin S /\ s \notin N => meta'[s] = meta[s]
       /\ \A a \in CoAccount :
            held'[a] = (held[a] \ S) \cup {s \in N : meta'[s].owner = a \/ meta'[s].user = a}
  BY <1>1, <1>10 DEF Drain
<1>13. /\ W.deployedCollateral + CollateralLegs(S) = covault[v].deployedCollateral + (CollateralLegs(N))'
       /\ W.deployedWsxmr + WsxmrLegs(S) >= covault[v].deployedWsxmr + (WsxmrLegs(N))'
  BY <1>1, <1>11 DEF CoVaultRec
<1>14. /\ (\A q \in CoVault : LegsNoted(q))' /\ (\A u \in CoUser : UserHolds(u))'
       /\ (\A t \in Positions : meta[t].owner = NoOne <=> meta[t].user = NoOne)'
  BY <1>8, <1>10, <1>12, <1>13, PositionsMove
<1>15. hub'.coll = Shares' + ReturnedColl' /\ hub'.ws = ReturnedWs'
  BY <1>6, <1>7
<1>16. QED BY <1>9, <1>14, <1>15 DEF CoLPInv

\* One position, and the positions of a vault.
LEMMA OnePosition ==
  ASSUME CoLPTypes, NEW t \in Positions
  PROVE  /\ Collateral({t}) = pool[t].coll /\ Wsxmr({t}) = pool[t].ws
         /\ CollateralLegs({t}) = meta[t].coll /\ WsxmrLegs({t}) = meta[t].ws
<1>1. PICK f, g, h, k : /\ f = [x \in Positions |-> pool[x].coll] /\ g = [x \in Positions |-> pool[x].ws]
                        /\ h = [x \in Positions |-> meta[x].coll] /\ k = [x \in Positions |-> meta[x].ws]
  OBVIOUS
<1>2. /\ f[t] \in Nat /\ f[t] = pool[t].coll /\ g[t] \in Nat /\ g[t] = pool[t].ws
      /\ h[t] \in Nat /\ h[t] = meta[t].coll /\ k[t] \in Nat /\ k[t] = meta[t].ws
  BY <1>1 DEF CoLPTypes, PoolRec, MetaRec
<1>3. /\ SumFunctionOnSet(f, {t}) = f[t] /\ SumFunctionOnSet(g, {t}) = g[t]
      /\ SumFunctionOnSet(h, {t}) = h[t] /\ SumFunctionOnSet(k, {t}) = k[t]
  BY <1>2, SumSetOne
<1>4. QED BY <1>1, <1>2, <1>3 DEF Collateral, Wsxmr, CollateralLegs, WsxmrLegs

LEMMA LegsBelow ==
  ASSUME CoLPInv, NEW v \in CoVault, NEW S \in SUBSET Live(v)
  PROVE  /\ CollateralLegs(S) \in Nat /\ WsxmrLegs(S) \in Nat /\ Collateral(S) \in Nat
         /\ CollateralLegs(S) <= covault[v].deployedCollateral
         /\ WsxmrLegs(S) <= covault[v].deployedWsxmr
<1>1. /\ CoLPTypes /\ meta \in [Positions -> MetaRec] /\ LegsNoted(v) /\ covault[v] \in CoVaultRec
      /\ S \in SUBSET Positions /\ Live(v) \in SUBSET Positions /\ IsFiniteSet(Live(v))
  BY CoFinite DEF CoLPInv, CoLPTypes, Live
<1>2. PICK f, g : /\ f = [x \in Positions |-> meta[x].coll] /\ g = [x \in Positions |-> meta[x].ws]
  OBVIOUS
<1>3. \A x \in Positions : f[x] \in Nat /\ g[x] \in Nat
  BY <1>1, <1>2 DEF MetaRec
<1>4. PICK L : L = Live(v)
  OBVIOUS
<1>5. /\ SumFunctionOnSet(f, L) = SumFunctionOnSet(f, S) + SumFunctionOnSet(f, L \ S)
      /\ SumFunctionOnSet(g, L) = SumFunctionOnSet(g, S) + SumFunctionOnSet(g, L \ S)
  <2>1. IsFiniteSet(L) /\ S \in SUBSET L /\ \A x \in L : f[x] \in Nat /\ g[x] \in Nat
    BY <1>1, <1>3, <1>4
  <2>2. QED BY <2>1, SumSetSplit
<1>6. SumFunctionOnSet(f, L \ S) \in Nat /\ SumFunctionOnSet(g, L \ S) \in Nat
  <2>1. IsFiniteSet(L \ S) /\ \A x \in L \ S : f[x] \in Nat /\ g[x] \in Nat
    BY <1>1, <1>3, <1>4, CoFinite
  <2>2. QED BY <2>1, SumSetNat
<1>7. /\ CollateralLegs(L) = SumFunctionOnSet(f, L) /\ CollateralLegs(S) = SumFunctionOnSet(f, S)
      /\ WsxmrLegs(L) = SumFunctionOnSet(g, L) /\ WsxmrLegs(S) = SumFunctionOnSet(g, S)
  BY <1>2 DEF CollateralLegs, WsxmrLegs
<1>8. /\ covault[v].deployedCollateral = CollateralLegs(L) /\ covault[v].deployedWsxmr >= WsxmrLegs(L)
      /\ covault[v].deployedCollateral \in Nat /\ covault[v].deployedWsxmr \in Nat
  BY <1>1, <1>4 DEF LegsNoted, CoVaultRec
<1>9. /\ CollateralLegs(S) \in Nat /\ WsxmrLegs(S) \in Nat /\ Collateral(S) \in Nat
  BY <1>1, LegsNat
<1>10. PICK a \in Nat, b \in Nat, x \in Nat, y \in Nat :
         /\ a = CollateralLegs(S) /\ b = WsxmrLegs(S)
         /\ x = SumFunctionOnSet(f, L \ S) /\ y = SumFunctionOnSet(g, L \ S)
  BY <1>6, <1>9
<1>11. CollateralLegs(L) = a + x /\ WsxmrLegs(L) = b + y
  BY <1>5, <1>7, <1>10
<1>12. QED BY <1>8, <1>9, <1>10, <1>11

\* The vault without the legs of its positions S.
LEMMA LegsGone ==
  ASSUME CoLPInv, NEW v \in CoVault, NEW S \in SUBSET Live(v)
  PROVE  LET V == WithoutLegs(covault[v], S) IN
         /\ V \in CoVaultRec /\ V.shares = covault[v].shares /\ V.locked = covault[v].locked
         /\ V.deployedCollateral + CollateralLegs(S) = covault[v].deployedCollateral
         /\ V.deployedWsxmr + WsxmrLegs(S) = covault[v].deployedWsxmr
         /\ V.kick = covault[v].kick /\ V.frozen = covault[v].frozen
<1>1. covault[v] \in CoVaultRec
  BY DEF CoLPInv, CoLPTypes
<1>2. PICK a \in Nat, b \in Nat : a = CollateralLegs(S) /\ b = WsxmrLegs(S)
  BY LegsBelow
<1>3. a <= covault[v].deployedCollateral /\ b <= covault[v].deployedWsxmr
  BY <1>2, LegsBelow
<1>4. PICK x \in Nat, y \in Nat : /\ x = FloorMinus(covault[v].deployedCollateral, a)
                                  /\ y = FloorMinus(covault[v].deployedWsxmr, b)
                                  /\ x + a = covault[v].deployedCollateral
                                  /\ y + b = covault[v].deployedWsxmr
  BY <1>1, <1>3 DEF FloorMinus, CoVaultRec
<1>5. WithoutLegs(covault[v], S) = [covault[v] EXCEPT !.deployedCollateral = x, !.deployedWsxmr = y]
  BY <1>1, <1>2, <1>4 DEF WithoutLegs, CoVaultRec
<1>6. QED BY <1>1, <1>2, <1>4, <1>5 DEF CoVaultRec

\* A live position, its vault and what its user gets.
LEMMA LivePosition ==
  ASSUME CoLPInv, NEW t \in Positions, meta[t].owner # NoOne
  PROVE  /\ meta[t].owner \in CoVault /\ meta[t].user \in CoUser
         /\ {t} \in SUBSET Live(meta[t].owner)
         /\ pool[t].coll \in Nat /\ pool[t].ws \in Nat /\ meta[t].coll \in Nat /\ meta[t].ws \in Nat
<1>1. /\ meta[t] \in MetaRec /\ pool[t] \in PoolRec /\ meta[t].user # NoOne
  BY DEF CoLPInv, CoLPTypes
<1>2. QED BY <1>1 DEF MetaRec, PoolRec, Live

\* The position t is closed, and fee of it is paid out.
LEMMA CloseInv ==
  ASSUME CoLPInv, NEW t \in Positions, NEW v \in CoVault, v = meta[t].owner, Unblocked(v),
         NEW fee \in Nat, fee <= pool[t].coll, Drain({t}, fee),
         covault' = [covault EXCEPT ![v] = [WithoutLegs(covault[v], {t})
                                              EXCEPT !.shares = @ + (pool[t].coll - fee)]]
  PROVE  CoLPInv'
<1>1. CoLPTypes /\ v # NoOne /\ LegsNoted(v)
  BY CoLPAssumption DEF CoLPInv, CoAccount
<1>2. {t} \in SUBSET Live(v) /\ pool[t].coll \in Nat
  BY <1>1, LivePosition
<1>3. PICK V : V = WithoutLegs(covault[v], {t})
  OBVIOUS
<1>4. /\ V \in CoVaultRec /\ V.shares = covault[v].shares /\ V.locked = covault[v].locked
      /\ V.deployedCollateral + CollateralLegs({t}) = covault[v].deployedCollateral
      /\ V.deployedWsxmr + WsxmrLegs({t}) = covault[v].deployedWsxmr
      /\ V.kick = covault[v].kick /\ V.frozen = covault[v].frozen
  BY <1>2, <1>3, LegsGone
<1>5. PICK n \in Nat : n = V.shares + (pool[t].coll - fee)
  <2>1. V.shares \in Nat
    BY <1>4 DEF CoVaultRec
  <2>2. V.shares + (pool[t].coll - fee) \in Nat
    BY <1>2, <2>1
  <2>3. QED BY <2>2
<1>6. PICK W : W = [V EXCEPT !.shares = n]
  OBVIOUS
<1>7. /\ W \in CoVaultRec /\ W.shares = n /\ W.locked = V.locked
      /\ W.deployedCollateral = V.deployedCollateral /\ W.deployedWsxmr = V.deployedWsxmr
      /\ W.kick = V.kick /\ W.frozen = V.frozen
  BY <1>4, <1>6 DEF CoVaultRec
<1>8. covault' = [covault EXCEPT ![v] = W]
  BY <1>3, <1>4, <1>5, <1>6 DEF CoVaultRec
<1>9. /\ covault[v].shares \in Nat /\ covault[v].locked \in Nat
      /\ covault[v].shares >= covault[v].locked /\ covault[v].deployedWsxmr \in Nat
  BY <1>1 DEF LegsNoted, CoLPTypes, CoVaultRec
<1>10. W.shares >= W.locked /\ W.shares + fee = covault[v].shares + Collateral({t})
  <2>1. Collateral({t}) = pool[t].coll
    BY <1>1, OnePosition
  <2>2. QED BY <1>2, <1>4, <1>5, <1>7, <1>9, <2>1
<1>11. /\ W.deployedCollateral + CollateralLegs({t}) = covault[v].deployedCollateral
       /\ W.deployedWsxmr + WsxmrLegs({t}) >= covault[v].deployedWsxmr
  BY <1>4, <1>7, <1>9
<1>12. W.kick = "opened" \/ W.frozen => {t} = Live(v)
  BY <1>4, <1>7 DEF Unblocked
<1>13. QED BY <1>2, <1>7, <1>8, <1>10, <1>11, <1>12, DrainInv

LEMMA UnwindCoInv ==
  ASSUME CoLPInv, NEW t \in Positions, UnwindCoLP(t)
  PROVE  CoLPInv'
<1>1. PICK v : v = meta[t].owner
  OBVIOUS
<1>2. /\ v # NoOne /\ Unblocked(v) /\ Drain({t}, 0)
      /\ covault' = [covault EXCEPT ![v] = [WithoutLegs(covault[v], {t}) EXCEPT !.shares = @ + pool[t].coll]]
  BY <1>1 DEF UnwindCoLP
<1>3. v \in CoVault /\ pool[t].coll \in Nat
  BY <1>1, <1>2, LivePosition
<1>4. PICK fee \in Nat : fee = 0
  OBVIOUS
<1>5. pool[t].coll - fee = pool[t].coll /\ fee <= pool[t].coll
  BY <1>3, <1>4
<1>6. covault' = [covault EXCEPT ![v] = [WithoutLegs(covault[v], {t})
                                           EXCEPT !.shares = @ + (pool[t].coll - fee)]]
  BY <1>2, <1>5
<1>7. QED BY <1>1, <1>2, <1>3, <1>4, <1>5, <1>6, CloseInv

LEMMA KeeperFeeNat ==
  ASSUME CoLPInv, NEW t \in Positions, NEW caller, meta[t].owner # NoOne
  PROVE  KeeperFee(t, caller) \in Nat /\ KeeperFee(t, caller) <= pool[t].coll
<1>1. pool[t].coll \in Nat /\ KeeperShare \in Nat \ {0}
  BY LivePosition, CoLPAssumption
<1>2. \A c \in Nat, k \in Nat \ {0} : c \div k \in Nat /\ c \div k <= c
  OBVIOUS
<1>3. QED BY <1>1, <1>2 DEF KeeperFee

LEMMA RebalanceClosesInv ==
  ASSUME CoLPInv, NEW t \in Positions, NEW caller, RebalanceCloses(t, caller)
  PROVE  CoLPInv'
<1>1. PICK v, fee : v = meta[t].owner /\ fee = KeeperFee(t, caller)
  OBVIOUS
<1>2. /\ v # NoOne /\ Unblocked(v) /\ Drain({t}, fee)
      /\ covault' = [covault EXCEPT ![v] = [WithoutLegs(covault[v], {t})
                                              EXCEPT !.shares = @ + (pool[t].coll - fee)]]
  BY <1>1 DEF RebalanceCloses, MayRebalance
<1>3. v \in CoVault /\ fee \in Nat /\ fee <= pool[t].coll
  BY <1>1, <1>2, LivePosition, KeeperFeeNat
<1>4. QED BY <1>1, <1>2, <1>3, CloseInv

\* A vault whose auction opens, or has opened, has all its positions unwound.
LEMMA OpenedVault ==
  ASSUME CoLPInv, NEW v \in CoVault, covault[v].frozen \/ covault[v].kick \in {"late", "opened"}
  PROVE  LET V == OpenedCoVault(v)
             S == Live(v) IN
         /\ ToUnwind(v) = S /\ V \in CoVaultRec /\ V.shares = covault[v].shares + Collateral(S)
         /\ V.locked = covault[v].locked /\ V.shares >= V.locked
         /\ V.deployedCollateral + CollateralLegs(S) = covault[v].deployedCollateral
         /\ V.deployedCollateral = 0 /\ V.deployedWsxmr = covault[v].deployedWsxmr
         /\ WsxmrLegs(S) \in Nat /\ covault[v].deployedWsxmr \in Nat /\ Collateral(S) \in Nat
         /\ V.frozen = covault[v].frozen /\ V.kick = covault[v].kick
<1>1. LegsNoted(v) /\ covault[v] \in CoVaultRec
  BY DEF CoLPInv, CoLPTypes
<1>2. PICK S \in SUBSET Live(v) : S = Live(v)
  OBVIOUS
<1>3. ToUnwind(v) = S
  <2>1. CASE covault[v].kick = "late"
    BY <1>1, <1>2, <2>1 DEF ToUnwind, LegsNoted
  <2>2. CASE covault[v].kick # "late"
    BY <1>1, <1>2, <2>2 DEF ToUnwind, LegsNoted
  <2>3. QED BY <2>1, <2>2
<1>4. PICK a \in Nat, b \in Nat, c \in Nat :
        a = CollateralLegs(S) /\ b = WsxmrLegs(S) /\ c = Collateral(S)
  BY LegsBelow
<1>5. a = covault[v].deployedCollateral
  BY <1>1, <1>2, <1>4 DEF LegsNoted
<1>6. PICK n \in Nat : n = covault[v].shares + c
  BY <1>1 DEF CoVaultRec
<1>7. FloorMinus(covault[v].deployedCollateral, a) = 0
  BY <1>5 DEF FloorMinus
<1>8. OpenedCoVault(v) = [covault[v] EXCEPT !.shares = n, !.deployedCollateral = 0]
  BY <1>1, <1>3, <1>4, <1>6, <1>7 DEF OpenedCoVault, CoVaultRec
<1>9. PICK V : V = OpenedCoVault(v)
  OBVIOUS
<1>10. /\ V \in CoVaultRec /\ V.shares = n /\ V.locked = covault[v].locked
       /\ V.deployedCollateral = 0 /\ V.deployedWsxmr = covault[v].deployedWsxmr
       /\ V.frozen = covault[v].frozen /\ V.kick = covault[v].kick
  <2>1. PICK z \in Nat : z = 0
    OBVIOUS
  <2>2. V = [covault[v] EXCEPT !.shares = n, !.deployedCollateral = z]
    BY <1>8, <1>9, <2>1
  <2>3. /\ V \in CoVaultRec /\ V.shares = n /\ V.locked = covault[v].locked
        /\ V.deployedCollateral = z /\ V.deployedWsxmr = covault[v].deployedWsxmr
        /\ V.frozen = covault[v].frozen /\ V.kick = covault[v].kick
    BY <1>1, <2>2 DEF CoVaultRec
  <2>4. QED BY <2>1, <2>3
<1>11. /\ n >= covault[v].locked /\ 0 + a = covault[v].deployedCollateral
       /\ covault[v].deployedWsxmr \in Nat
  BY <1>1, <1>4, <1>5, <1>6 DEF LegsNoted, CoVaultRec
<1>12. QED BY <1>2, <1>3, <1>4, <1>6, <1>9, <1>10, <1>11

\* The auction of v unwinds what there is, and the vault is W.
LEMMA AuctionInv ==
  ASSUME CoLPInv, NEW v \in CoVault, covault[v].frozen \/ covault[v].kick \in {"late", "opened"},
         NEW paid \in Nat, Drain(ToUnwind(v), paid),
         NEW W \in CoVaultRec, covault' = [covault EXCEPT ![v] = W], W.shares >= W.locked,
         W.shares + paid = OpenedCoVault(v).shares, W.deployedCollateral = 0,
         W.deployedWsxmr = OpenedCoVault(v).deployedWsxmr
  PROVE  CoLPInv'
<1>1. PICK S \in SUBSET Live(v) : S = Live(v)
  OBVIOUS
<1>2. PICK V : V = OpenedCoVault(v)
  OBVIOUS
<1>3. /\ ToUnwind(v) = S /\ V \in CoVaultRec /\ V.shares = covault[v].shares + Collateral(S)
      /\ V.deployedCollateral + CollateralLegs(S) = covault[v].deployedCollateral
      /\ V.deployedCollateral = 0 /\ V.deployedWsxmr = covault[v].deployedWsxmr
      /\ WsxmrLegs(S) \in Nat /\ covault[v].deployedWsxmr \in Nat
  BY <1>1, <1>2, OpenedVault
<1>4. /\ W.shares + paid = covault[v].shares + Collateral(S)
      /\ W.deployedCollateral + CollateralLegs(S) = covault[v].deployedCollateral
      /\ W.deployedWsxmr + WsxmrLegs(S) >= covault[v].deployedWsxmr
  BY <1>2, <1>3
<1>5. Drain(S, paid)
  BY <1>3
<1>6. W.kick = "opened" \/ W.frozen => S = Live(v)
  BY <1>1
<1>7. QED BY <1>4, <1>5, <1>6, DrainInv

LEMMA OpenAuctionInv ==
  ASSUME CoLPInv, NEW v \in CoVault, OpenAuction(v)
  PROVE  CoLPInv'
<1>1. covault[v].kick \in {"late", "opened"} /\ Drain(ToUnwind(v), 0)
  BY DEF OpenAuction
<1>2. PICK V : V = OpenedCoVault(v)
  OBVIOUS
<1>3. /\ V \in CoVaultRec /\ V.shares >= V.locked /\ V.deployedCollateral = 0
  BY <1>1, <1>2, OpenedVault
<1>4. PICK W : W = [V EXCEPT !.kick = "opened"]
  OBVIOUS
<1>5. covault' = [covault EXCEPT ![v] = W]
  BY <1>2, <1>4 DEF OpenAuction
<1>6. /\ W \in CoVaultRec /\ W.shares = V.shares /\ W.locked = V.locked
      /\ W.deployedCollateral = V.deployedCollateral /\ W.deployedWsxmr = V.deployedWsxmr
  BY <1>3, <1>4 DEF CoVaultRec
<1>7. PICK paid \in Nat : paid = 0
  OBVIOUS
<1>8. W.shares + paid = V.shares /\ W.shares >= W.locked
  BY <1>3, <1>6, <1>7 DEF CoVaultRec
<1>9. QED BY <1>1, <1>2, <1>3, <1>5, <1>6, <1>7, <1>8, AuctionInv

LEMMA BidInv ==
  ASSUME CoLPInv, NEW v \in CoVault, NEW taken \in Nat, Bid(v, taken)
  PROVE  CoLPInv'
<1>1. covault[v].kick \in {"late", "opened"} /\ Drain(ToUnwind(v), taken)
  BY DEF Bid
<1>2. PICK V : V = OpenedCoVault(v)
  OBVIOUS
<1>3. /\ V \in CoVaultRec /\ V.shares >= V.locked /\ V.deployedCollateral = 0
  BY <1>1, <1>2, OpenedVault
<1>4. taken <= Free(V)
  BY <1>2 DEF Bid
<1>5. PICK n \in Nat : n = V.shares - taken /\ n >= V.locked
  BY <1>3, <1>4 DEF Free, FloorMinus, CoVaultRec
<1>6. PICK W : W = [V EXCEPT !.shares = n, !.debt = 0, !.kick = "none"]
  OBVIOUS
<1>7. covault' = [covault EXCEPT ![v] = W]
  BY <1>2, <1>3, <1>5, <1>6 DEF Bid, CoVaultRec
<1>8. /\ W \in CoVaultRec /\ W.shares = n /\ W.locked = V.locked
      /\ W.deployedCollateral = V.deployedCollateral /\ W.deployedWsxmr = V.deployedWsxmr
  BY <1>3, <1>6 DEF CoVaultRec
<1>9. W.shares + taken = V.shares /\ W.shares >= W.locked
  BY <1>3, <1>5, <1>8 DEF CoVaultRec
<1>10. QED BY <1>1, <1>2, <1>3, <1>7, <1>8, <1>9, AuctionInv

LEMMA ResolveCoInv ==
  ASSUME CoLPInv, NEW v \in CoVault, ResolveKick(v)
  PROVE  CoLPInv'
<1>1. covault[v].kick \in {"late", "opened"} /\ Drain(ToUnwind(v), 0)
  BY DEF ResolveKick
<1>2. PICK V : V = OpenedCoVault(v)
  OBVIOUS
<1>3. /\ V \in CoVaultRec /\ V.shares >= V.locked /\ V.deployedCollateral = 0
  BY <1>1, <1>2, OpenedVault
<1>4. PICK y \in BOOLEAN : y = TRUE
  OBVIOUS
<1>5. PICK W : W = [V EXCEPT !.kick = "none", !.frozen = y]
  OBVIOUS
<1>6. covault' = [covault EXCEPT ![v] = W]
  BY <1>2, <1>4, <1>5 DEF ResolveKick
<1>7. /\ W \in CoVaultRec /\ W.shares = V.shares /\ W.locked = V.locked
      /\ W.deployedCollateral = V.deployedCollateral /\ W.deployedWsxmr = V.deployedWsxmr
  BY <1>3, <1>5 DEF CoVaultRec
<1>8. PICK paid \in Nat : paid = 0
  OBVIOUS
<1>9. W.shares + paid = V.shares /\ W.shares >= W.locked
  BY <1>3, <1>7, <1>8 DEF CoVaultRec
<1>10. QED BY <1>1, <1>2, <1>3, <1>6, <1>7, <1>8, <1>9, AuctionInv

LEMMA BackstopCoInv ==
  ASSUME CoLPInv, NEW v \in CoVault, BackstopVault(v)
  PROVE  CoLPInv'
<1>1. PICK V : V = OpenedCoVault(v)
  OBVIOUS
<1>2. covault[v].frozen \/ covault[v].kick \in {"late", "opened"}
  <2>1. covault[v] \in CoVaultRec
    BY DEF CoLPInv, CoLPTypes
  <2>2. V.frozen = covault[v].frozen /\ V.kick = covault[v].kick
    BY <1>1, <2>1 DEF OpenedCoVault, CoVaultRec
  <2>3. V.frozen \/ V.kick \in {"late", "opened"}
    BY <1>1 DEF BackstopVault
  <2>4. QED BY <2>2, <2>3
<1>3. /\ V \in CoVaultRec /\ V.shares >= V.locked /\ V.deployedCollateral = 0
  BY <1>1, <1>2, OpenedVault
<1>4. PICK f \in BOOLEAN : f = FALSE
  OBVIOUS
<1>5. PICK W : W = [V EXCEPT !.debt = 0, !.shares = 0, !.locked = 0, !.deployedCollateral = 0,
                             !.kick = "none", !.frozen = f]
  OBVIOUS
<1>6. covault' = [covault EXCEPT ![v] = W] /\ Drain(ToUnwind(v), V.shares)
  BY <1>1, <1>4, <1>5 DEF BackstopVault
<1>7. /\ W \in CoVaultRec /\ W.shares = 0 /\ W.locked = 0
      /\ W.deployedCollateral = 0 /\ W.deployedWsxmr = V.deployedWsxmr
  BY <1>3, <1>5 DEF CoVaultRec
<1>8. V.shares \in Nat /\ W.shares + V.shares = V.shares /\ W.shares >= W.locked
  BY <1>3, <1>7 DEF CoVaultRec
<1>9. QED BY <1>1, <1>2, <1>6, <1>7, <1>8, AuctionInv

\* A new position n of v and u with the legs l1 and l2, in the place of those in S.
Replaces(v, u, S, n, l1, l2, k, m, W) ==
  /\ meta[n].owner = NoOne
  /\ meta' \in [Positions -> MetaRec] /\ \A s \in S : meta'[s] = NoPosition
  /\ \A s \in Positions : s \notin S /\ s # n => meta'[s] = meta[s]
  /\ meta'[n] = [owner |-> v, user |-> u, coll |-> l1, ws |-> l2]
  /\ pool' \in [Positions -> PoolRec] /\ held' \in [CoAccount -> SUBSET Positions]
  /\ \A a \in CoAccount : a = v \/ a = u => held'[a] = (held[a] \ S) \cup {n}
  /\ \A a \in CoAccount : a # v /\ a # u => held'[a] = held[a] \ S
  /\ returns' = [returns EXCEPT ![u].ws = @ + k]
  /\ hub' = [hub EXCEPT !.coll = m, !.ws = hub.ws + k]
  /\ covault' = [covault EXCEPT ![v] = W] /\ W.shares >= W.locked
  /\ m + covault[v].shares = hub.coll + W.shares
  /\ W.deployedCollateral + CollateralLegs(S) = covault[v].deployedCollateral + l1
  /\ W.deployedWsxmr + WsxmrLegs(S) >= covault[v].deployedWsxmr + l2
  /\ W.kick # "opened" /\ ~W.frozen

LEMMA OpensInv ==
  ASSUME CoLPInv, NEW v \in CoVault, NEW u \in CoUser, NEW S \in SUBSET Live(v),
         NEW n \in Positions, NEW l1 \in Nat, NEW l2 \in Nat, NEW k \in Nat,
         NEW m \in Int, NEW W \in CoVaultRec, Replaces(v, u, S, n, l1, l2, k, m, W)
  PROVE  CoLPInv'
<1> USE DEF Replaces
<1>1. /\ CoLPTypes /\ covault \in [CoVault -> CoVaultRec] /\ meta \in [Positions -> MetaRec]
      /\ returns \in [CoAccount -> ReturnRec] /\ covault[v] \in CoVaultRec
      /\ hub \in [coll : Nat, ws : Nat] /\ hub.coll = Shares + ReturnedColl /\ hub.ws = ReturnedWs
  BY DEF CoLPInv, CoLPTypes
<1>2. u \in CoAccount /\ v \in CoAccount /\ u # v /\ u # NoOne /\ v # NoOne
  BY CoLPAssumption DEF CoAccount
<1>3. PICK B : B = [returns[u] EXCEPT !.ws = returns[u].ws + k]
  OBVIOUS
<1>4. B \in ReturnRec /\ B.coll = returns[u].coll /\ B.ws = returns[u].ws + k /\ returns[u].ws \in Nat
  BY <1>1, <1>2, <1>3 DEF ReturnRec
<1>5. /\ returns' \in [CoAccount -> ReturnRec] /\ returns'[u] = B
      /\ \A b \in CoAccount : b # u => returns'[b] = returns[b]
  <2>1. returns' = [returns EXCEPT ![u] = B]
    BY <1>1, <1>2, <1>3
  <2>2. QED BY <1>1, <1>2, <1>4, <2>1
<1>6. /\ ReturnedColl \in Nat /\ ReturnedColl' \in Nat /\ ReturnedColl' = ReturnedColl
  <2>1. \A b \in CoAccount : b # u => returns'[b].coll = returns[b].coll
    BY <1>5
  <2>2. /\ ReturnedColl \in Nat /\ ReturnedColl' \in Nat
        /\ ReturnedColl' + returns[u].coll = ReturnedColl + returns'[u].coll
    BY <1>1, <1>2, <1>5, <2>1, ReturnedCollMoves
  <2>3. returns'[u].coll = returns[u].coll /\ returns[u].coll \in Nat
    BY <1>1, <1>2, <1>4, <1>5 DEF ReturnRec
  <2>4. QED BY <2>2, <2>3
<1>7. /\ ReturnedWs \in Nat /\ ReturnedWs' \in Nat /\ ReturnedWs' = ReturnedWs + k
  <2>1. \A b \in CoAccount : b # u => returns'[b].ws = returns[b].ws
    BY <1>5
  <2>2. /\ ReturnedWs \in Nat /\ ReturnedWs' \in Nat
        /\ ReturnedWs' + returns[u].ws = ReturnedWs + returns'[u].ws
    BY <1>1, <1>2, <1>5, <2>1, ReturnedWsMoves
  <2>3. returns'[u].ws = returns[u].ws + k
    BY <1>4, <1>5
  <2>4. QED BY <1>4, <2>2, <2>3
<1>8. /\ covault' \in [CoVault -> CoVaultRec] /\ Shares \in Nat /\ Shares' \in Nat
      /\ Shares' + covault[v].shares = Shares + W.shares
  BY <1>1, SharesMove
<1>9. m = Shares' + ReturnedColl' /\ m \in Nat
  <2>1. covault[v].shares \in Nat /\ W.shares \in Nat
    BY <1>1 DEF CoVaultRec
  <2>2. PICK x \in Nat, y \in Nat, z \in Nat : x = Shares' /\ y = ReturnedColl /\ z = Shares
    BY <1>6, <1>8
  <2>3. m = x + y
    <3>1. x + covault[v].shares = z + W.shares
      BY <1>8, <2>2
    <3>2. hub.coll = z + y
      BY <1>1, <2>2
    <3>3. QED BY <2>1, <3>1, <3>2
  <2>4. QED BY <1>6, <2>2, <2>3
<1>10. PICK w \in Nat : w = hub.ws + k
  BY <1>1
<1>11. hub' \in [coll : Nat, ws : Nat] /\ hub'.coll = m /\ hub'.ws = w /\ w = ReturnedWs'
  <2>1. hub' = [hub EXCEPT !.coll = m, !.ws = w]
    BY <1>10
  <2>2. w = ReturnedWs'
    BY <1>1, <1>7, <1>10
  <2>3. QED BY <1>1, <1>9, <1>10, <2>1, <2>2
<1>12. CoLPTypes'
  BY <1>5, <1>8, <1>11 DEF CoLPTypes
<1>13. PICK N \in SUBSET Positions : N = {n}
  OBVIOUS
<1>14. /\ \A s \in N : meta[s].owner = NoOne
       /\ \A s \in Positions : s \notin S /\ s \notin N => meta'[s] = meta[s]
       /\ \A s \in N : meta'[s].owner = v /\ meta'[s].user \in CoUser
       /\ \A a \in CoAccount :
            held'[a] = (held[a] \ S) \cup {s \in N : meta'[s].owner = a \/ meta'[s].user = a}
  <2>1. meta'[n].owner = v /\ meta'[n].user = u /\ \A s \in N : s = n
    BY <1>13
  <2>2. /\ \A a \in CoAccount : a = v \/ a = u => {s \in N : meta'[s].owner = a \/ meta'[s].user = a} = {n}
        /\ \A a \in CoAccount : a # v /\ a # u => {s \in N : meta'[s].owner = a \/ meta'[s].user = a} = {}
    BY <1>13, <2>1
  <2>3. QED BY <1>13, <2>1, <2>2
<1>15. (CollateralLegs(N))' = l1 /\ (WsxmrLegs(N))' = l2
  <2>1. PICK f, g : f = [x \in Positions |-> meta'[x].coll] /\ g = [x \in Positions |-> meta'[x].ws]
    OBVIOUS
  <2>2. f[n] = l1 /\ g[n] = l2
    BY <2>1
  <2>3. SumFunctionOnSet(f, {n}) = l1 /\ SumFunctionOnSet(g, {n}) = l2
    BY <2>2, SumSetOne
  <2>4. (CollateralLegs(N))' = SumFunctionOnSet(f, N) /\ (WsxmrLegs(N))' = SumFunctionOnSet(g, N)
    BY <2>1 DEF CollateralLegs, WsxmrLegs
  <2>5. QED BY <1>13, <2>3, <2>4
<1>16. /\ W.deployedCollateral + CollateralLegs(S) = covault[v].deployedCollateral + (CollateralLegs(N))'
       /\ W.deployedWsxmr + WsxmrLegs(S) >= covault[v].deployedWsxmr + (WsxmrLegs(N))'
       /\ (W.kick = "opened" \/ W.frozen => N = {} /\ S = Live(v))
  BY <1>15
<1>17. /\ (\A q \in CoVault : LegsNoted(q))' /\ (\A x \in CoUser : UserHolds(x))'
       /\ (\A t \in Positions : meta[t].owner = NoOne <=> meta[t].user = NoOne)'
  BY <1>14, <1>16, PositionsMove
<1>18. hub'.coll = Shares' + ReturnedColl' /\ hub'.ws = ReturnedWs'
  BY <1>9, <1>11
<1>19. QED BY <1>12, <1>17, <1>18 DEF CoLPInv

LEMMA ConsumedLegs ==
  ASSUME NEW c \in Nat, NEW w \in Nat, NEW legs \in Consumed(c, w)
  PROVE  legs[1] \in Nat /\ legs[2] \in Nat /\ legs[1] <= c /\ legs[2] <= w
BY DEF Consumed

LEMMA FreshIsFree ==
  ASSUME NEW t \in FreshIds
  PROVE  t \in Positions /\ meta[t].owner = NoOne
<1>1. PICK unused : unused = {s \in Positions : meta[s].owner = NoOne}
  OBVIOUS
<1>2. unused # {} /\ t = CHOOSE s \in unused : TRUE
  BY <1>1 DEF FreshIds
<1>3. (CHOOSE s \in unused : TRUE) \in unused
  BY <1>2
<1>4. QED BY <1>1, <1>2, <1>3

LEMMA UserOpenInv ==
  ASSUME CoLPInv, NEW u \in CoUser, NEW v \in CoVault, NEW t \in Positions,
         NEW c \in Nat, NEW w \in Nat, UserOpenCoLP(u, v, t, c, w)
  PROVE  CoLPInv'
<1>1. /\ covault \in [CoVault -> CoVaultRec] /\ covault[v] \in CoVaultRec
      /\ meta \in [Positions -> MetaRec] /\ pool \in [Positions -> PoolRec]
      /\ held \in [CoAccount -> SUBSET Positions] /\ hub \in [coll : Nat, ws : Nat]
      /\ LegsNoted(v) /\ u \in CoAccount /\ v \in CoAccount /\ u # v /\ Unblocked(v)
  BY CoLPAssumption DEF CoLPInv, CoLPTypes, CoAccount, UserOpenCoLP
<1>2. meta[t].owner = NoOne
  BY FreshIsFree DEF UserOpenCoLP
<1>3. PICK legs \in Consumed(c, w) :
        LET V == covault[v]
            X == [V EXCEPT !.shares = @ - c + (c - legs[1]),
                           !.deployedCollateral = @ + legs[1],
                           !.deployedWsxmr = @ + legs[2]] IN
        /\ covault' = [covault EXCEPT ![v] = X]
        /\ Opens(t, v, u, legs)
        /\ returns' = [returns EXCEPT ![u].ws = @ + (w - legs[2])]
        /\ hub' = [hub EXCEPT !.coll = @ - legs[1], !.ws = @ + (w - legs[2])]
        /\ held' = [held EXCEPT ![v] = @ \cup {t}, ![u] = @ \cup {t}]
  BY DEF UserOpenCoLP
<1>4. PICK l1 \in Nat, l2 \in Nat : l1 = legs[1] /\ l2 = legs[2] /\ l1 <= c /\ l2 <= w
  BY ConsumedLegs
<1>5. PICK k \in Nat : k = w - l2
  BY <1>4
<1>6. c <= covault[v].shares - covault[v].locked
  <2>1. IdleCollateral(covault[v]) >= c /\ covault[v].shares >= covault[v].locked
    BY <1>1 DEF UserOpenCoLP, LegsNoted
  <2>2. QED BY <1>1, <2>1 DEF IdleCollateral, Free, FloorMinus, CoVaultRec
<1>7. PICK x \in Nat, y \in Nat, z \in Nat :
        /\ x = covault[v].shares - c + (c - l1)
        /\ y = covault[v].deployedCollateral + l1 /\ z = covault[v].deployedWsxmr + l2
        /\ x >= covault[v].locked /\ x + l1 = covault[v].shares
  <2>1. /\ covault[v].shares \in Nat /\ covault[v].locked \in Nat
        /\ covault[v].deployedCollateral \in Nat /\ covault[v].deployedWsxmr \in Nat
    BY <1>1 DEF CoVaultRec
  <2>2. covault[v].shares - c + (c - l1) \in Nat
    BY <1>4, <1>6, <2>1
  <2>3. QED BY <1>4, <1>6, <2>1, <2>2
<1>8. PICK W : W = [covault[v] EXCEPT !.shares = x, !.deployedCollateral = y, !.deployedWsxmr = z]
  OBVIOUS
<1>9. /\ W \in CoVaultRec /\ W.shares = x /\ W.locked = covault[v].locked
      /\ W.deployedCollateral = y /\ W.deployedWsxmr = z
      /\ W.kick = covault[v].kick /\ W.frozen = covault[v].frozen
  BY <1>1, <1>8 DEF CoVaultRec
<1>10. covault' = [covault EXCEPT ![v] = W]
  BY <1>1, <1>3, <1>4, <1>7, <1>8 DEF CoVaultRec
<1>11. PICK m \in Int : m = hub.coll - l1
  BY <1>1
<1>12. /\ hub' = [hub EXCEPT !.coll = m, !.ws = hub.ws + k]
       /\ returns' = [returns EXCEPT ![u].ws = @ + k]
  BY <1>3, <1>4, <1>5, <1>11
<1>13. PICK S \in SUBSET Live(v) : S = {}
  OBVIOUS
<1>14. /\ meta' = [meta EXCEPT ![t] = [owner |-> v, user |-> u, coll |-> l1, ws |-> l2]]
       /\ pool' = [pool EXCEPT ![t] = [coll |-> l1, ws |-> l2, inRange |-> TRUE]]
  BY <1>3, <1>4 DEF Opens
<1>15. /\ meta' \in [Positions -> MetaRec] /\ \A s \in S : meta'[s] = NoPosition
       /\ \A s \in Positions : s \notin S /\ s # t => meta'[s] = meta[s]
       /\ meta'[t] = [owner |-> v, user |-> u, coll |-> l1, ws |-> l2]
  BY <1>1, <1>13, <1>14 DEF MetaRec
<1>16. pool' \in [Positions -> PoolRec]
  <2>1. PICK r \in BOOLEAN : r = TRUE
    OBVIOUS
  <2>2. pool' = [pool EXCEPT ![t] = [coll |-> l1, ws |-> l2, inRange |-> r]]
    BY <1>14, <2>1
  <2>3. QED BY <1>1, <2>2 DEF PoolRec
<1>17. /\ held' \in [CoAccount -> SUBSET Positions]
       /\ \A a \in CoAccount : a = v \/ a = u => held'[a] = (held[a] \ S) \cup {t}
       /\ \A a \in CoAccount : a # v /\ a # u => held'[a] = held[a] \ S
  <2>1. held' = [held EXCEPT ![v] = @ \cup {t}, ![u] = @ \cup {t}]
    BY <1>3
  <2>2. \A a \in CoAccount : held'[a] = IF a = v \/ a = u THEN held[a] \cup {t} ELSE held[a]
    BY <1>1, <2>1
  <2>3. held' \in [CoAccount -> SUBSET Positions]
    BY <1>1, <2>1
  <2>4. QED BY <1>13, <2>2, <2>3
<1>18. CollateralLegs(S) = 0 /\ WsxmrLegs(S) = 0
  BY <1>13, SumSetEmpty DEF CollateralLegs, WsxmrLegs
<1>19. /\ m + covault[v].shares = hub.coll + W.shares /\ W.shares >= W.locked
       /\ W.deployedCollateral + CollateralLegs(S) = covault[v].deployedCollateral + l1
       /\ W.deployedWsxmr + WsxmrLegs(S) >= covault[v].deployedWsxmr + l2
  <2>1. covault[v].shares \in Nat /\ hub.coll \in Nat
    BY <1>1 DEF CoVaultRec
  <2>2. QED BY <1>7, <1>9, <1>11, <1>18, <2>1
<1>20. W.kick # "opened" /\ ~W.frozen
  BY <1>1, <1>9 DEF Unblocked
<1>21. Replaces(v, u, S, t, l1, l2, k, m, W)
  BY <1>2, <1>10, <1>12, <1>15, <1>16, <1>17, <1>19, <1>20 DEF Replaces
<1>22. QED BY <1>9, <1>21, OpensInv

LEMMA RebalanceIntoInv ==
  ASSUME CoLPInv, NEW t \in Positions, NEW t2 \in Positions, NEW caller, RebalanceInto(t, t2, caller)
  PROVE  CoLPInv'
<1>1. /\ covault \in [CoVault -> CoVaultRec] /\ CoLPTypes
      /\ meta \in [Positions -> MetaRec] /\ pool \in [Positions -> PoolRec]
      /\ held \in [CoAccount -> SUBSET Positions] /\ hub \in [coll : Nat, ws : Nat]
  BY DEF CoLPInv, CoLPTypes
<1>2. PICK v, u : v = meta[t].owner /\ u = meta[t].user
  OBVIOUS
<1>3. meta[t2].owner = NoOne /\ v # NoOne /\ t # t2 /\ Unblocked(v)
  BY <1>2, FreshIsFree DEF RebalanceInto, MayRebalance
<1>4. /\ v \in CoVault /\ u \in CoUser /\ {t} \in SUBSET Live(v) /\ pool[t].coll \in Nat /\ pool[t].ws \in Nat
      /\ covault[v] \in CoVaultRec /\ LegsNoted(v)
      /\ u \in CoAccount /\ v \in CoAccount /\ u # v
  BY <1>1, <1>2, <1>3, LivePosition, CoLPAssumption DEF CoLPInv, CoAccount
<1>5. PICK V : V = WithoutLegs(covault[v], {t})
  OBVIOUS
<1>6. /\ V \in CoVaultRec /\ V.shares = covault[v].shares /\ V.locked = covault[v].locked
      /\ V.deployedCollateral + CollateralLegs({t}) = covault[v].deployedCollateral
      /\ V.deployedWsxmr + WsxmrLegs({t}) = covault[v].deployedWsxmr
      /\ V.kick = covault[v].kick /\ V.frozen = covault[v].frozen
  BY <1>4, <1>5, LegsGone
<1>7. PICK fee \in Nat : fee = KeeperFee(t, caller) /\ fee <= pool[t].coll
  BY <1>2, <1>3, KeeperFeeNat
<1>8. PICK c \in Nat, w \in Nat : c = pool[t].coll - fee /\ w = pool[t].ws
  BY <1>4, <1>7
<1>9. PICK legs \in Consumed(c, w) :
        /\ covault' = [covault EXCEPT ![v] =
             [V EXCEPT !.shares = @ + (c - legs[1]), !.deployedCollateral = @ + legs[1],
                       !.deployedWsxmr = @ + legs[2]]]
        /\ meta' = [meta EXCEPT ![t] = NoPosition,
                      ![t2] = [owner |-> v, user |-> u, coll |-> legs[1], ws |-> legs[2]]]
        /\ pool' = [pool EXCEPT ![t] = EmptyPool,
                      ![t2] = [coll |-> legs[1], ws |-> legs[2], inRange |-> TRUE]]
        /\ returns' = [returns EXCEPT ![u].ws = @ + (w - legs[2])]
        /\ hub' = [hub EXCEPT !.coll = @ + (c - legs[1]), !.ws = @ + (w - legs[2])]
        /\ held' = [held EXCEPT ![v] = (@ \ {t}) \cup {t2}, ![u] = (@ \ {t}) \cup {t2}]
  BY <1>2, <1>5, <1>7, <1>8 DEF RebalanceInto
<1>10. PICK l1 \in Nat, l2 \in Nat : l1 = legs[1] /\ l2 = legs[2] /\ l1 <= c /\ l2 <= w
  BY ConsumedLegs
<1>11. PICK k \in Nat, d \in Nat : k = w - l2 /\ d = c - l1
  BY <1>10
<1>12. PICK x \in Nat, y \in Nat, z \in Nat :
         x = V.shares + d /\ y = V.deployedCollateral + l1 /\ z = V.deployedWsxmr + l2
  BY <1>6 DEF CoVaultRec
<1>13. PICK W : W = [V EXCEPT !.shares = x, !.deployedCollateral = y, !.deployedWsxmr = z]
  OBVIOUS
<1>14. /\ W \in CoVaultRec /\ W.shares = x /\ W.locked = covault[v].locked
       /\ W.deployedCollateral = y /\ W.deployedWsxmr = z
       /\ W.kick = covault[v].kick /\ W.frozen = covault[v].frozen
  BY <1>6, <1>13 DEF CoVaultRec
<1>15. covault' = [covault EXCEPT ![v] = W]
  BY <1>6, <1>9, <1>10, <1>11, <1>12, <1>13 DEF CoVaultRec
<1>16. PICK m \in Int : m = hub.coll + d
  BY <1>1
<1>17. /\ hub' = [hub EXCEPT !.coll = m, !.ws = hub.ws + k]
       /\ returns' = [returns EXCEPT ![u].ws = @ + k]
  BY <1>9, <1>10, <1>11, <1>16
<1>18. PICK S \in SUBSET Live(v) : S = {t}
  BY <1>4
<1>19. /\ meta' = [[meta EXCEPT ![t] = NoPosition]
                     EXCEPT ![t2] = [owner |-> v, user |-> u, coll |-> l1, ws |-> l2]]
       /\ pool' = [[pool EXCEPT ![t] = EmptyPool]
                     EXCEPT ![t2] = [coll |-> l1, ws |-> l2, inRange |-> TRUE]]
  BY <1>9, <1>10
<1>20. /\ meta' \in [Positions -> MetaRec] /\ \A s \in S : meta'[s] = NoPosition
       /\ \A s \in Positions : s \notin S /\ s # t2 => meta'[s] = meta[s]
       /\ meta'[t2] = [owner |-> v, user |-> u, coll |-> l1, ws |-> l2]
  <2>1. [owner |-> v, user |-> u, coll |-> l1, ws |-> l2] \in MetaRec
    BY <1>4 DEF MetaRec
  <2>2. QED BY <1>1, <1>3, <1>18, <1>19, <2>1, EmptyPoolRec
<1>21. pool' \in [Positions -> PoolRec]
  <2>1. PICK r \in BOOLEAN : r = TRUE
    OBVIOUS
  <2>2. [coll |-> l1, ws |-> l2, inRange |-> r] \in PoolRec
    BY DEF PoolRec
  <2>3. QED BY <1>1, <1>19, <2>1, <2>2, EmptyPoolRec
<1>22. /\ held' \in [CoAccount -> SUBSET Positions]
       /\ \A a \in CoAccount : a = v \/ a = u => held'[a] = (held[a] \ S) \cup {t2}
       /\ \A a \in CoAccount : a # v /\ a # u => held'[a] = held[a] \ S
  <2>1. held' = [held EXCEPT ![v] = (@ \ {t}) \cup {t2}, ![u] = (@ \ {t}) \cup {t2}]
    BY <1>9
  <2>2. \A a \in CoAccount :
          held'[a] = IF a = v \/ a = u THEN (held[a] \ {t}) \cup {t2} ELSE held[a]
    BY <1>1, <1>4, <2>1
  <2>3. held' \in [CoAccount -> SUBSET Positions]
    BY <1>1, <2>1
  <2>4. ASSUME NEW a \in CoAccount, a # v, a # u PROVE t \notin held[a]
    <3>1. CASE a \in CoVault
      <4>1. held[a] = Live(a)
        BY <3>1 DEF CoLPInv, LegsNoted
      <4>2. QED BY <1>2, <2>4, <4>1 DEF Live
    <3>2. CASE a \in CoUser
      <4>1. held[a] = {s \in Positions : meta[s].user = a}
        BY <3>2 DEF CoLPInv, UserHolds
      <4>2. QED BY <1>2, <2>4, <4>1
    <3>3. QED BY <3>1, <3>2 DEF CoAccount
  <2>5. /\ \A a \in CoAccount : a = v \/ a = u => held'[a] = (held[a] \ {t}) \cup {t2}
        /\ \A a \in CoAccount : a # v /\ a # u => held'[a] = held[a] \ {t}
    BY <2>2, <2>4
  <2>6. QED BY <1>18, <2>3, <2>5
<1>23. /\ m + covault[v].shares = hub.coll + W.shares /\ W.shares >= W.locked
       /\ W.deployedCollateral + CollateralLegs(S) = covault[v].deployedCollateral + l1
       /\ W.deployedWsxmr + WsxmrLegs(S) >= covault[v].deployedWsxmr + l2
  <2>1. /\ covault[v].shares \in Nat /\ hub.coll \in Nat /\ covault[v].locked \in Nat
        /\ covault[v].shares >= covault[v].locked
        /\ V.deployedCollateral \in Nat /\ V.deployedWsxmr \in Nat
    BY <1>1, <1>4, <1>6 DEF CoVaultRec, LegsNoted
  <2>2. PICK a \in Nat, b \in Nat : a = CollateralLegs(S) /\ b = WsxmrLegs(S)
    BY <1>4, LegsBelow
  <2>3. V.deployedCollateral + a = covault[v].deployedCollateral /\ V.deployedWsxmr + b = covault[v].deployedWsxmr
    BY <1>6, <1>18, <2>2
  <2>4. QED BY <1>6, <1>12, <1>14, <1>16, <2>1, <2>2, <2>3
<1>24. W.kick # "opened" /\ ~W.frozen
  BY <1>3, <1>14 DEF Unblocked
<1>25. Replaces(v, u, S, t2, l1, l2, k, m, W)
  BY <1>3, <1>15, <1>17, <1>20, <1>21, <1>22, <1>23, <1>24 DEF Replaces
<1>26. QED BY <1>4, <1>14, <1>25, OpensInv

LEMMA CoLPNextInv ==
  ASSUME CoLPInv, CoLPNext
  PROVE  CoLPInv'
<1>1. MaxLeg \in Nat /\ MaxShares \in Nat /\ MaxDebt \in Nat
  BY CoLPAssumption
<1>2. ASSUME NEW t \in Positions, PriceMoves(t) \/ UnwindCoLP(t) PROVE CoLPInv'
  BY <1>2, PriceMovesInv, UnwindCoInv
<1>3. ASSUME NEW t \in Positions, NEW c \in 0..1, NEW w \in 0..1, CollectCoLPFees(t, c, w)
      PROVE  CoLPInv'
  BY <1>3, CollectInv
<1>4. ASSUME NEW t \in Positions, NEW u \in CoUser, NEW v \in CoVault,
             NEW c \in 1..MaxLeg, NEW w \in 1..MaxLeg, UserOpenCoLP(u, v, t, c, w)
      PROVE  CoLPInv'
  <2>1. c \in Nat /\ w \in Nat
    BY <1>1
  <2>2. QED BY <1>4, <2>1, UserOpenInv
<1>5. ASSUME NEW t \in Positions, NEW caller \in CoAccount,
             RebalanceCloses(t, caller) \/ (\E t2 \in Positions : RebalanceInto(t, t2, caller))
      PROVE  CoLPInv'
  BY <1>5, RebalanceClosesInv, RebalanceIntoInv
<1>6. ASSUME NEW v \in CoVault,
             DepositCollateral(v) \/ OpenAuction(v) \/ ResolveKick(v) \/ BackstopVault(v)
      PROVE  CoLPInv'
  BY <1>6, DepositCoInv, OpenAuctionInv, ResolveCoInv, BackstopCoInv
<1>7. ASSUME NEW v \in CoVault, MintOne(v) \/ StartKick(v) \/ GraceEnds(v)
                                  \/ (\E amount \in 1..MaxDebt : RepayDebt(v, amount))
      PROVE  CoLPInv'
  BY <1>7, DebtActionsInv
<1>8. ASSUME NEW v \in CoVault, NEW amount \in 1..MaxShares, WithdrawCollateral(v, amount)
      PROVE  CoLPInv'
  BY <1>8, WithdrawCoInv
<1>9. ASSUME NEW v \in CoVault, NEW taken \in 0..MaxShares, Bid(v, taken)
      PROVE  CoLPInv'
  <2>1. taken \in Nat
    BY <1>1
  <2>2. QED BY <1>9, <2>1, BidInv
<1>10. ASSUME NEW a \in CoAccount, WithdrawReturns(a)
       PROVE  CoLPInv'
  BY <1>10, WithdrawReturnsInv
<1>11. QED BY <1>2, <1>3, <1>4, <1>5, <1>6, <1>7, <1>8, <1>9, <1>10 DEF CoLPNext

LEMMA CoLPHolds == EndpointsSpec => []CoLPInv
<1>1. EndpointsInit => CoLPInv
  BY CoLPInitInv DEF EndpointsInit
<1>2. CoLPInv /\ [EndpointsNext]_<<part, solWalletVars, scanVars, solMintVars, solBurnVars,
        webVars, keyVars, pageScanVars, coLPVars, webCoLPVars>> => CoLPInv'
  <2>1. ASSUME CoLPInv, UNCHANGED coLPVars PROVE CoLPInv'
    <3>1. UNCHANGED <<covault, meta, held, pool, returns, hub>>
      BY <2>1 DEF coLPVars
    <3>2. CoLPTypes' /\ Shares' = Shares /\ ReturnedColl' = ReturnedColl /\ ReturnedWs' = ReturnedWs
      BY <2>1, <3>1 DEF CoLPInv, CoLPTypes, Shares, ReturnedColl, ReturnedWs
    <3>3. pool' \in [Positions -> PoolRec] /\ returns' \in [CoAccount -> ReturnRec]
          /\ hub' \in [coll : Nat, ws : Nat]
      BY <3>2 DEF CoLPTypes
    <3>4. hub'.coll = Shares + ReturnedColl' /\ hub'.ws = ReturnedWs'
      BY <2>1, <3>1, <3>2 DEF CoLPInv
    <3>5. QED BY <2>1, <3>1, <3>3, <3>4, OnlyReturns
  <2>2. QED
    BY <2>1, CoLPNextInv DEF EndpointsNext, walletPart, solWalletPart, scanPart, solMintPart,
       solBurnPart, webPart, keyPart, pageScanPart, coLPPart, webCoLPPart
<1>3. QED BY <1>1, <1>2, PTL DEF EndpointsSpec

\* The hub holds what vaults and returns sum up to, the noted legs are those of the live
\* positions, and the lists are the positions, for any number of vaults, users, positions
\* and amounts (CoLPFacet.sol:68-258, LiquidationAuctionFacet.sol:173-192).
THEOREM PositionsAreAccounted == EndpointsSpec => []PositionsAccounted
<1>1. CoLPInv => PositionsAccounted
  BY CoLPInvPromises
<1>2. QED BY <1>1, CoLPHolds, PTL

\* A vault whose auction has opened, or that is frozen, has no position
\* (_ensureAuctionOpened, vaultNotBlocked).
THEOREM NoneDeployedInAuction == EndpointsSpec => []NothingDeployedInAuction
<1>1. CoLPInv => NothingDeployedInAuction
  BY CoLPInvPromises
<1>2. QED BY <1>1, CoLPHolds, PTL

-----------------------------------------------------------------------------
\* The page's list of co-LP positions.

EventRec == [kind : {"deployed", "unwound", "rebalanced"}, token : Nat, old : Nat,
             user : WebAccount \cup {NoAccount}]

WebCoTypes ==
  /\ events \in Seq(EventRec) /\ userPositions \in [WebAccount -> SUBSET Nat]
  /\ userAddress \in WebAccount /\ wallet \in WebAccount
  /\ cache \in [WebAccount -> [kept : SUBSET Nat, next : Nat]]
  /\ scan \in [LogScan -> [me : WebAccount \cup {NoAccount}, kept : SUBSET Nat, next : Nat, to : Nat]]

\* The ids that events name are below the next one, and one account's.
TokensBelow ==
  /\ NextToken \in Nat
  /\ \A i \in Block : events[i].token < NextToken /\ events[i].old < NextToken
TokensOwned ==
  \A i, j \in Block : events[i].token = events[j].token => events[i].user = events[j].user
                        \/ events[i].user = NoAccount \/ events[j].user = NoAccount

\* The live positions of an account are those its events deploy and none ends.
LiveOf(a) ==
  \A k \in Nat : k \in userPositions[a] <=>
                   /\ \E i \in Block : events[i].user = a /\ events[i].token = k
                   /\ ~\E i \in Block : Ends(i, k)

\* A cache, and a scan, have all that is to be kept of the blocks they have read.
HasRead(kept, next, a) == \A i \in Block : i < next /\ Keeps(a, i) => i \in kept
CacheHas(a) == cache[a].next <= Len(events) + 1 /\ cache[a].kept \subseteq Block
                 /\ (a \notin crossed => HasRead(cache[a].kept, cache[a].next, a))
ScanHas(s) ==
  scan[s].me # NoAccount =>
    /\ scan[s].to <= Len(events) /\ scan[s].next <= scan[s].to + 1 /\ scan[s].next # 0
    /\ scan[s].kept \subseteq Block
    /\ scan[s].me \notin crossed => HasRead(scan[s].kept, scan[s].next, scan[s].me)

\* A rebalance replaces a position of its user.
Chained ==
  \A i \in Rebalances(Block) :
    /\ events[i].user # NoAccount
    /\ \E j \in Block : events[j].token = events[i].old /\ events[j].user = events[i].user

\* The rebalances lead to every position from one that its user opened.
Closed(S) == \A i \in Rebalances(Block) : events[i].old \in S => events[i].token \in S
Rooted ==
  \A k \in Block : events[k].user # NoAccount =>
    \E j \in Block :
      /\ events[j].user = events[k].user
      /\ \A i \in Rebalances(Block) : events[i].token # events[j].token
      /\ \A S \in SUBSET Nat : events[j].token \in S /\ Closed(S) => events[k].token \in S

WebCoInv ==
  /\ WebCoTypes /\ TokensBelow /\ TokensOwned /\ Chained /\ Rooted
  /\ \A a \in WebAccount : LiveOf(a) /\ CacheHas(a)
  /\ \A s \in LogScan : ScanHas(s)

LEMMA BlocksHold ==
  ASSUME WebCoInv
  PROVE  \A i \in Block : events[i] \in EventRec /\ events[i].token \in Nat /\ events[i].old \in Nat
                            /\ events[i].user \in WebAccount \cup {NoAccount}
<1>1. \A i \in Block : events[i] \in EventRec
  BY DEF WebCoInv, WebCoTypes, Block
<1>2. QED BY <1>1 DEF EventRec

\* What the rebalances lead to from a position of an account's is the account's.
LEMMA RootOwns ==
  ASSUME WebCoInv, NEW a \in WebAccount, NEW K \in SUBSET Block,
         NEW i \in K, NEW r \in K, events[r].user = a, Root(K, events[r].token, events[i].token)
  PROVE  \E j \in Block : events[j].user = a /\ events[j].token = events[i].token
<1> DEFINE Ids == {events[j].token : j \in K}
           Own == {k \in Ids : \E j \in Block : events[j].user = a /\ events[j].token = k}
<1>1. a # NoAccount
  BY WebCoLPAssumption
<1>2. Own \in SUBSET Ids /\ events[r].token \in Own
  OBVIOUS
<1>3. ASSUME NEW j \in Rebalances(K), events[j].old \in Own PROVE events[j].token \in Own
  <2>1. j \in K /\ j \in Rebalances(Block)
    BY DEF Rebalances
  <2>2. PICK x \in Block : events[x].token = events[j].old /\ events[x].user = events[j].user
    BY <2>1 DEF WebCoInv, Chained
  <2>3. PICK y \in Block : events[y].token = events[j].old /\ events[y].user = a
    BY <1>3
  <2>4. events[j].user # NoAccount
    BY <2>1 DEF WebCoInv, Chained
  <2>5. events[j].user = a
    BY <1>1, <2>2, <2>3, <2>4 DEF WebCoInv, TokensOwned
  <2>6. QED BY <2>1, <2>5
<1>4. \A S \in SUBSET Ids :
        events[r].token \in S /\ (\A j \in Rebalances(K) : events[j].old \in S => events[j].token \in S)
          => events[i].token \in S
  BY DEF Root
<1>5. events[i].token \in Own
  BY <1>2, <1>3, <1>4
<1>6. QED BY <1>5

LEMMA WebCoInvLists ==
  ASSUME WebCoInv
  PROVE  CachedListExact
<1>1. SUFFICES ASSUME NEW a \in WebAccount, a \notin crossed, cache[a].next > Len(events),
                      NEW t \in Token
               PROVE  Listed(a, t) = IF t \notin userPositions[a] THEN 0
                                     ELSE IF Made(t) THEN 2 ELSE 1
  BY DEF CachedListExact
<1>2. /\ a # NoAccount /\ LiveOf(a) /\ CacheHas(a) /\ cache[a].next \in Nat /\ Len(events) \in Nat
      /\ t \in Nat
  BY WebCoLPAssumption DEF WebCoInv, WebCoTypes, Token
<1>3. PICK K : K = cache[a].kept
  OBVIOUS
<1>4. K \subseteq Block /\ \A i \in Block : Keeps(a, i) => i \in K
  BY <1>1, <1>2, <1>3 DEF CacheHas, HasRead, Block
<1>5. /\ \A i \in Block : events[i].user = a => i \in K
      /\ \A i \in Block : Ends(i, t) => i \in K
      /\ Rebalances(K) = Rebalances(Block)
  BY <1>4 DEF Keeps, Ends, Rebalances
<1> DEFINE deployed == {events[i].token : i \in {j \in K : events[j].user = a}}
           dead == \E i \in K : Ends(i, t)
           carried == /\ \E i \in Rebalances(K) : events[i].token = t
                      /\ \E r \in deployed : Root(K, r, t)
<1>6. Listed(a, t) = IF dead THEN 0
                     ELSE (IF t \in deployed THEN 1 ELSE 0) + (IF carried THEN 1 ELSE 0)
  BY <1>3 DEF Listed
<1>7. t \in userPositions[a] <=> t \in deployed /\ ~dead
  <2>1. t \in deployed <=> \E i \in Block : events[i].user = a /\ events[i].token = t
    BY <1>4, <1>5
  <2>2. dead <=> \E i \in Block : Ends(i, t)
    BY <1>4, <1>5
  <2>3. QED BY <1>2, <2>1, <2>2 DEF LiveOf
<1>8. carried => t \in deployed
  <2>1. SUFFICES ASSUME carried PROVE t \in deployed
    OBVIOUS
  <2>2. PICK i \in K : events[i].token = t
    BY <2>1 DEF Rebalances
  <2>3. PICK r \in K : events[r].user = a /\ Root(K, events[r].token, t)
    BY <2>1
  <2>4. PICK j \in Block : events[j].user = a /\ events[j].token = t
    BY <1>4, <2>2, <2>3, RootOwns
  <2>5. QED BY <1>5, <2>4
<1>9. carried => Made(t)
  BY <1>5 DEF Made, Rebalances
<1>10. ASSUME t \in deployed, Made(t) PROVE carried
  <2>1. \E i \in Rebalances(K) : events[i].token = t
    BY <1>5, <1>10 DEF Made, Rebalances
  <2>2. PICK k \in Block : events[k].user = a /\ events[k].token = t
    BY <1>4, <1>10
  <2>3. PICK j \in Block :
               /\ events[j].user = a
               /\ \A i \in Rebalances(Block) : events[i].token # events[j].token
               /\ \A S \in SUBSET Nat : events[j].token \in S /\ Closed(S) => t \in S
    BY <1>2, <2>2 DEF WebCoInv, Rooted
  <2>4. {events[i].token : i \in K} \subseteq Nat
    BY <1>4, BlocksHold
  <2>5. Root(K, events[j].token, t)
    BY <1>5, <2>3, <2>4 DEF Root, Closed
  <2>6. events[j].token \in deployed
    BY <1>5, <2>3
  <2>7. QED BY <2>1, <2>5, <2>6
<1> HIDE DEF deployed, dead, carried
<1>11. QED BY <1>6, <1>7, <1>8, <1>9, <1>10

\* An event more.
LEMMA EventAdded ==
  ASSUME WebCoInv, NEW e \in EventRec, events' = Append(events, e)
  PROVE  /\ events' \in Seq(EventRec) /\ Len(events) \in Nat /\ Len(events') = Len(events) + 1
         /\ Block' = Block \cup {Len(events) + 1} /\ Len(events) + 1 \notin Block
         /\ \A i \in Block : events'[i] = events[i]
         /\ events'[Len(events) + 1] = e
         /\ NextToken' = IF \E i \in Block : events[i].token = e.token THEN NextToken ELSE NextToken + 1
<1>1. /\ events \in Seq(EventRec) /\ Len(events) \in Nat
  BY DEF WebCoInv, WebCoTypes
<1>2. /\ events' \in Seq(EventRec) /\ Len(events') = Len(events) + 1
      /\ \A i \in 1..Len(events) : events'[i] = events[i]
      /\ events'[Len(events) + 1] = e
  BY <1>1
<1>3. /\ Block' = Block \cup {Len(events) + 1} /\ Len(events) + 1 \notin Block
      /\ \A i \in Block : events'[i] = events[i]
  BY <1>1, <1>2 DEF Block
<1>4. PICK T : T = {events[i].token : i \in Block}
  OBVIOUS
<1>5. {events[i].token : i \in Block}' = T \cup {e.token}
  BY <1>2, <1>3, <1>4
<1>6. IsFiniteSet(T)
  <2>1. IsFiniteSet(Block)
    BY <1>1, FS_Interval DEF Block
  <2>2. PICK f : f = [i \in Block |-> events[i].token]
    OBVIOUS
  <2>3. T = {f[i] : i \in Block}
    BY <1>4, <2>2
  <2>4. QED BY <2>1, <2>3, FiniteImage
<1>7. NextToken = 1 + Cardinality(T) /\ NextToken' = 1 + Cardinality(T \cup {e.token})
  BY <1>4, <1>5 DEF NextToken
<1>8. NextToken' = IF e.token \in T THEN NextToken ELSE NextToken + 1
  <2>1. CASE e.token \in T
    <3>1. T \cup {e.token} = T
      BY <2>1
    <3>2. QED BY <1>7, <2>1, <3>1
  <2>2. CASE e.token \notin T
    <3>1. Cardinality(T \cup {e.token}) = Cardinality(T) + 1 /\ Cardinality(T) \in Nat
      BY <1>6, <2>2, FS_AddElement, FS_CardinalityType
    <3>2. QED BY <1>7, <2>2, <3>1
  <2>3. QED BY <2>1, <2>2
<1>9. e.token \in T <=> \E i \in Block : events[i].token = e.token
  BY <1>4
<1>10. QED BY <1>1, <1>2, <1>3, <1>8, <1>9

\* What caches and scans have does not change with an event.
LEMMA EventKeepsCaches ==
  ASSUME WebCoInv, NEW e \in EventRec, events' = Append(events, e), UNCHANGED <<cache, crossed>>
  PROVE  /\ \A a \in WebAccount : (CacheHas(a))'
         /\ UNCHANGED scan => \A s \in LogScan : (ScanHas(s))'
<1>1. /\ Len(events) \in Nat /\ Len(events') = Len(events) + 1
      /\ Block' = Block \cup {Len(events) + 1} /\ Len(events) + 1 \notin Block
      /\ \A i \in Block : events'[i] = events[i]
      /\ \A i \in Block : i \in Nat /\ i <= Len(events)
  BY EventAdded DEF Block
<1>2. \A a : \A i \in Block : Keeps(a, i)' <=> Keeps(a, i)
  BY <1>1 DEF Keeps
<1>3. ASSUME NEW a \in WebAccount PROVE (CacheHas(a))'
  <2>1. CacheHas(a) /\ cache[a].next \in Nat
    BY DEF WebCoInv, WebCoTypes
  <2>2. ~(Len(events) + 1 < cache[a].next)
    BY <1>1, <2>1 DEF CacheHas
  <2>3. a \notin crossed => (HasRead(cache[a].kept, cache[a].next, a))'
    BY <1>1, <1>2, <2>1, <2>2 DEF CacheHas, HasRead
  <2>4. QED BY <1>1, <2>1, <2>3 DEF CacheHas
<1>4. ASSUME UNCHANGED scan, NEW s \in LogScan, scan[s].me # NoAccount PROVE (ScanHas(s))'
  <2>1. ScanHas(s) /\ scan[s].next \in Nat /\ scan[s].to \in Nat
    BY DEF WebCoInv, WebCoTypes
  <2>2. ~(Len(events) + 1 < scan[s].next) /\ scan[s].to <= Len(events) + 1
    BY <1>1, <1>4, <2>1 DEF ScanHas
  <2>3. scan[s].me \notin crossed => (HasRead(scan[s].kept, scan[s].next, scan[s].me))'
    BY <1>1, <1>2, <1>4, <2>1, <2>2 DEF ScanHas, HasRead
  <2>4. QED BY <1>1, <1>4, <2>1, <2>2, <2>3 DEF ScanHas
<1>5. QED BY <1>3, <1>4 DEF ScanHas

\* An event keeps what the rebalances lead to.
LEMMA EventKeepsRoots ==
  ASSUME WebCoInv, NEW e \in EventRec, events' = Append(events, e),
         e.kind = "unwound" => e.user = NoAccount,
         e.kind # "unwound" => e.user # NoAccount /\ e.token = NextToken,
         e.kind = "rebalanced" => \E i \in Block : events[i].token = e.old /\ events[i].user = e.user
  PROVE  Chained' /\ Rooted'
<1>1. PICK l : l = Len(events) + 1
  OBVIOUS
<1>2. /\ Block' = Block \cup {l} /\ l \notin Block
      /\ \A i \in Block : events'[i] = events[i]
      /\ events'[l] = e
  BY <1>1, EventAdded
<1>3. Rebalances(Block)' = Rebalances(Block) \cup {i \in {l} : e.kind = "rebalanced"}
      /\ Rebalances(Block) \subseteq Block
  BY <1>2 DEF Rebalances
<1>4. Chained'
  <2>1. SUFFICES ASSUME NEW i \in Rebalances(Block)'
                 PROVE  /\ events'[i].user # NoAccount
                        /\ \E j \in Block' : events'[j].token = events'[i].old /\ events'[j].user = events'[i].user
    BY DEF Chained
  <2>2. CASE i \in Rebalances(Block)
    <3>1. PICK j \in Block : events[j].token = events[i].old /\ events[j].user = events[i].user
      BY <2>2 DEF WebCoInv, Chained
    <3>2. events[i].user # NoAccount
      BY <2>2 DEF WebCoInv, Chained
    <3>3. QED BY <1>2, <1>3, <2>2, <3>1, <3>2
  <2>3. CASE i = l /\ e.kind = "rebalanced"
    <3>1. PICK j \in Block : events[j].token = e.old /\ events[j].user = e.user
      BY <2>3
    <3>2. QED BY <1>2, <2>3, <3>1
  <2>4. QED BY <1>3, <2>1, <2>2, <2>3
<1>5. \A i \in Block : events[i].token \in Nat /\ events[i].token < NextToken /\ NextToken \in Nat
  BY BlocksHold DEF WebCoInv, TokensBelow
<1>6. \A S : Closed(S)' => Closed(S) /\ (e.kind = "rebalanced" /\ e.old \in S => e.token \in S)
  BY <1>2, <1>3 DEF Closed
<1>7. \A j \in Block : (\A i \in Rebalances(Block) : events[i].token # events[j].token)
                         => \A i \in Rebalances(Block)' : events'[i].token # events'[j].token
  <2>1. ASSUME NEW j \in Block, \A i \in Rebalances(Block) : events[i].token # events[j].token,
               NEW i \in Rebalances(Block)'
        PROVE  events'[i].token # events'[j].token
    <3>1. events'[j] = events[j]
      BY <1>2
    <3>2. CASE i \in Rebalances(Block)
      BY <1>2, <1>3, <2>1, <3>1, <3>2
    <3>3. CASE i = l /\ e.kind = "rebalanced"
      <4>1. events'[i].token = NextToken
        BY <1>2, <3>3
      <4>2. PICK x \in Nat, n \in Nat : x = events[j].token /\ n = NextToken /\ x < n
        BY <1>5
      <4>3. QED BY <3>1, <4>1, <4>2
    <3>4. QED BY <1>3, <2>1, <3>2, <3>3
  <2>2. QED BY <2>1
<1>8. ASSUME NEW k \in Block', events'[k].user # NoAccount
      PROVE  \E j \in Block' :
               /\ events'[j].user = events'[k].user
               /\ \A i \in Rebalances(Block)' : events'[i].token # events'[j].token
               /\ \A S \in SUBSET Nat : events'[j].token \in S /\ Closed(S)' => events'[k].token \in S
  <2>1. CASE k \in Block
    <3>1. PICK j \in Block :
                 /\ events[j].user = events[k].user
                 /\ \A i \in Rebalances(Block) : events[i].token # events[j].token
                 /\ \A S \in SUBSET Nat : events[j].token \in S /\ Closed(S) => events[k].token \in S
      BY <1>2, <1>8, <2>1 DEF WebCoInv, Rooted
    <3>2. \A i \in Rebalances(Block)' : events'[i].token # events'[j].token
      BY <1>7, <3>1
    <3>3. \A S \in SUBSET Nat : events[j].token \in S /\ Closed(S)' => events[k].token \in S
      BY <1>6, <3>1
    <3>4. j \in Block' /\ events'[j] = events[j] /\ events'[k] = events[k]
      BY <1>2, <2>1
    <3>5. QED BY <3>1, <3>2, <3>3, <3>4
  <2>2. CASE k = l /\ e.kind = "rebalanced"
    <3>1. PICK x \in Block : events[x].token = e.old /\ events[x].user = e.user
      BY <2>2
    <3>2. PICK j \in Block :
                 /\ events[j].user = events[x].user
                 /\ \A i \in Rebalances(Block) : events[i].token # events[j].token
                 /\ \A S \in SUBSET Nat : events[j].token \in S /\ Closed(S) => events[x].token \in S
      BY <2>2, <3>1 DEF WebCoInv, Rooted
    <3>3. \A i \in Rebalances(Block)' : events'[i].token # events'[j].token
      BY <1>7, <3>2
    <3>4. \A S \in SUBSET Nat : events[j].token \in S /\ Closed(S)' => e.token \in S
      BY <1>6, <2>2, <3>1, <3>2
    <3>5. j \in Block' /\ events'[j] = events[j] /\ events'[k] = e
      BY <1>2, <2>2
    <3>6. QED BY <3>1, <3>2, <3>3, <3>4, <3>5
  <2>3. CASE k = l /\ e.kind = "deployed"
    <3>1. Rebalances(Block)' = Rebalances(Block) /\ k \in Block' /\ events'[k] = e
      BY <1>2, <1>3, <2>3
    <3>2. \A i \in Rebalances(Block)' : events'[i].token # events'[k].token
      <4>1. ASSUME NEW i \in Rebalances(Block) PROVE events'[i].token # NextToken
        <5>1. i \in Block /\ events'[i] = events[i]
          BY <1>2, <1>3
        <5>2. PICK x \in Nat, n \in Nat : x = events[i].token /\ n = NextToken /\ x < n
          BY <1>5, <5>1
        <5>3. QED BY <5>1, <5>2
      <4>2. events'[k].token = NextToken
        BY <2>3, <3>1
      <4>3. QED BY <3>1, <4>1, <4>2
    <3>3. QED BY <3>1, <3>2
  <2>4. k \in Block \/ (k = l /\ e.kind \in {"rebalanced", "deployed"})
    BY <1>2, <1>8 DEF EventRec
  <2>5. QED BY <2>1, <2>2, <2>3, <2>4
<1>9. QED BY <1>4, <1>8 DEF Rooted

\* A new position of a, which may take the place of the position t.
LEMMA DeployKeeps ==
  ASSUME WebCoInv, NEW a \in WebAccount, NEW e \in EventRec, events' = Append(events, e),
         e.token = NextToken, e.user = a,
         NEW l, l = Len(events) + 1,
         NEW gone \in SUBSET userPositions[a], \A k : Ends(l, k)' <=> k \in gone,
         userPositions' = [userPositions EXCEPT ![a] = (@ \ gone) \cup {NextToken}],
         e.old <= NextToken, UNCHANGED <<cache, crossed>>
  PROVE  /\ TokensBelow' /\ TokensOwned' /\ \A b \in WebAccount : (LiveOf(b))'
         /\ userPositions' \in [WebAccount -> SUBSET Nat] /\ events' \in Seq(EventRec)
<1>1. /\ events' \in Seq(EventRec) /\ Len(events) \in Nat
      /\ Block' = Block \cup {Len(events) + 1} /\ Len(events) + 1 \notin Block
      /\ \A i \in Block : events'[i] = events[i]
      /\ events'[Len(events) + 1] = e
      /\ NextToken' = IF \E i \in Block : events[i].token = e.token THEN NextToken ELSE NextToken + 1
  BY EventAdded
<1>2. /\ NextToken \in Nat /\ e.old \in Nat /\ a # NoAccount
      /\ \A i \in Block : events[i].token < NextToken /\ events[i].old < NextToken
      /\ \A i \in Block : events[i].token \in Nat /\ events[i].old \in Nat
      /\ userPositions \in [WebAccount -> SUBSET Nat]
  BY BlocksHold, WebCoLPAssumption DEF WebCoInv, WebCoTypes, TokensBelow, EventRec
<1>3. PICK n \in Nat : n = NextToken
  BY <1>2
<1>4. \A i \in Block : events[i].token # n /\ events[i].old # n
  BY <1>2, <1>3
<1>5. NextToken' = n + 1
  BY <1>1, <1>3, <1>4
<1>6. TokensBelow'
  <2>1. ASSUME NEW i \in Block' PROVE events'[i].token < n + 1 /\ events'[i].old < n + 1
    <3>1. CASE i \in Block
      <4>1. PICK x \in Nat, y \in Nat : x = events[i].token /\ y = events[i].old
        BY <1>2, <3>1
      <4>2. x < n /\ y < n
        BY <1>2, <1>3, <3>1, <4>1
      <4>3. events'[i].token = x /\ events'[i].old = y
        BY <1>1, <3>1, <4>1
      <4>4. QED BY <4>2, <4>3
    <3>2. CASE i = l
      <4>1. events'[i] = e
        BY <1>1, <3>2
      <4>2. e.token = n /\ e.old <= n /\ e.old \in Nat
        BY <1>2, <1>3
      <4>3. QED BY <4>1, <4>2
    <3>3. QED BY <1>1, <3>1, <3>2
  <2>2. n + 1 \in Nat
    OBVIOUS
  <2>3. QED BY <1>5, <2>1, <2>2 DEF TokensBelow
<1>7. TokensOwned'
  <2>1. ASSUME NEW i \in Block', NEW j \in Block', events'[i].token = events'[j].token
        PROVE  \/ events'[i].user = events'[j].user
               \/ events'[i].user = NoAccount \/ events'[j].user = NoAccount
    <3>1. \A x \in Block' : (x \in Block /\ events'[x].token # n) \/ (x = l /\ events'[x].token = n)
      BY <1>1, <1>3, <1>4
    <3>2. CASE i \in Block /\ j \in Block
      BY <1>1, <2>1, <3>2 DEF WebCoInv, TokensOwned
    <3>3. CASE i = l /\ j = l
      BY <3>3
    <3>4. QED BY <2>1, <3>1, <3>2, <3>3
  <2>2. QED BY <2>1 DEF TokensOwned
<1>9. \A i \in Block : \A k : Ends(i, k)' <=> Ends(i, k)
  BY <1>1 DEF Ends
<1>10. ASSUME NEW b \in WebAccount PROVE (LiveOf(b))'
  <2>1. LiveOf(b)
    BY DEF WebCoInv
  <2>2. SUFFICES ASSUME NEW k \in Nat
                 PROVE  k \in userPositions'[b] <=>
                          /\ \E i \in Block' : events'[i].user = b /\ events'[i].token = k
                          /\ ~\E i \in Block' : Ends(i, k)'
    BY DEF LiveOf
  <2>3. (\E i \in Block' : events'[i].user = b /\ events'[i].token = k)
          <=> (\E i \in Block : events[i].user = b /\ events[i].token = k) \/ (b = a /\ k = n)
    BY <1>1, <1>3
  <2>4. (\E i \in Block' : Ends(i, k)') <=> (\E i \in Block : Ends(i, k)) \/ k \in gone
    BY <1>1, <1>9
  <2>5. k \in userPositions[b] <=> /\ \E i \in Block : events[i].user = b /\ events[i].token = k
                                   /\ ~\E i \in Block : Ends(i, k)
    BY <2>1 DEF LiveOf
  <2>6. ~\E i \in Block : Ends(i, n)
    BY <1>4 DEF Ends
  <2>7. n \notin gone
    <3>1. LiveOf(a)
      BY DEF WebCoInv
    <3>2. n \notin userPositions[a]
      BY <1>3, <1>4, <3>1 DEF LiveOf
    <3>3. QED BY <3>2
  <2>8. b # a => k \notin gone \/ k \notin userPositions[b]
    <3>1. SUFFICES ASSUME b # a, k \in gone, k \in userPositions[b] PROVE FALSE
      OBVIOUS
    <3>2. LiveOf(a) /\ k \in userPositions[a]
      BY <3>1 DEF WebCoInv
    <3>3. PICK i \in Block : events[i].user = a /\ events[i].token = k
      BY <3>2 DEF LiveOf
    <3>4. PICK j \in Block : events[j].user = b /\ events[j].token = k
      BY <2>5, <3>1
    <3>5. b # NoAccount
      BY WebCoLPAssumption
    <3>6. QED BY <1>2, <3>1, <3>3, <3>4, <3>5 DEF WebCoInv, TokensOwned
  <2>9. CASE b = a
    <3>1. k \in userPositions'[b] <=> (k \in userPositions[a] /\ k \notin gone) \/ k = n
      BY <1>2, <1>3, <2>9
    <3>2. QED BY <2>3, <2>4, <2>5, <2>6, <2>7, <2>9, <3>1
  <2>10. CASE b # a
    <3>1. userPositions'[b] = userPositions[b]
      BY <1>2, <2>10
    <3>2. QED BY <2>3, <2>4, <2>5, <2>8, <2>10, <3>1
  <2>11. QED BY <2>9, <2>10
<1>11. userPositions' \in [WebAccount -> SUBSET Nat]
  BY <1>2
<1>12. QED BY <1>1, <1>6, <1>7, <1>10, <1>11

LEMMA DeployedKeeps ==
  ASSUME WebCoInv, NEW a \in WebAccount, Deployed(a), UNCHANGED <<cache, scan, crossed, userAddress, wallet>>
  PROVE  WebCoInv'
<1>1. NextToken \in Nat /\ Len(events) \in Nat
  BY DEF WebCoInv, WebCoTypes, TokensBelow
<1>2. PICK e : e = [kind |-> "deployed", token |-> NextToken, old |-> NextToken, user |-> a]
  OBVIOUS
<1>3. e \in EventRec /\ e.token = NextToken /\ e.old = NextToken /\ e.user = a /\ e.kind = "deployed"
  BY <1>1, <1>2 DEF EventRec
<1>4. events' = Append(events, e) /\ userPositions' = [userPositions EXCEPT ![a] = @ \cup {NextToken}]
  BY <1>2 DEF Deployed, Emits
<1>5. PICK gone \in SUBSET userPositions[a] : gone = {}
  OBVIOUS
<1>6. events'[Len(events) + 1] = e
  BY <1>3, <1>4, EventAdded
<1>7. PICK l : l = Len(events) + 1 /\ \A k : Ends(l, k)' <=> k \in gone
  <2>1. PICK l : l = Len(events) + 1
    OBVIOUS
  <2>2. events'[l] = e
    BY <1>6, <2>1
  <2>3. \A k : Ends(l, k)' <=> k \in gone
    BY <1>3, <1>5, <2>2 DEF Ends
  <2>4. QED BY <2>1, <2>3
<1>8. userPositions' = [userPositions EXCEPT ![a] = (@ \ gone) \cup {NextToken}] /\ e.old <= NextToken
  BY <1>1, <1>3, <1>4, <1>5
<1>9. /\ TokensBelow' /\ TokensOwned' /\ \A b \in WebAccount : (LiveOf(b))'
      /\ userPositions' \in [WebAccount -> SUBSET Nat] /\ events' \in Seq(EventRec)
  BY <1>3, <1>4, <1>7, <1>8, DeployKeeps, ZenonT(60)
<1>10. (\A b \in WebAccount : (CacheHas(b))') /\ \A s \in LogScan : (ScanHas(s))'
  BY <1>3, <1>4, EventKeepsCaches
<1>11. WebCoTypes'
  BY <1>9 DEF WebCoInv, WebCoTypes
<1>12. Chained' /\ Rooted'
  <2>1. e.user # NoAccount
    BY <1>3, WebCoLPAssumption
  <2>2. QED BY <1>3, <1>4, <2>1, EventKeepsRoots
<1>13. QED BY <1>9, <1>10, <1>11, <1>12 DEF WebCoInv

LEMMA RebalancedKeeps ==
  ASSUME WebCoInv, NEW a \in WebAccount, NEW t \in Nat, Rebalanced(a, t)
  PROVE  WebCoInv'
<1>1. NextToken \in Nat /\ Len(events) \in Nat /\ t \in userPositions[a]
  BY DEF WebCoInv, WebCoTypes, TokensBelow, Rebalanced
<1>2. t <= NextToken
  <2>1. PICK i \in Block : events[i].token = t
    BY <1>1 DEF WebCoInv, LiveOf
  <2>2. QED BY <1>1, <2>1 DEF WebCoInv, TokensBelow
<1>3. PICK e : e = [kind |-> "rebalanced", token |-> NextToken, old |-> t, user |-> a]
  OBVIOUS
<1>4. e \in EventRec /\ e.token = NextToken /\ e.old = t /\ e.user = a /\ e.kind = "rebalanced"
  BY <1>1, <1>3 DEF EventRec
<1>5. /\ events' = Append(events, e)
      /\ userPositions' = [userPositions EXCEPT ![a] = (@ \ {t}) \cup {NextToken}]
      /\ UNCHANGED <<cache, scan, crossed, userAddress, wallet>>
  BY <1>3 DEF Rebalanced, Emits
<1>6. PICK gone \in SUBSET userPositions[a] : gone = {t}
  BY <1>1
<1>7. events'[Len(events) + 1] = e
  BY <1>4, <1>5, EventAdded
<1>8. PICK l : l = Len(events) + 1 /\ \A k : Ends(l, k)' <=> k \in gone
  <2>1. PICK l : l = Len(events) + 1
    OBVIOUS
  <2>2. events'[l] = e
    BY <1>7, <2>1
  <2>3. \A k : Ends(l, k)' <=> k \in gone
    BY <1>4, <1>6, <2>2 DEF Ends
  <2>4. QED BY <2>1, <2>3
<1>9. /\ TokensBelow' /\ TokensOwned' /\ \A b \in WebAccount : (LiveOf(b))'
      /\ userPositions' \in [WebAccount -> SUBSET Nat] /\ events' \in Seq(EventRec)
  BY <1>2, <1>4, <1>5, <1>6, <1>8, DeployKeeps
<1>10. (\A b \in WebAccount : (CacheHas(b))') /\ \A s \in LogScan : (ScanHas(s))'
  BY <1>4, <1>5, EventKeepsCaches
<1>11. WebCoTypes'
  BY <1>5, <1>9 DEF WebCoInv, WebCoTypes
<1>12. Chained' /\ Rooted'
  <2>1. e.user # NoAccount
    BY <1>4, WebCoLPAssumption
  <2>2. \E i \in Block : events[i].token = e.old /\ events[i].user = e.user
    BY <1>1, <1>4 DEF WebCoInv, LiveOf
  <2>3. QED BY <1>4, <1>5, <2>1, <2>2, EventKeepsRoots
<1>13. QED BY <1>9, <1>10, <1>11, <1>12 DEF WebCoInv

LEMMA UnwoundKeeps ==
  ASSUME WebCoInv, NEW a \in WebAccount, NEW t \in Nat, Unwound(a, t)
  PROVE  WebCoInv'
<1>1. NextToken \in Nat /\ Len(events) \in Nat /\ t \in userPositions[a] /\ a # NoAccount
      /\ userPositions \in [WebAccount -> SUBSET Nat]
  BY WebCoLPAssumption DEF WebCoInv, WebCoTypes, TokensBelow, Unwound
<1>2. PICK e : e = [kind |-> "unwound", token |-> t, old |-> t, user |-> NoAccount]
  OBVIOUS
<1>3. e \in EventRec /\ e.token = t /\ e.old = t /\ e.user = NoAccount /\ e.kind = "unwound"
  BY <1>1, <1>2 DEF EventRec
<1>4. /\ events' = Append(events, e) /\ userPositions' = [userPositions EXCEPT ![a] = @ \ {t}]
      /\ UNCHANGED <<cache, scan, crossed, userAddress, wallet>>
  BY <1>2 DEF Unwound, Emits
<1>5. PICK d \in Block : events[d].user = a /\ events[d].token = t
  BY <1>1 DEF WebCoInv, LiveOf
<1>6. /\ events' \in Seq(EventRec)
      /\ Block' = Block \cup {Len(events) + 1} /\ Len(events) + 1 \notin Block
      /\ \A i \in Block : events'[i] = events[i]
      /\ events'[Len(events) + 1] = e
      /\ NextToken' = IF \E i \in Block : events[i].token = e.token THEN NextToken ELSE NextToken + 1
  BY <1>3, <1>4, EventAdded
<1>7. NextToken' = NextToken /\ t < NextToken
  BY <1>3, <1>5, <1>6 DEF WebCoInv, TokensBelow
<1>8. TokensBelow'
  BY <1>1, <1>3, <1>6, <1>7 DEF WebCoInv, TokensBelow
<1>9. TokensOwned'
  BY <1>3, <1>6 DEF WebCoInv, TokensOwned
<1>10. \A i \in Block : \A k : Ends(i, k)' <=> Ends(i, k)
  BY <1>6 DEF Ends
<1>11. PICK l : l = Len(events) + 1
  OBVIOUS
<1>12. \A k : Ends(l, k)' <=> k = t
  <2>1. events'[l] = e
    BY <1>6, <1>11
  <2>2. QED BY <1>3, <2>1 DEF Ends
<1>13. ASSUME NEW b \in WebAccount PROVE (LiveOf(b))'
  <2>1. LiveOf(b) /\ b # NoAccount
    BY WebCoLPAssumption DEF WebCoInv
  <2>2. SUFFICES ASSUME NEW k \in Nat
                 PROVE  k \in userPositions'[b] <=>
                          /\ \E i \in Block' : events'[i].user = b /\ events'[i].token = k
                          /\ ~\E i \in Block' : Ends(i, k)'
    BY DEF LiveOf
  <2>3. (\E i \in Block' : events'[i].user = b /\ events'[i].token = k)
          <=> (\E i \in Block : events[i].user = b /\ events[i].token = k)
    BY <1>3, <1>6, <1>11, <2>1
  <2>4. (\E i \in Block' : Ends(i, k)') <=> (\E i \in Block : Ends(i, k)) \/ k = t
    BY <1>6, <1>10, <1>11, <1>12
  <2>5. k \in userPositions[b] <=> /\ \E i \in Block : events[i].user = b /\ events[i].token = k
                                   /\ ~\E i \in Block : Ends(i, k)
    BY <2>1 DEF LiveOf
  <2>6. b # a => t \notin userPositions[b]
    <3>1. SUFFICES ASSUME b # a, t \in userPositions[b] PROVE FALSE
      OBVIOUS
    <3>2. PICK j \in Block : events[j].user = b /\ events[j].token = t
      BY <2>1, <3>1, <1>1 DEF LiveOf
    <3>3. QED BY <1>1, <1>5, <2>1, <3>1, <3>2 DEF WebCoInv, TokensOwned
  <2>7. CASE b = a
    <3>1. k \in userPositions'[b] <=> k \in userPositions[a] /\ k # t
      BY <1>1, <1>4, <2>7
    <3>2. QED BY <2>3, <2>4, <2>5, <2>7, <3>1
  <2>8. CASE b # a
    <3>1. userPositions'[b] = userPositions[b]
      BY <1>1, <1>4, <2>8
    <3>2. QED BY <2>3, <2>4, <2>5, <2>6, <2>8, <3>1
  <2>9. QED BY <2>7, <2>8
<1>14. userPositions' \in [WebAccount -> SUBSET Nat]
  BY <1>1, <1>4
<1>15. (\A b \in WebAccount : (CacheHas(b))') /\ \A s \in LogScan : (ScanHas(s))'
  BY <1>3, <1>4, EventKeepsCaches
<1>16. WebCoTypes'
  BY <1>4, <1>6, <1>14 DEF WebCoInv, WebCoTypes
<1>17. Chained' /\ Rooted'
  BY <1>3, <1>4, EventKeepsRoots
<1>18. QED BY <1>8, <1>9, <1>13, <1>15, <1>16, <1>17 DEF WebCoInv

\* Positions and events stay.
LEMMA PageOnly ==
  ASSUME WebCoInv, UNCHANGED <<userPositions, events>>, WebCoTypes',
         \A a \in WebAccount : (CacheHas(a))', \A s \in LogScan : (ScanHas(s))'
  PROVE  WebCoInv'
<1>1. NextToken' = NextToken /\ Block' = Block
  BY DEF NextToken, Block
<1>2. TokensBelow' /\ TokensOwned'
  BY <1>1 DEF WebCoInv, TokensBelow, TokensOwned
<1>3. \A a \in WebAccount : (LiveOf(a))'
  BY <1>1 DEF WebCoInv, LiveOf, Ends
<1>4. Chained' /\ Rooted'
  BY <1>1 DEF WebCoInv, Chained, Rooted, Closed, Rebalances
<1>5. QED BY <1>2, <1>3, <1>4 DEF WebCoInv

\* Caches and scans stay too, or the scans end.
LEMMA ScansStay ==
  ASSUME WebCoInv, UNCHANGED <<userPositions, events, cache, crossed>>,
         userAddress' \in WebAccount, wallet' \in WebAccount,
         \A s \in LogScan : scan'[s] = scan[s] \/ scan'[s] = NoScan,
         scan' \in [LogScan -> [me : WebAccount \cup {NoAccount}, kept : SUBSET Nat, next : Nat, to : Nat]]
  PROVE  WebCoInv'
<1>1. WebCoTypes'
  BY DEF WebCoInv, WebCoTypes
<1>2. Block' = Block /\ Len(events') = Len(events) /\ \A a, i : Keeps(a, i)' <=> Keeps(a, i)
  BY DEF Block, Keeps
<1>3. \A a \in WebAccount : (CacheHas(a))'
  BY <1>2 DEF WebCoInv, CacheHas, HasRead
<1>4. ASSUME NEW s \in LogScan PROVE (ScanHas(s))'
  <2>1. ScanHas(s)
    BY DEF WebCoInv
  <2>2. CASE scan'[s] = scan[s]
    BY <1>2, <2>1, <2>2 DEF ScanHas, HasRead
  <2>3. CASE scan'[s] = NoScan
    BY <2>3 DEF ScanHas, NoScan
  <2>4. QED BY <2>2, <2>3
<1>5. QED BY <1>1, <1>3, <1>4, PageOnly

LEMMA RefreshKeeps ==
  ASSUME WebCoInv, NEW s \in LogScan, Refresh(s)
  PROVE  WebCoInv'
<1>1. /\ wallet \in WebAccount /\ CacheHas(wallet) /\ Len(events) \in Nat /\ Reorg \in Nat
      /\ cache \in [WebAccount -> [kept : SUBSET Nat, next : Nat]]
      /\ scan \in [LogScan -> [me : WebAccount \cup {NoAccount}, kept : SUBSET Nat, next : Nat, to : Nat]]
      /\ UNCHANGED <<userPositions, events, wallet, cache, crossed>> /\ userAddress' = wallet
  BY WebCoLPAssumption DEF WebCoInv, WebCoTypes, Refresh
<1>2. events # <<>> /\ events \in Seq(EventRec)
  BY DEF Refresh, WebCoInv, WebCoTypes
<1>3. Len(events) >= 1
  BY <1>1, <1>2
<1>4. PICK n \in Nat : n = IF cache[wallet].next > Reorg THEN cache[wallet].next - Reorg ELSE 1
  BY <1>1
<1>5. cache[wallet].next \in Nat /\ cache[wallet].kept \in SUBSET Nat
  BY <1>1
<1>6. n <= Len(events) + 1 /\ (n <= cache[wallet].next \/ n = 1) /\ n # 0
  BY <1>1, <1>3, <1>4, <1>5 DEF CacheHas
<1>7. PICK r : r = [me |-> wallet, kept |-> cache[wallet].kept, to |-> Len(events), next |-> n]
  OBVIOUS
<1>8. scan' = [scan EXCEPT ![s] = r]
  BY <1>4, <1>7 DEF Refresh, StartScan
<1>9. r.me = wallet /\ r.kept = cache[wallet].kept /\ r.to = Len(events) /\ r.next = n
  BY <1>7
<1>10. scan' \in [LogScan -> [me : WebAccount \cup {NoAccount}, kept : SUBSET Nat, next : Nat, to : Nat]]
  BY <1>1, <1>5, <1>7, <1>8
<1>11. WebCoTypes'
  BY <1>1, <1>10 DEF WebCoInv, WebCoTypes
<1>12. Block' = Block /\ Len(events') = Len(events) /\ \A a, i : Keeps(a, i)' <=> Keeps(a, i)
  BY <1>1 DEF Block, Keeps
<1>13. \A a \in WebAccount : (CacheHas(a))'
  BY <1>1, <1>12 DEF WebCoInv, CacheHas, HasRead
<1>14. ASSUME NEW x \in LogScan PROVE (ScanHas(x))'
  <2>1. CASE x # s
    <3>1. scan'[x] = scan[x]
      BY <1>1, <1>8, <2>1
    <3>2. QED BY <1>1, <1>12, <3>1 DEF WebCoInv, ScanHas, HasRead
  <2>2. CASE x = s
    <3>1. scan'[x] = r
      BY <1>1, <1>8, <2>2
    <3>2. wallet \notin crossed => HasRead(r.kept, r.next, wallet)
      <4>1. SUFFICES ASSUME wallet \notin crossed, NEW i \in Block, i < n, Keeps(wallet, i)
                     PROVE  i \in r.kept
        BY <1>9 DEF HasRead
      <4>2. i \in 1..Len(events)
        BY DEF Block
      <4>3. i < cache[wallet].next
        BY <1>1, <1>4, <1>5, <1>6, <4>1, <4>2
      <4>4. QED BY <1>1, <1>9, <4>1, <4>3 DEF CacheHas, HasRead
    <3>3. wallet \notin crossed => \A i \in Block : i < n /\ Keeps(wallet, i) => i \in r.kept
      BY <1>9, <3>2 DEF HasRead
    <3>4. crossed' = crossed
      BY <1>1
    <3>5. scan'[x].me = wallet /\ scan'[x].kept = r.kept /\ scan'[x].next = n /\ scan'[x].to = Len(events)
      BY <1>9, <3>1
    <3>6. r.kept \subseteq Block
      BY <1>1, <1>9 DEF CacheHas
    <3>7. QED BY <1>1, <1>6, <1>12, <3>3, <3>4, <3>5, <3>6 DEF ScanHas, HasRead
  <2>3. QED BY <2>1, <2>2
<1>15. QED BY <1>1, <1>11, <1>13, <1>14, PageOnly

LEMMA ScanChunkKeeps ==
  ASSUME WebCoInv, NEW s \in LogScan, ScanChunk(s)
  PROVE  WebCoInv'
<1>1. /\ userAddress \in WebAccount /\ Len(events) \in Nat /\ ScanHas(s)
      /\ cache \in [WebAccount -> [kept : SUBSET Nat, next : Nat]]
      /\ scan \in [LogScan -> [me : WebAccount \cup {NoAccount}, kept : SUBSET Nat, next : Nat, to : Nat]]
      /\ UNCHANGED <<userPositions, events, wallet, userAddress>>
  BY DEF WebCoInv, WebCoTypes, ScanChunk
<1>2. PICK i \in Nat, t \in Nat, a \in WebAccount : i = scan[s].next /\ t = scan[s].to /\ a = scan[s].me
  BY <1>1 DEF ScanChunk
<1>3. PICK kept : kept = scan[s].kept \cup {j \in {i} : Keeps(a, j)}
  OBVIOUS
<1>4. PICK m \in Nat : m = i + 1
  OBVIOUS
<1>5. /\ a # NoAccount /\ i <= t /\ t <= Len(events)
      /\ scan' = [scan EXCEPT ![s] = IF i = @.to THEN NoScan ELSE [@ EXCEPT !.kept = kept, !.next = m]]
      /\ cache' = [cache EXCEPT ![userAddress] = [kept |-> kept, next |-> m]]
      /\ crossed' = IF a = userAddress THEN crossed ELSE crossed \cup {userAddress}
  BY <1>1, <1>2, <1>3, <1>4 DEF ScanChunk, ScanHas
<1>6. /\ scan[s].kept \subseteq Block /\ kept \subseteq Block /\ m <= t + 1 /\ m # 0
      /\ (a \notin crossed => \A j \in Block : j < m /\ Keeps(a, j) => j \in kept)
  <2>1. scan[s].kept \subseteq Block /\ (a \notin crossed => HasRead(scan[s].kept, i, a))
    BY <1>1, <1>2, <1>5 DEF ScanHas
  <2>2. kept \subseteq Block
    <3>1. i # 0
      BY <1>1, <1>2, <1>5 DEF ScanHas
    <3>2. i \in Block
      BY <1>1, <1>5, <3>1 DEF Block
    <3>3. QED BY <1>3, <2>1, <3>2
  <2>3. a \notin crossed => \A j \in Block : j < m /\ Keeps(a, j) => j \in kept
    <3>1. SUFFICES ASSUME a \notin crossed, NEW j \in Block, j < m, Keeps(a, j) PROVE j \in kept
      OBVIOUS
    <3>2. j \in Nat /\ (j < i \/ j = i)
      BY <1>1, <1>4, <3>1 DEF Block
    <3>3. CASE j < i
      BY <1>3, <2>1, <3>1, <3>3 DEF HasRead
    <3>4. CASE j = i
      BY <1>3, <3>1, <3>4
    <3>5. QED BY <3>2, <3>3, <3>4
  <2>4. QED BY <1>4, <1>5, <2>1, <2>2, <2>3
<1>7. Block' = Block /\ Len(events') = Len(events) /\ Block \subseteq Nat
      /\ \A x, j : Keeps(x, j)' <=> Keeps(x, j)
  BY <1>1 DEF Block, Keeps
<1>8. \A x : x \notin crossed' => x \notin crossed
  BY <1>5
<1>9. PICK C : C = [kept |-> kept, next |-> m]
  OBVIOUS
<1>10. /\ C \in [kept : SUBSET Nat, next : Nat] /\ C.kept = kept /\ C.next = m
       /\ cache' = [cache EXCEPT ![userAddress] = C]
  BY <1>5, <1>6, <1>7, <1>9
<1>11. cache' \in [WebAccount -> [kept : SUBSET Nat, next : Nat]]
       /\ cache'[userAddress] = C /\ \A b \in WebAccount : b # userAddress => cache'[b] = cache[b]
  BY <1>1, <1>10
<1>12. /\ scan' \in [LogScan -> [me : WebAccount \cup {NoAccount}, kept : SUBSET Nat, next : Nat, to : Nat]]
       /\ \A x \in LogScan : x # s => scan'[x] = scan[x]
       /\ scan'[s] = NoScan \/ (/\ scan'[s].me = a /\ scan'[s].to = t /\ i # t
                                /\ scan'[s].kept = kept /\ scan'[s].next = m)
  <2>1. CASE i = scan[s].to
    <3>1. scan' = [scan EXCEPT ![s] = NoScan]
      BY <1>5, <2>1
    <3>2. NoScan \in [me : WebAccount \cup {NoAccount}, kept : SUBSET Nat, next : Nat, to : Nat]
      BY DEF NoScan
    <3>3. QED BY <1>1, <3>1, <3>2
  <2>2. CASE i # scan[s].to
    <3>1. PICK R : R = [scan[s] EXCEPT !.kept = kept, !.next = m]
      OBVIOUS
    <3>2. scan' = [scan EXCEPT ![s] = R]
      BY <1>5, <2>2, <3>1
    <3>3. scan[s] \in [me : WebAccount \cup {NoAccount}, kept : SUBSET Nat, next : Nat, to : Nat]
          /\ kept \in SUBSET Nat
      BY <1>1, <1>6, <1>7
    <3>4. /\ R \in [me : WebAccount \cup {NoAccount}, kept : SUBSET Nat, next : Nat, to : Nat]
          /\ R.me = a /\ R.to = t /\ R.kept = kept /\ R.next = m
      BY <1>2, <3>1, <3>3
    <3>5. QED BY <1>1, <1>2, <2>2, <3>2, <3>4
  <2>3. QED BY <2>1, <2>2
<1>13. WebCoTypes'
  BY <1>1, <1>11, <1>12 DEF WebCoInv, WebCoTypes
<1>14. ASSUME NEW b \in WebAccount PROVE (CacheHas(b))'
  <2>1. CASE b # userAddress
    <3>1. CacheHas(b) /\ cache'[b] = cache[b]
      BY <1>11, <2>1 DEF WebCoInv
    <3>2. QED BY <1>1, <1>7, <1>8, <3>1 DEF CacheHas, HasRead
  <2>2. CASE b = userAddress
    <3>1. cache'[b].kept = kept /\ cache'[b].next = m
      BY <1>10, <1>11, <2>2
    <3>2. m <= Len(events) + 1
      BY <1>1, <1>5, <1>6
    <3>3. b \notin crossed' => a = b /\ a \notin crossed
      BY <1>5, <2>2
    <3>4. QED BY <1>6, <1>7, <3>1, <3>2, <3>3 DEF CacheHas, HasRead
  <2>3. QED BY <2>1, <2>2
<1>15. ASSUME NEW x \in LogScan PROVE (ScanHas(x))'
  <2>1. CASE x # s
    <3>1. ScanHas(x) /\ scan'[x] = scan[x]
      BY <1>12, <2>1 DEF WebCoInv
    <3>2. QED BY <1>1, <1>7, <1>8, <3>1 DEF ScanHas, HasRead
  <2>2. CASE x = s /\ scan'[s] = NoScan
    BY <2>2 DEF ScanHas, NoScan
  <2>3. CASE x = s /\ scan'[s] # NoScan
    <3>1. /\ scan'[x].me = a /\ scan'[x].to = t /\ scan'[x].kept = kept /\ scan'[x].next = m
      BY <1>12, <2>3
    <3>2. QED BY <1>5, <1>6, <1>7, <1>8, <3>1 DEF ScanHas, HasRead
  <2>4. QED BY <2>1, <2>2, <2>3
<1>16. QED BY <1>1, <1>13, <1>14, <1>15, PageOnly

LEMMA WebCoNextInv ==
  ASSUME WebCoInv, WebCoLPNext
  PROVE  WebCoInv'
<1>1. /\ userAddress \in WebAccount /\ wallet \in WebAccount
      /\ scan \in [LogScan -> [me : WebAccount \cup {NoAccount}, kept : SUBSET Nat, next : Nat, to : Nat]]
      /\ NoScan \in [me : WebAccount \cup {NoAccount}, kept : SUBSET Nat, next : Nat, to : Nat]
  BY DEF WebCoInv, WebCoTypes, NoScan
<1>2. ASSUME NEW a \in WebAccount, SwitchAccount(a) PROVE WebCoInv'
  BY <1>1, <1>2, ScansStay DEF SwitchAccount
<1>3. ASSUME NEW a \in WebAccount, NEW t \in Token, Unwound(a, t) \/ Rebalanced(a, t) PROVE WebCoInv'
  <2>1. t \in Nat
    BY WebCoLPAssumption DEF Token
  <2>2. QED BY <1>3, <2>1, UnwoundKeeps, RebalancedKeeps
<1>4. ASSUME NEW s \in LogScan, Refresh(s) \/ ScanChunk(s) PROVE WebCoInv'
  BY <1>4, RefreshKeeps, ScanChunkKeeps
<1>5. ASSUME NEW s \in LogScan, ScanFails(s) PROVE WebCoInv'
  <2>1. scan' = [scan EXCEPT ![s] = NoScan] /\ UNCHANGED <<userPositions, events, userAddress, wallet, cache, crossed>>
    BY <1>5 DEF ScanFails
  <2>2. \A x \in LogScan : scan'[x] = scan[x] \/ scan'[x] = NoScan
    BY <1>1, <2>1
  <2>3. scan' \in [LogScan -> [me : WebAccount \cup {NoAccount}, kept : SUBSET Nat, next : Nat, to : Nat]]
    BY <1>1, <2>1
  <2>4. QED BY <1>1, <2>1, <2>2, <2>3, ScansStay
<1>6. CASE StartOpen \/ ManagePosition \/ ApproveWsxmr
  <2>1. UNCHANGED <<userPositions, events, cache, crossed, scan, wallet>> /\ userAddress' \in WebAccount
    BY <1>1, <1>6 DEF StartOpen, ManagePosition, ApproveWsxmr
  <2>2. QED BY <1>1, <2>1, ScansStay
<1>7. CASE SendOpen
  <2>1. UNCHANGED <<cache, crossed, scan, wallet, userAddress>>
    BY <1>7 DEF SendOpen
  <2>2. CASE Deployed(wallet)
    BY <1>1, <2>1, <2>2, DeployedKeeps
  <2>3. CASE UNCHANGED <<userPositions, events>>
    BY <1>1, <2>1, <2>3, ScansStay
  <2>4. QED BY <1>7, <2>2, <2>3 DEF SendOpen
<1>8. CASE ReloadTab
  <2>1. scan' = [s \in LogScan |-> NoScan] /\ UNCHANGED <<userPositions, events, userAddress, wallet, cache, crossed>>
    BY <1>8 DEF ReloadTab
  <2>2. QED BY <1>1, <2>1, ScansStay
<1>9. QED BY <1>2, <1>3, <1>4, <1>5, <1>6, <1>7, <1>8 DEF WebCoLPNext

LEMMA WebCoInitInv ==
  ASSUME WebCoLPInit
  PROVE  WebCoInv
<1>1. /\ events = <<>> /\ Len(events) = 0 /\ Block = {} /\ events \in Seq(EventRec)
  BY DEF WebCoLPInit, Block
<1>2. WebCoTypes
  BY <1>1, WebCoLPAssumption DEF WebCoLPInit, WebCoTypes, NoScan
<1>3. NextToken \in Nat
  <2>1. {events[i].token : i \in Block} = {}
    BY <1>1
  <2>2. QED BY <2>1, FS_EmptySet DEF NextToken
<1>4. TokensBelow /\ TokensOwned
  BY <1>1, <1>3 DEF TokensBelow, TokensOwned
<1>5. \A a \in WebAccount : LiveOf(a) /\ CacheHas(a)
  BY <1>1 DEF WebCoLPInit, LiveOf, CacheHas, HasRead
<1>6. \A s \in LogScan : ScanHas(s)
  BY DEF WebCoLPInit, NoScan, ScanHas
<1>7. Chained /\ Rooted
  BY <1>1 DEF Chained, Rooted, Rebalances
<1>8. QED BY <1>2, <1>4, <1>5, <1>6, <1>7 DEF WebCoInv

\* The cached list of an account is its live positions once the last block is scanned,
\* once each or, if a rebalance made them, twice, for any number of accounts, scans,
\* events and failures, unless a scan of another account was saved over it (_scanCoLPEvents, _buildActivePositions, coLPFlow.js).
THEOREM CachedListIsExact == EndpointsSpec => []CachedListExact
<1>1. EndpointsInit => WebCoInv
  BY WebCoInitInv DEF EndpointsInit
<1>2. WebCoInv /\ [EndpointsNext]_<<part, solWalletVars, scanVars, solMintVars, solBurnVars,
        webVars, keyVars, pageScanVars, coLPVars, webCoLPVars>> => WebCoInv'
  <2>1. ASSUME WebCoInv, UNCHANGED webCoLPVars PROVE WebCoInv'
    <3>1. UNCHANGED <<userPositions, events, cache, crossed, scan, userAddress, wallet>>
      BY <2>1 DEF webCoLPVars
    <3>2. WebCoTypes
      BY <2>1 DEF WebCoInv
    <3>3. QED BY <2>1, <3>1, <3>2, ScansStay DEF WebCoTypes
  <2>2. QED
    BY <2>1, WebCoNextInv DEF EndpointsNext, walletPart, solWalletPart, scanPart, solMintPart,
       solBurnPart, webPart, keyPart, pageScanPart, coLPPart, webCoLPPart
<1>3. WebCoInv => CachedListExact
  BY WebCoInvLists
<1>4. QED BY <1>1, <1>2, <1>3, PTL DEF EndpointsSpec
=============================================================================
