----------------------------- MODULE KickWatcher -----------------------------
(***************************************************************************)
(* The kick watcher of the LP server (lp-server-js/kickWatcher.js): one    *)
(* poll at a time, it notes the kicks it reads from events, cancels a kick *)
(* of its own vault in the grace phase and bids on other vaults' auctions. *)
(***************************************************************************)
EXTENDS Naturals

CONSTANTS Vault, OwnVault,    \* the vaults that are kicked, one of them the LP's
          MaxKicks,           \* bounds the kicks of the LP's vault
          MaxKickTroubles     \* bounds failed calls, restarts and changes of the wallet's funds

ASSUME KickAssumption == OwnVault \in Vault /\ {MaxKicks, MaxKickTroubles} \subseteq Nat

Phases == <<"GRACE", "OPEN_DELAY", "ACTIVE", "ENDED">>

VARIABLES auction,      \* per vault: phase or "none", kicks so far
          kickEvents,   \* KickStarted, ReauctionStarted, AuctionSettled not read yet
          watched,      \* the Map: per vault, noted and the attempts made
          visit, acting, \* the vaults the running tick has still to visit, and the one
                        \* it sends a transaction for; both {} if it is not busy
          autocancel, seeded, \* KICK_AUTOCANCEL and SEEDED_BIDDER, both off by default
          funded,       \* whether the wallet has what a cancellation or a bid takes
          kickFaults

walletVars == <<autocancel, seeded, funded>>
kickVars == <<auction, kickEvents, watched, visit, acting, walletVars, kickFaults>>

Unwatched == [noted |-> FALSE, cancelAttempted |-> FALSE, bidAttempted |-> FALSE]
KickFault == kickFaults < MaxKickTroubles /\ kickFaults' = kickFaults + 1
AuctionEnds(v) == auction' = [auction EXCEPT ![v].phase = "none"]

\* kick or reauction, by anybody; a vault that is not the LP's is kicked once.
KickStarts(v) ==
  /\ auction[v].phase = "none" /\ auction[v].kicks < (IF v = OwnVault THEN MaxKicks ELSE 1)
  /\ auction' = [auction EXCEPT ![v] = [phase |-> "GRACE", kicks |-> @.kicks + 1]]
  /\ kickEvents' = kickEvents \cup {<<"started", v>>}
  /\ UNCHANGED <<watched, visit, acting, walletVars, kickFaults>>

\* The wallet is emptied, or filled.
FundsMove ==
  /\ funded' = ~funded /\ KickFault
  /\ UNCHANGED <<auction, kickEvents, watched, visit, acting, autocancel, seeded>>

\* The clock moves an auction on, and somebody else may end it.
KickMoves(v) ==
  /\ auction[v].phase # "none"
  /\ \/ \E i \in 1 .. 3 : /\ auction[v].phase = Phases[i]
                          /\ auction' = [auction EXCEPT ![v].phase = Phases[i + 1]]
        /\ UNCHANGED kickEvents
     \/ AuctionEnds(v) /\ kickEvents' \in {kickEvents, kickEvents \cup {<<"settled", v>>}}
  /\ UNCHANGED <<watched, visit, acting, walletVars, kickFaults>>

\* Mutant: the entry of an earlier kick keeps its attempts.
FreshEntryKept(v) == [watched[v] EXCEPT !.noted = TRUE]

FreshEntry(v) == [Unwatched EXCEPT !.noted = TRUE]

\* A tick reads the events, the starts before the settlements: a settlement deletes
\* the entry of a start read with it, also of one that came after it.
ReadKickEvents ==
  LET started(v) == <<"started", v>> \in kickEvents
      settled(v) == <<"settled", v>> \in kickEvents
      now == [v \in Vault |-> IF settled(v) THEN Unwatched
                              ELSE IF started(v) THEN FreshEntry(v)
                              ELSE watched[v]] IN
  /\ visit = {} /\ acting = {}
  /\ watched' = now /\ kickEvents' = {}
  /\ visit' = {v \in Vault : now[v].noted}
  /\ UNCHANGED <<auction, acting, walletVars, kickFaults>>

\* A query fails after some events were noted: the next tick notes them again.
ReadFails ==
  /\ visit = {} /\ acting = {} /\ kickEvents # {} /\ KickFault
  /\ \E seen \in SUBSET {v \in Vault : <<"started", v>> \in kickEvents} :
       watched' = [v \in Vault |-> IF v \in seen THEN FreshEntry(v)
                                   ELSE watched[v]]
  /\ UNCHANGED <<auction, kickEvents, visit, acting, walletVars>>

\* The tick reads the auction of a noted vault.  Without one the vault is
\* forgotten.  The LP's own in its grace phase is to be cancelled, somebody
\* else's is bid on while the price is high: one attempt per entry.
VisitVault(v) ==
  LET phase == auction[v].phase
      own == v = OwnVault
      flag == IF own THEN "cancelAttempted" ELSE "bidAttempted"
      wanted == /\ ~watched[v][flag]
                /\ IF own THEN phase = "GRACE" /\ autocancel ELSE phase = "ACTIVE" /\ seeded /\ funded IN
  /\ v \in visit /\ acting = {} /\ visit' = visit \ {v}
  /\ \/ phase = "none" /\ watched' = [watched EXCEPT ![v] = Unwatched] /\ UNCHANGED <<acting, kickFaults>>
     \/ /\ wanted /\ acting' = {v} /\ watched' = [watched EXCEPT ![v][flag] = TRUE]
        /\ UNCHANGED kickFaults
     \/ phase # "none" /\ (own => ~wanted) /\ UNCHANGED <<watched, acting, kickFaults>>
     \/ KickFault /\ UNCHANGED <<watched, acting>>
  /\ UNCHANGED <<auction, kickEvents, walletVars>>

\* cancelOwnKick and maybeSeedBid: a minimal repayment or deposit ends the kick,
\* the bid clears the auction, if it is still in the phase that was read.  A wallet
\* without funds cancels nothing, and that was the attempt.
Attempted(v) ==
  LET open == funded /\ auction[v].phase = (IF v = OwnVault THEN "GRACE" ELSE "ACTIVE") IN
  /\ v \in acting /\ acting' = {}
  /\ \/ /\ open /\ AuctionEnds(v) /\ UNCHANGED kickFaults
        /\ kickEvents' = IF v = OwnVault THEN kickEvents ELSE kickEvents \cup {<<"settled", v>>}
     \/ open /\ KickFault /\ UNCHANGED <<auction, kickEvents>>
     \/ ~open /\ UNCHANGED <<auction, kickEvents, kickFaults>>
  /\ UNCHANGED <<watched, visit, walletVars>>

\* A restart forgets the Map and reads the last 9999 blocks again.
RestartWatcher ==
  /\ KickFault
  /\ watched' = [v \in Vault |-> Unwatched] /\ visit' = {} /\ acting' = {}
  /\ kickEvents' = {<<"started", v>> : v \in {w \in Vault : auction[w].phase # "none"}}
  /\ UNCHANGED <<auction, walletVars>>

KickInit ==
  /\ auction = [v \in Vault |-> [phase |-> "none", kicks |-> 0]]
  /\ kickEvents = {} /\ watched = [v \in Vault |-> Unwatched] /\ visit = {}
  /\ acting = {} /\ kickFaults = 0 /\ autocancel \in BOOLEAN /\ seeded \in BOOLEAN /\ funded \in BOOLEAN

KickNext ==
  \/ \E v \in Vault : KickStarts(v) \/ KickMoves(v) \/ VisitVault(v) \/ Attempted(v)
  \/ ReadKickEvents \/ ReadFails \/ RestartWatcher \/ FundsMove

\* setInterval starts a tick every 30 seconds, and a tick goes on to its end.
KickFairness ==
  WF_kickVars(ReadKickEvents \/ \E v \in Vault : VisitVault(v) \/ Attempted(v))

KickSpec == KickInit /\ [][KickNext]_kickVars /\ KickFairness

-----------------------------------------------------------------------------
\* With KICK_AUTOCANCEL on, funds in the wallet and no call that fails, a kick of
\* the LP's own vault is cancelled, or its grace ends first: also the second kick of
\* a vault, whose entry the first one left behind.  A kick is passed over if it is
\* read together with a settlement of that vault (kickWatcher.js, tick), which deletes
\* its entry: the premise leaves that case out.
OwnKickCancelled ==
  (/\ autocancel /\ funded /\ auction[OwnVault].phase = "GRACE"
   /\ {k \in kickEvents : k[2] = OwnVault} = {<<"started", OwnVault>>})
    ~> (auction[OwnVault].phase # "GRACE" \/ kickFaults > 0)
=============================================================================
