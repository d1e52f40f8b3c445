------------------------------ MODULE Endpoints ------------------------------
(***************************************************************************)
(* What the hub's swaps meet at the two ends: the LP's main wallet-rpc and *)
(* its watch for deposits, the Solana node's wallet, mints and burns, the  *)
(* page of the web client, its watch for a burn's payment, the keys of one *)
(* swap, the co-LP positions of a vault and the page's list of them.  No   *)
(* two of them share state that is modelled: a behaviour is one of one     *)
(* part, and the parts' state spaces add.                                  *)
(***************************************************************************)
EXTENDS SolanaWallet, DepositScan, SolanaMints, SolanaBurns, WebClient, MCKeys, PageScan,
        CoLP, WebCoLP

VARIABLE part   \* the part that runs

walletPart == part = "wallet" /\ WalletNext /\ UNCHANGED <<opening, early>>
solWalletPart == part = "solWallet" /\ SolWalletNext
scanPart == part = "scan" /\ ScanNext
solMintPart == part = "solMints" /\ SolMintNext
solBurnPart == part = "solBurns" /\ SolBurnNext
webPart == part = "web" /\ WebNext
keyPart == part = "keys" /\ KeyNext
pageScanPart == part = "pageScan" /\ PageScanNext
coLPPart == part = "coLP" /\ CoLPNext
webCoLPPart == part = "webCoLP" /\ WebCoLPNext

EndpointsInit ==
  /\ part \in {"wallet", "solWallet", "scan", "solMints", "solBurns", "web", "keys",
               "pageScan", "coLP", "webCoLP"}
  /\ \/ part = "solWallet" /\ SolWalletInit
     \/ part # "solWallet" /\ WalletInit /\ opening = "done" /\ early = {}
  /\ part \in {"wallet", "solWallet"} \/ \A i \in Sweeps : money[i] = "locked"
  /\ ScanInit
  /\ SolMintInit /\ (part = "solMints" \/ mintMode = "none")
  /\ SolBurnInit /\ (part = "solBurns" \/ ~burnWallet)
  /\ WebInit
  /\ KeyInit /\ (part = "keys" \/ swap = "mint")
  /\ PageScanInit /\ (part = "pageScan" \/ told)
  /\ CoLPInit /\ (part = "coLP" \/ \A v \in CoVault : covault[v].locked = 0)
  /\ WebCoLPInit

EndpointsNext ==
  \/ (walletPart \/ solWalletPart)
     /\ UNCHANGED <<part, scanVars, solMintVars, solBurnVars, webVars, keyVars,
                    pageScanVars, coLPVars, webCoLPVars>>
  \/ scanPart /\ UNCHANGED <<part, solWalletVars, solMintVars, solBurnVars, webVars,
                             keyVars, pageScanVars, coLPVars, webCoLPVars>>
  \/ solMintPart /\ UNCHANGED <<part, solWalletVars, scanVars, solBurnVars, webVars,
                                keyVars, pageScanVars, coLPVars, webCoLPVars>>
  \/ solBurnPart /\ UNCHANGED <<part, solWalletVars, scanVars, solMintVars, webVars,
                                keyVars, pageScanVars, coLPVars, webCoLPVars>>
  \/ webPart /\ UNCHANGED <<part, solWalletVars, scanVars, solMintVars, solBurnVars,
                            keyVars, pageScanVars, coLPVars, webCoLPVars>>
  \/ keyPart /\ UNCHANGED <<part, solWalletVars, scanVars, solMintVars, solBurnVars,
                            webVars, pageScanVars, coLPVars, webCoLPVars>>
  \/ pageScanPart /\ UNCHANGED <<part, solWalletVars, scanVars, solMintVars,
                                 solBurnVars, webVars, keyVars, coLPVars,
                                 webCoLPVars>>
  \/ coLPPart /\ UNCHANGED <<part, solWalletVars, scanVars, solMintVars, solBurnVars,
                             webVars, keyVars, pageScanVars, webCoLPVars>>
  \/ webCoLPPart /\ UNCHANGED <<part, solWalletVars, scanVars, solMintVars,
                                solBurnVars, webVars, keyVars, pageScanVars,
                                coLPVars>>

EndpointsSpec ==
  EndpointsInit /\ [][EndpointsNext]_<<part, solWalletVars, scanVars, solMintVars, solBurnVars,
                                      webVars, keyVars, pageScanVars, coLPVars, webCoLPVars>>
=============================================================================
