----------------------------- MODULE MCMagnaWallet -----------------------------
(* A behaviour is about two tabs that open the deployed wallet they share,  *)
(* about one tab and the keys a person may confuse, or about one tab and    *)
(* one wallet whose node is reset.                                          *)
EXTENDS MagnaWalletSafety, TLC

CONSTANTS t1, t2, Mine, Focus
TabSymmetry == Permutations({t1, t2})

VARIABLE about
MCInit == /\ Init /\ profile = AccountOf(Mine) /\ about \in Focus
          /\ about = "tabs" => deployed # {}
Chosen(f) ==
    /\ about = "tabs" /\ f # Idle => f.kind = "stored" /\ f.aim = "session"
    /\ f # Idle /\ f.account # None =>
         f.account.key = f.account.prf \/ (about = "keys" /\ f.account.prf = Mine)
(* Another device deploys an account when this one asks whether it is there. *)
Asking == \E t \in Tab : Flow(t).stage \in {"status", "deploy"}
Keys == /\ chain' = chain /\ \A t \in Tab : tabs[t].ready => tabs'[t].seen = 0
        /\ deployed' # deployed => Asking
Chains == /\ deployed' # deployed => \E t \in Tab : tabs'[t] # tabs[t]
          /\ about = "reset" => passkeys' = passkeys
MCNext ==
    /\ Next /\ UNCHANGED about
    /\ IF about = "keys" THEN Keys ELSE Chains
    /\ about # "tabs" => \E t \in Tab : tabs'[t] = Load(1)
    /\ \A t \in Tab : Cardinality(tabs'[t].repairs) <= 1 /\ Chosen(tabs'[t].flow)
MCSpec == MCInit /\ [][MCNext]_<<vars, about>>
=============================================================================
