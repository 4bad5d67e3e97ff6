--------------------------- MODULE MagnaWalletSafety ---------------------------
(* What the wallet lifecycle promises to the pages that use it.             *)
EXTENDS MagnaWallet

(* App.tsx:741: "the next reload must retry instead of accepting stale PXE  *)
(* cursors".  The fingerprint is never ahead of the store, and a wallet     *)
(* restored by itself sits on a store at least as new as its page, though   *)
(* the node is reset, tabs check at different times and one blocks another. *)
StaleStoreIsNotRestored ==
    /\ store # None => committed <= store.chain
    /\ \A t \in Tab : Session(t) # Closed /\ Session(t).auto => tabs[t].born <= store.chain

(* The store belongs to the wallet that is open or being opened, and to no  *)
(* one after a refusal, a failure or a switch: no wallet is left behind     *)
(* that would keep every other from opening (App.tsx:1105-1121,             *)
(* webauthn-session.ts:658, recovery-wallet.ts:55).                         *)
StoreHasAnOwner == \A t \in Tab :
    /\ owner = t <=> Session(t) # Closed \/ (Flow(t).stage \notin {"idle", "open"})
    /\ owner = t => store # None

(* A wallet shown as ready has been deployed, by this browser or another    *)
(* device, and its PXE holds the note its signatures need; a destination of *)
(* a recovery is deployed too (lifecycle.ts:232-276, recovery-wallet.ts:52).*)
ReadyMeansReady ==
    /\ \A t \in Tab : Session(t) # Closed /\ Session(t).ready =>
          /\ Session(t).account \in store.notes
          /\ \E d \in deployed : d.account = Session(t).account /\ d.chain >= store.chain
    /\ target # None => \E d \in deployed : d.account = target.address /\ d.chain >= target.chain

(* A wallet this browser remembers stays remembered, however many others    *)
(* are added, opened, recovered and repaired in any tab: the record of a    *)
(* passkey's own wallet is displaced only when that passkey's account under *)
(* another's key is saved.  Such an account comes from a key the person     *)
(* entered, from the key kept with the recovery target, or from a profile   *)
(* that is itself such a wallet, and from the repair of its record (App.tsx *)
(* 653-673, 1260-1267; webauthn-session.ts:129-173, 601-622).               *)
Foreign(account, p) == account.prf = p /\ account.key # p
SavedByFlow(t, p) == LET f == tabs'[t].flow IN
    /\ f # tabs[t].flow /\ f # Idle /\ Foreign(f.account, p)
    /\ f.kind \in {"bundle", "target"} \/ (f.kind = "bound" /\ f.account = f.want)
SavedByRepair(t, p) == \E a \in tabs[t].repairs \ tabs'[t].repairs : Foreign(a, p)
RememberedWalletsStay ==
    [][\A r \in records \ records' : r.address = AccountOf(r.credential) =>
          \E t \in Tab : SavedByFlow(t, r.credential) \/ SavedByRepair(t, r.credential)]_vars
=============================================================================
