------------------------------ MODULE MagnaWallet ------------------------------
(***************************************************************************)
(* The passkey wallets of the management app: tabs of one browser that     *)
(* share the passkey records, the wallet profile and the recovery target   *)
(* in localStorage and one persistent store (PXE and WalletDB) in OPFS,    *)
(* which one wallet at a time can hold.  A page learns from the node which *)
(* chain runs and disposes of the store of an older one; a wallet is       *)
(* opened from a record, from a public key or as a new passkey, its        *)
(* account derived, registered and deployed; recovery prepares a second    *)
(* account on the open wallet.  The node may be reset, a tab reloaded, a   *)
(* ceremony cancelled, a call may fail, another device deploy first.       *)
(***************************************************************************)
EXTENDS Naturals, FiniteSets

CONSTANTS
    Tab, NoTab,
    Passkey,            \* credentials of this relying party
    None,
    Funding,            \* deployWithLocalTestAccount: TRUE, FALSE
    MaxChain            \* chains the node may run, one after the other

(* An account is derived from the public key of its contract and the        *)
(* outputs of a passkey's PRF.                                              *)
Account == [key : Passkey, prf : Passkey]

(* A wallet that is open, and the persistent store.                         *)
Sessions == [account : Account, ready : BOOLEAN, auto : BOOLEAN]
Stores == [chain : Nat, notes : SUBSET Account]

ASSUME WalletAssumption ==
    /\ NoTab \notin Tab /\ None \notin Passkey \cup Account \cup Sessions \cup Stores
    /\ Funding \subseteq BOOLEAN /\ MaxChain \in Nat \ {0}

AccountOf(p) == [key |-> p, prf |-> p]

VARIABLES
    chain,      \* the chain the node runs
    deployed,   \* accounts initialized, with their chain
    passkeys,   \* credentials the authenticators hold
    records,    \* stored accounts: [credential, address]
    profile,    \* address of the remembered wallet, or None
    target,     \* recovery target: [address, chain], or None
    committed,  \* chain of the stored fingerprint
    store,      \* persistent store: [chain, notes], or None
    owner,      \* tab whose wallet holds it
    tabs        \* per tab [born, ready, check, seen, session, auto, flow,
                \* repairs: accounts whose record is being written again]

storage == <<records, profile, target, committed>>
vars == <<chain, deployed, passkeys, storage, store, owner, tabs>>

Idle == [stage |-> "idle"]
Closed == None
Fresh(c) == [chain |-> c, notes |-> {}]
Put(t, field, value) == tabs' = [tabs EXCEPT ![t] = [@ EXCEPT ![field] = value]]
Flow(t) == tabs[t].flow
Session(t) == tabs[t].session

-----------------------------------------------------------------------------
(* The page and the chain. *)

Load(c) == [born |-> c, ready |-> FALSE, check |-> "idle", seen |-> 0,
            session |-> Closed, auto |-> FALSE, flow |-> Idle, repairs |-> {}]

(* The document is replaced: its wallet dies with it and lets the store go. *)
Reload(t) ==
    /\ tabs' = [tabs EXCEPT ![t] = Load(chain)]
    /\ owner' = IF owner = t THEN NoTab ELSE owner
    /\ UNCHANGED <<chain, deployed, passkeys, storage, store>>

StartCheck(t) ==
    /\ tabs[t].check = "idle"
    /\ tabs' = [tabs EXCEPT ![t] = [@ EXCEPT !.check = "asked", !.ready = FALSE, !.seen = chain]]
    /\ UNCHANGED <<chain, deployed, passkeys, storage, store, owner>>

Changed(t) == committed # tabs[t].seen

Unchanged(t) ==
    /\ tabs[t].check = "asked" /\ ~Changed(t)
    /\ tabs' = [tabs EXCEPT ![t] = [@ EXCEPT !.check = "idle", !.seen = 0, !.ready = TRUE]]
    /\ UNCHANGED <<chain, deployed, passkeys, storage, store, owner>>

NewChainSeen(t) ==
    /\ tabs[t].check = "asked" /\ Changed(t)
    /\ Put(t, "check", "clearing")
    /\ UNCHANGED <<chain, deployed, passkeys, storage, store, owner>>

(* The databases go before the fingerprint is replaced; a store some wallet *)
(* holds cannot be deleted, and the page stays unprepared until its next    *)
(* check.                                                                   *)
CommitsAnyhow == TRUE
Disposes == owner = NoTab

Clear(t) ==
    /\ tabs[t].check = "clearing" /\ Disposes
    /\ store' = IF owner = NoTab THEN None ELSE store
    /\ committed' = tabs[t].seen
    /\ profile' = None /\ target' = None
    /\ tabs' = [tabs EXCEPT ![t] = [@ EXCEPT !.check = "idle", !.seen = 0, !.ready = TRUE,
                                             !.session = Closed, !.auto = FALSE]]
    /\ UNCHANGED <<chain, deployed, passkeys, records, owner>>

ClearFails(t) ==
    /\ tabs[t].check \in {"asked", "clearing"}
    /\ tabs' = [tabs EXCEPT ![t] = [@ EXCEPT !.check = "idle", !.seen = 0]]
    /\ UNCHANGED <<chain, deployed, passkeys, storage, store, owner>>

-----------------------------------------------------------------------------
(* What the pages ask: a wallet is opened from a stored record, from a      *)
(* public key, or with a new passkey; "target" prepares the destination of  *)
(* a recovery on the session that is open, if one is.                       *)

Request(kind, key, want, aim, auto) ==
    [stage |-> "open", kind |-> kind, key |-> key, want |-> want, aim |-> aim,
     auto |-> auto, account |-> None, ready |-> FALSE, again |-> FALSE]

(* selectStoredWebAuthnAccount without a credential refuses to choose.      *)
Selected(credential) ==
    IF credential = None THEN {r \in records : Cardinality(records) = 1}
    ELSE {r \in records : r.credential = credential}

Ask(t, request) ==
    /\ Flow(t) = Idle
    /\ Put(t, "flow", request)
    /\ UNCHANGED <<chain, deployed, passkeys, storage, store, owner>>

OpenStored(t) == \E r \in records :
    Ask(t, Request("stored", r.credential, r.address, "session", FALSE))
Reconnect(t) == \E r \in Selected(None) :
    Ask(t, Request("stored", r.credential, None, "session", FALSE))
Create(t, aim) == Ask(t, Request("new", None, None, aim, FALSE))
UsePublicKey(t, aim) == \E key \in passkeys :
    Ask(t, Request("bundle", key, None, aim, FALSE))
RestoreRemembered(t) ==
    /\ profile # None
    /\ Ask(t, Request("bound", profile.key, profile, "session", FALSE))

MayRestore(t) == tabs[t].ready

(* Once per document, and never before the chain has been checked.          *)
AutoRestore(t) ==
    /\ MayRestore(t) /\ ~tabs[t].auto /\ Session(t) = Closed /\ Flow(t) = Idle /\ profile # None
    /\ tabs' = [tabs EXCEPT ![t].auto = TRUE, ![t].flow =
         IF \E r \in records : r.address = profile
         THEN Request("stored", profile.prf, profile, "session", TRUE) ELSE Idle]
    /\ UNCHANGED <<chain, deployed, passkeys, storage, store, owner>>

Disconnect(t) ==
    /\ Flow(t) = Idle /\ Session(t) # Closed
    /\ owner' = NoTab /\ Put(t, "session", Closed)
    /\ UNCHANGED <<chain, deployed, passkeys, storage, store>>

(* Switching closes the source wallet before the target's is opened: from   *)
(* its record, or else with the key that was kept with the target, which    *)
(* names no address.                                                        *)
OpenTarget(t) ==
    /\ Flow(t) = Idle /\ target # None
    /\ owner' = IF Session(t) # Closed THEN NoTab ELSE owner
    /\ \E kind \in {"stored", "target"} :
          /\ kind = "stored" <=> \E r \in records : r.address = target.address
          /\ tabs' = [tabs EXCEPT ![t] = [@ EXCEPT !.session = Closed, !.flow =
               Request(kind, IF kind = "stored" THEN target.address.prf ELSE target.address.key,
                       target.address, "session", FALSE)]]
    /\ UNCHANGED <<chain, deployed, passkeys, storage, store>>

-----------------------------------------------------------------------------
(* createWebAuthnWalletSession and prepareWebAuthnRecoveryTarget. *)

(* A target is prepared on the open wallet; any other flow opens its own.   *)
Borrows(t) == Flow(t).aim = "target" /\ Session(t) # Closed
LeavesOpen(t) == owner' = owner /\ Put(t, "flow", Idle)
GivesUp(t) ==
    /\ owner' = IF owner = t /\ ~Borrows(t) THEN NoTab ELSE owner
    /\ Put(t, "flow", Idle)

Fail(t) ==
    /\ Flow(t) # Idle /\ Flow(t).stage # "open"
    /\ GivesUp(t)
    /\ UNCHANGED <<chain, deployed, passkeys, storage, store>>

(* openBrowserStore; held by another wallet, it cannot be opened.           *)
OpenStore(t) ==
    /\ Flow(t).stage = "open"
    /\ \/ /\ Borrows(t)
          /\ tabs' = [tabs EXCEPT ![t].flow.stage = "derive"] /\ UNCHANGED <<owner, store>>
       \/ /\ ~Borrows(t) /\ owner = NoTab
          /\ owner' = t /\ store' = IF store = None THEN Fresh(chain) ELSE store
          /\ tabs' = [tabs EXCEPT ![t].flow.stage = "derive"]
       \/ /\ ~Borrows(t) /\ owner # NoTab
          /\ Put(t, "flow", Idle) /\ UNCHANGED <<owner, store>>
    /\ UNCHANGED <<chain, deployed, passkeys, storage>>

(* registerWebAuthnCredential: the authenticator makes a key of its own.     *)
Registered == Passkey \ passkeys

(* The passkey that answers: bound to the record, chosen by the person      *)
(* among all of the relying party, or the one just registered.              *)
Answering(f) == CASE f.kind = "stored" -> {r.credential : r \in Selected(f.key)}
                  [] f.kind \in {"bundle", "target", "bound"} -> passkeys
                  [] f.kind = "new" -> Registered
PublicKey(f, p) ==
    CASE f.kind = "stored" -> (CHOOSE r \in records : r.credential = p).address.key
      [] f.kind \in {"bundle", "target", "bound"} -> f.key
      [] f.kind = "new" -> p

(* The value kept with a profile names its address; a bare key does not, and *)
(* the page compares the address it wants only after the record is saved.   *)
AnyAddress(f, account) == TRUE
Bound(f, account) == f.kind = "bound" => account = f.want

(* saveStoredWebAuthnAccount replaces what the passkey or address had.      *)
Saved(account) ==
    {r \in records : r.credential # account.prf /\ r.address # account}
        \cup {[credential |-> account.prf, address |-> account]}

Ceremony(t) ==
    /\ Flow(t).stage = "derive"
    /\ \E p \in Answering(Flow(t)) : LET account == [key |-> PublicKey(Flow(t), p), prf |-> p] IN
       /\ Bound(Flow(t), account)
       /\ passkeys' = passkeys \cup {p}
       /\ records' = IF Borrows(t) \/ Flow(t).kind = "stored" THEN records ELSE Saved(account)
       /\ tabs' = [tabs EXCEPT ![t].flow = [@ EXCEPT !.stage = "register", !.account = account]]
    /\ UNCHANGED <<chain, deployed, profile, target, committed, store, owner>>

(* Registered with its own artifact; the SDK's stub, which WalletDB brings  *)
(* in for gas simulations, is out of the way until the account is set up.   *)
Register(t) ==
    /\ Flow(t).stage = "register"
    /\ tabs' = [tabs EXCEPT ![t].flow.stage = "status"]
    /\ UNCHANGED <<chain, deployed, passkeys, storage, store, owner>>

(* Syncing a store of another chain may fail on its anchor block: the wallet *)
(* is stopped, the databases deleted, and the whole of it done once more.    *)
AnchorError(t) ==
    /\ Flow(t).stage \in {"register", "status"} /\ store.chain # chain
    /\ ~Borrows(t) /\ ~Flow(t).again
    /\ owner' = NoTab /\ store' = None
    /\ tabs' = [tabs EXCEPT ![t].flow = [@ EXCEPT !.stage = "open", !.again = TRUE, !.account = None]]
    /\ UNCHANGED <<chain, deployed, passkeys, storage>>

(* The PXE finds the account's configuration note with the real artifact,   *)
(* before a first gas simulation through the stub could discard it.         *)
Skipped(account) == store
Discovered(account) == [store EXCEPT !.notes = @ \cup {account}]
Initialized(account) == [account |-> account, chain |-> chain] \in deployed

ReadStatus(t) ==
    /\ Flow(t).stage = "status"
    /\ LET a == Flow(t).account IN
       \/ /\ Initialized(a)
          /\ store' = Discovered(a)
          /\ tabs' = [tabs EXCEPT ![t].flow = [@ EXCEPT !.stage = "persist", !.ready = TRUE]]
       \/ /\ ~Initialized(a) /\ store' = store
          /\ \E funded \in Funding :
                tabs' = [tabs EXCEPT ![t].flow.stage = IF funded THEN "deploy" ELSE "persist"]
    /\ UNCHANGED <<chain, deployed, passkeys, storage, owner>>

(* A deployment another device made first ("Existing nullifier") is taken   *)
(* for this one's, once the account has been read to be there.              *)
Deploy(t) ==
    /\ Flow(t).stage = "deploy"
    /\ deployed' = deployed \cup {[account |-> Flow(t).account, chain |-> chain]}
    /\ store' = Discovered(Flow(t).account)
    /\ tabs' = [tabs EXCEPT ![t].flow = [@ EXCEPT !.stage = "persist", !.ready = TRUE]]
    /\ UNCHANGED <<chain, passkeys, storage, owner>>

(* WalletDB is told of the account, and of a target its record is saved now. *)
Persist(t) ==
    /\ Flow(t).stage = "persist"
    /\ records' = IF Borrows(t) THEN Saved(Flow(t).account) ELSE records
    /\ tabs' = [tabs EXCEPT ![t].flow.stage = "finish"]
    /\ UNCHANGED <<chain, deployed, passkeys, profile, target, committed, store, owner>>

(* The page checks the account it got and takes the session over.           *)
Expected(t) == Flow(t).want \in {None, Flow(t).account}
Opened(t) == [account |-> Flow(t).account, ready |-> Flow(t).ready, auto |-> Flow(t).auto]

FinishSession(t) ==
    /\ Flow(t).stage = "finish" /\ Flow(t).aim = "session" /\ Expected(t)
    /\ tabs' = [tabs EXCEPT ![t] = [@ EXCEPT !.session = Opened(t), !.flow = Idle]]
    /\ profile' = Flow(t).account
    /\ UNCHANGED <<chain, deployed, passkeys, records, target, committed, store, owner>>

(* A destination that is not deployed is refused, with the wallet that was  *)
(* opened for it; a deployed one becomes the session if none was open.      *)
FinishTarget(t) ==
    /\ Flow(t).stage = "finish" /\ Flow(t).aim = "target" /\ Expected(t) /\ Flow(t).ready
    /\ target' = [address |-> Flow(t).account, chain |-> store.chain]
    /\ \/ /\ Borrows(t) /\ Put(t, "flow", Idle) /\ UNCHANGED profile
       \/ /\ ~Borrows(t) /\ profile' = Flow(t).account
          /\ tabs' = [tabs EXCEPT ![t] = [@ EXCEPT !.session = Opened(t), !.flow = Idle]]
    /\ UNCHANGED <<chain, deployed, passkeys, records, committed, store, owner>>

Refused(t) == ~Expected(t) \/ (Flow(t).aim = "target" /\ ~Flow(t).ready)
Refuse(t) ==
    /\ Flow(t).stage = "finish" /\ Refused(t)
    /\ GivesUp(t)
    /\ UNCHANGED <<chain, deployed, passkeys, storage, store>>

(* An effect of the page: the record of the open wallet is missing, and is  *)
(* written again once a hash is there, whatever the records hold by then    *)
(* and whether or not that wallet is still open.                            *)
StartRepair(t) ==
    /\ Session(t) # Closed /\ \A r \in records : r.address # Session(t).account
    /\ Put(t, "repairs", tabs[t].repairs \cup {Session(t).account})
    /\ UNCHANGED <<chain, deployed, passkeys, storage, store, owner>>

SaveRepair(t) == \E account \in tabs[t].repairs :
    /\ records' = Saved(account)
    /\ Put(t, "repairs", tabs[t].repairs \ {account})
    /\ UNCHANGED <<chain, deployed, passkeys, profile, target, committed, store, owner>>

-----------------------------------------------------------------------------
(* The node, and devices that hold the same passkeys. *)

ResetNode ==
    /\ chain < MaxChain /\ chain' = chain + 1
    /\ UNCHANGED <<deployed, passkeys, storage, store, owner, tabs>>

DeployElsewhere(p) ==
    /\ p \in passkeys /\ ~Initialized(AccountOf(p))
    /\ deployed' = deployed \cup {[account |-> AccountOf(p), chain |-> chain]}
    /\ UNCHANGED <<chain, passkeys, storage, store, owner, tabs>>

(* A returning visitor: one passkey, remembered, its store of the first     *)
(* chain, which the fingerprint names.                                      *)
Init ==
    /\ chain = 1 /\ committed = 1 /\ owner = NoTab /\ target = None
    /\ \E p \in Passkey :
          /\ passkeys = {p} /\ profile = AccountOf(p)
          /\ records = {[credential |-> p, address |-> AccountOf(p)]}
          /\ \E open \in BOOLEAN :
                /\ deployed = IF open THEN {[account |-> AccountOf(p), chain |-> 1]} ELSE {}
                /\ store = IF open THEN [Fresh(1) EXCEPT !.notes = {AccountOf(p)}] ELSE None
    /\ tabs = [t \in Tab |-> Load(1)]

Page(t) ==
    \/ Reload(t) \/ StartCheck(t) \/ Unchanged(t) \/ NewChainSeen(t) \/ Clear(t) \/ ClearFails(t)
    \/ OpenStored(t) \/ Reconnect(t) \/ RestoreRemembered(t) \/ AutoRestore(t)
    \/ Disconnect(t) \/ OpenTarget(t) \/ StartRepair(t) \/ SaveRepair(t)
    \/ \E aim \in {"session", "target"} : Create(t, aim) \/ UsePublicKey(t, aim)
Wallet(t) ==
    \/ OpenStore(t) \/ Ceremony(t) \/ Register(t) \/ AnchorError(t) \/ ReadStatus(t)
    \/ Deploy(t) \/ Persist(t) \/ FinishSession(t) \/ FinishTarget(t) \/ Refuse(t) \/ Fail(t)
Next == ResetNode \/ (\E p \in Passkey : DeployElsewhere(p)) \/ \E t \in Tab : Page(t) \/ Wallet(t)
Spec == Init /\ [][Next]_vars
=============================================================================
