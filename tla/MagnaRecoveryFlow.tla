-------------------------- MODULE MagnaRecoveryFlow --------------------------
(***************************************************************************)
(* One Passport recovery from the browser to the destination wallet: the   *)
(* management app drives a passport scan, the portal call on Ethereum, the *)
(* Inbox message to Aztec and recover_root_v3, and keeps one finalization  *)
(* record in localStorage so that a crash after the irreversible step can  *)
(* be finished later.  An attempt stands for its recovery nonce, its       *)
(* message secret and the claim blinds derived from them: they exist in    *)
(* the page's memory, and the blinds in the record and in the witness.     *)
(***************************************************************************)
EXTENDS MagnaRecoveryPortal

CONSTANTS
    Lifetime,       \* credential_valid_until, after the date of the proof
    TxLife          \* how long Aztec keeps a transaction includable

ASSUME FlowAssumption ==
    /\ IsFiniteSet(Authorization) /\ Authorization = 1 .. Cardinality(Authorization)
    /\ Lifetime \in Nat \ {0} /\ TxLife \in Nat \ {0}

VARIABLES
    tab,            \* startRootRecovery in this page: where it is, for whom
    resuming,       \* resumeRecoveryV3Finalization: the attempt it captured
    attempts,       \* attempts started so far
    pending,        \* localStorage: the one PendingRecoveryV3Finalization
    witnesses,      \* localStorage: attempts whose claim witness is saved
    relayed,        \* proofs sent to Ethereum
    available,      \* Inbox messages in Aztec's message tree
    pool,           \* recover_root_v3 transactions not settled yet
    consumed,       \* attempts whose message is nullified
    rootVersion, live   \* the root's version; whose notes it keeps alive

page == <<tab, resuming, attempts>>
localStorage == <<pending, witnesses>>
aztec == <<available, pool, consumed, rootVersion, live>>
flowVars == <<portalVars, page, localStorage, relayed, aztec>>

NoAttempt == 0
NoRecord == [phase |-> "none", attempt |-> NoAttempt]
Idle == [stage |-> "idle", attempt |-> NoAttempt]
NotResuming == [confirmed |-> FALSE, attempt |-> NoAttempt]

ProofOf(n) == CHOOSE p \in proofs : p.authorization = n
CredentialValidUntil(n) == ProofOf(n).date + Lifetime

(* readRootedPassportChainState = active: the Passport note of n is there   *)
(* and not expired, and the wallet holds a live root status, of whatever    *)
(* recovery: the attempts recover to one wallet, so a later one will do.    *)
Active(n) == n \in consumed /\ live # NoAttempt /\ now < CredentialValidUntil(n)

At(stage) == tab.stage = stage
MoveTo(stage) == tab' = [tab EXCEPT !.stage = stage]

-----------------------------------------------------------------------------
(* startRootRecovery, one action between two awaits.  An unfinished record *)
(* does not disable the button; a running action does.                     *)
StartRootRecovery ==
    /\ At("idle") /\ resuming = NotResuming
    /\ attempts < Cardinality(Authorization)
    /\ attempts' = attempts + 1
    /\ tab' = [stage |-> "scanning", attempt |-> attempts']
    /\ UNCHANGED <<portalVars, resuming, localStorage, relayed, aztec>>

ScanPassport ==
    /\ At("scanning")
    /\ Prove(tab.attempt, now, [x \in Registry |-> latestRoot(x)])
    /\ MoveTo("proved")
    /\ UNCHANGED <<resuming, attempts, localStorage, relayed, aztec>>

(* The page compares the proof's date with the latest L1 block, then the    *)
(* call is simulated; a proof either of them refuses is not sent.           *)
FreshAtL1(p) == now >= p.date /\ now - p.date < MaxAge

SubmitAuthorization ==
    /\ At("proved")
    /\ FreshAtL1(ProofOf(tab.attempt))
    /\ Acceptable(ProofOf(tab.attempt))
    /\ relayed' = relayed \cup {ProofOf(tab.attempt)}
    /\ MoveTo("authorizing")
    /\ UNCHANGED <<portalVars, resuming, attempts, localStorage, aztec>>

ObserveAuthorization ==
    /\ At("authorizing") /\ tab.attempt \in accepted
    /\ MoveTo("waiting")
    /\ UNCHANGED <<portalVars, resuming, attempts, localStorage, relayed, aztec>>

(* Mutant: the record is first saved when the transaction has settled. *)
PrepareWithoutRecord ==
    /\ At("waiting") /\ tab.attempt \in available
    /\ MoveTo("prepared")
    /\ UNCHANGED <<portalVars, resuming, attempts, localStorage, relayed, aztec>>

PrepareFinalization ==
    /\ At("waiting") /\ tab.attempt \in available
    /\ pending' = [phase |-> "prepared", attempt |-> tab.attempt]
    /\ MoveTo("prepared")
    /\ UNCHANGED <<portalVars, resuming, attempts, witnesses, relayed, aztec>>

(* fetchRootRecoveryHint: the recovery note in the ghost's PXE, the one of   *)
(* the root's current version; it is polled for until it is there.          *)
RecoveryHint == rootVersion

(* recoverRootV3: the private call runs against the latest block and the    *)
(* recovery note found there.                                               *)
SendRecovery ==
    /\ At("prepared")
    /\ now < CredentialValidUntil(tab.attempt)
    /\ pool' = pool \cup {[attempt |-> tab.attempt, version |-> RecoveryHint,
                           anchor |-> now]}
    /\ MoveTo("sending")
    /\ UNCHANGED <<portalVars, resuming, attempts, localStorage, relayed,
                   available, consumed, rootVersion, live>>

ObserveSettlement ==
    /\ At("sending") /\ tab.attempt \in consumed
    /\ pending' = [phase |-> "submitted", attempt |-> tab.attempt]
    /\ MoveTo("settled")
    /\ UNCHANGED <<portalVars, resuming, attempts, witnesses, relayed, aztec>>

(* completeRecoveryV3Finalization saves the witness at once and clears the  *)
(* record after it has reloaded the wallet's credentials.                   *)
ConfirmRecovery ==
    /\ At("settled") /\ Active(tab.attempt)
    /\ witnesses' = witnesses \cup {tab.attempt}
    /\ MoveTo("confirmed")
    /\ UNCHANGED <<portalVars, resuming, attempts, pending, relayed, aztec>>

FinishRecovery ==
    /\ At("confirmed")
    /\ pending' = NoRecord
    /\ tab' = Idle
    /\ UNCHANGED <<portalVars, resuming, attempts, witnesses, relayed, aztec>>

(* Any await of the chain may throw: the promise ends, its memory with it. *)
FailRecovery ==
    /\ ~At("idle")
    /\ tab' = Idle
    /\ UNCHANGED <<portalVars, resuming, attempts, localStorage, relayed, aztec>>

-----------------------------------------------------------------------------
(* resumeRecoveryV3Finalization.  It may run beside a recovery that waits   *)
(* for its scan or its chains, and works on the record it captured.         *)
BeginResume ==
    /\ resuming = NotResuming /\ pending # NoRecord
    /\ resuming' = [confirmed |-> FALSE, attempt |-> pending.attempt]
    /\ UNCHANGED <<portalVars, tab, attempts, localStorage, relayed, aztec>>

(* Mutant: the notes are looked for, their state on chain is not read. *)
ConfirmUnread ==
    /\ resuming # NotResuming /\ ~resuming.confirmed
    /\ witnesses' = witnesses \cup {resuming.attempt}
    /\ resuming' = [resuming EXCEPT !.confirmed = TRUE]
    /\ UNCHANGED <<portalVars, tab, attempts, pending, relayed, aztec>>

ConfirmResume ==
    /\ resuming # NotResuming /\ ~resuming.confirmed
    /\ Active(resuming.attempt)
    /\ witnesses' = witnesses \cup {resuming.attempt}
    /\ resuming' = [resuming EXCEPT !.confirmed = TRUE]
    /\ UNCHANGED <<portalVars, tab, attempts, pending, relayed, aztec>>

FinishResume ==
    /\ resuming.confirmed
    /\ pending' = NoRecord
    /\ resuming' = NotResuming
    /\ UNCHANGED <<portalVars, tab, attempts, witnesses, relayed, aztec>>

FailResume ==
    /\ resuming # NotResuming
    /\ resuming' = NotResuming
    /\ UNCHANGED <<portalVars, tab, attempts, localStorage, relayed, aztec>>

(* The page is closed or reloaded. *)
Crash ==
    /\ tab # Idle \/ resuming # NotResuming
    /\ tab' = Idle /\ resuming' = NotResuming
    /\ UNCHANGED <<portalVars, attempts, localStorage, relayed, aztec>>

-----------------------------------------------------------------------------
(* The chains: a call that was sent may land whether or not the page lives. *)
IncludeAuthorization(p) ==
    /\ authorizeRecovery(p)
    /\ UNCHANGED <<page, localStorage, relayed, aztec>>

DeliverMessage(n) ==
    /\ Contains(inbox, n) /\ n \notin available
    /\ available' = available \cup {n}
    /\ UNCHANGED <<portalVars, page, localStorage, relayed, pool, consumed,
                   rootVersion, live>>

(* recover_root_v3 settles: the message and the recovery note are nullified *)
(* and the root's kill switch retires the notes of the version before.      *)
IncludeRecovery(tx) ==
    /\ tx.version = rootVersion /\ tx.attempt \notin consumed
    /\ now < tx.anchor + TxLife
    /\ consumed' = consumed \cup {tx.attempt}
    /\ rootVersion' = rootVersion + 1
    /\ live' = tx.attempt
    /\ pool' = pool \ {tx}
    /\ UNCHANGED <<portalVars, page, localStorage, relayed, available>>

DropRecovery(tx) ==
    /\ pool' = pool \ {tx}
    /\ UNCHANGED <<portalVars, page, localStorage, relayed, available,
                   consumed, rootVersion, live>>

-----------------------------------------------------------------------------
Init ==
    /\ PortalInit
    /\ tab = Idle /\ resuming = NotResuming /\ attempts = 0
    /\ pending = NoRecord /\ witnesses = {} /\ relayed = {}
    /\ available = {} /\ pool = {} /\ consumed = {}
    /\ rootVersion = 0 /\ live = NoAttempt

Page ==
    \/ StartRootRecovery \/ ScanPassport \/ SubmitAuthorization
    \/ ObserveAuthorization \/ PrepareFinalization \/ SendRecovery
    \/ ObserveSettlement \/ ConfirmRecovery \/ FinishRecovery \/ FailRecovery
    \/ BeginResume \/ ConfirmResume \/ FinishResume \/ FailResume
    \/ Crash
Chains ==
    \/ \E p \in relayed : IncludeAuthorization(p)
    \/ \E n \in Authorization : DeliverMessage(n)
    \/ \E tx \in pool : IncludeRecovery(tx) \/ DropRecovery(tx)
    \/ /\ Tick
       /\ UNCHANGED <<page, localStorage, relayed, aztec>>

Next == Page \/ Chains
Spec == Init /\ [][Next]_flowVars
=============================================================================
