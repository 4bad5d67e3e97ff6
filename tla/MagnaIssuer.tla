---------------------------- MODULE MagnaIssuer ----------------------------
(***************************************************************************)
(* The credential lifecycle of contracts/magna-issuer: issuance, linking,  *)
(* revocation, recovery and renewal of private notes, and the plain        *)
(* verify_* entrypoints (no meter hook, no forced sponsorship).            *)
(*                                                                         *)
(* An Aztec private call is proven against the header of an ANCHOR block   *)
(* and settled in a later one.  Every action below is the settlement, in   *)
(* the block being built at time `now`, of a transaction proven at anchor  *)
(* `a < now`: what the contract asserts about notes and nullifiers is      *)
(* evaluated as of `a`, what the protocol enforces (deadline, no duplicate *)
(* nullifier) as of `now`.  The state carries settlement times, so no pool *)
(* of proven transactions is needed: any older anchor may be picked.       *)
(***************************************************************************)
EXTENDS Integers, FiniteSets

CONSTANTS
    Wallet,             \* accounts that hold active notes
    Ghost,              \* accounts that hold recovery notes
    Root,               \* root commitments
    PassportV1,         \* passport claims hashes that commit to expiry_ts
    PassportV2,         \* passport claims hashes opened by a blinded witness
    Instagram,          \* Instagram claims hashes (credential type 3)
    OtherClaims,        \* v1-shaped claims of a type other than 1 and 3
    Expiry,             \* expiry committed to by a non-V2 claims hash
    ValidUntil,         \* expiries the orchestrator may write into a note
    RevocationAnchor,   \* MAGNA_REVOCATION_ANCHOR_SECONDS
    OrchestratorCalls,  \* the issuance entrypoints the orchestrator uses
    NoClaims,           \* not a claims hash
    MaxTime,            \* bound on block time
    MaxSecret,          \* bound on sampled secrets
    MaxInbox,           \* bound on recovery messages
    MaxVerifies         \* bound on the metered verifications

Claims == PassportV1 \cup PassportV2 \cup Instagram \cup OtherClaims
Passport == PassportV1 \cup PassportV2

ASSUME ClaimsAssumption ==
    /\ NoClaims \notin Claims
    /\ Instagram \cap (Passport \cup OtherClaims) = {}
    /\ Passport \cap OtherClaims = {}
    /\ PassportV1 \cap PassportV2 = {}
    /\ Expiry \in [Claims \ PassportV2 -> Nat]
    /\ ValidUntil \subseteq Nat
ASSUME BoundsAssumption ==
    /\ RevocationAnchor \in Nat
    /\ MaxTime \in Nat /\ MaxSecret \in Nat
    /\ MaxInbox \in Nat /\ MaxVerifies \in Nat

VARIABLES
    now,                      \* timestamp of the block being built
    fresh,                    \* next secret that random() returns
    credential_notes, status_notes, recovery_notes,
    root_status_notes, root_recovery_notes, root_authority_notes,
    linked_credential_notes, linked_status_notes, linked_recovery_notes,
    root_authority_refresh_authorizations,
    nullifiers,               \* settled nullifiers with their block time
    inbox,                    \* L1-to-L2 messages of the recovery portal
    verify_meter_count

standaloneNotes == <<credential_notes, status_notes, recovery_notes>>
rootNotes == <<root_status_notes, root_recovery_notes>>
linkedNotes == <<linked_credential_notes, linked_status_notes,
                 linked_recovery_notes>>
external == <<root_authority_refresh_authorizations, inbox,
              verify_meter_count>>
vars == <<now, fresh, standaloneNotes, rootNotes, root_authority_notes,
          linkedNotes, nullifiers, external>>

-----------------------------------------------------------------------------
(* Secrets and nullifiers.  random() never repeats, and the hashes are      *)
(* injective with separated domains: a secret is a number, or a number      *)
(* combined with a claims hash; a nullifier is its domain and preimage.     *)

Random(k) == <<k, NoClaims>>
LinkedStatusSecret(k, c) == <<k, c>>
Secret == Nat \X (Claims \cup {NoClaims})

Revocation(secret, c) == <<"revocation", secret, c>>
RootRevocation(k, r) == <<"root", k, r>>
OwnerRootRevocation(k, r) == <<"owner_root", k, r>>
AuthorityRevocation(k, r, c) == <<"authority", <<k, r>>, c>>
PassportIssuance(r) == <<"passport_issuance", r, 1>>
StandaloneIssuance(o, c) == <<"standalone_issuance", o, c>>
LinkedIssuance(o, c) == <<"linked_issuance", o, c>>
RefreshAuthorization(o, g, r, c, e) == <<"refresh", <<o, g, r>>, <<c, e>>>>
MessageNullifier(m) == <<"message", m.leaf, m>>
Spend(set, k) == <<"spend", set, k>>

(* The nullifier tree. *)
Unsettled(N) == \A e \in nullifiers : e.n \notin N
AbsentAt(n, a) == \A e \in nullifiers : e.n = n => e.at > a
Push(N) == /\ Unsettled(N)
           /\ nullifiers' = nullifiers \cup [n : N, at : {now}]

Anchor == 0 .. (now - 1)
(* Mutant: a proof stays includable until the note expires. *)
UnboundedDeadline(a, deadline) == deadline
BoundedRevocationDeadline(a, deadline) ==
    IF a + RevocationAnchor < deadline THEN a + RevocationAnchor ELSE deadline
Before(deadline) == now <= deadline

TakeSecrets(n) == fresh + n <= MaxSecret /\ fresh' = fresh + n

-----------------------------------------------------------------------------
(* Minting helpers. *)

MintStandaloneNotes(o, g, c, e, k) ==
    /\ credential_notes' = credential_notes \cup
           {[owner |-> o, nonce |-> k, claims |-> c, expiry |-> e, at |-> now]}
    /\ status_notes' = status_notes \cup
           {[owner |-> o, secret |-> k, claims |-> c, at |-> now]}
    /\ recovery_notes' = recovery_notes \cup
           {[owner |-> g, secret |-> k, claims |-> c, expiry |-> e, at |-> now]}

MintRootNotes(o, g, r, k) ==
    /\ root_status_notes' = root_status_notes \cup
           {[owner |-> o, root |-> r, secret |-> k, at |-> now]}
    /\ root_recovery_notes' = root_recovery_notes \cup
           {[owner |-> g, root |-> r, secret |-> k, at |-> now]}

MintRootAuthorityNote(o, r, c, e, k) ==
    root_authority_notes' = root_authority_notes \cup
        {[owner |-> o, root |-> r, claims |-> c, expiry |-> e, secret |-> k,
          at |-> now]}

MintLinkedPair(o, r, c, e, secret) ==
    /\ linked_credential_notes' = linked_credential_notes \cup
           {[owner |-> o, root |-> r, claims |-> c, expiry |-> e, at |-> now]}
    /\ linked_status_notes' = linked_status_notes \cup
           {[owner |-> o, root |-> r, claims |-> c, secret |-> secret,
             at |-> now]}

MintLinkedCredentialNotes(o, g, r, c, e, k) ==
    /\ MintLinkedPair(o, r, c, e, Random(k))
    /\ linked_recovery_notes' = linked_recovery_notes \cup
           {[owner |-> g, root |-> r, claims |-> c, expiry |-> e, secret |-> k,
             at |-> now]}

-----------------------------------------------------------------------------
(* Issuance.  Only the orchestrator passes assert_orchestrator_sender; it   *)
(* is one service, and OrchestratorCalls names the entrypoints it uses.     *)

RegisterCredential(o, g, c, e) ==
    /\ "register_credential" \in OrchestratorCalls
    /\ TakeSecrets(1)
    /\ Push({StandaloneIssuance(o, c) : x \in {c} \cap Instagram})
    /\ MintStandaloneNotes(o, g, c, e, fresh)
    /\ UNCHANGED <<now, rootNotes, root_authority_notes, linkedNotes, external>>

RegisterRoot(o, g, r) ==
    /\ "register_root" \in OrchestratorCalls
    /\ TakeSecrets(1)
    /\ MintRootNotes(o, g, r, fresh)
    /\ UNCHANGED <<now, standaloneNotes, root_authority_notes, linkedNotes,
                   nullifiers, external>>

RegisterRootAuthority(o, r, c, e) ==
    /\ "register_root_authority" \in OrchestratorCalls
    /\ TakeSecrets(1)
    /\ MintRootAuthorityNote(o, r, c, e, fresh)
    /\ UNCHANGED <<now, standaloneNotes, rootNotes, linkedNotes, nullifiers,
                   external>>

RootedPassportNotes(o, g, r, c, e) ==
    /\ TakeSecrets(3)
    /\ MintRootNotes(o, g, r, fresh)
    /\ MintRootAuthorityNote(o, r, c, e, fresh + 1)
    /\ MintLinkedCredentialNotes(o, g, r, c, e, fresh + 2)

RegisterRootedPassport(o, g, r, c, e) ==
    /\ "register_rooted_passport" \in OrchestratorCalls
    /\ RootedPassportNotes(o, g, r, c, e)
    /\ UNCHANGED <<now, standaloneNotes, nullifiers, external>>

RegisterRootedPassportV2(o, g, r, c, e, a) ==
    /\ "register_rooted_passport_v2" \in OrchestratorCalls
    /\ AbsentAt(PassportIssuance(r), a)
    /\ Push({PassportIssuance(r)})
    /\ RootedPassportNotes(o, g, r, c, e)
    /\ UNCHANGED <<now, standaloneNotes, external>>

RegisterLinkedCredential(o, g, r, c, e) ==
    /\ "register_linked_credential" \in OrchestratorCalls
    /\ c \notin Instagram
    /\ TakeSecrets(1)
    /\ MintLinkedCredentialNotes(o, g, r, c, e, fresh)
    /\ UNCHANGED <<now, standaloneNotes, rootNotes, root_authority_notes,
                   nullifiers, external>>

-----------------------------------------------------------------------------
(* Holder operations. *)

RootLive(rs, a) ==
    /\ AbsentAt(RootRevocation(rs.secret, rs.root), a)
    /\ AbsentAt(OwnerRootRevocation(rs.secret, rs.root), a)

CanLink(cr, st, rs, a) ==
    /\ cr.owner = st.owner /\ cr.owner = rs.owner
    /\ cr.claims \in Instagram
    /\ st.claims = cr.claims
    /\ cr.expiry > a
    /\ cr.at <= a /\ st.at <= a /\ rs.at <= a
    /\ RootLive(rs, a)
    /\ AbsentAt(Revocation(Random(st.secret), st.claims), a)
    /\ LinkedStatusSecret(rs.secret, st.claims) # Random(st.secret)
    /\ Before(BoundedRevocationDeadline(a, cr.expiry))

(* Mutant: the notes are spent but the source kill switch is not settled. *)
LinkWithoutSourceKill(cr, st, rs, a) ==
    /\ CanLink(cr, st, rs, a)
    /\ Push({Spend("credential", cr.nonce), Spend("status", st.secret),
             LinkedIssuance(cr.owner, st.claims)})
    /\ MintLinkedPair(cr.owner, rs.root, cr.claims, cr.expiry,
                      LinkedStatusSecret(rs.secret, st.claims))
    /\ UNCHANGED <<now, fresh, standaloneNotes, rootNotes,
                   root_authority_notes, linked_recovery_notes, external>>

LinkCredentialToRoot(cr, st, rs, a) ==
    /\ CanLink(cr, st, rs, a)
    /\ Push({Spend("credential", cr.nonce), Spend("status", st.secret),
             Revocation(Random(st.secret), st.claims),
             LinkedIssuance(cr.owner, st.claims)})
    /\ MintLinkedPair(cr.owner, rs.root, cr.claims, cr.expiry,
                      LinkedStatusSecret(rs.secret, st.claims))
    /\ UNCHANGED <<now, fresh, standaloneNotes, rootNotes,
                   root_authority_notes, linked_recovery_notes, external>>

Unminted == <<now, fresh, standaloneNotes, rootNotes, root_authority_notes,
              linkedNotes, external>>

RevokeCredential(st) ==
    /\ st.claims \notin Passport
    /\ st.at < now
    /\ Push({Revocation(Random(st.secret), st.claims)})
    /\ UNCHANGED Unminted

RevokeLinkedCredentialAsOwner(ls) ==
    /\ ls.claims \notin Passport
    /\ ls.at < now
    /\ Push({Revocation(ls.secret, ls.claims)})
    /\ UNCHANGED Unminted

(* Mutant: the holder revokes under the domain recovery uses. *)
RevokeRootInRecoveryDomain(rs) ==
    /\ rs.at < now
    /\ Push({RootRevocation(rs.secret, rs.root)})
    /\ UNCHANGED Unminted

RevokeRootAsOwner(rs) ==
    /\ rs.at < now
    /\ Push({OwnerRootRevocation(rs.secret, rs.root)})
    /\ UNCHANGED Unminted

(* The ghost's lane: spends the linked recovery note. *)
RevokeLinkedCredential(lr) ==
    /\ lr.claims \notin Passport
    /\ lr.at < now
    /\ Push({Spend("linked_recovery", lr.secret),
             Revocation(Random(lr.secret), lr.claims)})
    /\ UNCHANGED Unminted

-----------------------------------------------------------------------------
(* Verification: what each verify_*_for_caller asserts of its hinted notes. *)

CanVerifyStandalone(cr, st, a) ==
    /\ cr.owner = st.owner
    /\ cr.at <= a /\ st.at <= a
    /\ cr.claims = st.claims
    /\ Before(BoundedRevocationDeadline(a, cr.expiry))
    /\ AbsentAt(Revocation(Random(st.secret), st.claims), a)

CanVerify(cr, st, a) ==
    /\ cr.claims \in PassportV1 \cup OtherClaims
    /\ cr.expiry = Expiry[cr.claims]
    /\ CanVerifyStandalone(cr, st, a)

CanVerifyV2(cr, st, a) ==
    /\ cr.claims \in PassportV2
    /\ CanVerifyStandalone(cr, st, a)

CanVerifyInstagram(cr, st, a) ==
    /\ cr.claims \in Instagram
    /\ cr.expiry = Expiry[cr.claims]
    /\ CanVerifyStandalone(cr, st, a)

LinkedNotesMatch(rs, lc, ls, a) ==
    /\ rs.owner = lc.owner /\ rs.owner = ls.owner
    /\ rs.at <= a /\ lc.at <= a /\ ls.at <= a
    /\ lc.root = ls.root /\ lc.root = rs.root
    /\ lc.claims = ls.claims
    /\ AbsentAt(Revocation(ls.secret, ls.claims), a)
    /\ RootLive(rs, a)

Earlier(x, y) == IF x < y THEN x ELSE y

CanVerifyLinkedPassport(rs, au, lc, ls, a) ==
    /\ LinkedNotesMatch(rs, lc, ls, a)
    /\ au.owner = rs.owner /\ au.at <= a
    /\ au.root = rs.root /\ au.claims = lc.claims
    /\ AbsentAt(AuthorityRevocation(au.secret, au.root, au.claims), a)
    /\ Before(BoundedRevocationDeadline(a, Earlier(lc.expiry, au.expiry)))

CanVerifyLinked(rs, au, lc, ls, a) ==
    /\ lc.claims \in PassportV1 \cup OtherClaims
    /\ lc.expiry = Expiry[lc.claims]
    /\ CanVerifyLinkedPassport(rs, au, lc, ls, a)

CanVerifyLinkedV2(rs, au, lc, ls, a) ==
    /\ lc.claims \in PassportV2
    /\ CanVerifyLinkedPassport(rs, au, lc, ls, a)

(* Mutant: the root commitment alone ties the credential to the root. *)
LinkedInstagramByCommitment(rs, lc, ls, a) ==
    /\ LinkedNotesMatch(rs, lc, ls, a)
    /\ lc.claims \in Instagram
    /\ lc.expiry = Expiry[lc.claims]
    /\ Before(BoundedRevocationDeadline(a, lc.expiry))

CanVerifyLinkedInstagram(rs, lc, ls, a) ==
    /\ LinkedNotesMatch(rs, lc, ls, a)
    /\ lc.claims \in Instagram
    /\ ls.secret = LinkedStatusSecret(rs.secret, ls.claims)
    /\ lc.expiry = Expiry[lc.claims]
    /\ Before(BoundedRevocationDeadline(a, lc.expiry))

(* The enqueued _meter_verify is the only state change of a plain verify. *)
MeterVerify ==
    /\ verify_meter_count < MaxVerifies
    /\ verify_meter_count' = verify_meter_count + 1
    /\ UNCHANGED <<now, fresh, standaloneNotes, rootNotes,
                   root_authority_notes, linkedNotes, nullifiers,
                   root_authority_refresh_authorizations, inbox>>

Verify == \E cr \in credential_notes, st \in status_notes, a \in Anchor :
    CanVerify(cr, st, a) /\ MeterVerify
VerifyV2 == \E cr \in credential_notes, st \in status_notes, a \in Anchor :
    CanVerifyV2(cr, st, a) /\ MeterVerify
VerifyInstagram ==
    \E cr \in credential_notes, st \in status_notes, a \in Anchor :
        CanVerifyInstagram(cr, st, a) /\ MeterVerify
VerifyLinked ==
    \E rs \in root_status_notes, au \in root_authority_notes,
       lc \in linked_credential_notes, ls \in linked_status_notes,
       a \in Anchor : CanVerifyLinked(rs, au, lc, ls, a) /\ MeterVerify
VerifyLinkedV2 ==
    \E rs \in root_status_notes, au \in root_authority_notes,
       lc \in linked_credential_notes, ls \in linked_status_notes,
       a \in Anchor : CanVerifyLinkedV2(rs, au, lc, ls, a) /\ MeterVerify
VerifyLinkedInstagram ==
    \E rs \in root_status_notes, lc \in linked_credential_notes,
       ls \in linked_status_notes, a \in Anchor :
        CanVerifyLinkedInstagram(rs, lc, ls, a) /\ MeterVerify

-----------------------------------------------------------------------------
(* Recovery.  The portal's authorization reaches the issuer as an Inbox     *)
(* message whose content fixes destination, root, claims and expiry.        *)

SendRecoveryMessage(d, r, c, e) ==
    /\ Cardinality(inbox) < MaxInbox
    /\ inbox' = inbox \cup {[destination |-> d, root |-> r, claims |-> c,
                             expiry |-> e, leaf |-> Cardinality(inbox),
                             at |-> now]}
    /\ UNCHANGED <<now, fresh, standaloneNotes, rootNotes,
                   root_authority_notes, linkedNotes, nullifiers,
                   root_authority_refresh_authorizations, verify_meter_count>>

(* Mutant: the recovery note is spent but the old version stays live. *)
SpendRecoveryNoteOnly(rr) == {Spend("root_recovery", rr.secret)}

(* recover_root_for_caller: spend the ghost's note, kill the old version. *)
RecoveryNullifiers(rr) ==
    {Spend("root_recovery", rr.secret), RootRevocation(rr.secret, rr.root)}

CanRecover(rr, m, a) ==
    /\ rr.at <= a /\ m.at <= a
    /\ m.root = rr.root
    /\ m.expiry > a

(* Mutant: the Inbox message is read, not consumed. *)
RecoverWithoutConsuming(rr, m, a) ==
    /\ CanRecover(rr, m, a)
    /\ Push(RecoveryNullifiers(rr))
    /\ RootedPassportNotes(m.destination, rr.owner, rr.root, m.claims, m.expiry)
    /\ UNCHANGED <<now, standaloneNotes, external>>

RecoverRootV3(rr, m, a) ==
    /\ CanRecover(rr, m, a)
    /\ Push({MessageNullifier(m)} \cup RecoveryNullifiers(rr))
    /\ RootedPassportNotes(m.destination, rr.owner, rr.root, m.claims, m.expiry)
    /\ UNCHANGED <<now, standaloneNotes, external>>

-----------------------------------------------------------------------------
(* Renewal of the passport authority. *)

(* PublicImmutable.initialize: a second authorization of the same tuple     *)
(* reverts.                                                                 *)
AuthorizeRootAuthorityRefresh(o, g, r, c, e) ==
    /\ "authorize_root_authority_refresh" \in OrchestratorCalls
    /\ \A x \in root_authority_refresh_authorizations :
          x.n # RefreshAuthorization(o, g, r, c, e)
    /\ root_authority_refresh_authorizations' =
           root_authority_refresh_authorizations \cup
               {[n |-> RefreshAuthorization(o, g, r, c, e), at |-> now]}
    /\ UNCHANGED <<now, fresh, standaloneNotes, rootNotes,
                   root_authority_notes, linkedNotes, nullifiers, inbox,
                   verify_meter_count>>

CanRefresh(rs, au, e, a) ==
    /\ rs.root = au.root
    /\ rs.owner = au.owner
    /\ rs.at <= a /\ au.at <= a
    /\ RootLive(rs, a)
    /\ Before(BoundedRevocationDeadline(a, e))
    /\ AbsentAt(AuthorityRevocation(au.secret, au.root, au.claims), a)

RefreshNotes(rs, g, c, e) ==
    /\ TakeSecrets(2)
    /\ MintRootAuthorityNote(rs.owner, rs.root, c, e, fresh)
    /\ MintLinkedCredentialNotes(rs.owner, g, rs.root, c, e, fresh + 1)
    /\ UNCHANGED <<now, standaloneNotes, rootNotes, external>>

RefreshRootAuthority(rs, au, g, c, e, a) ==
    /\ "refresh_root_authority" \in OrchestratorCalls
    /\ CanRefresh(rs, au, e, a)
    /\ Push({AuthorityRevocation(au.secret, au.root, au.claims)})
    /\ RefreshNotes(rs, g, c, e)

(* Mutant: the prior authority survives its renewal. *)
RefreshKeepingAuthority(rs, au, g, c, e, a) ==
    /\ \E x \in root_authority_refresh_authorizations :
          /\ x.n = RefreshAuthorization(rs.owner, g, rs.root, c, e)
          /\ x.at <= a
    /\ CanRefresh(rs, au, e, a)
    /\ Push({RefreshAuthorization(rs.owner, g, rs.root, c, e)})
    /\ RefreshNotes(rs, g, c, e)

(* Mutant: one public authorization serves every later renewal. *)
RefreshKeepingAuthorization(rs, au, g, c, e, a) ==
    /\ \E x \in root_authority_refresh_authorizations :
          /\ x.n = RefreshAuthorization(rs.owner, g, rs.root, c, e)
          /\ x.at <= a
    /\ CanRefresh(rs, au, e, a)
    /\ Push({AuthorityRevocation(au.secret, au.root, au.claims)})
    /\ RefreshNotes(rs, g, c, e)

RefreshRootAuthorityAuthorized(rs, au, g, c, e, a) ==
    /\ \E x \in root_authority_refresh_authorizations :
          /\ x.n = RefreshAuthorization(rs.owner, g, rs.root, c, e)
          /\ x.at <= a
    /\ CanRefresh(rs, au, e, a)
    /\ Push({AuthorityRevocation(au.secret, au.root, au.claims),
             RefreshAuthorization(rs.owner, g, rs.root, c, e)})
    /\ RefreshNotes(rs, g, c, e)

-----------------------------------------------------------------------------
Tick ==
    /\ now < MaxTime
    /\ now' = now + 1
    /\ UNCHANGED <<fresh, standaloneNotes, rootNotes, root_authority_notes,
                   linkedNotes, nullifiers, external>>

Init ==
    /\ now = 1 /\ fresh = 1
    /\ credential_notes = {} /\ status_notes = {} /\ recovery_notes = {}
    /\ root_status_notes = {} /\ root_recovery_notes = {}
    /\ root_authority_notes = {}
    /\ linked_credential_notes = {} /\ linked_status_notes = {}
    /\ linked_recovery_notes = {}
    /\ root_authority_refresh_authorizations = {}
    /\ nullifiers = {} /\ inbox = {}
    /\ verify_meter_count = 0

Issue ==
    \/ \E o \in Wallet, g \in Ghost, e \in ValidUntil, c \in Claims :
          RegisterCredential(o, g, c, e)
    \/ \E o \in Wallet, g \in Ghost, r \in Root : RegisterRoot(o, g, r)
    \/ \E o \in Wallet, r \in Root, c \in Claims, e \in ValidUntil :
          RegisterRootAuthority(o, r, c, e)
    \/ \E o \in Wallet, g \in Ghost, r \in Root, c \in Passport,
          e \in ValidUntil : RegisterRootedPassport(o, g, r, c, e)
    \/ \E o \in Wallet, g \in Ghost, r \in Root, c \in Passport,
          e \in ValidUntil, a \in Anchor :
          RegisterRootedPassportV2(o, g, r, c, e, a)
    \/ \E o \in Wallet, g \in Ghost, r \in Root, c \in Claims,
          e \in ValidUntil : RegisterLinkedCredential(o, g, r, c, e)
    \/ \E o \in Wallet, g \in Ghost, r \in Root, c \in Passport,
          e \in ValidUntil : AuthorizeRootAuthorityRefresh(o, g, r, c, e)

Hold ==
    \/ \E cr \in credential_notes, st \in status_notes,
          rs \in root_status_notes, a \in Anchor :
          LinkCredentialToRoot(cr, st, rs, a)
    \/ \E st \in status_notes : RevokeCredential(st)
    \/ \E ls \in linked_status_notes : RevokeLinkedCredentialAsOwner(ls)
    \/ \E rs \in root_status_notes : RevokeRootAsOwner(rs)
    \/ \E lr \in linked_recovery_notes : RevokeLinkedCredential(lr)

Renew ==
    \E rs \in root_status_notes, au \in root_authority_notes, g \in Ghost,
       c \in Passport, e \in ValidUntil, a \in Anchor :
        \/ RefreshRootAuthority(rs, au, g, c, e, a)
        \/ RefreshRootAuthorityAuthorized(rs, au, g, c, e, a)

Recover ==
    \/ \E d \in Wallet, r \in Root, c \in PassportV2, e \in ValidUntil :
          SendRecoveryMessage(d, r, c, e)
    \/ \E rr \in root_recovery_notes, m \in inbox, a \in Anchor :
          RecoverRootV3(rr, m, a)

Login == Verify \/ VerifyV2 \/ VerifyInstagram
         \/ VerifyLinked \/ VerifyLinkedV2 \/ VerifyLinkedInstagram

Next == Tick \/ Issue \/ Hold \/ Renew \/ Recover \/ Login

Spec == Init /\ [][Next]_vars
=============================================================================
