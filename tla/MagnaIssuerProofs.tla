-------------------------- MODULE MagnaIssuerProofs --------------------------
(* Theorems about the issuer for every set of wallets, roots and claims,    *)
(* every anchor window and every choice of orchestrator entrypoints: types, *)
(* the lag of revocations, and root lineages.  A root can always be         *)
(* recovered, and in a deployment that issues roots through the V2          *)
(* entrypoint only, exactly one version of it is live and the notes         *)
(* implement module MagnaRootLineage.                                       *)
(* The last part is about Instagram credentials that are linked to a root   *)
(* and about renewals of the authority of one.                              *)
EXTENDS MagnaIssuerSafety, FiniteSetTheorems, TLAPS

USE DEF Claims, Passport

-----------------------------------------------------------------------------
(* Type correctness. *)

LEMMA SecretType ==
    ASSUME NEW k \in Nat, NEW c \in Claims
    PROVE  Random(k) \in Secret /\ LinkedStatusSecret(k, c) \in Secret
  BY DEF Random, LinkedStatusSecret, Secret

LEMMA PushType ==
    ASSUME NEW N, TypeOK, Push(N)
    PROVE  \A e \in nullifiers' : e.at \in Nat
  BY DEF Push, TypeOK

(* The notes every rooted passport action mints are well typed. *)
LEMMA RootedPassportNotesType ==
    ASSUME TypeOK, NEW o \in Wallet, NEW g \in Ghost, NEW r \in Root,
           NEW c \in Passport, NEW e \in Nat, RootedPassportNotes(o, g, r, c, e)
    PROVE  /\ fresh' \in 1 .. (MaxSecret + 1)
           /\ root_status_notes' \subseteq
                  [owner : Wallet, root : Root, secret : Nat, at : Nat]
           /\ root_recovery_notes' \subseteq
                  [owner : Ghost, root : Root, secret : Nat, at : Nat]
           /\ root_authority_notes' \subseteq [owner : Wallet, root : Root,
                  claims : Claims, expiry : Nat, secret : Nat, at : Nat]
           /\ linked_credential_notes' \subseteq [owner : Wallet, root : Root,
                  claims : Claims, expiry : Nat, at : Nat]
           /\ linked_status_notes' \subseteq [owner : Wallet, root : Root,
                  claims : Claims, secret : Secret, at : Nat]
           /\ linked_recovery_notes' \subseteq [owner : Ghost, root : Root,
                  claims : Claims, expiry : Nat, secret : Nat, at : Nat]
  <1>1. fresh \in Nat /\ now \in Nat
    BY DEF TypeOK
  <1>2. Random(fresh + 2) \in Secret
    BY <1>1, SecretType
  <1> QED
    BY <1>1, <1>2, BoundsAssumption
       DEF TypeOK, RootedPassportNotes, TakeSecrets, MintRootNotes,
           MintRootAuthorityNote, MintLinkedCredentialNotes, MintLinkedPair

LEMMA TypeInit == Init => TypeOK
  BY BoundsAssumption, FS_EmptySet DEF Init, TypeOK

LEMMA TypeIssue == ASSUME TypeOK, Issue PROVE TypeOK'
  <1>1. fresh \in Nat /\ now \in Nat /\ ValidUntil \subseteq Nat
    BY ClaimsAssumption DEF TypeOK
  <1>2. Random(fresh) \in Secret
    BY <1>1 DEF Random, Secret
  <1>3. ASSUME NEW o \in Wallet, NEW g \in Ghost, NEW e \in ValidUntil,
               NEW c \in Claims, RegisterCredential(o, g, c, e)
        PROVE  TypeOK'
    <2>1. \A x \in nullifiers' : x.at \in Nat
      BY <1>3, PushType DEF RegisterCredential
    <2> QED
      BY <1>1, <1>3, <2>1, BoundsAssumption
         DEF TypeOK, RegisterCredential, TakeSecrets, MintStandaloneNotes,
             rootNotes, linkedNotes, external
  <1>4. ASSUME NEW o \in Wallet, NEW g \in Ghost, NEW r \in Root,
               RegisterRoot(o, g, r)
        PROVE  TypeOK'
    BY <1>1, <1>4, BoundsAssumption
       DEF TypeOK, RegisterRoot, TakeSecrets, MintRootNotes, standaloneNotes,
           linkedNotes, external
  <1>5. ASSUME NEW o \in Wallet, NEW r \in Root, NEW c \in Claims,
               NEW e \in ValidUntil, RegisterRootAuthority(o, r, c, e)
        PROVE  TypeOK'
    BY <1>1, <1>5, BoundsAssumption
       DEF TypeOK, RegisterRootAuthority, TakeSecrets, MintRootAuthorityNote,
           standaloneNotes, rootNotes, linkedNotes, external
  <1>6. ASSUME NEW o \in Wallet, NEW g \in Ghost, NEW r \in Root,
               NEW c \in Passport, NEW e \in ValidUntil,
               RegisterRootedPassport(o, g, r, c, e)
        PROVE  TypeOK'
    <2>1. RootedPassportNotes(o, g, r, c, e)
      BY <1>6 DEF RegisterRootedPassport
    <2> QED
      BY <1>1, <1>6, <2>1, RootedPassportNotesType
         DEF TypeOK, RegisterRootedPassport, standaloneNotes, external
  <1>7. ASSUME NEW o \in Wallet, NEW g \in Ghost, NEW r \in Root,
               NEW c \in Passport, NEW e \in ValidUntil, NEW a \in Anchor,
               RegisterRootedPassportV2(o, g, r, c, e, a)
        PROVE  TypeOK'
    <2>1. RootedPassportNotes(o, g, r, c, e)
      BY <1>7 DEF RegisterRootedPassportV2
    <2>2. \A x \in nullifiers' : x.at \in Nat
      BY <1>7, PushType DEF RegisterRootedPassportV2
    <2> QED
      BY <1>1, <1>7, <2>1, <2>2, RootedPassportNotesType
         DEF TypeOK, RegisterRootedPassportV2, standaloneNotes, external
  <1>8. ASSUME NEW o \in Wallet, NEW g \in Ghost, NEW r \in Root,
               NEW c \in Claims, NEW e \in ValidUntil,
               RegisterLinkedCredential(o, g, r, c, e)
        PROVE  TypeOK'
    BY <1>1, <1>2, <1>8, BoundsAssumption
       DEF TypeOK, RegisterLinkedCredential, TakeSecrets,
           MintLinkedCredentialNotes, MintLinkedPair, standaloneNotes,
           rootNotes, external
  <1>9. ASSUME NEW o \in Wallet, NEW g \in Ghost, NEW r \in Root,
               NEW c \in Passport, NEW e \in ValidUntil,
               AuthorizeRootAuthorityRefresh(o, g, r, c, e)
        PROVE  TypeOK'
    BY <1>1, <1>9 DEF TypeOK, AuthorizeRootAuthorityRefresh, standaloneNotes,
                      rootNotes, linkedNotes
  <1> QED
    BY <1>3, <1>4, <1>5, <1>6, <1>7, <1>8, <1>9 DEF Issue

LEMMA TypeHold == ASSUME TypeOK, Hold PROVE TypeOK'
  <1>1. fresh \in Nat /\ now \in Nat
    BY DEF TypeOK
  <1>2. ASSUME NEW cr \in credential_notes, NEW st \in status_notes,
               NEW rs \in root_status_notes, NEW a \in Anchor,
               LinkCredentialToRoot(cr, st, rs, a)
        PROVE  TypeOK'
    <2>1. \A x \in nullifiers' : x.at \in Nat
      BY <1>2, PushType DEF LinkCredentialToRoot
    <2>2. LinkedStatusSecret(rs.secret, st.claims) \in Secret
      BY SecretType DEF TypeOK
    <2> QED
      BY <1>1, <1>2, <2>1, <2>2
         DEF TypeOK, LinkCredentialToRoot, CanLink, MintLinkedPair,
             standaloneNotes, rootNotes, external
  <1>3. ASSUME Unminted' = Unminted, NEW N, Push(N) PROVE TypeOK'
    <2>1. \A x \in nullifiers' : x.at \in Nat
      BY <1>3, PushType
    <2> QED
      BY <1>3, <2>1 DEF TypeOK, Unminted, standaloneNotes, rootNotes,
                        linkedNotes, external
  <1>4. ASSUME NEW st \in status_notes, RevokeCredential(st) PROVE TypeOK'
    BY <1>3, <1>4 DEF RevokeCredential
  <1>5. ASSUME NEW ls \in linked_status_notes,
               RevokeLinkedCredentialAsOwner(ls)
        PROVE  TypeOK'
    BY <1>3, <1>5 DEF RevokeLinkedCredentialAsOwner
  <1>6. ASSUME NEW rs \in root_status_notes, RevokeRootAsOwner(rs)
        PROVE  TypeOK'
    BY <1>3, <1>6 DEF RevokeRootAsOwner
  <1>7. ASSUME NEW lr \in linked_recovery_notes, RevokeLinkedCredential(lr)
        PROVE  TypeOK'
    BY <1>3, <1>7 DEF RevokeLinkedCredential
  <1> QED
    BY <1>2, <1>4, <1>5, <1>6, <1>7 DEF Hold

LEMMA TypeRenew == ASSUME TypeOK, Renew PROVE TypeOK'
  <1> SUFFICES ASSUME NEW rs \in root_status_notes,
                      NEW au \in root_authority_notes, NEW g \in Ghost,
                      NEW c \in Passport, NEW e \in ValidUntil, NEW a \in Anchor,
                      \/ RefreshRootAuthority(rs, au, g, c, e, a)
                      \/ RefreshRootAuthorityAuthorized(rs, au, g, c, e, a)
               PROVE  TypeOK'
    BY DEF Renew
  <1>1. fresh \in Nat /\ now \in Nat /\ ValidUntil \subseteq Nat
    BY ClaimsAssumption DEF TypeOK
  <1>2. Random(fresh + 1) \in Secret
    BY <1>1, SecretType
  <1>3. \A x \in nullifiers' : x.at \in Nat
    BY PushType DEF RefreshRootAuthority, RefreshRootAuthorityAuthorized
  <1>4. RefreshNotes(rs, g, c, e)
    BY DEF RefreshRootAuthority, RefreshRootAuthorityAuthorized
  <1> QED
    BY <1>1, <1>2, <1>3, <1>4, BoundsAssumption
       DEF TypeOK, RefreshNotes, TakeSecrets, MintRootAuthorityNote,
           MintLinkedCredentialNotes, MintLinkedPair, standaloneNotes,
           rootNotes, external

LEMMA TypeRecover == ASSUME TypeOK, Recover PROVE TypeOK'
  <1>1. ASSUME NEW d \in Wallet, NEW r \in Root, NEW c \in PassportV2,
               NEW e \in ValidUntil, SendRecoveryMessage(d, r, c, e)
        PROVE  TypeOK'
    <2>1. IsFiniteSet(inbox') /\ Cardinality(inbox) \in Nat
      BY <1>1, FS_AddElement, FS_CardinalityType
         DEF SendRecoveryMessage, TypeOK
    <2> QED
      BY <1>1, <2>1, ClaimsAssumption
         DEF TypeOK, SendRecoveryMessage, standaloneNotes, rootNotes,
             linkedNotes
  <1>2. ASSUME NEW rr \in root_recovery_notes, NEW m \in inbox,
               NEW a \in Anchor, RecoverRootV3(rr, m, a)
        PROVE  TypeOK'
    <2>1. \A x \in nullifiers' : x.at \in Nat
      BY <1>2, PushType DEF RecoverRootV3
    <2>2. /\ rr.owner \in Ghost /\ rr.root \in Root
          /\ m.destination \in Wallet /\ m.claims \in Passport
          /\ m.expiry \in Nat
      BY DEF TypeOK
    <2>3. RootedPassportNotes(m.destination, rr.owner, rr.root, m.claims,
                              m.expiry)
      BY <1>2 DEF RecoverRootV3
    <2> QED
      BY <1>2, <2>1, <2>2, <2>3, RootedPassportNotesType
         DEF TypeOK, RecoverRootV3, standaloneNotes, external
  <1> QED
    BY <1>1, <1>2 DEF Recover

LEMMA LoginStep ==
    Login => MeterVerify
  BY DEF Login, Verify, VerifyV2, VerifyInstagram, VerifyLinked,
         VerifyLinkedV2, VerifyLinkedInstagram

LEMMA TypeStep == TypeOK /\ [Next]_vars => TypeOK'
  <1> SUFFICES ASSUME TypeOK, [Next]_vars PROVE TypeOK'
    OBVIOUS
  <1>1. CASE Tick
    BY <1>1, BoundsAssumption
       DEF TypeOK, Tick, standaloneNotes, rootNotes, linkedNotes, external
  <1>2. CASE Login
    <2>1. MeterVerify
      BY <1>2, LoginStep
    <2> QED
      BY <2>1, BoundsAssumption
         DEF TypeOK, MeterVerify, standaloneNotes, rootNotes, linkedNotes
  <1>3. CASE UNCHANGED vars
    BY <1>3 DEF TypeOK, vars, standaloneNotes, rootNotes, linkedNotes, external
  <1> QED
    BY <1>1, <1>2, <1>3, TypeIssue, TypeHold, TypeRenew, TypeRecover DEF Next

(* Every reachable state of the issuer is well typed: notes of each storage *)
(* slot, settlement times, recovery messages and the meter.                 *)
THEOREM TypeCorrect == Spec => []TypeOK
  BY TypeInit, TypeStep, PTL DEF Spec

-----------------------------------------------------------------------------
(* Revocation lag. *)

(* A kill switch absent at anchor a cannot be effective at a time the       *)
(* protocol still includes a call anchored at a.                            *)
LEMMA AbsentNotEffective ==
    ASSUME TypeOK, NEW a \in Anchor, NEW n, NEW d \in Nat, AbsentAt(n, a),
           Before(BoundedRevocationDeadline(a, d))
    PROVE  ~Effective(n)
  BY BoundsAssumption
     DEF TypeOK, Anchor, AbsentAt, Before, BoundedRevocationDeadline, Effective

LEMMA LagFromType == TypeOK => BoundedRevocationLag
  <1> SUFFICES ASSUME TypeOK PROVE BoundedRevocationLag
    OBVIOUS
  <1> USE DEF RootRevoked, RootLive
  <1>1. ASSUME NEW cr \in credential_notes, NEW st \in status_notes,
               NEW a \in Anchor, AcceptsStandalone(cr, st, a)
        PROVE  ~Effective(Revocation(Random(st.secret), st.claims))
    <2>1. cr.expiry \in Nat
      BY DEF TypeOK
    <2>2. CanVerifyStandalone(cr, st, a)
      BY <1>1 DEF AcceptsStandalone, CanVerify, CanVerifyV2, CanVerifyInstagram
    <2> QED
      BY <2>1, <2>2, AbsentNotEffective DEF CanVerifyStandalone
  <1>2. ASSUME NEW rs \in root_status_notes, NEW lc \in linked_credential_notes,
               NEW ls \in linked_status_notes, NEW a \in Anchor,
               CanVerifyLinkedInstagram(rs, lc, ls, a)
        PROVE  ~RootRevoked(rs) /\ ~Effective(Revocation(ls.secret, ls.claims))
    <2>1. lc.expiry \in Nat
      BY DEF TypeOK
    <2> QED
      BY <1>2, <2>1, AbsentNotEffective
         DEF CanVerifyLinkedInstagram, LinkedNotesMatch
  <1>3. ASSUME NEW rs \in root_status_notes, NEW lc \in linked_credential_notes,
               NEW ls \in linked_status_notes, NEW a \in Anchor,
               NEW au \in root_authority_notes,
               AcceptsLinkedPassport(rs, au, lc, ls, a)
        PROVE  /\ ~RootRevoked(rs)
               /\ ~Effective(Revocation(ls.secret, ls.claims))
               /\ ~Effective(AuthorityRevocation(au.secret, au.root, au.claims))
    <2>1. Earlier(lc.expiry, au.expiry) \in Nat
      BY DEF TypeOK, Earlier
    <2>2. CanVerifyLinkedPassport(rs, au, lc, ls, a)
      BY <1>3 DEF AcceptsLinkedPassport, CanVerifyLinked, CanVerifyLinkedV2
    <2> QED
      BY <2>1, <2>2, AbsentNotEffective
         DEF CanVerifyLinkedPassport, LinkedNotesMatch
  <1>4. ASSUME NEW cr \in credential_notes, NEW st \in status_notes,
               NEW rs \in root_status_notes, NEW a \in Anchor,
               CanLink(cr, st, rs, a)
        PROVE  ~RootRevoked(rs)
    <2>1. cr.expiry \in Nat
      BY DEF TypeOK
    <2> QED
      BY <1>4, <2>1, AbsentNotEffective DEF CanLink
  <1>5. ASSUME NEW rs \in root_status_notes, NEW au \in root_authority_notes,
               NEW e \in ValidUntil, NEW a \in Anchor, CanRefresh(rs, au, e, a)
        PROVE  /\ ~RootRevoked(rs)
               /\ ~Effective(AuthorityRevocation(au.secret, au.root, au.claims))
    <2>1. e \in Nat
      BY ClaimsAssumption
    <2> QED
      BY <1>5, <2>1, AbsentNotEffective DEF CanRefresh
  <1> QED
    BY <1>1, <1>2, <1>3, <1>4, <1>5 DEF BoundedRevocationLag

(* No verification, link or renewal relies on revocation state older than   *)
(* RevocationAnchor, whatever the window is.                                *)
THEOREM RevocationLag == Spec => []BoundedRevocationLag
  BY TypeCorrect, LagFromType, PTL

-----------------------------------------------------------------------------
(* Root lineages. *)
(* Nullifiers that the root lineage depends on. *)
LineageNullifier(n) ==
    \E k, r : n \in {RootRevocation(k, r), Spend("root_recovery", k)}

(* Secrets not sampled yet have settled nothing; recovery notes are told    *)
(* apart by their secrets.                                                  *)
FreshSecrets ==
    /\ \A rr \in root_recovery_notes : rr.secret < fresh
    /\ \A x, y \in root_recovery_notes : x.secret = y.secret => x = y
    /\ \A k \in Nat, r \in Root : k >= fresh =>
          /\ ~Settled(RootRevocation(k, r))
          /\ ~Settled(Spend("root_recovery", k))

RecoverableInv == TypeOK /\ FreshSecrets /\ RootAlwaysRecoverable

(* Live versions: rs and rr are the only usable notes of root r. *)
LivePair(r, rs, rr) ==
    /\ rs.secret = rr.secret
    /\ Spendable(rr)
    /\ \A v \in Versions(r) : v # rs => Settled(RootRevocation(v.secret, r))
    /\ \A q \in RecoveryNotes(r) : q # rr => ~Spendable(q)

LineageInv ==
    /\ RecoverableInv
    /\ RootedOnce => \A r \in Root :
          \/ Versions(r) = {} /\ RecoveryNotes(r) = {}
          \/ /\ Settled(PassportIssuance(r))
             /\ \E rs \in Versions(r), rr \in RecoveryNotes(r) :
                   LivePair(r, rs, rr)

-----------------------------------------------------------------------------
(* What a step does to the settled nullifiers. *)

LEMMA SettledByPush ==
    ASSUME NEW N, Push(N), NEW n
    PROVE  Settled(n)' <=> Settled(n) \/ n \in N
  <1> DEFINE e0 == [n |-> n, at |-> now]
  <1>1. nullifiers' = nullifiers \cup [n : N, at : {now}]
    BY DEF Push
  <1>2. ASSUME n \in N PROVE Settled(n)'
    <2>1. e0 \in nullifiers' /\ e0.n = n
      BY <1>1, <1>2
    <2> QED
      BY <2>1 DEF Settled
  <1>3. ASSUME Settled(n)', n \notin N PROVE Settled(n)
    <2>1. PICK e \in nullifiers' : e.n = n
      BY <1>3 DEF Settled
    <2>2. e \in nullifiers
      BY <1>1, <1>3, <2>1
    <2> QED
      BY <2>1, <2>2 DEF Settled
  <1>4. ASSUME Settled(n) PROVE Settled(n)'
    BY <1>1, <1>4 DEF Settled
  <1> QED
    BY <1>2, <1>3, <1>4

(* Every step either leaves the root notes and the lineage nullifiers       *)
(* alone, or issues a root, or recovers one.                                *)
Quiet ==
    /\ UNCHANGED rootNotes
    /\ fresh' >= fresh
    /\ \A n : Settled(n) => Settled(n)'
    /\ \A n : LineageNullifier(n) => (Settled(n)' <=> Settled(n))

IssuesRoot(o, g, r) ==
    /\ MintRootNotes(o, g, r, fresh)
    /\ fresh' > fresh
    /\ \A n : Settled(n) => Settled(n)'
    /\ \A n : LineageNullifier(n) => (Settled(n)' <=> Settled(n))
    /\ RootedOnce => ~Settled(PassportIssuance(r)) /\ Settled(PassportIssuance(r))'

RecoversRoot(rr, m) ==
    /\ MintRootNotes(m.destination, rr.owner, rr.root, fresh)
    /\ fresh' > fresh
    /\ Spendable(rr)
    /\ \A n : Settled(n) => Settled(n)'
    /\ \A n : LineageNullifier(n) =>
          (Settled(n)' <=> Settled(n) \/ n \in RecoveryNullifiers(rr))

LEMMA QuietPush ==
    ASSUME TypeOK, UNCHANGED rootNotes, fresh' \in Nat, fresh' >= fresh, NEW N,
           Push(N), \A n \in N : ~LineageNullifier(n)
    PROVE  Quiet
  BY SettledByPush DEF Quiet

LEMMA QuietWithout ==
    ASSUME TypeOK, UNCHANGED rootNotes, UNCHANGED nullifiers, fresh' >= fresh
    PROVE  Quiet
  BY DEF Quiet, Settled

LEMMA NotLineage ==
    ASSUME NEW x, NEW y
    PROVE  /\ ~LineageNullifier(Revocation(x, y))
           /\ ~LineageNullifier(OwnerRootRevocation(x, y))
           /\ ~LineageNullifier(StandaloneIssuance(x, y))
           /\ ~LineageNullifier(LinkedIssuance(x, y))
           /\ ~LineageNullifier(PassportIssuance(x))
           /\ ~LineageNullifier(MessageNullifier(x))
           /\ ~LineageNullifier(Spend("credential", x))
           /\ ~LineageNullifier(Spend("status", x))
           /\ ~LineageNullifier(Spend("linked_recovery", x))
           /\ \A z : ~LineageNullifier(AuthorityRevocation(x, y, z))
           /\ \A g, c, e : ~LineageNullifier(RefreshAuthorization(x, g, y, c, e))
  BY DEF LineageNullifier, Revocation, OwnerRootRevocation, StandaloneIssuance,
         LinkedIssuance, PassportIssuance, MessageNullifier, Spend,
         AuthorityRevocation, RefreshAuthorization, RootRevocation

(* The three kinds of step cover the next-state relation. *)
LEMMA StepKinds ==
    ASSUME TypeOK, [Next]_vars
    PROVE  \/ Quiet
           \/ \E o \in Wallet, g \in Ghost, r \in Root : IssuesRoot(o, g, r)
           \/ \E rr \in root_recovery_notes, m \in inbox : RecoversRoot(rr, m)
  <1> DEFINE Goal == \/ Quiet
                     \/ \E o \in Wallet, g \in Ghost, r \in Root : IssuesRoot(o, g, r)
                     \/ \E rr \in root_recovery_notes, m \in inbox : RecoversRoot(rr, m)
  <1>t. fresh \in Nat
    BY DEF TypeOK
  <1>1. ASSUME NEW o \in Wallet, NEW g \in Ghost, NEW e \in ValidUntil,
               NEW c \in Claims, RegisterCredential(o, g, c, e)
        PROVE  Quiet
    BY <1>t, <1>1, QuietPush, NotLineage DEF RegisterCredential, TakeSecrets
  <1>2. ASSUME NEW o \in Wallet, NEW g \in Ghost, NEW r \in Root,
               RegisterRoot(o, g, r)
        PROVE  IssuesRoot(o, g, r)
    BY <1>t, <1>2 DEF RegisterRoot, IssuesRoot, TakeSecrets, RootedOnce, Settled
  <1>3. ASSUME NEW o \in Wallet, NEW r \in Root, NEW c \in Claims,
               NEW e \in ValidUntil, RegisterRootAuthority(o, r, c, e)
        PROVE  Quiet
    BY <1>t, <1>3, QuietWithout DEF RegisterRootAuthority, TakeSecrets
  <1>4. ASSUME NEW o \in Wallet, NEW g \in Ghost, NEW r \in Root,
               NEW c \in Passport, NEW e \in ValidUntil,
               RegisterRootedPassport(o, g, r, c, e)
        PROVE  IssuesRoot(o, g, r)
    BY <1>t, <1>4 DEF RegisterRootedPassport, RootedPassportNotes, IssuesRoot,
                      TakeSecrets, RootedOnce, Settled
  <1>5. ASSUME NEW o \in Wallet, NEW g \in Ghost, NEW r \in Root,
               NEW c \in Passport, NEW e \in ValidUntil, NEW a \in Anchor,
               RegisterRootedPassportV2(o, g, r, c, e, a)
        PROVE  IssuesRoot(o, g, r)
    <2>1. Push({PassportIssuance(r)}) /\ ~Settled(PassportIssuance(r))
      BY <1>5 DEF RegisterRootedPassportV2, Push, Unsettled, Settled
    <2>2. \A n : Settled(n)' <=> Settled(n) \/ n = PassportIssuance(r)
      BY <2>1, SettledByPush
    <2> QED
      BY <1>t, <1>5, <2>1, <2>2, NotLineage
         DEF RegisterRootedPassportV2, RootedPassportNotes, IssuesRoot, TakeSecrets
  <1>6. ASSUME NEW o \in Wallet, NEW g \in Ghost, NEW r \in Root,
               NEW c \in Claims, NEW e \in ValidUntil,
               RegisterLinkedCredential(o, g, r, c, e)
        PROVE  Quiet
    BY <1>t, <1>6, QuietWithout DEF RegisterLinkedCredential, TakeSecrets
  <1>7. ASSUME NEW o \in Wallet, NEW g \in Ghost, NEW r \in Root,
               NEW c \in Passport, NEW e \in ValidUntil,
               AuthorizeRootAuthorityRefresh(o, g, r, c, e)
        PROVE  Quiet
    BY <1>t, <1>7, QuietWithout DEF AuthorizeRootAuthorityRefresh
  <1>8. CASE Issue
    BY <1>1, <1>2, <1>3, <1>4, <1>5, <1>6, <1>7, <1>8 DEF Issue
  <1>9. CASE Hold
    <2>1. ASSUME NEW cr \in credential_notes, NEW st \in status_notes,
                 NEW rs \in root_status_notes, NEW a \in Anchor,
                 LinkCredentialToRoot(cr, st, rs, a)
          PROVE  Quiet
      BY <1>t, <2>1, QuietPush, NotLineage DEF LinkCredentialToRoot
    <2>2. ASSUME NEW st \in status_notes, RevokeCredential(st) PROVE Quiet
      BY <1>t, <2>2, QuietPush, NotLineage DEF RevokeCredential, Unminted
    <2>3. ASSUME NEW ls \in linked_status_notes,
                 RevokeLinkedCredentialAsOwner(ls)
          PROVE  Quiet
      BY <1>t, <2>3, QuietPush, NotLineage
         DEF RevokeLinkedCredentialAsOwner, Unminted
    <2>4. ASSUME NEW rs \in root_status_notes, RevokeRootAsOwner(rs) PROVE Quiet
      BY <1>t, <2>4, QuietPush, NotLineage DEF RevokeRootAsOwner, Unminted
    <2>5. ASSUME NEW lr \in linked_recovery_notes, RevokeLinkedCredential(lr)
          PROVE  Quiet
      BY <1>t, <2>5, QuietPush, NotLineage DEF RevokeLinkedCredential, Unminted
    <2> QED
      BY <1>9, <2>1, <2>2, <2>3, <2>4, <2>5 DEF Hold
  <1>10. CASE Renew
    <2> SUFFICES ASSUME NEW rs \in root_status_notes,
                        NEW au \in root_authority_notes, NEW g \in Ghost,
                        NEW c \in Passport, NEW e \in ValidUntil,
                        NEW a \in Anchor,
                        \/ RefreshRootAuthority(rs, au, g, c, e, a)
                        \/ RefreshRootAuthorityAuthorized(rs, au, g, c, e, a)
                 PROVE  Quiet
      BY <1>10 DEF Renew
    <2>1. UNCHANGED rootNotes /\ fresh' = fresh + 2
      BY DEF RefreshRootAuthority, RefreshRootAuthorityAuthorized, RefreshNotes,
             TakeSecrets
    <2>2. /\ ~LineageNullifier(AuthorityRevocation(au.secret, au.root, au.claims))
          /\ ~LineageNullifier(RefreshAuthorization(rs.owner, g, rs.root, c, e))
      BY NotLineage
    <2>3. PICK N : Push(N) /\ \A n \in N : ~LineageNullifier(n)
      BY <2>2 DEF RefreshRootAuthority, RefreshRootAuthorityAuthorized
    <2>4. fresh' \in Nat /\ fresh' >= fresh
      BY <1>t, <2>1
    <2> QED
      BY <2>1, <2>3, <2>4, QuietPush
  <1>11. ASSUME NEW d \in Wallet, NEW r \in Root, NEW c \in PassportV2,
                NEW e \in ValidUntil, SendRecoveryMessage(d, r, c, e)
         PROVE  Quiet
    BY <1>t, <1>11, QuietWithout DEF SendRecoveryMessage
  <1>12. ASSUME NEW rr \in root_recovery_notes, NEW m \in inbox,
                NEW a \in Anchor, RecoverRootV3(rr, m, a)
         PROVE  RecoversRoot(rr, m)
    <2>1. Push({MessageNullifier(m)} \cup RecoveryNullifiers(rr))
      BY <1>12 DEF RecoverRootV3
    <2>2. Spendable(rr)
      BY <2>1 DEF Push, Unsettled, Spendable, Settled
    <2>3. \A n : Settled(n)' <=> \/ Settled(n)
                                 \/ n = MessageNullifier(m)
                                 \/ n \in RecoveryNullifiers(rr)
      BY <2>1, SettledByPush
    <2> QED
      BY <1>t, <1>12, <2>2, <2>3, NotLineage
         DEF RecoverRootV3, RootedPassportNotes, TakeSecrets, RecoversRoot
  <1>13. CASE Recover
    BY <1>11, <1>12, <1>13 DEF Recover
  <1>14. CASE Tick \/ Login \/ UNCHANGED vars
    <2>1. UNCHANGED <<fresh, rootNotes, nullifiers>>
      BY <1>14, LoginStep DEF Tick, MeterVerify, vars
    <2> QED
      BY <1>t, <2>1, QuietWithout
  <1> QED
    BY <1>8, <1>9, <1>10, <1>13, <1>14 DEF Next

-----------------------------------------------------------------------------
(* Recoverability. *)

LEMMA LineageNullifiers ==
    ASSUME NEW k, NEW r
    PROVE  /\ LineageNullifier(RootRevocation(k, r))
           /\ LineageNullifier(Spend("root_recovery", k))
  BY DEF LineageNullifier

LEMMA FreshIsUnused ==
    ASSUME FreshSecrets, TypeOK, NEW r \in Root
    PROVE  ~Settled(RootRevocation(fresh, r)) /\ ~Settled(Spend("root_recovery", fresh))
  BY DEF FreshSecrets, TypeOK

LEMMA SpendableIsLineage ==
    ASSUME NEW rr, NEW n \in RecoveryNullifiers(rr)
    PROVE  LineageNullifier(n)
  BY DEF RecoveryNullifiers, LineageNullifier

(* A step that leaves the lineage nullifiers alone keeps a note spendable.  *)
LEMMA SpendableKept ==
    ASSUME NEW rr, \A n : LineageNullifier(n) => (Settled(n)' <=> Settled(n))
    PROVE  Spendable(rr)' <=> Spendable(rr)
  BY SpendableIsLineage DEF Spendable, RecoveryNullifiers

(* The recovery of one note leaves the notes with other secrets spendable.  *)
LEMMA OtherSpendableKept ==
    ASSUME NEW q, NEW rr, q.secret # rr.secret,
           \A n : LineageNullifier(n) =>
               (Settled(n)' <=> Settled(n) \/ n \in RecoveryNullifiers(rr))
    PROVE  Spendable(q)' <=> Spendable(q)
  <1>1. \A n \in RecoveryNullifiers(q) : n \notin RecoveryNullifiers(rr)
    BY DEF RecoveryNullifiers, RootRevocation, Spend
  <1> QED
    BY <1>1, SpendableIsLineage DEF Spendable, RecoveryNullifiers

LEMMA RecoverableStep ==
    ASSUME RecoverableInv, [Next]_vars
    PROVE  RecoverableInv'
  <1>1. TypeOK /\ TypeOK' /\ FreshSecrets /\ RootAlwaysRecoverable
    BY TypeStep DEF RecoverableInv
  <1>2. fresh \in Nat /\ fresh' \in Nat
    BY <1>1, BoundsAssumption DEF TypeOK
  <1>3. CASE Quiet
    <2>1. root_recovery_notes' = root_recovery_notes
          /\ root_status_notes' = root_status_notes
      BY <1>3 DEF Quiet, rootNotes
    <2>2. FreshSecrets'
      <3>1. \A k \in Nat, r \in Root : k >= fresh' => k >= fresh
        BY <1>2, <1>3 DEF Quiet
      <3>2. \A k \in Nat, r \in Root : k >= fresh' =>
                /\ ~Settled(RootRevocation(k, r))'
                /\ ~Settled(Spend("root_recovery", k))'
        BY <1>1, <1>3, <3>1, LineageNullifiers DEF FreshSecrets, Quiet
      <3>3. \A rr \in root_recovery_notes' : rr.secret < fresh'
        BY <1>1, <1>2, <1>3, <2>1 DEF FreshSecrets, Quiet, TypeOK
      <3> QED
        BY <1>1, <2>1, <3>2, <3>3 DEF FreshSecrets
    <2>3. RootAlwaysRecoverable'
      BY <1>1, <1>3, <2>1, SpendableKept DEF RootAlwaysRecoverable, Quiet
    <2> QED
      BY <1>1, <2>2, <2>3 DEF RecoverableInv
  <1>4. ASSUME NEW o \in Wallet, NEW g \in Ghost, NEW r \in Root,
               IssuesRoot(o, g, r)
        PROVE  RecoverableInv'
    <2>0. PICK new : new = [owner |-> g, root |-> r, secret |-> fresh, at |-> now]
      OBVIOUS
    <2>1. /\ root_recovery_notes' = root_recovery_notes \cup {new}
          /\ \A rs \in root_status_notes' : rs \in root_status_notes \/ rs.root = r
          /\ fresh' > fresh
      BY <1>4, <2>0 DEF IssuesRoot, MintRootNotes
    <2>2. FreshSecrets'
      BY <1>1, <1>2, <1>4, <2>0, <2>1, LineageNullifiers
         DEF FreshSecrets, IssuesRoot, TypeOK
    <2>3. Spendable(new)'
      BY <1>1, <1>4, <2>0, FreshIsUnused, SpendableKept
         DEF Spendable, RecoveryNullifiers, IssuesRoot
    <2>4. RootAlwaysRecoverable'
      BY <1>1, <1>4, <2>0, <2>1, <2>3, SpendableKept
         DEF RootAlwaysRecoverable, IssuesRoot
    <2> QED
      BY <1>1, <2>2, <2>4 DEF RecoverableInv
  <1>5. ASSUME NEW rr \in root_recovery_notes, NEW m \in inbox,
               RecoversRoot(rr, m)
        PROVE  RecoverableInv'
    <2>0. PICK new : new = [owner |-> rr.owner, root |-> rr.root,
                            secret |-> fresh, at |-> now]
      OBVIOUS
    <2>1. /\ root_recovery_notes' = root_recovery_notes \cup {new}
          /\ \A rs \in root_status_notes' :
                rs \in root_status_notes \/ rs.root = rr.root
          /\ fresh' > fresh
      BY <1>5, <2>0 DEF RecoversRoot, MintRootNotes
    <2>2. rr.root \in Root /\ rr.secret \in Nat /\ rr.secret < fresh
      BY <1>1 DEF TypeOK, FreshSecrets
    <2>3. \A k \in Nat, r \in Root : k >= fresh =>
              /\ RootRevocation(k, r) \notin RecoveryNullifiers(rr)
              /\ Spend("root_recovery", k) \notin RecoveryNullifiers(rr)
      BY <1>2, <2>2 DEF RecoveryNullifiers, RootRevocation, Spend
    <2>4. \A k \in Nat, r \in Root : k >= fresh =>
              /\ ~Settled(RootRevocation(k, r))'
              /\ ~Settled(Spend("root_recovery", k))'
      BY <1>1, <1>5, <2>3, LineageNullifiers DEF RecoversRoot, FreshSecrets
    <2>5. FreshSecrets'
      BY <1>1, <1>2, <2>0, <2>1, <2>4 DEF FreshSecrets, TypeOK
    <2>6. Spendable(new)'
      BY <1>2, <2>0, <2>2, <2>4 DEF Spendable, RecoveryNullifiers
    <2>7. ASSUME NEW rs \in root_status_notes' 
          PROVE  \E q \in root_recovery_notes' : q.root = rs.root /\ Spendable(q)'
      <3>1. CASE rs.root = rr.root
        BY <2>0, <2>1, <2>6, <3>1
      <3>2. CASE rs.root # rr.root
        <4>1. PICK q \in root_recovery_notes : q.root = rs.root /\ Spendable(q)
          BY <1>1, <2>1, <3>2 DEF RootAlwaysRecoverable
        <4>2. q.secret # rr.secret
          BY <1>1, <3>2, <4>1 DEF FreshSecrets
        <4>3. Spendable(q)'
          BY <1>5, <4>1, <4>2, OtherSpendableKept DEF RecoversRoot
        <4> QED
          BY <2>1, <4>1, <4>3
      <3> QED
        BY <3>1, <3>2
    <2> QED
      BY <1>1, <2>5, <2>7 DEF RecoverableInv, RootAlwaysRecoverable
  <1> QED
    BY <1>1, <1>3, <1>4, <1>5, StepKinds

(* A root that was ever issued stays recoverable: whatever holders, the     *)
(* orchestrator and earlier recoveries did, its ghost holds a recovery note *)
(* whose spend and kill switch are both unsettled.                          *)
THEOREM RootRecoverability == Spec => []RootAlwaysRecoverable
  <1>1. Init => RecoverableInv
    BY TypeInit DEF Init, RecoverableInv, FreshSecrets, RootAlwaysRecoverable, Settled
  <1>2. RecoverableInv /\ [Next]_vars => RecoverableInv'
    BY RecoverableStep
  <1>3. RecoverableInv => RootAlwaysRecoverable
    BY DEF RecoverableInv
  <1> QED
    BY <1>1, <1>2, <1>3, PTL DEF Spec

-----------------------------------------------------------------------------
(* One live version per root. *)

LEMMA LineageStep ==
    ASSUME LineageInv, [Next]_vars
    PROVE  LineageInv'
  <1>1. /\ TypeOK /\ TypeOK' /\ FreshSecrets /\ FreshSecrets'
        /\ RecoverableInv /\ RecoverableInv'
    BY RecoverableStep DEF LineageInv, RecoverableInv
  <1> SUFFICES ASSUME RootedOnce, NEW r \in Root
               PROVE  \/ Versions(r)' = {} /\ RecoveryNotes(r)' = {}
                      \/ /\ Settled(PassportIssuance(r))'
                         /\ \E rs \in Versions(r)', rr \in RecoveryNotes(r)' :
                               LivePair(r, rs, rr)'
    BY <1>1 DEF LineageInv, RootedOnce
  <1>2. \/ Versions(r) = {} /\ RecoveryNotes(r) = {}
        \/ /\ Settled(PassportIssuance(r))
           /\ \E rs \in Versions(r), rr \in RecoveryNotes(r) : LivePair(r, rs, rr)
    BY DEF LineageInv
  (* The pair of r survives a step that adds no note of r and settles no    *)
  (* nullifier of r's notes.                                                *)
  <1>3. ASSUME Versions(r)' = Versions(r), RecoveryNotes(r)' = RecoveryNotes(r),
               Settled(PassportIssuance(r)) => Settled(PassportIssuance(r))',
               \A v \in Versions(r) : Settled(RootRevocation(v.secret, r))
                                         => Settled(RootRevocation(v.secret, r))',
               \A q \in RecoveryNotes(r) : Spendable(q)' <=> Spendable(q)
        PROVE  \/ Versions(r)' = {} /\ RecoveryNotes(r)' = {}
               \/ /\ Settled(PassportIssuance(r))'
                  /\ \E rs \in Versions(r)', rr \in RecoveryNotes(r)' :
                        LivePair(r, rs, rr)'
    BY <1>2, <1>3 DEF LivePair
  <1>4. CASE Quiet
    <2>1. Versions(r)' = Versions(r) /\ RecoveryNotes(r)' = RecoveryNotes(r)
      BY <1>4 DEF Quiet, rootNotes, Versions, RecoveryNotes
    <2> QED
      BY <1>3, <1>4, <2>1, SpendableKept DEF Quiet
  <1>5. ASSUME NEW o \in Wallet, NEW g \in Ghost, NEW x \in Root,
               IssuesRoot(o, g, x)
        PROVE  \/ Versions(r)' = {} /\ RecoveryNotes(r)' = {}
               \/ /\ Settled(PassportIssuance(r))'
                  /\ \E rs \in Versions(r)', rr \in RecoveryNotes(r)' :
                        LivePair(r, rs, rr)'
    <2>1. PICK rs, rr :
              /\ rs = [owner |-> o, root |-> x, secret |-> fresh, at |-> now]
              /\ rr = [owner |-> g, root |-> x, secret |-> fresh, at |-> now]
      OBVIOUS
    <2>2. /\ root_status_notes' = root_status_notes \cup {rs}
          /\ root_recovery_notes' = root_recovery_notes \cup {rr}
      BY <1>5, <2>1 DEF IssuesRoot, MintRootNotes
    <2>3. CASE x = r
      <3>1. Versions(r) = {} /\ RecoveryNotes(r) = {}
        BY <1>2, <1>5, <2>3 DEF IssuesRoot
      <3>2. Versions(r)' = {rs} /\ RecoveryNotes(r)' = {rr}
        BY <2>1, <2>2, <2>3, <3>1 DEF Versions, RecoveryNotes
      <3>3. Spendable(rr)'
        BY <1>1, <1>5, <2>1, FreshIsUnused, SpendableKept
           DEF Spendable, RecoveryNullifiers, IssuesRoot
      <3>4. LivePair(r, rs, rr)'
        BY <2>1, <3>2, <3>3 DEF LivePair
      <3> QED
        BY <1>5, <2>3, <3>2, <3>4 DEF IssuesRoot
    <2>4. CASE x # r
      <3>1. Versions(r)' = Versions(r) /\ RecoveryNotes(r)' = RecoveryNotes(r)
        BY <2>1, <2>2, <2>4 DEF Versions, RecoveryNotes
      <3> QED
        BY <1>3, <1>5, <3>1, SpendableKept DEF IssuesRoot
    <2> QED
      BY <2>3, <2>4
  <1>6. ASSUME NEW old \in root_recovery_notes, NEW m \in inbox,
               RecoversRoot(old, m)
        PROVE  \/ Versions(r)' = {} /\ RecoveryNotes(r)' = {}
               \/ /\ Settled(PassportIssuance(r))'
                  /\ \E rs \in Versions(r)', rr \in RecoveryNotes(r)' :
                        LivePair(r, rs, rr)'
    <2>1. PICK rs, rr :
              /\ rs = [owner |-> m.destination, root |-> old.root,
                       secret |-> fresh, at |-> now]
              /\ rr = [owner |-> old.owner, root |-> old.root,
                       secret |-> fresh, at |-> now]
      OBVIOUS
    <2>2. /\ root_status_notes' = root_status_notes \cup {rs}
          /\ root_recovery_notes' = root_recovery_notes \cup {rr}
      BY <1>6, <2>1 DEF RecoversRoot, MintRootNotes
    <2>3. \A n : Settled(n) => Settled(n)'
      BY <1>6 DEF RecoversRoot
    <2>4. CASE old.root = r
      <3>1. old \in RecoveryNotes(r) /\ Spendable(old)
        BY <1>6, <2>4 DEF RecoveryNotes, RecoversRoot
      <3>2. PICK was \in Versions(r), q \in RecoveryNotes(r) : LivePair(r, was, q)
        BY <1>2, <3>1
      <3>3. q = old /\ was.secret = old.secret
        BY <3>1, <3>2 DEF LivePair
      <3>4. Settled(RootRevocation(old.secret, r))'
        BY <1>6, <2>4, LineageNullifiers DEF RecoversRoot, RecoveryNullifiers
      <3>5. /\ Versions(r)' = Versions(r) \cup {rs}
            /\ RecoveryNotes(r)' = RecoveryNotes(r) \cup {rr}
        BY <2>1, <2>2, <2>4 DEF Versions, RecoveryNotes
      <3>6. \A v \in Versions(r) : Settled(RootRevocation(v.secret, r))'
        BY <2>3, <3>2, <3>3, <3>4 DEF LivePair
      <3>7. \A y \in RecoveryNotes(r) : ~Spendable(y)'
        <4>1. ASSUME NEW y \in RecoveryNotes(r), y # old PROVE ~Spendable(y)'
          <5>1. PICK n \in RecoveryNullifiers(y) : Settled(n)
            BY <3>2, <3>3, <4>1 DEF LivePair, Spendable
          <5> QED
            BY <2>3, <5>1 DEF Spendable, RecoveryNullifiers
        <4>2. ~Spendable(old)'
          BY <2>4, <3>4 DEF Spendable, RecoveryNullifiers
        <4> QED
          BY <4>1, <4>2
      <3>8. Spendable(rr)'
        <4>1. \E y \in RecoveryNotes(r)' : Spendable(y)'
          <5>1. \E y \in root_recovery_notes' : y.root = rs.root /\ Spendable(y)'
            BY <1>1, <2>2 DEF RecoverableInv, RootAlwaysRecoverable
          <5> QED
            BY <2>1, <2>4, <5>1 DEF RecoveryNotes
        <4> QED
          BY <3>5, <3>7, <4>1
      <3>9. LivePair(r, rs, rr)'
        BY <2>1, <3>5, <3>6, <3>7, <3>8 DEF LivePair
      <3> QED
        BY <1>2, <2>3, <3>1, <3>5, <3>9
    <2>5. CASE old.root # r
      <3>1. Versions(r)' = Versions(r) /\ RecoveryNotes(r)' = RecoveryNotes(r)
        BY <2>1, <2>2, <2>5 DEF Versions, RecoveryNotes
      <3>2. \A y \in RecoveryNotes(r) : y.secret # old.secret
        BY <1>1, <2>5 DEF RecoveryNotes, FreshSecrets
      <3>3. \A y \in RecoveryNotes(r) : Spendable(y)' <=> Spendable(y)
        BY <1>6, <3>2, OtherSpendableKept DEF RecoversRoot
      <3> QED
        BY <1>3, <2>3, <3>1, <3>3
    <2> QED
      BY <2>4, <2>5
  <1> QED
    BY <1>1, <1>4, <1>5, <1>6, StepKinds

LEMMA PairIsOnlyLive ==
    ASSUME LineageInv
    PROVE  OneLiveRootVersion
  <1> SUFFICES ASSUME RootedOnce, NEW r \in Root, Versions(r) # {}
               PROVE  \E rs \in Versions(r) :
                        /\ {rr \in RecoveryNotes(r) : Spendable(rr)}
                              = {rr \in RecoveryNotes(r) : rr.secret = rs.secret}
                        /\ {v \in Versions(r) : ~Settled(RootRevocation(v.secret, r))}
                              = {rs}
    BY DEF OneLiveRootVersion
  <1>1. PICK rs \in Versions(r), rr \in RecoveryNotes(r) : LivePair(r, rs, rr)
    BY DEF LineageInv
  <1>2. {q \in RecoveryNotes(r) : Spendable(q)} = {rr}
    BY <1>1 DEF LivePair
  <1>3. {q \in RecoveryNotes(r) : q.secret = rs.secret} = {rr}
    BY <1>1 DEF LivePair, LineageInv, RecoverableInv, FreshSecrets, RecoveryNotes
  <1>4. ~Settled(RootRevocation(rs.secret, r))
    BY <1>1 DEF LivePair, Spendable, RecoveryNullifiers, RecoveryNotes
  <1> QED
    BY <1>1, <1>2, <1>3, <1>4 DEF LivePair

(* In a deployment that issues roots through the V2 entrypoint only, every  *)
(* issued root has exactly one live version and the ghost holds exactly its *)
(* recovery note, whatever recoveries and issuances race.                   *)
THEOREM RootLineage == Spec => []OneLiveRootVersion
  <1>1. Init => LineageInv
    BY TypeInit DEF Init, LineageInv, RecoverableInv, FreshSecrets,
                    RootAlwaysRecoverable, Settled, Versions, RecoveryNotes
  <1>2. LineageInv /\ [Next]_vars => LineageInv'
    BY LineageStep
  <1>3. LineageInv => OneLiveRootVersion
    BY PairIsOnlyLive
  <1> QED
    BY <1>1, <1>2, <1>3, PTL DEF Spec

-----------------------------------------------------------------------------
(* The notes and nullifiers of a rooted deployment implement the lineage. *)

(* Secrets and recovery messages to come have settled nothing. *)
Unspent ==
    /\ IsFiniteSet(root_status_notes)
    /\ \A rs \in root_status_notes : rs.secret < fresh
    /\ \A k \in Nat : \A r : k >= fresh => ~Settled(OwnerRootRevocation(k, r))
    /\ \A m \in inbox : m.leaf < Cardinality(inbox)
    /\ \A m : Settled(MessageNullifier(m)) => m \in inbox

LineageMapInv == LineageInv /\ Unspent

KeepsLineage ==
    /\ \A k, r : Settled(RootRevocation(k, r))' <=> Settled(RootRevocation(k, r))
    /\ \A k, r : Settled(OwnerRootRevocation(k, r))'
                     <=> Settled(OwnerRootRevocation(k, r))
    /\ \A m : Settled(MessageNullifier(m))' <=> Settled(MessageNullifier(m))

Stutters ==
    /\ UNCHANGED <<root_status_notes, inbox>>
    /\ fresh' >= fresh
    /\ KeepsLineage

NewNote(o, r, rs) ==
    /\ rs = [owner |-> o, root |-> r, secret |-> fresh, at |-> now]
    /\ root_status_notes' = root_status_notes \cup {rs}
    /\ fresh' > fresh

Originates(o, r) ==
    /\ \E rs : NewNote(o, r, rs)
    /\ ~Settled(PassportIssuance(r))
    /\ KeepsLineage
    /\ UNCHANGED inbox

Withdraws(rs) ==
    /\ Push({OwnerRootRevocation(rs.secret, rs.root)})
    /\ UNCHANGED <<root_status_notes, inbox, fresh>>

Sends(d, r) ==
    /\ \E m : /\ m.root = r /\ m.destination = d /\ m.leaf = Cardinality(inbox)
              /\ inbox' = inbox \cup {m}
    /\ UNCHANGED <<root_status_notes, nullifiers, fresh>>

Returns(rr, m) ==
    /\ m.root = rr.root
    /\ \E rs : NewNote(m.destination, rr.root, rs)
    /\ Push({MessageNullifier(m)} \cup RecoveryNullifiers(rr))
    /\ UNCHANGED inbox

IsLineageEntry(n) == n[1] \in {"root", "owner_root", "message"}

LEMMA KeepingPush ==
    ASSUME NEW N, Push(N), \A n \in N : ~IsLineageEntry(n)
    PROVE  KeepsLineage
  <1>1. \A k, r : /\ RootRevocation(k, r) \notin N
                  /\ OwnerRootRevocation(k, r) \notin N
    BY DEF RootRevocation, OwnerRootRevocation, IsLineageEntry
  <1>2. \A m : MessageNullifier(m) \notin N
    BY DEF MessageNullifier, IsLineageEntry
  <1>3. \A n : Settled(n)' <=> Settled(n) \/ n \in N
    BY SettledByPush
  <1> QED
    BY <1>1, <1>2, <1>3 DEF KeepsLineage

LEMMA Keeping ==
    ASSUME UNCHANGED nullifiers
    PROVE  KeepsLineage
  BY DEF KeepsLineage, Settled

LEMMA NotAnEntry ==
    ASSUME NEW x, NEW y
    PROVE  /\ ~IsLineageEntry(Revocation(x, y))
           /\ ~IsLineageEntry(StandaloneIssuance(x, y))
           /\ ~IsLineageEntry(LinkedIssuance(x, y))
           /\ ~IsLineageEntry(PassportIssuance(x))
           /\ ~IsLineageEntry(Spend(x, y))
           /\ \A z : ~IsLineageEntry(AuthorityRevocation(x, y, z))
           /\ \A g, c, e : ~IsLineageEntry(RefreshAuthorization(x, g, y, c, e))
  BY DEF IsLineageEntry, Revocation, StandaloneIssuance, LinkedIssuance,
         PassportIssuance, Spend, AuthorityRevocation, RefreshAuthorization

LEMMA LineageKinds ==
    ASSUME TypeOK, RootedOnce, [Next]_vars
    PROVE  \/ Stutters
           \/ \E o \in Wallet, r \in Root : Originates(o, r)
           \/ \E rs \in root_status_notes : Withdraws(rs)
           \/ \E d \in Wallet, r \in Root : Sends(d, r)
           \/ \E rr \in root_recovery_notes, m \in inbox : Returns(rr, m)
  <1> USE DEF rootNotes, external
  <1>t. fresh \in Nat
    BY DEF TypeOK
  <1>1. ASSUME NEW o \in Wallet, NEW g \in Ghost, NEW e \in ValidUntil,
               NEW c \in Claims, RegisterCredential(o, g, c, e)
        PROVE  Stutters
    BY <1>t, <1>1, KeepingPush, NotAnEntry DEF RegisterCredential, TakeSecrets, Stutters
  <1>2. ASSUME NEW o \in Wallet, NEW g \in Ghost, NEW r \in Root,
               RegisterRoot(o, g, r)
        PROVE  FALSE
    BY <1>2 DEF RegisterRoot, RootedOnce
  <1>3. ASSUME NEW o \in Wallet, NEW r \in Root, NEW c \in Claims,
               NEW e \in ValidUntil, RegisterRootAuthority(o, r, c, e)
        PROVE  Stutters
    BY <1>t, <1>3, Keeping DEF RegisterRootAuthority, TakeSecrets, Stutters
  <1>4. ASSUME NEW o \in Wallet, NEW g \in Ghost, NEW r \in Root,
               NEW c \in Passport, NEW e \in ValidUntil,
               RegisterRootedPassport(o, g, r, c, e)
        PROVE  FALSE
    BY <1>4 DEF RegisterRootedPassport, RootedOnce
  <1>5. ASSUME NEW o, NEW g, NEW r, NEW c, NEW e, RootedPassportNotes(o, g, r, c, e)
        PROVE  \E rs : NewNote(o, r, rs)
    <2>1. PICK rs : rs = [owner |-> o, root |-> r, secret |-> fresh, at |-> now]
      OBVIOUS
    <2>2. NewNote(o, r, rs)
      BY <1>t, <1>5, <2>1 DEF RootedPassportNotes, TakeSecrets, MintRootNotes, NewNote
    <2> QED
      BY <2>2
  <1>6. ASSUME NEW o \in Wallet, NEW g \in Ghost, NEW r \in Root,
               NEW c \in Passport, NEW e \in ValidUntil, NEW a \in Anchor,
               RegisterRootedPassportV2(o, g, r, c, e, a)
        PROVE  Originates(o, r)
    <2>1. Push({PassportIssuance(r)}) /\ ~Settled(PassportIssuance(r))
      BY <1>6 DEF RegisterRootedPassportV2, Push, Unsettled, Settled
    <2>2. KeepsLineage
      BY <2>1, KeepingPush, NotAnEntry
    <2> QED
      BY <1>5, <1>6, <2>1, <2>2 DEF RegisterRootedPassportV2, Originates
  <1>7. ASSUME NEW o \in Wallet, NEW g \in Ghost, NEW r \in Root,
               NEW c \in Claims, NEW e \in ValidUntil,
               RegisterLinkedCredential(o, g, r, c, e)
        PROVE  Stutters
    BY <1>t, <1>7, Keeping DEF RegisterLinkedCredential, TakeSecrets, Stutters
  <1>8. ASSUME NEW o \in Wallet, NEW g \in Ghost, NEW r \in Root,
               NEW c \in Passport, NEW e \in ValidUntil,
               AuthorizeRootAuthorityRefresh(o, g, r, c, e)
        PROVE  Stutters
    BY <1>t, <1>8, Keeping DEF AuthorizeRootAuthorityRefresh, Stutters
  <1>9. CASE Hold
    <2>1. ASSUME NEW cr \in credential_notes, NEW st \in status_notes,
                 NEW rs \in root_status_notes, NEW a \in Anchor,
                 LinkCredentialToRoot(cr, st, rs, a)
          PROVE  Stutters
      BY <1>t, <2>1, KeepingPush, NotAnEntry DEF LinkCredentialToRoot, Stutters
    <2>2. ASSUME NEW N, Push(N), \A n \in N : ~IsLineageEntry(n),
                 UNCHANGED Unminted
          PROVE  Stutters
      BY <1>t, <2>2, KeepingPush DEF Unminted, Stutters
    <2>3. CASE \E st \in status_notes : RevokeCredential(st)
      BY <2>2, <2>3, NotAnEntry DEF RevokeCredential
    <2>4. CASE \E ls \in linked_status_notes : RevokeLinkedCredentialAsOwner(ls)
      BY <2>2, <2>4, NotAnEntry DEF RevokeLinkedCredentialAsOwner
    <2>5. CASE \E rs \in root_status_notes : RevokeRootAsOwner(rs)
      BY <2>5 DEF RevokeRootAsOwner, Unminted, Withdraws
    <2>6. CASE \E lr \in linked_recovery_notes : RevokeLinkedCredential(lr)
      BY <2>2, <2>6, NotAnEntry DEF RevokeLinkedCredential
    <2> QED
      BY <1>9, <2>1, <2>3, <2>4, <2>5, <2>6 DEF Hold
  <1>10. CASE Renew
    <2> SUFFICES ASSUME NEW rs \in root_status_notes,
                        NEW au \in root_authority_notes, NEW g \in Ghost,
                        NEW c \in Passport, NEW e \in ValidUntil,
                        NEW a \in Anchor,
                        \/ RefreshRootAuthority(rs, au, g, c, e, a)
                        \/ RefreshRootAuthorityAuthorized(rs, au, g, c, e, a)
                 PROVE  Stutters
      BY <1>10 DEF Renew
    <2>1. UNCHANGED <<root_status_notes, inbox>> /\ fresh' >= fresh
      BY <1>t DEF RefreshRootAuthority, RefreshRootAuthorityAuthorized,
                  RefreshNotes, TakeSecrets
    <2>2. /\ ~IsLineageEntry(AuthorityRevocation(au.secret, au.root, au.claims))
          /\ ~IsLineageEntry(RefreshAuthorization(rs.owner, g, rs.root, c, e))
      BY NotAnEntry
    <2>3. PICK N : Push(N) /\ \A n \in N : ~IsLineageEntry(n)
      BY <2>2 DEF RefreshRootAuthority, RefreshRootAuthorityAuthorized
    <2> QED
      BY <2>1, <2>3, KeepingPush DEF Stutters
  <1>11. ASSUME NEW d \in Wallet, NEW r \in Root, NEW c \in PassportV2,
                NEW e \in ValidUntil, SendRecoveryMessage(d, r, c, e)
         PROVE  Sends(d, r)
    <2>1. PICK m : m = [destination |-> d, root |-> r, claims |-> c, expiry |-> e,
                        leaf |-> Cardinality(inbox), at |-> now]
      OBVIOUS
    <2>2. /\ m.root = r /\ m.destination = d /\ m.leaf = Cardinality(inbox)
          /\ inbox' = inbox \cup {m}
      BY <1>11, <2>1 DEF SendRecoveryMessage
    <2> QED
      BY <1>11, <2>2 DEF SendRecoveryMessage, Sends
  <1>12. ASSUME NEW rr \in root_recovery_notes, NEW m \in inbox,
                NEW a \in Anchor, RecoverRootV3(rr, m, a)
         PROVE  Returns(rr, m)
    BY <1>5, <1>12 DEF RecoverRootV3, CanRecover, Returns
  <1>13. CASE Tick \/ Login \/ UNCHANGED vars
    <2>1. UNCHANGED <<fresh, root_status_notes, nullifiers, inbox>>
      BY <1>13, LoginStep DEF Tick, MeterVerify, vars
    <2> QED
      BY <1>t, <2>1, Keeping DEF Stutters
  <1>14. CASE Issue
    BY <1>1, <1>2, <1>3, <1>4, <1>6, <1>7, <1>8, <1>14 DEF Issue
  <1>15. CASE Recover
    BY <1>11, <1>12, <1>15 DEF Recover
  <1> QED
    BY <1>9, <1>10, <1>13, <1>14, <1>15 DEF Next

-----------------------------------------------------------------------------

LEMMA EntriesDiffer ==
    ASSUME NEW k, NEW r, NEW m, NEW rr
    PROVE  /\ OwnerRootRevocation(k, r) \notin RecoveryNullifiers(rr)
           /\ OwnerRootRevocation(k, r) # MessageNullifier(m)
           /\ RootRevocation(k, r) # MessageNullifier(m)
           /\ MessageNullifier(m) \notin RecoveryNullifiers(rr)
  BY DEF OwnerRootRevocation, RootRevocation, MessageNullifier, RecoveryNullifiers,
         Spend

(* What a recovery settles. *)
LEMMA SettledByReturn ==
    ASSUME NEW rr, NEW m, Returns(rr, m)
    PROVE  /\ \A k, r : Settled(OwnerRootRevocation(k, r))'
                            <=> Settled(OwnerRootRevocation(k, r))
           /\ \A q : Settled(MessageNullifier(q))'
                         <=> Settled(MessageNullifier(q)) \/ q = m
           /\ \A k, r : Settled(RootRevocation(k, r))' <=>
                  \/ Settled(RootRevocation(k, r))
                  \/ k = rr.secret /\ r = rr.root
           /\ ~Settled(MessageNullifier(m))
  <1> DEFINE N == {MessageNullifier(m)} \cup RecoveryNullifiers(rr)
  <1>1. Push(N)
    BY DEF Returns
  <1>2. \A n : Settled(n)' <=> Settled(n) \/ n \in N
    <2> HIDE DEF N
    <2> QED
      BY <1>1, SettledByPush
  <1>3. \A k, r : OwnerRootRevocation(k, r) \notin N
    BY EntriesDiffer
  <1>4. \A q : MessageNullifier(q) \in N <=> q = m
    BY EntriesDiffer DEF MessageNullifier
  <1>5. \A k, r : RootRevocation(k, r) \in N <=> k = rr.secret /\ r = rr.root
    BY DEF RootRevocation, MessageNullifier, RecoveryNullifiers, Spend
  <1>6. ~Settled(MessageNullifier(m))
    BY <1>1 DEF Push, Unsettled, Settled
  <1> HIDE DEF N
  <1> QED
    BY <1>2, <1>3, <1>4, <1>5, <1>6

LEMMA SettledByWithdrawal ==
    ASSUME NEW rs, Withdraws(rs)
    PROVE  /\ \A k, r : Settled(OwnerRootRevocation(k, r))' <=>
                  \/ Settled(OwnerRootRevocation(k, r))
                  \/ k = rs.secret /\ r = rs.root
           /\ \A q : Settled(MessageNullifier(q))' <=> Settled(MessageNullifier(q))
           /\ \A k, r : Settled(RootRevocation(k, r))' <=> Settled(RootRevocation(k, r))
           /\ ~Settled(OwnerRootRevocation(rs.secret, rs.root))
  <1>1. Push({OwnerRootRevocation(rs.secret, rs.root)})
    BY DEF Withdraws
  <1>2. \A n : Settled(n)' <=> Settled(n) \/ n = OwnerRootRevocation(rs.secret, rs.root)
    BY <1>1, SettledByPush
  <1>3. ~Settled(OwnerRootRevocation(rs.secret, rs.root))
    BY <1>1 DEF Push, Unsettled, Settled
  <1> QED
    BY <1>2, <1>3 DEF OwnerRootRevocation, RootRevocation, MessageNullifier

LEMMA UnspentStep ==
    ASSUME LineageMapInv, RootedOnce, [Next]_vars
    PROVE  LineageMapInv'
  <1>1. /\ LineageInv /\ LineageInv' /\ TypeOK /\ TypeOK' /\ Unspent
    BY LineageStep, TypeStep DEF LineageMapInv, LineageInv, RecoverableInv
  <1>2. /\ fresh \in Nat /\ fresh' \in Nat
        /\ \A rs \in root_status_notes : rs.secret \in Nat
        /\ IsFiniteSet(inbox) /\ Cardinality(inbox) \in Nat
        /\ \A m \in inbox : m.leaf \in Nat /\ m.root \in Root /\ m.destination \in Wallet
    BY <1>1, BoundsAssumption, FS_CardinalityType DEF TypeOK
  <1>3. ASSUME NEW o, NEW r, NEW rs, NewNote(o, r, rs)
        PROVE  /\ IsFiniteSet(root_status_notes')
               /\ \A v \in root_status_notes' : v.secret < fresh'
               /\ fresh' > fresh
    BY <1>1, <1>2, <1>3, FS_AddElement DEF NewNote, Unspent
  <1>4. CASE Stutters
    BY <1>1, <1>2, <1>4 DEF Stutters, Unspent, KeepsLineage, LineageMapInv
  <1>5. ASSUME NEW o \in Wallet, NEW r \in Root, Originates(o, r)
        PROVE  LineageMapInv'
    BY <1>1, <1>2, <1>3, <1>5 DEF Originates, Unspent, KeepsLineage, LineageMapInv
  <1>6. ASSUME NEW rs \in root_status_notes, Withdraws(rs)
        PROVE  LineageMapInv'
    BY <1>1, <1>2, <1>6, SettledByWithdrawal DEF Withdraws, Unspent, LineageMapInv
  <1>7. ASSUME NEW d \in Wallet, NEW r \in Root, Sends(d, r)
        PROVE  LineageMapInv'
    <2>1. PICK m : m.leaf = Cardinality(inbox) /\ inbox' = inbox \cup {m}
      BY <1>7 DEF Sends
    <2>2. m \notin inbox
      BY <1>1, <1>2, <2>1 DEF Unspent
    <2>3. Cardinality(inbox') = Cardinality(inbox) + 1
      BY <1>2, <2>1, <2>2, FS_AddElement
    <2>4. \A q \in inbox' : q.leaf < Cardinality(inbox')
      BY <1>1, <1>2, <2>1, <2>3 DEF Unspent
    <2>5. \A n : Settled(n)' <=> Settled(n)
      BY <1>7 DEF Sends, Settled
    <2> QED
      BY <1>1, <1>7, <2>1, <2>4, <2>5 DEF Sends, Unspent, LineageMapInv
  <1>8. ASSUME NEW rr \in root_recovery_notes, NEW m \in inbox, Returns(rr, m)
        PROVE  LineageMapInv'
    <2>1. PICK rs : NewNote(m.destination, rr.root, rs)
      BY <1>8 DEF Returns
    <2>2. UNCHANGED inbox
      BY <1>8 DEF Returns
    <2> QED
      BY <1>1, <1>2, <1>3, <1>8, <2>1, <2>2, SettledByReturn
         DEF Unspent, LineageMapInv
  <1> QED
    BY <1>1, <1>4, <1>5, <1>6, <1>7, <1>8, LineageKinds

-----------------------------------------------------------------------------

(* The live version is the one whose kill switch is unsettled. *)
LiveIsUnsettled ==
    \A r \in Root : Versions(r) # {} =>
        /\ LiveVersion(r) \in Versions(r)
        /\ \A v \in Versions(r) : ~Settled(RootRevocation(v.secret, r))
                                       <=> v = LiveVersion(r)

LEMMA LiveVersionIs ==
    LineageInv /\ RootedOnce => LiveIsUnsettled
  <1> SUFFICES ASSUME LineageInv, RootedOnce, NEW r \in Root, Versions(r) # {}
               PROVE  /\ LiveVersion(r) \in Versions(r)
                      /\ \A v \in Versions(r) : ~Settled(RootRevocation(v.secret, r))
                                                     <=> v = LiveVersion(r)
    BY DEF LiveIsUnsettled
  <1>1. PICK rs \in Versions(r) :
            {v \in Versions(r) : ~Settled(RootRevocation(v.secret, r))} = {rs}
    BY PairIsOnlyLive DEF OneLiveRootVersion
  <1>2. \A v \in Versions(r) : ~Settled(RootRevocation(v.secret, r)) <=> v = rs
    BY <1>1
  <1>3. LiveVersion(r) = rs
    BY <1>2 DEF LiveVersion
  <1> QED
    BY <1>2, <1>3

LEMMA MappedStep ==
    ASSUME LineageMapInv, RootedOnce, [Next]_vars
    PROVE  [Lineage!Next]_Lineage!lineage
  <1>1. /\ LineageInv /\ LineageInv' /\ LineageMapInv' /\ TypeOK /\ Unspent
        /\ FreshSecrets
    BY UnspentStep DEF LineageMapInv, LineageInv, RecoverableInv
  <1>2. LiveIsUnsettled /\ LiveIsUnsettled'
    BY <1>1, LiveVersionIs, PTL
  <1>3. /\ fresh \in Nat /\ IsFiniteSet(inbox) /\ Cardinality(inbox) \in Nat
        /\ \A m \in inbox : m.leaf \in Nat /\ m.root \in Root /\ m.destination \in Wallet
        /\ \A rr \in root_recovery_notes : rr.root \in Root /\ rr.secret \in Nat
        /\ \A rs \in root_status_notes :
              rs.root \in Root /\ rs.owner \in Wallet /\ rs.secret \in Nat
    BY <1>1, FS_CardinalityType DEF TypeOK
  (* A root whose versions and their kill switches stay keeps its holder.   *)
  <1>4. ASSUME NEW x \in Root, Versions(x)' = Versions(x),
               \A k : Settled(RootRevocation(k, x))' <=> Settled(RootRevocation(k, x))
        PROVE  /\ Cardinality(Versions(x)') = Cardinality(Versions(x))
               /\ HolderOf(x)' = HolderOf(x)
               /\ Versions(x) # {} => LiveVersion(x)' = LiveVersion(x)
    <2>1. ASSUME Versions(x) # {} PROVE LiveVersion(x)' = LiveVersion(x)
      <3>1. LiveVersion(x) \in Versions(x)
            /\ ~Settled(RootRevocation(LiveVersion(x).secret, x))
        BY <1>2, <2>1 DEF LiveIsUnsettled
      <3>2. PICK v : v = LiveVersion(x)
        OBVIOUS
      <3>3. v \in Versions(x)' /\ ~Settled(RootRevocation(v.secret, x))'
        BY <1>4, <3>1, <3>2
      <3>4. v = LiveVersion(x)'
        BY <1>2, <3>3 DEF LiveIsUnsettled
      <3> QED
        BY <3>2, <3>4
    <2> QED
      BY <1>4, <2>1 DEF HolderOf
  <1>5. ASSUME NEW x \in Root, Versions(x)' = Versions(x),
               \A k : Settled(RootRevocation(k, x))' <=> Settled(RootRevocation(k, x)),
               \A k : Settled(OwnerRootRevocation(k, x))'
                          <=> Settled(OwnerRootRevocation(k, x))
        PROVE  IsWithdrawn(x)' = IsWithdrawn(x)
    <2>1. PICK v : v = LiveVersion(x)
      OBVIOUS
    <2>2. CASE Versions(x) = {}
      BY <1>5, <2>2 DEF IsWithdrawn
    <2>3. CASE Versions(x) # {}
      <3>1. LiveVersion(x)' = v
        BY <1>4, <1>5, <2>1, <2>3
      <3>2. IsWithdrawn(x) <=> Settled(OwnerRootRevocation(v.secret, x))
        BY <2>1, <2>3 DEF IsWithdrawn
      <3>3. IsWithdrawn(x)' <=> Settled(OwnerRootRevocation(v.secret, x))'
        BY <1>5, <2>3, <3>1 DEF IsWithdrawn
      <3>4. IsWithdrawn(x) \in BOOLEAN /\ IsWithdrawn(x)' \in BOOLEAN
        BY DEF IsWithdrawn
      <3> QED
        BY <1>5, <3>2, <3>3, <3>4
    <2> QED
      BY <2>2, <2>3
  <1>6. ASSUME inbox' = inbox,
               \A m : Settled(MessageNullifier(m))' <=> Settled(MessageNullifier(m))
        PROVE  UNCHANGED [p \in Root \X Wallet |-> Cardinality(Unconsumed(p[1], p[2]))]
    <2>1. \A x \in Root, y \in Wallet : Unconsumed(x, y)' = Unconsumed(x, y)
      BY <1>6 DEF Unconsumed
    <2> QED
      BY <2>1
  <1>7. ASSUME Stutters PROVE UNCHANGED Lineage!lineage
    <2>1. \A x : Versions(x)' = Versions(x)
      BY <1>7 DEF Stutters, Versions
    <2>2. /\ UNCHANGED [r \in Root |-> Cardinality(Versions(r))]
          /\ UNCHANGED [r \in Root |-> HolderOf(r)]
      BY <1>4, <1>7, <2>1 DEF Stutters, KeepsLineage
    <2>3. UNCHANGED [r \in Root |-> IsWithdrawn(r)]
      BY <1>5, <1>7, <2>1 DEF Stutters, KeepsLineage
    <2> QED
      BY <1>6, <1>7, <2>2, <2>3 DEF Stutters, KeepsLineage, Lineage!lineage
  (* The note minted for r is its only live version from now on.            *)
  <1>8. ASSUME NEW o \in Wallet, NEW r \in Root, NEW rs, NewNote(o, r, rs),
               ~Settled(RootRevocation(rs.secret, r))',
               ~Settled(OwnerRootRevocation(rs.secret, r))',
               \A k, x : x # r =>
                   /\ Settled(RootRevocation(k, x))' <=> Settled(RootRevocation(k, x))
                   /\ Settled(OwnerRootRevocation(k, x))'
                          <=> Settled(OwnerRootRevocation(k, x))
        PROVE  Lineage!NewVersion(r, o)
    <2>1. Versions(r)' = Versions(r) \cup {rs} /\ \A x : x # r => Versions(x)' = Versions(x)
      BY <1>8 DEF NewNote, Versions
    <2>2. Cardinality(Versions(r)') = Cardinality(Versions(r)) + 1
      <3>1. rs \notin Versions(r)
        BY <1>1, <1>3, <1>8 DEF NewNote, Unspent, Versions
      <3>2. IsFiniteSet(Versions(r))
        <4>1. Versions(r) \in SUBSET root_status_notes
          BY DEF Versions
        <4> QED
          BY <1>1, <4>1, FS_Subset DEF Unspent
      <3> QED
        BY <2>1, <3>1, <3>2, FS_AddElement
    <2>3. LiveVersion(r)' = rs /\ Versions(r)' # {}
      BY <1>2, <1>8, <2>1 DEF LiveIsUnsettled
    <2>4. HolderOf(r)' = o
      BY <1>8, <2>3 DEF HolderOf, NewNote
    <2>5. IsWithdrawn(r)' = FALSE
      BY <1>8, <2>3 DEF IsWithdrawn
    <2>6. [x \in Root |-> Cardinality(Versions(x))]'
              = [[x \in Root |-> Cardinality(Versions(x))] EXCEPT ![r] = @ + 1]
      BY <2>1, <2>2
    <2>7. [x \in Root |-> HolderOf(x)]' = [[x \in Root |-> HolderOf(x)] EXCEPT ![r] = o]
      BY <1>4, <1>8, <2>1, <2>4
    <2>8. [x \in Root |-> IsWithdrawn(x)]'
              = [[x \in Root |-> IsWithdrawn(x)] EXCEPT ![r] = FALSE]
      BY <1>5, <1>8, <2>1, <2>5
    <2> QED
      BY <2>6, <2>7, <2>8 DEF Lineage!NewVersion
  <1>9. ASSUME NEW o \in Wallet, NEW r \in Root, Originates(o, r)
        PROVE  Lineage!Issue(r, o)
    <2>1. PICK rs : NewNote(o, r, rs)
      BY <1>9 DEF Originates
    <2>2. rs.secret = fresh
      BY <2>1 DEF NewNote
    <2>3. /\ ~Settled(RootRevocation(rs.secret, r))
          /\ ~Settled(OwnerRootRevocation(rs.secret, r))
      BY <1>1, <1>3, <2>2 DEF FreshSecrets, Unspent
    <2>4. Lineage!NewVersion(r, o)
      BY <1>8, <1>9, <2>1, <2>3 DEF Originates, KeepsLineage
    <2>5. Cardinality(Versions(r)) = 0
      BY <1>1, <1>9, FS_EmptySet DEF LineageInv, Originates
    <2>6. UNCHANGED [p \in Root \X Wallet |-> Cardinality(Unconsumed(p[1], p[2]))]
      BY <1>6, <1>9 DEF Originates, KeepsLineage
    <2> QED
      BY <2>4, <2>5, <2>6 DEF Lineage!Issue
  <1>10. ASSUME NEW rs \in root_status_notes, Withdraws(rs)
         PROVE  Lineage!Withdraw(rs.root) \/ UNCHANGED Lineage!lineage
    <2> DEFINE r == rs.root
    <2>1. r \in Root /\ rs \in Versions(r)
      BY <1>3 DEF Versions
    <2>2. \A x : Versions(x)' = Versions(x)
      BY <1>10 DEF Withdraws, Versions
    <2>3. PICK v : v = LiveVersion(r)
      OBVIOUS
    <2>4. v = LiveVersion(r)'
      BY <1>4, <1>10, <2>1, <2>2, <2>3, SettledByWithdrawal
    <2>5. /\ UNCHANGED [x \in Root |-> Cardinality(Versions(x))]
          /\ UNCHANGED [x \in Root |-> HolderOf(x)]
      BY <1>4, <1>10, <2>2, SettledByWithdrawal
    <2>6. UNCHANGED [p \in Root \X Wallet |-> Cardinality(Unconsumed(p[1], p[2]))]
      BY <1>6, <1>10, SettledByWithdrawal DEF Withdraws
    <2>7. ASSUME NEW x \in Root, x # r PROVE IsWithdrawn(x)' = IsWithdrawn(x)
      BY <1>5, <1>10, <2>2, <2>7, SettledByWithdrawal
    <2>8. CASE v.secret = rs.secret
      <3>1. IsWithdrawn(r)' = TRUE
        BY <1>10, <2>1, <2>2, <2>4, <2>8, SettledByWithdrawal DEF IsWithdrawn
      <3>2. ~IsWithdrawn(r)
        BY <1>10, <2>3, <2>8, SettledByWithdrawal DEF IsWithdrawn
      <3>3. Cardinality(Versions(r)) > 0
        <4>1. IsFiniteSet(Versions(r))
          <5>1. Versions(r) \in SUBSET root_status_notes
            BY DEF Versions
          <5> QED
            BY <1>1, <5>1, FS_Subset DEF Unspent
        <4>2. Cardinality(Versions(r)) \in Nat /\ Cardinality(Versions(r)) # 0
          BY <2>1, <4>1, FS_CardinalityType, FS_EmptySet
        <4> QED
          BY <4>2
      <3>4. [x \in Root |-> IsWithdrawn(x)]'
                = [[x \in Root |-> IsWithdrawn(x)] EXCEPT ![r] = TRUE]
        BY <2>7, <3>1
      <3> QED
        BY <2>1, <2>5, <2>6, <3>2, <3>3, <3>4 DEF Lineage!Withdraw
    <2>9. CASE v.secret # rs.secret
      <3>1. IsWithdrawn(r) <=> Settled(OwnerRootRevocation(v.secret, r))
        BY <2>1, <2>3 DEF IsWithdrawn
      <3>2. IsWithdrawn(r)' <=> Settled(OwnerRootRevocation(v.secret, r))'
        BY <2>1, <2>2, <2>4 DEF IsWithdrawn
      <3>3. IsWithdrawn(r) \in BOOLEAN /\ IsWithdrawn(r)' \in BOOLEAN
        BY DEF IsWithdrawn
      <3>4. IsWithdrawn(r)' = IsWithdrawn(r)
        BY <1>10, <2>9, <3>1, <3>2, <3>3, SettledByWithdrawal
      <3>5. UNCHANGED [x \in Root |-> IsWithdrawn(x)]
        BY <2>7, <3>4
      <3> QED
        BY <2>5, <2>6, <3>5 DEF Lineage!lineage
    <2> QED
      BY <2>8, <2>9
  <1>12. \A r, d : /\ IsFiniteSet(Unconsumed(r, d)) /\ Cardinality(Unconsumed(r, d)) \in Nat
                   /\ Unconsumed(r, d) \subseteq inbox
    <2>1. \A r, d : Unconsumed(r, d) \in SUBSET inbox
      BY DEF Unconsumed
    <2> QED
      BY <1>3, <2>1, FS_Subset, FS_CardinalityType
  <1>13. ASSUME NEW d \in Wallet, NEW r \in Root, Sends(d, r)
         PROVE  Lineage!Approve(r, d)
    <2>1. PICK m : /\ m.root = r /\ m.destination = d /\ m.leaf = Cardinality(inbox)
                   /\ inbox' = inbox \cup {m}
      BY <1>13 DEF Sends
    <2>2. m \notin inbox
      BY <1>1, <1>3, <2>1 DEF Unspent
    <2>3. \A n : Settled(n)' <=> Settled(n)
      BY <1>13 DEF Sends, Settled
    <2>4. ~Settled(MessageNullifier(m))'
      BY <1>1, <2>2, <2>3 DEF Unspent
    <2>5. Unconsumed(r, d)' = Unconsumed(r, d) \cup {m}
      BY <2>1, <2>3, <2>4 DEF Unconsumed
    <2>6. Cardinality(Unconsumed(r, d)') = Cardinality(Unconsumed(r, d)) + 1
      BY <1>12, <2>2, <2>5, FS_AddElement
    <2>7. \A x, y : <<x, y>> # <<r, d>> => Unconsumed(x, y)' = Unconsumed(x, y)
      BY <2>1, <2>3 DEF Unconsumed
    <2>8. [p \in Root \X Wallet |-> Cardinality(Unconsumed(p[1], p[2]))]'
              = [[p \in Root \X Wallet |-> Cardinality(Unconsumed(p[1], p[2]))]
                    EXCEPT ![<<r, d>>] = @ + 1]
      <3>1. ASSUME NEW p \in Root \X Wallet
            PROVE  Cardinality(Unconsumed(p[1], p[2])')
                       = IF p = <<r, d>> THEN Cardinality(Unconsumed(p[1], p[2])) + 1
                                         ELSE Cardinality(Unconsumed(p[1], p[2]))
        <4>1. p = <<p[1], p[2]>>
          OBVIOUS
        <4>2. CASE p = <<r, d>>
          BY <2>6, <4>2
        <4>3. CASE p # <<r, d>>
          <5>1. <<p[1], p[2]>> # <<r, d>>
            BY <4>1, <4>3
          <5> QED
            BY <2>7, <4>3, <5>1
        <4> QED
          BY <4>2, <4>3
      <3>2. <<r, d>> \in Root \X Wallet
        OBVIOUS
      <3> QED
        BY <3>1, <3>2
    <2>9. \A x : Versions(x)' = Versions(x)
      BY <1>13 DEF Sends, Versions
    <2>10. /\ UNCHANGED [x \in Root |-> Cardinality(Versions(x))]
           /\ UNCHANGED [x \in Root |-> HolderOf(x)]
      BY <1>4, <2>3, <2>9
    <2>11. UNCHANGED [x \in Root |-> IsWithdrawn(x)]
      BY <1>5, <2>3, <2>9
    <2> QED
      BY <2>8, <2>10, <2>11 DEF Lineage!Approve
  <1>14. ASSUME NEW rr \in root_recovery_notes, NEW m \in inbox, Returns(rr, m)
         PROVE  Lineage!Recover(rr.root, m.destination)
    <2> DEFINE r == rr.root
               d == m.destination
    <2>1. r \in Root /\ d \in Wallet /\ m.root = r
      BY <1>3, <1>14 DEF Returns
    <2>2. PICK rs : NewNote(d, r, rs)
      BY <1>14 DEF Returns
    <2>3. rs.secret = fresh
      BY <2>2 DEF NewNote
    <2>4. /\ ~Settled(RootRevocation(rs.secret, r))
          /\ ~Settled(OwnerRootRevocation(rs.secret, r))
          /\ rs.secret # rr.secret
      BY <1>1, <1>3, <2>1, <2>3 DEF FreshSecrets, Unspent
    <2>5. /\ ~Settled(RootRevocation(rs.secret, r))'
          /\ ~Settled(OwnerRootRevocation(rs.secret, r))'
      BY <1>14, <2>4, SettledByReturn
    <2>6. Lineage!NewVersion(r, d)
      BY <1>8, <1>14, <2>1, <2>2, <2>5, SettledByReturn
    <2>7. Cardinality(Versions(r)) > 0
      <3>1. Versions(r) # {}
        <4>1. rr \in RecoveryNotes(r)
          BY DEF RecoveryNotes
        <4> QED
          BY <1>1, <2>1, <4>1 DEF LineageInv
      <3>2. IsFiniteSet(Versions(r))
        <4>1. Versions(r) \in SUBSET root_status_notes
          BY DEF Versions
        <4> QED
          BY <1>1, <4>1, FS_Subset DEF Unspent
      <3>3. Cardinality(Versions(r)) \in Nat /\ Cardinality(Versions(r)) # 0
        BY <3>1, <3>2, FS_CardinalityType, FS_EmptySet
      <3> QED
        BY <3>3
    <2>8. m \in Unconsumed(r, d)
      BY <1>14, <2>1, SettledByReturn DEF Unconsumed
    <2>9. Unconsumed(r, d)' = Unconsumed(r, d) \ {m}
      BY <1>14, SettledByReturn DEF Unconsumed, Returns
    <2>10. Cardinality(Unconsumed(r, d)') = Cardinality(Unconsumed(r, d)) - 1
      BY <1>12, <2>8, <2>9, FS_RemoveElement
    <2>11. Cardinality(Unconsumed(r, d)) > 0
      <3>1. Unconsumed(r, d) # {}
        BY <2>8
      <3>2. IsFiniteSet(Unconsumed(r, d)) /\ Cardinality(Unconsumed(r, d)) \in Nat
        BY <1>12
      <3>3. Cardinality(Unconsumed(r, d)) # 0
        BY <3>1, <3>2, FS_EmptySet
      <3> QED
        BY <3>2, <3>3
    <2>12. \A x, y : <<x, y>> # <<r, d>> => Unconsumed(x, y)' = Unconsumed(x, y)
      BY <1>14, <2>1, SettledByReturn DEF Unconsumed, Returns
    <2>13. [p \in Root \X Wallet |-> Cardinality(Unconsumed(p[1], p[2]))][<<r, d>>]
               = Cardinality(Unconsumed(r, d))
      BY <2>1
    <2>14. [p \in Root \X Wallet |-> Cardinality(Unconsumed(p[1], p[2]))]'
               = [[p \in Root \X Wallet |-> Cardinality(Unconsumed(p[1], p[2]))]
                     EXCEPT ![<<r, d>>] = @ - 1]
      <3> HIDE DEF r, d
      <3>1. ASSUME NEW p \in Root \X Wallet
            PROVE  Cardinality(Unconsumed(p[1], p[2])')
                       = IF p = <<r, d>> THEN Cardinality(Unconsumed(p[1], p[2])) - 1
                                         ELSE Cardinality(Unconsumed(p[1], p[2]))
        <4>1. p = <<p[1], p[2]>>
          OBVIOUS
        <4>2. CASE p = <<r, d>>
          BY <2>10, <4>2
        <4>3. CASE p # <<r, d>>
          <5>1. <<p[1], p[2]>> # <<r, d>>
            BY <4>1, <4>3
          <5> QED
            BY <2>12, <4>3, <5>1
        <4> QED
          BY <4>2, <4>3
      <3>2. <<r, d>> \in Root \X Wallet
        BY <2>1
      <3> QED
        BY <3>1, <3>2
    <2> HIDE DEF r, d
    <2>15. Lineage!Recover(r, d)
      BY <2>1, <2>6, <2>7, <2>11, <2>13, <2>14 DEF Lineage!Recover
    <2> QED
      BY <2>15 DEF r, d
  <1>15. \/ Stutters
         \/ \E o \in Wallet, r \in Root : Originates(o, r)
         \/ \E rs \in root_status_notes : Withdraws(rs)
         \/ \E d \in Wallet, r \in Root : Sends(d, r)
         \/ \E rr \in root_recovery_notes, m \in inbox : Returns(rr, m)
    BY <1>1, LineageKinds
  <1>16. CASE Stutters
    BY <1>7, <1>16
  <1>17. CASE \E o \in Wallet, r \in Root : Originates(o, r)
    BY <1>9, <1>17 DEF Lineage!Next
  <1>18. CASE \E rs \in root_status_notes : Withdraws(rs)
    BY <1>3, <1>10, <1>18 DEF Lineage!Next
  <1>19. CASE \E d \in Wallet, r \in Root : Sends(d, r)
    BY <1>13, <1>19 DEF Lineage!Next
  <1>20. CASE \E rr \in root_recovery_notes, m \in inbox : Returns(rr, m)
    BY <1>3, <1>14, <1>20 DEF Lineage!Next
  <1> QED
    BY <1>15, <1>16, <1>17, <1>18, <1>19, <1>20

LEMMA MappedInit ==
    ASSUME Init
    PROVE  LineageMapInv /\ Lineage!Init
  <1>1. LineageInv
    BY TypeInit DEF Init, LineageInv, RecoverableInv, FreshSecrets,
                    RootAlwaysRecoverable, Settled, Versions, RecoveryNotes
  <1>2. Unspent
    BY FS_EmptySet DEF Init, Unspent, Settled
  <1>3. \A r, d : Versions(r) = {} /\ Unconsumed(r, d) = {}
    BY DEF Init, Versions, Unconsumed
  <1>4. \A r, d : /\ Cardinality(Versions(r)) = 0 /\ HolderOf(r) = NoClaims
                  /\ IsWithdrawn(r) = FALSE
                  /\ Cardinality(Unconsumed(r, d)) = 0
    BY <1>3, FS_EmptySet DEF HolderOf, IsWithdrawn
  <1>5. Lineage!Init
    BY <1>4 DEF Lineage!Init
  <1> QED
    BY <1>1, <1>2, <1>5 DEF LineageMapInv

(* In a deployment that issues roots through the V2 entrypoint only, the    *)
(* issuer implements the root lineage: a root moves only to a wallet with   *)
(* an unused approval for it, one move per approval, and only its holder    *)
(* withdraws it.                                                            *)
THEOREM IssuerImplementsLineage ==
    ASSUME RootedOnce
    PROVE  Spec => ImplementsRootLineage
  <1>1. Init => LineageMapInv /\ Lineage!Init
    BY MappedInit
  <1>2. LineageMapInv /\ [Next]_vars => LineageMapInv' /\ [Lineage!Next]_Lineage!lineage
    BY UnspentStep, MappedStep
  <1> QED
    BY <1>1, <1>2, PTL DEF Spec, ImplementsRootLineage, Lineage!Spec

-----------------------------------------------------------------------------
(* What hangs on a root.  Linking an Instagram credential retires the       *)
(* standalone notes for good, and a linked one dies with the root version   *)
(* it was linked to; passport authorities are replaced by a renewal, and    *)
(* are never more than the orchestrator approved.                           *)
IsLinkedIssuance(n) == \E o, c : n = LinkedIssuance(o, c)
IsRootRevocation(n) == \E k, r : n = RootRevocation(k, r)

(* One standalone issuance per wallet and Instagram claims hash, so one     *)
(* status secret; and whoever links it settles its kill switch.             *)
OneStandalone ==
    /\ \A x, y \in status_notes :
          x.claims \in Instagram /\ x.owner = y.owner /\ x.claims = y.claims
              => x = y
    /\ \A st \in status_notes : st.claims \in Instagram
          => Settled(StandaloneIssuance(st.owner, st.claims))
    /\ \A o, c : Settled(LinkedIssuance(o, c)) => Settled(StandaloneIssuance(o, c))
LinkingKills ==
    \A e \in nullifiers, st \in status_notes :
        st.claims \in Instagram /\ e.n = LinkedIssuance(st.owner, st.claims) =>
            \E f \in nullifiers : /\ f.at = e.at
                                  /\ f.n = Revocation(Random(st.secret), st.claims)

LinkingInv == TypeOK /\ OneStandalone /\ LinkingKills

(* A linked Instagram carries the secret of a version of its root, and a    *)
(* recovery of that root after the linking finds that version retired.      *)
LinkedToVersion ==
    \A ls \in linked_status_notes : ls.claims \in Instagram =>
        \E rs \in Versions(ls.root) :
            ls.secret = LinkedStatusSecret(rs.secret, ls.claims)
RecoveryRetires ==
    \A ls \in linked_status_notes, e \in nullifiers :
        /\ ls.claims \in Instagram
        /\ e.n[1] = "root" /\ e.n[3] = ls.root /\ ls.at < e.at
        => \E f \in nullifiers :
               f.at <= e.at /\ f.n = RootRevocation(ls.secret[1], ls.root)
Past == \A e \in nullifiers : e.at <= now

VersionInv == LineageInv /\ Past /\ LinkedToVersion /\ RecoveryRetires

-----------------------------------------------------------------------------
(* What a step does to the notes and nullifiers of Instagram credentials.   *)

(* It issues no standalone notes of Instagram claims and links none.        *)
Still ==
    /\ \A st \in status_notes' : st \in status_notes \/ st.claims \notin Instagram
    /\ nullifiers \subseteq nullifiers'
    /\ \A e \in nullifiers' : e \in nullifiers \/ ~IsLinkedIssuance(e.n)

(* It mints a standalone credential of Instagram claims. *)
IssuesInstagram(o, c) ==
    /\ Push({StandaloneIssuance(o, c)})
    /\ \E st \in [owner : {o}, secret : Nat, claims : {c}, at : {now}] :
          status_notes' = status_notes \cup {st}

(* It links one. *)
Links(cr, st, rs) ==
    /\ cr.claims \in Instagram /\ st.claims = cr.claims /\ st.owner = cr.owner
    /\ rs.owner = cr.owner
    /\ Push({Spend("credential", cr.nonce), Spend("status", st.secret),
             Revocation(Random(st.secret), st.claims),
             LinkedIssuance(cr.owner, st.claims)})
    /\ MintLinkedPair(cr.owner, rs.root, cr.claims, cr.expiry,
                      LinkedStatusSecret(rs.secret, st.claims))
    /\ UNCHANGED <<now, status_notes, root_status_notes>>

LEMMA StillPush ==
    ASSUME NEW N, Push(N), \A n \in N : ~IsLinkedIssuance(n)
    PROVE  /\ nullifiers \subseteq nullifiers'
           /\ \A e \in nullifiers' : e \in nullifiers \/ ~IsLinkedIssuance(e.n)
  BY DEF Push

LEMMA NotLinkedIssuance ==
    ASSUME NEW x, NEW y
    PROVE  /\ ~IsLinkedIssuance(Revocation(x, y))
           /\ ~IsLinkedIssuance(RootRevocation(x, y))
           /\ ~IsLinkedIssuance(OwnerRootRevocation(x, y))
           /\ ~IsLinkedIssuance(StandaloneIssuance(x, y))
           /\ ~IsLinkedIssuance(PassportIssuance(x))
           /\ ~IsLinkedIssuance(MessageNullifier(x))
           /\ ~IsLinkedIssuance(Spend(x, y))
           /\ \A z : ~IsLinkedIssuance(AuthorityRevocation(x, y, z))
           /\ \A g, c, e : ~IsLinkedIssuance(RefreshAuthorization(x, g, y, c, e))
  BY DEF IsLinkedIssuance, Revocation, OwnerRootRevocation, StandaloneIssuance,
         LinkedIssuance, PassportIssuance, MessageNullifier, Spend,
         AuthorityRevocation, RefreshAuthorization, RootRevocation

LEMMA LinkingKinds ==
    ASSUME TypeOK, [Next]_vars
    PROVE  \/ Still
           \/ \E o \in Wallet, c \in Instagram : IssuesInstagram(o, c)
           \/ \E cr \in credential_notes, st \in status_notes,
                 rs \in root_status_notes : Links(cr, st, rs)
  <1> USE DEF standaloneNotes
  <1>t. fresh \in Nat
    BY DEF TypeOK
  <1>q. ASSUME UNCHANGED status_notes, UNCHANGED nullifiers PROVE Still
    BY <1>q DEF Still
  <1>1. ASSUME NEW o \in Wallet, NEW g \in Ghost, NEW e \in ValidUntil,
               NEW c \in Claims, RegisterCredential(o, g, c, e)
        PROVE  IF c \in Instagram THEN IssuesInstagram(o, c) ELSE Still
    <2>1. PICK st : st = [owner |-> o, secret |-> fresh, claims |-> c, at |-> now]
      OBVIOUS
    <2>2. status_notes' = status_notes \cup {st}
      BY <1>1, <2>1 DEF RegisterCredential, MintStandaloneNotes
    <2>3. CASE c \in Instagram
      <3>1. {StandaloneIssuance(o, c) : x \in {c} \cap Instagram}
                = {StandaloneIssuance(o, c)}
        BY <2>3
      <3>2. st \in [owner : {o}, secret : Nat, claims : {c}, at : {now}]
        BY <1>t, <2>1
      <3> QED
        BY <1>1, <2>2, <2>3, <3>1, <3>2 DEF RegisterCredential, IssuesInstagram
    <2>4. CASE c \notin Instagram
      <3>1. nullifiers' = nullifiers
        BY <1>1, <2>4 DEF RegisterCredential, Push
      <3> QED
        BY <2>1, <2>2, <2>4, <3>1 DEF Still
    <2> QED
      BY <2>3, <2>4
  <1>2. ASSUME NEW o \in Wallet, NEW g \in Ghost, NEW r \in Root,
               RegisterRoot(o, g, r)
        PROVE  Still
    BY <1>q, <1>2 DEF RegisterRoot
  <1>3. ASSUME NEW o \in Wallet, NEW r \in Root, NEW c \in Claims,
               NEW e \in ValidUntil, RegisterRootAuthority(o, r, c, e)
        PROVE  Still
    BY <1>q, <1>3 DEF RegisterRootAuthority
  <1>4. ASSUME NEW o \in Wallet, NEW g \in Ghost, NEW r \in Root,
               NEW c \in Passport, NEW e \in ValidUntil,
               RegisterRootedPassport(o, g, r, c, e)
        PROVE  Still
    BY <1>q, <1>4 DEF RegisterRootedPassport
  <1>5. ASSUME NEW o \in Wallet, NEW g \in Ghost, NEW r \in Root,
               NEW c \in Passport, NEW e \in ValidUntil, NEW a \in Anchor,
               RegisterRootedPassportV2(o, g, r, c, e, a)
        PROVE  Still
    BY <1>5, StillPush, NotLinkedIssuance DEF RegisterRootedPassportV2, Still
  <1>6. ASSUME NEW o \in Wallet, NEW g \in Ghost, NEW r \in Root,
               NEW c \in Claims, NEW e \in ValidUntil,
               RegisterLinkedCredential(o, g, r, c, e)
        PROVE  Still
    BY <1>q, <1>6 DEF RegisterLinkedCredential
  <1>7. ASSUME NEW o \in Wallet, NEW g \in Ghost, NEW r \in Root,
               NEW c \in Passport, NEW e \in ValidUntil,
               AuthorizeRootAuthorityRefresh(o, g, r, c, e)
        PROVE  Still
    BY <1>q, <1>7 DEF AuthorizeRootAuthorityRefresh
  <1>8. ASSUME NEW cr \in credential_notes, NEW st \in status_notes,
               NEW rs \in root_status_notes, NEW a \in Anchor,
               LinkCredentialToRoot(cr, st, rs, a)
        PROVE  Links(cr, st, rs)
    BY <1>8 DEF LinkCredentialToRoot, CanLink, Links, rootNotes
  <1>9. ASSUME Hold
        PROVE  \/ Still
               \/ \E cr \in credential_notes, st \in status_notes,
                     rs \in root_status_notes : Links(cr, st, rs)
    <2>2. ASSUME NEW st \in status_notes, RevokeCredential(st) PROVE Still
      BY <2>2, StillPush, NotLinkedIssuance DEF RevokeCredential, Unminted, Still
    <2>3. ASSUME NEW ls \in linked_status_notes,
                 RevokeLinkedCredentialAsOwner(ls)
          PROVE  Still
      BY <2>3, StillPush, NotLinkedIssuance
         DEF RevokeLinkedCredentialAsOwner, Unminted, Still
    <2>4. ASSUME NEW rs \in root_status_notes, RevokeRootAsOwner(rs) PROVE Still
      BY <2>4, StillPush, NotLinkedIssuance DEF RevokeRootAsOwner, Unminted, Still
    <2>5. ASSUME NEW lr \in linked_recovery_notes, RevokeLinkedCredential(lr)
          PROVE  Still
      BY <2>5, StillPush, NotLinkedIssuance
         DEF RevokeLinkedCredential, Unminted, Still
    <2> QED
      BY <1>8, <1>9, <2>2, <2>3, <2>4, <2>5 DEF Hold
  <1>10. ASSUME Renew PROVE Still
    <2> SUFFICES ASSUME NEW rs \in root_status_notes,
                        NEW au \in root_authority_notes, NEW g \in Ghost,
                        NEW c \in Passport, NEW e \in ValidUntil,
                        NEW a \in Anchor,
                        \/ RefreshRootAuthority(rs, au, g, c, e, a)
                        \/ RefreshRootAuthorityAuthorized(rs, au, g, c, e, a)
                 PROVE  Still
      BY <1>10 DEF Renew
    <2>1. UNCHANGED status_notes
      BY DEF RefreshRootAuthority, RefreshRootAuthorityAuthorized, RefreshNotes
    <2>2. /\ ~IsLinkedIssuance(AuthorityRevocation(au.secret, au.root, au.claims))
          /\ ~IsLinkedIssuance(RefreshAuthorization(rs.owner, g, rs.root, c, e))
      BY NotLinkedIssuance
    <2>3. PICK N : Push(N) /\ \A n \in N : ~IsLinkedIssuance(n)
      BY <2>2 DEF RefreshRootAuthority, RefreshRootAuthorityAuthorized
    <2> QED
      BY <2>1, <2>3, StillPush DEF Still
  <1>11. ASSUME NEW d \in Wallet, NEW r \in Root, NEW c \in PassportV2,
                NEW e \in ValidUntil, SendRecoveryMessage(d, r, c, e)
         PROVE  Still
    BY <1>q, <1>11 DEF SendRecoveryMessage
  <1>12. ASSUME NEW rr \in root_recovery_notes, NEW m \in inbox,
                NEW a \in Anchor, RecoverRootV3(rr, m, a)
         PROVE  Still
    <2>1. PICK N : Push(N) /\ N = {MessageNullifier(m)} \cup RecoveryNullifiers(rr)
      BY <1>12 DEF RecoverRootV3
    <2>2. \A n \in N : ~IsLinkedIssuance(n)
      BY <2>1, NotLinkedIssuance DEF RecoveryNullifiers
    <2> QED
      BY <1>12, <2>1, <2>2, StillPush DEF RecoverRootV3, Still
  <1>13. CASE Tick \/ Login \/ UNCHANGED vars
    <2>1. UNCHANGED <<status_notes, nullifiers>>
      BY <1>13, LoginStep DEF Tick, MeterVerify, vars
    <2> QED
      BY <1>q, <2>1
  <1>14. CASE Issue
    BY <1>1, <1>2, <1>3, <1>4, <1>5, <1>6, <1>7, <1>14 DEF Issue
  <1>15. CASE Recover
    BY <1>11, <1>12, <1>15 DEF Recover
  <1> QED
    BY <1>9, <1>10, <1>13, <1>14, <1>15 DEF Next

-----------------------------------------------------------------------------
(* Linking retires the standalone notes. *)

LEMMA SettledGrows ==
    ASSUME nullifiers \subseteq nullifiers', NEW n, Settled(n)
    PROVE  Settled(n)'
  BY DEF Settled

LEMMA LinkingStep ==
    ASSUME LinkingInv, [Next]_vars
    PROVE  LinkingInv'
  <1>1. TypeOK /\ TypeOK' /\ OneStandalone /\ LinkingKills
    BY TypeStep DEF LinkingInv
  <1>2. CASE Still
    <2>1. \A n : Settled(n) => Settled(n)'
      BY <1>2, SettledGrows DEF Still
    <2>2. \A st \in status_notes' : st.claims \in Instagram => st \in status_notes
      BY <1>2 DEF Still
    <2>3. \A o, c : \A e \in nullifiers' : e.n = LinkedIssuance(o, c) => e \in nullifiers
      BY <1>2 DEF Still, IsLinkedIssuance
    <2>4. \A o, c : Settled(LinkedIssuance(o, c))' => Settled(LinkedIssuance(o, c))
      BY <2>3 DEF Settled, LinkedIssuance
    <2>5. OneStandalone'
      BY <1>1, <2>1, <2>2, <2>4 DEF OneStandalone
    <2>6. LinkingKills'
      BY <1>1, <1>2, <2>2, <2>3 DEF LinkingKills, Still
    <2> QED
      BY <1>1, <2>5, <2>6 DEF LinkingInv
  <1>3. ASSUME NEW o \in Wallet, NEW c \in Instagram, IssuesInstagram(o, c)
        PROVE  LinkingInv'
    <2>1. PICK new \in [owner : {o}, secret : Nat, claims : {c}, at : {now}] :
              status_notes' = status_notes \cup {new}
      BY <1>3 DEF IssuesInstagram
    <2>2. new.owner = o /\ new.claims = c
      BY <2>1
    <2>3. Push({StandaloneIssuance(o, c)})
      BY <1>3 DEF IssuesInstagram
    <2>4. ~Settled(StandaloneIssuance(o, c))
      BY <2>3 DEF Push, Unsettled, Settled
    <2>5. \A n : Settled(n)' <=> Settled(n) \/ n = StandaloneIssuance(o, c)
      BY <2>3, SettledByPush
    <2>6. \A st \in status_notes : st.claims \in Instagram
              => ~(st.owner = o /\ st.claims = c)
      BY <1>1, <2>4 DEF OneStandalone
    <2>7. \A p, d : LinkedIssuance(p, d) # StandaloneIssuance(o, c)
      BY DEF LinkedIssuance, StandaloneIssuance
    <2>8. OneStandalone'
      <3>1. \A x, y \in status_notes' :
                x.claims \in Instagram /\ x.owner = y.owner /\ x.claims = y.claims
                    => x = y
        BY <1>1, <2>1, <2>2, <2>6 DEF OneStandalone
      <3>2. \A st \in status_notes' : st.claims \in Instagram
                => Settled(StandaloneIssuance(st.owner, st.claims))'
        BY <1>1, <2>1, <2>2, <2>5 DEF OneStandalone
      <3>3. \A p, d : Settled(LinkedIssuance(p, d))'
                => Settled(StandaloneIssuance(p, d))'
        BY <1>1, <2>5, <2>7 DEF OneStandalone
      <3> QED
        BY <3>1, <3>2, <3>3 DEF OneStandalone
    <2>9. ~Settled(LinkedIssuance(o, c))
      BY <1>1, <2>4 DEF OneStandalone
    <2>10. \A p, d : \A e \in nullifiers' : e.n = LinkedIssuance(p, d) => e \in nullifiers
      BY <2>3, <2>7 DEF Push
    <2>11. LinkingKills'
      <3> SUFFICES ASSUME NEW e \in nullifiers', NEW st \in status_notes',
                          st.claims \in Instagram,
                          e.n = LinkedIssuance(st.owner, st.claims)
                   PROVE  \E f \in nullifiers' : /\ f.at = e.at
                              /\ f.n = Revocation(Random(st.secret), st.claims)
        BY DEF LinkingKills
      <3>1. e \in nullifiers
        BY <2>10
      <3>2. st # new
        BY <2>2, <2>9, <3>1 DEF Settled
      <3>3. st \in status_notes
        BY <2>1, <3>2
      <3>4. nullifiers \subseteq nullifiers'
        BY <2>3 DEF Push
      <3> QED
        BY <1>1, <3>1, <3>3, <3>4 DEF LinkingKills
    <2> QED
      BY <1>1, <2>8, <2>11 DEF LinkingInv
  <1>4. ASSUME NEW cr \in credential_notes, NEW linked \in status_notes,
               NEW rs \in root_status_notes, Links(cr, linked, rs)
        PROVE  LinkingInv'
    <2> DEFINE o == linked.owner
               c == linked.claims
               kill == Revocation(Random(linked.secret), c)
               N == {Spend("credential", cr.nonce), Spend("status", linked.secret),
                     kill, LinkedIssuance(o, c)}
    <2>1. /\ Push(N) /\ status_notes' = status_notes /\ c \in Instagram
      BY <1>4 DEF Links
    <2>2. \A n : Settled(n)' <=> Settled(n) \/ n \in N
      <3> HIDE DEF N
      <3> QED
        BY <2>1, SettledByPush
    <2>3. /\ nullifiers \subseteq nullifiers'
          /\ \A e \in nullifiers' : e \in nullifiers \/ (e.n \in N /\ e.at = now)
          /\ \E f \in nullifiers' : f.at = now /\ f.n = kill
      <3>1. nullifiers' = nullifiers \cup [n : N, at : {now}]
        BY <2>1 DEF Push
      <3>2. kill \in N
        OBVIOUS
      <3>3. [n |-> kill, at |-> now] \in nullifiers'
        BY <3>1, <3>2
      <3> QED
        BY <3>1, <3>3
    <2>4. \A n \in N : \A p, d : n = LinkedIssuance(p, d) => p = o /\ d = c
      BY DEF LinkedIssuance, Spend, Revocation
    <2> HIDE DEF N
    <2>5. OneStandalone'
      <3>1. Settled(StandaloneIssuance(o, c))
        BY <1>1, <2>1 DEF OneStandalone
      <3>2. \A p, d : Settled(LinkedIssuance(p, d))'
                => Settled(StandaloneIssuance(p, d))'
        BY <1>1, <2>2, <2>4, <3>1 DEF OneStandalone
      <3> QED
        BY <1>1, <2>1, <2>2, <3>2 DEF OneStandalone
    <2>6. LinkingKills'
      <3> SUFFICES ASSUME NEW e \in nullifiers', NEW st \in status_notes,
                          st.claims \in Instagram,
                          e.n = LinkedIssuance(st.owner, st.claims)
                   PROVE  \E f \in nullifiers' : /\ f.at = e.at
                              /\ f.n = Revocation(Random(st.secret), st.claims)
        BY <2>1 DEF LinkingKills
      <3>1. CASE e \in nullifiers
        BY <1>1, <2>3, <3>1 DEF LinkingKills
      <3>2. CASE e \notin nullifiers
        <4>1. e.n \in N /\ e.at = now
          BY <2>3, <3>2
        <4>2. st.owner = o /\ st.claims = c
          BY <2>4, <4>1
        <4>3. st = linked
          BY <1>1, <4>2 DEF OneStandalone
        <4> QED
          BY <2>3, <4>1, <4>3
      <3> QED
        BY <3>1, <3>2
    <2> QED
      BY <1>1, <2>5, <2>6 DEF LinkingInv
  <1> QED
    BY <1>1, <1>2, <1>3, <1>4, LinkingKinds

LEMMA KilledDoNotVerify ==
    ASSUME LinkingInv
    PROVE  LinkingRetiresStandalone
  <1> SUFFICES ASSUME NEW cr \in credential_notes, NEW st \in status_notes,
                      NEW a \in Anchor, CanVerifyInstagram(cr, st, a),
                      Effective(LinkedIssuance(cr.owner, cr.claims))
               PROVE  FALSE
    BY DEF LinkingRetiresStandalone
  <1>1. /\ cr.owner = st.owner /\ cr.claims = st.claims /\ st.claims \in Instagram
        /\ Before(BoundedRevocationDeadline(a, cr.expiry))
        /\ AbsentAt(Revocation(Random(st.secret), st.claims), a)
    BY DEF CanVerifyInstagram, CanVerifyStandalone
  <1>2. PICK e \in nullifiers : /\ e.n = LinkedIssuance(st.owner, st.claims)
                                /\ e.at + RevocationAnchor <= now
    BY <1>1 DEF Effective
  <1>3. PICK f \in nullifiers : /\ f.at = e.at
                                /\ f.n = Revocation(Random(st.secret), st.claims)
    BY <1>1, <1>2 DEF LinkingInv, LinkingKills
  <1>4. Effective(Revocation(Random(st.secret), st.claims))
    BY <1>2, <1>3 DEF Effective
  <1>5. TypeOK /\ cr.expiry \in Nat
    BY DEF LinkingInv, TypeOK
  <1> QED
    BY <1>1, <1>4, <1>5, AbsentNotEffective

(* Linking is irreversible: from the time a linking has taken effect, no    *)
(* standalone note of that wallet and claims hash verifies again, not even  *)
(* a copy of the spent notes shown against an old anchor.                   *)
THEOREM LinkingIsFinal == Spec => []LinkingRetiresStandalone
  <1>1. Init => LinkingInv
    BY TypeInit DEF Init, LinkingInv, OneStandalone, LinkingKills, Settled
  <1>2. LinkingInv /\ [Next]_vars => LinkingInv'
    BY LinkingStep
  <1>3. LinkingInv => LinkingRetiresStandalone
    BY KilledDoNotVerify
  <1> QED
    BY <1>1, <1>2, <1>3, PTL DEF Spec

-----------------------------------------------------------------------------
(* A linked Instagram dies with the root version it was linked to. *)

(* Only a recovery settles a root revocation, and only a linking mints a    *)
(* linked note of Instagram claims, for a version of the root.              *)
LinksToVersions ==
    /\ now' >= now
    /\ root_status_notes \subseteq root_status_notes'
    /\ nullifiers \subseteq nullifiers'
    /\ \A e \in nullifiers' : e \in nullifiers \/ e.at = now
    /\ \A ls \in linked_status_notes' : ls.claims \in Instagram =>
          \/ ls \in linked_status_notes
          \/ /\ ls.at = now
             /\ \E rs \in Versions(ls.root) :
                   ls.secret = LinkedStatusSecret(rs.secret, ls.claims)
RootsRevokedByRecovery ==
    \A e \in nullifiers' : e.n[1] = "root" =>
        \/ e \in nullifiers
        \/ \E rr \in root_recovery_notes :
              Spendable(rr) /\ e.n = RootRevocation(rr.secret, rr.root)

LEMMA PushedNow ==
    ASSUME NEW N, Push(N)
    PROVE  /\ nullifiers \subseteq nullifiers'
           /\ \A e \in nullifiers' : e \in nullifiers \/ (e.at = now /\ e.n \in N)
  BY DEF Push

LEMMA PushedNoRoot ==
    ASSUME NEW N, Push(N), \A n \in N : n[1] # "root"
    PROVE  RootsRevokedByRecovery
  BY DEF Push, RootsRevokedByRecovery

LEMMA NotRoot ==
    ASSUME NEW x, NEW y
    PROVE  /\ Revocation(x, y)[1] # "root"
           /\ OwnerRootRevocation(x, y)[1] # "root"
           /\ StandaloneIssuance(x, y)[1] # "root"
           /\ LinkedIssuance(x, y)[1] # "root"
           /\ PassportIssuance(x)[1] # "root"
           /\ MessageNullifier(x)[1] # "root"
           /\ Spend(x, y)[1] # "root"
           /\ \A z : AuthorityRevocation(x, y, z)[1] # "root"
           /\ \A g, c, e : RefreshAuthorization(x, g, y, c, e)[1] # "root"
  BY DEF Revocation, OwnerRootRevocation, StandaloneIssuance, LinkedIssuance,
         PassportIssuance, MessageNullifier, Spend, AuthorityRevocation,
         RefreshAuthorization

(* A pair minted for claims that are no Instagram claims is none. *)
LEMMA OtherPair ==
    ASSUME NEW o, NEW r, NEW c, NEW e, NEW secret, c \notin Instagram,
           MintLinkedPair(o, r, c, e, secret)
    PROVE  \A ls \in linked_status_notes' :
               ls.claims \in Instagram => ls \in linked_status_notes
  BY DEF MintLinkedPair

LEMMA VersionKinds ==
    ASSUME TypeOK, [Next]_vars
    PROVE  LinksToVersions /\ RootsRevokedByRecovery
  <1> USE DEF standaloneNotes, linkedNotes, rootNotes
  <1>t. now \in Nat /\ Passport \cap Instagram = {}
    BY ClaimsAssumption DEF TypeOK
  <1>q. ASSUME UNCHANGED nullifiers
        PROVE  /\ nullifiers \subseteq nullifiers'
               /\ \A e \in nullifiers' : e \in nullifiers \/ e.at = now
               /\ RootsRevokedByRecovery
    BY <1>q DEF RootsRevokedByRecovery
  <1>1. ASSUME NEW o \in Wallet, NEW g \in Ghost, NEW e \in ValidUntil,
               NEW c \in Claims, RegisterCredential(o, g, c, e)
        PROVE  LinksToVersions /\ RootsRevokedByRecovery
    BY <1>t, <1>1, PushedNow, PushedNoRoot, NotRoot
       DEF RegisterCredential, LinksToVersions
  <1>2. ASSUME NEW o \in Wallet, NEW g \in Ghost, NEW r \in Root,
               RegisterRoot(o, g, r)
        PROVE  LinksToVersions /\ RootsRevokedByRecovery
    BY <1>t, <1>q, <1>2 DEF RegisterRoot, LinksToVersions, MintRootNotes
  <1>3. ASSUME NEW o \in Wallet, NEW r \in Root, NEW c \in Claims,
               NEW e \in ValidUntil, RegisterRootAuthority(o, r, c, e)
        PROVE  LinksToVersions /\ RootsRevokedByRecovery
    BY <1>t, <1>q, <1>3 DEF RegisterRootAuthority, LinksToVersions
  <1>4. ASSUME NEW o, NEW g, NEW r, NEW c \in Passport, NEW e,
               RootedPassportNotes(o, g, r, c, e)
        PROVE  /\ root_status_notes \subseteq root_status_notes'
               /\ \A ls \in linked_status_notes' :
                     ls.claims \in Instagram => ls \in linked_status_notes
    <2>1. MintLinkedPair(o, r, c, e, Random(fresh + 2)) /\ c \notin Instagram
      BY <1>t, <1>4 DEF RootedPassportNotes, MintLinkedCredentialNotes
    <2> QED
      BY <1>4, <2>1, OtherPair DEF RootedPassportNotes, MintRootNotes
  <1>5. ASSUME NEW o \in Wallet, NEW g \in Ghost, NEW r \in Root,
               NEW c \in Passport, NEW e \in ValidUntil,
               RegisterRootedPassport(o, g, r, c, e)
        PROVE  LinksToVersions /\ RootsRevokedByRecovery
    BY <1>t, <1>q, <1>4, <1>5 DEF RegisterRootedPassport, LinksToVersions
  <1>6. ASSUME NEW o \in Wallet, NEW g \in Ghost, NEW r \in Root,
               NEW c \in Passport, NEW e \in ValidUntil, NEW a \in Anchor,
               RegisterRootedPassportV2(o, g, r, c, e, a)
        PROVE  LinksToVersions /\ RootsRevokedByRecovery
    <2>1. Push({PassportIssuance(r)})
      BY <1>6 DEF RegisterRootedPassportV2
    <2>2. RootsRevokedByRecovery
      BY <2>1, PushedNoRoot, NotRoot
    <2> QED
      BY <1>t, <1>4, <1>6, <2>1, <2>2, PushedNow
         DEF RegisterRootedPassportV2, LinksToVersions
  <1>7. ASSUME NEW o \in Wallet, NEW g \in Ghost, NEW r \in Root,
               NEW c \in Claims, NEW e \in ValidUntil,
               RegisterLinkedCredential(o, g, r, c, e)
        PROVE  LinksToVersions /\ RootsRevokedByRecovery
    <2>1. MintLinkedPair(o, r, c, e, Random(fresh)) /\ c \notin Instagram
      BY <1>7 DEF RegisterLinkedCredential, MintLinkedCredentialNotes
    <2> QED
      BY <1>t, <1>q, <1>7, <2>1, OtherPair
         DEF RegisterLinkedCredential, LinksToVersions
  <1>8. ASSUME NEW o \in Wallet, NEW g \in Ghost, NEW r \in Root,
               NEW c \in Passport, NEW e \in ValidUntil,
               AuthorizeRootAuthorityRefresh(o, g, r, c, e)
        PROVE  LinksToVersions /\ RootsRevokedByRecovery
    BY <1>t, <1>q, <1>8 DEF AuthorizeRootAuthorityRefresh, LinksToVersions
  <1>9. ASSUME NEW cr \in credential_notes, NEW st \in status_notes,
               NEW rs \in root_status_notes, NEW a \in Anchor,
               LinkCredentialToRoot(cr, st, rs, a)
        PROVE  LinksToVersions /\ RootsRevokedByRecovery
    <2>1. PICK N : Push(N) /\ \A n \in N : n[1] # "root"
      BY <1>9, NotRoot DEF LinkCredentialToRoot
    <2>2. \A ls \in linked_status_notes' :
              \/ ls \in linked_status_notes
              \/ /\ ls.at = now /\ ls.root = rs.root
                 /\ ls.secret = LinkedStatusSecret(rs.secret, ls.claims)
      BY <1>9 DEF LinkCredentialToRoot, CanLink, MintLinkedPair
    <2> QED
      BY <1>t, <1>9, <2>1, <2>2, PushedNow, PushedNoRoot
         DEF LinkCredentialToRoot, LinksToVersions, Versions
  <1>10. ASSUME NEW N, Push(N), \A n \in N : n[1] # "root", UNCHANGED Unminted
         PROVE  LinksToVersions /\ RootsRevokedByRecovery
    BY <1>t, <1>10, PushedNow, PushedNoRoot DEF Unminted, LinksToVersions
  <1>11. CASE Hold
    <2>1. CASE \E st \in status_notes : RevokeCredential(st)
      BY <1>10, <2>1, NotRoot DEF RevokeCredential
    <2>2. CASE \E ls \in linked_status_notes : RevokeLinkedCredentialAsOwner(ls)
      BY <1>10, <2>2, NotRoot DEF RevokeLinkedCredentialAsOwner
    <2>3. CASE \E rs \in root_status_notes : RevokeRootAsOwner(rs)
      BY <1>10, <2>3, NotRoot DEF RevokeRootAsOwner
    <2>4. CASE \E lr \in linked_recovery_notes : RevokeLinkedCredential(lr)
      BY <1>10, <2>4, NotRoot DEF RevokeLinkedCredential
    <2> QED
      BY <1>9, <1>11, <2>1, <2>2, <2>3, <2>4 DEF Hold
  <1>12. CASE Renew
    <2> SUFFICES ASSUME NEW rs \in root_status_notes,
                        NEW au \in root_authority_notes, NEW g \in Ghost,
                        NEW c \in Passport, NEW e \in ValidUntil,
                        NEW a \in Anchor,
                        \/ RefreshRootAuthority(rs, au, g, c, e, a)
                        \/ RefreshRootAuthorityAuthorized(rs, au, g, c, e, a)
                 PROVE  LinksToVersions /\ RootsRevokedByRecovery
      BY <1>12 DEF Renew
    <2>1. RefreshNotes(rs, g, c, e)
      BY DEF RefreshRootAuthority, RefreshRootAuthorityAuthorized
    <2>2. MintLinkedPair(rs.owner, rs.root, c, e, Random(fresh + 1))
          /\ c \notin Instagram
      BY <1>t, <2>1 DEF RefreshNotes, MintLinkedCredentialNotes
    <2>3. /\ AuthorityRevocation(au.secret, au.root, au.claims)[1] # "root"
          /\ RefreshAuthorization(rs.owner, g, rs.root, c, e)[1] # "root"
      BY NotRoot
    <2>4. PICK N : Push(N) /\ \A n \in N : n[1] # "root"
      BY <2>3 DEF RefreshRootAuthority, RefreshRootAuthorityAuthorized
    <2> QED
      BY <1>t, <2>1, <2>2, <2>4, OtherPair, PushedNow, PushedNoRoot
         DEF RefreshNotes, LinksToVersions
  <1>13. ASSUME NEW d \in Wallet, NEW r \in Root, NEW c \in PassportV2,
                NEW e \in ValidUntil, SendRecoveryMessage(d, r, c, e)
         PROVE  LinksToVersions /\ RootsRevokedByRecovery
    BY <1>t, <1>q, <1>13 DEF SendRecoveryMessage, LinksToVersions
  <1>14. ASSUME NEW rr \in root_recovery_notes, NEW m \in inbox,
                NEW a \in Anchor, RecoverRootV3(rr, m, a)
         PROVE  LinksToVersions /\ RootsRevokedByRecovery
    <2>1. PICK N : Push(N) /\ N = {MessageNullifier(m)} \cup RecoveryNullifiers(rr)
      BY <1>14 DEF RecoverRootV3
    <2>2. Spendable(rr)
      BY <2>1 DEF Push, Unsettled, Spendable, Settled
    <2>3. \A n \in N : n[1] = "root" => n = RootRevocation(rr.secret, rr.root)
      BY <2>1, NotRoot DEF RecoveryNullifiers
    <2>4. RootsRevokedByRecovery
      BY <2>1, <2>2, <2>3, PushedNow DEF RootsRevokedByRecovery
    <2>5. m.claims \in Passport
      BY DEF TypeOK
    <2> QED
      BY <1>t, <1>4, <1>14, <2>1, <2>4, <2>5, PushedNow
         DEF RecoverRootV3, LinksToVersions
  <1>15. CASE Tick \/ Login \/ UNCHANGED vars
    <2>1. /\ UNCHANGED <<root_status_notes, linked_status_notes, nullifiers>>
          /\ now' >= now
      BY <1>t, <1>15, LoginStep DEF Tick, MeterVerify, vars
    <2> QED
      BY <1>q, <2>1 DEF LinksToVersions
  <1>16. CASE Issue
    BY <1>1, <1>2, <1>3, <1>5, <1>6, <1>7, <1>8, <1>16 DEF Issue
  <1>17. CASE Recover
    BY <1>13, <1>14, <1>17 DEF Recover
  <1> QED
    BY <1>11, <1>12, <1>15, <1>16, <1>17 DEF Next

(* All versions of a root but the one its spendable recovery note belongs   *)
(* to are retired.                                                          *)
LEMMA OthersRetired ==
    ASSUME LineageInv, RootedOnce, NEW rr \in root_recovery_notes, Spendable(rr),
           NEW v \in Versions(rr.root)
    PROVE  v.secret = rr.secret \/ Settled(RootRevocation(v.secret, rr.root))
  <1>1. rr.root \in Root /\ rr \in RecoveryNotes(rr.root)
    BY DEF LineageInv, RecoverableInv, TypeOK, RecoveryNotes
  <1>2. PICK live \in Versions(rr.root), q \in RecoveryNotes(rr.root) :
            LivePair(rr.root, live, q)
    BY <1>1 DEF LineageInv
  <1>3. q = rr
    BY <1>1, <1>2 DEF LivePair
  <1> QED
    BY <1>2, <1>3 DEF LivePair

LEMMA VersionStep ==
    ASSUME VersionInv, RootedOnce, [Next]_vars
    PROVE  VersionInv'
  <1>1. /\ LineageInv /\ LineageInv' /\ TypeOK /\ TypeOK'
        /\ Past /\ LinkedToVersion /\ RecoveryRetires
    BY LineageStep, TypeStep DEF VersionInv, LineageInv, RecoverableInv
  <1>2. LinksToVersions /\ RootsRevokedByRecovery
    BY <1>1, VersionKinds
  <1>3. now \in Nat /\ now' \in Nat /\ now' >= now
    BY <1>1, <1>2 DEF TypeOK, LinksToVersions
  <1>4. Past'
    BY <1>1, <1>2, <1>3 DEF Past, LinksToVersions, TypeOK
  <1>5. \A r : Versions(r) \subseteq Versions(r)'
    BY <1>2 DEF Versions, LinksToVersions
  <1>6. LinkedToVersion'
    BY <1>1, <1>2, <1>5 DEF LinkedToVersion, LinksToVersions
  <1>7. RecoveryRetires'
    <2> SUFFICES ASSUME NEW ls \in linked_status_notes', NEW e \in nullifiers',
                        ls.claims \in Instagram, e.n[1] = "root",
                        e.n[3] = ls.root, ls.at < e.at
                 PROVE  \E f \in nullifiers' : f.at <= e.at
                            /\ f.n = RootRevocation(ls.secret[1], ls.root)
      BY DEF RecoveryRetires
    <2>1. ls.at \in Nat /\ e.at \in Nat
      BY <1>1 DEF TypeOK
    <2>2. e.at <= now
      BY <1>1, <1>2, <1>3 DEF Past, LinksToVersions
    <2>3. ls \in linked_status_notes
      BY <1>2, <1>3, <2>1, <2>2 DEF LinksToVersions
    <2>4. CASE e \in nullifiers
      BY <1>1, <1>2, <2>3, <2>4 DEF RecoveryRetires, LinksToVersions
    <2>5. CASE e \notin nullifiers
      <3>1. PICK rr \in root_recovery_notes :
                Spendable(rr) /\ e.n = RootRevocation(rr.secret, rr.root)
        BY <1>2, <2>5 DEF RootsRevokedByRecovery
      <3>2. e.at = now /\ rr.root = ls.root
        BY <1>2, <2>5, <3>1 DEF LinksToVersions, RootRevocation
      <3>3. PICK v \in Versions(ls.root) :
                ls.secret = LinkedStatusSecret(v.secret, ls.claims)
        BY <1>1, <2>3 DEF LinkedToVersion
      <3>4. ls.secret[1] = v.secret
        BY <3>3 DEF LinkedStatusSecret
      <3>5. CASE v.secret = rr.secret
        BY <2>1, <3>1, <3>2, <3>4, <3>5
      <3>6. CASE Settled(RootRevocation(v.secret, rr.root))
        <4>1. PICK f \in nullifiers : f.n = RootRevocation(v.secret, rr.root)
          BY <3>6 DEF Settled
        <4>2. f.at <= e.at /\ f \in nullifiers'
          BY <1>1, <1>2, <3>2, <4>1 DEF Past, LinksToVersions
        <4> QED
          BY <3>2, <3>4, <4>1, <4>2
      <3> QED
        BY <1>1, <3>1, <3>2, <3>3, <3>5, <3>6, OthersRetired
    <2> QED
      BY <2>4, <2>5
  <1> QED
    BY <1>1, <1>4, <1>6, <1>7 DEF VersionInv

LEMMA RetiredDoNotVerify ==
    ASSUME VersionInv
    PROVE  LinkedInstagramDiesWithItsRootVersion
  <1> SUFFICES ASSUME NEW rs \in root_status_notes,
                      NEW lc \in linked_credential_notes,
                      NEW ls \in linked_status_notes, NEW a \in Anchor,
                      CanVerifyLinkedInstagram(rs, lc, ls, a),
                      LineageRetired(ls.root, ls.at, a)
               PROVE  FALSE
    BY DEF LinkedInstagramDiesWithItsRootVersion
  <1>1. /\ ls.claims \in Instagram /\ rs.root = ls.root
        /\ ls.secret = LinkedStatusSecret(rs.secret, ls.claims)
        /\ AbsentAt(RootRevocation(rs.secret, rs.root), a)
    BY DEF CanVerifyLinkedInstagram, LinkedNotesMatch, RootLive
  <1>2. PICK e \in nullifiers : /\ e.n[1] = "root" /\ e.n[3] = ls.root
                                /\ ls.at < e.at /\ e.at <= a
    BY DEF LineageRetired
  <1>3. PICK f \in nullifiers : /\ f.at <= e.at
                                /\ f.n = RootRevocation(ls.secret[1], ls.root)
    BY <1>1, <1>2 DEF VersionInv, RecoveryRetires
  <1>4. f.n = RootRevocation(rs.secret, rs.root)
    BY <1>1, <1>3 DEF LinkedStatusSecret
  <1>5. f.at > a
    BY <1>1, <1>4 DEF AbsentAt
  <1>6. f.at \in Nat /\ e.at \in Nat /\ a \in Int
    BY DEF VersionInv, LineageInv, RecoverableInv, TypeOK, Anchor
  <1> QED
    BY <1>2, <1>3, <1>5, <1>6

(* In a rooted deployment no proof anchored after a recovery of the root    *)
(* verifies an Instagram credential linked before it, whoever holds the     *)
(* linked notes and whichever root note of that commitment is shown.        *)
THEOREM LinkedDiesWithVersion == Spec => []LinkedInstagramDiesWithItsRootVersion
  <1>1. CASE RootedOnce
    <2>1. Init => VersionInv
      <3> SUFFICES ASSUME Init PROVE VersionInv
        OBVIOUS
      <3>1. LineageInv
        BY TypeInit DEF Init, LineageInv, RecoverableInv, FreshSecrets,
                        RootAlwaysRecoverable, Settled, Versions, RecoveryNotes
      <3> QED
        BY <3>1 DEF Init, VersionInv, Past, LinkedToVersion, RecoveryRetires
    <2>2. VersionInv /\ [Next]_vars => VersionInv'
      BY <1>1, VersionStep
    <2>3. VersionInv => LinkedInstagramDiesWithItsRootVersion
      BY RetiredDoNotVerify
    <2> QED
      BY <2>1, <2>2, <2>3, PTL DEF Spec
  <1>2. CASE ~RootedOnce
    <2>1. LinkedInstagramDiesWithItsRootVersion
      BY <1>2 DEF LinkedInstagramDiesWithItsRootVersion
    <2> QED
      BY <2>1, PTL
  <1> QED
    BY <1>1, <1>2

-----------------------------------------------------------------------------
(* Passport authorities: renewals replace them and are approved. *)

NoDirectAuthority ==
    RootedOnce /\ "register_root_authority" \notin OrchestratorCalls
NoDirectRenewal ==
    NoDirectAuthority /\ "refresh_root_authority" \notin OrchestratorCalls

LiveAuthorities(r) ==
    {au \in root_authority_notes : au.root = r
        /\ ~Settled(AuthorityRevocation(au.secret, r, au.claims))}
AuthoritiesOf(r, o) == {au \in root_authority_notes : au.root = r /\ au.owner = o}
VersionsOf(r, o) == {rs \in Versions(r) : rs.owner = o}
ApprovalsOf(r, o) ==
    {x \in root_authority_refresh_authorizations : x.n[2][1] = o /\ x.n[2][3] = r}
UsedApprovals(r, o) == {x \in ApprovalsOf(r, o) : Settled(x.n)}

(* Finitely many notes, told apart by secrets sampled before now. *)
Sampled ==
    /\ IsFiniteSet(root_status_notes) /\ IsFiniteSet(root_authority_notes)
    /\ IsFiniteSet(root_authority_refresh_authorizations)
    /\ \A rs \in root_status_notes : rs.secret < fresh
    /\ \A au \in root_authority_notes : au.secret < fresh
    /\ \A x, y \in root_authority_notes : x.secret = y.secret => x = y
    /\ \A k \in Nat : \A r, c : k >= fresh => ~Settled(AuthorityRevocation(k, r, c))

AuthorityInv ==
    /\ TypeOK /\ Sampled
    /\ \A r \in Root : Cardinality(LiveAuthorities(r)) = Cardinality(Versions(r))

(* One entry per approval, and only approvals are ever used. *)
Approvals ==
    /\ \A x, y \in root_authority_refresh_authorizations : x.n = y.n => x = y
    /\ \A o, g, r, c, e : Settled(RefreshAuthorization(o, g, r, c, e)) =>
          \E x \in root_authority_refresh_authorizations :
              x.n = RefreshAuthorization(o, g, r, c, e)

RenewalInv ==
    /\ TypeOK /\ Sampled /\ Approvals
    /\ \A r \in Root, o \in Wallet :
          Cardinality(AuthoritiesOf(r, o))
              = Cardinality(VersionsOf(r, o)) + Cardinality(UsedApprovals(r, o))

-----------------------------------------------------------------------------
(* What a step does to the authorities. *)

KeepsRenewals ==
    /\ \A k, r, c : Settled(AuthorityRevocation(k, r, c))'
                        <=> Settled(AuthorityRevocation(k, r, c))
    /\ \A o, g, r, c, e : Settled(RefreshAuthorization(o, g, r, c, e))'
                              <=> Settled(RefreshAuthorization(o, g, r, c, e))

Untouched ==
    /\ UNCHANGED <<root_status_notes, root_authority_notes,
                   root_authority_refresh_authorizations>>
    /\ fresh' >= fresh
    /\ KeepsRenewals

(* A version and its authority are minted together. *)
MintsVersion(o, r) ==
    /\ root_status_notes' = root_status_notes \cup
           {[owner |-> o, root |-> r, secret |-> fresh, at |-> now]}
    /\ \E c, e : MintRootAuthorityNote(o, r, c, e, fresh + 1)
    /\ UNCHANGED root_authority_refresh_authorizations
    /\ fresh' = fresh + 3
    /\ KeepsRenewals

Approves(o, g, r, c, e) ==
    /\ \A x \in root_authority_refresh_authorizations :
          x.n # RefreshAuthorization(o, g, r, c, e)
    /\ root_authority_refresh_authorizations' =
           root_authority_refresh_authorizations \cup
               {[n |-> RefreshAuthorization(o, g, r, c, e), at |-> now]}
    /\ UNCHANGED <<root_status_notes, root_authority_notes, fresh>>
    /\ KeepsRenewals

(* N is what the renewal settles: the prior authority and, unless the       *)
(* orchestrator renews on its own, the approval.                            *)
Renews(rs, au, g, c, e, N) ==
    /\ au.root = rs.root /\ au.owner = rs.owner
    /\ Push(N)
    /\ AuthorityRevocation(au.secret, au.root, au.claims) \in N
    /\ N \subseteq {AuthorityRevocation(au.secret, au.root, au.claims),
                    RefreshAuthorization(rs.owner, g, rs.root, c, e)}
    /\ NoDirectRenewal =>
          /\ RefreshAuthorization(rs.owner, g, rs.root, c, e) \in N
          /\ \E x \in root_authority_refresh_authorizations :
                x.n = RefreshAuthorization(rs.owner, g, rs.root, c, e)
    /\ MintRootAuthorityNote(rs.owner, rs.root, c, e, fresh)
    /\ fresh' = fresh + 2
    /\ UNCHANGED <<root_status_notes, root_authority_refresh_authorizations>>

IsRenewalNullifier(n) == n[1] \in {"authority", "refresh"}

LEMMA OtherPush ==
    ASSUME NEW N, Push(N), \A n \in N : ~IsRenewalNullifier(n)
    PROVE  KeepsRenewals
  <1>1. \A k, r, c : AuthorityRevocation(k, r, c) \notin N
    BY DEF AuthorityRevocation, IsRenewalNullifier
  <1>2. \A o, g, r, c, e : RefreshAuthorization(o, g, r, c, e) \notin N
    BY DEF RefreshAuthorization, IsRenewalNullifier
  <1>3. \A n : Settled(n)' <=> Settled(n) \/ n \in N
    BY SettledByPush
  <1> QED
    BY <1>1, <1>2, <1>3 DEF KeepsRenewals

LEMMA NoPush ==
    ASSUME UNCHANGED nullifiers
    PROVE  KeepsRenewals
  BY DEF KeepsRenewals, Settled

LEMMA NotRenewal ==
    ASSUME NEW x, NEW y
    PROVE  /\ ~IsRenewalNullifier(Revocation(x, y))
           /\ ~IsRenewalNullifier(RootRevocation(x, y))
           /\ ~IsRenewalNullifier(OwnerRootRevocation(x, y))
           /\ ~IsRenewalNullifier(StandaloneIssuance(x, y))
           /\ ~IsRenewalNullifier(LinkedIssuance(x, y))
           /\ ~IsRenewalNullifier(PassportIssuance(x))
           /\ ~IsRenewalNullifier(MessageNullifier(x))
           /\ ~IsRenewalNullifier(Spend(x, y))
  BY DEF IsRenewalNullifier, Revocation, RootRevocation, OwnerRootRevocation,
         StandaloneIssuance, LinkedIssuance, PassportIssuance, MessageNullifier,
         Spend

LEMMA RenewalKinds ==
    ASSUME TypeOK, NoDirectAuthority, [Next]_vars
    PROVE  \/ Untouched
           \/ \E o \in Wallet, r \in Root : MintsVersion(o, r)
           \/ \E o \in Wallet, g \in Ghost, r \in Root, c \in Passport,
                 e \in ValidUntil : Approves(o, g, r, c, e)
           \/ \E rs \in root_status_notes, au \in root_authority_notes,
                 g \in Ghost, c \in Passport, e \in ValidUntil :
                 \E N : Renews(rs, au, g, c, e, N)
  <1> USE DEF rootNotes, external
  <1>t. fresh \in Nat
    BY DEF TypeOK
  <1>1. ASSUME NEW o \in Wallet, NEW g \in Ghost, NEW e \in ValidUntil,
               NEW c \in Claims, RegisterCredential(o, g, c, e)
        PROVE  Untouched
    BY <1>t, <1>1, OtherPush, NotRenewal DEF RegisterCredential, TakeSecrets, Untouched
  <1>2. ASSUME NEW o \in Wallet, NEW g \in Ghost, NEW r \in Root,
               RegisterRoot(o, g, r)
        PROVE  FALSE
    BY <1>2 DEF RegisterRoot, NoDirectAuthority, RootedOnce
  <1>3. ASSUME NEW o \in Wallet, NEW r \in Root, NEW c \in Claims,
               NEW e \in ValidUntil, RegisterRootAuthority(o, r, c, e)
        PROVE  FALSE
    BY <1>3 DEF RegisterRootAuthority, NoDirectAuthority
  <1>4. ASSUME NEW o \in Wallet, NEW g \in Ghost, NEW r \in Root,
               NEW c \in Passport, NEW e \in ValidUntil,
               RegisterRootedPassport(o, g, r, c, e)
        PROVE  FALSE
    BY <1>4 DEF RegisterRootedPassport, NoDirectAuthority, RootedOnce
  <1>5. ASSUME NEW o, NEW g, NEW r, NEW c, NEW e,
               RootedPassportNotes(o, g, r, c, e), KeepsRenewals,
               UNCHANGED root_authority_refresh_authorizations
        PROVE  MintsVersion(o, r)
    BY <1>5 DEF RootedPassportNotes, TakeSecrets, MintRootNotes, MintsVersion
  <1>6. ASSUME NEW o \in Wallet, NEW g \in Ghost, NEW r \in Root,
               NEW c \in Passport, NEW e \in ValidUntil, NEW a \in Anchor,
               RegisterRootedPassportV2(o, g, r, c, e, a)
        PROVE  MintsVersion(o, r)
    BY <1>5, <1>6, OtherPush, NotRenewal DEF RegisterRootedPassportV2
  <1>7. ASSUME NEW o \in Wallet, NEW g \in Ghost, NEW r \in Root,
               NEW c \in Claims, NEW e \in ValidUntil,
               RegisterLinkedCredential(o, g, r, c, e)
        PROVE  Untouched
    BY <1>t, <1>7, NoPush DEF RegisterLinkedCredential, TakeSecrets, Untouched
  <1>8. ASSUME NEW o \in Wallet, NEW g \in Ghost, NEW r \in Root,
               NEW c \in Passport, NEW e \in ValidUntil,
               AuthorizeRootAuthorityRefresh(o, g, r, c, e)
        PROVE  Approves(o, g, r, c, e)
    BY <1>8, NoPush DEF AuthorizeRootAuthorityRefresh, Approves
  <1>9. CASE Hold
    <2>1. ASSUME NEW cr \in credential_notes, NEW st \in status_notes,
                 NEW rs \in root_status_notes, NEW a \in Anchor,
                 LinkCredentialToRoot(cr, st, rs, a)
          PROVE  Untouched
      BY <1>t, <2>1, OtherPush, NotRenewal DEF LinkCredentialToRoot, Untouched
    <2>2. ASSUME NEW N, Push(N), \A n \in N : ~IsRenewalNullifier(n),
                 UNCHANGED Unminted
          PROVE  Untouched
      BY <1>t, <2>2, OtherPush DEF Unminted, Untouched
    <2>3. CASE \E st \in status_notes : RevokeCredential(st)
      BY <2>2, <2>3, NotRenewal DEF RevokeCredential
    <2>4. CASE \E ls \in linked_status_notes : RevokeLinkedCredentialAsOwner(ls)
      BY <2>2, <2>4, NotRenewal DEF RevokeLinkedCredentialAsOwner
    <2>5. CASE \E rs \in root_status_notes : RevokeRootAsOwner(rs)
      BY <2>2, <2>5, NotRenewal DEF RevokeRootAsOwner
    <2>6. CASE \E lr \in linked_recovery_notes : RevokeLinkedCredential(lr)
      BY <2>2, <2>6, NotRenewal DEF RevokeLinkedCredential
    <2> QED
      BY <1>9, <2>1, <2>3, <2>4, <2>5, <2>6 DEF Hold
  <1>10. CASE Renew
    <2>1. PICK rs \in root_status_notes, au \in root_authority_notes, g \in Ghost,
               c \in Passport, e \in ValidUntil, a \in Anchor :
              \/ RefreshRootAuthority(rs, au, g, c, e, a)
              \/ RefreshRootAuthorityAuthorized(rs, au, g, c, e, a)
      BY <1>10 DEF Renew
    <2>2. CASE RefreshRootAuthority(rs, au, g, c, e, a)
      <3>1. Renews(rs, au, g, c, e,
                   {AuthorityRevocation(au.secret, au.root, au.claims)})
        BY <2>2 DEF RefreshRootAuthority, RefreshNotes, CanRefresh, TakeSecrets,
                    Renews, NoDirectRenewal
      <3> QED
        BY <3>1
    <2>3. CASE RefreshRootAuthorityAuthorized(rs, au, g, c, e, a)
      <3>1. Renews(rs, au, g, c, e,
                   {AuthorityRevocation(au.secret, au.root, au.claims),
                    RefreshAuthorization(rs.owner, g, rs.root, c, e)})
        BY <2>3 DEF RefreshRootAuthorityAuthorized, RefreshNotes, CanRefresh,
                    TakeSecrets, Renews
      <3> QED
        BY <3>1
    <2> QED
      BY <2>1, <2>2, <2>3
  <1>11. ASSUME NEW d \in Wallet, NEW r \in Root, NEW c \in PassportV2,
                NEW e \in ValidUntil, SendRecoveryMessage(d, r, c, e)
         PROVE  Untouched
    BY <1>t, <1>11, NoPush DEF SendRecoveryMessage, Untouched
  <1>12. ASSUME NEW rr \in root_recovery_notes, NEW m \in inbox,
                NEW a \in Anchor, RecoverRootV3(rr, m, a)
         PROVE  MintsVersion(m.destination, rr.root)
    <2>1. \A n \in {MessageNullifier(m)} \cup RecoveryNullifiers(rr) :
              ~IsRenewalNullifier(n)
      BY NotRenewal DEF RecoveryNullifiers
    <2>2. KeepsRenewals
      BY <1>12, <2>1, OtherPush DEF RecoverRootV3
    <2> QED
      BY <1>5, <1>12, <2>2 DEF RecoverRootV3
  <1>13. \A rr \in root_recovery_notes, m \in inbox :
             rr.root \in Root /\ m.destination \in Wallet
    BY DEF TypeOK
  <1>14. CASE Tick \/ Login \/ UNCHANGED vars
    <2>1. UNCHANGED <<fresh, root_status_notes, root_authority_notes, nullifiers,
                      root_authority_refresh_authorizations>>
      BY <1>14, LoginStep DEF Tick, MeterVerify, vars
    <2> QED
      BY <1>t, <2>1, NoPush DEF Untouched
  <1>15. CASE Issue
    BY <1>1, <1>2, <1>3, <1>4, <1>6, <1>7, <1>8, <1>15 DEF Issue
  <1>16. CASE Recover
    BY <1>11, <1>12, <1>13, <1>16 DEF Recover
  <1> QED
    BY <1>9, <1>10, <1>14, <1>15, <1>16 DEF Next

-----------------------------------------------------------------------------
(* Counting notes. *)

LEMMA OneMore ==
    ASSUME NEW S, IsFiniteSet(S), NEW x, x \notin S, NEW T, T = S \cup {x}
    PROVE  Cardinality(T) = Cardinality(S) + 1
  BY FS_AddElement

LEMMA Exchange ==
    ASSUME NEW S, IsFiniteSet(S), NEW x \in S, NEW y, y \notin S,
           NEW T, T = (S \ {x}) \cup {y}
    PROVE  Cardinality(T) = Cardinality(S)
  <1>1. /\ IsFiniteSet(S \ {x})
        /\ Cardinality(S \ {x}) = Cardinality(S) - 1
    BY FS_RemoveElement
  <1>2. Cardinality(T) = Cardinality(S \ {x}) + 1
    BY <1>1, OneMore
  <1>3. Cardinality(S) \in Nat
    BY FS_CardinalityType
  <1> QED
    BY <1>1, <1>2, <1>3

LEMMA FinitelyMany ==
    ASSUME Sampled, NEW r, NEW o
    PROVE  /\ IsFiniteSet(Versions(r)) /\ IsFiniteSet(VersionsOf(r, o))
           /\ IsFiniteSet(LiveAuthorities(r)) /\ IsFiniteSet(AuthoritiesOf(r, o))
           /\ IsFiniteSet(ApprovalsOf(r, o)) /\ IsFiniteSet(UsedApprovals(r, o))
  <1>1. /\ Versions(r) \subseteq root_status_notes
        /\ VersionsOf(r, o) \subseteq root_status_notes
        /\ LiveAuthorities(r) \subseteq root_authority_notes
        /\ AuthoritiesOf(r, o) \subseteq root_authority_notes
        /\ ApprovalsOf(r, o) \subseteq root_authority_refresh_authorizations
        /\ UsedApprovals(r, o) \subseteq root_authority_refresh_authorizations
    BY DEF Versions, VersionsOf, LiveAuthorities, AuthoritiesOf, ApprovalsOf,
           UsedApprovals
  <1> QED
    BY <1>1, FS_Subset DEF Sampled

-----------------------------------------------------------------------------
(* Secrets stay apart. *)

LEMMA SampledStep ==
    ASSUME TypeOK, TypeOK', Sampled, NoDirectAuthority, [Next]_vars
    PROVE  Sampled'
  <1>t. fresh \in Nat /\ fresh' \in Nat
    BY BoundsAssumption DEF TypeOK
  <1>u. /\ \A rs \in root_status_notes : rs.secret \in Nat
        /\ \A au \in root_authority_notes : au.secret \in Nat
    BY DEF TypeOK
  <1>1. CASE Untouched
    BY <1>t, <1>u, <1>1 DEF Untouched, Sampled, KeepsRenewals
  <1>2. ASSUME NEW o \in Wallet, NEW r \in Root, MintsVersion(o, r)
        PROVE  Sampled'
    <2>1. PICK rs, au : /\ rs.secret = fresh /\ au.secret = fresh + 1
                        /\ root_status_notes' = root_status_notes \cup {rs}
                        /\ root_authority_notes' = root_authority_notes \cup {au}
      <3>1. PICK c, e : MintRootAuthorityNote(o, r, c, e, fresh + 1)
        BY <1>2 DEF MintsVersion
      <3> QED
        BY <1>2, <3>1 DEF MintsVersion, MintRootAuthorityNote
    <2>2. /\ IsFiniteSet(root_status_notes') /\ IsFiniteSet(root_authority_notes')
          /\ IsFiniteSet(root_authority_refresh_authorizations')
      BY <1>2, <2>1, FS_AddElement DEF Sampled, MintsVersion
    <2>3. fresh' = fresh + 3 /\ KeepsRenewals
      BY <1>2 DEF MintsVersion
    <2> QED
      BY <1>t, <1>u, <2>1, <2>2, <2>3 DEF Sampled, KeepsRenewals
  <1>3. ASSUME NEW o \in Wallet, NEW g \in Ghost, NEW r \in Root,
               NEW c \in Passport, NEW e \in ValidUntil, Approves(o, g, r, c, e)
        PROVE  Sampled'
    <2>1. IsFiniteSet(root_authority_refresh_authorizations')
      BY <1>3, FS_AddElement DEF Sampled, Approves
    <2> QED
      BY <1>t, <1>u, <1>3, <2>1 DEF Sampled, Approves, KeepsRenewals
  <1>4. ASSUME NEW rs \in root_status_notes, NEW old \in root_authority_notes,
               NEW g \in Ghost, NEW c \in Passport, NEW e \in ValidUntil,
               NEW N, Renews(rs, old, g, c, e, N)
        PROVE  Sampled'
    <2>1. PICK au : /\ au.secret = fresh
                    /\ root_authority_notes' = root_authority_notes \cup {au}
      BY <1>4 DEF Renews, MintRootAuthorityNote
    <2>2. IsFiniteSet(root_authority_notes')
      BY <2>1, FS_AddElement DEF Sampled
    <2>3. \A k \in Nat : \A r, d : k >= fresh' => ~Settled(AuthorityRevocation(k, r, d))'
      <3> SUFFICES ASSUME NEW k \in Nat, NEW r, NEW d, k >= fresh'
                   PROVE  ~Settled(AuthorityRevocation(k, r, d))'
        OBVIOUS
      <3>1. fresh' = fresh + 2 /\ Push(N)
        BY <1>4 DEF Renews
      <3>2. k # old.secret /\ ~Settled(AuthorityRevocation(k, r, d))
        BY <1>t, <1>u, <3>1 DEF Sampled
      <3>3. AuthorityRevocation(k, r, d) \notin N
        BY <1>4, <3>2 DEF Renews, AuthorityRevocation, RefreshAuthorization
      <3> QED
        BY <3>1, <3>2, <3>3, SettledByPush
    <2> QED
      BY <1>t, <1>u, <1>4, <2>1, <2>2, <2>3 DEF Sampled, Renews
  <1> QED
    BY <1>1, <1>2, <1>3, <1>4, RenewalKinds

-----------------------------------------------------------------------------
(* As many live authorities as versions. *)

LEMMA AuthorityStep ==
    ASSUME AuthorityInv, NoDirectAuthority, [Next]_vars
    PROVE  AuthorityInv'
  <1>1. TypeOK /\ TypeOK' /\ Sampled /\ Sampled' /\ fresh \in Nat
    BY TypeStep, SampledStep DEF AuthorityInv, TypeOK
  <1>2. /\ \A rs \in root_status_notes : rs.secret \in Nat /\ rs.secret < fresh
        /\ \A au \in root_authority_notes : au.secret \in Nat /\ au.secret < fresh
    BY <1>1 DEF TypeOK, Sampled
  <1> SUFFICES ASSUME NEW x \in Root
               PROVE  Cardinality(LiveAuthorities(x)') = Cardinality(Versions(x)')
    BY <1>1 DEF AuthorityInv
  <1>3. Cardinality(LiveAuthorities(x)) = Cardinality(Versions(x))
    BY DEF AuthorityInv
  <1>4. IsFiniteSet(LiveAuthorities(x)) /\ IsFiniteSet(Versions(x))
    BY <1>1, FinitelyMany
  <1>5. ASSUME UNCHANGED <<root_status_notes, root_authority_notes>>, KeepsRenewals
        PROVE  Cardinality(LiveAuthorities(x)') = Cardinality(Versions(x)')
    <2>1. LiveAuthorities(x)' = LiveAuthorities(x) /\ Versions(x)' = Versions(x)
      BY <1>5 DEF LiveAuthorities, Versions, KeepsRenewals
    <2> QED
      BY <1>3, <2>1
  <1>6. ASSUME NEW o \in Wallet, NEW r \in Root, MintsVersion(o, r)
        PROVE  Cardinality(LiveAuthorities(x)') = Cardinality(Versions(x)')
    <2>1. PICK c, e : MintRootAuthorityNote(o, r, c, e, fresh + 1)
      BY <1>6 DEF MintsVersion
    <2>2. PICK rs, au :
              /\ rs = [owner |-> o, root |-> r, secret |-> fresh, at |-> now]
              /\ au = [owner |-> o, root |-> r, claims |-> c, expiry |-> e,
                       secret |-> fresh + 1, at |-> now]
      OBVIOUS
    <2>3. /\ root_status_notes' = root_status_notes \cup {rs}
          /\ root_authority_notes' = root_authority_notes \cup {au}
          /\ KeepsRenewals
      BY <1>6, <2>1, <2>2 DEF MintsVersion, MintRootAuthorityNote
    <2>4. rs \notin root_status_notes /\ au \notin root_authority_notes
      BY <1>1, <1>2, <2>2
    <2>5. CASE x = r
      <3>1. ~Settled(AuthorityRevocation(au.secret, r, au.claims))
        BY <1>1, <2>2 DEF Sampled
      <3>2. LiveAuthorities(x)' = LiveAuthorities(x) \cup {au}
        BY <2>2, <2>3, <2>5, <3>1 DEF LiveAuthorities, KeepsRenewals
      <3>3. Versions(x)' = Versions(x) \cup {rs}
        BY <2>2, <2>3, <2>5 DEF Versions
      <3>4. au \notin LiveAuthorities(x) /\ rs \notin Versions(x)
        BY <2>4 DEF LiveAuthorities, Versions
      <3>5. Cardinality(LiveAuthorities(x)') = Cardinality(LiveAuthorities(x)) + 1
        BY <1>4, <3>2, <3>4, OneMore
      <3>6. Cardinality(Versions(x)') = Cardinality(Versions(x)) + 1
        BY <1>4, <3>3, <3>4, OneMore
      <3> QED
        BY <1>3, <3>5, <3>6
    <2>6. CASE x # r
      <3>1. LiveAuthorities(x)' = LiveAuthorities(x) /\ Versions(x)' = Versions(x)
        BY <2>2, <2>3, <2>6 DEF LiveAuthorities, Versions, KeepsRenewals
      <3> QED
        BY <1>3, <3>1
    <2> QED
      BY <2>5, <2>6
  <1>7. ASSUME NEW rs \in root_status_notes, NEW old \in root_authority_notes,
               NEW g \in Ghost, NEW c \in Passport, NEW e \in ValidUntil,
               NEW N, Renews(rs, old, g, c, e, N)
        PROVE  Cardinality(LiveAuthorities(x)') = Cardinality(Versions(x)')
    <2>1. PICK au : au = [owner |-> rs.owner, root |-> rs.root, claims |-> c,
                          expiry |-> e, secret |-> fresh, at |-> now]
      OBVIOUS
    <2>2. /\ root_authority_notes' = root_authority_notes \cup {au}
          /\ au \notin root_authority_notes
      BY <1>1, <1>2, <1>7, <2>1 DEF Renews, MintRootAuthorityNote
    <2>3. Versions(x)' = Versions(x)
      BY <1>7 DEF Renews, Versions
    <2>4. \A n : Settled(n)' <=> Settled(n) \/ n \in N
      BY <1>7, SettledByPush DEF Renews
    <2>5. ASSUME NEW k, NEW r, NEW d
          PROVE  Settled(AuthorityRevocation(k, r, d))' <=>
                     \/ Settled(AuthorityRevocation(k, r, d))
                     \/ k = old.secret /\ r = old.root /\ d = old.claims
      <3>1. AuthorityRevocation(k, r, d) # RefreshAuthorization(rs.owner, g, rs.root, c, e)
        BY DEF AuthorityRevocation, RefreshAuthorization
      <3>2. AuthorityRevocation(k, r, d) \in N <=>
                k = old.secret /\ r = old.root /\ d = old.claims
        BY <1>7, <3>1 DEF Renews, AuthorityRevocation
      <3> QED
        BY <2>4, <3>2
    <2>6. CASE x = rs.root
      <3>1. old.root = x /\ ~Settled(AuthorityRevocation(old.secret, x, old.claims))
        BY <1>7, <2>6 DEF Renews, Push, Unsettled, Settled
      <3>2. ~Settled(AuthorityRevocation(au.secret, x, au.claims))'
        BY <1>1, <1>2, <2>1, <2>5 DEF Sampled
      <3>3. \A q \in root_authority_notes : q # old => q.secret # old.secret
        BY <1>1 DEF Sampled
      <3>4. \A q : q \in LiveAuthorities(x)' <=>
                       q \in (LiveAuthorities(x) \ {old}) \cup {au}
        BY <2>1, <2>2, <2>5, <2>6, <3>1, <3>2, <3>3 DEF LiveAuthorities
      <3>5. LiveAuthorities(x)' = (LiveAuthorities(x) \ {old}) \cup {au}
        BY <3>4
      <3>6. old \in LiveAuthorities(x) /\ au \notin LiveAuthorities(x)
        BY <2>2, <3>1 DEF LiveAuthorities
      <3> QED
        BY <1>3, <1>4, <2>3, <3>5, <3>6, Exchange
    <2>7. CASE x # rs.root
      <3>1. old.root # x
        BY <1>7, <2>7 DEF Renews
      <3>2. LiveAuthorities(x)' = LiveAuthorities(x)
        BY <2>1, <2>2, <2>5, <2>7, <3>1 DEF LiveAuthorities
      <3> QED
        BY <1>3, <2>3, <3>2
    <2> QED
      BY <2>6, <2>7
  <1>8. ASSUME NEW o \in Wallet, NEW g \in Ghost, NEW r \in Root,
               NEW c \in Passport, NEW e \in ValidUntil, Approves(o, g, r, c, e)
        PROVE  Cardinality(LiveAuthorities(x)') = Cardinality(Versions(x)')
    BY <1>5, <1>8 DEF Approves
  <1> QED
    BY <1>1, <1>5, <1>6, <1>7, <1>8, RenewalKinds DEF Untouched

LEMMA Empty ==
    ASSUME Init
    PROVE  AuthorityInv /\ RenewalInv
  <1>1. TypeOK
    BY TypeInit
  <1>2. Sampled
    BY FS_EmptySet DEF Init, Sampled, Settled
  <1>3. Approvals
    BY DEF Init, Approvals, Settled
  <1>4. \A r, o : /\ LiveAuthorities(r) = {} /\ Versions(r) = {}
                  /\ AuthoritiesOf(r, o) = {} /\ VersionsOf(r, o) = {}
                  /\ UsedApprovals(r, o) = {}
    BY DEF Init, LiveAuthorities, Versions, AuthoritiesOf, VersionsOf,
           UsedApprovals, ApprovalsOf
  <1> QED
    BY <1>1, <1>2, <1>3, <1>4, FS_EmptySet DEF AuthorityInv, RenewalInv

(* Where authorities are only issued with a root, a recovery or a renewal,  *)
(* exactly as many are alive as the root has had versions: a renewal kills  *)
(* the authority it succeeds in the same transaction.                       *)
THEOREM RenewalsReplace == Spec => []OneAuthorityPerRootVersion
  <1>1. CASE NoDirectAuthority
    <2>1. Init => AuthorityInv
      BY Empty
    <2>2. AuthorityInv /\ [Next]_vars => AuthorityInv'
      BY <1>1, AuthorityStep
    <2>3. AuthorityInv => OneAuthorityPerRootVersion
      BY DEF AuthorityInv, OneAuthorityPerRootVersion, LiveAuthorities
    <2> QED
      BY <2>1, <2>2, <2>3, PTL DEF Spec
  <1>2. CASE ~NoDirectAuthority
    <2>1. OneAuthorityPerRootVersion
      BY <1>2 DEF OneAuthorityPerRootVersion, NoDirectAuthority
    <2> QED
      BY <2>1, PTL
  <1> QED
    BY <1>1, <1>2

-----------------------------------------------------------------------------
(* A renewal for every used approval. *)

LEMMA ApprovalsStep ==
    ASSUME TypeOK, Approvals, NoDirectRenewal, [Next]_vars
    PROVE  Approvals'
  <1>0. NoDirectAuthority
    BY DEF NoDirectRenewal
  <1>1. ASSUME UNCHANGED root_authority_refresh_authorizations, KeepsRenewals
        PROVE  Approvals'
    BY <1>1 DEF Approvals, KeepsRenewals
  <1>2. ASSUME NEW o \in Wallet, NEW g \in Ghost, NEW r \in Root,
               NEW c \in Passport, NEW e \in ValidUntil, Approves(o, g, r, c, e)
        PROVE  Approvals'
    <2>1. PICK new : new = [n |-> RefreshAuthorization(o, g, r, c, e), at |-> now]
      OBVIOUS
    <2>2. /\ \A x \in root_authority_refresh_authorizations : x.n # new.n
          /\ root_authority_refresh_authorizations'
                = root_authority_refresh_authorizations \cup {new}
          /\ KeepsRenewals
      BY <1>2, <2>1 DEF Approves
    <2> QED
      BY <2>2 DEF Approvals, KeepsRenewals
  <1>3. ASSUME NEW rs \in root_status_notes, NEW old \in root_authority_notes,
               NEW g \in Ghost, NEW c \in Passport, NEW e \in ValidUntil,
               NEW N, Renews(rs, old, g, c, e, N)
        PROVE  Approvals'
    <2>1. /\ root_authority_refresh_authorizations'
                = root_authority_refresh_authorizations
          /\ \E x \in root_authority_refresh_authorizations :
                x.n = RefreshAuthorization(rs.owner, g, rs.root, c, e)
      BY <1>3 DEF Renews
    <2>2. ASSUME NEW p, NEW q, NEW r, NEW d, NEW f,
                 Settled(RefreshAuthorization(p, q, r, d, f))'
          PROVE  \/ Settled(RefreshAuthorization(p, q, r, d, f))
                 \/ RefreshAuthorization(p, q, r, d, f)
                       = RefreshAuthorization(rs.owner, g, rs.root, c, e)
      <3>1. \/ Settled(RefreshAuthorization(p, q, r, d, f))
            \/ RefreshAuthorization(p, q, r, d, f) \in N
        BY <1>3, <2>2, SettledByPush DEF Renews
      <3>2. RefreshAuthorization(p, q, r, d, f)
                # AuthorityRevocation(old.secret, old.root, old.claims)
        BY DEF RefreshAuthorization, AuthorityRevocation
      <3> QED
        BY <1>3, <3>1, <3>2 DEF Renews
    <2>3. \A p, q, r, d, f : Settled(RefreshAuthorization(p, q, r, d, f))' =>
              \E x \in root_authority_refresh_authorizations :
                  x.n = RefreshAuthorization(p, q, r, d, f)
      BY <2>1, <2>2 DEF Approvals
    <2> QED
      BY <2>1, <2>3 DEF Approvals
  <1> QED
    BY <1>0, <1>1, <1>2, <1>3, RenewalKinds DEF Untouched, MintsVersion

(* Every approval was given by the orchestrator for some tuple. *)
ApprovalShape ==
    \A x \in root_authority_refresh_authorizations :
        \E o, g, r, c, e : x.n = RefreshAuthorization(o, g, r, c, e)

LEMMA ShapeStep ==
    ASSUME TypeOK, ApprovalShape, NoDirectAuthority, [Next]_vars
    PROVE  ApprovalShape'
  <1>1. ASSUME NEW o \in Wallet, NEW g \in Ghost, NEW r \in Root,
               NEW c \in Passport, NEW e \in ValidUntil, Approves(o, g, r, c, e)
        PROVE  ApprovalShape'
    BY <1>1 DEF Approves, ApprovalShape
  <1>2. CASE UNCHANGED root_authority_refresh_authorizations
    BY <1>2 DEF ApprovalShape
  <1> QED
    BY <1>1, <1>2, RenewalKinds DEF Untouched, MintsVersion, Renews

LEMMA RenewalStep ==
    ASSUME RenewalInv, ApprovalShape, NoDirectRenewal, [Next]_vars
    PROVE  RenewalInv'
  <1>0. NoDirectAuthority
    BY DEF NoDirectRenewal
  <1>1. /\ TypeOK /\ TypeOK' /\ Sampled /\ Sampled' /\ fresh \in Nat
        /\ Approvals /\ Approvals'
    BY <1>0, TypeStep, SampledStep, ApprovalsStep DEF RenewalInv, TypeOK
  <1>2. /\ \A rs \in root_status_notes : rs.secret \in Nat /\ rs.secret < fresh
        /\ \A au \in root_authority_notes : au.secret \in Nat /\ au.secret < fresh
    BY <1>1 DEF TypeOK, Sampled
  <1> SUFFICES ASSUME NEW x \in Root, NEW w \in Wallet
               PROVE  Cardinality(AuthoritiesOf(x, w)')
                        = Cardinality(VersionsOf(x, w)') + Cardinality(UsedApprovals(x, w)')
    BY <1>1 DEF RenewalInv
  <1>3. Cardinality(AuthoritiesOf(x, w))
            = Cardinality(VersionsOf(x, w)) + Cardinality(UsedApprovals(x, w))
    BY DEF RenewalInv
  <1>4. /\ IsFiniteSet(AuthoritiesOf(x, w)) /\ IsFiniteSet(VersionsOf(x, w))
        /\ IsFiniteSet(UsedApprovals(x, w))
    BY <1>1, FinitelyMany
  <1>5. /\ Cardinality(AuthoritiesOf(x, w)) \in Nat
        /\ Cardinality(VersionsOf(x, w)) \in Nat
        /\ Cardinality(UsedApprovals(x, w)) \in Nat
    BY <1>4, FS_CardinalityType
  (* Of the approvals, only their settlement can change. *)
  <1>6. ASSUME KeepsRenewals, UNCHANGED root_authority_refresh_authorizations
        PROVE  UsedApprovals(x, w)' = UsedApprovals(x, w)
    <2>1. \A y \in root_authority_refresh_authorizations : Settled(y.n)' <=> Settled(y.n)
      <3> SUFFICES ASSUME NEW y \in root_authority_refresh_authorizations
                   PROVE  Settled(y.n)' <=> Settled(y.n)
        OBVIOUS
      <3>1. PICK o, g, r, c, e : y.n = RefreshAuthorization(o, g, r, c, e)
        BY DEF ApprovalShape
      <3> QED
        BY <1>6, <3>1 DEF KeepsRenewals
    <2> QED
      BY <1>6, <2>1 DEF UsedApprovals, ApprovalsOf
  <1>7. ASSUME Untouched
        PROVE  Cardinality(AuthoritiesOf(x, w)')
                 = Cardinality(VersionsOf(x, w)') + Cardinality(UsedApprovals(x, w)')
    <2>1. AuthoritiesOf(x, w)' = AuthoritiesOf(x, w) /\ VersionsOf(x, w)' = VersionsOf(x, w)
      BY <1>7 DEF Untouched, AuthoritiesOf, VersionsOf, Versions
    <2> QED
      BY <1>3, <1>6, <1>7, <2>1 DEF Untouched
  <1>8. ASSUME NEW o \in Wallet, NEW r \in Root, MintsVersion(o, r)
        PROVE  Cardinality(AuthoritiesOf(x, w)')
                 = Cardinality(VersionsOf(x, w)') + Cardinality(UsedApprovals(x, w)')
    <2>1. PICK c, e : MintRootAuthorityNote(o, r, c, e, fresh + 1)
      BY <1>8 DEF MintsVersion
    <2>2. PICK rs, au :
              /\ rs = [owner |-> o, root |-> r, secret |-> fresh, at |-> now]
              /\ au = [owner |-> o, root |-> r, claims |-> c, expiry |-> e,
                       secret |-> fresh + 1, at |-> now]
      OBVIOUS
    <2>3. /\ root_status_notes' = root_status_notes \cup {rs}
          /\ root_authority_notes' = root_authority_notes \cup {au}
          /\ UsedApprovals(x, w)' = UsedApprovals(x, w)
      BY <1>6, <1>8, <2>1, <2>2 DEF MintsVersion, MintRootAuthorityNote
    <2>4. rs \notin root_status_notes /\ au \notin root_authority_notes
      BY <1>1, <1>2, <2>2
    <2>5. CASE x = r /\ w = o
      <3>1. /\ AuthoritiesOf(x, w)' = AuthoritiesOf(x, w) \cup {au}
            /\ VersionsOf(x, w)' = VersionsOf(x, w) \cup {rs}
        BY <2>2, <2>3, <2>5 DEF AuthoritiesOf, VersionsOf, Versions
      <3>2. au \notin AuthoritiesOf(x, w) /\ rs \notin VersionsOf(x, w)
        BY <2>4 DEF AuthoritiesOf, VersionsOf, Versions
      <3>3. Cardinality(AuthoritiesOf(x, w)') = Cardinality(AuthoritiesOf(x, w)) + 1
        BY <1>4, <3>1, <3>2, OneMore
      <3>4. Cardinality(VersionsOf(x, w)') = Cardinality(VersionsOf(x, w)) + 1
        BY <1>4, <3>1, <3>2, OneMore
      <3> QED
        BY <1>3, <1>5, <2>3, <3>3, <3>4
    <2>6. CASE ~(x = r /\ w = o)
      <3>1. /\ AuthoritiesOf(x, w)' = AuthoritiesOf(x, w)
            /\ VersionsOf(x, w)' = VersionsOf(x, w)
        BY <2>2, <2>3, <2>6 DEF AuthoritiesOf, VersionsOf, Versions
      <3> QED
        BY <1>3, <2>3, <3>1
    <2> QED
      BY <2>5, <2>6
  <1>9. ASSUME NEW o \in Wallet, NEW g \in Ghost, NEW r \in Root,
               NEW c \in Passport, NEW e \in ValidUntil, Approves(o, g, r, c, e)
        PROVE  Cardinality(AuthoritiesOf(x, w)')
                 = Cardinality(VersionsOf(x, w)') + Cardinality(UsedApprovals(x, w)')
    <2>1. PICK new : new = [n |-> RefreshAuthorization(o, g, r, c, e), at |-> now]
      OBVIOUS
    <2>2. /\ root_authority_refresh_authorizations'
                = root_authority_refresh_authorizations \cup {new}
          /\ \A y \in root_authority_refresh_authorizations : y.n # new.n
          /\ KeepsRenewals
      BY <1>9, <2>1 DEF Approves
    <2>3. ~Settled(new.n)'
      <3>1. ~Settled(RefreshAuthorization(o, g, r, c, e))
        BY <1>1, <2>1, <2>2 DEF Approvals
      <3> QED
        BY <2>1, <2>2, <3>1 DEF KeepsRenewals
    <2>4. \A y \in root_authority_refresh_authorizations : Settled(y.n)' <=> Settled(y.n)
      <3> SUFFICES ASSUME NEW y \in root_authority_refresh_authorizations
                   PROVE  Settled(y.n)' <=> Settled(y.n)
        OBVIOUS
      <3>1. PICK p, q, s, d, f : y.n = RefreshAuthorization(p, q, s, d, f)
        BY DEF ApprovalShape
      <3> QED
        BY <2>2, <3>1 DEF KeepsRenewals
    <2>5. UsedApprovals(x, w)' = UsedApprovals(x, w)
      BY <2>2, <2>3, <2>4 DEF UsedApprovals, ApprovalsOf
    <2>6. AuthoritiesOf(x, w)' = AuthoritiesOf(x, w) /\ VersionsOf(x, w)' = VersionsOf(x, w)
      BY <1>9 DEF Approves, AuthoritiesOf, VersionsOf, Versions
    <2> QED
      BY <1>3, <2>5, <2>6
  <1>10. ASSUME NEW rs \in root_status_notes, NEW old \in root_authority_notes,
                NEW g \in Ghost, NEW c \in Passport, NEW e \in ValidUntil,
                NEW N, Renews(rs, old, g, c, e, N)
         PROVE  Cardinality(AuthoritiesOf(x, w)')
                  = Cardinality(VersionsOf(x, w)') + Cardinality(UsedApprovals(x, w)')
    <2> DEFINE spent == RefreshAuthorization(rs.owner, g, rs.root, c, e)
               killed == AuthorityRevocation(old.secret, old.root, old.claims)
    <2>1. PICK au : au = [owner |-> rs.owner, root |-> rs.root, claims |-> c,
                          expiry |-> e, secret |-> fresh, at |-> now]
      OBVIOUS
    <2>2. /\ root_authority_notes' = root_authority_notes \cup {au}
          /\ au \notin root_authority_notes
      BY <1>1, <1>2, <1>10, <2>1 DEF Renews, MintRootAuthorityNote
    <2>3. /\ VersionsOf(x, w)' = VersionsOf(x, w)
          /\ root_authority_refresh_authorizations'
                = root_authority_refresh_authorizations
      BY <1>10 DEF Renews, VersionsOf, Versions
    <2>4. PICK used \in root_authority_refresh_authorizations : used.n = spent
      BY <1>10 DEF Renews
    <2>5. spent \in N /\ N \subseteq {killed, spent} /\ Push(N)
      BY <1>10 DEF Renews
    <2>6. ~Settled(spent)
      BY <2>5 DEF Push, Unsettled, Settled
    <2>7. used.n[2][1] = rs.owner /\ used.n[2][3] = rs.root
      BY <2>4 DEF RefreshAuthorization
    <2>8. ASSUME NEW y \in root_authority_refresh_authorizations
          PROVE  Settled(y.n)' <=> Settled(y.n) \/ y = used
      <3>1. PICK p, q, s, d, f : y.n = RefreshAuthorization(p, q, s, d, f)
        BY DEF ApprovalShape
      <3>2. y.n # killed
        BY <3>1 DEF RefreshAuthorization, AuthorityRevocation
      <3>3. y.n \in N <=> y.n = spent
        BY <2>5, <3>2
      <3>4. Settled(y.n)' <=> Settled(y.n) \/ y.n \in N
        BY <2>5, SettledByPush
      <3>5. y.n = spent <=> y = used
        BY <1>1, <2>4 DEF Approvals
      <3> QED
        BY <3>3, <3>4, <3>5
    <2> HIDE DEF spent, killed
    <2>9. CASE x = rs.root /\ w = rs.owner
      <3>1. AuthoritiesOf(x, w)' = AuthoritiesOf(x, w) \cup {au}
        BY <2>1, <2>2, <2>9 DEF AuthoritiesOf
      <3>2. au \notin AuthoritiesOf(x, w)
        BY <2>2 DEF AuthoritiesOf
      <3>3. UsedApprovals(x, w)' = UsedApprovals(x, w) \cup {used}
        BY <2>3, <2>7, <2>8, <2>9 DEF UsedApprovals, ApprovalsOf
      <3>4. used \notin UsedApprovals(x, w)
        BY <2>4, <2>6 DEF UsedApprovals
      <3>5. Cardinality(AuthoritiesOf(x, w)') = Cardinality(AuthoritiesOf(x, w)) + 1
        BY <1>4, <3>1, <3>2, OneMore
      <3>6. Cardinality(UsedApprovals(x, w)') = Cardinality(UsedApprovals(x, w)) + 1
        BY <1>4, <3>3, <3>4, OneMore
      <3> QED
        BY <1>3, <1>5, <2>3, <3>5, <3>6
    <2>10. CASE ~(x = rs.root /\ w = rs.owner)
      <3>1. AuthoritiesOf(x, w)' = AuthoritiesOf(x, w)
        BY <2>1, <2>2, <2>10 DEF AuthoritiesOf
      <3>2. UsedApprovals(x, w)' = UsedApprovals(x, w)
        BY <2>3, <2>7, <2>8, <2>10 DEF UsedApprovals, ApprovalsOf
      <3> QED
        BY <1>3, <2>3, <3>1, <3>2
    <2> QED
      BY <2>9, <2>10
  <1> QED
    BY <1>0, <1>1, <1>7, <1>8, <1>9, <1>10, RenewalKinds

LEMMA UsedAreApproved ==
    ASSUME RenewalInv
    PROVE  RenewalsAreApproved
  <1> SUFFICES ASSUME NEW r \in Root, NEW o \in Wallet
               PROVE  Cardinality(AuthoritiesOf(r, o))
                        <= Cardinality(VersionsOf(r, o)) + Cardinality(ApprovalsOf(r, o))
    BY DEF RenewalsAreApproved, AuthoritiesOf, VersionsOf, ApprovalsOf
  <1>1. /\ IsFiniteSet(ApprovalsOf(r, o)) /\ IsFiniteSet(VersionsOf(r, o))
        /\ IsFiniteSet(UsedApprovals(r, o))
    BY FinitelyMany DEF RenewalInv
  <1>2. UsedApprovals(r, o) \in SUBSET ApprovalsOf(r, o)
    BY DEF UsedApprovals
  <1>3. Cardinality(UsedApprovals(r, o)) <= Cardinality(ApprovalsOf(r, o))
    BY <1>1, <1>2, FS_Subset
  <1>4. /\ Cardinality(ApprovalsOf(r, o)) \in Nat /\ Cardinality(VersionsOf(r, o)) \in Nat
        /\ Cardinality(UsedApprovals(r, o)) \in Nat
    BY <1>1, FS_CardinalityType
  <1> QED
    BY <1>3, <1>4 DEF RenewalInv

(* Where renewals need an approval, a wallet never holds more authorities   *)
(* of a root than it was issued or recovered versions of it, plus one per   *)
(* approval the orchestrator gave for that wallet and root.                 *)
THEOREM RenewalApproval == Spec => []RenewalsAreApproved
  <1>1. CASE NoDirectRenewal
    <2>1. Init => RenewalInv /\ ApprovalShape
      BY Empty DEF Init, ApprovalShape
    <2>2. RenewalInv /\ ApprovalShape /\ [Next]_vars => (RenewalInv /\ ApprovalShape)'
      BY <1>1, RenewalStep, ShapeStep DEF RenewalInv, NoDirectRenewal
    <2>3. RenewalInv => RenewalsAreApproved
      BY UsedAreApproved
    <2> QED
      BY <2>1, <2>2, <2>3, PTL DEF Spec
  <1>2. CASE ~NoDirectRenewal
    <2>1. RenewalsAreApproved
      BY <1>2 DEF RenewalsAreApproved, NoDirectRenewal, NoDirectAuthority
    <2> QED
      BY <2>1, PTL
  <1> QED
    BY <1>1, <1>2
=============================================================================
