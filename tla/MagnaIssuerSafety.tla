------------------------- MODULE MagnaIssuerSafety -------------------------
(* What the issuer's notes and nullifiers promise, whatever the order in    *)
(* which holders, ghosts, the orchestrator and the block builder act.       *)
EXTENDS MagnaIssuer

Settled(n) == \E e \in nullifiers : e.n = n

(* Settled so long ago that no transaction proven before it can still land. *)
Effective(n) == \E e \in nullifiers : e.n = n /\ e.at + RevocationAnchor <= now

AcceptsStandalone(cr, st, a) ==
    CanVerify(cr, st, a) \/ CanVerifyV2(cr, st, a) \/ CanVerifyInstagram(cr, st, a)
AcceptsLinkedPassport(rs, au, lc, ls, a) ==
    CanVerifyLinked(rs, au, lc, ls, a) \/ CanVerifyLinkedV2(rs, au, lc, ls, a)

RootRevoked(rs) == \/ Effective(RootRevocation(rs.secret, rs.root))
                   \/ Effective(OwnerRootRevocation(rs.secret, rs.root))

(* The deployed orchestrator registers roots through the V2 entrypoint      *)
(* only (apps/magna-verification-api/src/service.ts, rooted mode).          *)
RootedOnce == OrchestratorCalls \cap {"register_root", "register_rooted_passport"} = {}

(* A version of the root that was current at time t was recovered since,    *)
(* and a proof anchored at a sees it.                                       *)
LineageRetired(r, t, a) ==
    \E e \in nullifiers : /\ e.n[1] = "root" /\ e.n[3] = r
                           /\ t < e.at /\ e.at <= a

Versions(r) == {rs \in root_status_notes : rs.root = r}
RecoveryNotes(r) == {rr \in root_recovery_notes : rr.root = r}
Spendable(rr) == \A n \in RecoveryNullifiers(rr) : ~Settled(n)

-----------------------------------------------------------------------------
(* The shapes of the nine note sets, the nullifier tree and the counters.   *)
TypeOK ==
    /\ now \in 1 .. (MaxTime + 1) /\ fresh \in 1 .. (MaxSecret + 1)
    /\ credential_notes \subseteq [owner : Wallet, nonce : Nat, claims : Claims,
                                   expiry : Nat, at : Nat]
    /\ status_notes \subseteq [owner : Wallet, secret : Nat, claims : Claims,
                               at : Nat]
    /\ recovery_notes \subseteq [owner : Ghost, secret : Nat, claims : Claims,
                                 expiry : Nat, at : Nat]
    /\ root_status_notes \subseteq [owner : Wallet, root : Root, secret : Nat,
                                    at : Nat]
    /\ root_recovery_notes \subseteq [owner : Ghost, root : Root, secret : Nat,
                                      at : Nat]
    /\ root_authority_notes \subseteq [owner : Wallet, root : Root,
           claims : Claims, expiry : Nat, secret : Nat, at : Nat]
    /\ linked_credential_notes \subseteq [owner : Wallet, root : Root,
           claims : Claims, expiry : Nat, at : Nat]
    /\ linked_status_notes \subseteq [owner : Wallet, root : Root,
           claims : Claims, secret : Secret, at : Nat]
    /\ linked_recovery_notes \subseteq [owner : Ghost, root : Root,
           claims : Claims, expiry : Nat, secret : Nat, at : Nat]
    /\ \A e \in nullifiers : e.at \in Nat
    /\ \A x \in root_authority_refresh_authorizations : x.at \in Nat
    /\ inbox \subseteq [destination : Wallet, root : Root, claims : Passport,
                        expiry : Nat, leaf : Nat, at : Nat]
    /\ IsFiniteSet(inbox)
    /\ verify_meter_count \in 0 .. MaxVerifies

(* Every kill switch a private call checks at its anchor has stopped that   *)
(* call RevocationAnchor seconds after it settled: no verify, link or       *)
(* renewal that still lands was proven against older revocation state.      *)
BoundedRevocationLag ==
    /\ \A cr \in credential_notes, st \in status_notes :
          Effective(Revocation(Random(st.secret), st.claims))
              => \A a \in Anchor : ~AcceptsStandalone(cr, st, a)
    /\ \A rs \in root_status_notes, lc \in linked_credential_notes,
          ls \in linked_status_notes :
          /\ RootRevoked(rs) \/ Effective(Revocation(ls.secret, ls.claims))
                => \A a \in Anchor : ~CanVerifyLinkedInstagram(rs, lc, ls, a)
          /\ \A au \in root_authority_notes :
                \/ RootRevoked(rs)
                \/ Effective(Revocation(ls.secret, ls.claims))
                \/ Effective(AuthorityRevocation(au.secret, au.root, au.claims))
                => \A a \in Anchor : ~AcceptsLinkedPassport(rs, au, lc, ls, a)
    /\ \A rs \in root_status_notes : RootRevoked(rs) =>
          \A cr \in credential_notes, st \in status_notes, a \in Anchor :
              ~CanLink(cr, st, rs, a)
    /\ \A rs \in root_status_notes, au \in root_authority_notes :
          \/ RootRevoked(rs)
          \/ Effective(AuthorityRevocation(au.secret, au.root, au.claims))
          => \A e \in ValidUntil, a \in Anchor : ~CanRefresh(rs, au, e, a)

(* Linking is irreversible: once a linking has taken effect no standalone   *)
(* note of that wallet and claims hash verifies any more, including copies  *)
(* of the notes kept in a stale wallet cache.                               *)
LinkingRetiresStandalone ==
    \A cr \in credential_notes, st \in status_notes, a \in Anchor :
        CanVerifyInstagram(cr, st, a) => ~Effective(LinkedIssuance(cr.owner, cr.claims))

(* A linked Instagram belongs to one root version: no proof anchored after  *)
(* a recovery of the root verifies it again, not even when the root returns *)
(* to the very wallet that still holds the linked notes.                    *)
LinkedInstagramDiesWithItsRootVersion ==
    RootedOnce =>
    \A rs \in root_status_notes, lc \in linked_credential_notes,
       ls \in linked_status_notes, a \in Anchor :
        CanVerifyLinkedInstagram(rs, lc, ls, a) => ~LineageRetired(ls.root, ls.at, a)

(* A root that was ever issued can still be recovered by its ghost: the     *)
(* holder's own revocation, renewals and earlier recoveries never use up    *)
(* the last recovery note nor settle the kill switch a recovery must push.  *)
RootAlwaysRecoverable ==
    \A rs \in root_status_notes : \E rr \in root_recovery_notes :
        rr.root = rs.root /\ Spendable(rr)

(* One lineage per root: two issuance transactions proven from the same     *)
(* anchor cannot both land, and two recoveries of one version cannot both   *)
(* land, so exactly one version is live and the ghost holds its note.       *)
OneLiveRootVersion ==
    RootedOnce =>
    \A r \in Root : Versions(r) # {} =>
        \E rs \in Versions(r) :
            /\ {rr \in RecoveryNotes(r) : Spendable(rr)}
                  = {rr \in RecoveryNotes(r) : rr.secret = rs.secret}
            /\ {v \in Versions(r) : ~Settled(RootRevocation(v.secret, r))} = {rs}

(* Renewal replaces, never adds: as many passport authorities are alive as  *)
(* the root has had versions, each renewal killing the one it succeeds.     *)
OneAuthorityPerRootVersion ==
    RootedOnce /\ "register_root_authority" \notin OrchestratorCalls =>
    \A r \in Root :
        Cardinality({au \in root_authority_notes : au.root = r
              /\ ~Settled(AuthorityRevocation(au.secret, r, au.claims))})
            = Cardinality(Versions(r))

(* One public authorization buys one renewal, for the owner it names.       *)
RenewalsAreApproved ==
    RootedOnce /\ OrchestratorCalls \cap {"register_root_authority",
                                          "refresh_root_authority"} = {} =>
    \A r \in Root, o \in Wallet :
        Cardinality({au \in root_authority_notes : au.root = r /\ au.owner = o})
            <= Cardinality({rs \in Versions(r) : rs.owner = o})
               + Cardinality({x \in root_authority_refresh_authorizations :
                                x.n[2][1] = o /\ x.n[2][3] = r})

(* "Old root lineage becomes unusable" (docs/passport-recovery-v3-spec.md): *)
(* a passport note minted under an earlier root version does not verify     *)
(* once the recovery that retired that version has taken effect.            *)
OldPassportLineageUnusable ==
    RootedOnce =>
    \A rs \in root_status_notes, au \in root_authority_notes,
       lc \in linked_credential_notes, ls \in linked_status_notes,
       a \in Anchor :
        AcceptsLinkedPassport(rs, au, lc, ls, a) => ~LineageRetired(ls.root, ls.at, a)

-----------------------------------------------------------------------------
(* The root lineage that the notes of a rooted deployment represent. *)
LiveVersion(r) ==
    CHOOSE v \in Versions(r) : ~Settled(RootRevocation(v.secret, r))
Unconsumed(r, d) == {m \in inbox : /\ m.root = r /\ m.destination = d
                                   /\ ~Settled(MessageNullifier(m))}

HolderOf(r) == IF Versions(r) = {} THEN NoClaims ELSE LiveVersion(r).owner
IsWithdrawn(r) ==
    Versions(r) # {} /\ Settled(OwnerRootRevocation(LiveVersion(r).secret, r))

Lineage == INSTANCE MagnaRootLineage WITH
    Nobody <- NoClaims,
    version <- [r \in Root |-> Cardinality(Versions(r))],
    holder <- [r \in Root |-> HolderOf(r)],
    withdrawn <- [r \in Root |-> IsWithdrawn(r)],
    approved <- [p \in Root \X Wallet |-> Cardinality(Unconsumed(p[1], p[2]))]

(* Issuance, holder revocation and Recovery V3 implement the root lineage:  *)
(* no interleaving of transactions proven at old anchors moves a root       *)
(* without an unused approval for exactly the wallet that receives it.      *)
ImplementsRootLineage == Lineage!Spec
=============================================================================
