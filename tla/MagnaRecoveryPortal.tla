------------------------- MODULE MagnaRecoveryPortal -------------------------
(***************************************************************************)
(* Ethereum side of Recovery V3: the zkPassport RootRegistry with its      *)
(* certificate and circuit instances, as MagnaRecoveryPortal deploys       *)
(* against them, the portal, and the canonical Inbox it sends to.  Proofs  *)
(* are built off chain with roots the registries have published; anybody   *)
(* may relay one.  Who may call a registry operation is left to its owner. *)
(***************************************************************************)
EXTENDS Integers, Sequences, FiniteSets, SequencesExt

CONSTANTS
    Registry,           \* CERTIFICATE_REGISTRY_ID, CIRCUIT_REGISTRY_ID
    Root, FirstRoot,    \* registry roots; the one each registry starts with
    Authorization,      \* recovery authorizations: one per nonce and claims
    MaxAge,             \* RECOVERY_PROOF_MAX_AGE
    ValidityWindow,     \* validityWindowSecs the registries are deployed with
    Mode,               \* validation modes the registry's owner may set
    Window,             \* validity windows the registry's owner may set
    Lag,                \* how far behind the chain a root may be dated
    Lead,               \* how far ahead of the chain a proof may be dated
    Governance,         \* revocation, pause, add and remove are exercised
    Start, MaxTime, MaxProofs

ASSUME PortalAssumption ==
    /\ FirstRoot \in Root
    /\ MaxAge \in Nat \ {0} /\ ValidityWindow \in Nat /\ Window \subseteq Nat
    /\ Mode \subseteq {"latest_only", "latest_and_previous",
                       "valid_at_timestamp", "valid_within_window"}
    /\ Lag \in Nat /\ Lead \in Nat /\ Governance \in BOOLEAN
    /\ Start \in Nat \ {0} /\ MaxTime \in Nat /\ MaxProofs \in Nat

VARIABLES
    now,                    \* block.timestamp
    rootRegistryPaused, registries,             \* RootRegistry
    paused, rootByIndex, historicalRoots,       \* RegistryInstance
    rootValidationMode, validityWindowSecs,
    proofs,                 \* wrapper proofs that exist, wherever they are
    accepted, inbox         \* MagnaRecoveryPortal, Aztec Inbox

rootRegistry == <<rootRegistryPaused, registries>>
roots == <<rootByIndex, historicalRoots>>
policy == <<paused, rootValidationMode, validityWindowSecs>>
portal == <<accepted, inbox>>
portalVars == <<now, rootRegistry, roots, policy, proofs, portal>>

latestRoot(x) == Last(rootByIndex[x])
Exists(x, r) == Contains(rootByIndex[x], r)

-----------------------------------------------------------------------------
(* Mutant: a replaced root is held to its last moment, without the window. *)
ValidWithoutWindow(x, r, timestamp) ==
    latestRoot(x) = r \/ timestamp <= historicalRoots[x][r].to

(* RegistryInstance.isRootValid, by validation mode.  A window that reaches *)
(* before time zero underflows and reverts; RootRegistry reads that as      *)
(* "not valid".                                                             *)
ValidByMode(x, r, timestamp) ==
    LET h == historicalRoots[x][r]
        live == latestRoot(x) = r
    IN CASE rootValidationMode[x] = "latest_only" -> live
         [] rootValidationMode[x] = "latest_and_previous" ->
              live \/ /\ Len(rootByIndex[x]) >= 2
                      /\ Last(Front(rootByIndex[x])) = r
         [] rootValidationMode[x] = "valid_at_timestamp" ->
              timestamp >= h.from /\ (h.to = 0 \/ timestamp <= h.to)
         [] rootValidationMode[x] = "valid_within_window" ->
              \/ live
              \/ /\ timestamp >= validityWindowSecs[x]
                 /\ h.from <= timestamp
                 /\ h.to = 0 \/ h.to >= timestamp - validityWindowSecs[x]

isRootValid(x, r, timestamp) ==
    /\ ~rootRegistryPaused
    /\ x \in registries
    /\ ~paused[x]
    /\ Exists(x, r)
    /\ ~historicalRoots[x][r].revoked
    /\ ValidByMode(x, r, timestamp)

-----------------------------------------------------------------------------
(* The registry's publisher and its owners. *)

(* Mutant: the replaced root keeps its open end. *)
UpdateOpenEnded(x, r, timestamp) ==
    /\ ~Exists(x, r)
    /\ rootByIndex' = [rootByIndex EXCEPT ![x] = Append(@, r)]
    /\ historicalRoots' =
           [historicalRoots EXCEPT
              ![x][r] = [from |-> timestamp, to |-> 0, revoked |-> FALSE]]
    /\ UNCHANGED <<now, rootRegistry, policy, proofs, portal>>

updateRoot(x, r, timestamp) ==
    /\ ~paused[x]
    /\ ~Exists(x, r)
    /\ timestamp > historicalRoots[x][latestRoot(x)].from
    /\ rootByIndex' = [rootByIndex EXCEPT ![x] = Append(@, r)]
    /\ historicalRoots' =
           [historicalRoots EXCEPT
              ![x][latestRoot(x)].to = timestamp - 1,
              ![x][r] = [from |-> timestamp, to |-> 0, revoked |-> FALSE]]
    /\ UNCHANGED <<now, rootRegistry, policy, proofs, portal>>

setRevocationStatus(x, r, revoked) ==
    /\ Exists(x, r)
    /\ historicalRoots[x][r].revoked # revoked
    /\ historicalRoots' = [historicalRoots EXCEPT ![x][r].revoked = revoked]
    /\ UNCHANGED <<now, rootRegistry, rootByIndex, policy, proofs, portal>>

setRootValidationMode(x, mode) ==
    /\ rootValidationMode' = [rootValidationMode EXCEPT ![x] = mode]
    /\ UNCHANGED <<now, rootRegistry, roots, paused, validityWindowSecs,
                   proofs, portal>>

setValidityWindow(x, window) ==
    /\ validityWindowSecs' = [validityWindowSecs EXCEPT ![x] = window]
    /\ UNCHANGED <<now, rootRegistry, roots, paused, rootValidationMode,
                   proofs, portal>>

(* pause and unpause of an instance, and of the RootRegistry. *)
SetPaused(x, status) ==
    /\ paused' = [paused EXCEPT ![x] = status]
    /\ UNCHANGED <<now, rootRegistry, roots, rootValidationMode,
                   validityWindowSecs, proofs, portal>>

SetRootRegistryPaused(status) ==
    /\ rootRegistryPaused' = status
    /\ UNCHANGED <<now, registries, roots, policy, proofs, portal>>

addRegistry(x) ==
    /\ x \notin registries
    /\ registries' = registries \cup {x}
    /\ UNCHANGED <<now, rootRegistryPaused, roots, policy, proofs, portal>>

removeRegistry(x) ==
    /\ x \in registries
    /\ registries' = registries \ {x}
    /\ UNCHANGED <<now, rootRegistryPaused, roots, policy, proofs, portal>>

-----------------------------------------------------------------------------
(* A wrapper proof binds an authorization to its date and to one root of   *)
(* each registry.  The phone's clock may be ahead of the chain.            *)
NewProof(a, date, used) ==
    [authorization |-> a, date |-> date, roots |-> used,
     fresh |-> date = now /\ \A x \in Registry : used[x] = latestRoot(x)]

Prove(a, date, used) ==
    /\ Cardinality(proofs) < MaxProofs
    /\ \A x \in Registry : Exists(x, used[x])
    /\ proofs' = proofs \cup {NewProof(a, date, used)}
    /\ UNCHANGED <<now, rootRegistry, roots, policy, portal>>

Acceptable(p) ==
    /\ p.authorization \notin accepted
    /\ now >= p.date
    /\ now - p.date < MaxAge
    /\ \A x \in Registry : isRootValid(x, p.roots[x], p.date)

(* An Inbox that reverts takes the whole call back: no step. *)
authorizeRecovery(p) ==
    /\ Acceptable(p)
    /\ accepted' = accepted \cup {p.authorization}
    /\ inbox' = Append(inbox, p.authorization)
    /\ UNCHANGED <<now, rootRegistry, roots, policy, proofs>>

Tick ==
    /\ now < MaxTime
    /\ now' = now + 1
    /\ UNCHANGED <<rootRegistry, roots, policy, proofs, portal>>

-----------------------------------------------------------------------------
PortalInit ==
    /\ now = Start
    /\ rootRegistryPaused = FALSE /\ registries = Registry
    /\ paused = [x \in Registry |-> FALSE]
    /\ rootByIndex = [x \in Registry |-> <<FirstRoot>>]
    /\ historicalRoots =
           [x \in Registry |-> [r \in Root |->
               [from |-> IF r = FirstRoot THEN Start ELSE 0,
                to |-> 0, revoked |-> FALSE]]]
    /\ rootValidationMode = [x \in Registry |-> "valid_within_window"]
    /\ validityWindowSecs = [x \in Registry |-> ValidityWindow]
    /\ proofs = {} /\ accepted = {} /\ inbox = <<>>

PublishRoot ==
    \E x \in Registry, r \in Root, timestamp \in (now - Lag) .. now :
        updateRoot(x, r, timestamp)
RevokeRoot ==
    Governance /\ \E x \in Registry, r \in Root, b \in BOOLEAN : setRevocationStatus(x, r, b)
SetPolicy ==
    \/ \E x \in Registry, m \in Mode : setRootValidationMode(x, m)
    \/ \E x \in Registry, w \in Window : setValidityWindow(x, w)
Govern ==
    /\ Governance
    /\ \/ \E b \in BOOLEAN : SetRootRegistryPaused(b)
       \/ \E x \in Registry, b \in BOOLEAN : SetPaused(x, b)
       \/ \E x \in Registry : addRegistry(x) \/ removeRegistry(x)
MakeProof ==
    \E a \in Authorization, date \in now .. now + Lead,
       used \in [Registry -> Root] : Prove(a, date, used)

PortalNext ==
    \/ PublishRoot \/ RevokeRoot \/ SetPolicy \/ Govern
    \/ MakeProof
    \/ \E p \in proofs : authorizeRecovery(p)
    \/ Tick

PortalSpec == PortalInit /\ [][PortalNext]_portalVars
=============================================================================
