---------------------------- MODULE MagnaCredentials ----------------------------
(***************************************************************************)
(* Credentials as the management page obtains and keeps them: a request to *)
(* the phone or an e-mail, a proof, a POST to the verification API, which  *)
(* answers when its transaction is in a block, the private witness in      *)
(* localStorage, and a new look at the notes.  A completion carries the    *)
(* session it began with and runs on after a disconnect, a change of       *)
(* wallet and beside a later request.  The page may reload, the API may    *)
(* restart, an answer may be lost, a transaction may be dropped.           *)
(* All passports are of one person, so they share one root.  An attempt    *)
(* draws fresh blinds: its claims hash is named by the attempt itself.     *)
(***************************************************************************)
EXTENDS Naturals

CONSTANTS
    Wallet, NoWallet,
    Attempt, NoAttempt,     \* requests for a credential
    KindOf,                 \* "passport", "renewal" or "instagram"
    MaxOpen                 \* times the page opens a wallet

ASSUME CredentialsAssumption ==
    /\ NoWallet \notin Wallet /\ NoAttempt \notin Attempt
    /\ KindOf \in [Attempt -> {"passport", "renewal", "instagram"}]
    /\ MaxOpen \in Nat

VARIABLES
    mode,       \* zkPassportPrimaryIssuanceMode of the deployment
    session,    \* the wallet the page has open
    opened,     \* times it has opened one
    request,    \* zkRequest: the request whose QR code is shown
    busy,       \* busyRef
    shown,      \* credentials of the React state
    stage,      \* per attempt, where its completion is
    owner,      \* per attempt, the session it captured
    prior,      \* per renewal, the credential whose notes it captured
    api,        \* per attempt, the handler of the verification API
    pool,       \* transactions not settled
    minted,     \* credential notes
    killed,     \* those whose kill switch has settled
    root,       \* the passport root: "none", "live" or "revoked"
    approved,   \* renewals authorized by the orchestrator
    witness,    \* localStorage: witness sidecars
    refs        \* localStorage: credential references

page == <<session, opened, request, busy, shown>>
attempts == <<stage, owner, prior>>
chain == <<pool, minted, killed, root, approved>>
stored == <<witness, refs>>
vars == <<mode, page, attempts, api, chain, stored>>

Waiting == {"asked", "proved", "building", "posted", "approved", "sent", "refreshing"}

MintMode(a) == IF KindOf[a] = "renewal" THEN "rooted"
               ELSE IF KindOf[a] = "passport" THEN mode ELSE "passport"
Ref(a, m) == [claims |-> a, mode |-> m]
Instagram(r) == KindOf[r.claims] = "instagram"
RootIssued == root # "none"
Tx(kind, r) == [kind |-> kind, ref |-> r]

(* selectRootStatusHint: of the root's notes, one whose switch is unsettled. *)
LiveRootHint == root = "live"

(* A rooted passport dies with its authority note, which its renewal kills. *)
Live(r) == r \in minted \ killed /\ (r.mode = "rooted" => LiveRootHint)

(* PXE returns the notes of the wallets it has an account of; those of     *)
(* another owner are passed over.  Dead notes are still notes.              *)
ActiveNotes(w) == {r \in minted : owner[r.claims] = w}
Discovered(w) == {Ref(n.claims, n.mode) : n \in ActiveNotes(w)}

(* The notes a proof needs, by claims hash: one look finds them or is       *)
(* pending, and is repeated.                                                *)
HintsOnce(r, w) == {n \in ActiveNotes(w) : n = r}
Hinted(r, w) == HintsOnce(r, w) # {}

(* Mutant: Instagram's key carries the mode, as the passport's does. *)
KeyWithMode(r, w) == [claims |-> r.claims, owner |-> w, mode |-> r.mode]

(* The key of a sidecar: linking leaves that of Instagram as it is. *)
WitnessKey(r, w) == [claims |-> r.claims, owner |-> w,
                     mode |-> IF Instagram(r) THEN "" ELSE r.mode]
Witnessed(r, w) == WitnessKey(r, w) \in witness

-----------------------------------------------------------------------------
Linked(r) == Ref(r.claims, "rooted")

(* storedRefFromDiscovered: each note with the sidecar stored under its key. *)
ChainCredentials(w) == {[ref |-> r, witnessed |-> Witnessed(r, w)] : r \in Discovered(w)}

(* loadPassportCredential and loadInstagramCredential.  Dead rooted and     *)
(* Instagram instances are passed over; a passport without a root is        *)
(* returned as it is.                                                       *)
Selectable(w, instagram) ==
    LET offered == {c \in ChainCredentials(w) : Instagram(c.ref) = instagram} IN
    {c.ref : c \in {o \in offered :
        /\ o.ref.mode = "passport" => \A x \in offered : x.ref # Linked(o.ref)
        /\ o.witnessed
        /\ instagram \/ o.ref.mode = "rooted" => Hinted(o.ref, w) /\ Live(o.ref)}}

-----------------------------------------------------------------------------
(* The page's wallet. *)
OtherRefs(w) == {r \in refs : owner[r.claims] # w}

(* refreshCredentialRefsFromPxe: the notes of an open wallet, or [] if PXE  *)
(* cannot list them.                                                        *)
RefreshRefs(w, open) ==
    \/ open /\ shown' = Discovered(w) /\ refs' = OtherRefs(w)
    \/ shown' = {} /\ UNCHANGED refs

OpenWallet(w) ==
    /\ busy = "free" /\ session # w /\ opened < MaxOpen
    /\ session' = w /\ opened' = opened + 1
    /\ RefreshRefs(w, TRUE)
    /\ UNCHANGED <<mode, request, busy, attempts, api, chain, witness>>

(* The request shown is forgotten, not cancelled. *)
Disconnect ==
    /\ busy = "free" /\ session # NoWallet
    /\ session' = NoWallet /\ request' = NoAttempt
    /\ UNCHANGED <<mode, opened, busy, shown, attempts, api, chain, stored>>

Reload ==
    /\ session' = NoWallet /\ request' = NoAttempt /\ busy' = "free" /\ shown' = {}
    /\ stage' = [a \in Attempt |-> IF stage[a] \in Waiting THEN "lost" ELSE stage[a]]
    /\ <<stage, session, shown>> # <<stage', NoWallet, {}>>
    /\ UNCHANGED <<mode, opened, owner, prior, api, chain, stored>>

-----------------------------------------------------------------------------
(* A request for a credential, up to the POST. *)
Idle == busy = "free" /\ session # NoWallet
Begin(a, s) ==
    /\ stage[a] = "idle"
    /\ stage' = [stage EXCEPT ![a] = s]
    /\ owner' = [owner EXCEPT ![a] = session]

StartZkPassportIssuance(a) ==
    /\ KindOf[a] = "passport" /\ Idle /\ request = NoAttempt
    /\ Begin(a, "asked")
    /\ request' = a
    /\ UNCHANGED <<mode, session, opened, busy, shown, prior, api, chain, stored>>

(* Needs the witness and the hints of a rooted passport on the page. *)
StartRootedRenewal(a) ==
    /\ KindOf[a] = "renewal" /\ Idle /\ request = NoAttempt
    /\ \E r \in shown :
          /\ ~Instagram(r) /\ r.mode = "rooted" /\ owner[r.claims] = session
          /\ Hinted(r, session) /\ Live(r) /\ Witnessed(r, session)
          /\ prior' = [prior EXCEPT ![a] = r.claims]
    /\ Begin(a, "asked")
    /\ request' = a
    /\ UNCHANGED <<mode, session, opened, busy, shown, api, chain, stored>>

(* The whole flow runs inside runAction. *)
IssueInstagramCredential(a) ==
    /\ KindOf[a] = "instagram" /\ Idle
    /\ Begin(a, "building")
    /\ busy' = "instagram"
    /\ UNCHANGED <<mode, session, opened, request, shown, prior, api, chain, stored>>

(* finally: whichever request is shown is taken off the page. *)
Finish(a, s) ==
    /\ stage' = [stage EXCEPT ![a] = s]
    /\ IF KindOf[a] = "instagram" THEN busy' = "free" /\ UNCHANGED request
                                  ELSE request' = NoAttempt /\ UNCHANGED busy
    /\ UNCHANGED <<session, opened, owner, prior>>

(* The phone rejects, the SDK reports an error, or the wrapper proof fails. *)
RequestEnds(a) ==
    /\ stage[a] \in {"asked", "proved"}
    /\ Finish(a, "failed")
    /\ UNCHANGED <<mode, shown, api, chain, stored>>

PhoneProves(a) ==
    /\ stage[a] = "asked"
    /\ stage' = [stage EXCEPT ![a] = "proved"]
    /\ UNCHANGED <<mode, page, owner, prior, api, chain, stored>>

(* Mutant: the timer is dropped with the request. *)
TimeoutWhileShown(a) ==
    /\ KindOf[a] = "passport" /\ stage[a] = "proved" /\ request = a
    /\ Finish(a, "failed")
    /\ UNCHANGED <<mode, shown, api, chain, stored>>

(* All proofs are there and the result is not: an issuance has a timer, a   *)
(* renewal has none.  What completes afterwards is ignored.                 *)
FinalResultTimeout(a) ==
    /\ KindOf[a] = "passport" /\ stage[a] = "proved"
    /\ Finish(a, "failed")
    /\ UNCHANGED <<mode, shown, api, chain, stored>>

(* The result arrives and is proved locally, then posted. *)
Submit(a) ==
    /\ stage[a] = IF KindOf[a] = "instagram" THEN "building" ELSE "proved"
    /\ stage' = [stage EXCEPT ![a] = "posted"]
    /\ api' = [api EXCEPT ![a] = "checking"]
    /\ UNCHANGED <<mode, page, owner, prior, chain, stored>>

ProvingFails(a) ==
    /\ stage[a] = "building"
    /\ Finish(a, "failed")
    /\ UNCHANGED <<mode, shown, api, chain, stored>>

-----------------------------------------------------------------------------
(* The verification API: verify, simulate and broadcast, wait, answer. *)
IssueTx(a) == Tx(IF KindOf[a] = "renewal" THEN "authorize" ELSE "register",
                 Ref(a, MintMode(a)))
Refused(a) == KindOf[a] = "passport" /\ mode = "rooted" /\ RootIssued
Settled(a) == IF KindOf[a] = "renewal" THEN a \in approved
              ELSE Ref(a, MintMode(a)) \in minted
Handle(a, s) ==
    /\ api' = [api EXCEPT ![a] = s]
    /\ UNCHANGED <<mode, page, attempts, minted, killed, root, approved, stored>>

SendIssuance(a) ==
    /\ api[a] = "checking"
    /\ IF Refused(a) THEN Handle(a, "refused") /\ UNCHANGED pool
       ELSE Handle(a, "sent") /\ pool' = pool \cup {IssueTx(a)}

AwaitIssuance(a) ==
    /\ api[a] = "sent" /\ (Settled(a) \/ IssueTx(a) \notin pool)
    /\ Handle(a, IF Settled(a) THEN "done" ELSE "failed")
    /\ UNCHANGED pool

(* A check fails, an await throws, or the process restarts. *)
ApiFails(a) ==
    /\ api[a] \in {"checking", "sent"}
    /\ Handle(a, "failed")
    /\ UNCHANGED pool

-----------------------------------------------------------------------------
(* Mutant: the witness goes to the wallet that is open. *)
KeepForSession(a) ==
    witness' = witness \cup {WitnessKey(Ref(a, MintMode(a)), session)}

(* Mutant: a completion that finds another session keeps nothing. *)
KeepIfStillOpen(a) ==
    witness' = witness \cup (IF session = owner[a]
                             THEN {WitnessKey(Ref(a, MintMode(a)), owner[a])} ELSE {})

Keep(a) == witness' = witness \cup {WitnessKey(Ref(a, MintMode(a)), owner[a])}

(* The answer of the API reaches the page; the witness is kept at once. *)
HearAnswer(a) ==
    /\ stage[a] = "posted" /\ api[a] = "done"
    /\ IF KindOf[a] = "renewal"
       THEN stage' = [stage EXCEPT ![a] = "approved"] /\ UNCHANGED witness
       ELSE stage' = [stage EXCEPT ![a] = "refreshing"] /\ Keep(a)
    /\ UNCHANGED <<mode, page, owner, prior, api, chain, refs>>

HearError(a) ==
    /\ stage[a] = "posted" /\ api[a] \in {"failed", "refused"}
    /\ Finish(a, IF api[a] = "refused" THEN "refused"
                 ELSE IF IssueTx(a) \in pool \/ Settled(a) THEN "lost" ELSE "failed")
    /\ UNCHANGED <<mode, shown, api, chain, stored>>

(* The connection breaks; nothing bounds the wait otherwise. *)
AnswerLost(a) ==
    /\ stage[a] = "posted"
    /\ Finish(a, "lost")
    /\ UNCHANGED <<mode, shown, api, chain, stored>>

(* refreshCredentialRefsFromPxe with the session the attempt began with:    *)
(* that of a wallet closed since finds nothing.                             *)
RefreshAfterIssuance(a) ==
    /\ stage[a] = "refreshing"
    /\ RefreshRefs(owner[a], session = owner[a])
    /\ Finish(a, "done")
    /\ UNCHANGED <<mode, api, chain, witness>>

(* refreshRootAuthorityAuthorized, sent by the wallet itself. *)
RefreshRootAuthority(a) ==
    /\ stage[a] = "approved" /\ session = owner[a]
    /\ LiveRootHint /\ Ref(prior[a], "rooted") \notin killed
    /\ pool' = pool \cup {Tx("renew", Ref(a, "rooted"))}
    /\ stage' = [stage EXCEPT ![a] = "sent"]
    /\ UNCHANGED <<mode, page, owner, prior, api, minted, killed, root,
                   approved, stored>>

(* upsertCredentialRef: all stored references are shown afterwards. *)
RenewalSettles(a) ==
    /\ stage[a] = "sent" /\ Ref(a, "rooted") \in minted
    /\ Keep(a)
    /\ refs' = refs \cup {Ref(a, "rooted")}
    /\ shown' = refs'
    /\ Finish(a, "done")
    /\ UNCHANGED <<mode, api, chain>>

RenewalFails(a) ==
    /\ stage[a] \in {"approved", "sent"}
    /\ Finish(a, IF stage[a] = "approved" THEN "failed" ELSE "lost")
    /\ UNCHANGED <<mode, shown, api, chain, stored>>

-----------------------------------------------------------------------------
(* linkExistingCredential and revokeExistingCredential. *)
Mine(r) == r \in shown /\ owner[r.claims] = session /\ session # NoWallet

(* A link needs a live rooted passport among the credentials of the page.   *)
LivePassportRoots == {r \in shown : Mine(r) /\ ~Instagram(r) /\ r.mode = "rooted" /\ LiveRootHint}

(* fetchLinkedInstagramHints: the linked pair with the status note of the   *)
(* root version it derives from; here a root has one version.               *)
LinkedHints(r) == Hinted(Linked(r), session) /\ RootIssued

BeginHolderTx(t) ==
    /\ Idle /\ Mine(t.ref)
    /\ \/ /\ t.kind = "link" /\ Instagram(t.ref) /\ t.ref.mode = "passport"
          /\ LivePassportRoots # {} /\ Linked(t.ref) \notin Discovered(session)
          /\ Hinted(t.ref, session)
       \/ t.kind = "revoke" /\ Instagram(t.ref)
       \/ t.kind = "revokeRoot" /\ ~Instagram(t.ref) /\ t.ref.mode = "rooted" /\ root = "live"
    /\ busy' = "transaction"
    /\ pool' = pool \cup {t}
    /\ UNCHANGED <<mode, session, opened, request, shown, attempts, api, minted, killed,
                   root, approved, stored>>

(* The second link of a reference finds the first one's notes, sends no    *)
(* transaction and shows the linked instance.                              *)
ShowLinked(r) ==
    /\ Mine(r) /\ Instagram(r) /\ r.mode = "passport"
    /\ LinkedHints(r) /\ Live(Linked(r))
    /\ shown' = (shown \ {r}) \cup {Linked(r)}
    /\ refs' = (refs \ {r}) \cup {Linked(r)}
    /\ UNCHANGED <<mode, session, opened, request, attempts, api, chain, witness>>

LinkAgain(r) == Idle /\ LivePassportRoots # {} /\ ShowLinked(r) /\ UNCHANGED busy
LinkSettles(r) == busy = "transaction" /\ ShowLinked(r) /\ busy' = "free"

EndHolderTx ==
    /\ busy = "transaction" /\ busy' = "free"
    /\ UNCHANGED <<mode, session, opened, request, shown, attempts, api, chain, stored>>

-----------------------------------------------------------------------------
(* The issuer contract: what each transaction needs and does. *)
Valid(t) == CASE t.kind = "register" -> ~Instagram(t.ref) /\ mode = "rooted" => ~RootIssued
              [] t.kind = "authorize" -> TRUE
              [] t.kind = "renew" -> /\ t.ref.claims \in approved /\ root = "live"
                                     /\ Ref(prior[t.ref.claims], "rooted") \notin killed
              [] t.kind = "link" -> t.ref \notin killed /\ root = "live"
              [] t.kind = "revoke" -> t.ref \notin killed
              [] t.kind = "revokeRoot" -> root = "live"

NewNotes(t) == CASE t.kind \in {"register", "renew"} -> {t.ref}
                 [] t.kind = "link" -> {Linked(t.ref)}
                 [] OTHER -> {}
NewKills(t) == CASE t.kind = "renew" -> {Ref(prior[t.ref.claims], "rooted")}
                 [] t.kind \in {"link", "revoke"} -> {t.ref}
                 [] OTHER -> {}

Include(t) ==
    /\ t \in pool /\ Valid(t)
    /\ pool' = pool \ {t}
    /\ minted' = minted \cup NewNotes(t)
    /\ killed' = killed \cup NewKills(t)
    /\ approved' = IF t.kind = "authorize" THEN approved \cup {t.ref.claims}
                   ELSE IF t.kind = "renew" THEN approved \ {t.ref.claims} ELSE approved
    /\ root' = IF t.kind = "revokeRoot" THEN "revoked"
               ELSE IF t.kind = "register" /\ ~Instagram(t.ref) /\ mode = "rooted"
               THEN "live" ELSE root
    /\ UNCHANGED <<mode, page, attempts, api, stored>>

Drop(t) ==
    /\ t \in pool
    /\ pool' = pool \ {t}
    /\ UNCHANGED <<mode, page, attempts, api, minted, killed, root, approved, stored>>

-----------------------------------------------------------------------------
Init ==
    /\ mode \in {"rooted", "passport"}
    /\ session = NoWallet /\ opened = 0 /\ request = NoAttempt /\ busy = "free" /\ shown = {}
    /\ stage = [a \in Attempt |-> "idle"]
    /\ owner = [a \in Attempt |-> NoWallet]
    /\ prior = [a \in Attempt |-> NoAttempt]
    /\ api = [a \in Attempt |-> "idle"]
    /\ pool = {} /\ minted = {} /\ killed = {} /\ root = "none" /\ approved = {}
    /\ witness = {} /\ refs = {}

Start(a) == StartZkPassportIssuance(a) \/ StartRootedRenewal(a)
    \/ IssueInstagramCredential(a)
Phone(a) == RequestEnds(a) \/ PhoneProves(a)
Api(a) == SendIssuance(a) \/ AwaitIssuance(a) \/ ApiFails(a)
Answer(a) == HearAnswer(a) \/ HearError(a) \/ AnswerLost(a)
Proceed(a) == RefreshAfterIssuance(a) \/ RefreshRootAuthority(a)
    \/ RenewalSettles(a) \/ RenewalFails(a)

Next ==
    \/ \E w \in Wallet : OpenWallet(w)
    \/ Disconnect \/ Reload \/ EndHolderTx
    \/ \E a \in Attempt : Start(a) \/ Phone(a) \/ FinalResultTimeout(a)
          \/ Submit(a) \/ ProvingFails(a)
          \/ Api(a) \/ Answer(a) \/ Proceed(a)
    \/ \E r \in shown : LinkAgain(r) \/ LinkSettles(r)
          \/ \E kind \in {"link", "revoke", "revokeRoot"} : BeginHolderTx(Tx(kind, r))
    \/ \E t \in pool : Include(t) \/ Drop(t)

(* The timer, the prover, the server and the network end what they began,   *)
(* one way or the other.  Nothing is promised of the phone or the person.   *)
Progress(a) == FinalResultTimeout(a) \/ ProvingFails(a) \/ Api(a) \/ HearAnswer(a)
    \/ HearError(a) \/ Proceed(a)
Fairness == \A a \in Attempt : WF_vars(Progress(a))

Spec == Init /\ [][Next]_vars /\ Fairness
=============================================================================
