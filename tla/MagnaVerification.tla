---------------------------- MODULE MagnaVerification ----------------------------
(***************************************************************************)
(* The verification API and those who call it.  A page asks a phone for a  *)
(* passport proof (or proves an e-mail), wraps it in a proof that binds    *)
(* the operation, and posts it; the API checks it against its own clock,   *)
(* its own configuration and the L1 registry, and mints through the        *)
(* orchestrator's account.  Page and API read the deployment files at      *)
(* different times; the API restarts; the network may deliver a request    *)
(* again whose connection died with the process.  The same server keeps    *)
(* the one-time codes of redirect logins.                                  *)
(***************************************************************************)
EXTENDS Naturals, FiniteSets, FiniteSetsExt

CONSTANTS
    Request, KindOf,        \* "issue", "renew" or "instagram"
    Owner,                  \* wallets of one person, who has one passport
    Config,                 \* what .env files may hold: [issuer, profile, scope, keys]
    RegistryRoot, Key,      \* roots of the zkPassport registry; DKIM keys
    Login, NoLogin, Code,   \* redirect logins; session codes
    Staleness,              \* zkPassportValiditySeconds
    Ahead,                  \* the five minutes a clock may be ahead
    Validity,               \* PASSPORT_A2_MAX_VALIDITY_SECONDS, one year for Instagram
    Ttl,                    \* TTL_MS of a session code
    Expiry,                 \* the day the passport expires
    Skew,                   \* how far the page's clock may be ahead
    MaxTime, MaxTry

ASSUME VerificationAssumption ==
    /\ KindOf \in [Request -> {"issue", "renew", "instagram"}]
    /\ NoLogin \notin Login
    /\ \A n \in {Staleness, Ahead, Validity, Ttl, Expiry, MaxTime, MaxTry} : n \in Nat
    /\ Skew \subseteq Nat

VARIABLES
    now,        \* clock of the server
    files,      \* [issuer: of the deployment manifest, env: the .env files]
    page,       \* configuration the open page was built with
    api,        \* process.env as the running server read it, or Down
    trusted,    \* roots each registry (mainnet, Sepolia) holds valid
    ask,        \* per request, the page's flow
    proof,      \* per request, the public inputs of the proof made for it
    job,        \* per request, the handler of the API
    pool,       \* issuing transactions broadcast
    notes,      \* those in a block
    codes,      \* session codes: a Map in memory
    reads,      \* answers of /api/session/exchange
    dapp,       \* redirect logins
    pending     \* sessionStorage of the dApp's tab

issuance == <<ask, proof, job, pool, notes>>
redirects == <<codes, reads, dapp, pending>>
world == <<now, files, page, api, trusted>>
vars == <<world, issuance, redirects>>

Down == [issuer |-> "none", profile |-> "none", scope |-> "none", keys |-> {}]
Up == api # Down

Modes == {"rooted", "passport"}
Root(config) == <<config.profile, config.scope>>    \* scoped nullifier of the person
NoProof == [action |-> "none"]
Passport(r) == KindOf[r] # "instagram"

-----------------------------------------------------------------------------
(* The page: from the request to the POST. *)

(* The scope is that of the page; a renewal is of a rooted passport. *)
Begin(r) ==
    /\ ask[r].stage = "idle"
    /\ \E w \in Owner, m \in Modes :
          /\ KindOf[r] = "renew" => m = "rooted"
          /\ KindOf[r] = "instagram" => m = "passport"
          /\ ask' = [ask EXCEPT ![r] = [stage |-> "asked", owner |-> w, mode |-> m,
                                        config |-> page, date |-> 0]]
    /\ UNCHANGED <<proof, job, pool, notes, world, redirects>>

(* What zkPassport's outer proof commits to and the wrapper checks again:   *)
(* the day, the registry it was proved against, the bound operation, and    *)
(* under which profile the face was matched.                                *)
Committed(r, registry) ==
    [action |-> KindOf[r], bound |-> <<KindOf[r], ask[r].owner, ask[r].config.scope>>,
     date |-> now, registry |-> registry, profile |-> ask[r].config.profile]

PhoneProves(r) ==
    /\ ask[r].stage = "asked" /\ Passport(r)
    /\ \E skew \in Skew, registry \in trusted[ask[r].config.profile] :
          proof' = [proof EXCEPT ![r] =
                       [Committed(r, registry) EXCEPT !.date = now + skew]]
    /\ ask' = [ask EXCEPT ![r].stage = "wrapping"]
    /\ UNCHANGED <<job, pool, notes, world, redirects>>

(* Thirty days from the page's clock, or the passport's own end. *)
ValidUntil(pageNow) == IF pageNow + Validity < Expiry THEN pageNow + Validity ELSE Expiry

(* computePassportA2RequestContextHash: equal hashes, equal operations. *)
Context(action, config, owner, mode, root, until, registry, bound) ==
    <<action, config.issuer, owner, mode, root, until, registry, bound>>

(* buildPassportWrapperInputs: the disclosures, the age, the bound data, the *)
(* face match and the nullifier are those of the outer proof, made under    *)
(* this profile, and the credential does not outlive the passport.          *)
MatchesOuterProof(r, until) ==
    /\ until <= Expiry
    /\ proof[r].bound = <<proof[r].action, ask[r].owner, ask[r].config.scope>>
    /\ proof[r].profile = ask[r].config.profile

(* The public outputs of the wrapper.  The ghost is derived from the person. *)
Wrap(r) ==
    /\ ask[r].stage = "wrapping"
    /\ \E skew \in Skew :
          LET until == ValidUntil(now + skew)
              p == proof[r] IN
          /\ MatchesOuterProof(r, until)
          /\ proof' = [proof EXCEPT ![r] =
                [action |-> p.action, until |-> until, date |-> p.date,
                 root |-> Root(ask[r].config), registry |-> p.registry,
                 profile |-> p.profile, key |-> "none",
                 context |-> Context(p.action, ask[r].config, ask[r].owner, ask[r].mode,
                                     Root(ask[r].config), until, p.registry, p.bound)]]
    /\ ask' = [ask EXCEPT ![r].stage = "proved"]
    /\ UNCHANGED <<job, pool, notes, world, redirects>>

(* The e-mail is signed with a key of the mail service; owner, issuer, the  *)
(* chain and the end of the year are public inputs.                         *)
ProveInstagram(r) ==
    /\ ask[r].stage = "asked" /\ KindOf[r] = "instagram"
    /\ \E skew \in Skew, key \in Key :
          proof' = [proof EXCEPT ![r] =
              [action |-> "instagram", until |-> now + skew + Validity, date |-> now,
               root |-> "none", registry |-> "none", profile |-> "any", key |-> key,
               context |-> <<ask[r].owner, ask[r].config.issuer>>]]
    /\ ask' = [ask EXCEPT ![r].stage = "proved"]
    /\ UNCHANGED <<job, pool, notes, world, redirects>>

(* The page closes, the phone refuses, a check of the wrapper fails. *)
GiveUp(r) ==
    /\ ask[r].stage \in {"asked", "wrapping", "proved"}
    /\ ask' = [ask EXCEPT ![r].stage = "failed"]
    /\ UNCHANGED <<proof, job, pool, notes, world, redirects>>

Post(r) ==
    /\ ask[r].stage = "proved" /\ Up
    /\ ask' = [ask EXCEPT ![r].stage = "posted"]
    /\ job' = [job EXCEPT ![r] = [stage |-> "received", try |-> 1]]
    /\ UNCHANGED <<proof, pool, notes, world, redirects>>

PostFails(r) ==
    /\ ask[r].stage = "proved" /\ ~Up
    /\ ask' = [ask EXCEPT ![r].stage = "failed"]
    /\ UNCHANGED <<proof, job, pool, notes, world, redirects>>

(* A kept-alive connection that breaks before an answer is tried again. *)
Resend(r) ==
    /\ ask[r].stage = "posted" /\ job[r].stage = "gone" /\ Up /\ job[r].try < MaxTry
    /\ job' = [job EXCEPT ![r] = [stage |-> "received", try |-> @.try + 1]]
    /\ UNCHANGED <<ask, proof, pool, notes, world, redirects>>

Hear(r) ==
    /\ ask[r].stage = "posted" /\ job[r].stage \in {"done", "refused", "gone"}
    /\ ask' = [ask EXCEPT ![r].stage = IF job[r].stage = "done" THEN "issued" ELSE "failed"]
    /\ UNCHANGED <<proof, job, pool, notes, world, redirects>>

-----------------------------------------------------------------------------
(* The handlers.  Each action runs from one await to the next. *)
Handler(r, stage) == job' = [job EXCEPT ![r].stage = stage]
HandlerOnly == UNCHANGED <<ask, proof, notes, world, redirects>>

TrustedDkimKey(r) == proof[r].key \in api.keys

(* The schema, the keys of the body and the public inputs are well formed;  *)
(* an Instagram proof names a trusted key.                                  *)
WellFormed(r) == KindOf[r] = "instagram" => TrustedDkimKey(r)

Validate(r) ==
    /\ job[r].stage = "received"
    /\ Handler(r, IF WellFormed(r) THEN "verifying" ELSE "refused")
    /\ HandlerOnly /\ UNCHANGED pool

(* Mutant: a passport proof may be of any day. *)
AnyDate(r) ==
    /\ proof[r].date <= now + Ahead
    /\ now < proof[r].until /\ proof[r].until <= now + Validity

(* validatePassportA2TimeBounds, by the clock of the server. *)
TimeBounds(r) ==
    /\ proof[r].date <= now + Ahead
    /\ now <= proof[r].date + Staleness
    /\ now < proof[r].until /\ proof[r].until <= now + Validity

(* The circuit is that of the configured profile. *)
Verified(r) ==
    /\ job[r].stage = "verifying"
    /\ Handler(r, IF Passport(r) => proof[r].profile = api.profile /\ TimeBounds(r)
                  THEN "trusting" ELSE "refused")
    /\ HandlerOnly /\ UNCHANGED pool

InstagramContext(r) ==
    /\ proof[r].context = <<ask[r].owner, api.issuer>>
    /\ now < proof[r].until /\ proof[r].until <= now + Validity + Ahead

(* Mutant: the operation is taken from the request alone. *)
AsRequested(r) == TRUE

(* assertPassportA2RequestContext: recomputed from the body of the request  *)
(* and this server's configuration.                                         *)
PassportContext(r) ==
    proof[r].context =
        Context(KindOf[r], api, ask[r].owner, IF KindOf[r] = "renew" THEN "rooted" ELSE ask[r].mode,
                proof[r].root, proof[r].until, proof[r].registry,
                <<KindOf[r], ask[r].owner, api.scope>>)

RegistryTrusted(r) == proof[r].registry \in trusted[api.profile]

Tx(r) ==
    [request |-> r, try |-> job[r].try, issuer |-> api.issuer, owner |-> ask[r].owner,
     mode |-> ask[r].mode, root |-> proof[r].root, until |-> proof[r].until]

(* Mutant: a root may be registered again by another request. *)
NullifierPerRequest(t) == <<t.issuer, t.request>>

(* What the contract lets happen once: a root, an Instagram claim, a        *)
(* renewal of these claims.  A standalone passport has no such mark.        *)
IssuanceNullifier(t) ==
    CASE KindOf[t.request] = "issue" /\ t.mode = "rooted" -> <<t.issuer, t.root>>
      [] KindOf[t.request] = "issue" /\ t.mode # "rooted" -> <<t.request, t.try>>
      [] OTHER -> <<t.issuer, t.request>>
Spent(t) == \E n \in notes : IssuanceNullifier(n) = IssuanceNullifier(t)

(* The answers of the registry or the node arrive; then the context, the    *)
(* issuance context loaded at start-up, the simulation and the broadcast.   *)
Issue(r) ==
    /\ job[r].stage = "trusting"
    /\ IF /\ IF Passport(r) THEN RegistryTrusted(r) /\ PassportContext(r)
                            ELSE InstagramContext(r)
          /\ ~Spent(Tx(r))
       THEN Handler(r, "sent") /\ pool' = pool \cup {Tx(r)}
       ELSE Handler(r, "refused") /\ UNCHANGED pool
    /\ HandlerOnly

(* A proof that does not verify, an RPC or a send that throws. *)
HandlerThrows(r) ==
    /\ job[r].stage \in {"verifying", "trusting", "sent"}
    /\ Handler(r, "refused")
    /\ HandlerOnly /\ UNCHANGED pool

Sent(r) == {t \in pool : t.request = r /\ t.try = job[r].try}
Mined(r) == \E t \in notes : t.request = r /\ t.try = job[r].try

Answer(r) ==
    /\ job[r].stage = "sent" /\ Sent(r) = {}
    /\ Handler(r, IF Mined(r) THEN "done" ELSE "refused")
    /\ HandlerOnly /\ UNCHANGED pool

(* A transaction whose nullifier was spent meanwhile is dropped. *)
Include(t) ==
    /\ t \in pool
    /\ pool' = pool \ {t}
    /\ notes' = IF Spent(t) THEN notes ELSE notes \cup {t}
    /\ UNCHANGED <<ask, proof, job, world, redirects>>

-----------------------------------------------------------------------------
(* The processes and their files. *)
Tick ==
    /\ now < MaxTime
    /\ now' = now + 1
    /\ UNCHANGED <<files, page, api, trusted, issuance, redirects>>

(* A deployment writes its manifest; another script fills the addresses of  *)
(* the .env files from it; profile, scope and keys are edited by hand.      *)
Redeploy(issuer) ==
    /\ files.issuer # issuer
    /\ files' = [files EXCEPT !.issuer = issuer]
    /\ UNCHANGED <<now, page, api, trusted, issuance, redirects>>

FillEnv ==
    /\ files.env.issuer # files.issuer
    /\ files' = [files EXCEPT !.env.issuer = files.issuer]
    /\ UNCHANGED <<now, page, api, trusted, issuance, redirects>>

EditEnv(config) ==
    /\ files.env # config /\ files.env.issuer = config.issuer
    /\ files' = [files EXCEPT !.env = config]
    /\ UNCHANGED <<now, page, api, trusted, issuance, redirects>>

(* Where both name an address the page takes that of the .env file ...      *)
ReloadPage ==
    /\ page # files.env
    /\ page' = files.env
    /\ ask' = [r \in Request |-> IF ask[r].stage \in {"asked", "wrapping", "proved", "posted"}
                                 THEN [ask[r] EXCEPT !.stage = "failed"] ELSE ask[r]]
    /\ UNCHANGED <<now, files, api, trusted, proof, job, pool, notes, redirects>>

(* ... and the server that of the manifest.  Then the preflight, and listen. *)
WithManifestEntries(env) == [env EXCEPT !.issuer = files.issuer]

StartApi ==
    /\ ~Up
    /\ api' = WithManifestEntries(files.env)
    /\ UNCHANGED <<now, files, page, trusted, issuance, redirects>>

Crash ==
    /\ Up
    /\ api' = Down
    /\ job' = [r \in Request |->
          IF job[r].stage \in {"received", "verifying", "trusting", "sent"}
          THEN [job[r] EXCEPT !.stage = "gone"] ELSE job[r]]
    /\ codes' = {}
    /\ UNCHANGED <<now, files, page, trusted, ask, proof, pool, notes, reads, dapp, pending>>

(* The registry of one profile takes a new root and may end an older one. *)
RotateRegistry(profile, root) ==
    /\ trusted[profile] # {root}
    /\ trusted' = [trusted EXCEPT ![profile] = {root}]
    /\ UNCHANGED <<now, files, page, api, issuance, redirects>>

-----------------------------------------------------------------------------
(* Redirect logins.  AuthorizePage posts the assertion of a redirectCode    *)
(* request to /api/session/code, but reads a request from its opener only:  *)
(* loginWithRedirect opens it without one.  The endpoint serves any caller  *)
(* of the wallet's origin, and the model keeps that caller.                 *)
RedirectOnly == UNCHANGED <<world, issuance>>

LoginWithRedirect(q) ==
    /\ dapp[q] = "idle"
    /\ dapp' = [dapp EXCEPT ![q] = "away"]
    /\ pending' = q
    /\ UNCHANGED <<codes, reads>> /\ RedirectOnly

(* The page has no opener: it shows an error and reads no request. *)
OpenAuthorizePage(q) ==
    /\ dapp[q] = "away"
    /\ dapp' = [dapp EXCEPT ![q] = "stranded"]
    /\ UNCHANGED <<codes, reads, pending>> /\ RedirectOnly

(* A wallet stores the assertion it made for a login. *)
Entry(q, c) == [code |-> c, login |-> q, expires |-> now + Ttl]
CreateSessionCode(q, c) ==
    /\ Up /\ dapp[q] \in {"away", "stranded"}
    /\ \A x \in codes \cup reads : x.code # c
    /\ codes' = codes \cup {Entry(q, c)}
    /\ UNCHANGED <<reads, dapp, pending>> /\ RedirectOnly

(* Mutant: an entry that has not expired stays for the next caller. *)
KeepsEntry(c) == {x \in codes : x.expires < now}

Deleted(c) == {x \in codes : x.code = c}
Exchanged(c) == {x \in codes : x.code = c /\ now <= x.expires}

(* The server's answer to a code, and what the callback page makes of it:   *)
(* the assertion must name the request the page held.                       *)
Exchange(c) ==
    /\ Up
    /\ codes' = codes \ Deleted(c)
    /\ reads' = reads \cup {[code |-> c, login |-> x.login, by |-> pending,
                             at |-> now, expires |-> x.expires] : x \in Exchanged(c)}
Verdict(c) == IF \E x \in Exchanged(c) : x.login = pending THEN "verified" ELSE "failed"

(* completeRedirectLogin forgets the pending request before it asks; the    *)
(* request or its answer may be lost, and the code with it.                 *)
CompleteRedirectLogin(c) ==
    /\ pending # NoLogin /\ pending' = NoLogin
    /\ \/ Exchange(c) /\ dapp' = [dapp EXCEPT ![pending] = Verdict(c)]
       \/ /\ Exchange(c) \/ UNCHANGED <<codes, reads>>
          /\ dapp' = [dapp EXCEPT ![pending] = "failed"]
    /\ RedirectOnly

-----------------------------------------------------------------------------
Init ==
    /\ now = 1 /\ page \in Config /\ files = [issuer |-> page.issuer, env |-> page] /\ api = Down
    /\ trusted \in [{"production", "development"} -> {{x} : x \in RegistryRoot}]
    /\ ask = [r \in Request |-> [stage |-> "idle"]]
    /\ proof = [r \in Request |-> NoProof]
    /\ job = [r \in Request |-> [stage |-> "idle", try |-> 0]]
    /\ pool = {} /\ notes = {} /\ codes = {} /\ reads = {}
    /\ dapp = [q \in Login |-> "idle"] /\ pending = NoLogin

Page(r) == Begin(r) \/ PhoneProves(r) \/ Wrap(r) \/ ProveInstagram(r) \/ GiveUp(r)
    \/ Post(r) \/ PostFails(r) \/ Resend(r) \/ Hear(r)
Api(r) == Validate(r) \/ Verified(r) \/ Issue(r) \/ Answer(r)

Next ==
    \/ \E r \in Request : Page(r) \/ Api(r) \/ HandlerThrows(r)
    \/ \E t \in pool : Include(t)
    \/ Tick \/ FillEnv \/ ReloadPage \/ StartApi \/ Crash
    \/ \E c \in Config : Redeploy(c.issuer) \/ EditEnv(c)
    \/ \E profile \in DOMAIN trusted, root \in RegistryRoot : RotateRegistry(profile, root)
    \/ \E q \in Login : LoginWithRedirect(q) \/ OpenAuthorizePage(q)
          \/ \E c \in Code : CreateSessionCode(q, c)
    \/ \E c \in Code : CompleteRedirectLogin(c)

Spec == Init /\ [][Next]_vars
=============================================================================
