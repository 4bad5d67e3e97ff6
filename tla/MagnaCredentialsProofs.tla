------------------------- MODULE MagnaCredentialsProofs -------------------------
(* Theorems about the credential flows of the management page, for any      *)
(* number of wallets and requests, whatever answers, restarts and reloads.  *)
EXTENDS MagnaCredentialsSafety, TLAPS

USE CredentialsAssumption

-----------------------------------------------------------------------------
(* The shape of the state. *)
Modes == {"rooted", "passport"}
Refs == [claims : Attempt, mode : Modes]
TxKinds == {"register", "authorize", "renew", "link", "revoke", "revokeRoot"}
Keys == [claims : Attempt, owner : Wallet, mode : Modes \cup {""}]
Stages == Waiting \cup {"idle", "lost", "failed", "refused", "done"}

CredentialShape ==
    /\ mode \in Modes
    /\ session \in Wallet \cup {NoWallet}
    /\ shown \subseteq Refs /\ refs \subseteq Refs /\ minted \subseteq Refs
    /\ stage \in [Attempt -> Stages]
    /\ owner \in [Attempt -> Wallet \cup {NoWallet}]
    /\ prior \in [Attempt -> Attempt \cup {NoAttempt}]
    /\ api \in [Attempt -> {"idle", "checking", "sent", "done", "failed", "refused"}]
    /\ pool \subseteq [kind : TxKinds, ref : Refs]
    /\ witness \subseteq Keys

-----------------------------------------------------------------------------
(* What makes the properties inductive. *)

(* A request that has not begun has no owner, no handler and nothing in the *)
(* chain; every other one has the wallet it began with.                     *)
Begun(a) == stage[a] # "idle"
Owned(a) ==
    /\ owner[a] = NoWallet <=> ~Begun(a)
    /\ api[a] # "idle" => Begun(a)
    /\ stage[a] \in {"approved", "sent"} => KindOf[a] = "renewal"

(* What a waiting transaction issues: an attempt's own credential in the    *)
(* mode of the deployment, a renewal's, or the linked form of an Instagram  *)
(* credential.                                                              *)
Issues(t) ==
    /\ Begun(t.ref.claims)
    /\ t.kind = "register" => t.ref.mode = MintMode(t.ref.claims)
    /\ t.kind = "renew" => t.ref.mode = "rooted" /\ KindOf[t.ref.claims] = "renewal"
    /\ t.kind = "link" => Instagram(t.ref) /\ t.ref.mode = "passport"

(* What is in the chain, and that linking has killed what it replaced.      *)
Issued(r) ==
    /\ Begun(r.claims)
    /\ ~Instagram(r) => r.mode = MintMode(r.claims)
    /\ Instagram(r) /\ r.mode = "rooted" => Ref(r.claims, "passport") \in killed

(* A handler that is done has seen its transaction in a block.              *)
Answered(a) == api[a] = "done" /\ KindOf[a] # "renewal" => Ref(a, MintMode(a)) \in minted

(* The sidecars are those of minted credentials, under the key of the       *)
(* wallet the attempt began with; a flow past its answer has kept its own.  *)
Own(a) == WitnessKey(Ref(a, MintMode(a)), owner[a])
Filed(x) == x = Own(x.claims) /\ \E r \in minted : r.claims = x.claims
Kept(a) == stage[a] \in {"refreshing", "done"} => Own(a) \in witness

CredentialInv ==
    /\ CredentialShape
    /\ \A a \in Attempt : Owned(a) /\ Answered(a) /\ Kept(a)
    /\ \A t \in pool : Issues(t)
    /\ \A r \in minted : Issued(r)
    /\ \A x \in witness : Filed(x)

-----------------------------------------------------------------------------
(* What no step takes back. *)
Grows ==
    /\ mode' = mode /\ minted \subseteq minted' /\ killed \subseteq killed'
    /\ witness \subseteq witness'
    /\ \A a \in Attempt : Begun(a) => Begun(a)' /\ owner'[a] = owner[a]

LEMMA Lasts ==
    ASSUME CredentialInv, Grows
    PROVE  /\ \A t \in pool : Issues(t)'
           /\ \A r \in minted : Issued(r)'
           /\ \A x \in witness : Filed(x)'
           /\ \A a \in Attempt : api'[a] = api[a] => Answered(a)'
           /\ \A a \in Attempt : stage'[a] = stage[a] => Kept(a)'
  <1> USE DEF MintMode
  <1>1. ASSUME NEW t \in pool PROVE Issues(t)'
    BY <1>1 DEF CredentialInv, CredentialShape, Refs, Grows, Issues, Instagram
  <1>2. ASSUME NEW r \in minted PROVE Issued(r)'
    BY <1>2 DEF CredentialInv, CredentialShape, Refs, Grows, Issued, Instagram
  <1>3. ASSUME NEW a \in Attempt, Begun(a) PROVE Own(a)' = Own(a)
    BY <1>3 DEF Own, Grows, WitnessKey, Instagram
  <1>4. ASSUME NEW x \in witness PROVE Filed(x)'
    <2>1. PICK r \in minted : r.claims = x.claims
      BY <1>4 DEF CredentialInv, Filed
    <2>2. x.claims \in Attempt /\ Begun(x.claims)
      BY <2>1 DEF CredentialInv, CredentialShape, Refs, Issued
    <2> QED
      BY <1>3, <1>4, <2>1, <2>2 DEF CredentialInv, Filed, Grows
  <1>5. ASSUME NEW a \in Attempt, api'[a] = api[a] PROVE Answered(a)'
    BY <1>5 DEF CredentialInv, Grows, Answered
  <1>6. ASSUME NEW a \in Attempt, stage'[a] = stage[a] PROVE Kept(a)'
    BY <1>3, <1>6 DEF CredentialInv, Grows, Kept, Begun
  <1> QED
    BY <1>1, <1>2, <1>4, <1>5, <1>6

(* A step of one attempt that puts nothing in the chain. *)
LEMMA AttemptMoves ==
    ASSUME CredentialInv, NEW a \in Attempt, NEW s \in Stages \ {"idle"}, Begun(a),
           stage' = [stage EXCEPT ![a] = s],
           s \in {"approved", "sent"} => KindOf[a] = "renewal",
           s \in {"refreshing", "done"} => Own(a) \in witness',
           witness' \in {witness, witness \cup {Own(a)}},
           witness' # witness => \E r \in minted : r.claims = a,
           session' \in Wallet \cup {NoWallet}, shown' \subseteq Refs, refs' \subseteq Refs,
           api' \in {api, [api EXCEPT ![a] = "checking"]},
           pool' \subseteq [kind : TxKinds, ref : Refs], \A t \in pool' \ pool : Issues(t),
           UNCHANGED <<mode, owner, prior, minted, killed>>
    PROVE  CredentialInv'
  <1>1. Own(a) = [claims |-> a, owner |-> owner[a], mode |-> Own(a).mode]
        /\ Own(a) \in Keys /\ Own(a)' = Own(a)
    BY DEF CredentialInv, CredentialShape, Own, WitnessKey, Ref, Instagram, MintMode, Keys, Modes,
           Owned
  <1>2. CredentialShape'
    BY <1>1 DEF CredentialInv, CredentialShape
  <1>3. Grows
    BY DEF Grows, CredentialInv, CredentialShape, Begun
  <1>4. ASSUME NEW b \in Attempt PROVE Owned(b)'
    BY <1>4 DEF Owned, Begun, CredentialInv, CredentialShape
  <1>5. ASSUME NEW b \in Attempt PROVE Answered(b)'
    BY <1>3, <1>5, Lasts DEF Answered, CredentialInv, CredentialShape
  <1>6. ASSUME NEW b \in Attempt PROVE Kept(b)'
    BY <1>1, <1>3, <1>6, Lasts DEF Kept, CredentialInv, CredentialShape
  <1>7. ASSUME NEW x \in witness' PROVE Filed(x)'
    <2>1. CASE x \in witness
      BY <1>3, <2>1, Lasts
    <2>2. CASE x = Own(a) /\ \E r \in minted : r.claims = a
      BY <1>1, <2>2 DEF Filed
    <2> QED
      BY <1>7, <2>1, <2>2
  <1>8. ASSUME NEW t \in pool' PROVE Issues(t)'
    <2>1. Issues(t)
      BY <1>8 DEF CredentialInv
    <2> QED
      BY <1>2, <1>3, <2>1 DEF Issues, Grows, MintMode, Instagram, CredentialShape, Refs
  <1>9. ASSUME NEW r \in minted' PROVE Issued(r)'
    BY <1>3, <1>9, Lasts
  <1> QED
    BY <1>2, <1>4, <1>5, <1>6, <1>7, <1>8, <1>9 DEF CredentialInv

(* A step of the page that leaves every attempt alone. *)
LEMMA PageMoves ==
    ASSUME CredentialInv,
           session' \in Wallet \cup {NoWallet}, shown' \subseteq Refs, refs' \subseteq Refs,
           UNCHANGED <<mode, stage, owner, prior, api, minted, killed, witness>>,
           pool' \subseteq [kind : TxKinds, ref : Refs], \A t \in pool' \ pool : Issues(t)
    PROVE  CredentialInv'
  <1>1. CredentialShape'
    BY DEF CredentialInv, CredentialShape
  <1>2. Grows
    BY DEF Grows, Begun
  <1>3. ASSUME NEW b \in Attempt PROVE Owned(b)' /\ Answered(b)' /\ Kept(b)'
    BY <1>2, Lasts DEF Owned, Begun, CredentialInv
  <1>4. ASSUME NEW t \in pool' PROVE Issues(t)'
    <2>1. Issues(t)
      BY <1>4 DEF CredentialInv
    <2> QED
      BY <2>1 DEF Issues, MintMode, Instagram, Begun
  <1> QED
    BY <1>1, <1>2, <1>3, <1>4, Lasts DEF CredentialInv

LEMMA DiscoveredRefs ==
    ASSUME CredentialInv, NEW w
    PROVE  Discovered(w) \subseteq Refs
  BY DEF CredentialInv, CredentialShape, Refs, Discovered, ActiveNotes, Ref

LEMMA RefreshShape ==
    ASSUME CredentialInv, NEW w, NEW open, RefreshRefs(w, open)
    PROVE  shown' \subseteq Refs /\ refs' \subseteq Refs
  BY DiscoveredRefs DEF RefreshRefs, OtherRefs, CredentialInv, CredentialShape

LEMMA LinkedRef ==
    ASSUME NEW r \in Refs
    PROVE  Linked(r) \in Refs
  BY DEF Linked, Ref, Refs, Modes

LEMMA PageKeeps ==
    ASSUME CredentialInv,
           \/ \E w \in Wallet : OpenWallet(w)
           \/ Disconnect \/ EndHolderTx
           \/ \E r \in shown : LinkAgain(r) \/ LinkSettles(r)
    PROVE  CredentialInv'
  <1>1. UNCHANGED <<mode, stage, owner, prior, api, pool, minted, killed, witness>>
    BY DEF OpenWallet, Disconnect, EndHolderTx, LinkAgain, LinkSettles, ShowLinked, attempts,
           chain, stored
  <1>2. session' \in Wallet \cup {NoWallet}
    BY DEF OpenWallet, Disconnect, EndHolderTx, LinkAgain, LinkSettles, ShowLinked, CredentialInv,
           CredentialShape
  <1>3. shown' \subseteq Refs /\ refs' \subseteq Refs
    <2>1. CASE \E w \in Wallet : OpenWallet(w)
      BY <2>1, RefreshShape DEF OpenWallet
    <2>2. CASE Disconnect \/ EndHolderTx
      BY <2>2 DEF Disconnect, EndHolderTx, CredentialInv, CredentialShape, stored
    <2>3. ASSUME NEW r \in shown, ShowLinked(r) PROVE shown' \subseteq Refs /\ refs' \subseteq Refs
      BY <2>3, LinkedRef DEF ShowLinked, CredentialInv, CredentialShape
    <2> QED
      BY <2>1, <2>2, <2>3 DEF LinkAgain, LinkSettles
  <1>4. pool' \subseteq [kind : TxKinds, ref : Refs] /\ \A t \in pool' \ pool : Issues(t)
    BY <1>1 DEF CredentialInv, CredentialShape
  <1> QED
    BY <1>1, <1>2, <1>3, <1>4, PageMoves

(* A holder's transaction is about a credential of an attempt that began,   *)
(* since a wallet owns it.                                                  *)
LEMMA HolderTxKeeps ==
    ASSUME CredentialInv, NEW r \in shown, NEW kind \in {"link", "revoke", "revokeRoot"},
           BeginHolderTx(Tx(kind, r))
    PROVE  CredentialInv'
  <1>1. Tx(kind, r).ref = r /\ Tx(kind, r).kind = kind /\ r \in Refs /\ r.claims \in Attempt
    BY DEF Tx, CredentialInv, CredentialShape, Refs
  <1>2. owner[r.claims] # NoWallet /\ (kind = "link" => Instagram(r) /\ r.mode = "passport")
    BY <1>1 DEF BeginHolderTx, Mine
  <1>3. Issues(Tx(kind, r))
    BY <1>1, <1>2 DEF Issues, CredentialInv, Owned
  <1>4. Tx(kind, r) \in [kind : TxKinds, ref : Refs]
    BY <1>1 DEF Tx, TxKinds
  <1>5. /\ pool' = pool \cup {Tx(kind, r)}
        /\ UNCHANGED <<mode, session, shown, refs, stage, owner, prior, api, minted, killed,
                       witness>>
    BY DEF BeginHolderTx, attempts, stored
  <1> QED
    BY <1>3, <1>4, <1>5, PageMoves DEF CredentialInv, CredentialShape

(* A request begins, with the wallet that is open. *)
LEMMA BeginKeeps ==
    ASSUME CredentialInv, NEW a \in Attempt, Start(a)
    PROVE  CredentialInv'
  <1>1. PICK s \in {"asked", "building"} :
          /\ stage[a] = "idle" /\ stage' = [stage EXCEPT ![a] = s]
          /\ owner' = [owner EXCEPT ![a] = session]
    BY DEF Start, StartZkPassportIssuance, StartRootedRenewal, IssueInstagramCredential, Begin
  <1>2. /\ session \in Wallet
        /\ UNCHANGED <<mode, session, shown, refs, api, pool, minted, killed, witness>>
    BY DEF Start, StartZkPassportIssuance, StartRootedRenewal, IssueInstagramCredential, Idle,
           CredentialInv, CredentialShape, chain, stored
  <1>3. prior' \in [Attempt -> Attempt \cup {NoAttempt}]
    BY DEF Start, StartZkPassportIssuance, StartRootedRenewal, IssueInstagramCredential,
           CredentialInv, CredentialShape, Refs
  <1>4. CredentialShape'
    BY <1>1, <1>2, <1>3 DEF CredentialInv, CredentialShape, Stages, Waiting
  <1>5. Grows
    BY <1>1, <1>2 DEF Grows, Begun, CredentialInv, CredentialShape
  <1>6. ASSUME NEW b \in Attempt PROVE Owned(b)' /\ Answered(b)' /\ Kept(b)'
    BY <1>1, <1>2, <1>5, Lasts DEF Owned, Begun, Kept, CredentialInv, CredentialShape
  <1> QED
    BY <1>2, <1>4, <1>5, <1>6, Lasts DEF CredentialInv

LEMMA ReloadKeeps ==
    ASSUME CredentialInv, Reload
    PROVE  CredentialInv'
  <1>1. /\ session' = NoWallet /\ shown' = {}
        /\ stage' = [a \in Attempt |-> IF stage[a] \in Waiting THEN "lost" ELSE stage[a]]
        /\ UNCHANGED <<mode, owner, prior, api, pool, minted, killed, witness, refs>>
    BY DEF Reload, chain, stored
  <1>2. CredentialShape'
    BY <1>1 DEF CredentialInv, CredentialShape, Stages
  <1>3. Grows
    BY <1>1 DEF Grows, Begun
  <1>4. ASSUME NEW b \in Attempt PROVE Owned(b)' /\ Answered(b)' /\ Kept(b)'
    BY <1>1, <1>3, Lasts DEF Owned, Begun, Kept, CredentialInv, Waiting
  <1> QED
    BY <1>1, <1>2, <1>3, <1>4, Lasts DEF CredentialInv

-----------------------------------------------------------------------------
(* A request, its answer and what follows. *)
LEMMA Ends ==
    ASSUME CredentialInv, NEW a \in Attempt, NEW s \in {"failed", "refused", "lost"},
           stage[a] # "idle", stage' = [stage EXCEPT ![a] = s],
           UNCHANGED <<mode, session, shown, refs, owner, prior, api, pool, minted, killed,
                       witness>>
    PROVE  CredentialInv'
  <1>1. s \in Stages \ {"idle"} /\ Begun(a)
    BY DEF Stages, Begun
  <1>2. session' \in Wallet \cup {NoWallet} /\ shown' \subseteq Refs /\ refs' \subseteq Refs
        /\ pool' \subseteq [kind : TxKinds, ref : Refs] /\ \A t \in pool' \ pool : Issues(t)
    BY DEF CredentialInv, CredentialShape
  <1> QED
    BY <1>1, <1>2, AttemptMoves

LEMMA FailuresKeep ==
    ASSUME CredentialInv, NEW a \in Attempt,
           \/ RequestEnds(a) \/ FinalResultTimeout(a) \/ ProvingFails(a) \/ HearError(a)
           \/ AnswerLost(a) \/ RenewalFails(a)
    PROVE  CredentialInv'
  <1>1. \E s \in {"failed", "refused", "lost"} : stage[a] # "idle" /\ Finish(a, s)
    BY DEF RequestEnds, FinalResultTimeout, ProvingFails, HearError, AnswerLost, RenewalFails
  <1>2. UNCHANGED <<mode, shown, refs, api, pool, minted, killed, witness>>
    BY DEF RequestEnds, FinalResultTimeout, ProvingFails, HearError, AnswerLost, RenewalFails,
           chain, stored
  <1> QED
    BY <1>1, <1>2, Ends DEF Finish

LEMMA RequestKeeps ==
    ASSUME CredentialInv, NEW a \in Attempt, PhoneProves(a) \/ Submit(a)
    PROVE  CredentialInv'
  <1>1. PICK s \in {"proved", "posted"} :
          stage[a] # "idle" /\ stage' = [stage EXCEPT ![a] = s]
    BY DEF PhoneProves, Submit
  <1>2. /\ api' \in {api, [api EXCEPT ![a] = "checking"]}
        /\ UNCHANGED <<mode, session, shown, refs, owner, prior, pool, minted, killed, witness>>
    BY DEF PhoneProves, Submit, page, chain, stored
  <1>3. s \in Stages \ {"idle"} /\ Begun(a)
    BY <1>1 DEF Stages, Waiting, Begun
  <1>4. session' \in Wallet \cup {NoWallet} /\ shown' \subseteq Refs /\ refs' \subseteq Refs
        /\ pool' \subseteq [kind : TxKinds, ref : Refs] /\ \A t \in pool' \ pool : Issues(t)
    BY <1>2 DEF CredentialInv, CredentialShape
  <1> QED
    BY <1>1, <1>2, <1>3, <1>4, AttemptMoves

LEMMA HearAnswerKeeps ==
    ASSUME CredentialInv, NEW a \in Attempt, HearAnswer(a)
    PROVE  CredentialInv'
  <1>1. /\ stage[a] = "posted" /\ api[a] = "done"
        /\ UNCHANGED <<mode, session, shown, refs, owner, prior, api, pool, minted, killed>>
    BY DEF HearAnswer, page, chain
  <1>2. session' \in Wallet \cup {NoWallet} /\ shown' \subseteq Refs /\ refs' \subseteq Refs
        /\ pool' \subseteq [kind : TxKinds, ref : Refs] /\ \A t \in pool' \ pool : Issues(t)
    BY <1>1 DEF CredentialInv, CredentialShape
  <1>3. {"approved", "refreshing"} \subseteq Stages \ {"idle"} /\ Begun(a)
    BY <1>1 DEF Stages, Waiting, Begun
  <1>4. CASE KindOf[a] = "renewal"
    <2>1. stage' = [stage EXCEPT ![a] = "approved"] /\ witness' = witness
      BY <1>4 DEF HearAnswer
    <2> QED
      BY <1>1, <1>2, <1>3, <1>4, <2>1, AttemptMoves
  <1>5. CASE KindOf[a] # "renewal"
    <2>1. stage' = [stage EXCEPT ![a] = "refreshing"] /\ witness' = witness \cup {Own(a)}
      BY <1>5 DEF HearAnswer, Keep, Own
    <2>2. Ref(a, MintMode(a)) \in minted /\ Ref(a, MintMode(a)).claims = a
      BY <1>1, <1>5 DEF CredentialInv, Answered, Ref
    <2> QED
      BY <1>1, <1>2, <1>3, <1>5, <2>1, <2>2, AttemptMoves
  <1> QED
    BY <1>4, <1>5

LEMMA RefreshKeeps ==
    ASSUME CredentialInv, NEW a \in Attempt, RefreshAfterIssuance(a)
    PROVE  CredentialInv'
  <1>1. /\ stage[a] = "refreshing" /\ stage' = [stage EXCEPT ![a] = "done"]
        /\ UNCHANGED <<mode, session, owner, prior, api, pool, minted, killed, witness>>
    BY DEF RefreshAfterIssuance, Finish, chain
  <1>2. shown' \subseteq Refs /\ refs' \subseteq Refs
    BY RefreshShape DEF RefreshAfterIssuance
  <1>3. session' \in Wallet \cup {NoWallet}
        /\ pool' \subseteq [kind : TxKinds, ref : Refs] /\ \A t \in pool' \ pool : Issues(t)
    BY <1>1 DEF CredentialInv, CredentialShape
  <1>4. "done" \in Stages \ {"idle"} /\ Begun(a) /\ Own(a) \in witness
    BY <1>1 DEF Stages, Begun, CredentialInv, Kept
  <1> QED
    BY <1>1, <1>2, <1>3, <1>4, AttemptMoves

LEMMA RenewalKeeps ==
    ASSUME CredentialInv, NEW a \in Attempt, RefreshRootAuthority(a) \/ RenewalSettles(a)
    PROVE  CredentialInv'
  <1>1. KindOf[a] = "renewal" /\ Begun(a) /\ MintMode(a) = "rooted"
    BY DEF RefreshRootAuthority, RenewalSettles, CredentialInv, Owned, Begun, MintMode
  <1>2. Ref(a, "rooted") \in Refs /\ Ref(a, "rooted").claims = a /\ Ref(a, "rooted").mode = "rooted"
    BY DEF Ref, Refs, Modes
  <1>3. {"sent", "done"} \subseteq Stages \ {"idle"}
    BY DEF Stages, Waiting
  <1>4. CASE RefreshRootAuthority(a)
    <2> PICK t : t = Tx("renew", Ref(a, "rooted"))
      OBVIOUS
    <2>1. t \in [kind : TxKinds, ref : Refs] /\ t.kind = "renew" /\ t.ref = Ref(a, "rooted")
      BY <1>2 DEF Tx, TxKinds
    <2>2. /\ stage' = [stage EXCEPT ![a] = "sent"] /\ pool' = pool \cup {t}
          /\ UNCHANGED <<mode, session, shown, refs, owner, prior, api, minted, killed, witness>>
      BY <1>4 DEF RefreshRootAuthority, page, stored
    <2>3. Issues(t)
      BY <1>1, <1>2, <2>1 DEF Issues
    <2>4. session' \in Wallet \cup {NoWallet} /\ shown' \subseteq Refs /\ refs' \subseteq Refs
          /\ pool' \subseteq [kind : TxKinds, ref : Refs] /\ \A u \in pool' \ pool : Issues(u)
      BY <2>1, <2>2, <2>3 DEF CredentialInv, CredentialShape
    <2>5. "sent" \notin {"refreshing", "done"}
      OBVIOUS
    <2> QED
      BY <1>1, <1>3, <2>2, <2>4, <2>5, AttemptMoves
  <1>5. CASE RenewalSettles(a)
    <2>1. /\ stage' = [stage EXCEPT ![a] = "done"] /\ witness' = witness \cup {Own(a)}
          /\ Ref(a, "rooted") \in minted
          /\ refs' = refs \cup {Ref(a, "rooted")} /\ shown' = refs'
          /\ UNCHANGED <<mode, session, owner, prior, api, pool, minted, killed>>
      BY <1>1, <1>5 DEF RenewalSettles, Finish, chain, Keep, Own
    <2>2. session' \in Wallet \cup {NoWallet} /\ shown' \subseteq Refs /\ refs' \subseteq Refs
          /\ pool' \subseteq [kind : TxKinds, ref : Refs] /\ \A t \in pool' \ pool : Issues(t)
      BY <1>2, <2>1 DEF CredentialInv, CredentialShape
    <2> QED
      BY <1>1, <1>2, <1>3, <2>1, <2>2, AttemptMoves
  <1> QED
    BY <1>4, <1>5

-----------------------------------------------------------------------------
(* The handler of the API. *)
LEMMA HandlerKeeps ==
    ASSUME CredentialInv, NEW a \in Attempt, Api(a)
    PROVE  CredentialInv'
  <1>1. PICK s \in {"refused", "sent", "done", "failed"} :
          /\ Handle(a, s) /\ api[a] # "idle"
          /\ pool' \in {pool, pool \cup {IssueTx(a)}}
          /\ s = "done" => Settled(a)
    BY DEF Api, SendIssuance, AwaitIssuance, ApiFails
  <1>2. /\ api' = [api EXCEPT ![a] = s]
        /\ UNCHANGED <<mode, session, shown, refs, stage, owner, prior, minted, killed, witness>>
    BY <1>1 DEF Handle, page, attempts, stored
  <1>3. Begun(a)
    BY <1>1 DEF CredentialInv, Owned
  <1>4. IssueTx(a) \in [kind : TxKinds, ref : Refs]
    BY DEF IssueTx, Tx, TxKinds, Ref, Refs, Modes, MintMode, CredentialInv, CredentialShape
  <1>5. Issues(IssueTx(a))
    BY <1>3 DEF IssueTx, Tx, Issues, Ref, MintMode
  <1>6. CredentialShape'
    BY <1>1, <1>2, <1>4 DEF CredentialInv, CredentialShape
  <1>7. Grows
    BY <1>2 DEF Grows, Begun
  <1>8. ASSUME NEW b \in Attempt PROVE Owned(b)' /\ Answered(b)' /\ Kept(b)'
    <2>1. Owned(b)' /\ Kept(b)'
      BY <1>2, <1>3, <1>7, Lasts DEF Owned, Begun, CredentialInv, CredentialShape
    <2>2. CASE b # a
      BY <1>2, <1>7, <2>1, <2>2, Lasts DEF CredentialInv, CredentialShape
    <2>3. CASE b = a
      <3>1. api'[a] = s /\ minted' = minted /\ MintMode(a)' = MintMode(a)
        BY <1>2 DEF CredentialInv, CredentialShape, MintMode
      <3>2. s = "done" /\ KindOf[a] # "renewal" => Ref(a, MintMode(a)) \in minted
        BY <1>1 DEF Settled
      <3>3. Ref(a, MintMode(a))' = Ref(a, MintMode(a))
        BY <3>1 DEF Ref
      <3> QED
        BY <2>1, <2>3, <3>1, <3>2, <3>3 DEF Answered
    <2> QED
      BY <2>1, <2>2, <2>3
  <1>9. ASSUME NEW t \in pool' PROVE Issues(t)'
    <2>1. Issues(t)
      BY <1>1, <1>5, <1>9 DEF CredentialInv
    <2> QED
      BY <1>2, <2>1 DEF Issues, MintMode, Instagram, Begun
  <1> QED
    BY <1>2, <1>6, <1>7, <1>8, <1>9, Lasts DEF CredentialInv

-----------------------------------------------------------------------------
(* The chain. *)
LEMMA DropKeeps ==
    ASSUME CredentialInv, NEW t \in pool, Drop(t)
    PROVE  CredentialInv'
  <1>1. /\ pool' = pool \ {t}
        /\ UNCHANGED <<mode, session, shown, refs, stage, owner, prior, api, minted, killed,
                       witness>>
    BY DEF Drop, page, attempts, stored
  <1> QED
    BY <1>1, PageMoves DEF CredentialInv, CredentialShape

LEMMA IncludeKeeps ==
    ASSUME CredentialInv, NEW t \in pool, Include(t)
    PROVE  CredentialInv'
  <1>1. /\ pool' = pool \ {t} /\ minted' = minted \cup NewNotes(t) /\ killed' = killed \cup NewKills(t)
        /\ UNCHANGED <<mode, session, shown, refs, stage, owner, prior, api, witness>>
    BY DEF Include, page, attempts, stored
  <1>2. Issues(t) /\ t.ref \in Refs /\ t.kind \in TxKinds /\ t.ref.claims \in Attempt
    BY DEF CredentialInv, CredentialShape, Refs
  <1>3. NewNotes(t) \in {{}, {t.ref}, {Linked(t.ref)}}
    BY <1>2 DEF NewNotes, TxKinds
  <1>4. CredentialShape'
    BY <1>1, <1>2, <1>3, LinkedRef DEF CredentialInv, CredentialShape
  <1>5. Grows
    BY <1>1 DEF Grows, Begun
  <1>6. ASSUME NEW b \in Attempt PROVE Owned(b)' /\ Answered(b)' /\ Kept(b)'
    BY <1>1, <1>5, Lasts DEF Owned, Begun, CredentialInv
  <1>7. ASSUME NEW r \in NewNotes(t) PROVE Issued(r)'
    <2>1. CASE t.kind = "register"
      <3>1. r = t.ref /\ r.mode = MintMode(r.claims)
        BY <1>2, <1>7, <2>1 DEF NewNotes, Issues
      <3> QED
        BY <1>1, <1>2, <3>1 DEF Issued, Issues, Begun, Instagram, MintMode
    <2>2. CASE t.kind = "renew"
      <3>1. r = t.ref /\ KindOf[r.claims] = "renewal" /\ r.mode = "rooted"
        BY <1>2, <1>7, <2>2 DEF NewNotes, Issues
      <3> QED
        BY <1>1, <1>2, <3>1 DEF Issued, Issues, Begun, Instagram, MintMode
    <2>3. CASE t.kind = "link"
      <3>1. /\ r = Linked(t.ref) /\ Instagram(t.ref) /\ t.ref.mode = "passport"
            /\ killed' = killed \cup {t.ref}
        BY <1>1, <1>2, <1>7, <2>3 DEF NewNotes, NewKills, Issues
      <3>2. t.ref = Ref(t.ref.claims, "passport") /\ r.claims = t.ref.claims
        BY <1>2, <3>1 DEF Ref, Refs, Linked
      <3> QED
        BY <1>1, <1>2, <3>1, <3>2 DEF Issued, Issues, Begun, Instagram
    <2> QED
      BY <1>7, <2>1, <2>2, <2>3 DEF NewNotes
  <1>8. ASSUME NEW u \in pool' PROVE Issues(u)'
    BY <1>1, <1>5, <1>8, Lasts
  <1> QED
    BY <1>1, <1>4, <1>5, <1>6, <1>7, <1>8, Lasts DEF CredentialInv

-----------------------------------------------------------------------------
(* The invariant, and what the page promises. *)
LEMMA CredentialInductive == Spec => []CredentialInv
  <1>1. Init => CredentialInv
    BY DEF Init, CredentialInv, CredentialShape, Modes, Stages, Owned, Answered, Kept, Begun
  <1>2. CredentialInv /\ [Next]_vars => CredentialInv'
    <2> SUFFICES ASSUME CredentialInv, [Next]_vars PROVE CredentialInv'
      OBVIOUS
    <2>1. CASE UNCHANGED vars
      BY <2>1, PageMoves DEF vars, page, attempts, chain, stored, CredentialInv, CredentialShape
    <2>2. ASSUME NEW a \in Attempt,
                 \/ Start(a) \/ Phone(a) \/ FinalResultTimeout(a) \/ Submit(a) \/ ProvingFails(a)
                 \/ Api(a) \/ Answer(a) \/ Proceed(a)
          PROVE  CredentialInv'
      BY <2>2, BeginKeeps, FailuresKeep, RequestKeeps, HearAnswerKeeps, RefreshKeeps,
         RenewalKeeps, HandlerKeeps DEF Phone, Answer, Proceed
    <2> QED
      BY <2>1, <2>2, PageKeeps, HolderTxKeeps, ReloadKeeps, DropKeeps, IncludeKeeps DEF Next
  <1> QED
    BY <1>1, <1>2, PTL DEF Spec

(* A witness is filed under the wallet whose notes it opens, whichever one  *)
(* is open when the answer comes (App.tsx:1450-1476, storage.ts:145-165).   *)
THEOREM WitnessesFollow == Spec => []WitnessesFollowNotes
  <1>1. CredentialInv => WitnessesFollowNotes
    <2> SUFFICES ASSUME CredentialInv, NEW x \in witness
                 PROVE  \E r \in minted :
                          /\ r.claims = x.claims
                          /\ x = [claims |-> r.claims, owner |-> owner[r.claims], mode |-> x.mode]
      BY DEF WitnessesFollowNotes
    <2>1. PICK r \in minted : r.claims = x.claims
      BY DEF CredentialInv, Filed
    <2>2. x = Own(x.claims)
      BY DEF CredentialInv, Filed
    <2>3. x = [claims |-> x.claims, owner |-> owner[x.claims], mode |-> x.mode]
      <3> PICK a : a = x.claims
        OBVIOUS
      <3>1. Own(a) = [claims |-> a, owner |-> owner[a], mode |-> Own(a).mode]
        BY DEF Own, WitnessKey, Ref, Instagram, MintMode
      <3> QED
        BY <2>2, <3>1
    <2> QED
      BY <2>1, <2>3
  <1> QED
    BY <1>1, CredentialInductive, PTL

(* A flow that reaches its end has kept the witness of what it minted       *)
(* (App.tsx:1450-1476, passport-issuance.ts).                               *)
THEOREM WitnessesAreKept == Spec => []OnlyLossLosesWitness
  <1>1. CredentialInv => OnlyLossLosesWitness
    <2> SUFFICES ASSUME CredentialInv, NEW r \in minted, stage[r.claims] \in {"refreshing", "done"}
                 PROVE  \E x \in witness : x.claims = r.claims /\ x.owner = owner[r.claims]
      BY DEF OnlyLossLosesWitness
    <2>1. Own(r.claims) \in witness
      BY DEF CredentialInv, CredentialShape, Refs, Kept
    <2>2. Own(r.claims).claims = r.claims /\ Own(r.claims).owner = owner[r.claims]
      BY DEF Own, WitnessKey, Ref
    <2> QED
      BY <2>1, <2>2
  <1> QED
    BY <1>1, CredentialInductive, PTL

(* Where passports are rooted, a login is offered a credential whenever the *)
(* wallet holds a live one with a witness in this browser, and never a dead *)
(* one (wallet-login.ts:41-141, storage.ts:225-284).                        *)
THEOREM LoginsAreServed == Spec => []LoginServesHolder
  <1>1. CredentialInv => LoginServesHolder
    <2> SUFFICES ASSUME CredentialInv, mode = "rooted",
                        NEW w \in Wallet, NEW instagram \in BOOLEAN
                 PROVE  /\ \A r \in Selectable(w, instagram) : Live(r)
                        /\ \A r \in Discovered(w) :
                              (/\ Instagram(r) = instagram /\ Live(r)
                               /\ \E x \in witness : x.claims = r.claims /\ x.owner = w)
                              => Selectable(w, instagram) # {}
      BY DEF LoginServesHolder
    <2> DEFINE Offered(r) == /\ r \in Discovered(w) /\ Instagram(r) = instagram
               Chosen(r) ==
                 /\ Offered(r)
                 /\ r.mode = "passport" => \A x \in Discovered(w) :
                                             Instagram(x) = instagram => x # Linked(r)
                 /\ Witnessed(r, w)
                 /\ instagram \/ r.mode = "rooted" => Hinted(r, w) /\ Live(r)
    <2>1. \A r : r \in Selectable(w, instagram) => Chosen(r)
      <3> TAKE r
      <3> HAVE r \in Selectable(w, instagram)
      <3>1. PICK c \in ChainCredentials(w) :
              /\ c.ref = r /\ Instagram(r) = instagram /\ c.witnessed
              /\ r.mode = "passport" => \A x \in ChainCredentials(w) :
                                          Instagram(x.ref) = instagram => x.ref # Linked(r)
              /\ instagram \/ r.mode = "rooted" => Hinted(r, w) /\ Live(r)
        BY DEF Selectable
      <3>2. r \in Discovered(w) /\ Witnessed(r, w)
        BY <3>1 DEF ChainCredentials
      <3>3. ASSUME NEW x \in Discovered(w)
            PROVE  \E y \in ChainCredentials(w) : y.ref = x
        <4> PICK y : y = [ref |-> x, witnessed |-> Witnessed(x, w)]
          OBVIOUS
        <4> QED
          BY <3>3 DEF ChainCredentials
      <3> QED
        BY <3>1, <3>2, <3>3
    <2>6. \A r : Chosen(r) => r \in Selectable(w, instagram)
      <3> TAKE r
      <3> HAVE Chosen(r)
      <3> PICK c : c = [ref |-> r, witnessed |-> Witnessed(r, w)]
        OBVIOUS
      <3>1. c \in ChainCredentials(w) /\ c.ref = r /\ c.witnessed
        BY DEF ChainCredentials
      <3>2. \A y \in ChainCredentials(w) : y.ref \in Discovered(w)
        BY DEF ChainCredentials
      <3> QED
        BY <3>1, <3>2 DEF Selectable
    <2>2. \A r \in Discovered(w) : r \in minted /\ r \in Refs /\ owner[r.claims] = w
      BY DEF Discovered, ActiveNotes, CredentialInv, CredentialShape, Refs, Ref
    <2>3. \A r \in minted : ~Instagram(r) => r.mode = "rooted"
      BY DEF CredentialInv, CredentialShape, Refs, Issued, Instagram, MintMode
    <2>4. ASSUME NEW r \in Selectable(w, instagram) PROVE Live(r)
      BY <2>1, <2>2, <2>3, <2>4
    <2>5. ASSUME NEW r \in Discovered(w), Instagram(r) = instagram, Live(r),
                 NEW x \in witness, x.claims = r.claims, x.owner = w
          PROVE  Selectable(w, instagram) # {}
      <3>1. WitnessKey(r, w) = x
        <4> PICK a : a = r.claims
          OBVIOUS
        <4>1. x = Own(a) /\ owner[a] = w
          BY <2>2, <2>5 DEF CredentialInv, Filed
        <4>2. KindOf[a] # "instagram" => r.mode = MintMode(a)
          BY <2>2, <2>3, <2>5 DEF Instagram, MintMode, Refs
        <4> QED
          BY <4>1, <4>2 DEF Own, WitnessKey, Ref, Instagram
      <3>2. Witnessed(r, w)
        BY <2>5, <3>1 DEF Witnessed
      <3>3. Hinted(r, w)
        BY <2>2, <2>5 DEF Hinted, HintsOnce, ActiveNotes
      <3>4. ASSUME r.mode = "passport", NEW y \in Discovered(w), y = Linked(r) PROVE FALSE
        <4>1. Instagram(y) /\ y.mode = "rooted" /\ y.claims = r.claims /\ y \in minted
          BY <2>2, <2>3, <2>5, <3>4 DEF Linked, Ref, Instagram
        <4>2. Ref(r.claims, "passport") \in killed
          BY <4>1 DEF CredentialInv, Issued
        <4>3. r = Ref(r.claims, "passport")
          BY <2>2, <2>5, <3>4 DEF Refs, Ref
        <4> QED
          BY <2>5, <4>2, <4>3 DEF Live
      <3> QED
        BY <2>5, <2>6, <3>2, <3>3, <3>4
    <2> QED
      BY <2>4, <2>5
  <1> QED
    BY <1>1, CredentialInductive, PTL

=============================================================================
